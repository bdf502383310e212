-------------------------- MODULE FailureProtocol --------------------------
(***************************************************************************)
(* The three-phase failure of one download row                            *)
(* (services/queue_service.py): every actor that can fail, remove, cancel, *)
(* import or re-grab the torrent of ONE row of the table `downloads`.       *)
(*                                                                         *)
(*   Phase A  the row is moved to the non-terminal `failed_pending`          *)
(*   Phase B  the torrent is removed from qBittorrent (client I/O)          *)
(*   Phase C  `failed` + blocklist + request re-armed, in one transaction    *)
(*                                                                         *)
(* Everything in the code is keyed by the download id, so rows only share   *)
(* time: one row and any number of concurrent mark_failed calls is the      *)
(* whole protocol.  A step is what happens between two awaits: a statement   *)
(* with the commit that follows it is one step, because SQLite admits one    *)
(* writer, and a synchronous section of the event loop is one step.         *)
(***************************************************************************)
EXTENDS Naturals, FiniteSets

CONSTANTS Operators,    \* the mark_failed calls operators may have in flight
          Choices,      \* the <<blocklist, remove_torrent>> flags they may pass
          SelfHeal,     \* the mark_failed call the reconcile cycle makes itself
          MaxToken,     \* bound: claim registrations in one process lifetime
          MaxGrabs,     \* bound: times the hash is grabbed afresh
          MaxCrashes    \* bound: process crashes

ASSUME CallersAssumption == SelfHeal \notin Operators
ASSUME ChoicesAssumption == Choices \subseteq BOOLEAN \X BOOLEAN
ASSUME BoundsAssumption == /\ MaxToken \in Nat
                           /\ MaxGrabs \in Nat
                           /\ MaxCrashes \in Nat

Callers == Operators \cup {SelfHeal}

----------------------------------------------------------------------------
(* The row.  "downloading" stands for downloading, metadata_fetching and    *)
(* client_missing: this protocol treats the three alike.                    *)

Live == {"downloading", "import_pending", "import_blocked"}
Terminal == {"failed", "imported"}
Statuses == Live \cup {"importing", "failed_pending"} \cup Terminal

(* is_legal_transition(s, failed_pending), the only edge mark_failed asks of  *)
(* TRANSITIONS; `importing` is not failable.                                *)
Failable == Live

(* _CANCELLABLE_DOWNLOAD_STATE_VALUES *)
Cancellable == Live \cup {"failed_pending"}

(* The column failed_reason.  A marker is a record: who stamped it ("op", a    *)
(* mark_failed; "rec", the reconcile cycle), the blocklist flag, whether the  *)
(* removal is owed ("yes"), declined ("no") or "done", and the nonce.  Free    *)
(* text is a kind alone: "none", "env" (an environmental cause that must not  *)
(* blocklist), "blocked" (an import's), "final" (a terminal row's), "cancelled".  *)
Kinds == {"none", "env", "blocked", "final", "cancelled", "op", "rec"}
Reasons == [kind : Kinds, block : BOOLEAN, rem : {"yes", "no", "done"}, nonce : Nat]

Text(kind) == [kind |-> kind, block |-> FALSE, rem |-> "no", nonce |-> 0]
_operator_fail_marker(block, remove, nonce) ==
  [kind |-> "op", block |-> block, rem |-> IF remove THEN "yes" ELSE "no", nonce |-> nonce]
_operator_fail_marker_removal_done(block, nonce) ==
  [kind |-> "op", block |-> block, rem |-> "done", nonce |-> nonce]
_reconcile_removal_done_marker(block) ==
  [kind |-> "rec", block |-> block, rem |-> "done", nonce |-> 0]

(* _parse_operator_fail_marker(reason) is not None *)
IsMarker(reason) == reason.kind \in {"op", "rec"}

----------------------------------------------------------------------------
VARIABLES
  row,        \* [status, reason], durable
  req,        \* durable status of the owning request; "downloading" stands for
              \* import_blocked too, "settled" for completed and available
  blk,        \* durable blocklist entry written for the current grab, by reason
  torrent,    \* qBittorrent holds the hash
  claim,      \* _operator_fail_claims[id]: [token, flight]; token 0 is no claim
  guard,      \* _removals_in_flight[id], the reference count
  next,       \* the next value of _claim_tokens
  call,       \* the mark_failed calls, by caller
  rec,        \* the reconcile cycle (or the DB-only heal) of the background loop
  cancel,     \* the cancel_request in progress
  grab,       \* the grab of the same hash in progress
  kept,       \* history: the row was completed under an operator's remove=no
  wiped,      \* history: a removal of the current grab's torrent succeeded
  grabs, crashes

db == <<row, req, blk>>
registry == <<claim, guard, next>>
history == <<kept, wiped>>
bounds == <<grabs, crashes>>
vars == <<row, req, blk, torrent, claim, guard, next, call, rec, cancel, grab,
          kept, wiped, grabs, crashes>>

NoClaim == [token |-> 0, flight |-> FALSE]
NoRow == [status |-> "downloading", reason |-> Text("none")]
IdleCall == [pc |-> "idle", block |-> FALSE, remove |-> FALSE, token |-> 0,
             seen |-> NoRow, marker |-> Text("none")]
IdleCycle == [pc |-> "idle", snap |-> NoRow, to |-> "none",
              block |-> FALSE, remove |-> FALSE, op |-> FALSE, seen |-> Text("none")]
IdleGrab == [pc |-> "idle", added |-> FALSE]

Init ==
  /\ row = [status |-> "downloading", reason |-> Text("none")]
  /\ req = "downloading"
  /\ blk = "none"
  /\ torrent = TRUE
  /\ claim = NoClaim /\ guard = 0 /\ next = 1
  /\ call = [c \in Callers |-> IdleCall]
  /\ rec = IdleCycle
  /\ cancel = "idle"
  /\ grab = IdleGrab
  /\ kept = FALSE /\ wiped = FALSE
  /\ grabs = 0 /\ crashes = 0

----------------------------------------------------------------------------
(* The in-process registry.                                                 *)

_owns_operator_claim(c) == claim.token # 0 /\ claim.token = call[c].token
_is_operator_claimed == claim.token # 0
removal_in_flight == guard > 0 \/ claim.flight

(* _release_operator_claim: token-gated. *)
ReleasedClaim(c) == IF _owns_operator_claim(c) THEN NoClaim ELSE claim
register_removal_in_flight(g) == g + 1
Unrefcounted_release(g) == 0        \* mutant: a set's discard, not a count
release_removal_in_flight(g) == IF g > 0 THEN g - 1 ELSE 0

(* The predicate-atomic writes: update_status_if_in on the row's status, and  *)
(* on its exact failed_reason as well.                                      *)
StatusIs(status) == row.status = status
PendingWith(reason) == row.status = "failed_pending" /\ row.reason = reason
Restamp(reason) == row' = [row EXCEPT !.reason = reason]

(* _rearm_failed_request: compare-and-set from the non-terminal statuses.     *)
Rearmed == IF req \in {"downloading", "searching"} THEN "searching" ELSE req

(* The transaction of Phase C, given that its compare-and-set matched: the    *)
(* terminal status, the optional blocklist row and the re-arm.              *)
CompleteFailure(block, blockReason) ==
  /\ kept' = (row.reason.kind = "op" /\ row.reason.rem = "no")
  /\ row' = [status |-> "failed", reason |-> Text("final")]
  /\ blk' = IF block THEN blockReason ELSE blk
  /\ req' = Rearmed

----------------------------------------------------------------------------
(* mark_failed.  An operator's call may supersede a live claim and may adopt  *)
(* a failed_pending row; the reconcile cycle's own call may do neither.      *)

Supersedes(c) == c \in Operators
Adopts(c) == c \in Operators

Becomes(c, state) == call' = [call EXCEPT ![c] = state]
Goto(c, pc) == Becomes(c, [call[c] EXCEPT !.pc = pc])
Return(c) == Becomes(c, IdleCall)
Stamped(c) == Becomes(c, [call[c] EXCEPT !.pc = "stamped", !.seen = NoRow])
Reobserves(c) == Becomes(c, [call[c] EXCEPT !.pc = "reread", !.seen = NoRow])
Releases(c) == Becomes(c, [IdleCall EXCEPT !.pc = "release", !.token = call[c].token])
Started(block, remove, seen) ==
  [IdleCall EXCEPT !.pc = "register", !.block = block, !.remove = remove, !.seen = seen]

(* An operator's call begins with its first read; a terminal row is refused. *)
OperatorCalls(o) ==
  /\ call[o].pc = "idle"
  /\ row.status \notin Terminal
  /\ \E choice \in Choices : Becomes(o, Started(choice[1], choice[2], row))
  /\ UNCHANGED <<db, torrent, registry, rec, cancel, grab, history, bounds>>

(* _register_operator_claim, and what follows it before the next await: an    *)
(* unfailable status, or an adoption the caller forbids, raises and releases. *)
_register_operator_claim(c) ==
  /\ call[c].pc = "register"
  /\ LET refused == \/ removal_in_flight
                    \/ ~Supersedes(c) /\ _is_operator_claimed
                    \/ next > MaxToken      \* the bound, as one more refusal
         adopt == call[c].seen.status = "failed_pending"
         raises == IF adopt THEN ~Adopts(c) ELSE call[c].seen.status \notin Failable
     IN \/ refused /\ Return(c) /\ UNCHANGED <<claim, next>>
        \/ /\ ~refused
           /\ next' = next + 1
           /\ IF raises
                THEN claim' = NoClaim /\ Return(c)
                ELSE /\ claim' = [token |-> next, flight |-> FALSE]
                     /\ Becomes(c, [call[c] EXCEPT
                          !.pc = IF adopt THEN "adopt" ELSE "stamp",
                          !.token = next,
                          !.marker = _operator_fail_marker(call[c].block, call[c].remove, next)])
  /\ UNCHANGED <<db, torrent, guard, rec, cancel, grab, history, bounds>>

(* Phase A on a row that is not failing yet. *)
StampFresh(c) ==
  /\ call[c].pc = "stamp"
  /\ \/ /\ StatusIs(call[c].seen.status)
        /\ row' = [status |-> "failed_pending", reason |-> call[c].marker]
        /\ Stamped(c)
     \/ /\ ~StatusIs(call[c].seen.status)
        /\ Reobserves(c)
        /\ UNCHANGED row
  /\ UNCHANGED <<req, blk, torrent, registry, rec, cancel, grab, history, bounds>>

(* The re-read after a lost compare-and-set. *)
RereadRow(c) ==
  /\ call[c].pc = "reread"
  /\ IF StatusIs("failed_pending") /\ Adopts(c)
       THEN /\ Becomes(c, [call[c] EXCEPT !.pc = "adopt", !.seen = row])
            /\ UNCHANGED claim
       ELSE Return(c) /\ claim' = ReleasedClaim(c)
  /\ UNCHANGED <<db, torrent, guard, next, rec, cancel, grab, history, bounds>>

(* Phase A on a row that is already failing: restamp exactly the reason seen;  *)
(* a miss yields to a newer owner or re-observes.                           *)
AdoptPending(c) ==
  /\ call[c].pc = "adopt"
  /\ \/ /\ PendingWith(call[c].seen.reason)
        /\ Restamp(call[c].marker)
        /\ Stamped(c)
     \/ /\ ~PendingWith(call[c].seen.reason)
        /\ IF _owns_operator_claim(c) THEN Reobserves(c) ELSE Return(c)
        /\ UNCHANGED row
  /\ UNCHANGED <<req, blk, torrent, registry, rec, cancel, grab, history, bounds>>

(* Mutant: the claim is not released when Phase A raises. *)
Leaking_PhaseAFails(c) ==
  /\ call[c].pc \in {"stamp", "adopt"}
  /\ Return(c)
  /\ UNCHANGED <<db, torrent, registry, rec, cancel, grab, history, bounds>>

(* A Phase-A write or commit that raises: the finally releases the claim. *)
PhaseAFails(c) ==
  /\ call[c].pc \in {"stamp", "adopt"}
  /\ Return(c)
  /\ claim' = ReleasedClaim(c)
  /\ UNCHANGED <<db, torrent, guard, next, rec, cancel, grab, history, bounds>>

(* Phase B begins only for the owner, which bars every later claim. *)
BeginRemoval(c) ==
  /\ call[c].pc = "stamped"
  /\ IF call[c].remove /\ _owns_operator_claim(c)
       THEN claim' = [claim EXCEPT !.flight = TRUE] /\ Goto(c, "deleting")
       ELSE UNCHANGED claim /\ Goto(c, "complete")
  /\ UNCHANGED <<db, torrent, guard, next, rec, cancel, grab, history, bounds>>

(* purge_service.remove_torrent is best-effort.  A failed call may still have  *)
(* removed the torrent (an answer lost on the way back).                    *)
RemoveTorrent(ok) ==
  IF ok THEN torrent' = FALSE /\ wiped' = TRUE
        ELSE torrent' \in {torrent, FALSE} /\ UNCHANGED wiped

CallRemoves(c) ==
  /\ call[c].pc = "deleting"
  /\ \E ok \in BOOLEAN : RemoveTorrent(ok) /\ Goto(c, IF ok THEN "restamp" ELSE "complete")
  /\ UNCHANGED <<db, registry, rec, cancel, grab, kept, bounds>>

(* remove=yes becomes remove=done; losing the commit loses only this record. *)
RecordRemoval(c) ==
  /\ call[c].pc = "restamp"
  /\ LET done == _operator_fail_marker_removal_done(call[c].block, call[c].token)
     IN \/ /\ PendingWith(call[c].marker)
           /\ Restamp(done)
           /\ Becomes(c, [call[c] EXCEPT !.pc = "complete", !.marker = done])
        \/ UNCHANGED row /\ Goto(c, "complete")
  /\ UNCHANGED <<req, blk, torrent, registry, rec, cancel, grab, history, bounds>>

(* Phase C, at most three attempts: it wins, finds another marker and yields,  *)
(* or every attempt fails and the row stays failed_pending.                 *)
CallCompletes(c) ==
  /\ call[c].pc = "complete"
  /\ PendingWith(call[c].marker)
  /\ CompleteFailure(call[c].block, "user_reported")
  /\ Releases(c)
  /\ UNCHANGED <<torrent, registry, rec, cancel, grab, wiped, bounds>>

(* Mutant: a call that exhausts its attempts returns past its finally. *)
Leaking_CallYields(c) ==
  /\ call[c].pc = "complete"
  /\ Return(c)
  /\ UNCHANGED <<db, torrent, registry, rec, cancel, grab, history, bounds>>

CallYields(c) ==
  /\ call[c].pc = "complete"
  /\ Releases(c)
  /\ UNCHANGED <<db, torrent, registry, rec, cancel, grab, history, bounds>>

ReleaseClaim(c) ==
  /\ call[c].pc = "release"
  /\ claim' = ReleasedClaim(c)
  /\ Return(c)
  /\ UNCHANGED <<db, torrent, guard, next, rec, cancel, grab, history, bounds>>

MarkFailed(c) ==
  \/ _register_operator_claim(c) \/ StampFresh(c) \/ RereadRow(c)
  \/ AdoptPending(c) \/ PhaseAFails(c) \/ BeginRemoval(c) \/ CallRemoves(c)
  \/ RecordRemoval(c) \/ CallCompletes(c) \/ CallYields(c) \/ ReleaseClaim(c)

----------------------------------------------------------------------------
(* reconcile_and_list, one cycle at a time in the background loop.           *)

CycleAt(pc) == rec' = [rec EXCEPT !.pc = pc]
CycleEnds == rec' = IdleCycle
CycleWaits == rec' = [IdleCycle EXCEPT !.pc = "healing"]
CycleSettles == rec' = [IdleCycle EXCEPT !.pc = "settle", !.remove = rec.remove]

(* The cycle's own mark_failed.  Its first read comes from the cycle's session,  *)
(* whose identity map may still hold the row of the snapshot.                 *)
CycleCalls(block, seen) ==
  IF seen.status \in Terminal THEN UNCHANGED call
  ELSE Becomes(SelfHeal, Started(block, TRUE, seen))

(* What the pure reconciler can decide for a row: only the polled statuses    *)
(* move (domain/reconciler.py).                                             *)
Decisions(status) ==
  CASE status = "downloading" -> {"none", "import_pending", "failed_pending"}
    [] status = "import_pending" -> {"none", "downloading", "failed_pending"}
    [] OTHER -> {"none"}

SnapshotRows ==
  /\ rec.pc = "idle"
  /\ row.status \notin Terminal
  /\ rec' = [IdleCycle EXCEPT !.pc = "client", !.snap = row]
  /\ UNCHANGED <<db, torrent, registry, call, cancel, grab, history, bounds>>

PollClient ==
  /\ rec.pc = "client"
  /\ \E to \in Decisions(rec.snap.status) : rec' = [rec EXCEPT !.pc = "apply", !.to = to]
  /\ UNCHANGED <<db, torrent, registry, call, cancel, grab, history, bounds>>

(* The client or the database raises before anything was written. *)
CycleAborts ==
  /\ rec.pc \in {"client", "apply"}
  /\ CycleEnds
  /\ UNCHANGED <<db, torrent, registry, call, cancel, grab, history, bounds>>

(* A row whose payload is held for inspection and is rejected (or whose        *)
(* metadata is restarted, without a blocklist row) leaves the cycle for a     *)
(* mark_failed of its own; a row caught importing is unblocked first.        *)
RejectHeldPayload ==
  /\ rec.pc = "apply"
  /\ rec.snap.status \in Live \cup {"importing"}
  /\ ~_is_operator_claimed
  /\ \/ /\ rec.snap.status = "importing"
        /\ StatusIs("importing")
        /\ row' = [row EXCEPT !.status = "import_blocked"]
     \/ rec.snap.status # "importing" /\ UNCHANGED row
  /\ \E block \in BOOLEAN, seen \in {row', rec.snap} :
       CycleCalls(block, seen)
  /\ CycleWaits
  /\ UNCHANGED <<req, blk, torrent, registry, cancel, grab, history, bounds>>

(* Phase A: every decided transition that still finds its row, in one commit.  *)
(* The cycle goes on with a row it just failed, and with a row the reconciler   *)
(* had nothing to say about that is failing already or may have stalled.      *)
ApplyTransition ==
  /\ rec.pc = "apply"
  /\ LET applies == rec.to # "none" /\ ~_is_operator_claimed /\ StatusIs(rec.snap.status)
     IN /\ row' = IF applies THEN [row EXCEPT !.status = rec.to] ELSE row
        /\ IF applies /\ rec.to = "failed_pending" THEN CycleAt("detected")
           ELSE IF rec.to = "none" /\ rec.snap.status \in {"downloading", "failed_pending"}
             THEN CycleAt("build")
             ELSE CycleEnds
  /\ UNCHANGED <<req, blk, torrent, registry, call, cancel, grab, history, bounds>>

(* _self_heal_stalled_download, for a stalled row no transition was decided for. *)
HealStall ==
  /\ rec.pc = "build"
  /\ rec.snap.status = "downloading"
  /\ ~_is_operator_claimed
  /\ \E seen \in {row, rec.snap} : CycleCalls(TRUE, seen)
  /\ CycleWaits
  /\ UNCHANGED <<db, torrent, registry, cancel, grab, history, bounds>>

StallHealed ==
  /\ rec.pc = "healing"
  /\ call[SelfHeal].pc = "idle"
  /\ CycleEnds
  /\ UNCHANGED <<db, torrent, registry, call, cancel, grab, history, bounds>>

(* A failure this cycle detected.  An environmental one must not blocklist, and  *)
(* says so durably first (_persist_environmental_reason).                    *)
BuildDetected ==
  /\ rec.pc = "detected"
  /\ \E block \in BOOLEAN :
       LET completion == [IdleCycle EXCEPT !.pc = "begin", !.block = block,
                                           !.remove = TRUE, !.seen = rec.snap.reason]
       IN \/ rec' = completion /\ UNCHANGED row
          \/ /\ ~block /\ ~_is_operator_claimed
             /\ PendingWith(rec.snap.reason)
             /\ Restamp(Text("env"))
             /\ rec' = [completion EXCEPT !.seen = Text("env")]
  /\ UNCHANGED <<req, blk, torrent, registry, call, cancel, grab, history, bounds>>

(* A residual of an earlier cycle or call: its marker says how to finish it. *)
BuildResidual ==
  /\ rec.pc = "build"
  /\ rec.snap.status = "failed_pending"
  /\ LET reason == rec.snap.reason
     IN rec' = [IdleCycle EXCEPT
                  !.pc = "begin", !.seen = reason, !.op = (reason.kind = "op"),
                  !.block = IF IsMarker(reason) THEN reason.block ELSE reason.kind # "env",
                  !.remove = IF IsMarker(reason) THEN reason.rem = "yes" ELSE TRUE]
  /\ UNCHANGED <<db, torrent, registry, call, cancel, grab, history, bounds>>

BuildNothing ==
  /\ rec.pc = "build"
  /\ rec.snap.status = "downloading"
  /\ CycleEnds
  /\ UNCHANGED <<db, torrent, registry, call, cancel, grab, history, bounds>>

(* Phase B: a claimed completion is dropped; the guard goes up in the same     *)
(* synchronous section as that check.                                       *)
GuardRemoval ==
  /\ rec.pc = "begin"
  /\ IF _is_operator_claimed THEN CycleEnds /\ UNCHANGED guard
     ELSE IF rec.remove THEN CycleAt("reproof") /\ guard' = register_removal_in_flight(guard)
     ELSE CycleAt("complete") /\ UNCHANGED guard
  /\ UNCHANGED <<db, torrent, claim, next, call, cancel, grab, history, bounds>>

(* Mutants: no re-proof before the delete; a skipped delete keeps its guard. *)
Unproved_ReproveRow ==
  /\ rec.pc = "reproof"
  /\ CycleAt("deleting")
  /\ UNCHANGED <<db, torrent, registry, call, cancel, grab, history, bounds>>
Leaking_ReproveRow ==
  /\ rec.pc = "reproof"
  /\ IF PendingWith(rec.seen) THEN CycleAt("deleting") ELSE CycleEnds
  /\ UNCHANGED <<db, torrent, registry, call, cancel, grab, history, bounds>>

(* The durable re-proof immediately before the delete. *)
ReproveRow ==
  /\ rec.pc = "reproof"
  /\ IF PendingWith(rec.seen)
       THEN CycleAt("deleting") /\ UNCHANGED guard
       ELSE CycleEnds /\ guard' = release_removal_in_flight(guard)
  /\ UNCHANGED <<db, torrent, claim, next, call, cancel, grab, history, bounds>>

CycleRemoves ==
  /\ rec.pc = "deleting"
  /\ \E ok \in BOOLEAN : RemoveTorrent(ok) /\ CycleAt(IF ok THEN "restamp" ELSE "complete")
  /\ UNCHANGED <<db, registry, call, cancel, grab, kept, bounds>>

CycleRecordsRemoval ==
  /\ rec.pc = "restamp"
  /\ LET done == IF IsMarker(rec.seen)
                   THEN _operator_fail_marker_removal_done(rec.seen.block, rec.seen.nonce)
                   ELSE _reconcile_removal_done_marker(rec.block)
     IN \/ /\ PendingWith(rec.seen)
           /\ Restamp(done)
           /\ rec' = [rec EXCEPT !.pc = "complete", !.seen = done]
        \/ UNCHANGED row /\ CycleAt("complete")
  /\ UNCHANGED <<req, blk, torrent, registry, call, cancel, grab, history, bounds>>

(* Mutant: the compare-and-set of Phase C is on the status alone. *)
StatusOnly_handle_failed ==
  /\ rec.pc = "complete"
  /\ ~_is_operator_claimed
  /\ StatusIs("failed_pending")
  /\ CompleteFailure(rec.block, IF rec.op THEN "user_reported" ELSE "failed")
  /\ CycleSettles
  /\ UNCHANGED <<torrent, registry, call, cancel, grab, wiped, bounds>>

(* Phase C (_handle_failed): on the exact reason the completion observed. *)
_handle_failed ==
  /\ rec.pc = "complete"
  /\ ~_is_operator_claimed
  /\ PendingWith(rec.seen)
  /\ CompleteFailure(rec.block, IF rec.op THEN "user_reported" ELSE "failed")
  /\ CycleSettles
  /\ UNCHANGED <<torrent, registry, call, cancel, grab, wiped, bounds>>

CycleYields ==
  /\ rec.pc = "complete"
  /\ CycleSettles
  /\ UNCHANGED <<db, torrent, registry, call, cancel, grab, history, bounds>>

(* The cycle-scope finally: only a guard this cycle registered is released. *)
SettleCycle ==
  /\ rec.pc = "settle"
  /\ guard' = IF rec.remove THEN release_removal_in_flight(guard) ELSE guard
  /\ CycleEnds
  /\ UNCHANGED <<db, torrent, claim, next, call, cancel, grab, history, bounds>>

(* heal_failed_pending_without_client: no client, so only a residual that      *)
(* needs no removal.                                                       *)
heal_failed_pending_without_client ==
  /\ rec.pc = "idle"
  /\ StatusIs("failed_pending")
  /\ IsMarker(row.reason) /\ row.reason.rem # "yes"
  /\ ~_is_operator_claimed
  /\ rec' = [IdleCycle EXCEPT !.pc = "complete", !.seen = row.reason,
                              !.block = row.reason.block, !.op = (row.reason.kind = "op")]
  /\ UNCHANGED <<db, torrent, registry, call, cancel, grab, history, bounds>>

ReconcileCycle ==
  \/ SnapshotRows \/ PollClient \/ CycleAborts \/ RejectHeldPayload \/ ApplyTransition
  \/ HealStall \/ StallHealed \/ BuildDetected \/ BuildResidual \/ BuildNothing
  \/ GuardRemoval \/ ReproveRow \/ CycleRemoves \/ CycleRecordsRemoval
  \/ _handle_failed \/ CycleYields \/ SettleCycle \/ heal_failed_pending_without_client

----------------------------------------------------------------------------
(* cancel_request: the guard goes up before the terminal commit, and comes     *)
(* down when the removal has returned.                                      *)

_cancel_request_locked ==
  /\ cancel = "idle"
  /\ req \in {"downloading", "searching"}
  /\ row.status \in Cancellable
  /\ row' = [status |-> "failed", reason |-> Text("cancelled")]
  /\ req' = "cancelled"
  /\ guard' = register_removal_in_flight(guard)
  /\ cancel' = "deleting"
  /\ UNCHANGED <<blk, torrent, claim, next, call, rec, grab, history, bounds>>

CancelRemoves ==
  /\ cancel = "deleting"
  /\ \E ok \in BOOLEAN : RemoveTorrent(ok)
  /\ cancel' = "release"
  /\ UNCHANGED <<db, registry, call, rec, grab, kept, bounds>>

CancelReleases ==
  /\ cancel = "release"
  /\ guard' = release_removal_in_flight(guard)
  /\ cancel' = "idle"
  /\ UNCHANGED <<db, torrent, claim, next, call, rec, grab, history, bounds>>

----------------------------------------------------------------------------
(* grab_service.grab of the same hash for another (or the re-armed) request.   *)

(* A known hash is looked up first and refused early; an unknown one is not, so   *)
(* the add may find the row in any status.                                   *)
GrabAdds ==
  /\ grab.pc = "idle" /\ grabs < MaxGrabs
  /\ grabs' = grabs + 1
  /\ torrent' = TRUE
  /\ grab' = [pc |-> "own", added |-> ~torrent]
  /\ UNCHANGED <<db, registry, call, rec, cancel, history, crashes>>

(* The row is looked up: an active one belongs to someone else, and a terminal one *)
(* is refused while its torrent is being removed.                            *)
GrabFindsRow ==
  /\ grab.pc = "own"
  /\ grab' = IF row.status \notin Terminal THEN IdleGrab
             ELSE IF ~removal_in_flight THEN [grab EXCEPT !.pc = "cas"]
             ELSE IF grab.added THEN [grab EXCEPT !.pc = "undo"] ELSE IdleGrab
  /\ UNCHANGED <<db, torrent, registry, call, rec, cancel, history, bounds>>

(* The compare-and-set that re-owns the row, committed with the request's own  *)
(* move to downloading.                                                     *)
_reuse_terminal_row ==
  /\ grab.pc = "cas"
  /\ row.status \in Terminal
  /\ row' = [status |-> "downloading", reason |-> Text("none")]
  /\ req' = "downloading"
  /\ blk' = "none"
  /\ kept' = FALSE /\ wiped' = FALSE
  /\ grab' = IdleGrab
  /\ UNCHANGED <<torrent, registry, call, rec, cancel, bounds>>

(* The request was cancelled or moved on mid-grab. *)
GrabLoses ==
  /\ grab.pc = "cas"
  /\ grab' = IF grab.added THEN [grab EXCEPT !.pc = "undo"] ELSE IdleGrab
  /\ UNCHANGED <<db, torrent, registry, call, rec, cancel, history, bounds>>

_remove_torrent_if_added ==
  /\ grab.pc = "undo"
  /\ torrent' \in {torrent, FALSE}
  /\ grab' = IdleGrab
  /\ UNCHANGED <<db, registry, call, rec, cancel, history, bounds>>

Grab == GrabAdds \/ GrabFindsRow
        \/ _reuse_terminal_row \/ GrabLoses \/ _remove_torrent_if_added

----------------------------------------------------------------------------
(* import_service: the row is claimed and imported, blocked for the operator, or     *)
(* handed back because its torrent is moving again; each is one compare-and-set.   *)
Resumable == {"import_pending", "import_blocked", "importing"}

ImportMoves(from, to, reason, request) ==
  /\ row.status \in from
  /\ row' = [status |-> to, reason |-> reason]
  /\ req' = request
  /\ UNCHANGED <<blk, torrent, registry, call, rec, cancel, grab, history, bounds>>

ImportClaims == ImportMoves(Resumable, "importing", Text("none"), req)
ImportSettles == ImportMoves({"importing"}, "imported", Text("none"), "settled")
_block == ImportMoves(Resumable, "import_blocked", Text("blocked"), "downloading")
ImportDefers == ImportMoves(Resumable, "downloading", Text("none"), "downloading")

(* The process dies and restarts: the registry, the token counter and every    *)
(* task are gone; a removal that was on the wire may or may not have happened. *)
Crash ==
  /\ crashes < MaxCrashes
  /\ crashes' = crashes + 1
  /\ claim' = NoClaim /\ guard' = 0 /\ next' = 1
  /\ call' = [c \in Callers |-> IdleCall]
  /\ rec' = IdleCycle
  /\ cancel' = "idle"
  /\ grab' = IdleGrab
  /\ torrent' \in IF \/ rec.pc = "deleting" \/ cancel = "deleting" \/ grab.pc = "undo"
                     \/ \E c \in Callers : call[c].pc = "deleting"
                    THEN {torrent, FALSE} ELSE {torrent}
  /\ UNCHANGED <<db, history, grabs>>

Next ==
  \/ \E o \in Operators : OperatorCalls(o)
  \/ \E c \in Callers : MarkFailed(c)
  \/ ReconcileCycle
  \/ _cancel_request_locked \/ CancelRemoves \/ CancelReleases
  \/ Grab
  \/ ImportClaims \/ ImportSettles \/ _block \/ ImportDefers
  \/ Crash

Spec == Init /\ [][Next]_vars

(* Tasks of the event loop keep running, the background loop starts a new cycle   *)
(* after every one, and neither the client nor the database fails for ever: a     *)
(* poll, a Phase-A commit and a Phase-C commit that are tried again and again     *)
(* succeed in the end.  Operators, cancels, grabs and crashes owe nothing.      *)
Fairness ==
  /\ \A c \in Callers : WF_vars(MarkFailed(c))
  /\ WF_vars(ReconcileCycle)
  /\ SF_vars(PollClient)
  /\ SF_vars(ApplyTransition)
  /\ SF_vars(_handle_failed)

FairSpec == Spec /\ Fairness

----------------------------------------------------------------------------
(* Properties.                                                              *)

CallPcs == {"idle", "register", "stamp", "reread", "adopt", "stamped",
            "deleting", "restamp", "complete", "release"}
CyclePcs == {"idle", "client", "apply", "healing", "detected", "build", "begin", "reproof",
             "deleting", "restamp", "complete", "settle"}
Rows == [status : Statuses, reason : Reasons]
Calls == [pc : CallPcs, block : BOOLEAN, remove : BOOLEAN, token : Nat,
          seen : Rows, marker : Reasons]
Cycles == [pc : CyclePcs, snap : Rows,
           to : {"none", "downloading", "import_pending", "failed_pending"},
           block : BOOLEAN, remove : BOOLEAN, op : BOOLEAN, seen : Reasons]

(* The type of every variable of the protocol. *)
TypeOK ==
  /\ row \in Rows
  /\ req \in {"downloading", "searching", "cancelled", "settled"}
  /\ blk \in {"none", "user_reported", "failed"}
  /\ torrent \in BOOLEAN
  /\ claim \in [token : Nat, flight : BOOLEAN]
  /\ guard \in Nat
  /\ next \in Nat \ {0}
  /\ call \in [Callers -> Calls]
  /\ rec \in Cycles
  /\ cancel \in {"idle", "deleting", "release"}
  /\ grab \in [pc : {"idle", "own", "cas", "undo"}, added : BOOLEAN]
  /\ kept \in BOOLEAN /\ wiped \in BOOLEAN
  /\ grabs \in Nat /\ crashes \in Nat

(* The reference count is exactly the number of actors whose removal has not    *)
(* settled: a cycle from its guard to its finally, and a cancel from before its *)
(* commit to its finally.  A count too low re-opens the reuse-during-delete     *)
(* race, a count too high bars the operators of the row until a restart.      *)
CycleHolds == \/ rec.pc \in {"reproof", "deleting", "restamp"}
              \/ rec.pc \in {"complete", "settle"} /\ rec.remove
CancelHolds == cancel \in {"deleting", "release"}
GuardAccounting ==
  guard = (IF CycleHolds THEN 1 ELSE 0) + (IF CancelHolds THEN 1 ELSE 0)

(* A claim always belongs to a mark_failed call still in flight, and it is       *)
(* flagged exactly while that call is past the start of its removal: a leaked    *)
(* claim would make the row invisible to the reconcile loop for ever.         *)
ClaimHasOwner ==
  claim.token # 0 =>
    \E c \in Callers :
      /\ call[c].token = claim.token
      /\ call[c].pc \notin {"idle", "register"}
      /\ call[c].pc \in {"deleting", "restamp"} => claim.flight

(* Issue #206: while the reconcile cycle or a cancel is deleting the torrent,     *)
(* the row is still the failed one it decided about; no grab has re-owned it.   *)
GuardedDeleteSparesRegrab ==
  rec.pc = "deleting" \/ cancel = "deleting" => row.status \in {"failed_pending", "failed"}

(* Removal physics: no automatic delete (the cycle's own, or the mark_failed it   *)
(* makes for a stalled or rejected row) runs against a row that an operator's    *)
(* remove=no governs, or that was completed under one.                        *)
AutomaticDelete == rec.pc = "deleting" \/ call[SelfHeal].pc = "deleting"
KeptByOperator == \/ row.status = "failed_pending" /\ row.reason.kind = "op" /\ row.reason.rem = "no"
                  \/ row.status = "failed" /\ kept
AutomaticDeleteSparesKept == AutomaticDelete => ~KeptByOperator

(* A removal that is recorded as done happened: no healer skips a removal that    *)
(* is still owed.                                                           *)
DoneMeansRemoved ==
  row.status = "failed_pending" /\ row.reason.rem = "done" => wiped

(* What is removed is what the marker says: nothing that an operator keeps is      *)
(* deleted behind it, and nothing is taken for deleted that is not.           *)
RemovalIsHonest == AutomaticDeleteSparesKept /\ DoneMeansRemoved

(* The marker never survives on a terminal row, and a terminal failure never      *)
(* leaves its request downloading.                                          *)
TerminalIsSettled ==
  row.status = "failed" => ~IsMarker(row.reason) /\ req # "downloading"

(* No failure is left half done that nobody will finish: a claim has its call, a     *)
(* terminal row its re-armed request.                                       *)
FailureIsSettled == ClaimHasOwner /\ TerminalIsSettled

(* What may become of a row that carries a mark_failed marker: it stays, its       *)
(* removal is recorded, a live operator call restamps it with its own flags, a    *)
(* cancel settles it, or it is completed with exactly the blocklist choice the    *)
(* marker carries -- whoever completes it, and across restarts.                *)
Governed ==
  LET old == row.reason  new == row'.reason
  IN row.status = "failed_pending" /\ old.kind = "op" /\ row' # row =>
       \/ /\ row'.status = "failed_pending"
          /\ old.rem = "yes" /\ new = [old EXCEPT !.rem = "done"]
       \/ /\ row'.status = "failed_pending"
          /\ \E o \in Operators :
               new = _operator_fail_marker(call[o].block, call[o].remove, call[o].token)
       \/ row'.status = "failed" /\ new = Text("cancelled")
       \/ /\ row'.status = "failed" /\ new = Text("final")
          /\ blk' = (IF old.block THEN "user_reported" ELSE blk)

(* A marker governs its row in every step.                                   *)
MarkerGoverns == [][Governed]_vars

(* Nothing strands: a failing row is completed (or cancelled) in the end, whatever  *)
(* call died or exhausted its attempts, across a restart.                      *)
PendingCompletes == row.status = "failed_pending" ~> row.status # "failed_pending"
=============================================================================
