----------------------- MODULE FailureProtocolProofs -----------------------
(***************************************************************************)
(* Proofs about FailureProtocol, for any set of operators and any bounds:     *)
(*   TypeCorrect  the type invariant;                                       *)
(*   RegrabSafe   no row is re-grabbed while a guarded delete of its torrent   *)
(*                is under way;                                            *)
(*   GuardExact   the reference count of removals in flight is exact;         *)
(*   NothingHalfDone  a claim has its call, a terminal failure its settled request; *)
(*   MarkerRules  a mark_failed marker governs its row in every step;           *)
(*   DoneIsRemoved  a removal that is recorded happened;                        *)
(*   RemovalAlwaysHonest  and with one operator no automatic delete hits a torrent  *)
(*                that operator keeps.                                         *)
(***************************************************************************)
EXTENDS FailureProtocol, TLAPS

(* Every value the code writes to failed_reason is a Reason. *)
LEMMA ReasonTypes ==
  /\ \A k \in Kinds : Text(k) \in Reasons
  /\ \A b \in BOOLEAN, n \in Nat : _operator_fail_marker_removal_done(b, n) \in Reasons
  /\ \A b, r \in BOOLEAN, n \in Nat : _operator_fail_marker(b, r, n) \in Reasons
  /\ \A b \in BOOLEAN : _reconcile_removal_done_marker(b) \in Reasons
  /\ \A r \in Reasons : r.kind \in Kinds /\ r.block \in BOOLEAN /\ r.rem \in {"yes", "no", "done"} /\ r.nonce \in Nat
  BY DEF Reasons, Kinds, Text, _operator_fail_marker_removal_done, _operator_fail_marker, _reconcile_removal_done_marker

(* Building a row, or updating one of its two columns, gives a row. *)
LEMMA RowTypes ==
  /\ \A s \in Statuses, r \in Reasons : [status |-> s, reason |-> r] \in Rows
  /\ \A w \in Rows : w.status \in Statuses /\ w.reason \in Reasons
  /\ \A w \in Rows, s \in Statuses : [w EXCEPT !.status = s] \in Rows
  /\ \A w \in Rows, r \in Reasons : [w EXCEPT !.reason = r] \in Rows
  BY DEF Rows

(* The records a task starts from are well typed. *)
LEMMA IdleTypes == Text("none") \in Reasons /\ NoRow \in Rows /\ IdleCall \in Calls /\ IdleCycle \in Cycles
  <1>1. NoRow \in Rows
    BY ReasonTypes, RowTypes DEF NoRow, Kinds, Statuses, Live
  <1>2. Text("none") \in Reasons
    BY ReasonTypes DEF Kinds
  <1>3. IdleCall \in Calls
    BY <1>1, <1>2 DEF IdleCall, Calls, CallPcs
  <1>4. IdleCycle \in Cycles
    BY <1>1, <1>2 DEF IdleCycle, Cycles, CyclePcs
  <1>. QED BY <1>1, <1>2, <1>3, <1>4

(* The fields of a mark_failed call. *)
LEMMA CallFields ==
  \A k \in Calls : /\ k.pc \in CallPcs /\ k.block \in BOOLEAN /\ k.remove \in BOOLEAN
                   /\ k.token \in Nat /\ k.seen \in Rows /\ k.marker \in Reasons
  BY DEF Calls

(* The updates the steps of mark_failed make to their call keep its type. *)
LEMMA CallUpdates ==
  ASSUME NEW k \in Calls, NEW pc \in CallPcs
  PROVE /\ [k EXCEPT !.pc = pc] \in Calls
        /\ \A w \in Rows : [k EXCEPT !.pc = pc, !.seen = w] \in Calls
        /\ \A m \in Reasons : [k EXCEPT !.pc = pc, !.marker = m] \in Calls
        /\ \A t \in Nat, m \in Reasons : [k EXCEPT !.pc = pc, !.token = t, !.marker = m] \in Calls
        /\ \A b, r \in BOOLEAN, w \in Rows : [k EXCEPT !.pc = pc, !.block = b, !.remove = r, !.seen = w] \in Calls
  BY DEF Calls

(* The fields of a reconcile cycle. *)
LEMMA CycleFields ==
  \A k \in Cycles : /\ k.pc \in CyclePcs /\ k.snap \in Rows /\ k.block \in BOOLEAN /\ k.remove \in BOOLEAN
                    /\ k.op \in BOOLEAN /\ k.seen \in Reasons
                    /\ k.to \in {"none", "downloading", "import_pending", "failed_pending"}
  BY DEF Cycles

(* The updates the steps of a cycle make to it keep its type. *)
LEMMA CycleUpdates ==
  ASSUME NEW k \in Cycles, NEW pc \in CyclePcs
  PROVE /\ [k EXCEPT !.pc = pc] \in Cycles
        /\ \A w \in Rows : [k EXCEPT !.pc = pc, !.snap = w] \in Cycles
        /\ \A to \in {"none", "downloading", "import_pending", "failed_pending"} : [k EXCEPT !.pc = pc, !.to = to] \in Cycles
        /\ \A m \in Reasons : [k EXCEPT !.pc = pc, !.seen = m] \in Cycles
        /\ \A b, r \in BOOLEAN, m \in Reasons : [k EXCEPT !.pc = pc, !.block = b, !.remove = r, !.seen = m] \in Cycles
        /\ \A b, r, o \in BOOLEAN, m \in Reasons : [k EXCEPT !.pc = pc, !.seen = m, !.op = o, !.block = b, !.remove = r] \in Cycles
        /\ \A b, o \in BOOLEAN, m \in Reasons : [k EXCEPT !.pc = pc, !.seen = m, !.block = b, !.op = o] \in Cycles
  BY DEF Cycles

(* The initial state is well typed. *)
LEMMA TypeInit == Init => TypeOK
  <1>. SUFFICES ASSUME Init PROVE TypeOK
    OBVIOUS
  <1>1. row \in Rows
    BY IdleTypes DEF Init, NoRow
  <1>2. call \in [Callers -> Calls] /\ rec \in Cycles
    BY IdleTypes DEF Init
  <1>3. claim \in [token : Nat, flight : BOOLEAN]
    BY DEF Init, NoClaim
  <1>4. grab \in [pc : {"idle", "own", "cas", "undo"}, added : BOOLEAN]
    BY DEF Init, IdleGrab
  <1>5. kept \in BOOLEAN /\ wiped \in BOOLEAN /\ torrent \in BOOLEAN
    BY DEF Init
  <1>6. guard \in Nat /\ next \in Nat \ {0} /\ grabs \in Nat /\ crashes \in Nat
    BY DEF Init
  <1>7. /\ req \in {"downloading", "searching", "cancelled", "settled"}
        /\ blk \in {"none", "user_reported", "failed"}
        /\ cancel \in {"idle", "deleting", "release"}
    BY DEF Init
  <1>. QED
    BY <1>1, <1>2, <1>3, <1>4, <1>5, <1>6, <1>7 DEF TypeOK

(* A call replaced by a well-typed one. *)
LEMMA BecomesType ==
  ASSUME TypeOK, NEW c \in Callers, NEW k \in Calls, Becomes(c, k)
  PROVE  call' \in [Callers -> Calls]
  BY DEF TypeOK, Becomes

(* A call that only moves on. *)
LEMMA GotoType ==
  ASSUME TypeOK, NEW c \in Callers, NEW pc \in CallPcs, Goto(c, pc)
  PROVE  call' \in [Callers -> Calls]
  <1>1. [call[c] EXCEPT !.pc = pc] \in Calls
    BY CallUpdates DEF TypeOK
  <1>. QED BY <1>1, BecomesType DEF Goto

(* A call that returns. *)
LEMMA ReturnType ==
  ASSUME TypeOK, NEW c \in Callers, Return(c)
  PROVE  call' \in [Callers -> Calls]
  BY IdleTypes, BecomesType DEF Return

(* A call whose Phase A committed, or that observes the row again. *)
LEMMA StampedType ==
  ASSUME TypeOK, NEW c \in Callers, Stamped(c) \/ Reobserves(c)
  PROVE  call' \in [Callers -> Calls]
  <1>1. /\ [call[c] EXCEPT !.pc = "stamped", !.seen = NoRow] \in Calls
        /\ [call[c] EXCEPT !.pc = "reread", !.seen = NoRow] \in Calls
    BY CallUpdates, IdleTypes DEF TypeOK, CallPcs
  <1>. QED BY <1>1, BecomesType DEF Stamped, Reobserves

(* A call that is done but for its finally. *)
LEMMA ReleasesType ==
  ASSUME TypeOK, NEW c \in Callers, Releases(c)
  PROVE  call' \in [Callers -> Calls]
  <1>1. call[c].token \in Nat
    BY CallFields DEF TypeOK
  <1>2. [IdleCall EXCEPT !.pc = "release", !.token = call[c].token] \in Calls
    BY <1>1, IdleTypes DEF Calls, CallPcs
  <1>. QED BY <1>2, BecomesType DEF Releases

(* A call that has just been made. *)
LEMMA StartedType ==
  ASSUME NEW b \in BOOLEAN, NEW r \in BOOLEAN, NEW w \in Rows
  PROVE  Started(b, r, w) \in Calls
  BY CallUpdates, IdleTypes DEF Started, CallPcs

(* The claim after _release_operator_claim. *)
LEMMA ReleasedType ==
  ASSUME TypeOK, NEW c \in Callers
  PROVE  ReleasedClaim(c) \in [token : Nat, flight : BOOLEAN]
  <1>1. NoClaim \in [token : Nat, flight : BOOLEAN]
    BY DEF NoClaim
  <1>. QED BY <1>1 DEF ReleasedClaim, TypeOK

(* A cycle that only moves on. *)
LEMMA CycleAtType ==
  ASSUME TypeOK, NEW pc \in CyclePcs, CycleAt(pc)
  PROVE  rec' \in Cycles
  BY CycleUpdates DEF TypeOK, CycleAt

(* A cycle that ends, waits for the call it made, or is done but for its finally. *)
LEMMA CycleEndsType ==
  ASSUME TypeOK, CycleEnds \/ CycleWaits \/ CycleSettles
  PROVE  rec' \in Cycles
  <1>1. [IdleCycle EXCEPT !.pc = "healing"] \in Cycles
    BY CycleUpdates, IdleTypes DEF CyclePcs
  <1>2. rec.remove \in BOOLEAN
    BY CycleFields DEF TypeOK
  <1>3. [IdleCycle EXCEPT !.pc = "settle", !.remove = rec.remove] \in Cycles
    BY <1>2, IdleTypes DEF Cycles, CyclePcs
  <1>. QED BY <1>1, <1>3, IdleTypes DEF CycleEnds, CycleWaits, CycleSettles

(* A restamp of failed_reason. *)
LEMMA RestampType ==
  ASSUME TypeOK, NEW r \in Reasons, Restamp(r)
  PROVE  row' \in Rows
  BY RowTypes DEF TypeOK, Restamp

(* The transaction of Phase C. *)
LEMMA CompleteType ==
  ASSUME TypeOK, NEW b \in BOOLEAN, NEW k \in {"user_reported", "failed"}, CompleteFailure(b, k)
  PROVE  /\ row' \in Rows
         /\ kept' \in BOOLEAN
         /\ req' \in {"downloading", "searching", "cancelled", "settled"}
         /\ blk' \in {"none", "user_reported", "failed"}
  <1>1. row' \in Rows
    BY RowTypes, ReasonTypes DEF CompleteFailure, Statuses, Terminal, Kinds
  <1>2. kept' \in BOOLEAN
    BY DEF CompleteFailure
  <1>3. req' \in {"downloading", "searching", "cancelled", "settled"}
    BY DEF CompleteFailure, Rearmed, TypeOK
  <1>4. blk' \in {"none", "user_reported", "failed"}
    BY DEF CompleteFailure, TypeOK
  <1>. QED BY <1>1, <1>2, <1>3, <1>4

(* A best-effort removal. *)
LEMMA RemoveTorrentType ==
  ASSUME TypeOK, NEW ok \in BOOLEAN, RemoveTorrent(ok)
  PROVE  torrent' \in BOOLEAN /\ wiped' \in BOOLEAN
  BY DEF RemoveTorrent, TypeOK

(* One mark_failed step. *)
LEMMA MarkFailedType ==
  ASSUME TypeOK, NEW c \in Callers, MarkFailed(c)
  PROVE  TypeOK'
  <1>0. call[c] \in Calls
    BY DEF TypeOK
  <1>1. CASE _register_operator_claim(c)
    <2>1. _operator_fail_marker(call[c].block, call[c].remove, next) \in Reasons
      BY <1>0, ReasonTypes, CallFields DEF TypeOK
    <2>2. \A pc \in {"adopt", "stamp"}, m \in Reasons :
            [call[c] EXCEPT !.pc = pc, !.token = next, !.marker = m] \in Calls
      BY <1>0 DEF Calls, CallPcs, TypeOK
    <2>3. call' \in [Callers -> Calls]
      BY <1>1, <2>1, <2>2, IdleTypes, ZenonT(60) DEF _register_operator_claim, Return, Becomes, TypeOK
    <2>4. claim' = claim \/ claim' = NoClaim \/ claim' = [token |-> next, flight |-> FALSE]
      BY <1>1, Zenon DEF _register_operator_claim
    <2>5. NoClaim \in [token : Nat, flight : BOOLEAN]
      BY DEF NoClaim
    <2>6. [token |-> next, flight |-> FALSE] \in [token : Nat, flight : BOOLEAN]
      BY DEF TypeOK
    <2>7. claim' \in [token : Nat, flight : BOOLEAN]
      BY <2>4, <2>5, <2>6 DEF TypeOK
    <2>8. next' \in Nat \ {0}
      BY <1>1 DEF _register_operator_claim, TypeOK
    <2>. QED
      BY <1>1, <2>3, <2>7, <2>8 DEF _register_operator_claim, TypeOK, db, history, bounds
  <1>2. CASE StampFresh(c)
    <2>1. call' \in [Callers -> Calls]
      BY <1>2, StampedType DEF StampFresh
    <2>2. call[c].marker \in Reasons /\ "failed_pending" \in Statuses
      BY <1>0, CallFields DEF Statuses
    <2>3. [status |-> "failed_pending", reason |-> call[c].marker] \in Rows
      BY <2>2, RowTypes
    <2>4. row' \in Rows
      BY <1>2, <2>3 DEF StampFresh, TypeOK
    <2>. QED
      BY <1>2, <2>1, <2>4 DEF StampFresh, TypeOK, registry, history, bounds
  <1>3. CASE RereadRow(c)
    <2>1. [call[c] EXCEPT !.pc = "adopt", !.seen = row] \in Calls
      BY <1>0, CallUpdates DEF TypeOK, CallPcs
    <2>2. call' \in [Callers -> Calls]
      BY <1>3, <2>1, BecomesType, ReturnType DEF RereadRow
    <2>3. claim' \in [token : Nat, flight : BOOLEAN]
      BY <1>3, ReleasedType DEF RereadRow, TypeOK
    <2>. QED
      BY <1>3, <2>2, <2>3 DEF RereadRow, TypeOK, db, history, bounds
  <1>4. CASE AdoptPending(c)
    <2>1. call' \in [Callers -> Calls]
      BY <1>4, StampedType, ReturnType DEF AdoptPending
    <2>2. row' \in Rows
      BY <1>0, <1>4, CallFields, RestampType DEF AdoptPending, TypeOK
    <2>. QED
      BY <1>4, <2>1, <2>2 DEF AdoptPending, TypeOK, registry, history, bounds
  <1>5. CASE PhaseAFails(c)
    <2>1. call' \in [Callers -> Calls] /\ claim' \in [token : Nat, flight : BOOLEAN]
      BY <1>5, ReturnType, ReleasedType DEF PhaseAFails
    <2>. QED
      BY <1>5, <2>1 DEF PhaseAFails, TypeOK, db, history, bounds
  <1>6. CASE BeginRemoval(c)
    <2>1. call' \in [Callers -> Calls]
      BY <1>6, GotoType DEF BeginRemoval, CallPcs
    <2>2. [claim EXCEPT !.flight = TRUE] \in [token : Nat, flight : BOOLEAN]
      BY DEF TypeOK
    <2>3. claim' \in [token : Nat, flight : BOOLEAN]
      BY <1>6, <2>2 DEF BeginRemoval, TypeOK
    <2>. QED
      BY <1>6, <2>1, <2>3 DEF BeginRemoval, TypeOK, db, history, bounds
  <1>7. CASE CallRemoves(c)
    <2>1. PICK ok \in BOOLEAN : RemoveTorrent(ok) /\ Goto(c, IF ok THEN "restamp" ELSE "complete")
      BY <1>7 DEF CallRemoves
    <2>2. (IF ok THEN "restamp" ELSE "complete") \in CallPcs
      BY DEF CallPcs
    <2>3. call' \in [Callers -> Calls]
      BY <2>1, <2>2, GotoType
    <2>4. torrent' \in BOOLEAN /\ wiped' \in BOOLEAN
      BY <2>1, RemoveTorrentType
    <2>. QED
      BY <1>7, <2>3, <2>4 DEF CallRemoves, TypeOK, db, registry, bounds
  <1>8. CASE RecordRemoval(c)
    <2> DEFINE done == _operator_fail_marker_removal_done(call[c].block, call[c].token)
    <2>1. done \in Reasons
      BY <1>0, CallFields, ReasonTypes
    <2>2. [call[c] EXCEPT !.pc = "complete", !.marker = done] \in Calls
      BY <1>0, <2>1, CallUpdates DEF CallPcs
    <2>3. \/ Restamp(done) /\ Becomes(c, [call[c] EXCEPT !.pc = "complete", !.marker = done])
          \/ UNCHANGED row /\ Goto(c, "complete")
      BY <1>8 DEF RecordRemoval
    <2> HIDE DEF done
    <2>4. call' \in [Callers -> Calls]
      BY <2>2, <2>3, BecomesType, GotoType DEF CallPcs
    <2>5. row' \in Rows
      BY <2>1, <2>3, RestampType DEF TypeOK
    <2>. QED
      BY <1>8, <2>4, <2>5 DEF RecordRemoval, TypeOK, registry, history, bounds
  <1>9. CASE CallCompletes(c)
    <2>1. call' \in [Callers -> Calls]
      BY <1>9, ReleasesType DEF CallCompletes
    <2>2. call[c].block \in BOOLEAN
      BY <1>0, CallFields
    <2>. QED
      BY <1>9, <2>1, <2>2, CompleteType DEF CallCompletes, TypeOK, registry, bounds
  <1>10. CASE CallYields(c)
    <2>1. call' \in [Callers -> Calls]
      BY <1>10, ReleasesType DEF CallYields
    <2>. QED
      BY <1>10, <2>1 DEF CallYields, TypeOK, db, registry, history, bounds
  <1>11. CASE ReleaseClaim(c)
    <2>1. call' \in [Callers -> Calls] /\ claim' \in [token : Nat, flight : BOOLEAN]
      BY <1>11, ReturnType, ReleasedType DEF ReleaseClaim
    <2>. QED
      BY <1>11, <2>1 DEF ReleaseClaim, TypeOK, db, history, bounds
  <1>. QED
    BY <1>1, <1>2, <1>3, <1>4, <1>5, <1>6, <1>7, <1>8, <1>9, <1>10, <1>11 DEF MarkFailed

(* One step of the reconcile cycle or of the DB-only heal. *)
LEMMA CycleType ==
  ASSUME TypeOK, ReconcileCycle
  PROVE  TypeOK'
  <1>0. /\ rec.pc \in CyclePcs /\ rec.snap \in Rows /\ rec.block \in BOOLEAN
        /\ rec.remove \in BOOLEAN /\ rec.op \in BOOLEAN /\ rec.seen \in Reasons
        /\ rec.snap.reason \in Reasons /\ Text("env") \in Reasons
        /\ rec.to \in {"none", "downloading", "import_pending", "failed_pending"}
    BY CycleFields, RowTypes, ReasonTypes DEF TypeOK, Kinds
  <1>1. CASE SnapshotRows
    <2>1. [IdleCycle EXCEPT !.pc = "client", !.snap = row] \in Cycles
      BY IdleTypes, CycleUpdates DEF TypeOK, CyclePcs
    <2>. QED
      BY <1>1, <2>1 DEF SnapshotRows, TypeOK, db, registry, history, bounds
  <1>2. CASE PollClient
    <2>1. PICK to \in Decisions(rec.snap.status) : rec' = [rec EXCEPT !.pc = "apply", !.to = to]
      BY <1>2 DEF PollClient
    <2>2. to \in {"none", "downloading", "import_pending", "failed_pending"}
      BY DEF Decisions
    <2>3. rec' \in Cycles
      BY <2>1, <2>2, CycleUpdates DEF TypeOK, CyclePcs
    <2>. QED
      BY <1>2, <2>3 DEF PollClient, TypeOK, db, registry, history, bounds
  <1>3. CASE CycleAborts
    BY <1>3, CycleEndsType DEF CycleAborts, TypeOK, db, registry, history, bounds
  <1>4. CASE RejectHeldPayload
    <2>1. row' \in Rows
      BY <1>4, RowTypes DEF RejectHeldPayload, TypeOK, Statuses, Live
    <2>2. PICK block \in BOOLEAN, seen \in {row', rec.snap} : CycleCalls(block, seen)
      BY <1>4 DEF RejectHeldPayload
    <2>3. Started(block, TRUE, seen) \in Calls
      BY <1>0, <2>1, StartedType
    <2>4. call' \in [Callers -> Calls]
      BY <2>2, <2>3, BecomesType DEF CycleCalls, TypeOK, Callers
    <2>. QED
      BY <1>4, <2>1, <2>4, CycleEndsType DEF RejectHeldPayload, TypeOK, registry, history, bounds
  <1>5. CASE ApplyTransition
    <2>1. rec.to # "none" => [row EXCEPT !.status = rec.to] \in Rows
      BY <1>0, RowTypes DEF TypeOK, Statuses, Live
    <2>2. row' \in Rows
      BY <1>5, <2>1 DEF ApplyTransition, TypeOK
    <2>3. rec' \in Cycles
      BY <1>5, CycleAtType, CycleEndsType DEF ApplyTransition, CyclePcs
    <2>. QED
      BY <1>5, <2>2, <2>3 DEF ApplyTransition, TypeOK, registry, history, bounds
  <1>6. CASE HealStall
    <2>1. PICK seen \in {row, rec.snap} : CycleCalls(TRUE, seen)
      BY <1>6 DEF HealStall
    <2>2. Started(TRUE, TRUE, seen) \in Calls
      BY <1>0, StartedType DEF TypeOK
    <2>3. call' \in [Callers -> Calls]
      BY <2>1, <2>2, BecomesType DEF CycleCalls, TypeOK, Callers
    <2>. QED
      BY <1>6, <2>3, CycleEndsType DEF HealStall, TypeOK, db, registry, history, bounds
  <1>7. CASE StallHealed
    BY <1>7, CycleEndsType DEF StallHealed, TypeOK, db, registry, history, bounds
  <1>8. CASE BuildDetected
    <2> DEFINE completion(block) == [IdleCycle EXCEPT !.pc = "begin", !.block = block,
                                                      !.remove = TRUE, !.seen = rec.snap.reason]
    <2>1. \A block \in BOOLEAN : completion(block) \in Cycles
      BY <1>0, IdleTypes, CycleUpdates DEF CyclePcs
    <2>2. \A block \in BOOLEAN : [completion(block) EXCEPT !.seen = Text("env")] \in Cycles
      BY <1>0, <2>1 DEF Cycles
    <2>3. PICK block \in BOOLEAN :
            \/ rec' = completion(block) /\ UNCHANGED row
            \/ rec' = [completion(block) EXCEPT !.seen = Text("env")] /\ Restamp(Text("env"))
      BY <1>8 DEF BuildDetected
    <2>4. rec' \in Cycles
      BY <2>1, <2>2, <2>3
    <2>5. row' \in Rows
      BY <1>0, <2>3, RestampType DEF TypeOK
    <2>. QED
      BY <1>8, <2>4, <2>5 DEF BuildDetected, TypeOK, registry, history, bounds
  <1>9. CASE BuildResidual
    <2> DEFINE reason == rec.snap.reason
               block == IF IsMarker(reason) THEN reason.block ELSE reason.kind # "env"
               remove == IF IsMarker(reason) THEN reason.rem = "yes" ELSE TRUE
               op == reason.kind = "op"
    <2>1. block \in BOOLEAN
      BY <1>0, ReasonTypes
    <2>2. remove \in BOOLEAN /\ op \in BOOLEAN
      OBVIOUS
    <2>3. rec' = [IdleCycle EXCEPT !.pc = "begin", !.seen = reason, !.op = op,
                                   !.block = block, !.remove = remove]
      BY <1>9 DEF BuildResidual
    <2>4. rec' \in Cycles
      <3> HIDE DEF block, remove, op
      <3>. QED BY <1>0, <2>1, <2>2, <2>3, IdleTypes DEF Cycles, CyclePcs
    <2>. QED
      BY <1>9, <2>4 DEF BuildResidual, TypeOK, db, registry, history, bounds
  <1>10. CASE BuildNothing
    BY <1>10, CycleEndsType DEF BuildNothing, TypeOK, db, registry, history, bounds
  <1>11. CASE GuardRemoval
    <2>1. rec' \in Cycles
      BY <1>11, CycleAtType, CycleEndsType DEF GuardRemoval, CyclePcs
    <2>2. guard' \in Nat
      BY <1>11 DEF GuardRemoval, register_removal_in_flight, TypeOK
    <2>. QED
      BY <1>11, <2>1, <2>2 DEF GuardRemoval, TypeOK, db, history, bounds
  <1>12. CASE ReproveRow
    <2>1. rec' \in Cycles
      BY <1>12, CycleAtType, CycleEndsType DEF ReproveRow, CyclePcs
    <2>2. guard' \in Nat
      BY <1>12 DEF ReproveRow, release_removal_in_flight, TypeOK
    <2>. QED
      BY <1>12, <2>1, <2>2 DEF ReproveRow, TypeOK, db, history, bounds
  <1>13. CASE CycleRemoves
    <2>1. PICK ok \in BOOLEAN : RemoveTorrent(ok) /\ CycleAt(IF ok THEN "restamp" ELSE "complete")
      BY <1>13 DEF CycleRemoves
    <2>2. (IF ok THEN "restamp" ELSE "complete") \in CyclePcs
      BY DEF CyclePcs
    <2>3. rec' \in Cycles
      BY <2>1, <2>2, CycleAtType
    <2>4. torrent' \in BOOLEAN /\ wiped' \in BOOLEAN
      BY <2>1, RemoveTorrentType
    <2>. QED
      BY <1>13, <2>3, <2>4 DEF CycleRemoves, TypeOK, db, registry, bounds
  <1>14. CASE CycleRecordsRemoval
    <2> DEFINE done == IF IsMarker(rec.seen)
                         THEN _operator_fail_marker_removal_done(rec.seen.block, rec.seen.nonce)
                         ELSE _reconcile_removal_done_marker(rec.block)
    <2>1. done \in Reasons
      BY <1>0, ReasonTypes
    <2>2. \/ Restamp(done) /\ rec' = [rec EXCEPT !.pc = "complete", !.seen = done]
          \/ UNCHANGED row /\ CycleAt("complete")
      BY <1>14 DEF CycleRecordsRemoval
    <2> HIDE DEF done
    <2>3. [rec EXCEPT !.pc = "complete", !.seen = done] \in Cycles
      BY <2>1, CycleUpdates DEF TypeOK, CyclePcs
    <2>4. rec' \in Cycles
      BY <2>2, <2>3, CycleAtType DEF CyclePcs
    <2>5. row' \in Rows
      BY <2>1, <2>2, RestampType DEF TypeOK
    <2>. QED
      BY <1>14, <2>4, <2>5 DEF CycleRecordsRemoval, TypeOK, registry, history, bounds
  <1>15. CASE _handle_failed
    <2>1. rec' \in Cycles
      BY <1>15, CycleEndsType DEF _handle_failed
    <2>2. (IF rec.op THEN "user_reported" ELSE "failed") \in {"user_reported", "failed"}
      OBVIOUS
    <2>3. /\ row' \in Rows
          /\ kept' \in BOOLEAN
          /\ req' \in {"downloading", "searching", "cancelled", "settled"}
          /\ blk' \in {"none", "user_reported", "failed"}
      BY <1>0, <1>15, <2>2, CompleteType DEF _handle_failed
    <2>. QED
      BY <1>15, <2>1, <2>3 DEF _handle_failed, TypeOK, registry, bounds
  <1>16. CASE CycleYields
    <2>1. rec' \in Cycles
      BY <1>16, CycleEndsType DEF CycleYields
    <2>. QED
      BY <1>16, <2>1 DEF CycleYields, TypeOK, db, registry, history, bounds
  <1>17. CASE SettleCycle
    <2>1. guard' \in Nat
      BY <1>17 DEF SettleCycle, release_removal_in_flight, TypeOK
    <2>. QED
      BY <1>17, <2>1, CycleEndsType DEF SettleCycle, TypeOK, db, history, bounds
  <1>18. CASE heal_failed_pending_without_client
    <2> DEFINE op == row.reason.kind = "op"
    <2>1. row.reason \in Reasons /\ row.reason.block \in BOOLEAN /\ op \in BOOLEAN
      BY RowTypes, ReasonTypes DEF TypeOK
    <2>2. rec' = [IdleCycle EXCEPT !.pc = "complete", !.seen = row.reason,
                                   !.block = row.reason.block, !.op = op]
      BY <1>18 DEF heal_failed_pending_without_client
    <2>3. rec' \in Cycles
      <3> HIDE DEF op
      <3>. QED BY <2>1, <2>2, IdleTypes DEF Cycles, CyclePcs
    <2>. QED
      BY <1>18, <2>3 DEF heal_failed_pending_without_client, TypeOK, db, registry, history, bounds
  <1>. QED
    BY <1>1, <1>2, <1>3, <1>4, <1>5, <1>6, <1>7, <1>8, <1>9, <1>10, <1>11, <1>12, <1>13,
       <1>14, <1>15, <1>16, <1>17, <1>18 DEF ReconcileCycle

(* Cancel, grab, import, crash. *)
LEMMA EnvironmentType ==
  ASSUME TypeOK,
         _cancel_request_locked \/ CancelRemoves \/ CancelReleases \/ Grab
           \/ ImportClaims \/ ImportSettles \/ _block \/ ImportDefers \/ Crash
  PROVE  TypeOK'
  <1>1. CASE _cancel_request_locked
    <2>1. row' \in Rows
      BY <1>1, RowTypes, ReasonTypes DEF _cancel_request_locked, Statuses, Terminal, Kinds
    <2>2. guard' \in Nat
      BY <1>1 DEF _cancel_request_locked, register_removal_in_flight, TypeOK
    <2>. QED
      BY <1>1, <2>1, <2>2 DEF _cancel_request_locked, TypeOK, history, bounds
  <1>2. CASE CancelRemoves
    <2>1. torrent' \in BOOLEAN /\ wiped' \in BOOLEAN
      BY <1>2, RemoveTorrentType DEF CancelRemoves
    <2>. QED
      BY <1>2, <2>1 DEF CancelRemoves, TypeOK, db, registry, bounds
  <1>3. CASE CancelReleases
    <2>1. guard' \in Nat
      BY <1>3 DEF CancelReleases, release_removal_in_flight, TypeOK
    <2>. QED
      BY <1>3, <2>1 DEF CancelReleases, TypeOK, db, history, bounds
  <1>4. CASE GrabAdds
    <2>1. grab' \in [pc : {"idle", "own", "cas", "undo"}, added : BOOLEAN]
      BY <1>4 DEF GrabAdds, TypeOK
    <2>2. torrent' \in BOOLEAN /\ grabs' \in Nat
      BY <1>4 DEF GrabAdds, TypeOK
    <2>. QED
      BY <1>4, <2>1, <2>2 DEF GrabAdds, TypeOK, db, registry, history
  <1>5. IdleGrab \in [pc : {"idle", "own", "cas", "undo"}, added : BOOLEAN]
    BY DEF IdleGrab
  <1>6. \A pc \in {"cas", "undo"} :
          [grab EXCEPT !.pc = pc] \in [pc : {"idle", "own", "cas", "undo"}, added : BOOLEAN]
    BY DEF TypeOK
  <1>7. CASE GrabFindsRow
    <2>1. grab' \in [pc : {"idle", "own", "cas", "undo"}, added : BOOLEAN]
      BY <1>5, <1>6, <1>7 DEF GrabFindsRow
    <2>. QED
      BY <1>7, <2>1 DEF GrabFindsRow, TypeOK, db, registry, history, bounds
  <1>8. CASE _reuse_terminal_row
    <2>1. row' \in Rows
      BY <1>8, IdleTypes DEF _reuse_terminal_row, NoRow
    <2>2. kept' \in BOOLEAN /\ wiped' \in BOOLEAN
      BY <1>8 DEF _reuse_terminal_row
    <2>. QED
      BY <1>5, <1>8, <2>1, <2>2 DEF _reuse_terminal_row, TypeOK, registry, bounds
  <1>9. CASE GrabLoses
    <2>1. grab' \in [pc : {"idle", "own", "cas", "undo"}, added : BOOLEAN]
      BY <1>5, <1>6, <1>9 DEF GrabLoses
    <2>. QED
      BY <1>9, <2>1 DEF GrabLoses, TypeOK, db, registry, history, bounds
  <1>10. CASE _remove_torrent_if_added
    <2>1. torrent' \in BOOLEAN
      BY <1>10 DEF _remove_torrent_if_added, TypeOK
    <2>. QED
      BY <1>5, <1>10, <2>1 DEF _remove_torrent_if_added, TypeOK, db, registry, history, bounds
  <1>11. CASE ImportClaims \/ ImportSettles \/ _block \/ ImportDefers
    <2>1. ASSUME NEW from, NEW to \in {"importing", "imported", "import_blocked", "downloading"},
                 NEW kind \in {"none", "blocked"}, NEW r \in {req, "settled", "downloading"},
                 ImportMoves(from, to, Text(kind), r)
          PROVE  TypeOK'
      <3>1. Text(kind) \in Reasons /\ to \in Statuses
        BY ReasonTypes DEF Kinds, Statuses, Live, Terminal
      <3>2. row' \in Rows
        BY <2>1, <3>1, RowTypes DEF ImportMoves
      <3>3. req' \in {"downloading", "searching", "cancelled", "settled"}
        BY <2>1 DEF ImportMoves, TypeOK
      <3>. QED
        BY <2>1, <3>2, <3>3 DEF ImportMoves, TypeOK, registry, history, bounds
    <2>2. /\ ImportClaims => TypeOK'
          /\ ImportSettles => TypeOK'
      BY <2>1 DEF ImportClaims, ImportSettles
    <2>3. /\ _block => TypeOK'
          /\ ImportDefers => TypeOK'
      BY <2>1 DEF _block, ImportDefers
    <2>. QED
      BY <1>11, <2>2, <2>3
  <1>13. CASE Crash
    <2>1. claim' \in [token : Nat, flight : BOOLEAN]
      BY <1>13 DEF Crash, NoClaim
    <2>2. call' \in [Callers -> Calls] /\ rec' \in Cycles
      BY <1>13, IdleTypes DEF Crash
    <2>3. torrent' \in BOOLEAN
      BY <1>13 DEF Crash, TypeOK
    <2>4. guard' \in Nat /\ next' \in Nat \ {0} /\ crashes' \in Nat
      BY <1>13 DEF Crash, TypeOK
    <2>. QED
      BY <1>5, <1>13, <2>1, <2>2, <2>3, <2>4 DEF Crash, TypeOK, db, history
  <1>. QED
    BY <1>1, <1>2, <1>3, <1>4, <1>7, <1>8, <1>9, <1>10, <1>11, <1>13 DEF Grab

(* Every reachable state has the declared types. *)
THEOREM TypeCorrect == Spec => []TypeOK
  <1>1. Init => TypeOK
    BY TypeInit
  <1>2. TypeOK /\ [Next]_vars => TypeOK'
    <2>. SUFFICES ASSUME TypeOK, [Next]_vars PROVE TypeOK'
      OBVIOUS
    <2>1. ASSUME NEW o \in Operators, OperatorCalls(o) PROVE TypeOK'
      <3>1. PICK choice \in Choices : Becomes(o, Started(choice[1], choice[2], row))
        BY <2>1 DEF OperatorCalls
      <3>0. choice[1] \in BOOLEAN /\ choice[2] \in BOOLEAN
        BY ChoicesAssumption
      <3>2. o \in Callers /\ Started(choice[1], choice[2], row) \in Calls
        BY <3>0, StartedType DEF TypeOK, Callers
      <3>3. call' \in [Callers -> Calls]
        BY <3>1, <3>2, BecomesType
      <3>. QED
        BY <2>1, <3>3 DEF OperatorCalls, TypeOK, db, registry, history, bounds
    <2>2. CASE UNCHANGED vars
      BY <2>2 DEF vars, TypeOK
    <2>. QED
      BY <2>1, <2>2, MarkFailedType, CycleType, EnvironmentType DEF Next
  <1>. QED
    BY <1>1, <1>2, PTL DEF Spec

----------------------------------------------------------------------------
(* The inductive strengthening.  A stamp is only ever tried from a failable      *)
(* status, a transition only ever from a polled one; a cycle that raised the      *)
(* guard will release it (its remove flag says so); and a grab that passed its   *)
(* check for a removal in flight still faces a terminal row nobody is deleting.  *)
StampsFromLive == \A c \in Callers : call[c].pc = "stamp" => call[c].seen.status \in Live
AppliesToPolled ==
  rec.pc = "apply" /\ rec.to # "none" => rec.snap.status \in {"downloading", "import_pending"}
GuardedCycleRemoves == rec.pc \in {"reproof", "deleting", "restamp"} => rec.remove
GrabFacesSettledRow ==
  grab.pc = "cas" => row.status \in Terminal /\ rec.pc # "deleting" /\ cancel # "deleting"
RegrabInv ==
  /\ GuardAccounting
  /\ StampsFromLive
  /\ AppliesToPolled
  /\ GuardedCycleRemoves
  /\ GrabFacesSettledRow
  /\ GuardedDeleteSparesRegrab

(* The strengthened invariant holds initially. *)
LEMMA RegrabInit == Init => RegrabInv
  BY DEF Init, RegrabInv, GuardAccounting, CycleHolds, CancelHolds, StampsFromLive,
         AppliesToPolled, GuardedCycleRemoves, GrabFacesSettledRow, GuardedDeleteSparesRegrab,
         IdleCall, IdleCycle,
         IdleGrab, NoRow

(* A call that is not sent to its fresh stamp keeps StampsFromLive. *)
LEMMA BecomesStamps ==
  ASSUME TypeOK, StampsFromLive, NEW c \in Callers, NEW k, Becomes(c, k),
         k.pc = "stamp" => k.seen.status \in Live
  PROVE  StampsFromLive'
  BY DEF TypeOK, StampsFromLive, Becomes

(* The ways mark_failed moves on, all of them past its fresh stamp. *)
LEMMA StepStamps ==
  ASSUME TypeOK, StampsFromLive, NEW c \in Callers,
         \/ Return(c) \/ Stamped(c) \/ Reobserves(c) \/ Releases(c)
         \/ \E pc \in CallPcs \ {"stamp"} : Goto(c, pc)
  PROVE  StampsFromLive'
  <1>0. call[c] \in Calls
    BY DEF TypeOK
  <1>1. CASE Return(c)
    BY <1>1, BecomesStamps DEF Return, IdleCall
  <1>2. CASE Stamped(c) \/ Reobserves(c) \/ Releases(c)
    <2>1. /\ [call[c] EXCEPT !.pc = "stamped", !.seen = NoRow].pc = "stamped"
          /\ [call[c] EXCEPT !.pc = "reread", !.seen = NoRow].pc = "reread"
          /\ [IdleCall EXCEPT !.pc = "release", !.token = call[c].token].pc = "release"
      BY <1>0 DEF Calls, IdleCall
    <2>. QED
      BY <1>2, <2>1, BecomesStamps DEF Stamped, Reobserves, Releases
  <1>3. ASSUME NEW pc \in CallPcs \ {"stamp"}, Goto(c, pc) PROVE StampsFromLive'
    <2>1. [call[c] EXCEPT !.pc = pc].pc = pc
      BY <1>0 DEF Calls
    <2>. QED
      BY <1>3, <2>1, BecomesStamps DEF Goto
  <1>. QED
    BY <1>1, <1>2, <1>3

(* A mark_failed step leaves the guard, the cycle, the cancel and the grab alone, *)
(* and moves the row only towards failed.                                    *)
LEMMA MarkFailedRegrab ==
  ASSUME TypeOK, RegrabInv, NEW c \in Callers, MarkFailed(c)
  PROVE  RegrabInv'
  <1>0. call \in [Callers -> Calls] /\ row \in Rows
    BY DEF TypeOK
  <1>1. UNCHANGED <<guard, rec, cancel, grab>>
    BY DEF MarkFailed, _register_operator_claim, StampFresh, RereadRow, AdoptPending,
           PhaseAFails, BeginRemoval, CallRemoves, RecordRemoval, CallCompletes, CallYields,
           ReleaseClaim, registry
  <1>2. \/ UNCHANGED row
        \/ row.status \in Live /\ row'.status = "failed_pending"
        \/ row.status = "failed_pending" /\ row'.status \in {"failed_pending", "failed"}
    <2>1. CASE StampFresh(c)
      <3>1. CASE StatusIs(call[c].seen.status) /\ row' = [status |-> "failed_pending", reason |-> call[c].marker]
        BY <2>1, <3>1 DEF StampFresh, RegrabInv, StampsFromLive, StatusIs
      <3>. QED
        BY <2>1, <3>1 DEF StampFresh
    <2>2. CASE AdoptPending(c) \/ RecordRemoval(c)
      BY <1>0, <2>2 DEF AdoptPending, RecordRemoval, PendingWith, Restamp, Rows
    <2>3. CASE CallCompletes(c)
      BY <2>3 DEF CallCompletes, PendingWith, CompleteFailure
    <2>4. CASE \/ _register_operator_claim(c) \/ RereadRow(c) \/ PhaseAFails(c) \/ BeginRemoval(c)
               \/ CallRemoves(c) \/ CallYields(c) \/ ReleaseClaim(c)
      BY <2>4 DEF _register_operator_claim, RereadRow, PhaseAFails, BeginRemoval, CallRemoves,
                  CallYields, ReleaseClaim, db
    <2>. QED
      BY <2>1, <2>2, <2>3, <2>4 DEF MarkFailed
  <1>3. StampsFromLive'
    <2>0. StampsFromLive /\ call[c] \in Calls
      BY <1>0 DEF RegrabInv
    <2>1. CASE _register_operator_claim(c)
      <3>1. CASE Return(c)
        BY <2>0, <3>1, StepStamps
      <3>2. CASE ~Return(c)
        <4>. DEFINE adopt == call[c].seen.status = "failed_pending"
                    k == [call[c] EXCEPT
                            !.pc = IF adopt THEN "adopt" ELSE "stamp", !.token = next,
                            !.marker = _operator_fail_marker(call[c].block, call[c].remove, next)]
        <4>1. Becomes(c, k) /\ (adopt \/ call[c].seen.status \in Failable)
          BY <2>1, <3>2 DEF _register_operator_claim
        <4>2. k.pc = "stamp" => ~adopt
          BY <2>0 DEF Calls
        <4>3. k.seen = call[c].seen
          BY <2>0 DEF Calls
        <4>4. k.pc = "stamp" => k.seen.status \in Live
          BY <4>1, <4>2, <4>3 DEF Failable
        <4>. HIDE DEF k
        <4>. QED
          BY <2>0, <4>1, <4>4, BecomesStamps
      <3>. QED
        BY <3>1, <3>2
    <2>2. CASE StampFresh(c) \/ AdoptPending(c)
      <3>1. Stamped(c) \/ Return(c) \/ Reobserves(c)
        BY <2>2 DEF StampFresh, AdoptPending
      <3>. QED
        BY <2>0, <3>1, StepStamps
    <2>3. CASE RereadRow(c)
      <3>1. CASE Return(c)
        BY <2>0, <3>1, StepStamps
      <3>2. CASE Becomes(c, [call[c] EXCEPT !.pc = "adopt", !.seen = row])
        <4>1. [call[c] EXCEPT !.pc = "adopt", !.seen = row].pc = "adopt"
          BY <2>0 DEF Calls
        <4>. QED
          BY <2>0, <3>2, <4>1, BecomesStamps
      <3>. QED
        BY <2>3, <3>1, <3>2 DEF RereadRow
    <2>4. CASE PhaseAFails(c) \/ ReleaseClaim(c)
      BY <2>0, <2>4, StepStamps DEF PhaseAFails, ReleaseClaim
    <2>5. CASE BeginRemoval(c) \/ CallRemoves(c) \/ CallCompletes(c) \/ CallYields(c)
      <3>1. Releases(c) \/ \E pc \in CallPcs \ {"stamp"} : Goto(c, pc)
        BY <2>5 DEF BeginRemoval, CallRemoves, CallCompletes, CallYields, CallPcs
      <3>. QED
        BY <2>0, <3>1, StepStamps
    <2>6. CASE RecordRemoval(c)
      <3>1. CASE Goto(c, "complete")
        BY <2>0, <3>1, StepStamps DEF CallPcs
      <3>2. CASE ~Goto(c, "complete")
        <4>. DEFINE done == _operator_fail_marker_removal_done(call[c].block, call[c].token)
                    k == [call[c] EXCEPT !.pc = "complete", !.marker = done]
        <4>1. Becomes(c, k)
          BY <2>6, <3>2 DEF RecordRemoval
        <4>2. k.pc = "complete"
          BY <2>0 DEF Calls
        <4>. HIDE DEF k
        <4>. QED
          BY <2>0, <4>1, <4>2, BecomesStamps
      <3>. QED
        BY <3>1, <3>2
    <2>. QED
      BY <2>1, <2>2, <2>3, <2>4, <2>5, <2>6 DEF MarkFailed
  <1>4. GuardAccounting' /\ AppliesToPolled' /\ GuardedCycleRemoves'
    BY <1>1 DEF RegrabInv, GuardAccounting, CycleHolds, CancelHolds, AppliesToPolled,
                GuardedCycleRemoves
  <1>5. GrabFacesSettledRow' /\ GuardedDeleteSparesRegrab'
    BY <1>1, <1>2 DEF RegrabInv, GrabFacesSettledRow, GuardedDeleteSparesRegrab, Terminal, Live
  <1>. QED
    BY <1>3, <1>4, <1>5 DEF RegrabInv

(* A cycle that starts a mark_failed of its own leaves it at its registration. *)
LEMMA CycleCallsStamps ==
  ASSUME TypeOK, StampsFromLive, NEW b, NEW w, CycleCalls(b, w)
  PROVE  StampsFromLive'
  <1>1. CASE UNCHANGED call
    BY <1>1 DEF StampsFromLive
  <1>2. CASE Becomes(SelfHeal, Started(b, TRUE, w))
    <2>1. Started(b, TRUE, w).pc = "register"
      BY DEF Started, IdleCall
    <2>2. SelfHeal \in Callers
      BY DEF Callers
    <2>. QED
      BY <1>2, <2>1, <2>2, BecomesStamps
  <1>. QED
    BY <1>1, <1>2 DEF CycleCalls

(* The cycle touches neither the cancel nor the grab, and calls only through its    *)
(* two self-heals; the row moves in five of its steps.                        *)
LEMMA CycleFrame ==
  /\ ReconcileCycle => UNCHANGED <<cancel, grab>>
  /\ ReconcileCycle => UNCHANGED call \/ RejectHeldPayload \/ HealStall
  /\ ReconcileCycle => \/ UNCHANGED row \/ RejectHeldPayload \/ ApplyTransition \/ _handle_failed
                       \/ \E r : Restamp(r)
  <1>1. SnapshotRows \/ PollClient \/ CycleAborts => UNCHANGED <<cancel, grab, call, row>>
    BY Zenon DEF SnapshotRows, PollClient, CycleAborts, db
  <1>2. RejectHeldPayload \/ ApplyTransition => UNCHANGED <<cancel, grab>>
    BY Zenon DEF RejectHeldPayload, ApplyTransition
  <1>3. ApplyTransition => UNCHANGED call
    BY Zenon DEF ApplyTransition
  <1>4. HealStall => UNCHANGED <<cancel, grab, row>>
    BY Zenon DEF HealStall, db
  <1>5. StallHealed \/ BuildResidual \/ BuildNothing => UNCHANGED <<cancel, grab, call, row>>
    BY Zenon DEF StallHealed, BuildResidual, BuildNothing, db
  <1>6. GuardRemoval \/ ReproveRow => UNCHANGED <<cancel, grab, call, row>>
    BY Zenon DEF GuardRemoval, ReproveRow, db
  <1>7. BuildDetected \/ CycleRecordsRemoval =>
          UNCHANGED <<cancel, grab, call>> /\ (UNCHANGED row \/ \E r : Restamp(r))
    BY Zenon DEF BuildDetected, CycleRecordsRemoval
  <1>8. CycleRemoves \/ CycleYields => UNCHANGED <<cancel, grab, call, row>>
    BY Zenon DEF CycleRemoves, CycleYields, db
  <1>9. _handle_failed => UNCHANGED <<cancel, grab, call>>
    BY Zenon DEF _handle_failed
  <1>10. SettleCycle \/ heal_failed_pending_without_client => UNCHANGED <<cancel, grab, call, row>>
    BY Zenon DEF SettleCycle, heal_failed_pending_without_client, db
  <1>. QED
    BY <1>1, <1>2, <1>3, <1>4, <1>5, <1>6, <1>7, <1>8, <1>9, <1>10 DEF ReconcileCycle

(* The guard is up exactly from GuardRemoval to the re-proof that fails or to the *)
(* end of the cycle, and a delete starts only on a row proved failed_pending.  *)
LEMMA CycleRegrab ==
  ASSUME TypeOK, RegrabInv, ReconcileCycle
  PROVE  RegrabInv'
  <1>0. /\ rec \in Cycles /\ row \in Rows /\ guard \in Nat
        /\ rec.pc \in CyclePcs /\ rec.remove \in BOOLEAN
    BY CycleFields DEF TypeOK
  <1>1. UNCHANGED <<cancel, grab>>
    BY CycleFrame
  <1>2. StampsFromLive'
    <2>0. StampsFromLive
      BY DEF RegrabInv
    <2>1. CASE RejectHeldPayload \/ HealStall
      <3>1. PICK b, w : CycleCalls(b, w)
        BY <2>1 DEF RejectHeldPayload, HealStall
      <3>. QED
        BY <2>0, <3>1, CycleCallsStamps
    <2>2. CASE UNCHANGED call
      BY <2>0, <2>2 DEF StampsFromLive
    <2>. QED
      BY <2>1, <2>2, CycleFrame
  <1>3. \/ row'.status = row.status
        \/ row.status \in {"downloading", "import_pending", "importing"}
        \/ row.status = "failed_pending" /\ row'.status = "failed"
    <2>1. CASE RejectHeldPayload
      BY <2>1 DEF RejectHeldPayload, StatusIs
    <2>2. CASE ApplyTransition
      BY <2>2 DEF ApplyTransition, RegrabInv, AppliesToPolled, GuardedCycleRemoves, StatusIs
    <2>3. CASE UNCHANGED row \/ \E r : Restamp(r)
      BY <1>0, <2>3 DEF Restamp, Rows
    <2>4. CASE _handle_failed
      BY <2>4 DEF _handle_failed, PendingWith, CompleteFailure
    <2>. QED
      BY <2>1, <2>2, <2>3, <2>4, CycleFrame
  <1>. DEFINE h == IF CancelHolds THEN 1 ELSE 0
  <1>4. /\ h \in Nat
        /\ guard = (IF CycleHolds THEN 1 ELSE 0) + h
        /\ GuardedCycleRemoves
    BY DEF RegrabInv, GuardAccounting
  <1>. HIDE DEF h
  <1>5. /\ rec'.pc = "deleting" => row'.status = "failed_pending"
        /\ AppliesToPolled' /\ GuardedCycleRemoves'
        /\ guard' = (IF CycleHolds' THEN 1 ELSE 0) + h
    <2>1. CASE SnapshotRows
      BY <1>0, <1>4, <2>1 DEF SnapshotRows, CycleHolds, AppliesToPolled, GuardedCycleRemoves, IdleCycle, registry, Cycles
    <2>2. CASE PollClient
      BY <1>0, <1>4, <2>2 DEF PollClient, CycleHolds, AppliesToPolled, GuardedCycleRemoves, Decisions, registry, Cycles
    <2>3. CASE CycleAborts \/ StallHealed \/ BuildNothing
      BY <1>0, <1>4, <2>3 DEF CycleAborts, StallHealed, BuildNothing, CycleEnds, CycleHolds,
         AppliesToPolled, GuardedCycleRemoves, IdleCycle, registry
    <2>4. CASE RejectHeldPayload \/ HealStall
      <3>1. CycleWaits /\ UNCHANGED guard /\ ~CycleHolds
        BY <2>4 DEF RejectHeldPayload, HealStall, registry, CycleHolds
      <3>. QED
        BY <1>4, <3>1 DEF CycleWaits, CycleHolds, AppliesToPolled, GuardedCycleRemoves, IdleCycle
    <2>5. CASE ApplyTransition
      <3>1. /\ rec.pc = "apply" /\ UNCHANGED guard
            /\ CycleEnds \/ CycleAt("detected") \/ CycleAt("build")
        BY <2>5 DEF ApplyTransition, registry
      <3>. QED
        BY <1>0, <1>4, <3>1 DEF CycleEnds, CycleAt, CycleHolds, AppliesToPolled, GuardedCycleRemoves, IdleCycle, Cycles
    <2>6. CASE BuildDetected
      <3>1. rec.pc = "detected" /\ UNCHANGED guard /\ rec'.pc = "begin"
        BY <2>6 DEF BuildDetected, IdleCycle, registry
      <3>. QED
        BY <1>4, <3>1 DEF CycleHolds, AppliesToPolled, GuardedCycleRemoves
    <2>7. CASE BuildResidual
      <3>1. rec.pc = "build" /\ UNCHANGED guard /\ rec'.pc = "begin"
        BY <2>7 DEF BuildResidual, IdleCycle, registry
      <3>. QED
        BY <1>4, <3>1 DEF CycleHolds, AppliesToPolled, GuardedCycleRemoves
    <2>8. CASE GuardRemoval
      <3>1. CASE _is_operator_claimed
        BY <1>4, <2>8, <3>1 DEF GuardRemoval, CycleEnds, IdleCycle, CycleHolds, AppliesToPolled, GuardedCycleRemoves
      <3>2. CASE ~_is_operator_claimed /\ rec.remove
        BY <1>0, <1>4, <2>8, <3>2 DEF GuardRemoval, CycleAt, CycleHolds, AppliesToPolled, GuardedCycleRemoves, Cycles,
           register_removal_in_flight
      <3>3. CASE ~_is_operator_claimed /\ ~rec.remove
        BY <1>0, <1>4, <2>8, <3>3 DEF GuardRemoval, CycleAt, CycleHolds, AppliesToPolled, GuardedCycleRemoves, Cycles
      <3>. QED
        BY <3>1, <3>2, <3>3
    <2>9. CASE ReproveRow
      <3>1. CASE PendingWith(rec.seen)
        BY <1>0, <1>4, <2>9, <3>1 DEF ReproveRow, CycleAt, CycleHolds, AppliesToPolled, GuardedCycleRemoves, Cycles,
           PendingWith, db
      <3>2. CASE ~PendingWith(rec.seen)
        BY <1>0, <1>4, <2>9, <3>2 DEF ReproveRow, CycleEnds, IdleCycle, CycleHolds, AppliesToPolled, GuardedCycleRemoves,
           release_removal_in_flight
      <3>. QED
        BY <3>1, <3>2
    <2>10. CASE CycleRemoves
      <3>1. PICK ok \in BOOLEAN : CycleAt(IF ok THEN "restamp" ELSE "complete")
        BY <2>10 DEF CycleRemoves
      <3>2. rec.pc = "deleting" /\ UNCHANGED guard
        BY <2>10 DEF CycleRemoves, registry
      <3>. QED
        BY <1>0, <1>4, <3>1, <3>2 DEF CycleAt, CycleHolds, AppliesToPolled, GuardedCycleRemoves, Cycles
    <2>11. CASE CycleRecordsRemoval
      <3>1. rec.pc = "restamp" /\ UNCHANGED guard /\ rec'.pc = "complete" /\ rec'.remove = rec.remove
        BY <1>0, <2>11 DEF CycleRecordsRemoval, CycleAt, Cycles, registry
      <3>. QED
        BY <1>0, <1>4, <3>1 DEF CycleHolds, AppliesToPolled, GuardedCycleRemoves
    <2>12. CASE _handle_failed \/ CycleYields
      BY <1>0, <1>4, <2>12 DEF _handle_failed, CycleYields, CycleSettles, IdleCycle, CycleHolds,
         AppliesToPolled, GuardedCycleRemoves, registry
    <2>13. CASE SettleCycle
      BY <1>0, <1>4, <2>13 DEF SettleCycle, CycleEnds, IdleCycle, CycleHolds, AppliesToPolled, GuardedCycleRemoves,
         release_removal_in_flight
    <2>14. CASE heal_failed_pending_without_client
      BY <1>0, <1>4, <2>14 DEF heal_failed_pending_without_client, IdleCycle, CycleHolds,
         AppliesToPolled, GuardedCycleRemoves, registry
    <2>. QED
      BY <2>1, <2>2, <2>3, <2>4, <2>5, <2>6, <2>7, <2>8, <2>9, <2>10, <2>11, <2>12, <2>13, <2>14
         DEF ReconcileCycle
  <1>6. GuardAccounting'
    BY <1>1, <1>5 DEF GuardAccounting, CancelHolds, h
  <1>7. GrabFacesSettledRow' /\ GuardedDeleteSparesRegrab'
    BY <1>1, <1>3, <1>5 DEF RegrabInv, GrabFacesSettledRow, GuardedDeleteSparesRegrab, Terminal
  <1>. QED
    BY <1>2, <1>5, <1>6, <1>7 DEF RegrabInv

(* Cancels, grabs, imports and crashes.  A cancel never meets a grab past its check *)
(* (its row is not terminal), and a grab passes its check only at guard 0.    *)
LEMMA EnvironmentRegrab ==
  ASSUME TypeOK, RegrabInv,
         \/ _cancel_request_locked \/ CancelRemoves \/ CancelReleases \/ Grab
         \/ ImportClaims \/ ImportSettles \/ _block \/ ImportDefers \/ Crash
  PROVE  RegrabInv'
  <1>0. /\ row \in Rows /\ guard \in Nat /\ grab \in [pc : {"idle", "own", "cas", "undo"}, added : BOOLEAN]
        /\ cancel \in {"idle", "deleting", "release"}
    BY DEF TypeOK
  <1>. USE DEF RegrabInv
  <1>1. CASE _cancel_request_locked
    BY <1>0, <1>1 DEF _cancel_request_locked, GuardAccounting, CycleHolds, CancelHolds, StampsFromLive,
       AppliesToPolled, GuardedCycleRemoves, GrabFacesSettledRow, GuardedDeleteSparesRegrab,
       register_removal_in_flight, Cancellable, Live, Terminal
  <1>2. CASE CancelRemoves
    BY <1>0, <1>2 DEF CancelRemoves, GuardAccounting, CycleHolds, CancelHolds, StampsFromLive,
       AppliesToPolled, GuardedCycleRemoves, GrabFacesSettledRow, GuardedDeleteSparesRegrab,
       db, registry
  <1>3. CASE CancelReleases
    BY <1>0, <1>3 DEF CancelReleases, GuardAccounting, CycleHolds, CancelHolds, StampsFromLive,
       AppliesToPolled, GuardedCycleRemoves, GrabFacesSettledRow, GuardedDeleteSparesRegrab,
       release_removal_in_flight, db
  <1>4. CASE GrabAdds \/ GrabLoses \/ _remove_torrent_if_added
    <2>1. UNCHANGED <<row, guard, call, rec, cancel>>
      BY <1>4, Zenon DEF GrabAdds, GrabLoses, _remove_torrent_if_added, db, registry
    <2>2. GrabAdds => grab'.pc # "cas"
      BY DEF GrabAdds
    <2>3. GrabLoses \/ _remove_torrent_if_added => grab'.pc # "cas"
      <3>1. GrabLoses \/ _remove_torrent_if_added =>
              grab' = [grab EXCEPT !.pc = "undo"] \/ grab' = IdleGrab
        BY Zenon DEF GrabLoses, _remove_torrent_if_added
      <3>2. [grab EXCEPT !.pc = "undo"].pc = "undo" /\ IdleGrab.pc = "idle"
        BY <1>0 DEF IdleGrab
      <3>. QED
        BY <3>1, <3>2
    <2>4. grab'.pc # "cas"
      BY <1>4, <2>2, <2>3
    <2>. QED
      BY <2>1, <2>4 DEF GuardAccounting, CycleHolds, CancelHolds, StampsFromLive,
         AppliesToPolled, GuardedCycleRemoves, GrabFacesSettledRow, GuardedDeleteSparesRegrab
  <1>5. CASE GrabFindsRow
    <2>1. UNCHANGED <<row, guard, call, rec, cancel>>
      BY <1>5 DEF GrabFindsRow, db, registry
    <2>2. grab'.pc = "cas" => row.status \in Terminal /\ ~removal_in_flight
      BY <1>0, <1>5 DEF GrabFindsRow, IdleGrab
    <2>3. ~removal_in_flight => ~CycleHolds /\ ~CancelHolds
      BY <1>0 DEF removal_in_flight, GuardAccounting
    <2>. QED
      BY <2>1, <2>2, <2>3 DEF GuardAccounting, CycleHolds, CancelHolds, StampsFromLive,
         AppliesToPolled, GuardedCycleRemoves, GrabFacesSettledRow, GuardedDeleteSparesRegrab
  <1>6. CASE _reuse_terminal_row
    BY <1>6 DEF _reuse_terminal_row, GuardAccounting, CycleHolds, CancelHolds, StampsFromLive,
       AppliesToPolled, GuardedCycleRemoves, GrabFacesSettledRow, GuardedDeleteSparesRegrab,
       IdleGrab, registry
  <1>7. CASE ImportClaims \/ ImportSettles \/ _block \/ ImportDefers
    <2>1. /\ UNCHANGED <<guard, call, rec, cancel, grab>>
          /\ row.status \in {"import_pending", "import_blocked", "importing"}
      BY <1>7 DEF ImportClaims, ImportSettles, _block, ImportDefers, ImportMoves, Resumable, registry
    <2>. QED
      BY <2>1 DEF GuardAccounting, CycleHolds, CancelHolds, StampsFromLive, Terminal,
         AppliesToPolled, GuardedCycleRemoves, GrabFacesSettledRow, GuardedDeleteSparesRegrab
  <1>8. CASE Crash
    <2>1. /\ guard' = 0 /\ rec' = IdleCycle /\ cancel' = "idle" /\ grab' = IdleGrab
          /\ call' = [c \in Callers |-> IdleCall]
      BY <1>8 DEF Crash
    <2>. QED
      BY <2>1 DEF GuardAccounting, CycleHolds, CancelHolds, StampsFromLive, IdleCall, IdleCycle,
         IdleGrab, AppliesToPolled, GuardedCycleRemoves, GrabFacesSettledRow,
         GuardedDeleteSparesRegrab
  <1>. QED
    BY <1>1, <1>2, <1>3, <1>4, <1>5, <1>6, <1>7, <1>8 DEF Grab

(* The strengthened invariant holds in every reachable state. *)
LEMMA RegrabInvariant == Spec => []RegrabInv
  <1>1. TypeOK /\ RegrabInv /\ [Next]_vars => RegrabInv'
    <2>. SUFFICES ASSUME TypeOK, RegrabInv, [Next]_vars PROVE RegrabInv'
      OBVIOUS
    <2>1. ASSUME NEW o \in Operators, OperatorCalls(o) PROVE RegrabInv'
      <3>1. PICK choice \in Choices : Becomes(o, Started(choice[1], choice[2], row))
        BY <2>1 DEF OperatorCalls
      <3>2. o \in Callers /\ StampsFromLive
        BY DEF Callers, RegrabInv
      <3>3. Started(choice[1], choice[2], row).pc = "register"
        BY DEF Started, IdleCall
      <3>4. StampsFromLive'
        BY <3>1, <3>2, <3>3, BecomesStamps
      <3>5. UNCHANGED <<row, guard, rec, cancel, grab>>
        BY <2>1 DEF OperatorCalls, db, registry
      <3>. QED
        BY <3>4, <3>5 DEF RegrabInv, GuardAccounting, CycleHolds, CancelHolds, AppliesToPolled,
           GuardedCycleRemoves, GrabFacesSettledRow, GuardedDeleteSparesRegrab
    <2>2. CASE UNCHANGED vars
      BY <2>2 DEF vars, RegrabInv, GuardAccounting, CycleHolds, CancelHolds, StampsFromLive,
         AppliesToPolled, GuardedCycleRemoves, GrabFacesSettledRow, GuardedDeleteSparesRegrab
    <2>. QED
      BY <2>1, <2>2, MarkFailedRegrab, CycleRegrab, EnvironmentRegrab DEF Next
  <1>. QED
    BY <1>1, RegrabInit, TypeCorrect, PTL DEF Spec

(* No grab re-owns a row while the reconcile cycle or a cancel is deleting its      *)
(* torrent (issue #206), for any number of operators, grabs and crashes.       *)
THEOREM RegrabSafe == Spec => []GuardedDeleteSparesRegrab
  <1>1. RegrabInv => GuardedDeleteSparesRegrab
    BY DEF RegrabInv
  <1>. QED
    BY <1>1, RegrabInvariant, PTL

(* The reference count of the removals in flight is exact: neither a crash nor any   *)
(* early exit of a cycle or a cancel leaks or double-releases a guard.         *)
THEOREM GuardExact == Spec => []GuardAccounting
  <1>1. RegrabInv => GuardAccounting
    BY DEF RegrabInv
  <1>. QED
    BY <1>1, RegrabInvariant, PTL

----------------------------------------------------------------------------
(* Nothing is left half done, and a marker governs its row.  The invariant says    *)
(* what a call's marker stands for (CallFit), what a cycle knows of the reason it    *)
(* saw (CycleFit), that only a failing row carries a marker (Unmarked), and that    *)
(* the cycle makes no second call while it waits for its first (HealWaits).        *)
Stamping == {"stamp", "reread", "adopt", "stamped", "deleting", "restamp"}
CallFit(c, k) ==
  /\ k.pc \in Stamping => k.marker = _operator_fail_marker(k.block, k.remove, k.token)
  /\ k.pc \in {"deleting", "restamp"} => k.remove
  /\ k.pc = "adopt" => c \in Operators
  /\ k.pc = "complete" => k.marker.kind = "op" /\ k.marker.block = k.block
CallsFit == \A c \in Callers : CallFit(c, call[c])
HealWaits == rec.pc # "healing" => call[SelfHeal].pc = "idle"
RecordsDone(r) == r.kind = "rec" => r.rem = "done"
Unmarked(w) == RecordsDone(w.reason) /\ (w.status # "failed_pending" => ~IsMarker(w.reason))
CycleFit(k) ==
  /\ Unmarked(k.snap)
  /\ k.pc = "detected" => ~IsMarker(k.snap.reason)
  /\ k.pc \in {"begin", "reproof", "deleting", "restamp", "complete"} /\ k.seen.kind = "op" =>
       k.op /\ k.block = k.seen.block
  /\ k.pc \in {"begin", "reproof", "deleting", "restamp"} /\ k.remove /\ IsMarker(k.seen) =>
       k.seen.rem = "yes"
  /\ RecordsDone(k.seen)
SettledInv ==
  /\ CallsFit /\ HealWaits /\ Unmarked(row) /\ CycleFit(rec)
  /\ ClaimHasOwner /\ TerminalIsSettled

LEMMA SettledInit == Init => SettledInv
  <1>. SUFFICES ASSUME Init PROVE SettledInv
    OBVIOUS
  <1>1. CallsFit /\ HealWaits
    BY DEF Init, CallsFit, CallFit, HealWaits, IdleCall, IdleCycle, Stamping, Callers
  <1>2. Unmarked(row) /\ CycleFit(rec)
    BY DEF Init, Unmarked, RecordsDone, CycleFit, IdleCycle, NoRow, Text, IsMarker
  <1>3. ClaimHasOwner /\ TerminalIsSettled
    BY DEF Init, ClaimHasOwner, TerminalIsSettled, NoClaim
  <1>. QED BY <1>1, <1>2, <1>3 DEF SettledInv

(* One call moves: the others' markers stand. *)
LEMMA BecomesFit ==
  ASSUME TypeOK, CallsFit, NEW c \in Callers, NEW k, Becomes(c, k), CallFit(c, k)
  PROVE  CallsFit'
  <1>1. /\ call'[c] = k /\ \A d \in Callers \ {c} : call'[d] = call[d]
    BY DEF TypeOK, Becomes
  <1>. QED BY <1>1 DEF CallsFit, CallFit

(* The owner of the claim moves on with it. *)
LEMMA OwnerMoves ==
  ASSUME TypeOK, ClaimHasOwner, NEW c \in Callers, NEW k, Becomes(c, k), claim' = claim,
         \/ call[c].pc \in {"idle", "register"}
         \/ ~_owns_operator_claim(c)
         \/ /\ k.token = call[c].token /\ k.pc \notin {"idle", "register"}
            /\ (call[c].pc \in {"deleting", "restamp"} => claim.flight)
                 => (k.pc \in {"deleting", "restamp"} => claim.flight)
  PROVE  ClaimHasOwner'
  <1>1. /\ call'[c] = k /\ \A d \in Callers \ {c} : call'[d] = call[d]
    BY DEF TypeOK, Becomes
  <1>. SUFFICES ASSUME claim.token # 0
                PROVE  \E d \in Callers :
                         /\ call'[d].token = claim.token
                         /\ call'[d].pc \notin {"idle", "register"}
                         /\ call'[d].pc \in {"deleting", "restamp"} => claim.flight
    BY DEF ClaimHasOwner
  <1>2. PICK d \in Callers : /\ call[d].token = claim.token
                             /\ call[d].pc \notin {"idle", "register"}
                             /\ call[d].pc \in {"deleting", "restamp"} => claim.flight
    BY DEF ClaimHasOwner
  <1>3. CASE d = c
    BY <1>1, <1>2, <1>3 DEF _owns_operator_claim
  <1>4. CASE d # c
    BY <1>1, <1>2, <1>4
  <1>. QED BY <1>3, <1>4

(* A call that ends takes its own claim with it, and nobody else's. *)
LEMMA OwnerReleases ==
  ASSUME TypeOK, ClaimHasOwner, NEW c \in Callers, NEW k, Becomes(c, k), claim' = ReleasedClaim(c)
  PROVE  ClaimHasOwner'
  <1>1. CASE _owns_operator_claim(c)
    BY <1>1 DEF ReleasedClaim, NoClaim, ClaimHasOwner
  <1>2. CASE ~_owns_operator_claim(c)
    BY <1>2, OwnerMoves DEF ReleasedClaim
  <1>. QED BY <1>1, <1>2

(* What a call is left with by the ways it moves on. *)
LEMMA GotoFields ==
  ASSUME NEW k \in Calls, NEW pc \in CallPcs, NEW w
  PROVE  /\ [k EXCEPT !.pc = pc].pc = pc /\ [k EXCEPT !.pc = pc].token = k.token
         /\ [k EXCEPT !.pc = pc].marker = k.marker /\ [k EXCEPT !.pc = pc].block = k.block
         /\ [k EXCEPT !.pc = pc].remove = k.remove
         /\ [k EXCEPT !.pc = pc, !.seen = w].pc = pc
         /\ [k EXCEPT !.pc = pc, !.seen = w].token = k.token
         /\ [k EXCEPT !.pc = pc, !.seen = w].marker = k.marker
         /\ [k EXCEPT !.pc = pc, !.seen = w].block = k.block
         /\ [k EXCEPT !.pc = pc, !.seen = w].remove = k.remove
  BY DEF Calls

(* A marker that a call stamps is an operator's, with the call's flags. *)
LEMMA MarkerFields ==
  ASSUME NEW b, NEW r, NEW n
  PROVE  /\ _operator_fail_marker(b, r, n).kind = "op" /\ _operator_fail_marker(b, r, n).block = b
         /\ IsMarker(_operator_fail_marker(b, r, n))
         /\ _operator_fail_marker_removal_done(b, n).kind = "op"
         /\ _operator_fail_marker_removal_done(b, n).block = b
         /\ r => /\ _operator_fail_marker(b, r, n).rem = "yes"
                 /\ [_operator_fail_marker(b, r, n) EXCEPT !.rem = "done"]
                      = _operator_fail_marker_removal_done(b, n)
  BY DEF _operator_fail_marker, _operator_fail_marker_removal_done, IsMarker

(* What a step of the rows owes: the markers, the requests and the rule. *)
RowStep == Unmarked(row)' /\ TerminalIsSettled' /\ Governed

LEMMA RowStays == ASSUME SettledInv, UNCHANGED <<row, req>> PROVE RowStep
  BY DEF SettledInv, RowStep, Unmarked, TerminalIsSettled, Governed

LEMMA RowPends ==
  ASSUME SettledInv, row' \in Rows, row'.status = "failed_pending", RecordsDone(row'.reason),
         Governed
  PROVE  RowStep
  BY DEF RowStep, Unmarked, TerminalIsSettled

(* Phase C settles the request and drops the marker. *)
LEMMA CompletionSettles ==
  ASSUME TypeOK, NEW b \in BOOLEAN, NEW why, CompleteFailure(b, why),
         row.reason.kind = "op" => b = row.reason.block /\ why = "user_reported"
  PROVE  RowStep
  <1>1. row'.status = "failed" /\ row'.reason = Text("final") /\ blk' = (IF b THEN why ELSE blk)
        /\ req' = Rearmed
    BY DEF CompleteFailure
  <1>2. ~IsMarker(Text("final")) /\ RecordsDone(Text("final")) /\ Rearmed # "downloading"
    BY DEF Text, IsMarker, RecordsDone, Rearmed
  <1>3. Governed
    BY <1>1 DEF Governed
  <1>. QED BY <1>1, <1>2, <1>3 DEF RowStep, Unmarked, TerminalIsSettled

(* A mark_failed step keeps its call's marker and claim in order. *)
LEMMA MarkFailedCalls ==
  ASSUME TypeOK, SettledInv, NEW c \in Callers, MarkFailed(c)
  PROVE  CallsFit' /\ ClaimHasOwner'
  <1>0. /\ CallsFit /\ ClaimHasOwner /\ call[c] \in Calls /\ CallFit(c, call[c])
    BY DEF SettledInv, CallsFit, TypeOK
  <1>1. IdleCall.pc = "idle" /\ CallFit(c, IdleCall)
    BY DEF IdleCall, CallFit, Stamping
  <1>2. ASSUME Return(c), claim' = claim, call[c].pc = "register" \/ ~_owns_operator_claim(c)
        PROVE  CallsFit' /\ ClaimHasOwner'
    BY <1>0, <1>1, <1>2, BecomesFit, OwnerMoves DEF Return
  <1>3. ASSUME Return(c), claim' = ReleasedClaim(c) PROVE CallsFit' /\ ClaimHasOwner'
    BY <1>0, <1>1, <1>3, BecomesFit, OwnerReleases DEF Return
  <1>4. ASSUME Stamped(c) \/ Reobserves(c), claim' = claim, call[c].pc \in {"stamp", "adopt"}
        PROVE  CallsFit' /\ ClaimHasOwner'
    <2>1. PICK pc \in {"stamped", "reread"} : Becomes(c, [call[c] EXCEPT !.pc = pc, !.seen = NoRow])
      BY <1>4 DEF Stamped, Reobserves
    <2>. DEFINE k == [call[c] EXCEPT !.pc = pc, !.seen = NoRow]
    <2>2. /\ k.pc = pc /\ k.token = call[c].token /\ k.marker = call[c].marker
          /\ k.block = call[c].block /\ k.remove = call[c].remove
      BY <1>0, GotoFields DEF CallPcs
    <2>3. Becomes(c, k)
      BY <2>1
    <2>. HIDE DEF k
    <2>4. CallFit(c, k)
      BY <1>0, <1>4, <2>2 DEF CallFit, Stamping
    <2>5. CallsFit'
      BY <1>0, <2>3, <2>4, BecomesFit
    <2>6. k.pc \notin {"idle", "register", "deleting", "restamp"}
      BY <2>2
    <2>. QED BY <1>0, <1>4, <2>2, <2>3, <2>5, <2>6, OwnerMoves
  <1>5. ASSUME Releases(c), claim' = claim, call[c].pc = "complete" PROVE CallsFit' /\ ClaimHasOwner'
    <2>. DEFINE k == [IdleCall EXCEPT !.pc = "release", !.token = call[c].token]
    <2>1. k.pc = "release" /\ k.token = call[c].token
      BY DEF IdleCall
    <2>2. Becomes(c, k)
      BY <1>5 DEF Releases
    <2>. HIDE DEF k
    <2>3. CallFit(c, k)
      BY <2>1 DEF CallFit, Stamping
    <2>4. CallsFit'
      BY <1>0, <2>2, <2>3, BecomesFit
    <2>. QED BY <1>0, <1>5, <2>1, <2>2, <2>4, OwnerMoves
  <1>6. CASE _register_operator_claim(c)
    <2>1. CASE Return(c) /\ claim' = claim
      BY <1>2, <1>6, <2>1 DEF _register_operator_claim
    <2>2. CASE Return(c) /\ claim' = NoClaim
      <3>1. CallsFit'
        BY <1>0, <1>1, <2>2, BecomesFit DEF Return
      <3>. QED BY <2>2, <3>1 DEF ClaimHasOwner, NoClaim
    <2>3. CASE ~(Return(c) /\ claim' = claim) /\ ~(Return(c) /\ claim' = NoClaim)
      <3>. DEFINE adopt == call[c].seen.status = "failed_pending"
                  m == _operator_fail_marker(call[c].block, call[c].remove, next)
                  k == [call[c] EXCEPT !.pc = IF adopt THEN "adopt" ELSE "stamp",
                                       !.token = next, !.marker = m]
      <3>1. /\ Becomes(c, k) /\ claim' = [token |-> next, flight |-> FALSE]
            /\ adopt => Adopts(c)
        BY <1>6, <2>3 DEF _register_operator_claim
      <3>2. /\ k.pc = IF adopt THEN "adopt" ELSE "stamp"
            /\ k.token = next /\ k.marker = m /\ k.block = call[c].block /\ k.remove = call[c].remove
        BY <1>0 DEF Calls
      <3>3. call'[c] = k
        BY <3>1 DEF TypeOK, Becomes
      <3>4. claim'.token = next
        BY <3>1
      <3>. HIDE DEF k
      <3>5. k.pc \in {"adopt", "stamp"} /\ (k.pc = "adopt" => c \in Operators)
        BY <3>1, <3>2 DEF Adopts
      <3>6. CallFit(c, k)
        BY <3>2, <3>5 DEF CallFit, Stamping
      <3>7. CallsFit'
        BY <1>0, <3>1, <3>6, BecomesFit
      <3>8. /\ call'[c].token = claim'.token /\ call'[c].pc \notin {"idle", "register"}
            /\ call'[c].pc \notin {"deleting", "restamp"}
        BY <3>2, <3>3, <3>4, <3>5
      <3>9. ClaimHasOwner'
        BY <3>8 DEF ClaimHasOwner
      <3>. QED BY <3>7, <3>9
    <2>. QED BY <2>1, <2>2, <2>3
  <1>7. CASE StampFresh(c)
    BY <1>4, <1>7 DEF StampFresh, registry
  <1>8. CASE RereadRow(c)
    <2>1. CASE Return(c) /\ claim' = ReleasedClaim(c)
      BY <1>3, <2>1
    <2>2. CASE ~(Return(c) /\ claim' = ReleasedClaim(c))
      <3>. DEFINE k == [call[c] EXCEPT !.pc = "adopt", !.seen = row]
      <3>1. /\ Becomes(c, k) /\ claim' = claim /\ Adopts(c) /\ call[c].pc = "reread"
        BY <1>8, <2>2 DEF RereadRow
      <3>2. /\ k.pc = "adopt" /\ k.token = call[c].token /\ k.marker = call[c].marker
            /\ k.block = call[c].block /\ k.remove = call[c].remove
        BY <1>0, GotoFields DEF CallPcs
      <3>. HIDE DEF k
      <3>3. CallFit(c, k)
        BY <1>0, <3>1, <3>2 DEF CallFit, Stamping, Adopts
      <3>4. CallsFit'
        BY <1>0, <3>1, <3>3, BecomesFit
      <3>. QED BY <1>0, <3>1, <3>2, <3>4, OwnerMoves
    <2>. QED BY <2>1, <2>2
  <1>9. CASE AdoptPending(c)
    BY <1>2, <1>4, <1>9 DEF AdoptPending, registry
  <1>10. CASE PhaseAFails(c) \/ ReleaseClaim(c)
    BY <1>3, <1>10 DEF PhaseAFails, ReleaseClaim
  <1>11. ASSUME NEW pc \in {"deleting", "restamp", "complete"}, Goto(c, pc),
                call[c].pc \in {"stamped", "deleting", "restamp"},
                pc # "complete" => call[c].remove
         PROVE  /\ CallsFit' /\ call'[c].pc = pc /\ call'[c].token = call[c].token
                /\ (call[c].pc = "stamped" => pc # "restamp") /\ claim' = claim
                     /\ (pc = "deleting" => ~_owns_operator_claim(c)) => ClaimHasOwner'
    <2>. DEFINE k == [call[c] EXCEPT !.pc = pc]
    <2>1. Becomes(c, k)
      BY <1>11 DEF Goto
    <2>2. /\ k.pc = pc /\ k.token = call[c].token /\ k.marker = call[c].marker
          /\ k.block = call[c].block /\ k.remove = call[c].remove
      BY <1>0, GotoFields DEF CallPcs
    <2>3. call'[c] = k
      BY <2>1 DEF TypeOK, Becomes
    <2>. HIDE DEF k
    <2>4. call[c].marker.kind = "op" /\ call[c].marker.block = call[c].block
      BY <1>0, <1>11, MarkerFields DEF CallFit, Stamping
    <2>5. CallFit(c, k)
      BY <1>0, <1>11, <2>2, <2>4 DEF CallFit, Stamping
    <2>6. CallsFit'
      BY <1>0, <2>1, <2>5, BecomesFit
    <2>7. ASSUME call[c].pc = "stamped" => pc # "restamp", claim' = claim,
                 pc = "deleting" => ~_owns_operator_claim(c)
          PROVE  ClaimHasOwner'
      <3>1. CASE pc = "deleting"
        BY <1>0, <2>1, <2>7, <3>1, OwnerMoves
      <3>2. CASE pc # "deleting"
        <4>1. (call[c].pc \in {"deleting", "restamp"} => claim.flight)
                 => (k.pc \in {"deleting", "restamp"} => claim.flight)
          BY <1>11, <2>2, <2>7, <3>2
        <4>2. k.pc \notin {"idle", "register"}
          BY <2>2
        <4>. QED BY <1>0, <2>1, <2>2, <2>7, <4>1, <4>2, OwnerMoves
      <3>. QED BY <3>1, <3>2
    <2>. QED BY <2>2, <2>3, <2>6, <2>7
  <1>12. CASE BeginRemoval(c)
    <2>1. CASE call[c].remove /\ _owns_operator_claim(c)
      <3>1. claim' = [claim EXCEPT !.flight = TRUE] /\ Goto(c, "deleting") /\ call[c].pc = "stamped"
        BY <1>12, <2>1 DEF BeginRemoval
      <3>2. CallsFit' /\ call'[c].pc = "deleting" /\ call'[c].token = call[c].token
        BY <1>11, <2>1, <3>1
      <3>3. claim'.flight = TRUE /\ claim'.token = claim.token
        BY <3>1 DEF TypeOK
      <3>4. ClaimHasOwner'
        BY <2>1, <3>2, <3>3 DEF ClaimHasOwner, _owns_operator_claim
      <3>. QED BY <3>2, <3>4
    <2>2. CASE ~(call[c].remove /\ _owns_operator_claim(c))
      BY <1>11, <1>12, <2>2 DEF BeginRemoval
    <2>. QED BY <2>1, <2>2
  <1>13. CASE CallRemoves(c)
    <2>1. PICK pc \in {"restamp", "complete"} : Goto(c, pc)
      BY <1>13 DEF CallRemoves
    <2>2. call[c].pc = "deleting" /\ claim' = claim /\ call[c].remove
      BY <1>0, <1>13 DEF CallRemoves, registry, CallFit
    <2>. QED BY <1>11, <2>1, <2>2
  <1>14. CASE RecordRemoval(c)
    <2>0. call[c].pc = "restamp" /\ claim' = claim
      BY <1>14 DEF RecordRemoval, registry
    <2>1. CASE Goto(c, "complete")
      BY <1>11, <2>0, <2>1
    <2>2. CASE ~Goto(c, "complete")
      <3>. DEFINE done == _operator_fail_marker_removal_done(call[c].block, call[c].token)
                  k == [call[c] EXCEPT !.pc = "complete", !.marker = done]
      <3>1. Becomes(c, k)
        BY <1>14, <2>2 DEF RecordRemoval
      <3>2. /\ k.pc = "complete" /\ k.marker = done /\ k.block = call[c].block
            /\ k.token = call[c].token
        BY <1>0 DEF Calls
      <3>3. done.kind = "op" /\ done.block = call[c].block
        BY DEF _operator_fail_marker_removal_done
      <3>. HIDE DEF k, done
      <3>4. CallFit(c, k)
        BY <3>2, <3>3 DEF CallFit, Stamping
      <3>5. CallsFit'
        BY <1>0, <3>1, <3>4, BecomesFit
      <3>. QED BY <1>0, <2>0, <3>1, <3>2, <3>5, OwnerMoves
    <2>. QED BY <2>1, <2>2
  <1>15. CASE CallCompletes(c) \/ CallYields(c)
    BY <1>5, <1>15 DEF CallCompletes, CallYields, registry
  <1>. QED
    BY <1>6, <1>7, <1>8, <1>9, <1>10, <1>12, <1>13, <1>14, <1>15 DEF MarkFailed

(* A mark_failed step moves the row only as its marker allows. *)
LEMMA MarkFailedRow ==
  ASSUME TypeOK, RegrabInv, SettledInv, NEW c \in Callers, MarkFailed(c)
  PROVE  RowStep
  <1>0. /\ row \in Rows /\ call[c] \in Calls /\ CallFit(c, call[c])
        /\ call[c].pc = "stamp" => call[c].seen.status \in Live
    BY DEF SettledInv, CallsFit, TypeOK, RegrabInv, StampsFromLive
  <1>1. TypeOK'
    BY MarkFailedType
  <1>2. row' \in Rows
    BY <1>1 DEF TypeOK
  <1>3. CASE UNCHANGED <<row, req>>
    BY <1>3, RowStays
  <1>4. CASE StampFresh(c) /\ ~UNCHANGED <<row, req>>
    <2>1. /\ row.status \in Live /\ row'.status = "failed_pending"
          /\ row'.reason = call[c].marker /\ call[c].pc = "stamp"
      BY <1>0, <1>4 DEF StampFresh, StatusIs
    <2>2. Governed
      BY <2>1 DEF Governed, Live
    <2>3. call[c].marker.kind = "op"
      BY <1>0, <2>1, MarkerFields DEF CallFit, Stamping
    <2>4. RecordsDone(row'.reason)
      BY <2>1, <2>3 DEF RecordsDone
    <2>. QED BY <1>2, <2>1, <2>2, <2>4, RowPends
  <1>5. CASE AdoptPending(c) /\ ~UNCHANGED <<row, req>>
    <2>1. row.status = "failed_pending" /\ Restamp(call[c].marker) /\ call[c].pc = "adopt"
      BY <1>5 DEF AdoptPending, PendingWith
    <2>2. row'.status = "failed_pending" /\ row'.reason = call[c].marker
      BY <1>0, <2>1 DEF Restamp, Rows
    <2>3. /\ c \in Operators
          /\ call[c].marker = _operator_fail_marker(call[c].block, call[c].remove, call[c].token)
      BY <1>0, <2>1 DEF CallFit, Stamping
    <2>4. Governed
      BY <2>2, <2>3 DEF Governed
    <2>5. RecordsDone(row'.reason)
      BY <2>2, <2>3, MarkerFields DEF RecordsDone
    <2>. QED BY <1>2, <2>2, <2>4, <2>5, RowPends
  <1>6. CASE RecordRemoval(c) /\ ~UNCHANGED <<row, req>>
    <2>. DEFINE m == _operator_fail_marker(call[c].block, call[c].remove, call[c].token)
                done == _operator_fail_marker_removal_done(call[c].block, call[c].token)
    <2>1. PendingWith(call[c].marker) /\ Restamp(done) /\ call[c].pc = "restamp"
      BY <1>6 DEF RecordRemoval
    <2>2. call[c].marker = m /\ call[c].remove
      BY <1>0, <2>1 DEF CallFit, Stamping
    <2>3. m.rem = "yes" /\ [m EXCEPT !.rem = "done"] = done /\ done.rem = "done"
      BY <2>2 DEF _operator_fail_marker, _operator_fail_marker_removal_done
    <2>. HIDE DEF m, done
    <2>4. row.status = "failed_pending" /\ row.reason = m
      BY <2>1, <2>2 DEF PendingWith
    <2>5. row'.status = "failed_pending" /\ row'.reason = done
      BY <1>0, <2>1, <2>4 DEF Restamp, Rows
    <2>6. Governed
      BY <2>3, <2>4, <2>5 DEF Governed
    <2>7. RecordsDone(row'.reason)
      BY <2>3, <2>5 DEF RecordsDone
    <2>. QED BY <1>2, <2>5, <2>6, <2>7, RowPends
  <1>7. CASE CallCompletes(c)
    <2>1. /\ CompleteFailure(call[c].block, "user_reported") /\ row.reason = call[c].marker
          /\ call[c].pc = "complete"
      BY <1>7 DEF CallCompletes, PendingWith
    <2>2. row.reason.block = call[c].block /\ call[c].block \in BOOLEAN
      BY <1>0, <2>1, CallFields DEF CallFit
    <2>. QED BY <2>1, <2>2, CompletionSettles
  <1>8. CASE \/ _register_operator_claim(c) \/ RereadRow(c) \/ PhaseAFails(c) \/ BeginRemoval(c)
             \/ CallRemoves(c) \/ CallYields(c) \/ ReleaseClaim(c)
    <2>1. UNCHANGED <<row, req>>
      BY <1>8 DEF _register_operator_claim, RereadRow, PhaseAFails, BeginRemoval, CallRemoves,
                  CallYields, ReleaseClaim, db
    <2>. QED BY <2>1, RowStays
  <1>. QED BY <1>3, <1>4, <1>5, <1>6, <1>7, <1>8 DEF MarkFailed

(* What the rest of the invariant asks of a step. *)
LEMMA MarkFailedSettled ==
  ASSUME TypeOK, RegrabInv, SettledInv, NEW c \in Callers, MarkFailed(c)
  PROVE  SettledInv' /\ Governed
  <1>1. CallsFit' /\ ClaimHasOwner' /\ RowStep
    BY MarkFailedCalls, MarkFailedRow
  <1>2. /\ UNCHANGED rec /\ call[c].pc # "idle"
    BY DEF MarkFailed, _register_operator_claim, StampFresh, RereadRow, AdoptPending,
           PhaseAFails, BeginRemoval, CallRemoves, RecordRemoval, CallCompletes, CallYields,
           ReleaseClaim
  <1>3. \E k : Becomes(c, k)
    BY DEF MarkFailed, _register_operator_claim, StampFresh, RereadRow, AdoptPending,
           PhaseAFails, BeginRemoval, CallRemoves, RecordRemoval, CallCompletes, CallYields,
           ReleaseClaim, Return, Stamped, Reobserves, Goto, Releases
  <1>4. HealWaits'
    BY <1>2, <1>3 DEF SettledInv, HealWaits, Becomes, TypeOK, Callers
  <1>5. CycleFit(rec)'
    BY <1>2 DEF SettledInv, CycleFit, Unmarked
  <1>. QED BY <1>1, <1>4, <1>5 DEF SettledInv, RowStep

(* A cycle that starts, ends or waits knows nothing of a marker. *)
LEMMA IdleFit ==
  /\ CycleFit(IdleCycle) /\ Unmarked(NoRow)
  /\ CycleFit([IdleCycle EXCEPT !.pc = "healing"])
  /\ \A r \in BOOLEAN : CycleFit([IdleCycle EXCEPT !.pc = "settle", !.remove = r])
  /\ RecordsDone(Text("none")) /\ RecordsDone(Text("env"))
  /\ ~IsMarker(Text("env")) /\ Text("env").kind # "op" /\ IdleCycle.snap = NoRow
  BY DEF CycleFit, IdleCycle, Unmarked, RecordsDone, NoRow, Text, IsMarker

(* A cycle that only moves on. *)
LEMMA CycleAtFields ==
  ASSUME TypeOK, NEW pc \in CyclePcs, CycleAt(pc)
  PROVE  /\ rec'.pc = pc /\ rec'.snap = rec.snap /\ rec'.seen = rec.seen /\ rec'.op = rec.op
         /\ rec'.block = rec.block /\ rec'.remove = rec.remove
  BY DEF TypeOK, CycleAt, Cycles

(* What the cycle knows of the reason it saw stays true of that reason. *)
LEMMA CycleKnows ==
  ASSUME TypeOK, RegrabInv, SettledInv, ReconcileCycle
  PROVE  CycleFit(rec)'
  <1>. SUFFICES CycleFit(rec')
    BY DEF CycleFit, Unmarked
  <1>0. /\ rec \in Cycles /\ row \in Rows /\ CycleFit(rec) /\ Unmarked(row)
        /\ rec.remove \in BOOLEAN /\ rec.snap.reason \in Reasons /\ rec.snap \in Rows
    BY CycleFields, RowTypes DEF TypeOK, SettledInv
  <1>1. CASE CycleEnds \/ CycleWaits \/ CycleSettles
    BY <1>0, <1>1, IdleFit DEF CycleEnds, CycleWaits, CycleSettles
  <1>2. CASE SnapshotRows
    <2>1. rec' = [IdleCycle EXCEPT !.pc = "client", !.snap = row]
      BY <1>2 DEF SnapshotRows
    <2>2. rec'.pc = "client" /\ rec'.snap = row /\ rec'.seen = Text("none")
      BY <2>1 DEF IdleCycle
    <2>. QED BY <1>0, <2>2, IdleFit DEF CycleFit
  <1>3. CASE PollClient
    <2>1. rec'.pc = "apply" /\ rec'.snap = rec.snap /\ rec'.seen = rec.seen
      BY <1>0, <1>3 DEF PollClient, Cycles
    <2>. QED BY <1>0, <2>1 DEF CycleFit
  <1>4. CASE ApplyTransition /\ ~CycleEnds
    <2>1. CASE CycleAt("detected")
      <3>1. rec'.pc = "detected" /\ rec'.snap = rec.snap /\ rec'.seen = rec.seen
        BY <2>1, CycleAtFields DEF CyclePcs
      <3>2. CASE rec.to = "failed_pending"
        <4>1. rec.snap.status \in {"downloading", "import_pending"}
          BY <1>4, <3>2 DEF ApplyTransition, RegrabInv, AppliesToPolled
        <4>2. ~IsMarker(rec.snap.reason)
          BY <1>0, <4>1 DEF CycleFit, Unmarked
        <4>. QED BY <1>0, <3>1, <4>2 DEF CycleFit
      <3>3. CASE rec.to # "failed_pending"
        <4>1. CycleAt("build")
          BY <1>4, <3>3 DEF ApplyTransition
        <4>. QED BY <3>1, <4>1, CycleAtFields DEF CyclePcs
      <3>. QED BY <3>2, <3>3
    <2>2. CASE CycleAt("build")
      <3>1. rec'.pc = "build" /\ rec'.snap = rec.snap /\ rec'.seen = rec.seen
        BY <2>2, CycleAtFields DEF CyclePcs
      <3>. QED BY <1>0, <3>1 DEF CycleFit
    <2>. QED BY <1>4, <2>1, <2>2 DEF ApplyTransition
  <1>5. CASE BuildDetected
    <2>1. PICK b \in BOOLEAN :
            LET k == [IdleCycle EXCEPT !.pc = "begin", !.block = b, !.remove = TRUE,
                                       !.seen = rec.snap.reason]
            IN rec' = k \/ rec' = [k EXCEPT !.seen = Text("env")]
      BY <1>5, Zenon DEF BuildDetected
    <2>2. rec'.pc = "begin" /\ rec'.snap = NoRow /\ rec'.seen \in {rec.snap.reason, Text("env")}
      BY <2>1 DEF IdleCycle
    <2>3. ~IsMarker(rec.snap.reason) /\ RecordsDone(rec.snap.reason)
      BY <1>0, <1>5 DEF BuildDetected, CycleFit, Unmarked
    <2>4. ~IsMarker(rec'.seen) /\ RecordsDone(rec'.seen)
      BY <2>2, <2>3, IdleFit
    <2>. QED BY <2>2, <2>4, IdleFit DEF CycleFit, IsMarker
  <1>6. CASE BuildResidual
    <2>. DEFINE s == rec.snap.reason
                b == IF IsMarker(s) THEN s.block ELSE s.kind # "env"
                r == IF IsMarker(s) THEN s.rem = "yes" ELSE TRUE
                o == s.kind = "op"
    <2>1. rec' = [IdleCycle EXCEPT !.pc = "begin", !.seen = s, !.op = o, !.block = b, !.remove = r]
      BY <1>6 DEF BuildResidual
    <2>3. /\ o <=> s.kind = "op"
          /\ IsMarker(s) => (b = s.block /\ (r <=> s.rem = "yes"))
      BY <1>0, ReasonTypes
    <2>4. RecordsDone(s)
      BY <1>0 DEF CycleFit, Unmarked
    <2>. HIDE DEF b, r, o
    <2>5. /\ rec'.pc = "begin" /\ rec'.seen = s /\ rec'.op = o /\ rec'.block = b
          /\ rec'.remove = r /\ rec'.snap = NoRow
      BY <2>1 DEF IdleCycle
    <2>. QED BY <2>3, <2>4, <2>5, IdleFit DEF CycleFit, IsMarker
  <1>7. ASSUME NEW pc \in {"reproof", "deleting", "restamp", "complete"}, CycleAt(pc),
               rec.pc \in {"begin", "reproof", "deleting", "restamp"}
        PROVE  CycleFit(rec')
    BY <1>0, <1>7, CycleAtFields DEF CycleFit, CyclePcs
  <1>8. CASE GuardRemoval /\ ~CycleEnds
    BY <1>7, <1>8 DEF GuardRemoval
  <1>9. CASE ReproveRow /\ ~CycleEnds
    BY <1>7, <1>9 DEF ReproveRow
  <1>10. CASE CycleRemoves
    <2>1. PICK pc \in {"restamp", "complete"} : CycleAt(pc)
      BY <1>10 DEF CycleRemoves
    <2>. QED BY <1>7, <1>10, <2>1 DEF CycleRemoves
  <1>11. CASE CycleRecordsRemoval
    <2>0. rec.pc = "restamp" /\ rec.remove
      BY <1>11 DEF CycleRecordsRemoval, RegrabInv, GuardedCycleRemoves
    <2>1. CASE CycleAt("complete")
      BY <1>7, <2>0, <2>1
    <2>2. CASE ~CycleAt("complete") /\ IsMarker(rec.seen)
      <3>. DEFINE done == _operator_fail_marker_removal_done(rec.seen.block, rec.seen.nonce)
      <3>1. rec' = [rec EXCEPT !.pc = "complete", !.seen = done]
        BY <1>11, <2>2 DEF CycleRecordsRemoval
      <3>2. done.block = rec.seen.block /\ done.rem = "done"
        BY DEF _operator_fail_marker_removal_done
      <3>. HIDE DEF done
      <3>3. /\ rec'.pc = "complete" /\ rec'.seen = done /\ rec'.op = rec.op /\ rec'.block = rec.block
            /\ rec'.snap = rec.snap
        BY <1>0, <3>1 DEF Cycles
      <3>4. rec.seen.kind = "op"
        BY <1>0, <2>0, <2>2 DEF CycleFit, RecordsDone, IsMarker
      <3>5. rec.op /\ rec.block = rec.seen.block
        BY <1>0, <2>0, <3>4 DEF CycleFit
      <3>. QED BY <1>0, <3>2, <3>3, <3>5 DEF CycleFit, RecordsDone
    <2>3. CASE ~CycleAt("complete") /\ ~IsMarker(rec.seen)
      <3>. DEFINE done == _reconcile_removal_done_marker(rec.block)
      <3>1. rec' = [rec EXCEPT !.pc = "complete", !.seen = done]
        BY <1>11, <2>3 DEF CycleRecordsRemoval
      <3>2. done.kind = "rec" /\ done.rem = "done"
        BY DEF _reconcile_removal_done_marker
      <3>. HIDE DEF done
      <3>3. /\ rec'.pc = "complete" /\ rec'.seen = done /\ rec'.snap = rec.snap
        BY <1>0, <3>1 DEF Cycles
      <3>. QED BY <1>0, <3>2, <3>3 DEF CycleFit, RecordsDone
    <2>. QED BY <2>1, <2>2, <2>3
  <1>12. CASE heal_failed_pending_without_client
    <2>. DEFINE s == row.reason
                o == s.kind = "op"
    <2>1. rec' = [IdleCycle EXCEPT !.pc = "complete", !.seen = s, !.block = s.block, !.op = o]
      BY <1>12 DEF heal_failed_pending_without_client
    <2>2. /\ rec'.pc = "complete" /\ rec'.seen = s /\ rec'.block = s.block /\ rec'.op = o
          /\ rec'.snap = NoRow
      BY <2>1 DEF IdleCycle
    <2>3. (o <=> s.kind = "op") /\ RecordsDone(s)
      BY <1>0 DEF Unmarked
    <2>. HIDE DEF o
    <2>. QED BY <2>2, <2>3, IdleFit DEF CycleFit
  <1>13. CASE CycleAborts \/ StallHealed \/ BuildNothing \/ SettleCycle
    BY <1>1, <1>13 DEF CycleAborts, StallHealed, BuildNothing, SettleCycle
  <1>14. CASE RejectHeldPayload \/ HealStall
    BY <1>1, <1>14 DEF RejectHeldPayload, HealStall
  <1>15. CASE _handle_failed \/ CycleYields
    BY <1>1, <1>15 DEF _handle_failed, CycleYields
  <1>. QED
    BY <1>1, <1>2, <1>3, <1>4, <1>5, <1>6, <1>8, <1>9, <1>10, <1>11, <1>12, <1>13, <1>14, <1>15
       DEF ReconcileCycle

(* The cycle makes a call only when it has none, and waits for it. *)
LEMMA CycleCallsFit ==
  ASSUME TypeOK, SettledInv, ReconcileCycle
  PROVE  CallsFit' /\ HealWaits' /\ ClaimHasOwner'
  <1>0. UNCHANGED claim
    BY DEF ReconcileCycle, SnapshotRows, PollClient, CycleAborts, RejectHeldPayload,
           ApplyTransition, HealStall, StallHealed, BuildDetected, BuildResidual, BuildNothing,
           GuardRemoval, ReproveRow, CycleRemoves, CycleRecordsRemoval, _handle_failed,
           CycleYields, SettleCycle, heal_failed_pending_without_client, registry
  <1>1. rec.pc # "healing" \/ StallHealed
    BY DEF ReconcileCycle, SnapshotRows, PollClient, CycleAborts, RejectHeldPayload,
           ApplyTransition, HealStall, BuildDetected, BuildResidual, BuildNothing,
           GuardRemoval, ReproveRow, CycleRemoves, CycleRecordsRemoval, _handle_failed,
           CycleYields, SettleCycle, heal_failed_pending_without_client
  <1>2. call[SelfHeal].pc = "idle" /\ CallsFit /\ ClaimHasOwner /\ SelfHeal \in Callers
    BY <1>1 DEF StallHealed, SettledInv, HealWaits, Callers
  <1>3. CASE UNCHANGED call
    BY <1>0, <1>2, <1>3 DEF CallsFit, CallFit, HealWaits, ClaimHasOwner
  <1>4. CASE RejectHeldPayload \/ HealStall
    <2>1. PICK b, w : CycleCalls(b, w)
      BY <1>4 DEF RejectHeldPayload, HealStall
    <2>2. rec'.pc = "healing"
      BY <1>4 DEF RejectHeldPayload, HealStall, CycleWaits, IdleCycle
    <2>3. CASE Becomes(SelfHeal, Started(b, TRUE, w))
      <3>1. Started(b, TRUE, w).pc = "register"
        BY DEF Started, IdleCall
      <3>2. CallFit(SelfHeal, Started(b, TRUE, w))
        BY <3>1 DEF CallFit, Stamping
      <3>. QED BY <1>0, <1>2, <2>2, <2>3, <3>2, BecomesFit, OwnerMoves DEF HealWaits
    <2>. QED BY <1>3, <2>1, <2>3 DEF CycleCalls
  <1>. QED BY <1>3, <1>4, CycleFrame

(* A cycle step moves the row only as its marker allows. *)
LEMMA CycleRow ==
  ASSUME TypeOK, RegrabInv, SettledInv, ReconcileCycle
  PROVE  RowStep
  <1>0. /\ rec \in Cycles /\ row \in Rows /\ CycleFit(rec) /\ Unmarked(row)
        /\ rec.block \in BOOLEAN /\ rec.op \in BOOLEAN
    BY CycleFields DEF TypeOK, SettledInv
  <1>1. TypeOK'
    BY CycleType
  <1>2. row' \in Rows
    BY <1>1 DEF TypeOK
  <1>3. CASE UNCHANGED <<row, req>>
    BY <1>3, RowStays
  <1>4. CASE RejectHeldPayload /\ ~UNCHANGED <<row, req>>
    <2>1. row.status = "importing" /\ row' = [row EXCEPT !.status = "import_blocked"]
      BY <1>4 DEF RejectHeldPayload, StatusIs
    <2>2. row'.status = "import_blocked" /\ row'.reason = row.reason
      BY <1>0, <2>1 DEF Rows
    <2>. QED BY <1>0, <2>1, <2>2 DEF RowStep, Unmarked, TerminalIsSettled, Governed
  <1>5. CASE ApplyTransition /\ ~UNCHANGED <<row, req>>
    <2>1. /\ row' = [row EXCEPT !.status = rec.to] /\ rec.to # "none" /\ row.status = rec.snap.status
          /\ rec.pc = "apply"
      BY <1>5 DEF ApplyTransition, StatusIs
    <2>2. row.status \in {"downloading", "import_pending"}
      BY <2>1 DEF RegrabInv, AppliesToPolled
    <2>3. row'.status = rec.to /\ row'.reason = row.reason
      BY <1>0, <2>1 DEF Rows
    <2>4. rec.to \in {"none", "downloading", "import_pending", "failed_pending"}
      BY <1>0, CycleFields
    <2>. QED BY <1>0, <2>2, <2>3, <2>4 DEF RowStep, Unmarked, TerminalIsSettled, Governed
  <1>6. CASE BuildDetected /\ ~UNCHANGED <<row, req>>
    <2>1. rec.pc = "detected" /\ PendingWith(rec.snap.reason) /\ Restamp(Text("env"))
      BY <1>6 DEF BuildDetected
    <2>2. row.status = "failed_pending" /\ ~IsMarker(row.reason)
      BY <1>0, <2>1 DEF PendingWith, CycleFit
    <2>3. row'.status = "failed_pending" /\ row'.reason = Text("env")
      BY <1>0, <2>1, <2>2 DEF Restamp, Rows
    <2>4. Governed
      BY <2>2 DEF Governed, IsMarker
    <2>. QED BY <1>2, <2>3, <2>4, IdleFit, RowPends
  <1>7. CASE CycleRecordsRemoval /\ ~UNCHANGED <<row, req>>
    <2>0. rec.pc = "restamp" /\ rec.remove /\ row.status = "failed_pending" /\ row.reason = rec.seen
      BY <1>7 DEF CycleRecordsRemoval, RegrabInv, GuardedCycleRemoves, PendingWith
    <2>1. CASE IsMarker(rec.seen)
      <3>. DEFINE done == _operator_fail_marker_removal_done(rec.seen.block, rec.seen.nonce)
      <3>1. Restamp(done)
        BY <1>7, <2>1 DEF CycleRecordsRemoval
      <3>2. rec.seen.rem = "yes" /\ rec.seen.kind = "op" /\ rec.seen \in Reasons
        BY <1>0, <2>0, <2>1, CycleFields DEF CycleFit, RecordsDone, IsMarker
      <3>3. [rec.seen EXCEPT !.rem = "done"] = done /\ done.rem = "done"
        BY <3>2 DEF _operator_fail_marker_removal_done, Reasons
      <3>. HIDE DEF done
      <3>4. row'.status = "failed_pending" /\ row'.reason = done
        BY <1>0, <2>0, <3>1 DEF Restamp, Rows
      <3>5. Governed
        BY <2>0, <3>2, <3>3, <3>4 DEF Governed
      <3>6. RecordsDone(row'.reason)
        BY <3>3, <3>4 DEF RecordsDone
      <3>. QED BY <1>2, <3>4, <3>5, <3>6, RowPends
    <2>2. CASE ~IsMarker(rec.seen)
      <3>. DEFINE done == _reconcile_removal_done_marker(rec.block)
      <3>1. Restamp(done)
        BY <1>7, <2>2 DEF CycleRecordsRemoval
      <3>2. done.rem = "done"
        BY DEF _reconcile_removal_done_marker
      <3>. HIDE DEF done
      <3>3. row'.status = "failed_pending" /\ row'.reason = done
        BY <1>0, <2>0, <3>1 DEF Restamp, Rows
      <3>4. Governed
        BY <2>0, <2>2 DEF Governed, IsMarker
      <3>5. RecordsDone(row'.reason)
        BY <3>2, <3>3 DEF RecordsDone
      <3>. QED BY <1>2, <3>3, <3>4, <3>5, RowPends
    <2>. QED BY <2>1, <2>2
  <1>8. CASE _handle_failed
    <2>. DEFINE why == IF rec.op THEN "user_reported" ELSE "failed"
    <2>1. CompleteFailure(rec.block, why) /\ row.reason = rec.seen /\ rec.pc = "complete"
      BY <1>8 DEF _handle_failed, PendingWith
    <2>2. row.reason.kind = "op" => rec.block = row.reason.block /\ why = "user_reported"
      BY <1>0, <2>1 DEF CycleFit
    <2>. HIDE DEF why
    <2>. QED BY <1>0, <2>1, <2>2, CompletionSettles
  <1>9. CASE \/ SnapshotRows \/ PollClient \/ CycleAborts \/ HealStall \/ StallHealed \/ BuildResidual
             \/ BuildNothing \/ GuardRemoval \/ ReproveRow \/ CycleRemoves \/ CycleYields
             \/ SettleCycle \/ heal_failed_pending_without_client
    <2>1. UNCHANGED <<row, req>>
      BY <1>9 DEF SnapshotRows, PollClient, CycleAborts, HealStall, StallHealed, BuildResidual,
             BuildNothing, GuardRemoval, ReproveRow, CycleRemoves, CycleYields, SettleCycle,
             heal_failed_pending_without_client, db
    <2>. QED BY <2>1, RowStays
  <1>. QED BY <1>3, <1>4, <1>5, <1>6, <1>7, <1>8, <1>9 DEF ReconcileCycle

(* Every step of the reconcile cycle. *)
LEMMA CycleSettled ==
  ASSUME TypeOK, RegrabInv, SettledInv, ReconcileCycle
  PROVE  SettledInv' /\ Governed
  BY CycleKnows, CycleCallsFit, CycleRow DEF SettledInv, RowStep

(* Cancels, grabs, imports and crashes. *)
LEMMA EnvironmentSettled ==
  ASSUME TypeOK, SettledInv,
         \/ _cancel_request_locked \/ CancelRemoves \/ CancelReleases \/ Grab
         \/ ImportClaims \/ ImportSettles \/ _block \/ ImportDefers \/ Crash
  PROVE  SettledInv' /\ Governed
  <1>1. CASE Crash
    <2>1. /\ claim' = NoClaim /\ call' = [c \in Callers |-> IdleCall] /\ rec' = IdleCycle
          /\ UNCHANGED <<row, req>>
      BY <1>1 DEF Crash, db
    <2>2. RowStep
      BY <2>1, RowStays
    <2>3. CallsFit' /\ HealWaits'
      BY <2>1 DEF CallsFit, CallFit, HealWaits, IdleCall, IdleCycle, Stamping, Callers
    <2>4. ClaimHasOwner'
      BY <2>1 DEF ClaimHasOwner, NoClaim
    <2>5. CycleFit(rec)'
      BY <2>1, IdleFit DEF CycleFit, Unmarked
    <2>. QED BY <2>2, <2>3, <2>4, <2>5 DEF SettledInv, RowStep
  <1>2. ~Crash => UNCHANGED <<claim, call, rec>>
    BY DEF _cancel_request_locked, CancelRemoves, CancelReleases, Grab, GrabAdds, GrabFindsRow,
           _reuse_terminal_row, GrabLoses, _remove_torrent_if_added, ImportClaims,
           ImportSettles, _block, ImportDefers, ImportMoves, registry
  <1>3. UNCHANGED <<claim, call, rec>> =>
          CallsFit' /\ HealWaits' /\ ClaimHasOwner' /\ CycleFit(rec)'
    BY DEF SettledInv, CallsFit, CallFit, HealWaits, ClaimHasOwner, CycleFit, Unmarked
  <1>4. ~Crash => RowStep
    <2>1. CASE CancelRemoves \/ CancelReleases \/ GrabAdds \/ GrabFindsRow \/ GrabLoses
               \/ _remove_torrent_if_added
      <3>1. UNCHANGED <<row, req>>
        BY <2>1, Zenon DEF CancelRemoves, CancelReleases, GrabAdds, GrabFindsRow, GrabLoses,
           _remove_torrent_if_added, db
      <3>. QED BY <3>1, RowStays
    <2>2. CASE _cancel_request_locked
      <3>1. row'.status = "failed" /\ row'.reason = Text("cancelled") /\ req' = "cancelled"
        BY <2>2 DEF _cancel_request_locked
      <3>2. ~IsMarker(Text("cancelled")) /\ RecordsDone(Text("cancelled"))
        BY DEF Text, IsMarker, RecordsDone
      <3>. QED BY <3>1, <3>2 DEF RowStep, Unmarked, TerminalIsSettled, Governed
    <2>3. CASE _reuse_terminal_row
      <3>1. row.status \in Terminal /\ row'.status = "downloading" /\ row'.reason = Text("none")
        BY <2>3 DEF _reuse_terminal_row
      <3>2. ~IsMarker(Text("none")) /\ RecordsDone(Text("none"))
        BY DEF Text, IsMarker, RecordsDone
      <3>. QED BY <3>1, <3>2 DEF RowStep, Unmarked, TerminalIsSettled, Governed, Terminal
    <2>4. CASE ImportClaims \/ ImportSettles \/ _block \/ ImportDefers
      <3>1. /\ row.status \in {"import_pending", "import_blocked", "importing"}
            /\ row'.status \in {"importing", "imported", "import_blocked", "downloading"}
            /\ row'.reason \in {Text("none"), Text("blocked")}
        BY <2>4 DEF ImportClaims, ImportSettles, _block, ImportDefers, ImportMoves, Resumable
      <3>2. /\ ~IsMarker(Text("none")) /\ RecordsDone(Text("none"))
            /\ ~IsMarker(Text("blocked")) /\ RecordsDone(Text("blocked"))
        BY DEF Text, IsMarker, RecordsDone
      <3>3. ~IsMarker(row'.reason) /\ RecordsDone(row'.reason)
        BY <3>1, <3>2
      <3>. QED BY <3>1, <3>3 DEF RowStep, Unmarked, TerminalIsSettled, Governed
    <2>. QED BY <2>1, <2>2, <2>3, <2>4 DEF Grab
  <1>. QED BY <1>1, <1>2, <1>3, <1>4 DEF SettledInv, RowStep

(* Every step keeps the invariant and obeys the marker. *)
LEMMA SettledStep ==
  ASSUME TypeOK, RegrabInv, SettledInv, [Next]_vars
  PROVE  SettledInv' /\ Governed
  <1>1. ASSUME NEW o \in Operators, OperatorCalls(o) PROVE SettledInv' /\ Governed
    <2>1. PICK choice \in Choices : Becomes(o, Started(choice[1], choice[2], row))
      BY <1>1 DEF OperatorCalls
    <2>2. o \in Callers /\ o # SelfHeal /\ call[o].pc = "idle"
      BY <1>1, CallersAssumption DEF Callers, OperatorCalls
    <2>. DEFINE k == Started(choice[1], choice[2], row)
    <2>3. k.pc = "register"
      BY DEF Started, IdleCall
    <2>. HIDE DEF k
    <2>4. CallFit(o, k) /\ Becomes(o, k)
      BY <2>1, <2>3 DEF CallFit, Stamping, k
    <2>5. UNCHANGED <<row, req, claim, rec>>
      BY <1>1 DEF OperatorCalls, db, registry
    <2>6. CallsFit /\ ClaimHasOwner
      BY DEF SettledInv
    <2>7. CallsFit' /\ ClaimHasOwner'
      BY <2>2, <2>4, <2>5, <2>6, BecomesFit, OwnerMoves
    <2>8. HealWaits'
      BY <2>2, <2>4, <2>5 DEF SettledInv, HealWaits, Becomes, TypeOK, Callers
    <2>9. CycleFit(rec)'
      BY <2>5 DEF SettledInv, CycleFit, Unmarked
    <2>10. RowStep
      BY <2>5, RowStays
    <2>. QED BY <2>7, <2>8, <2>9, <2>10 DEF SettledInv, RowStep
  <1>2. CASE UNCHANGED vars
    BY <1>2 DEF vars, SettledInv, CallsFit, CallFit, HealWaits, Unmarked, CycleFit, ClaimHasOwner,
       TerminalIsSettled, Governed
  <1>. QED
    BY <1>1, <1>2, MarkFailedSettled, CycleSettled, EnvironmentSettled DEF Next

(* The invariant holds in every reachable state. *)
LEMMA SettledInvariant == Spec => []SettledInv
  <1>1. TypeOK /\ RegrabInv /\ SettledInv /\ [Next]_vars => SettledInv'
    BY SettledStep
  <1>. QED BY <1>1, SettledInit, TypeCorrect, RegrabInvariant, PTL DEF Spec

(* Nothing is left half done: a registered claim always has the call that will       *)
(* release it, so no row is hidden from the reconcile loop for ever, and a terminal    *)
(* failure carries no marker and never leaves its request downloading.             *)
THEOREM NothingHalfDone == Spec => []FailureIsSettled
  <1>1. SettledInv => FailureIsSettled
    BY DEF SettledInv, FailureIsSettled
  <1>. QED BY <1>1, SettledInvariant, PTL

(* A mark_failed marker governs its row, for any number of concurrent calls, grabs    *)
(* and crashes: whoever touches the row keeps the operator's choices or is a later     *)
(* operator's call, and whoever completes it blocklists exactly as the marker says.   *)
THEOREM MarkerRules == Spec => MarkerGoverns
  <1>1. TypeOK /\ RegrabInv /\ SettledInv /\ [Next]_vars => [Governed]_vars
    BY SettledStep
  <1>. QED BY <1>1, SettledInvariant, TypeCorrect, RegrabInvariant, PTL DEF Spec, MarkerGoverns

----------------------------------------------------------------------------
(* Removals.  The tokens of the calls past their registration differ, and a call that      *)
(* deletes owns the claim and bars the next one (ClaimInv).  What is recorded as removed     *)
(* was, because whoever records it has just removed it, and nobody re-owned the row          *)
(* meanwhile (RemovedInv).                                                         *)
Engaged(k) == k.pc \notin {"idle", "register"}
TokensFit ==
  /\ next # 0 /\ claim.token < next
  /\ \A c \in Callers : IF Engaged(call[c]) THEN call[c].token # 0 /\ call[c].token < next
                                            ELSE call[c].token = 0
  /\ \A c, d \in Callers : Engaged(call[c]) /\ call[c].token = call[d].token => c = d
DeleterOwns ==
  \A c \in Callers : call[c].pc \in {"deleting", "restamp"} => _owns_operator_claim(c) /\ claim.flight
Removes == {"register", "stamp", "reread", "adopt", "stamped"}
HealRemoves == call[SelfHeal].pc \in Removes => call[SelfHeal].remove
CycleUnclaimed == rec.pc \in {"reproof", "deleting"} => claim.token = 0
ClaimInv == TokensFit /\ DeleterOwns /\ HealRemoves /\ CycleUnclaimed

(* What a step of mark_failed does to its claim: it is refused, raises, is granted the claim,  *)
(* moves on with it, bars the next one, or ends.                                       *)
Admitted(c) ==
  call[c].pc = "register" /\ ~claim.flight /\ guard = 0 /\ (c = SelfHeal => claim.token = 0)
ClaimRefused(c) == call[c].pc = "register" /\ call'[c] = IdleCall /\ UNCHANGED <<claim, next>>
ClaimRaises(c) == Admitted(c) /\ call'[c] = IdleCall /\ claim' = NoClaim /\ next' = next + 1
ClaimGranted(c) ==
  /\ Admitted(c) /\ claim' = [token |-> next, flight |-> FALSE] /\ next' = next + 1
  /\ call'[c].pc \in {"adopt", "stamp"} /\ call'[c].token = next /\ call'[c].remove = call[c].remove
CallMoves(c) ==
  /\ Engaged(call[c]) /\ Engaged(call'[c]) /\ call'[c].token = call[c].token
  /\ UNCHANGED <<claim, next>>
  /\ call'[c].pc # "deleting" /\ (call'[c].pc = "restamp" => call[c].pc = "deleting")
  /\ call'[c].pc \in Removes => call[c].pc \in Removes /\ call'[c].remove = call[c].remove
RemovalBegins(c) ==
  /\ call[c].pc = "stamped" /\ _owns_operator_claim(c)
  /\ call'[c].pc = "deleting" /\ call'[c].token = call[c].token
  /\ claim' = [claim EXCEPT !.flight = TRUE] /\ UNCHANGED next
CallEnds(c) ==
  /\ Engaged(call[c]) /\ call[c].pc \notin {"deleting", "restamp"}
  /\ call'[c] = IdleCall /\ claim' = ReleasedClaim(c) /\ UNCHANGED next

(* A call's step leaves the other actors alone. *)
LEMMA MarkFailedFrame ==
  ASSUME TypeOK, NEW c \in Callers, MarkFailed(c)
  PROVE  /\ UNCHANGED <<guard, rec, cancel, grab>>
         /\ \A d \in Callers \ {c} : call'[d] = call[d]
  <1>1. UNCHANGED <<guard, rec, cancel, grab>>
    BY DEF MarkFailed, _register_operator_claim, StampFresh, RereadRow, AdoptPending,
           PhaseAFails, BeginRemoval, CallRemoves, RecordRemoval, CallCompletes, CallYields,
           ReleaseClaim, registry
  <1>2. \E k : Becomes(c, k)
    BY DEF MarkFailed, _register_operator_claim, StampFresh, RereadRow, AdoptPending,
           PhaseAFails, BeginRemoval, CallRemoves, RecordRemoval, CallCompletes, CallYields,
           ReleaseClaim, Return, Stamped, Reobserves, Goto, Releases
  <1>. QED BY <1>1, <1>2 DEF TypeOK, Becomes

(* Every step of mark_failed is one of these six. *)
LEMMA ClaimStep ==
  ASSUME TypeOK, NEW c \in Callers, MarkFailed(c)
  PROVE  \/ ClaimRefused(c) \/ ClaimRaises(c) \/ ClaimGranted(c) \/ CallMoves(c) \/ RemovalBegins(c)
         \/ CallEnds(c)
  <1>0. /\ call[c] \in Calls /\ guard \in Nat /\ claim \in [token : Nat, flight : BOOLEAN]
        /\ IdleCall.pc = "idle" /\ IdleCall.token = 0
    BY DEF TypeOK, IdleCall
  <1>1. ASSUME NEW k, Becomes(c, k) PROVE call'[c] = k
    BY <1>1 DEF TypeOK, Becomes
  <1>2. Return(c) => call'[c] = IdleCall
    BY <1>1 DEF Return
  <1>3. ASSUME NEW pc \in CallPcs, NEW w, Becomes(c, [call[c] EXCEPT !.pc = pc, !.seen = w])
        PROVE  call'[c].pc = pc /\ call'[c].token = call[c].token /\ call'[c].remove = call[c].remove
    <2>. DEFINE k == [call[c] EXCEPT !.pc = pc, !.seen = w]
    <2>1. k.pc = pc /\ k.token = call[c].token /\ k.remove = call[c].remove
      BY <1>0, GotoFields
    <2>2. call'[c] = k
      BY <1>1, <1>3
    <2>. HIDE DEF k
    <2>. QED BY <2>1, <2>2
  <1>4. ASSUME NEW pc \in CallPcs, Goto(c, pc)
        PROVE  call'[c].pc = pc /\ call'[c].token = call[c].token /\ call'[c].remove = call[c].remove
    <2>. DEFINE k == [call[c] EXCEPT !.pc = pc]
    <2>1. k.pc = pc /\ k.token = call[c].token /\ k.remove = call[c].remove
      BY <1>0, GotoFields
    <2>2. call'[c] = k
      BY <1>1, <1>4 DEF Goto
    <2>. HIDE DEF k
    <2>. QED BY <2>1, <2>2
  <1>5. ASSUME Stamped(c) \/ Reobserves(c), call[c].pc \in {"stamp", "adopt"}, UNCHANGED <<claim, next>>
        PROVE  CallMoves(c)
    <2>1. /\ call'[c].pc \in {"stamped", "reread"} /\ call'[c].token = call[c].token
          /\ call'[c].remove = call[c].remove
      BY <1>3, <1>5 DEF Stamped, Reobserves, CallPcs
    <2>. QED BY <1>5, <2>1 DEF CallMoves, Engaged, Removes
  <1>6. CASE _register_operator_claim(c)
    <2>. DEFINE refused == \/ removal_in_flight
                           \/ ~Supersedes(c) /\ _is_operator_claimed
                           \/ next > MaxToken
                adopt == call[c].seen.status = "failed_pending"
                raises == IF adopt THEN ~Adopts(c) ELSE call[c].seen.status \notin Failable
                m == _operator_fail_marker(call[c].block, call[c].remove, next)
                k == [call[c] EXCEPT !.pc = IF adopt THEN "adopt" ELSE "stamp",
                                     !.token = next, !.marker = m]
    <2>0. call[c].pc = "register"
      BY <1>6 DEF _register_operator_claim
    <2>1. CASE refused /\ Return(c) /\ UNCHANGED <<claim, next>>
      BY <1>2, <2>0, <2>1 DEF ClaimRefused
    <2>2. CASE ~(refused /\ Return(c) /\ UNCHANGED <<claim, next>>)
      <3>1. /\ ~refused /\ next' = next + 1
            /\ \/ claim' = NoClaim /\ Return(c)
               \/ claim' = [token |-> next, flight |-> FALSE] /\ Becomes(c, k)
        BY <1>6, <2>2 DEF _register_operator_claim
      <3>2. Admitted(c)
        BY <1>0, <2>0, <3>1, CallersAssumption
           DEF Admitted, removal_in_flight, Supersedes, _is_operator_claimed
      <3>3. k.pc \in {"adopt", "stamp"} /\ k.token = next /\ k.remove = call[c].remove
        BY <1>0 DEF Calls
      <3>4. Becomes(c, k) => call'[c] = k
        BY <1>1
      <3>. HIDE DEF k, refused, raises, adopt
      <3>. QED BY <1>2, <3>1, <3>2, <3>3, <3>4 DEF ClaimRaises, ClaimGranted
    <2>. QED BY <2>1, <2>2
  <1>7. CASE StampFresh(c)
    BY <1>5, <1>7 DEF StampFresh, registry
  <1>8. CASE RereadRow(c)
    <2>1. CASE Return(c) /\ claim' = ReleasedClaim(c)
      BY <1>2, <1>8, <2>1 DEF RereadRow, CallEnds, Engaged
    <2>2. CASE ~(Return(c) /\ claim' = ReleasedClaim(c))
      <3>1. /\ Becomes(c, [call[c] EXCEPT !.pc = "adopt", !.seen = row]) /\ UNCHANGED <<claim, next>>
            /\ call[c].pc = "reread"
        BY <1>8, <2>2 DEF RereadRow
      <3>2. /\ call'[c].pc = "adopt" /\ call'[c].token = call[c].token
            /\ call'[c].remove = call[c].remove
        BY <1>3, <3>1 DEF CallPcs
      <3>. QED BY <3>1, <3>2 DEF CallMoves, Engaged, Removes
    <2>. QED BY <2>1, <2>2
  <1>9. CASE AdoptPending(c)
    <2>1. CASE Stamped(c) \/ Reobserves(c)
      BY <1>5, <1>9, <2>1 DEF AdoptPending, registry
    <2>2. CASE ~(Stamped(c) \/ Reobserves(c))
      <3>1. ~_owns_operator_claim(c) /\ Return(c) /\ UNCHANGED <<claim, next>> /\ call[c].pc = "adopt"
        BY <1>9, <2>2 DEF AdoptPending, registry
      <3>. QED BY <1>2, <3>1 DEF CallEnds, Engaged, ReleasedClaim
    <2>. QED BY <2>1, <2>2
  <1>10. CASE PhaseAFails(c) \/ ReleaseClaim(c)
    BY <1>2, <1>10 DEF PhaseAFails, ReleaseClaim, CallEnds, Engaged
  <1>11. CASE BeginRemoval(c)
    <2>1. CASE call[c].remove /\ _owns_operator_claim(c)
      <3>1. /\ claim' = [claim EXCEPT !.flight = TRUE] /\ Goto(c, "deleting") /\ call[c].pc = "stamped"
            /\ UNCHANGED next
        BY <1>11, <2>1 DEF BeginRemoval
      <3>2. call'[c].pc = "deleting" /\ call'[c].token = call[c].token
        BY <1>4, <3>1 DEF CallPcs
      <3>. QED BY <2>1, <3>1, <3>2 DEF RemovalBegins
    <2>2. CASE ~(call[c].remove /\ _owns_operator_claim(c))
      <3>1. Goto(c, "complete") /\ call[c].pc = "stamped" /\ UNCHANGED <<claim, next>>
        BY <1>11, <2>2 DEF BeginRemoval
      <3>2. call'[c].pc = "complete" /\ call'[c].token = call[c].token
        BY <1>4, <3>1 DEF CallPcs
      <3>. QED BY <3>1, <3>2 DEF CallMoves, Engaged, Removes
    <2>. QED BY <2>1, <2>2
  <1>12. CASE CallRemoves(c)
    <2>1. PICK pc \in {"restamp", "complete"} : Goto(c, pc)
      BY <1>12 DEF CallRemoves
    <2>2. call[c].pc = "deleting" /\ UNCHANGED <<claim, next>>
      BY <1>12 DEF CallRemoves, registry
    <2>3. call'[c].pc = pc /\ call'[c].token = call[c].token
      BY <1>4, <2>1 DEF CallPcs
    <2>. QED BY <2>2, <2>3 DEF CallMoves, Engaged, Removes
  <1>13. CASE RecordRemoval(c)
    <2>. DEFINE done == _operator_fail_marker_removal_done(call[c].block, call[c].token)
                k == [call[c] EXCEPT !.pc = "complete", !.marker = done]
    <2>1. /\ call[c].pc = "restamp" /\ UNCHANGED <<claim, next>>
          /\ Becomes(c, k) \/ Goto(c, "complete")
      BY <1>13 DEF RecordRemoval, registry
    <2>2. k.pc = "complete" /\ k.token = call[c].token
      BY <1>0 DEF Calls
    <2>3. Becomes(c, k) => call'[c] = k
      BY <1>1
    <2>. HIDE DEF k
    <2>4. call'[c].pc = "complete" /\ call'[c].token = call[c].token
      BY <1>4, <2>1, <2>2, <2>3 DEF CallPcs
    <2>. QED BY <2>1, <2>4 DEF CallMoves, Engaged, Removes
  <1>14. CASE CallCompletes(c) \/ CallYields(c)
    <2>. DEFINE k == [IdleCall EXCEPT !.pc = "release", !.token = call[c].token]
    <2>1. Becomes(c, k) /\ call[c].pc = "complete" /\ UNCHANGED <<claim, next>>
      BY <1>14 DEF CallCompletes, CallYields, registry, Releases
    <2>2. k.pc = "release" /\ k.token = call[c].token
      BY DEF IdleCall
    <2>3. call'[c] = k
      BY <1>1, <2>1
    <2>. HIDE DEF k
    <2>. QED BY <2>1, <2>2, <2>3 DEF CallMoves, Engaged, Removes
  <1>. QED
    BY <1>6, <1>7, <1>8, <1>9, <1>10, <1>11, <1>12, <1>13, <1>14 DEF MarkFailed

(* A granted claim has a fresh token, and is granted only while nobody deletes or guards. *)
LEMMA MarkFailedClaim ==
  ASSUME TypeOK, ClaimInv, RegrabInv, NEW c \in Callers, MarkFailed(c)
  PROVE  ClaimInv'
  <1>0. /\ claim \in [token : Nat, flight : BOOLEAN] /\ next \in Nat /\ guard \in Nat
        /\ \A d \in Callers : call[d] \in Calls /\ call[d].token \in Nat
        /\ SelfHeal \in Callers
    BY CallFields DEF TypeOK, Callers
  <1>1. /\ UNCHANGED <<guard, rec>> /\ \A d \in Callers \ {c} : call'[d] = call[d]
    BY MarkFailedFrame
  <1>2. IdleCall.pc = "idle" /\ IdleCall.token = 0 /\ NoClaim.token = 0 /\ NoClaim.flight = FALSE
    BY DEF IdleCall, NoClaim
  <1>3. guard = 0 => rec.pc \notin {"reproof", "deleting"}
    BY DEF RegrabInv, GuardAccounting, CycleHolds, CancelHolds
  <1>4. CASE ClaimRefused(c)
    <2>1. TokensFit'
      BY <1>0, <1>1, <1>2, <1>4 DEF ClaimInv, TokensFit, Engaged, ClaimRefused
    <2>2. DeleterOwns'
      BY <1>1, <1>2, <1>4 DEF ClaimInv, DeleterOwns, ClaimRefused, _owns_operator_claim
    <2>3. HealRemoves'
      BY <1>0, <1>1, <1>2, <1>4 DEF ClaimInv, HealRemoves, Removes, ClaimRefused
    <2>4. CycleUnclaimed'
      BY <1>1, <1>2, <1>4 DEF ClaimInv, CycleUnclaimed, ClaimRefused
    <2>. QED BY <2>1, <2>2, <2>3, <2>4 DEF ClaimInv
  <1>5. CASE ClaimRaises(c)
    <2>0. claim'.token = 0 /\ next' = next + 1 /\ call'[c].pc = "idle" /\ call'[c].token = 0
          /\ ~claim.flight
      BY <1>2, <1>5 DEF ClaimRaises, Admitted
    <2>1. TokensFit'
      BY <1>0, <1>1, <2>0 DEF ClaimInv, TokensFit, Engaged
    <2>2. DeleterOwns'
      BY <1>1, <2>0 DEF ClaimInv, DeleterOwns
    <2>3. HealRemoves'
      BY <1>0, <1>1, <2>0 DEF ClaimInv, HealRemoves, Removes
    <2>4. CycleUnclaimed'
      BY <1>1, <2>0 DEF ClaimInv, CycleUnclaimed
    <2>. QED BY <2>1, <2>2, <2>3, <2>4 DEF ClaimInv
  <1>6. CASE ClaimGranted(c)
    <2>0. /\ claim'.token = next /\ next' = next + 1 /\ call'[c].pc \in {"adopt", "stamp"}
          /\ call'[c].token = next /\ ~claim.flight /\ guard = 0 /\ call[c].pc = "register"
          /\ call'[c].remove = call[c].remove
      BY <1>6 DEF ClaimGranted, Admitted
    <2>1. TokensFit'
      <3>1. \A d \in Callers \ {c} : call'[d].token # next /\ call'[d].token < next
        BY <1>0, <1>1 DEF ClaimInv, TokensFit
      <3>. QED BY <1>0, <1>1, <2>0, <3>1 DEF ClaimInv, TokensFit, Engaged
    <2>2. DeleterOwns'
      BY <1>1, <2>0 DEF ClaimInv, DeleterOwns
    <2>3. HealRemoves'
      BY <1>0, <1>1, <1>3, <2>0 DEF ClaimInv, HealRemoves, Removes
    <2>4. CycleUnclaimed'
      BY <1>1, <1>3, <2>0 DEF ClaimInv, CycleUnclaimed
    <2>. QED BY <2>1, <2>2, <2>3, <2>4 DEF ClaimInv
  <1>7. CASE CallMoves(c)
    <2>1. TokensFit'
      BY <1>0, <1>1, <1>7 DEF ClaimInv, TokensFit, Engaged, CallMoves
    <2>2. DeleterOwns'
      BY <1>1, <1>7 DEF ClaimInv, DeleterOwns, CallMoves, _owns_operator_claim
    <2>3. HealRemoves'
      BY <1>0, <1>1, <1>7 DEF ClaimInv, HealRemoves, CallMoves
    <2>4. CycleUnclaimed'
      BY <1>1, <1>7 DEF ClaimInv, CycleUnclaimed, CallMoves
    <2>. QED BY <2>1, <2>2, <2>3, <2>4 DEF ClaimInv
  <1>8. CASE RemovalBegins(c)
    <2>0. /\ claim'.token = claim.token /\ claim'.flight /\ next' = next /\ call'[c].pc = "deleting"
          /\ call'[c].token = call[c].token /\ Engaged(call[c]) /\ claim.token = call[c].token
          /\ claim.token # 0
      BY <1>0, <1>8 DEF RemovalBegins, Engaged, _owns_operator_claim
    <2>1. TokensFit'
      BY <1>0, <1>1, <2>0 DEF ClaimInv, TokensFit, Engaged
    <2>2. DeleterOwns'
      BY <1>1, <2>0 DEF ClaimInv, DeleterOwns, _owns_operator_claim
    <2>3. HealRemoves'
      BY <1>0, <1>1, <2>0 DEF ClaimInv, HealRemoves, Removes
    <2>4. CycleUnclaimed'
      BY <1>1, <2>0 DEF ClaimInv, CycleUnclaimed
    <2>. QED BY <2>1, <2>2, <2>3, <2>4 DEF ClaimInv
  <1>9. CASE CallEnds(c)
    <2>0. /\ next' = next /\ call'[c].pc = "idle" /\ call'[c].token = 0 /\ Engaged(call[c])
          /\ claim' = claim \/ (_owns_operator_claim(c) /\ claim' = NoClaim)
          /\ call[c].pc \notin {"deleting", "restamp"}
      BY <1>2, <1>9 DEF CallEnds, ReleasedClaim
    <2>1. TokensFit'
      BY <1>0, <1>1, <1>2, <2>0 DEF ClaimInv, TokensFit, Engaged
    <2>2. DeleterOwns'
      <3>1. ASSUME NEW d \in Callers, call'[d].pc \in {"deleting", "restamp"}
            PROVE  d # c /\ call'[d] = call[d] /\ _owns_operator_claim(d) /\ claim.flight
        BY <1>1, <2>0, <3>1 DEF ClaimInv, DeleterOwns
      <3>2. ASSUME NEW d \in Callers \ {c}, _owns_operator_claim(d) PROVE ~_owns_operator_claim(c)
        BY <2>0, <3>2 DEF ClaimInv, TokensFit, _owns_operator_claim
      <3>. QED BY <2>0, <3>1, <3>2 DEF DeleterOwns, _owns_operator_claim
    <2>3. HealRemoves'
      BY <1>0, <1>1, <1>2, <2>0 DEF ClaimInv, HealRemoves, Removes
    <2>4. CycleUnclaimed'
      BY <1>1, <1>2, <2>0 DEF ClaimInv, CycleUnclaimed
    <2>. QED BY <2>1, <2>2, <2>3, <2>4 DEF ClaimInv
  <1>. QED BY <1>4, <1>5, <1>6, <1>7, <1>8, <1>9, ClaimStep

(* A call begins without a token. *)
LEMMA StartKeepsClaim ==
  ASSUME TypeOK, ClaimInv, NEW c \in Callers, NEW b, NEW r, NEW w, Becomes(c, Started(b, r, w)),
         call[c].pc = "idle", UNCHANGED <<claim, next>>, c = SelfHeal => r, CycleUnclaimed'
  PROVE  ClaimInv'
  <1>. DEFINE k == Started(b, r, w)
  <1>1. k.pc = "register" /\ k.token = 0 /\ k.remove = r
    BY DEF Started, IdleCall
  <1>2. call'[c] = k /\ \A d \in Callers \ {c} : call'[d] = call[d]
    BY DEF TypeOK, Becomes
  <1>3. SelfHeal \in Callers
    BY DEF Callers
  <1>. HIDE DEF k
  <1>4. TokensFit'
    BY <1>1, <1>2 DEF ClaimInv, TokensFit, Engaged
  <1>5. DeleterOwns'
    BY <1>1, <1>2 DEF ClaimInv, DeleterOwns, _owns_operator_claim
  <1>6. HealRemoves'
    BY <1>1, <1>2, <1>3 DEF ClaimInv, HealRemoves
  <1>. QED BY <1>4, <1>5, <1>6 DEF ClaimInv

(* How the cycle comes to its delete and to the record of it. *)
LEMMA CycleAdvance ==
  ASSUME TypeOK, ReconcileCycle
  PROVE  /\ UNCHANGED <<claim, next>>
         /\ rec'.pc = "reproof" => claim.token = 0
         /\ rec'.pc = "deleting" => rec.pc = "reproof" /\ PendingWith(rec.seen) /\ UNCHANGED row
         /\ rec'.pc = "restamp" => rec.pc = "deleting" /\ wiped'
         /\ wiped => wiped'
  <1>0. rec \in Cycles /\ IdleCycle \in Cycles /\ IdleCycle.pc = "idle"
    BY IdleTypes DEF TypeOK, IdleCycle
  <1>1. CASE SnapshotRows \/ PollClient \/ CycleAborts \/ StallHealed \/ BuildNothing
    <2>1. rec'.pc \in {"client", "apply", "idle"}
      BY <1>0, <1>1 DEF SnapshotRows, PollClient, CycleAborts, StallHealed, BuildNothing, CycleEnds, Cycles
    <2>2. UNCHANGED <<claim, next, wiped>>
      BY <1>1 DEF SnapshotRows, PollClient, CycleAborts, StallHealed, BuildNothing, registry, history
    <2>. QED BY <2>1, <2>2
  <1>2. CASE RejectHeldPayload \/ HealStall
    <2>1. rec'.pc = "healing"
      BY <1>0, <1>2 DEF RejectHeldPayload, HealStall, CycleWaits, Cycles
    <2>2. UNCHANGED <<claim, next, wiped>>
      BY <1>2 DEF RejectHeldPayload, HealStall, registry, history
    <2>. QED BY <2>1, <2>2
  <1>3. CASE ApplyTransition
    <2>1. CycleAt("detected") \/ CycleAt("build") \/ CycleEnds
      BY <1>3 DEF ApplyTransition
    <2>2. rec'.pc \in {"detected", "build", "idle"}
      BY <1>0, <2>1 DEF CycleAt, CycleEnds, Cycles
    <2>3. UNCHANGED <<claim, next, wiped>>
      BY <1>3 DEF ApplyTransition, registry, history
    <2>. QED BY <2>2, <2>3
  <1>4. CASE BuildDetected
    <2>1. rec'.pc = "begin"
      <3>1. PICK b \in BOOLEAN :
              LET completion == [IdleCycle EXCEPT !.pc = "begin", !.block = b,
                                                  !.remove = TRUE, !.seen = rec.snap.reason]
              IN  rec' = completion \/ rec' = [completion EXCEPT !.seen = Text("env")]
        BY <1>4 DEF BuildDetected
      <3>. QED BY <3>1 DEF IdleCycle
    <2>2. UNCHANGED <<claim, next, wiped>>
      BY <1>4 DEF BuildDetected, registry, history
    <2>. QED BY <2>1, <2>2
  <1>5. CASE BuildResidual \/ heal_failed_pending_without_client
    <2>1. rec'.pc \in {"begin", "complete"}
      BY <1>5 DEF BuildResidual, heal_failed_pending_without_client, IdleCycle
    <2>2. UNCHANGED <<claim, next, wiped>>
      BY <1>5 DEF BuildResidual, heal_failed_pending_without_client, registry, history
    <2>. QED BY <2>1, <2>2
  <1>6. CASE GuardRemoval
    <2>1. CycleEnds \/ CycleAt("complete") \/ (CycleAt("reproof") /\ claim.token = 0)
      BY <1>6 DEF GuardRemoval, _is_operator_claimed
    <2>2. rec'.pc \in {"idle", "complete"} \/ (rec'.pc = "reproof" /\ claim.token = 0)
      BY <1>0, <2>1 DEF CycleAt, CycleEnds, Cycles
    <2>3. UNCHANGED <<claim, next, wiped>>
      BY <1>6 DEF GuardRemoval, history
    <2>. QED BY <2>2, <2>3
  <1>7. CASE ReproveRow
    <2>1. CycleEnds \/ (CycleAt("deleting") /\ PendingWith(rec.seen))
      BY <1>7 DEF ReproveRow
    <2>2. rec'.pc = "idle" \/ (rec'.pc = "deleting" /\ PendingWith(rec.seen))
      BY <1>0, <2>1 DEF CycleAt, CycleEnds, Cycles
    <2>3. UNCHANGED <<claim, next, wiped, row>> /\ rec.pc = "reproof"
      BY <1>7 DEF ReproveRow, history, db
    <2>. QED BY <2>2, <2>3
  <1>8. CASE CycleRemoves
    <2>1. PICK ok \in BOOLEAN : RemoveTorrent(ok) /\ CycleAt(IF ok THEN "restamp" ELSE "complete")
      BY <1>8 DEF CycleRemoves
    <2>2. rec'.pc = IF ok THEN "restamp" ELSE "complete"
      BY <1>0, <2>1 DEF CycleAt, Cycles
    <2>3. UNCHANGED <<claim, next>> /\ rec.pc = "deleting"
      BY <1>8 DEF CycleRemoves, registry
    <2>4. (ok => wiped') /\ (~ok => wiped' = wiped)
      BY <2>1 DEF RemoveTorrent
    <2>. QED BY <2>2, <2>3, <2>4
  <1>9. CASE CycleRecordsRemoval
    <2>1. rec'.pc = "complete"
      BY <1>0, <1>9 DEF CycleRecordsRemoval, CycleAt, Cycles
    <2>2. UNCHANGED <<claim, next, wiped>>
      BY <1>9 DEF CycleRecordsRemoval, registry, history
    <2>. QED BY <2>1, <2>2
  <1>10. CASE _handle_failed \/ CycleYields \/ SettleCycle
    <2>1. rec'.pc \in {"settle", "idle"}
      BY <1>0, <1>10 DEF _handle_failed, CycleYields, SettleCycle, CycleSettles, CycleEnds, Cycles
    <2>2. UNCHANGED <<claim, next, wiped>>
      BY <1>10 DEF _handle_failed, CycleYields, SettleCycle, registry, history
    <2>. QED BY <2>1, <2>2
  <1>. QED
    BY <1>1, <1>2, <1>3, <1>4, <1>5, <1>6, <1>7, <1>8, <1>9, <1>10 DEF ReconcileCycle

(* The cycle touches no claim, and guards only an unclaimed row. *)
LEMMA CycleClaim ==
  ASSUME TypeOK, SettledInv, ClaimInv, ReconcileCycle
  PROVE  ClaimInv'
  <1>1. UNCHANGED <<claim, next>> /\ CycleUnclaimed'
    BY CycleAdvance DEF ClaimInv, CycleUnclaimed
  <1>2. CASE UNCHANGED call
    <2>1. TokensFit'
      BY <1>1, <1>2 DEF ClaimInv, TokensFit
    <2>2. DeleterOwns' /\ HealRemoves'
      BY <1>1, <1>2 DEF ClaimInv, DeleterOwns, HealRemoves, _owns_operator_claim
    <2>. QED BY <1>1, <2>1, <2>2 DEF ClaimInv
  <1>3. CASE RejectHeldPayload \/ HealStall
    <2>1. rec.pc # "healing" /\ SelfHeal \in Callers
      BY <1>3 DEF RejectHeldPayload, HealStall, Callers
    <2>2. call[SelfHeal].pc = "idle"
      BY <2>1 DEF SettledInv, HealWaits
    <2>3. PICK b, w : CycleCalls(b, w)
      BY <1>3 DEF RejectHeldPayload, HealStall
    <2>4. CASE Becomes(SelfHeal, Started(b, TRUE, w))
      BY <1>1, <2>1, <2>2, <2>4, StartKeepsClaim
    <2>. QED BY <1>2, <2>3, <2>4 DEF CycleCalls
  <1>. QED BY <1>2, <1>3, CycleFrame

(* Cancels, grabs and imports touch no claim; a crash forgets them all. *)
LEMMA EnvironmentClaim ==
  ASSUME TypeOK, ClaimInv,
         \/ _cancel_request_locked \/ CancelRemoves \/ CancelReleases \/ Grab
         \/ ImportClaims \/ ImportSettles \/ _block \/ ImportDefers \/ Crash
  PROVE  ClaimInv'
  <1>1. CASE Crash
    <2>1. /\ claim' = NoClaim /\ call' = [c \in Callers |-> IdleCall] /\ rec' = IdleCycle /\ next' = 1
      BY <1>1 DEF Crash
    <2>2. TokensFit' /\ DeleterOwns'
      BY <2>1 DEF TokensFit, DeleterOwns, Engaged, IdleCall, NoClaim
    <2>3. HealRemoves' /\ CycleUnclaimed'
      BY <2>1 DEF HealRemoves, CycleUnclaimed, Removes, IdleCall, IdleCycle, Callers
    <2>. QED BY <2>2, <2>3 DEF ClaimInv
  <1>2. CASE ~Crash
    <2>1. UNCHANGED <<claim, next, call, rec>>
      BY <1>2 DEF _cancel_request_locked, CancelRemoves, CancelReleases, Grab, GrabAdds, GrabFindsRow,
             _reuse_terminal_row, GrabLoses, _remove_torrent_if_added, ImportClaims,
             ImportSettles, _block, ImportDefers, ImportMoves, registry
    <2>. QED BY <2>1 DEF ClaimInv, TokensFit, DeleterOwns, HealRemoves, CycleUnclaimed, _owns_operator_claim
  <1>. QED BY <1>1, <1>2

(* The claims fit in every reachable state. *)
LEMMA ClaimInvariant == Spec => []ClaimInv
  <1>1. Init => ClaimInv
    <2>. SUFFICES ASSUME Init PROVE ClaimInv
      OBVIOUS
    <2>1. TokensFit /\ DeleterOwns
      BY DEF Init, TokensFit, DeleterOwns, Engaged, IdleCall, NoClaim
    <2>2. HealRemoves /\ CycleUnclaimed
      BY DEF Init, HealRemoves, CycleUnclaimed, Removes, IdleCall, IdleCycle, Callers
    <2>. QED BY <2>1, <2>2 DEF ClaimInv
  <1>2. TypeOK /\ RegrabInv /\ SettledInv /\ ClaimInv /\ [Next]_vars => ClaimInv'
    <2>. SUFFICES ASSUME TypeOK, RegrabInv, SettledInv, ClaimInv, [Next]_vars PROVE ClaimInv'
      OBVIOUS
    <2>1. ASSUME NEW o \in Operators, OperatorCalls(o) PROVE ClaimInv'
      <3>1. PICK choice \in Choices : Becomes(o, Started(choice[1], choice[2], row))
        BY <2>1 DEF OperatorCalls
      <3>2. o \in Callers /\ o # SelfHeal /\ call[o].pc = "idle" /\ UNCHANGED <<claim, next, rec>>
        BY <2>1, CallersAssumption DEF Callers, OperatorCalls, registry
      <3>3. CycleUnclaimed'
        BY <3>2 DEF ClaimInv, CycleUnclaimed
      <3>. QED BY <3>1, <3>2, <3>3, StartKeepsClaim
    <2>2. CASE UNCHANGED vars
      BY <2>2 DEF vars, ClaimInv, TokensFit, DeleterOwns, HealRemoves, CycleUnclaimed, _owns_operator_claim
    <2>. QED BY <2>1, <2>2, MarkFailedClaim, CycleClaim, EnvironmentClaim DEF Next
  <1>. QED BY <1>1, <1>2, TypeCorrect, RegrabInvariant, SettledInvariant, PTL DEF Spec

(* A removal on record happened.  A call or a cycle that is about to record one has made it,   *)
(* and no grab has re-owned the row since; free text never passes for a marker; and only a     *)
(* failed row can have been completed under remove=no.                                  *)
RestampsRemoved ==
  /\ \A c \in Callers : call[c].pc = "restamp" /\ PendingWith(call[c].marker) => wiped
  /\ rec.pc = "restamp" => wiped
GrabWaits == grab.pc = "cas" => rec.pc # "restamp"
PlainText == ~IsMarker(row.reason) => row.reason.rem = "no"
KeptIsFailed == kept => row.status = "failed"
RemovedInv == DoneMeansRemoved /\ RestampsRemoved /\ GrabWaits /\ PlainText /\ KeptIsFailed

(* A marker carries the token it was stamped with. *)
LEMMA MarkerNonce ==
  ASSUME NEW b, NEW r, NEW n
  PROVE  _operator_fail_marker(b, r, n).nonce = n
  BY DEF _operator_fail_marker

(* The markers of the calls about to record a removal are their own. *)
LEMMA RecordersDiffer ==
  ASSUME TypeOK, SettledInv, ClaimInv, NEW c \in Callers, NEW d \in Callers,
         call[c].pc \in Stamping, call[d].pc = "restamp", call[c].marker = call[d].marker
  PROVE  c = d
  <1>1. /\ call[c].marker = _operator_fail_marker(call[c].block, call[c].remove, call[c].token)
        /\ call[d].marker = _operator_fail_marker(call[d].block, call[d].remove, call[d].token)
    BY DEF SettledInv, CallsFit, CallFit, Stamping
  <1>2. /\ _operator_fail_marker(call[c].block, call[c].remove, call[c].token).nonce = call[c].token
        /\ _operator_fail_marker(call[d].block, call[d].remove, call[d].token).nonce = call[d].token
    BY MarkerNonce
  <1>3. Engaged(call[c]) /\ call[c].token = call[d].token
    BY <1>1, <1>2 DEF Engaged, Stamping
  <1>. QED BY <1>3 DEF ClaimInv, TokensFit

(* A call about to record its removal has stamped that it owes one. *)
LEMMA RecorderOwes ==
  ASSUME SettledInv, NEW d \in Callers, call[d].pc = "restamp"
  PROVE  call[d].marker.kind = "op" /\ call[d].marker.rem = "yes" /\ IsMarker(call[d].marker)
  <1>1. call[d].marker = _operator_fail_marker(call[d].block, call[d].remove, call[d].token) /\ call[d].remove
    BY DEF SettledInv, CallsFit, CallFit, Stamping
  <1>. DEFINE m == _operator_fail_marker(call[d].block, call[d].remove, call[d].token)
  <1>2. m.kind = "op" /\ m.rem = "yes" /\ IsMarker(m)
    BY <1>1 DEF _operator_fail_marker, IsMarker
  <1>. HIDE DEF m
  <1>. QED BY <1>1, <1>2 DEF m

(* A row that is not failing asks for no proof of a removal. *)
LEMMA RowIsPlain ==
  ASSUME row'.status # "failed_pending", rec'.pc # "restamp" \/ wiped', GrabWaits', PlainText', KeptIsFailed'
  PROVE  RemovedInv'
  BY DEF RemovedInv, DoneMeansRemoved, RestampsRemoved, PendingWith

(* Free text says nothing of a removal. *)
LEMMA TextIsPlain ==
  ASSUME NEW kind
  PROVE  Text(kind).rem = "no"
  BY DEF Text

(* A call's step on the row: none, its stamp, its record, or its completion. *)
LEMMA MarkFailedWrites ==
  ASSUME TypeOK, RegrabInv, SettledInv, NEW c \in Callers, MarkFailed(c)
  PROVE  /\ wiped => wiped'
         /\ call'[c].pc = "restamp" => wiped'
         /\ call'[c].pc = "stamped" => /\ call[c].pc \in {"stamp", "adopt"}
                                       /\ row'.status = "failed_pending" /\ row'.reason = call[c].marker
         /\ \/ UNCHANGED <<row, kept>>
            \/ /\ call[c].pc \in {"stamp", "adopt"} /\ row.status # "failed" /\ call'[c].pc = "stamped"
               /\ row'.status = "failed_pending" /\ row'.reason = call[c].marker /\ UNCHANGED kept
            \/ /\ call[c].pc = "restamp" /\ PendingWith(call[c].marker) /\ call'[c].pc = "complete"
               /\ row'.status = "failed_pending" /\ UNCHANGED kept
               /\ row'.reason = _operator_fail_marker_removal_done(call[c].block, call[c].token)
            \/ /\ call[c].pc = "complete" /\ call'[c].pc = "release"
               /\ row'.status = "failed" /\ row'.reason = Text("final")
  <1>0. /\ row \in Rows /\ call[c] \in Calls
        /\ call[c].pc = "stamp" => call[c].seen.status \in Live
    BY DEF TypeOK, RegrabInv, StampsFromLive
  <1>1. ASSUME NEW k, Becomes(c, k) PROVE call'[c] = k
    BY <1>1 DEF TypeOK, Becomes
  <1>2. CASE \/ _register_operator_claim(c) \/ RereadRow(c) \/ PhaseAFails(c) \/ BeginRemoval(c)
             \/ CallYields(c) \/ ReleaseClaim(c)
    <2>1. UNCHANGED <<row, kept, wiped>>
      BY <1>2 DEF _register_operator_claim, RereadRow, PhaseAFails, BeginRemoval, CallYields,
                  ReleaseClaim, db, history
    <2>3. call'[c].pc \notin {"restamp", "stamped"}
      <3>1. CASE Return(c)
        BY <1>1, <3>1 DEF Return, IdleCall
      <3>2. CASE _register_operator_claim(c)
        <4>1. call[c].pc = "register"
          BY <3>2 DEF _register_operator_claim
        <4>. QED BY <4>1, ClaimStep
             DEF ClaimRefused, ClaimRaises, ClaimGranted, CallMoves, RemovalBegins, CallEnds, Engaged, IdleCall
      <3>3. CASE RereadRow(c)
        <4>1. [call[c] EXCEPT !.pc = "adopt", !.seen = row].pc = "adopt"
          BY <1>0 DEF Calls
        <4>. QED BY <1>1, <3>1, <3>3, <4>1 DEF RereadRow
      <3>4. CASE BeginRemoval(c)
        <4>1. /\ [call[c] EXCEPT !.pc = "deleting"].pc = "deleting"
              /\ [call[c] EXCEPT !.pc = "complete"].pc = "complete"
          BY <1>0 DEF Calls
        <4>. QED BY <1>1, <3>4, <4>1 DEF BeginRemoval, Goto
      <3>5. CASE CallYields(c)
        <4>1. [IdleCall EXCEPT !.pc = "release", !.token = call[c].token].pc = "release"
          BY DEF IdleCall
        <4>. QED BY <1>1, <3>5, <4>1 DEF CallYields, Releases
      <3>. QED BY <1>2, <3>1, <3>2, <3>3, <3>4, <3>5 DEF PhaseAFails, ReleaseClaim
    <2>. QED BY <2>1, <2>3
  <1>7. (Reobserves(c) => call'[c].pc = "reread") /\ (Return(c) => call'[c].pc = "idle")
    <2>. DEFINE g == [call[c] EXCEPT !.pc = "reread", !.seen = NoRow]
    <2>1. g.pc = "reread" /\ IdleCall.pc = "idle"
      BY <1>0 DEF Calls, IdleCall
    <2>2. (Reobserves(c) => call'[c] = g) /\ (Return(c) => call'[c] = IdleCall)
      BY <1>1 DEF Reobserves, Return
    <2>. HIDE DEF g
    <2>. QED BY <2>1, <2>2
  <1>3. CASE StampFresh(c) \/ AdoptPending(c)
    <2>1. UNCHANGED <<kept, wiped>> /\ call[c].pc \in {"stamp", "adopt"}
      BY <1>3 DEF StampFresh, AdoptPending, history
    <2>2. CASE Stamped(c)
      <3>1. call'[c].pc = "stamped"
        <4>1. [call[c] EXCEPT !.pc = "stamped", !.seen = NoRow].pc = "stamped"
          BY <1>0 DEF Calls
        <4>. QED BY <1>1, <2>2, <4>1 DEF Stamped
      <3>2. ~Reobserves(c) /\ ~Return(c)
        BY <3>1, <1>7
      <3>3. row.status # "failed" /\ row'.status = "failed_pending" /\ row'.reason = call[c].marker
        <4>1. CASE StampFresh(c)
          BY <1>0, <3>2, <4>1 DEF StampFresh, StatusIs, Live
        <4>2. CASE AdoptPending(c)
          BY <1>0, <3>2, <4>2 DEF AdoptPending, PendingWith, Restamp, Rows
        <4>. QED BY <1>3, <4>1, <4>2
      <3>. QED BY <2>1, <3>1, <3>3
    <2>3. CASE ~Stamped(c)
      <3>1. UNCHANGED row /\ (Reobserves(c) \/ Return(c))
        BY <1>3, <2>3 DEF StampFresh, AdoptPending
      <3>2. call'[c].pc \in {"reread", "idle"}
        BY <3>1, <1>7
      <3>. QED BY <2>1, <3>1, <3>2
    <2>. QED BY <2>2, <2>3
  <1>4. CASE CallRemoves(c)
    <2>1. PICK ok \in BOOLEAN : RemoveTorrent(ok) /\ Goto(c, IF ok THEN "restamp" ELSE "complete")
      BY <1>4 DEF CallRemoves
    <2>2. UNCHANGED <<row, kept>>
      BY <1>4 DEF CallRemoves, db
    <2>3. (ok => wiped') /\ (~ok => wiped' = wiped)
      BY <2>1 DEF RemoveTorrent
    <2>4. call'[c].pc = IF ok THEN "restamp" ELSE "complete"
      <3>1. /\ [call[c] EXCEPT !.pc = "complete"].pc = "complete"
            /\ [call[c] EXCEPT !.pc = "restamp"].pc = "restamp"
        BY <1>0 DEF Calls
      <3>. QED BY <1>1, <2>1, <3>1 DEF Goto
    <2>. QED BY <2>2, <2>3, <2>4
  <1>5. CASE RecordRemoval(c)
    <2>. DEFINE done == _operator_fail_marker_removal_done(call[c].block, call[c].token)
                k == [call[c] EXCEPT !.pc = "complete", !.marker = done]
                g == [call[c] EXCEPT !.pc = "complete"]
    <2>1. /\ UNCHANGED <<kept, wiped>> /\ call[c].pc = "restamp"
          /\ \/ PendingWith(call[c].marker) /\ Restamp(done) /\ Becomes(c, k)
             \/ UNCHANGED row /\ Becomes(c, g)
      BY <1>5 DEF RecordRemoval, history, Goto
    <2>2. k.pc = "complete" /\ g.pc = "complete"
      BY <1>0 DEF Calls
    <2>3. (Becomes(c, k) => call'[c] = k) /\ (Becomes(c, g) => call'[c] = g)
      BY <1>1
    <2>. HIDE DEF k, g, done
    <2>4. PendingWith(call[c].marker) /\ Restamp(done) => row'.status = "failed_pending" /\ row'.reason = done
      BY <1>0 DEF PendingWith, Restamp, Rows
    <2>. QED BY <2>1, <2>2, <2>3, <2>4 DEF done
  <1>6. CASE CallCompletes(c)
    <2>. DEFINE k == [IdleCall EXCEPT !.pc = "release", !.token = call[c].token]
    <2>1. /\ Becomes(c, k) /\ call[c].pc = "complete" /\ UNCHANGED wiped
          /\ row'.status = "failed" /\ row'.reason = Text("final")
      BY <1>6 DEF CallCompletes, Releases, CompleteFailure
    <2>2. k.pc = "release"
      BY DEF IdleCall
    <2>3. call'[c] = k
      BY <1>1, <2>1
    <2>. HIDE DEF k
    <2>. QED BY <2>1, <2>2, <2>3
  <1>. QED BY <1>2, <1>3, <1>4, <1>5, <1>6 DEF MarkFailed

(* A call records only the removal it made. *)
LEMMA MarkFailedRemoved ==
  ASSUME TypeOK, RegrabInv, SettledInv, ClaimInv, RemovedInv, NEW c \in Callers, MarkFailed(c)
  PROVE  RemovedInv'
  <1>0. /\ UNCHANGED <<rec, grab>> /\ \A d \in Callers \ {c} : call'[d] = call[d]
    BY MarkFailedFrame
  <1>1. wiped => wiped'
    BY MarkFailedWrites
  <1>2. call'[c].pc = "restamp" => wiped'
    BY MarkFailedWrites
  <1>3. GrabWaits' /\ (rec'.pc = "restamp" => wiped')
    BY <1>0, <1>1 DEF RemovedInv, GrabWaits, RestampsRemoved
  <1>4. CASE UNCHANGED <<row, kept>>
    <2>1. DoneMeansRemoved' /\ PlainText' /\ KeptIsFailed'
      BY <1>1, <1>4 DEF RemovedInv, DoneMeansRemoved, PlainText, KeptIsFailed
    <2>2. \A d \in Callers : call'[d].pc = "restamp" /\ PendingWith(call[d].marker)' => wiped'
      BY <1>0, <1>1, <1>2, <1>4 DEF RemovedInv, RestampsRemoved, PendingWith
    <2>. QED BY <1>3, <2>1, <2>2 DEF RemovedInv, RestampsRemoved
  <1>5. CASE /\ call[c].pc \in {"stamp", "adopt"} /\ row.status # "failed" /\ call'[c].pc = "stamped"
             /\ row'.status = "failed_pending" /\ row'.reason = call[c].marker /\ UNCHANGED kept
    <2>0. call[c].marker = _operator_fail_marker(call[c].block, call[c].remove, call[c].token)
      BY <1>5 DEF SettledInv, CallsFit, CallFit, Stamping
    <2>1. call[c].marker.rem # "done" /\ IsMarker(call[c].marker)
      BY <2>0 DEF _operator_fail_marker, IsMarker
    <2>2. DoneMeansRemoved' /\ PlainText' /\ KeptIsFailed'
      BY <1>5, <2>1 DEF RemovedInv, DoneMeansRemoved, PlainText, KeptIsFailed
    <2>3. ASSUME NEW d \in Callers, call'[d].pc = "restamp", PendingWith(call[d].marker)' PROVE wiped'
      <3>1. d # c /\ call'[d] = call[d]
        BY <1>0, <1>5, <2>3
      <3>2. call[c].pc \in Stamping /\ call[c].marker = call[d].marker
        BY <1>5, <2>3, <3>1 DEF PendingWith, Stamping
      <3>. QED BY <2>3, <3>1, <3>2, RecordersDiffer
    <2>. QED BY <1>3, <2>2, <2>3 DEF RemovedInv, RestampsRemoved
  <1>6. CASE /\ call[c].pc = "restamp" /\ PendingWith(call[c].marker) /\ call'[c].pc = "complete"
             /\ row'.status = "failed_pending" /\ UNCHANGED kept
             /\ row'.reason = _operator_fail_marker_removal_done(call[c].block, call[c].token)
    <2>0. wiped /\ row.status = "failed_pending" /\ row'.reason.rem = "done" /\ IsMarker(row'.reason)
      BY <1>6 DEF RemovedInv, RestampsRemoved, PendingWith, _operator_fail_marker_removal_done, IsMarker
    <2>. QED BY <1>1, <1>3, <1>6, <2>0
         DEF RemovedInv, DoneMeansRemoved, RestampsRemoved, PlainText, KeptIsFailed
  <1>7. CASE row'.status = "failed" /\ row'.reason = Text("final")
    BY <1>3, <1>7, RowIsPlain, TextIsPlain DEF PlainText, KeptIsFailed
  <1>. QED BY <1>4, <1>5, <1>6, <1>7, MarkFailedWrites

(* The cycle records only the removal it made. *)
LEMMA CycleRemoved ==
  ASSUME TypeOK, RegrabInv, SettledInv, ClaimInv, RemovedInv, ReconcileCycle
  PROVE  RemovedInv'
  <1>0. /\ rec \in Cycles /\ row \in Rows /\ CycleFit(rec) /\ Unmarked(row)
    BY DEF TypeOK, SettledInv
  <1>1. wiped => wiped'
    BY CycleAdvance
  <1>2. rec'.pc = "restamp" => wiped'
    BY CycleAdvance
  <1>3. GrabWaits'
    BY CycleAdvance, CycleFrame DEF RegrabInv, GrabFacesSettledRow, GrabWaits
  <1>4. \A d \in Callers : call'[d].pc = "restamp" => call[d].pc = "restamp" /\ call'[d] = call[d]
    <2>1. CASE UNCHANGED call
      BY <2>1
    <2>2. CASE RejectHeldPayload \/ HealStall
      <3>1. PICK b, w : CycleCalls(b, w)
        BY <2>2 DEF RejectHeldPayload, HealStall
      <3>2. CASE Becomes(SelfHeal, Started(b, TRUE, w))
        <4>1. Started(b, TRUE, w).pc = "register"
          BY DEF Started, IdleCall
        <4>. QED BY <3>2, <4>1 DEF TypeOK, Becomes
      <3>. QED BY <2>1, <3>1, <3>2 DEF CycleCalls
    <2>. QED BY <2>1, <2>2, CycleFrame
  <1>5. ASSUME UNCHANGED <<row, kept>> PROVE RemovedInv'
    <2>1. DoneMeansRemoved' /\ PlainText' /\ KeptIsFailed'
      BY <1>1, <1>5 DEF RemovedInv, DoneMeansRemoved, PlainText, KeptIsFailed
    <2>2. \A d \in Callers : call'[d].pc = "restamp" /\ PendingWith(call[d].marker)' => wiped'
      BY <1>1, <1>4, <1>5 DEF RemovedInv, RestampsRemoved, PendingWith
    <2>. QED BY <1>2, <1>3, <2>1, <2>2 DEF RemovedInv, RestampsRemoved
  <1>6. ASSUME row'.status = "failed_pending", UNCHANGED kept, row.status # "failed",
               row'.reason.rem = "done" => wiped, ~IsMarker(row'.reason) => row'.reason.rem = "no",
               row'.reason.rem # "yes" \/ ~IsMarker(row'.reason)
        PROVE  RemovedInv'
    <2>1. DoneMeansRemoved' /\ PlainText' /\ KeptIsFailed'
      BY <1>1, <1>6 DEF RemovedInv, DoneMeansRemoved, PlainText, KeptIsFailed
    <2>2. \A d \in Callers : call'[d].pc = "restamp" => ~PendingWith(call[d].marker)'
      BY <1>4, <1>6, RecorderOwes DEF PendingWith
    <2>. QED BY <1>2, <1>3, <2>1, <2>2 DEF RemovedInv, RestampsRemoved
  <1>7. CASE RejectHeldPayload
    <2>1. UNCHANGED kept /\ rec'.pc = "healing"
      BY <1>7 DEF RejectHeldPayload, history, CycleWaits, IdleCycle
    <2>2. CASE UNCHANGED row
      BY <1>5, <2>1, <2>2
    <2>3. CASE ~UNCHANGED row
      <3>1. row.status = "importing" /\ row' = [row EXCEPT !.status = "import_blocked"]
        BY <1>7, <2>3 DEF RejectHeldPayload, StatusIs
      <3>2. row'.status = "import_blocked" /\ row'.reason = row.reason
        BY <1>0, <3>1 DEF Rows
      <3>3. PlainText' /\ KeptIsFailed'
        BY <2>1, <3>1, <3>2 DEF RemovedInv, PlainText, KeptIsFailed
      <3>. QED BY <1>2, <1>3, <3>2, <3>3, RowIsPlain
    <2>. QED BY <2>2, <2>3
  <1>8. CASE ApplyTransition
    <2>1. UNCHANGED kept
      BY <1>8 DEF ApplyTransition, history
    <2>2. CASE UNCHANGED row
      BY <1>5, <2>1, <2>2
    <2>3. CASE ~UNCHANGED row
      <3>1. /\ row' = [row EXCEPT !.status = rec.to] /\ rec.to # "none" /\ row.status = rec.snap.status
            /\ rec.pc = "apply"
        BY <1>8, <2>3 DEF ApplyTransition, StatusIs
      <3>2. row.status \in {"downloading", "import_pending"}
        BY <3>1 DEF RegrabInv, AppliesToPolled
      <3>3. row'.status = rec.to /\ row'.reason = row.reason
        BY <1>0, <3>1 DEF Rows
      <3>4. ~IsMarker(row.reason) /\ row.reason.rem = "no"
        BY <1>0, <3>2 DEF Unmarked, RemovedInv, PlainText
      <3>5. PlainText' /\ KeptIsFailed'
        BY <2>1, <3>2, <3>3, <3>4 DEF RemovedInv, PlainText, KeptIsFailed
      <3>6. CASE rec.to = "failed_pending"
        BY <1>6, <2>1, <3>2, <3>3, <3>4, <3>6
      <3>7. CASE rec.to # "failed_pending"
        BY <1>2, <1>3, <3>3, <3>5, <3>7, RowIsPlain
      <3>. QED BY <3>6, <3>7
    <2>. QED BY <2>2, <2>3
  <1>9. CASE BuildDetected
    <2>1. UNCHANGED kept
      BY <1>9 DEF BuildDetected, history
    <2>2. CASE UNCHANGED row
      BY <1>5, <2>1, <2>2
    <2>3. CASE ~UNCHANGED row
      <3>1. PendingWith(rec.snap.reason) /\ Restamp(Text("env"))
        BY <1>9, <2>3 DEF BuildDetected
      <3>2. row.status = "failed_pending" /\ row'.status = "failed_pending" /\ row'.reason = Text("env")
        BY <1>0, <3>1 DEF PendingWith, Restamp, Rows
      <3>3. ~IsMarker(Text("env")) /\ Text("env").rem = "no"
        BY DEF Text, IsMarker
      <3>. QED BY <1>6, <2>1, <3>2, <3>3
    <2>. QED BY <2>2, <2>3
  <1>10. CASE CycleRecordsRemoval
    <2>1. UNCHANGED kept /\ rec.pc = "restamp"
      BY <1>10 DEF CycleRecordsRemoval, history
    <2>2. CASE UNCHANGED row
      BY <1>5, <2>1, <2>2
    <2>3. CASE ~UNCHANGED row
      <3>. DEFINE one == _operator_fail_marker_removal_done(rec.seen.block, rec.seen.nonce)
                  two == _reconcile_removal_done_marker(rec.block)
      <3>1. PendingWith(rec.seen) /\ (Restamp(one) \/ Restamp(two))
        BY <1>10, <2>3 DEF CycleRecordsRemoval
      <3>2. one.rem = "done" /\ IsMarker(one) /\ two.rem = "done" /\ IsMarker(two)
        BY DEF _operator_fail_marker_removal_done, _reconcile_removal_done_marker, IsMarker
      <3>. HIDE DEF one, two
      <3>3. /\ row.status = "failed_pending" /\ row'.status = "failed_pending"
            /\ row'.reason \in {one, two}
        BY <1>0, <3>1 DEF PendingWith, Restamp, Rows
      <3>4. row'.reason.rem = "done" /\ IsMarker(row'.reason)
        BY <3>2, <3>3
      <3>5. wiped
        BY <2>1 DEF RemovedInv, RestampsRemoved
      <3>. QED BY <1>6, <2>1, <3>3, <3>4, <3>5
    <2>. QED BY <2>2, <2>3
  <1>11. CASE _handle_failed
    <2>1. row'.status = "failed" /\ row'.reason = Text("final")
      BY <1>11 DEF _handle_failed, CompleteFailure
    <2>. QED BY <1>2, <1>3, <2>1, RowIsPlain, TextIsPlain DEF PlainText, KeptIsFailed
  <1>12. CASE \/ SnapshotRows \/ PollClient \/ CycleAborts \/ HealStall \/ StallHealed \/ BuildResidual
              \/ BuildNothing \/ GuardRemoval \/ ReproveRow \/ CycleRemoves \/ CycleYields
              \/ SettleCycle \/ heal_failed_pending_without_client
    <2>1. UNCHANGED <<row, kept>>
      BY <1>12 DEF SnapshotRows, PollClient, CycleAborts, HealStall, StallHealed, BuildResidual,
             BuildNothing, GuardRemoval, ReproveRow, CycleRemoves, CycleYields, SettleCycle,
             heal_failed_pending_without_client, db, history
    <2>. QED BY <1>5, <2>1
  <1>. QED BY <1>7, <1>8, <1>9, <1>10, <1>11, <1>12 DEF ReconcileCycle

(* Nobody re-owns a row whose removal is about to be recorded. *)
LEMMA EnvironmentRemoved ==
  ASSUME TypeOK, RegrabInv, RemovedInv,
         \/ _cancel_request_locked \/ CancelRemoves \/ CancelReleases \/ Grab
         \/ ImportClaims \/ ImportSettles \/ _block \/ ImportDefers \/ Crash
  PROVE  RemovedInv'
  <1>1. CASE Crash
    <2>1. /\ call' = [c \in Callers |-> IdleCall] /\ rec' = IdleCycle /\ UNCHANGED <<row, kept, wiped>>
      BY <1>1 DEF Crash, db, history
    <2>2. IdleCall.pc = "idle" /\ IdleCycle.pc = "idle"
      BY DEF IdleCall, IdleCycle
    <2>3. RestampsRemoved' /\ GrabWaits'
      BY <2>1, <2>2 DEF RestampsRemoved, GrabWaits
    <2>4. DoneMeansRemoved' /\ PlainText' /\ KeptIsFailed'
      BY <2>1 DEF RemovedInv, DoneMeansRemoved, PlainText, KeptIsFailed
    <2>. QED BY <2>3, <2>4 DEF RemovedInv
  <1>2. ~Crash => UNCHANGED <<claim, call, rec>>
    BY DEF _cancel_request_locked, CancelRemoves, CancelReleases, Grab, GrabAdds, GrabFindsRow,
           _reuse_terminal_row, GrabLoses, _remove_torrent_if_added, ImportClaims,
           ImportSettles, _block, ImportDefers, ImportMoves, registry
  <1>3. CASE ~Crash
    <2>1. CASE CancelRemoves \/ CancelReleases \/ GrabAdds \/ GrabFindsRow \/ GrabLoses
               \/ _remove_torrent_if_added
      <3>1. UNCHANGED <<row, kept, call, rec>>
        BY <1>2, <1>3, <2>1, Zenon DEF CancelRemoves, CancelReleases, GrabAdds, GrabFindsRow, GrabLoses,
           _remove_torrent_if_added, db, history
      <3>2. wiped => wiped'
        BY <2>1 DEF CancelRemoves, CancelReleases, GrabAdds, GrabFindsRow, GrabLoses,
           _remove_torrent_if_added, history, RemoveTorrent
      <3>3. GrabWaits'
        <4>1. CASE GrabFindsRow
          <5>1. grab'.pc = "cas" => ~removal_in_flight
            BY <4>1 DEF GrabFindsRow, TypeOK, IdleGrab
          <5>2. ~removal_in_flight => guard = 0
            BY DEF removal_in_flight, TypeOK
          <5>3. guard = 0 => rec.pc # "restamp"
            BY DEF RegrabInv, GuardAccounting, CycleHolds, CancelHolds
          <5>. QED BY <3>1, <5>1, <5>2, <5>3 DEF GrabWaits
        <4>2. CASE CancelRemoves \/ CancelReleases
          BY <3>1, <4>2 DEF CancelRemoves, CancelReleases, RemovedInv, GrabWaits
        <4>3. CASE GrabAdds \/ GrabLoses \/ _remove_torrent_if_added
          <5>1. grab'.pc # "cas"
            <6>1. CASE GrabAdds
              <7>. DEFINE g == [pc |-> "own", added |-> ~torrent]
              <7>1. g.pc = "own"
                OBVIOUS
              <7>2. grab' = g
                BY <6>1 DEF GrabAdds
              <7>. HIDE DEF g
              <7>. QED BY <7>1, <7>2
            <6>3. CASE _remove_torrent_if_added
              <7>1. grab' = IdleGrab
                BY <6>3 DEF _remove_torrent_if_added
              <7>. QED BY <7>1 DEF IdleGrab
            <6>2. CASE GrabLoses
              <7>1. grab' = [grab EXCEPT !.pc = "undo"] \/ grab' = IdleGrab
                BY <6>2 DEF GrabLoses
              <7>. QED BY <7>1 DEF TypeOK, IdleGrab
            <6>. QED BY <4>3, <6>1, <6>2, <6>3
          <5>. QED BY <5>1 DEF GrabWaits
        <4>. QED BY <2>1, <4>1, <4>2, <4>3
      <3>4. DoneMeansRemoved' /\ PlainText' /\ KeptIsFailed'
        BY <3>1, <3>2 DEF RemovedInv, DoneMeansRemoved, PlainText, KeptIsFailed
      <3>5. RestampsRemoved'
        BY <3>1, <3>2 DEF RemovedInv, RestampsRemoved, PendingWith
      <3>. QED BY <3>3, <3>4, <3>5 DEF RemovedInv
    <2>2. CASE _cancel_request_locked
      <3>1. /\ row'.status = "failed" /\ row'.reason = Text("cancelled")
            /\ UNCHANGED <<rec, grab, wiped, kept>>
        BY <2>2 DEF _cancel_request_locked, history
      <3>2. PlainText' /\ KeptIsFailed' /\ GrabWaits' /\ (rec'.pc = "restamp" => wiped')
        BY <3>1, TextIsPlain DEF RemovedInv, PlainText, KeptIsFailed, GrabWaits, RestampsRemoved
      <3>. QED BY <3>1, <3>2, RowIsPlain
    <2>3. CASE _reuse_terminal_row
      <3>1. /\ row'.status = "downloading" /\ row'.reason = Text("none") /\ UNCHANGED rec
            /\ kept' = FALSE /\ grab.pc = "cas" /\ grab' = IdleGrab
        BY <2>3 DEF _reuse_terminal_row
      <3>2. PlainText' /\ KeptIsFailed' /\ GrabWaits' /\ rec'.pc # "restamp"
        BY <3>1, TextIsPlain DEF RemovedInv, PlainText, KeptIsFailed, GrabWaits, IdleGrab
      <3>. QED BY <3>1, <3>2, RowIsPlain
    <2>4. CASE ImportClaims \/ ImportSettles \/ _block \/ ImportDefers
      <3>1. /\ row.status \in {"import_pending", "import_blocked", "importing"}
            /\ row'.status \in {"importing", "imported", "import_blocked", "downloading"}
            /\ row'.reason \in {Text("none"), Text("blocked")}
            /\ UNCHANGED <<rec, grab, wiped, kept>>
        BY <2>4 DEF ImportClaims, ImportSettles, _block, ImportDefers, ImportMoves, Resumable, history
      <3>2. PlainText' /\ KeptIsFailed' /\ GrabWaits' /\ (rec'.pc = "restamp" => wiped')
        BY <3>1, TextIsPlain DEF RemovedInv, PlainText, KeptIsFailed, GrabWaits, RestampsRemoved
      <3>. QED BY <3>1, <3>2, RowIsPlain
    <2>. QED BY <1>3, <2>1, <2>2, <2>3, <2>4 DEF Grab
  <1>. QED BY <1>1, <1>3

(* What is recorded as removed was, in every reachable state. *)
LEMMA RemovedInvariant == Spec => []RemovedInv
  <1>1. Init => RemovedInv
    <2>. SUFFICES ASSUME Init PROVE RemovedInv
      OBVIOUS
    <2>1. row.status = "downloading" /\ row.reason = Text("none") /\ kept = FALSE
      BY DEF Init
    <2>2. rec.pc = "idle" /\ grab.pc = "idle"
      BY DEF Init, IdleCycle, IdleGrab
    <2>. QED BY <2>1, <2>2, TextIsPlain
         DEF RemovedInv, DoneMeansRemoved, RestampsRemoved, PendingWith, GrabWaits, PlainText, KeptIsFailed
  <1>2. TypeOK /\ RegrabInv /\ SettledInv /\ ClaimInv /\ RemovedInv /\ [Next]_vars => RemovedInv'
    <2>. SUFFICES ASSUME TypeOK, RegrabInv, SettledInv, ClaimInv, RemovedInv, [Next]_vars PROVE RemovedInv'
      OBVIOUS
    <2>1. ASSUME NEW o \in Operators, OperatorCalls(o) PROVE RemovedInv'
      <3>1. PICK choice \in Choices : Becomes(o, Started(choice[1], choice[2], row))
        BY <2>1 DEF OperatorCalls
      <3>2. o \in Callers /\ UNCHANGED <<row, kept, wiped, rec, grab>>
        BY <2>1 DEF Callers, OperatorCalls, history, db
      <3>3. Started(choice[1], choice[2], row).pc = "register"
        BY DEF Started, IdleCall
      <3>4. \A d \in Callers : call'[d].pc = "restamp" => call[d].pc = "restamp" /\ call'[d] = call[d]
        BY <3>1, <3>2, <3>3 DEF TypeOK, Becomes
      <3>5. RestampsRemoved'
        BY <3>2, <3>4 DEF RemovedInv, RestampsRemoved, PendingWith
      <3>. QED BY <3>2, <3>5 DEF RemovedInv, DoneMeansRemoved, GrabWaits, PlainText, KeptIsFailed
    <2>2. CASE UNCHANGED vars
      BY <2>2 DEF vars, RemovedInv, DoneMeansRemoved, RestampsRemoved, PendingWith, GrabWaits, PlainText,
         KeptIsFailed
    <2>. QED BY <2>1, <2>2, MarkFailedRemoved, CycleRemoved, EnvironmentRemoved DEF Next
  <1>. QED BY <1>1, <1>2, TypeCorrect, RegrabInvariant, SettledInvariant, ClaimInvariant, PTL DEF Spec

----------------------------------------------------------------------------
(* One operator at a time.  Without a second operator nobody supersedes an operator's call,  *)
(* so a call past its registration owns the claim; and whoever deletes unasked has read the   *)
(* row under a claim or a guard that bars that operator (SoleInv).                         *)
Lone == \A o, p \in Operators : o = p
SoleOwns == \A o \in Operators : Engaged(call[o]) => _owns_operator_claim(o)
HealSpares ==
  _owns_operator_claim(SelfHeal) /\ call[SelfHeal].pc \in {"stamped", "deleting"} => ~KeptByOperator
CycleSpares == rec.pc = "deleting" => ~KeptByOperator
SoleInv == SoleOwns /\ HealSpares /\ CycleSpares

(* Registering, and beginning the removal, leave the row alone. *)
LEMMA RegisterLeavesRow ==
  ASSUME TypeOK, RegrabInv, SettledInv, NEW c \in Callers, MarkFailed(c),
         call[c].pc \in {"register", "stamped"}
  PROVE  UNCHANGED <<row, kept>>
  BY MarkFailedWrites

(* A call's step keeps an operator's claim its own, or takes it over unclaimed. *)
LEMMA MarkFailedOwns ==
  ASSUME Lone, TypeOK, ClaimInv, SoleInv, NEW c \in Callers, MarkFailed(c)
  PROVE  SoleOwns'
  <1>0. /\ claim \in [token : Nat, flight : BOOLEAN] /\ next # 0 /\ IdleCall.pc = "idle"
    BY DEF TypeOK, IdleCall
  <1>1. \A d \in Callers \ {c} : call'[d] = call[d]
    BY MarkFailedFrame
  <1>. SUFFICES ASSUME NEW o \in Operators, Engaged(call'[o])
                PROVE  claim'.token # 0 /\ claim'.token = call'[o].token
    BY DEF SoleOwns, _owns_operator_claim
  <1>2. o \in Callers /\ o # SelfHeal
    BY CallersAssumption DEF Callers
  <1>3. CASE c = o
    <2>1. Engaged(call[c]) => claim.token # 0 /\ claim.token = call[c].token
      BY <1>3 DEF SoleInv, SoleOwns, _owns_operator_claim
    <2>2. call'[c] # IdleCall
      BY <1>0, <1>3 DEF Engaged
    <2>3. CASE ClaimGranted(c)
      BY <1>0, <1>3, <2>3 DEF ClaimGranted
    <2>4. CASE CallMoves(c)
      BY <1>3, <2>1, <2>4 DEF CallMoves
    <2>5. CASE RemovalBegins(c)
      BY <1>0, <1>3, <2>5 DEF RemovalBegins, _owns_operator_claim
    <2>. QED BY <2>2, <2>3, <2>4, <2>5, ClaimStep DEF ClaimRefused, ClaimRaises, CallEnds
  <1>4. CASE c # o
    <2>1. c = SelfHeal
      BY <1>4 DEF Lone, Callers
    <2>2. call'[o] = call[o] /\ claim.token # 0 /\ claim.token = call[o].token
      BY <1>1, <1>2, <1>4 DEF SoleInv, SoleOwns, _owns_operator_claim
    <2>3. ~Admitted(c)
      BY <2>1, <2>2 DEF Admitted
    <2>4. CASE ClaimRefused(c) \/ CallMoves(c)
      BY <2>2, <2>4 DEF ClaimRefused, CallMoves
    <2>5. CASE RemovalBegins(c)
      BY <1>0, <2>2, <2>5 DEF RemovalBegins
    <2>6. CASE CallEnds(c)
      <3>1. claim.token # call[c].token
        BY <1>2, <1>4, <2>2, <2>6 DEF CallEnds, ClaimInv, TokensFit
      <3>. QED BY <2>2, <2>6, <3>1 DEF CallEnds, ReleasedClaim, _owns_operator_claim
    <2>. QED BY <2>3, <2>4, <2>5, <2>6, ClaimStep DEF ClaimRaises, ClaimGranted
  <1>. QED BY <1>3, <1>4

(* The cycle's own mark_failed stamps its row remove=yes, and keeps its claim only while no    *)
(* operator's call gets past its registration.                                         *)
LEMMA MarkFailedHeals ==
  ASSUME Lone, TypeOK, RegrabInv, SettledInv, ClaimInv, SoleInv, NEW c \in Callers, MarkFailed(c)
  PROVE  HealSpares'
  <1>0. /\ claim \in [token : Nat, flight : BOOLEAN] /\ SelfHeal \in Callers /\ IdleCall.pc = "idle"
        /\ NoClaim.token = 0 /\ next \in Nat /\ \A d \in Callers : call[d].token \in Nat
    BY CallFields DEF TypeOK, IdleCall, NoClaim, Callers
  <1>1. \A d \in Callers \ {c} : call'[d] = call[d]
    BY MarkFailedFrame
  <1>. SUFFICES ASSUME claim'.token # 0, claim'.token = call'[SelfHeal].token,
                       call'[SelfHeal].pc \in {"stamped", "deleting"}
                PROVE  ~KeptByOperator'
    BY DEF HealSpares, _owns_operator_claim
  <1>2. CASE c = SelfHeal
    <2>1. CASE CallMoves(c)
      <3>1. call'[c].pc = "stamped"
        BY <1>2, <2>1 DEF CallMoves
      <3>2. /\ call[c].pc \in {"stamp", "adopt"}
            /\ row'.status = "failed_pending" /\ row'.reason = call[c].marker
        BY <3>1, MarkFailedWrites
      <3>3. call[c].remove
        BY <1>2, <3>2 DEF ClaimInv, HealRemoves, Removes
      <3>4. call[c].marker = _operator_fail_marker(call[c].block, call[c].remove, call[c].token)
        BY <3>2 DEF SettledInv, CallsFit, CallFit, Stamping
      <3>5. call[c].marker.rem = "yes"
        BY <3>3, <3>4 DEF _operator_fail_marker
      <3>. QED BY <3>2, <3>5 DEF KeptByOperator
    <2>2. CASE RemovalBegins(c)
      <3>1. UNCHANGED <<row, kept>>
        BY <2>2, RegisterLeavesRow DEF RemovalBegins
      <3>2. ~KeptByOperator
        BY <1>2, <2>2 DEF RemovalBegins, SoleInv, HealSpares
      <3>. QED BY <3>1, <3>2 DEF KeptByOperator
    <2>. QED BY <1>0, <1>2, <2>1, <2>2, ClaimStep DEF ClaimRefused, ClaimRaises, ClaimGranted, CallEnds
  <1>3. CASE c # SelfHeal
    <2>1. c \in Operators /\ call'[SelfHeal] = call[SelfHeal] /\ Engaged(call[SelfHeal])
      BY <1>0, <1>1, <1>3 DEF Callers, Engaged
    <2>2. call[SelfHeal].token # 0 /\ call[SelfHeal].token < next
      BY <1>0, <2>1 DEF ClaimInv, TokensFit
    <2>3. Engaged(call[c]) => /\ claim.token # 0 /\ claim.token = call[c].token
                              /\ call[c].token # call[SelfHeal].token
      BY <1>0, <1>3, <2>1 DEF SoleInv, SoleOwns, _owns_operator_claim, ClaimInv, TokensFit
    <2>4. CASE ClaimRefused(c)
      <3>1. UNCHANGED <<row, kept>>
        BY <2>4, RegisterLeavesRow DEF ClaimRefused
      <3>2. ~KeptByOperator
        BY <2>1, <2>4 DEF ClaimRefused, SoleInv, HealSpares, _owns_operator_claim
      <3>. QED BY <3>1, <3>2 DEF KeptByOperator
    <2>5. CASE ClaimRaises(c)
      BY <1>0, <2>5 DEF ClaimRaises
    <2>6. CASE ClaimGranted(c)
      BY <1>0, <2>1, <2>2, <2>6 DEF ClaimGranted
    <2>7. CASE CallMoves(c)
      BY <2>1, <2>3, <2>7 DEF CallMoves
    <2>8. CASE RemovalBegins(c)
      BY <1>0, <2>1, <2>3, <2>8 DEF RemovalBegins, Engaged
    <2>9. CASE CallEnds(c)
      BY <1>0, <2>3, <2>9 DEF CallEnds, ReleasedClaim, _owns_operator_claim
    <2>. QED BY <2>4, <2>5, <2>6, <2>7, <2>8, <2>9, ClaimStep
  <1>. QED BY <1>2, <1>3

(* While the cycle deletes, the one operator is at most registering. *)
LEMMA MarkFailedSole ==
  ASSUME Lone, TypeOK, RegrabInv, SettledInv, ClaimInv, SoleInv, NEW c \in Callers, MarkFailed(c)
  PROVE  SoleInv'
  <1>1. CycleSpares'
    <2>. SUFFICES ASSUME rec'.pc = "deleting" PROVE ~KeptByOperator'
      BY DEF CycleSpares
    <2>1. rec.pc = "deleting"
      BY MarkFailedFrame
    <2>2. claim.token = 0 /\ call[SelfHeal].pc = "idle" /\ ~KeptByOperator
      BY <2>1 DEF ClaimInv, CycleUnclaimed, SettledInv, HealWaits, SoleInv, CycleSpares
    <2>3. call[c].pc # "idle"
      BY ClaimStep DEF ClaimRefused, ClaimRaises, ClaimGranted, Admitted, CallMoves, RemovalBegins,
         CallEnds, Engaged
    <2>4. c \in Operators
      BY <2>2, <2>3 DEF Callers
    <2>5. call[c].pc = "register"
      BY <2>2, <2>3, <2>4 DEF SoleInv, SoleOwns, Engaged, _owns_operator_claim
    <2>6. UNCHANGED <<row, kept>>
      BY <2>5, RegisterLeavesRow
    <2>. QED BY <2>2, <2>6 DEF KeptByOperator
  <1>. QED BY <1>1, MarkFailedOwns, MarkFailedHeals DEF SoleInv

(* The cycle deletes only what its re-proof saw owing a removal. *)
LEMMA CycleSole ==
  ASSUME TypeOK, RegrabInv, SettledInv, SoleInv, ReconcileCycle
  PROVE  SoleInv'
  <1>0. UNCHANGED claim /\ SelfHeal \notin Operators /\ SelfHeal \in Callers
    BY CycleAdvance, CallersAssumption DEF Callers
  <1>1. UNCHANGED call \/ (call'[SelfHeal].pc = "register" /\ \A o \in Operators : call'[o] = call[o])
    <2>1. CASE RejectHeldPayload \/ HealStall
      <3>1. PICK b, w : CycleCalls(b, w)
        BY <2>1 DEF RejectHeldPayload, HealStall
      <3>2. CASE Becomes(SelfHeal, Started(b, TRUE, w))
        <4>1. Started(b, TRUE, w).pc = "register"
          BY DEF Started, IdleCall
        <4>. QED BY <1>0, <3>2, <4>1 DEF TypeOK, Becomes, Callers
      <3>. QED BY <3>1, <3>2 DEF CycleCalls
    <2>. QED BY <2>1, CycleFrame
  <1>2. SoleOwns'
    BY <1>0, <1>1 DEF SoleInv, SoleOwns, _owns_operator_claim
  <1>3. HealSpares'
    <2>1. rec.pc = "healing" => call[SelfHeal].pc = "idle"
      BY DEF ReconcileCycle, SnapshotRows, PollClient, CycleAborts, RejectHeldPayload, ApplyTransition,
         HealStall, StallHealed, BuildDetected, BuildResidual, BuildNothing, GuardRemoval, ReproveRow,
         CycleRemoves, CycleRecordsRemoval, _handle_failed, CycleYields, SettleCycle,
         heal_failed_pending_without_client
    <2>2. call[SelfHeal].pc = "idle"
      BY <2>1 DEF SettledInv, HealWaits
    <2>. QED BY <1>1, <2>2 DEF HealSpares
  <1>4. CycleSpares'
    <2>. SUFFICES ASSUME rec'.pc = "deleting" PROVE ~KeptByOperator'
      BY DEF CycleSpares
    <2>1. rec.pc = "reproof" /\ PendingWith(rec.seen) /\ UNCHANGED row
      BY CycleAdvance
    <2>2. IsMarker(rec.seen) => rec.seen.rem = "yes"
      BY <2>1 DEF RegrabInv, GuardedCycleRemoves, SettledInv, CycleFit
    <2>. QED BY <2>1, <2>2 DEF KeptByOperator, PendingWith, IsMarker
  <1>. QED BY <1>2, <1>3, <1>4 DEF SoleInv

(* Nobody else makes a row one that the operator keeps. *)
LEMMA EnvironmentSole ==
  ASSUME TypeOK, RemovedInv, SoleInv,
         \/ _cancel_request_locked \/ CancelRemoves \/ CancelReleases \/ Grab
         \/ ImportClaims \/ ImportSettles \/ _block \/ ImportDefers \/ Crash
  PROVE  SoleInv'
  <1>1. CASE Crash
    <2>1. call' = [c \in Callers |-> IdleCall] /\ rec' = IdleCycle
      BY <1>1 DEF Crash
    <2>2. IdleCall.pc = "idle" /\ IdleCycle.pc = "idle"
      BY DEF IdleCall, IdleCycle
    <2>. QED BY <2>1, <2>2 DEF SoleInv, SoleOwns, HealSpares, CycleSpares, Engaged, Callers
  <1>2. CASE ~Crash
    <2>1. UNCHANGED <<claim, call, rec>>
      BY <1>2 DEF _cancel_request_locked, CancelRemoves, CancelReleases, Grab, GrabAdds, GrabFindsRow,
             _reuse_terminal_row, GrabLoses, _remove_torrent_if_added, ImportClaims,
             ImportSettles, _block, ImportDefers, ImportMoves, registry
    <2>2. KeptByOperator' => KeptByOperator
      <3>1. CASE \/ CancelRemoves
                 \/ CancelReleases
                 \/ GrabAdds
                 \/ GrabFindsRow
                 \/ GrabLoses
                 \/ _remove_torrent_if_added
        <4>1. UNCHANGED <<row, kept>>
          BY <3>1, Zenon DEF CancelRemoves, CancelReleases, GrabAdds, GrabFindsRow, GrabLoses,
             _remove_torrent_if_added, db, history
        <4>. QED BY <4>1 DEF KeptByOperator
      <3>2. CASE _cancel_request_locked
        <4>1. row'.status = "failed" /\ row.status # "failed" /\ UNCHANGED kept
          BY <3>2 DEF _cancel_request_locked, Cancellable, Live, history
        <4>2. ~kept
          BY <4>1 DEF RemovedInv, KeptIsFailed
        <4>. QED BY <4>1, <4>2 DEF KeptByOperator
      <3>3. CASE _reuse_terminal_row
        BY <3>3 DEF _reuse_terminal_row, KeptByOperator
      <3>4. CASE ImportClaims \/ ImportSettles \/ _block \/ ImportDefers
        BY <3>4 DEF ImportClaims, ImportSettles, _block, ImportDefers, ImportMoves, KeptByOperator
      <3>. QED BY <1>2, <3>1, <3>2, <3>3, <3>4 DEF Grab
    <2>. QED BY <2>1, <2>2 DEF SoleInv, SoleOwns, HealSpares, CycleSpares, _owns_operator_claim
  <1>. QED BY <1>1, <1>2

(* With one operator, automatic deletes spare what that operator keeps. *)
LEMMA SoleInvariant == ASSUME Lone PROVE Spec => []SoleInv
  <1>1. Init => SoleInv
    <2>. SUFFICES ASSUME Init PROVE SoleInv
      OBVIOUS
    <2>1. IdleCall.pc = "idle" /\ IdleCycle.pc = "idle"
      BY DEF IdleCall, IdleCycle
    <2>. QED BY <2>1 DEF Init, SoleInv, SoleOwns, HealSpares, CycleSpares, Engaged, Callers
  <1>2. TypeOK /\ RegrabInv /\ SettledInv /\ ClaimInv /\ RemovedInv /\ SoleInv /\ [Next]_vars => SoleInv'
    <2>. SUFFICES ASSUME TypeOK, RegrabInv, SettledInv, ClaimInv, RemovedInv, SoleInv, [Next]_vars
                  PROVE  SoleInv'
      OBVIOUS
    <2>1. ASSUME NEW o \in Operators, OperatorCalls(o) PROVE SoleInv'
      <3>1. PICK choice \in Choices : Becomes(o, Started(choice[1], choice[2], row))
        BY <2>1 DEF OperatorCalls
      <3>2. /\ o \in Callers /\ o # SelfHeal /\ SelfHeal \in Callers /\ UNCHANGED <<row, kept, rec, claim>>
        BY <2>1, CallersAssumption DEF Callers, OperatorCalls, history, db, registry
      <3>3. Started(choice[1], choice[2], row).pc = "register"
        BY DEF Started, IdleCall
      <3>4. call'[o].pc = "register" /\ \A d \in Callers \ {o} : call'[d] = call[d]
        BY <3>1, <3>2, <3>3 DEF TypeOK, Becomes
      <3>5. SoleOwns'
        BY <3>2, <3>4 DEF SoleInv, SoleOwns, Engaged, _owns_operator_claim, Callers
      <3>6. HealSpares' /\ CycleSpares'
        BY <3>2, <3>4 DEF SoleInv, HealSpares, CycleSpares, KeptByOperator, _owns_operator_claim
      <3>. QED BY <3>5, <3>6 DEF SoleInv
    <2>2. CASE UNCHANGED vars
      BY <2>2 DEF vars, SoleInv, SoleOwns, HealSpares, CycleSpares, KeptByOperator, _owns_operator_claim
    <2>. QED BY <2>1, <2>2, MarkFailedSole, CycleSole, EnvironmentSole DEF Next
  <1>. QED
    BY <1>1, <1>2, TypeCorrect, RegrabInvariant, SettledInvariant, ClaimInvariant, RemovedInvariant, PTL
    DEF Spec

(* A removal recorded on a failing row happened, whoever recorded it and however many calls,  *)
(* cycles, cancels, grabs and restarts interleave: no healer skips a removal still owed.      *)
THEOREM DoneIsRemoved == Spec => []DoneMeansRemoved
  <1>1. RemovedInv => DoneMeansRemoved
    BY DEF RemovedInv
  <1>. QED BY <1>1, RemovedInvariant, PTL

(* With at most one operator's call at a time, what is removed is what the marker says: no    *)
(* delete that the reconcile cycle decides on, or that its own mark_failed makes, runs against  *)
(* a row that the operator's remove=no governs, and what is recorded as removed was.        *)
THEOREM RemovalAlwaysHonest ==
  ASSUME \A o, p \in Operators : o = p
  PROVE  Spec => []RemovalIsHonest
  <1>0. Lone
    BY DEF Lone
  <1>1. ClaimInv /\ RemovedInv /\ SoleInv => RemovalIsHonest
    BY DEF ClaimInv, DeleterOwns, RemovedInv, SoleInv, HealSpares, CycleSpares, RemovalIsHonest,
           AutomaticDeleteSparesKept, AutomaticDelete, Callers
  <1>2. Spec => []SoleInv
    BY <1>0, SoleInvariant
  <1>. QED BY <1>1, <1>2, ClaimInvariant, RemovedInvariant, PTL
=============================================================================
