----------------------------- MODULE Retention -----------------------------
(***************************************************************************)
(* What may delete, restore or replace ONE library path: the eviction sweep *)
(* and its crash recovery (services/eviction_service.py), an operator's      *)
(* report-issue (services/correction_service.py), the import that places a   *)
(* file there, and the registries of services/purge_service.py that keep     *)
(* them apart.  Everything in the code is keyed by the path or by the row,   *)
(* and rows of other paths never touch it: one path, and the rows whose      *)
(* breadcrumb (library_path) names it or may come to, is the whole protocol. *)
(*                                                                         *)
(* A step is what happens between two awaits.  A row's CAS with the commit   *)
(* that follows is one step: SQLite admits one writer.                      *)
(***************************************************************************)
EXTENDS Naturals, FiniteSets

CONSTANTS Rows,         \* the requests (movie) or season rows (tv) of the title
          First,        \* the row that is in the library at the start
          Kinds,        \* the media types to consider, of "movie" and "tv"
          Reports,      \* bound: report-issue calls
          Grabs,        \* bound: grabs of a replacement
          MaxCrashes    \* bound: process crashes

ASSUME RowsAssumption == First \in Rows /\ IsFiniteSet(Rows)
ASSUME KindsAssumption == Kinds \subseteq {"movie", "tv"}
ASSUME BoundsAssumption == Reports \in Nat /\ Grabs \in Nat /\ MaxCrashes \in Nat

----------------------------------------------------------------------------
(* Statuses.  "pre_grab" stands for pending, searching and                  *)
(* no_acceptable_release: nothing here tells the three apart.               *)

PRE_GRAB == {"pre_grab"}
MARKER_OWNED_ADVANCED == {"downloading", "failed"}
REARMED_RECOVERY == PRE_GRAB \cup MARKER_OWNED_ADVANCED \cup {"cancelled"}
REARMED_OR_BLOCKED == REARMED_RECOVERY \cup {"import_blocked"}
STALE_BREADCRUMB_CLEAR == REARMED_OR_BLOCKED \cup {"evicted"}
REPORTABLE == {"completed", "available"}

(* uq_media_requests_active: at most one row of a title is in one of these.  *)
Active == {"pre_grab", "downloading", "import_blocked", "completed"}

VARIABLES
  kind,     \* whether the title is a movie or a season of a show; never changes
  row,      \* the rows: [status, path, mark, regrab]; path is the breadcrumb,
            \* mark is partial_delete_path, regrab is eviction_regrab (durable)
  kept,     \* keep_forever, or a watchlist entry, of the title (durable)
  xfer,     \* the active download of each row, by the phase it is in (durable)
  cover,    \* another season's pack holds a coverage claim on this one (durable)
  disk,     \* the tree at the path: "intact", "partial" or "gone" (durable)
  purges,   \* _ACTIVE_PURGE_PATHS[path], the reference count
  placing,  \* _ACTIVE_PLACEMENT_PATHS[path], the reference count
  lease,    \* the sweep's PressureExclusionLease
  sweep,    \* run_eviction_sweep: [pc, todo, at, held, proactive]
  fix,      \* the report_issue in progress: [pc, row, path, out]
  import,   \* the import in progress: [pc, row]
  workers,  \* the callers whose delete thread is walking the tree
  clash,    \* history: two verbs worked on one row or tree, unknown to each other
  reports, grabs, crashes

db == <<kind, row, kept, xfer, cover>>
registry == <<purges, placing, lease>>
bounds == <<clash, reports, grabs, crashes>>
vars == <<kind, row, kept, xfer, cover, disk, purges, placing, lease, sweep, fix, import,
          workers, clash, reports, grabs, crashes>>

NoRow == [status |-> "absent", path |-> FALSE, mark |-> FALSE, regrab |-> FALSE]
NoItem == [row |-> First, seen |-> "absent", mark |-> FALSE]
IdleSweep == [pc |-> "idle", todo |-> {}, at |-> NoItem, held |-> 0, proactive |-> FALSE]
IdleFix == [pc |-> "idle", row |-> First, path |-> FALSE, out |-> "intact"]
IdleImport == [pc |-> "idle", row |-> First]

Init ==
  /\ kind \in Kinds
  /\ row = [r \in Rows |-> IF r = First
                           THEN [NoRow EXCEPT !.status = "available", !.path = TRUE]
                           ELSE NoRow]
  /\ kept = FALSE /\ cover = FALSE
  /\ xfer = [r \in Rows |-> "none"]
  /\ disk = "intact"
  /\ purges = 0 /\ placing = 0 /\ lease = "none"
  /\ sweep = IdleSweep /\ fix = IdleFix /\ import = IdleImport
  /\ workers = {}
  /\ clash = FALSE
  /\ reports = 0 /\ grabs = 0 /\ crashes = 0

----------------------------------------------------------------------------
(* Rows: predicates and statements.                                         *)

NoOtherActive(r) == \A q \in Rows \ {r} : row[q].status \notin Active

(* Mutant: only a row the scan has confirmed counts, not one just imported.   *)
Confirmed_path_claimed(r) ==
  \E q \in Rows \ {r} : row[q].path /\ row[q].status = "available"

(* other_row_claims_path *)
_path_claimed_by_another_row(r) ==
  \E q \in Rows \ {r} : row[q].path /\ row[q].status \notin {"evicted", "cancelled", "absent"}

(* A dead row's breadcrumb does not count as a claim, but if it is unmarked the     *)
(* recovery pass may still restore its row.                                  *)
RestorableTwin(r) ==
  \E q \in Rows \ {r} :
    row[q].path /\ ~row[q].mark /\ row[q].status \in {"evicted", "cancelled"}

(* _partial_delete_outstanding against the row as it is now *)
_partial_delete_still_armed(r) == row[r].path /\ row[r].mark

_coverage_claim_active == kind = "tv" /\ cover
_competing_active_transfer(r) == xfer[r] = "transfer"

(* The sweep works on a correction's leftovers: a marked movie row that has   *)
(* left `evicted` is an operator's, and a pin does not hold it back.         *)
CorrectionRecovery(i) == kind = "movie" /\ i.seen # "evicted"

_recovery_intent_blocked_reason(i) == kept /\ ~CorrectionRecovery(i)
_recovery_ownership_blocked_reason(i) ==
  _competing_active_transfer(i.row) \/ _coverage_claim_active
_recovery_purge_blocked_reason(i) ==
  _recovery_intent_blocked_reason(i) \/ _recovery_ownership_blocked_reason(i)

(* The atomic re-stamp, then the checks inside its transaction.             *)
RecoveryStillSafe(i) ==
  /\ _partial_delete_still_armed(i.row)
  /\ ~_recovery_intent_blocked_reason(i)
  /\ ~_recovery_ownership_blocked_reason(i)
  /\ ~_path_claimed_by_another_row(i.row)

(* clear_library_path_if_set: the marker dies with the breadcrumb.          *)
Cleared(r) == [row[r] EXCEPT !.path = FALSE, !.mark = FALSE]
clear_library_path_if_set(r, statuses) ==
  IF row[r].path /\ row[r].status \in statuses THEN Cleared(r) ELSE row[r]

(* The record a finished delete leaves: a row its owner abandoned meanwhile   *)
(* becomes `evicted`, so that a later request knows the file is gone.        *)
Finalized(r, abandoned) ==
  LET c == [clear_library_path_if_set(r, STALE_BREADCRUMB_CLEAR) EXCEPT !.mark = FALSE]
  IN  IF c.status \in abandoned THEN [c EXCEPT !.status = "evicted"] ELSE c

(* _cancel_redundant_*_regrabs: the re-requests this very eviction caused.    *)
CancelRegrabs(rs, r) ==
  [q \in Rows |-> IF q # r /\ rs[q].status \in PRE_GRAB /\ rs[q].regrab
                  THEN [rs[q] EXCEPT !.status = "cancelled"] ELSE rs[q]]

_restore_after_failed_delete(r) ==
  LET disarmed == [row EXCEPT ![r].mark = FALSE]
  IN  CASE row[r].status = "evicted" ->
             CancelRegrabs([disarmed EXCEPT ![r].status = "available"], r)
        [] kind = "tv" /\ row[r].status \in PRE_GRAB ->
             [disarmed EXCEPT ![r].status = "available"]
        [] OTHER -> disarmed

_still_evictable(r) ==
  /\ row[r].status = "available" /\ ~kept
  /\ xfer[r] = "none" /\ ~_coverage_claim_active

----------------------------------------------------------------------------
(* The sweep.                                                               *)

To(pc) == sweep' = [sweep EXCEPT !.pc = pc]
NextItem(pc) == sweep' = [sweep EXCEPT !.pc = pc, !.at = NoItem, !.held = 0]
ToFinal(claims) == sweep' = [sweep EXCEPT !.pc = "rfinal", !.held = claims]

(* begin_purge, purge_library_path's own registration, end_purge             *)
begin_purge == purges = 0 /\ purges' = 1
Register == purges' = purges + 1
Unregister(n) == purges' = IF purges > n THEN purges - n ELSE 0

(* The rows a recovery pass snapshots.  A tv row that has advanced, and any   *)
(* movie row that is no longer `evicted`, is owed a recovery only if marked.  *)
Recoverable(r, correctionOnly) ==
  /\ row[r].path
  /\ \/ row[r].status = "evicted" /\ ~correctionOnly
     \/ /\ row[r].status \in REARMED_OR_BLOCKED
        /\ kind = "tv" => ~correctionOnly
        /\ \/ row[r].mark
           \/ kind = "tv" /\ row[r].status \in PRE_GRAB \cup {"cancelled"}

Items(correctionOnly) ==
  {[row |-> r, seen |-> row[r].status, mark |-> row[r].mark] :
     r \in {q \in Rows : Recoverable(q, correctionOnly)}}

(* run_eviction_sweep: the latch is the pc.  A correction already under way    *)
(* costs a pressure sweep its lease, not its recovery pass.                  *)
run_eviction_sweep ==
  /\ sweep.pc = "idle"
  /\ \E p \in BOOLEAN :
       /\ sweep' = [pc |-> "resume", todo |-> Items(FALSE), at |-> NoItem, held |-> 0,
                    proactive |-> p]
       /\ lease' = IF ~p /\ purges = 0 THEN "held" ELSE "none"
  /\ UNCHANGED <<db, disk, purges, placing, fix, import, workers, bounds>>

(* run_correction_recovery_sweep: the same pass over the corrections alone,    *)
(* with nothing evicted after it.                                           *)
run_correction_recovery_sweep ==
  /\ sweep.pc = "idle"
  /\ Items(TRUE) # {}
  /\ sweep' = [pc |-> "resume", todo |-> Items(TRUE), at |-> NoItem, held |-> 0,
               proactive |-> FALSE]
  /\ UNCHANGED <<db, disk, registry, fix, import, workers, bounds>>

(* _resume_one: the path is claimed, or the row waits for the next sweep.     *)
_resume_one ==
  /\ sweep.pc = "resume" /\ sweep.todo # {}
  /\ \E i \in sweep.todo :
       LET rest == sweep.todo \ {i}
       IN  \/ purges > 0 /\ sweep' = [sweep EXCEPT !.todo = rest] /\ UNCHANGED purges
           \/ /\ begin_purge
              /\ sweep' = [sweep EXCEPT !.todo = rest, !.at = i, !.pc = "stat"]
  /\ UNCHANGED <<db, disk, placing, lease, fix, import, workers, bounds>>

SkipItem == Unregister(1) /\ NextItem("resume") /\ UNCHANGED row

(* A correction's leftovers are reclaimed only after its torrent is gone too;  *)
(* removing it, and the stat, may fail.                                     *)
StatItem ==
  /\ sweep.pc = "stat"
  /\ LET i == sweep.at
     IN  \/ SkipItem
         \/ /\ CorrectionRecovery(i) => _partial_delete_still_armed(i.row)
            /\ IF disk = "gone" THEN ToFinal(1) ELSE To("decide")
            /\ UNCHANGED <<row, purges>>
  /\ UNCHANGED <<kind, kept, xfer, cover, disk, placing, lease, fix, import, workers, bounds>>

(* The tree is there.  Another live row owns it: this row lets go.  The row's  *)
(* delete never started: it is in the library again.  It started: the delete   *)
(* is finished, unless the title or the path is wanted.                     *)
ReleaseStale(i) ==
  /\ _path_claimed_by_another_row(i.row)
  /\ row' = [row EXCEPT ![i.row] =
               clear_library_path_if_set(i.row,
                 IF kind = "tv" /\ i.seen # "evicted" THEN REARMED_OR_BLOCKED
                 ELSE STALE_BREADCRUMB_CLEAR)]
  /\ Unregister(1) /\ NextItem("resume")

RestoreUnstarted(i) ==
  /\ ~_path_claimed_by_another_row(i.row) /\ ~i.mark
  /\ row' = IF i.seen = "evicted" THEN _restore_after_failed_delete(i.row)
            ELSE IF row[i.row].status = i.seen THEN [row EXCEPT ![i.row].status = "available"]
            ELSE row
  /\ Unregister(1) /\ NextItem("resume")

RetryDelete(i) ==
  /\ ~_path_claimed_by_another_row(i.row) /\ i.mark
  /\ UNCHANGED row
  /\ IF \/ _recovery_purge_blocked_reason(i)
        \/ kind = "tv" /\ i.seen # "evicted" /\ ~_partial_delete_still_armed(i.row)
        \/ placing > 0
     THEN Unregister(1) /\ NextItem("resume")
     ELSE Register /\ To("rboundary")

DecideItem ==
  /\ sweep.pc = "decide"
  /\ ReleaseStale(sweep.at) \/ RestoreUnstarted(sweep.at) \/ RetryDelete(sweep.at)
  /\ UNCHANGED <<kind, kept, xfer, cover, disk, placing, lease, fix, import, workers, bounds>>

(* _recovery_delete_boundary, at the last moment before the thread starts.    *)
(* The containment probe may refuse the path first.                         *)
_recovery_delete_boundary ==
  /\ sweep.pc = "rboundary"
  /\ \/ Unregister(2) /\ NextItem("resume") /\ UNCHANGED <<workers, clash>>
     \/ /\ RecoveryStillSafe(sweep.at)
        /\ workers' = workers \cup {"sweep"} /\ To("rdelete") /\ UNCHANGED purges
        /\ clash' = (clash \/ RestorableTwin(sweep.at.row))
  /\ UNCHANGED <<db, disk, placing, lease, fix, import, reports, grabs, crashes>>

(* The retry's thread has ended.                                            *)
RetrySettles ==
  /\ sweep.pc = "rdelete" /\ "sweep" \in workers
  /\ workers' = workers \ {"sweep"}
  /\ \/ disk = "gone" /\ ToFinal(2) /\ UNCHANGED purges
     \/ disk # "gone" /\ Unregister(2) /\ NextItem("resume")
  /\ UNCHANGED <<db, disk, placing, lease, fix, import, bounds>>

(* Finalize a tree that is gone, whoever removed it.                        *)
RecoveryFinalizes ==
  /\ sweep.pc = "rfinal"
  /\ LET r == sweep.at.row
         live == row[r].path /\ row[r].status \in STALE_BREADCRUMB_CLEAR
     IN  row' = IF live
                THEN [row EXCEPT ![r] = Finalized(r,
                        IF kind = "tv" THEN {"cancelled"} ELSE {"cancelled", "failed"})]
                ELSE row
  /\ Unregister(sweep.held) /\ NextItem("resume")
  /\ UNCHANGED <<kind, kept, xfer, cover, disk, placing, lease, fix, import, workers, bounds>>

(* Mutant: the lease is not released in the `finally`.                        *)
Leaky_SweepEnds == sweep' = IdleSweep /\ UNCHANGED lease

(* The stand-down, the pressure reading and the candidates.  The reading and  *)
(* the watch states are the outside world's: any answer is possible.         *)
SweepEnds ==
  /\ lease' = "none" /\ sweep' = IdleSweep

StandDown ==
  /\ sweep.pc = "resume" /\ sweep.todo = {}
  /\ SweepEnds
  /\ UNCHANGED <<db, disk, purges, placing, fix, import, workers, bounds>>

_candidates ==
  {[row |-> r, seen |-> "available", mark |-> FALSE] :
     r \in {q \in Rows : row[q].path /\ _still_evictable(q)}}

AssembleCandidates ==
  /\ sweep.pc = "resume" /\ sweep.todo = {}
  /\ sweep.proactive \/ lease = "held"
  /\ \E chosen \in SUBSET _candidates : sweep' = [sweep EXCEPT !.pc = "evict", !.todo = chosen]
  /\ UNCHANGED <<db, disk, registry, fix, import, workers, bounds>>

_lease_defeated == lease = "revoked"

SweepDone ==
  /\ sweep.pc = "evict"
  /\ sweep.todo = {} \/ _lease_defeated
  /\ SweepEnds
  /\ UNCHANGED <<db, disk, purges, placing, fix, import, workers, bounds>>

(* _evict_one, until its claim: re-read, watch state, then the claim CAS.     *)
_evict_one ==
  /\ sweep.pc = "evict" /\ ~_lease_defeated
  /\ \E i \in sweep.todo :
       LET rest == [sweep EXCEPT !.todo = @ \ {i}]
       IN  sweep' = IF _still_evictable(i.row) THEN [rest EXCEPT !.at = i, !.pc = "watch"]
                    ELSE rest
  /\ UNCHANGED <<db, disk, registry, fix, import, workers, bounds>>

ClaimCandidate ==
  /\ sweep.pc = "watch"
  /\ \/ NextItem("evict") /\ UNCHANGED row
     \/ /\ row[sweep.at.row].status = "available" /\ ~kept
        /\ row' = [row EXCEPT ![sweep.at.row].status = "evicted"]
        /\ To("claimed")
  /\ UNCHANGED <<kind, kept, xfer, cover, disk, registry, fix, import, workers, bounds>>

(* A twin or a coverage claim gives the row back; an import under way defers   *)
(* the delete to the recovery pass of a later sweep.                        *)
CheckClaimed ==
  /\ sweep.pc = "claimed"
  /\ LET r == sweep.at.row
         wanted == _path_claimed_by_another_row(r) \/ _coverage_claim_active
     IN  \/ /\ wanted
            /\ row' = _restore_after_failed_delete(r)
            /\ NextItem("evict") /\ UNCHANGED purges
         \/ /\ ~wanted /\ placing > 0
            /\ row' = [row EXCEPT ![r].mark = FALSE]
            /\ NextItem("evict") /\ UNCHANGED purges
         \/ /\ ~wanted /\ placing = 0
            /\ Register /\ To("boundary1") /\ UNCHANGED row
  /\ UNCHANGED <<kind, kept, xfer, cover, disk, placing, lease, fix, import, workers, bounds>>

(* _mark_delete_started: the lease is read before and after the marker is      *)
(* armed.  A refusal of the containment probe comes before both.             *)
_mark_delete_started ==
  /\ sweep.pc = "boundary1"
  /\ \/ Unregister(1) /\ To("restore") /\ UNCHANGED row
     \/ /\ ~_lease_defeated
        /\ row' = [row EXCEPT ![sweep.at.row].mark = TRUE]
        /\ To("boundary2") /\ UNCHANGED purges
  /\ UNCHANGED <<kind, kept, xfer, cover, disk, placing, lease, fix, import, workers, bounds>>

StartDelete ==
  /\ sweep.pc = "boundary2"
  /\ \/ /\ _lease_defeated
        /\ Unregister(1) /\ To("restore") /\ UNCHANGED <<row, workers>>
     \/ /\ ~_lease_defeated                       \* DeleteWorkerStartError
        /\ row' = [row EXCEPT ![sweep.at.row].mark = FALSE]
        /\ Unregister(1) /\ NextItem("evict") /\ UNCHANGED workers
     \/ /\ ~_lease_defeated
        /\ workers' = workers \cup {"sweep"}
        /\ To("delete") /\ UNCHANGED <<row, purges>>
  /\ UNCHANGED <<kind, kept, xfer, cover, disk, placing, lease, fix, import, bounds>>

(* Mutant: a partial delete is restored like a failed one.                     *)
Restoring_DeleteSettles ==
  /\ sweep.pc = "delete" /\ "sweep" \in workers
  /\ workers' = workers \ {"sweep"}
  /\ \/ disk = "gone" /\ To("final") /\ UNCHANGED purges
     \/ disk # "gone" /\ Unregister(1) /\ To("restore")
  /\ UNCHANGED <<db, disk, placing, lease, fix, import, bounds>>
(* A partial delete keeps its claim and its marker: no restore.             *)
DeleteSettles ==
  /\ sweep.pc = "delete" /\ "sweep" \in workers
  /\ workers' = workers \ {"sweep"}
  /\ \/ disk = "gone" /\ To("final") /\ UNCHANGED purges
     \/ disk = "partial" /\ Unregister(1) /\ NextItem("evict")
     \/ disk = "intact" /\ Unregister(1) /\ To("restore")
  /\ UNCHANGED <<db, disk, placing, lease, fix, import, bounds>>

RestoreClaim ==
  /\ sweep.pc = "restore"
  /\ row' = _restore_after_failed_delete(sweep.at.row)
  /\ NextItem("evict")
  /\ UNCHANGED <<kind, kept, xfer, cover, disk, registry, fix, import, workers, bounds>>

EvictionFinalizes ==
  /\ sweep.pc = "final"
  /\ row' = [row EXCEPT ![sweep.at.row] =
               Finalized(sweep.at.row, IF kind = "tv" THEN {"cancelled"} ELSE {})]
  /\ Unregister(1) /\ NextItem("evict")
  /\ UNCHANGED <<kind, kept, xfer, cover, disk, placing, lease, fix, import, workers, bounds>>

Sweep ==
  \/ run_eviction_sweep \/ run_correction_recovery_sweep \/ _resume_one \/ StatItem
  \/ DecideItem \/ _recovery_delete_boundary \/ RetrySettles \/ RecoveryFinalizes
  \/ StandDown \/ AssembleCandidates \/ SweepDone \/ _evict_one \/ ClaimCandidate
  \/ CheckClaimed \/ _mark_delete_started \/ StartDelete \/ DeleteSettles
  \/ RestoreClaim \/ EvictionFinalizes

----------------------------------------------------------------------------
(* report_issue.                                                            *)

report_issue(r) ==
  /\ fix.pc = "idle" /\ reports < Reports
  /\ row[r].status \in REPORTABLE /\ NoOtherActive(r)
  /\ fix' = [IdleFix EXCEPT !.pc = "claim", !.row = r, !.path = row[r].path]
  /\ reports' = reports + 1
  /\ UNCHANGED <<db, disk, registry, sweep, import, workers, clash, grabs, crashes>>

(* begin_purge and revoke_pressure_exclusions, with no await between them;     *)
(* ImportInProgressError if the path is claimed.                            *)
ClaimPath ==
  /\ fix.pc = "claim"
  /\ \/ fix.path /\ purges > 0 /\ fix' = IdleFix /\ UNCHANGED <<purges, lease>>
     \/ /\ fix.path /\ begin_purge
        /\ lease' = IF lease = "held" THEN "revoked" ELSE lease
        /\ fix' = [fix EXCEPT !.pc = "publish"]
     \/ ~fix.path /\ fix' = [fix EXCEPT !.pc = "publish"] /\ UNCHANGED <<purges, lease>>
  /\ UNCHANGED <<db, disk, placing, sweep, import, workers, bounds>>

EndClaim == IF fix.path THEN Unregister(1) ELSE UNCHANGED purges

(* reset_for_research, unconditional, and the marker, in one commit.         *)
PublishSearching ==
  /\ fix.pc = "publish"
  /\ \/ /\ ~NoOtherActive(fix.row)                \* IntegrityError
        /\ EndClaim /\ fix' = IdleFix /\ UNCHANGED <<row, clash>>
     \/ /\ NoOtherActive(fix.row)
        /\ row' = [row EXCEPT ![fix.row].status = "pre_grab", ![fix.row].regrab = FALSE,
                              ![fix.row].mark = fix.path]
        /\ clash' = (clash \/ row[fix.row].status \notin REPORTABLE)
        /\ fix' = [fix EXCEPT !.pc = "torrent"] /\ UNCHANGED purges
  /\ UNCHANGED <<kind, kept, xfer, cover, disk, placing, lease, sweep, import, workers,
                 reports, grabs, crashes>>

(* remove_torrent, best effort; then the purge, admitted or deferred.        *)
RemoveCulprit ==
  /\ fix.pc = "torrent"
  /\ \/ fix.path /\ placing = 0 /\ Register /\ fix' = [fix EXCEPT !.pc = "purge"]
     \/ (~fix.path \/ placing > 0) /\ fix' = [fix EXCEPT !.pc = "record"] /\ UNCHANGED purges
  /\ UNCHANGED <<db, disk, placing, lease, sweep, import, workers, bounds>>

PurgeStarts ==
  /\ fix.pc = "purge"
  /\ \/ Unregister(1) /\ fix' = [fix EXCEPT !.pc = "record"] /\ UNCHANGED workers
     \/ workers' = workers \cup {"fix"} /\ fix' = [fix EXCEPT !.pc = "delete"] /\ UNCHANGED purges
  /\ UNCHANGED <<db, disk, placing, lease, sweep, import, bounds>>

PurgeSettles ==
  /\ fix.pc = "delete" /\ "fix" \in workers
  /\ workers' = workers \ {"fix"} /\ Unregister(1)
  /\ fix' = [fix EXCEPT !.pc = "record", !.out = disk]
  /\ UNCHANGED <<db, disk, placing, lease, sweep, import, bounds>>

(* The outcome is the thread's: gone, partial, or intact for the refused, the   *)
(* deferred and the failed.                                                 *)
RecordCorrection ==
  /\ fix.pc = "record"
  /\ LET r == fix.row
     IN  row' = IF ~fix.path THEN row
                ELSE CASE fix.out = "gone" -> [row EXCEPT ![r] = Cleared(r)]
                       [] fix.out = "intact" -> [row EXCEPT ![r].mark = FALSE]
                       [] OTHER -> row
  /\ EndClaim /\ fix' = IdleFix
  /\ UNCHANGED <<kind, kept, xfer, cover, disk, placing, lease, sweep, import, workers, bounds>>

Correction ==
  \/ \E r \in Rows : report_issue(r)
  \/ ClaimPath \/ PublishSearching \/ RemoveCulprit \/ PurgeStarts \/ PurgeSettles
  \/ RecordCorrection

----------------------------------------------------------------------------
(* The delete thread, and what happens to the rows meanwhile.               *)

(* fs.delete removes an entry, or the last one.                             *)
WorkerDeletes ==
  /\ workers # {} /\ disk # "gone"
  /\ disk' \in {"partial", "gone"}
  /\ UNCHANGED <<db, registry, sweep, fix, import, workers, bounds>>

(* A request for a title whose copy was evicted (latest_request_evicted:      *)
(* no row has it in the library).  A show that still has other   *)
(* seasons re-arms this season's own row (ensure_seasons).                  *)
ReRequest ==
  /\ \E r \in Rows :
       /\ row[r].status = "evicted" /\ NoOtherActive(r)
       /\ \A q \in Rows : row[q].status # "available"
       /\ \/ \E q \in Rows :
               /\ row[q].status = "absent"
               /\ row' = [row EXCEPT ![q] = [NoRow EXCEPT !.status = "pre_grab", !.regrab = TRUE]]
          \/ /\ kind = "tv"
             /\ row' = [row EXCEPT ![r].status = "pre_grab", ![r].regrab = TRUE]
  /\ UNCHANGED <<kind, kept, xfer, cover, disk, registry, sweep, fix, import, workers, bounds>>

Grab(r) ==
  /\ row[r].status \in PRE_GRAB /\ grabs < Grabs
  /\ row' = [row EXCEPT ![r].status = "downloading", ![r].regrab = FALSE]
  /\ xfer' = [xfer EXCEPT ![r] = "transfer"]
  /\ grabs' = grabs + 1
  /\ UNCHANGED <<kind, kept, cover, disk, registry, sweep, fix, import, workers, clash, reports, crashes>>

(* The torrent completes, fails (the request is re-armed, or its retries are    *)
(* spent), or its request is cancelled.                                     *)
TransferSettles(r) ==
  /\ xfer[r] = "transfer"
  /\ \/ xfer' = [xfer EXCEPT ![r] = "import"] /\ UNCHANGED row
     \/ /\ xfer' = [xfer EXCEPT ![r] = "none"]
        /\ \E s \in {"pre_grab", "failed"} : row' = [row EXCEPT ![r].status = s]
  /\ UNCHANGED <<kind, kept, cover, disk, registry, sweep, fix, import, workers, bounds>>

CancelRequest(r) ==
  /\ row[r].status \in {"pre_grab", "downloading", "import_blocked"}
  /\ ~(import.pc # "idle" /\ import.row = r)
  /\ row' = [row EXCEPT ![r].status = "cancelled"]
  /\ xfer' = [xfer EXCEPT ![r] = "none"]
  /\ UNCHANGED <<kind, kept, cover, disk, registry, sweep, fix, import, workers, bounds>>

(* begin_placement, or the import waits for its next cycle.                  *)
begin_placement(r) ==
  /\ import.pc = "idle" /\ xfer[r] = "import"
  /\ purges = 0 /\ placing = 0
  /\ placing' = 1 /\ import' = [pc |-> "place", row |-> r]
  /\ UNCHANGED <<db, disk, purges, lease, sweep, fix, workers, bounds>>

(* The target exists and is not the file an earlier attempt placed: blocked.    *)
PlaceFiles ==
  /\ import.pc = "place"
  /\ \/ /\ disk = "gone"
        /\ disk' = "intact" /\ import' = [import EXCEPT !.pc = "finalize"]
        /\ UNCHANGED <<row, placing>>
     \/ /\ disk # "gone"
        /\ row' = [row EXCEPT ![import.row].status = "import_blocked"]
        /\ placing' = 0 /\ import' = IdleImport /\ UNCHANGED disk
  /\ UNCHANGED <<kind, kept, xfer, cover, purges, lease, sweep, fix, workers, bounds>>

(* set_library_path and mark_completed, then end_placement.                  *)
FinalizeImport ==
  /\ import.pc = "finalize"
  /\ row' = [row EXCEPT ![import.row].status = "completed", ![import.row].path = TRUE,
                        ![import.row].mark = FALSE, ![import.row].regrab = FALSE]
  /\ xfer' = [xfer EXCEPT ![import.row] = "none"]
  /\ placing' = 0 /\ import' = IdleImport
  /\ UNCHANGED <<kind, kept, cover, disk, purges, lease, sweep, fix, workers, bounds>>

mark_available(r) ==
  /\ row[r].status = "completed" /\ disk = "intact"
  /\ row' = [row EXCEPT ![r].status = "available"]
  /\ UNCHANGED <<kind, kept, xfer, cover, disk, registry, sweep, fix, import, workers, bounds>>

set_keep_forever ==
  /\ kept' = ~kept
  /\ UNCHANGED <<kind, row, xfer, cover, disk, registry, sweep, fix, import, workers, bounds>>

CoverageMoves ==
  /\ kind = "tv" /\ cover' = ~cover
  /\ UNCHANGED <<kind, row, kept, xfer, disk, registry, sweep, fix, import, workers, bounds>>

Lifecycle ==
  \/ ReRequest
  \/ \E r \in Rows : Grab(r) \/ TransferSettles(r) \/ CancelRequest(r) \/ begin_placement(r)
                     \/ mark_available(r)
  \/ PlaceFiles \/ FinalizeImport \/ set_keep_forever \/ CoverageMoves

(* Memory is lost, a delete stops where it is, the tree and the rows remain.   *)
Crash ==
  /\ crashes < MaxCrashes
  /\ crashes' = crashes + 1
  /\ purges' = 0 /\ placing' = 0 /\ lease' = "none"
  /\ sweep' = IdleSweep /\ fix' = IdleFix /\ import' = IdleImport /\ workers' = {}
  /\ UNCHANGED <<db, disk, clash, reports, grabs>>

Next == Sweep \/ Correction \/ WorkerDeletes \/ Lifecycle \/ Crash

Spec == Init /\ [][Next]_vars

(* The background loop keeps running a sweep it started, and a delete thread     *)
(* ends: local I/O is assumed to return.                                    *)
SweepSteps ==
  \/ _resume_one \/ StatItem \/ DecideItem \/ _recovery_delete_boundary \/ RetrySettles
  \/ RecoveryFinalizes \/ StandDown \/ SweepDone \/ _evict_one \/ ClaimCandidate
  \/ CheckClaimed \/ _mark_delete_started \/ StartDelete \/ DeleteSettles
  \/ RestoreClaim \/ EvictionFinalizes
FairSpec == Spec /\ WF_vars(SweepSteps)

----------------------------------------------------------------------------
(* Properties.                                                              *)

(* `available` is true: the row has its breadcrumb and the tree is whole.       *)
(* Interrupted deletes, restores after a failed delete, the fold of a re-armed   *)
(* season and imports all write that status; one that trusts a stale tree       *)
(* publishes an unplayable title.                                           *)
AvailableIsIntact ==
  ~clash => \A r \in Rows : row[r].status = "available" => row[r].path /\ disk = "intact"

(* A tree that a delete ate into and left is never forgotten: some row carries   *)
(* its marker, through crashes, refusals, cancellations and re-requests.      *)
PartialIsMarked ==
  (/\ ~clash /\ disk = "partial" /\ workers = {}
   /\ fix.pc = "idle" /\ sweep.pc = "idle")
     => \E r \in Rows : _partial_delete_still_armed(r)

(* The two registries exclude each other across tasks: no thread deletes the     *)
(* tree while an import places files in it.                                  *)
PlacementIsExclusive == workers # {} => placing = 0

(* What the rows say of the tree is true however sweeps, corrections, imports and      *)
(* crashes interleave.                                                       *)
TreeIsAccounted == AvailableIsIntact /\ PartialIsMarked /\ PlacementIsExclusive

(* A sweep's thread never starts on a tree that another row has in the library:   *)
(* the recovery of an old delete, resumed after a crash, finds the copy that a     *)
(* re-request imported meanwhile, and the check is still good at the thread.     *)
DeleteSparesOwner ==
  [][(~clash /\ "sweep" \in workers' \ workers)
       => \A r \in Rows \ {sweep.at.row} : row[r].path => row[r].status \notin REPORTABLE]_vars

(* A sweep always ends and gives its lease back, whatever corrections, crashes     *)
(* and failures it meets.                                                  *)
LeaseIsReleased == lease # "none" ~> lease = "none"

=============================================================================
