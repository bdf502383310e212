------------------------ MODULE BackgroundLoopProofs ------------------------
(* Two tasks of the background loop, modelled apart and proved apart.                    *)
(*   DownloadTracking, what the poll makes of one tracked download.  For every window: the  *)
(* types; a grace anchor means a missing row; grace is honoured; the heal is honest.        *)
(*   AutoGrab, what the automatic search makes of the scopes.  For any scopes, ladders and  *)
(* budget: a park covers no download, and a season is done only when it is whole.           *)
EXTENDS DownloadTracking, AutoGrab, FiniteSetTheorems, SequenceTheorems, TLAPS

(***************************************************************************)
(* One tracked download                                                     *)
(***************************************************************************)
(* Ageing keeps a timestamp's age inside its range, and never makes it unset.       *)
LEMMA OlderType ==
  ASSUME NEW cap \in Nat, NEW age \in Ages(cap)
  PROVE  /\ Older(age, cap) \in Ages(cap)
         /\ age \in 0..(cap + 1) => Older(age, cap) \in 0..(cap + 1)
         /\ Older(age, cap) = Unset <=> age = Unset
BY DEF Older, Ages, Unset

(* The client's state decides a status the row may have.                         *)
LEMMA MapType ==
  ASSUME NEW raw \in Raw
  PROVE  _map_raw_state(raw) \in {"metadata_fetching", "import_pending", "failed", "downloading"}
BY DEF Raw, _map_raw_state

(* A persisted rejection keeps the row's type, its hold and its anchor, and never makes   *)
(* it missing.                                                               *)
LEMMA PersistType ==
  ASSUME TypeOK, RejectPersists
  PROVE  /\ row' \in [status : Statuses, pending : BOOLEAN, resume : BOOLEAN,
                    verdict : {"none", "restart", "reject"}, anchor : Ages(Grace),
                    age : 0..(ProgressWindow + 1)]
         /\ row'.pending = row.pending /\ row'.anchor = row.anchor
         /\ \/ row'.status = row.status
            \/ row.status = "importing" /\ row'.status = "import_blocked"
<1>1. CASE row.status = "importing"
  BY <1>1 DEF RejectPersists, TypeOK, Statuses, Completed
<1>2. CASE row.status # "importing"
  <2>1. row' = [row EXCEPT !.verdict = "reject", !.status = row.status]
    BY <1>2 DEF RejectPersists
  <2>2. row' \in [status : Statuses, pending : BOOLEAN, resume : BOOLEAN,
                  verdict : {"none", "restart", "reject"}, anchor : Ages(Grace),
                  age : 0..(ProgressWindow + 1)]
    BY <2>1 DEF TypeOK
  <2>3. row'.pending = row.pending
    BY <2>1 DEF TypeOK
  <2>4. row'.anchor = row.anchor /\ row'.status = row.status
    BY <2>1 DEF TypeOK
  <2> QED BY <2>2, <2>3, <2>4
<1> QED BY <1>1, <1>2

(* What the client may report is well typed. *)
LEMMA ReportType ==
  Reports \subseteq [present : BOOLEAN, raw : Raw, activity : Ages(ProgressWindow),
                    progress : BOOLEAN, files : BOOLEAN]
<1>1. Unset \in Ages(ProgressWindow) /\ 0 \in Ages(ProgressWindow)
  BY WindowsAssumption DEF Ages, Unset
<1>2. Gone \in [present : BOOLEAN, raw : Raw, activity : Ages(ProgressWindow),
               progress : BOOLEAN, files : BOOLEAN]
  BY <1>1 DEF Gone, Raw
<1> QED BY <1>1, <1>2 DEF Reports

(* The initial states are well typed. *)
LEMMA InitType == Init => TypeOK
BY WindowsAssumption, HoldsAssumption, ReportType
   DEF Init, TypeOK, Fresh, Ages, Unset, Statuses, Active, Completed

(* Every step keeps the types. *)
LEMMA StepType == TypeOK /\ [Next]_vars => TypeOK'
<1> SUFFICES ASSUME TypeOK, [Next]_vars PROVE TypeOK'
  OBVIOUS
<1> USE WindowsAssumption
<1>1. ASSUME PollRejects \/ PollRestarts PROVE TypeOK'
  BY <1>1 DEF TypeOK, PollRejects, PollRestarts, Fails, Seen, Missed, Observed, Ages, Unset, Statuses
<1>2. ASSUME PollWaits PROVE TypeOK'
  BY <1>2 DEF TypeOK, PollWaits, Fails, Seen, Ages, Unset, Statuses
<1>3. ASSUME PollInspects PROVE TypeOK'
  <2>1. Resumes \in BOOLEAN
    BY DEF TypeOK, Resumes
  <2>2. CASE Fails("rejected") /\ UNCHANGED client
    BY <1>3, <2>2 DEF TypeOK, PollInspects, Fails, Seen, Ages, Unset, Statuses
  <2>5. CASE RejectPersists /\ UNCHANGED <<client, cause>>
    BY <1>3, <2>5, PersistType DEF TypeOK, PollInspects, Seen, Ages, Unset
  <2>3. CASE row' = Validated /\ UNCHANGED cause
    <3>1. row' \in [status : Statuses, pending : BOOLEAN, resume : BOOLEAN,
                    verdict : {"none", "restart", "reject"}, anchor : Ages(Grace), age : 0..(ProgressWindow + 1)]
      <4> DEFINE again == row.status \in Active \ {"import_pending"}
      <4>1. CASE again
        <5>1. Unset \in Ages(Grace) /\ "downloading" \in Statuses
          BY DEF Ages, Unset, Statuses, Active
        <5>2. row' = [row EXCEPT !.status = "downloading", !.anchor = Unset,
                                 !.pending = FALSE, !.resume = Resumes]
          BY <2>3, <4>1 DEF Validated
        <5> QED BY <2>1, <5>1, <5>2 DEF TypeOK
      <4>2. CASE ~again
        BY <2>1, <2>3, <4>2 DEF TypeOK, Validated
      <4> QED BY <4>1, <4>2
    <3> QED BY <1>3, <2>3, <3>1 DEF TypeOK, PollInspects, Seen, Ages, Unset, Raw, Fails
  <2>4. CASE row' = [row EXCEPT !.resume = Resumes] /\ UNCHANGED cause
    BY <1>3, <2>1, <2>4 DEF TypeOK, PollInspects, Seen, Ages, Unset, Raw, Fails
  <2> QED BY <1>3, <2>2, <2>3, <2>4, <2>5 DEF PollInspects
<1>4. ASSUME PollPresent PROVE TypeOK'
  <2>1. _map_raw_state(client.raw) \in Statuses
    BY MapType DEF TypeOK, Statuses, Active
  <2>2. CASE _map_raw_state(client.raw) = row.status
    BY <1>4, <2>2 DEF TypeOK, PollPresent, Fails, Seen, Ages, Unset, Statuses
  <2>3. CASE _map_raw_state(client.raw) # row.status
    <3>1. Unset \in Ages(Grace)
      BY DEF Ages, Unset
    <3>2. row' = [row EXCEPT !.status = _map_raw_state(client.raw),
                             !.anchor = IF row.status = "client_missing" THEN Unset ELSE @]
      BY <1>4, <2>3 DEF PollPresent
    <3>3. row' \in [status : Statuses, pending : BOOLEAN, resume : BOOLEAN,
                    verdict : {"none", "restart", "reject"}, anchor : Ages(Grace), age : 0..(ProgressWindow + 1)]
      BY <2>1, <3>1, <3>2 DEF TypeOK
    <3>4. /\ absentFor' = Unset /\ UNCHANGED client
          /\ cause' \in {cause, "reported"}
      BY <1>4, <2>3 DEF PollPresent, Seen
    <3> QED BY <3>1, <3>3, <3>4 DEF TypeOK
  <2> QED BY <2>2, <2>3
<1>5. ASSUME PollAbsent PROVE TypeOK'
  <2>1. /\ absentFor' \in Ages(Grace)
        /\ UNCHANGED client
    BY <1>5 DEF TypeOK, PollAbsent, Missed, Ages, Unset
  <2>2. CASE row.anchor # Unset /\ row.anchor >= Grace
    BY <1>5, <2>1, <2>2, ZenonT(60) DEF TypeOK, PollAbsent, Statuses
  <2>3. CASE ~(row.anchor # Unset /\ row.anchor >= Grace)
    <3>1. 0 \in Ages(Grace) /\ "client_missing" \in Statuses
      BY DEF Ages, Unset, Statuses, Active
    <3> QED BY <1>5, <2>1, <2>3, <3>1 DEF TypeOK, PollAbsent
  <2> QED BY <2>2, <2>3
<1>6. ASSUME PollCompleted PROVE TypeOK'
  <2>1. /\ absentFor' \in Ages(Grace)
        /\ UNCHANGED <<client, cause>>
    BY <1>6 DEF TypeOK, PollCompleted, Observed, Seen, Missed, Ages, Unset
  <2>2. row' = row \/ row' = [row EXCEPT !.pending = FALSE]
    BY <1>6 DEF TypeOK, PollCompleted
  <2> QED BY <2>1, <2>2 DEF TypeOK
<1>7. ASSUME Imports PROVE TypeOK'
  <2>1. {"importing", "import_blocked", "imported", "downloading"} \subseteq Statuses
    BY DEF Statuses, Active, Completed
  <2>2. PICK outcome \in {"importing", "import_blocked", "imported", "downloading"} : ImportMoves(outcome)
    BY <1>7 DEF Imports
  <2> QED BY <1>7, <2>1, <2>2 DEF TypeOK, Imports, ImportMoves
<1>12. ASSUME ImportRejects PROVE TypeOK'
  <2>1. CASE Fails("rejected")
    BY <1>12, <2>1 DEF TypeOK, ImportRejects, Fails, Statuses
  <2>2. CASE RejectPersists /\ UNCHANGED cause
    BY <1>12, <2>2, PersistType DEF TypeOK, ImportRejects
  <2> QED BY <1>12, <2>1, <2>2 DEF ImportRejects
<1>13. ASSUME RestartInterrupted \/ ValidationErrs PROVE TypeOK'
  BY <1>13 DEF TypeOK, RestartInterrupted, ValidationErrs, Seen, Ages, Unset
<1>8. ASSUME _reuse_terminal_row PROVE TypeOK'
  BY <1>8, HoldsAssumption, ReportType
     DEF TypeOK, _reuse_terminal_row, Fresh, Ages, Unset, Statuses, Active, Completed
<1>9. ASSUME ClientMoves PROVE TypeOK'
  <2>2. client' \in [present : BOOLEAN, raw : Raw, activity : Ages(ProgressWindow),
                     progress : BOOLEAN, files : BOOLEAN]
    BY <1>9, ReportType DEF ClientMoves, TypeOK
  <2> QED BY <1>9, <2>2 DEF ClientMoves, TypeOK
<1>10. ASSUME Tick PROVE TypeOK'
  <2>1. /\ Older(row.age, ProgressWindow) \in 0..(ProgressWindow + 1)
        /\ Older(row.anchor, Grace) \in Ages(Grace)
        /\ Older(client.activity, ProgressWindow) \in Ages(ProgressWindow)
        /\ Older(absentFor, Grace) \in Ages(Grace)
    <3>1. row.age \in Ages(ProgressWindow)
      BY DEF TypeOK, Ages, Unset
    <3> QED BY <3>1, OlderType DEF TypeOK
  <2> QED BY <1>10, <2>1 DEF Tick, TypeOK
<1>11. ASSUME UNCHANGED vars PROVE TypeOK'
  BY <1>11 DEF TypeOK, vars
<1> QED
  BY <1>1, <1>2, <1>3, <1>4, <1>5, <1>6, <1>7, <1>8, <1>9, <1>10, <1>11, <1>12, <1>13 DEF Next, Poll

(* The poll, the importer, the grabs, the client and the clock keep every type, for       *)
(* every window.                                                             *)
THEOREM TrackingTypeCorrect == Spec => []TypeOK
<1> QED BY InitType, StepType, PTL DEF Spec

----------------------------------------------------------------------------
(* Why the grace is honoured: the anchor of an inspected client_missing row is never    *)
(* older than the run of absent polls it stands in.                             *)
AnchorCovered ==
  row.status = "client_missing" /\ ~row.pending /\ row.anchor # Unset => absentFor >= row.anchor
AnchorInv == AnchorMeansMissing /\ AnchorCovered

(* A fresh row has no anchor. *)
LEMMA InitAnchor == Init => AnchorInv
BY DEF Init, Fresh, AnchorInv, AnchorMeansMissing, AnchorCovered, Unset

(* Every step keeps the anchor where it belongs, and covered.                       *)
LEMMA StepAnchor == TypeOK /\ AnchorInv /\ [Next]_vars => AnchorInv'
<1> SUFFICES ASSUME TypeOK, AnchorInv, [Next]_vars PROVE AnchorInv'
  OBVIOUS
<1> USE WindowsAssumption DEF AnchorInv, AnchorMeansMissing, AnchorCovered
<1>1. ASSUME PollRejects \/ PollRestarts PROVE AnchorInv'
  BY <1>1 DEF TypeOK, PollRejects, PollRestarts, Fails
<1>2. ASSUME PollWaits PROVE AnchorInv'
  BY <1>2 DEF TypeOK, PollWaits, Fails, Held, Seen
<1>3. ASSUME PollInspects PROVE AnchorInv'
  <2>1. CASE Fails("rejected")
    BY <2>1 DEF TypeOK, Fails
  <2>2. CASE row' = Validated
    BY <2>2 DEF TypeOK, Validated, Active
  <2>3. CASE row' = [row EXCEPT !.resume = Resumes]
    BY <1>3, <2>3 DEF TypeOK, PollInspects, Inspectable, Held
  <2>4. CASE RejectPersists
    BY <1>3, <2>4, PersistType DEF PollInspects, Inspectable, Held
  <2> QED BY <1>3, <2>1, <2>2, <2>3, <2>4 DEF PollInspects
<1>4. ASSUME PollPresent PROVE AnchorInv'
  <2>1. /\ client.raw \in Raw
        /\ _map_raw_state(client.raw) # "client_missing"
    BY MapType DEF TypeOK
  <2>2. CASE _map_raw_state(client.raw) = row.status
    BY <1>4, <2>1, <2>2 DEF TypeOK, PollPresent, Fails
  <2>3. CASE _map_raw_state(client.raw) # row.status
    <3>1. row'.status = _map_raw_state(client.raw)
      BY <1>4, <2>3 DEF TypeOK, PollPresent
    <3>2. CASE row.status = "client_missing"
      BY <1>4, <2>1, <2>3, <3>1, <3>2 DEF TypeOK, PollPresent
    <3>3. CASE row.status # "client_missing"
      <4>1. row.anchor = Unset
        BY <1>4, <3>3 DEF PollPresent, Active
      <4> QED BY <1>4, <2>1, <2>3, <3>1, <3>3, <4>1 DEF TypeOK, PollPresent
    <3> QED BY <3>2, <3>3
  <2> QED BY <2>2, <2>3
<1>5. ASSUME PollAbsent PROVE AnchorInv'
  <2>1. CASE row.anchor # Unset /\ row.anchor >= Grace
    <3>1. row'.status = "failed"
      BY <1>5, <2>1 DEF TypeOK, PollAbsent
    <3> QED BY <3>1
  <2>2. CASE row.anchor = Unset
    <3>1. row'.anchor = 0 /\ row'.status = "client_missing"
      BY <1>5, <2>2 DEF TypeOK, PollAbsent
    <3>2. absentFor' >= 0
      BY <1>5 DEF TypeOK, PollAbsent, Missed, Ages, Unset
    <3> QED BY <3>1, <3>2
  <2>3. CASE row.anchor # Unset /\ ~(row.anchor >= Grace)
    <3>1. row.status = "client_missing" /\ row'.pending = row.pending
      BY <1>5, <2>3 DEF TypeOK, PollAbsent, Completed, Active
    <3>2. row'.anchor = row.anchor /\ row'.status = "client_missing"
      BY <1>5, <2>3 DEF TypeOK, PollAbsent
    <3>3. row.pending \/ absentFor' = absentFor
      BY <1>5, <2>3, <3>1 DEF TypeOK, PollAbsent, Missed, Ages, Unset
    <3> QED BY <3>1, <3>2, <3>3
  <2> QED BY <2>1, <2>2, <2>3
<1>6. ASSUME PollCompleted PROVE AnchorInv'
  BY <1>6 DEF TypeOK, PollCompleted, Completed, Active
<1>7. ASSUME Imports PROVE AnchorInv'
  BY <1>7 DEF TypeOK, Imports, ImportMoves, Importable, Completed
<1>12. ASSUME ImportRejects PROVE AnchorInv'
  <2>1. row.anchor = Unset /\ row.status # "client_missing"
    BY <1>12 DEF ImportRejects, Importable, Completed
  <2>2. CASE Fails("rejected")
    BY <2>1, <2>2 DEF TypeOK, Fails
  <2>3. CASE RejectPersists
    BY <2>1, <2>3, PersistType
  <2> QED BY <1>12, <2>2, <2>3 DEF ImportRejects
<1>13. ASSUME RestartInterrupted \/ ValidationErrs PROVE AnchorInv'
  BY <1>13 DEF TypeOK, RestartInterrupted, ValidationErrs, Held
<1>8. ASSUME _reuse_terminal_row PROVE AnchorInv'
  BY <1>8 DEF _reuse_terminal_row, Fresh, Unset
<1>9. ASSUME ClientMoves PROVE AnchorInv'
  BY <1>9 DEF ClientMoves
<1>10. ASSUME Tick PROVE AnchorInv'
  <2>1. /\ row'.status = row.status /\ row'.pending = row.pending
        /\ row'.anchor = Older(row.anchor, Grace)
        /\ absentFor' = Older(absentFor, Grace)
    BY <1>10 DEF Tick, TypeOK
  <2> QED BY <2>1 DEF TypeOK, Older, Ages, Unset
<1>11. ASSUME UNCHANGED vars PROVE AnchorInv'
  BY <1>11 DEF vars
<1> QED
  BY <1>1, <1>2, <1>3, <1>4, <1>5, <1>6, <1>7, <1>8, <1>9, <1>10, <1>11, <1>12, <1>13 DEF Next, Poll

(* For every grace: an anchor is only ever found on a row that is missing or that failed  *)
(* for it, so no later disappearance is measured from an earlier one.              *)
THEOREM NoStaleAnchor == Spec => []AnchorMeansMissing
<1>1. Spec => []TypeOK
  BY TrackingTypeCorrect
<1>2. AnchorInv => AnchorMeansMissing
  BY DEF AnchorInv
<1> QED BY <1>1, <1>2, InitAnchor, StepAnchor, PTL DEF Spec

(* Only the absent poll writes the cause "absent", and it reads an expired anchor.        *)
LEMMA AbsenceTakesGrace ==
  ASSUME TypeOK, AnchorInv, [Next]_vars
  PROVE  FailsForAbsence /\ ~row.pending => absentFor >= Grace
<1> SUFFICES ASSUME FailsForAbsence, ~row.pending PROVE absentFor >= Grace
  OBVIOUS
<1> USE WindowsAssumption
<1>1. PollAbsent
  BY DEF Next, Poll, vars, FailsForAbsence, PollRejects, PollRestarts, PollWaits, PollInspects,
         PollPresent, PollCompleted, RestartInterrupted, ValidationErrs, Imports, ImportRejects, _reuse_terminal_row, ClientMoves, Tick, Fails
<1>2. row.anchor # Unset /\ row.anchor >= Grace /\ row.status \in Active
  BY <1>1 DEF PollAbsent, FailsForAbsence
<1>3. absentFor >= row.anchor
  BY <1>2 DEF AnchorInv, AnchorMeansMissing, AnchorCovered, Active
<1> QED BY <1>2, <1>3 DEF TypeOK, Ages, Unset

(* For every grace: an inspected row is failed for absence only after a whole grace window *)
(* of polls that found its torrent absent.                                    *)
THEOREM GraceIsHonoured == Spec => GraceHonoured
<1>1. Spec => []TypeOK
  BY TrackingTypeCorrect
<1>2. TypeOK /\ AnchorInv /\ [Next]_vars => [FailsForAbsence /\ ~row.pending => absentFor >= Grace]_vars
  BY AbsenceTakesGrace
<1> QED BY <1>1, <1>2, InitAnchor, StepAnchor, PTL DEF Spec, GraceHonoured

----------------------------------------------------------------------------
(* The heal reads the report it is judged by: the deadline of a stalled report has come,    *)
(* and a row whose status the report maps to is neither idle on purpose nor complete.       *)
LEMMA StalledIsDue ==
  ASSUME TypeOK, Stalled, client.raw = "meta" \/ _map_raw_state(client.raw) = row.status
  PROVE  /\ DeadlineHasCome
         /\ client.raw \notin _DELIBERATELY_IDLE_RAW_STATES \cup {"up", "error"}
<1> USE WindowsAssumption
<1>1. client.raw \in Raw /\ row.status \in StallEligible
  BY DEF TypeOK, Stalled
<1>2. CASE client.raw = "meta"
  BY <1>1, <1>2 DEF Stalled, DeadlineHasCome, _DELIBERATELY_IDLE_RAW_STATES
<1>3. CASE client.raw # "meta"
  <2>1. /\ _map_raw_state(client.raw) \in StallEligible
        /\ client.raw \notin _DELIBERATELY_IDLE_RAW_STATES
    BY <1>1, <1>3 DEF Stalled, _DELIBERATELY_IDLE_RAW_STATES
  <2>2. client.raw \in {"active", "unknown"} /\ _map_raw_state(client.raw) = "downloading"
    BY <1>1, <1>3, <2>1 DEF Raw, _map_raw_state, StallEligible, _DELIBERATELY_IDLE_RAW_STATES
  <2>3. CASE client.activity = Unset /\ ~client.progress /\ row.age >= MetadataWindow
    BY <2>1, <2>2, <2>3 DEF DeadlineHasCome, _DELIBERATELY_IDLE_RAW_STATES
  <2>4. CASE client.activity > ProgressWindow /\ row.age >= ProgressWindow
    <3>1. client.activity # Unset /\ client.activity >= ProgressWindow
      BY <2>4 DEF TypeOK, Ages, Unset
    <3> QED BY <2>1, <2>2, <2>4, <3>1 DEF DeadlineHasCome, _DELIBERATELY_IDLE_RAW_STATES
  <2> QED BY <1>3, <2>3, <2>4 DEF Stalled
<1> QED BY <1>2, <1>3

(* For all windows: the stall heal, which removes and blocklists, fires only when the deadline *)
(* the queue shows has come, and never on a torrent that is idle on purpose, complete or in    *)
(* error.                                                                    *)
THEOREM HealAlwaysHonest == Spec => HealIsHonest
<1> DEFINE Heals == cause # "stalled" /\ cause' = "stalled"
           Due == /\ DeadlineHasCome
                  /\ client.raw \notin _DELIBERATELY_IDLE_RAW_STATES \cup {"up", "error"}
<1>1. ASSUME TypeOK, [Next]_vars, Heals PROVE Due
  <2>1. PollWaits \/ PollPresent
    BY <1>1 DEF Next, Poll, vars, PollRejects, PollRestarts, PollInspects, PollAbsent, PollCompleted,
       RestartInterrupted, ValidationErrs, Imports, ImportRejects, _reuse_terminal_row, ClientMoves,
       Tick, Fails
  <2>2. Stalled /\ (client.raw = "meta" \/ _map_raw_state(client.raw) = row.status)
    BY <1>1, <2>1 DEF PollWaits, PollPresent
  <2> QED BY <1>1, <2>2, StalledIsDue
<1>2. TypeOK /\ [Next]_vars => [Heals => Due]_vars
  BY <1>1
<1> QED BY <1>2, TrackingTypeCorrect, PTL DEF Spec, HealIsHonest

(***************************************************************************)
(* The automatic search                                                     *)
(***************************************************************************)
(* The durable state is written by scope, a season's rows by episode.                   *)
ScopesOK ==
  /\ status = [s \in Scopes |-> status[s]]
  /\ download = [s \in Scopes |-> download[s]]
  /\ episode = [s \in Seasons |-> episode[s]]
  /\ \A s \in Seasons : episode[s] = [e \in Episodes |-> episode[s][e]]
  /\ known = [s \in Seasons |-> known[s]]
  /\ aired = [s \in Seasons |-> aired[s]]
  /\ \A s \in Seasons : aired[s] \subseteq Episodes

(* What the worker has in memory; its queue is a sequence, not empty while it is at a scope. *)
IsQueue(q) == q \in Seq({q[i] : i \in DOMAIN q})
CycleOK ==
  \/ cycle = Asleep
  \/ /\ cycle = [pc |-> cycle.pc, searched |-> cycle.searched, todo |-> cycle.todo,
                 target |-> cycle.target]
     /\ cycle.pc # "asleep" /\ IsQueue(cycle.todo)
     /\ cycle.todo = <<>> => cycle.pc \in {"collect", "scope"}

(* Every episode of a target the worker has taken note of has a row; a season that waits    *)
(* for its announcement has no target.                                             *)
TargetInv ==
  \A s \in Seasons : /\ known[s] \subseteq Rows(s)
                     /\ status[s] = "waiting_for_air_date" => known[s] = {}

(* Nothing the worker has in its queue waits for its announcement.                     *)
QueueInv ==
  cycle.pc \notin {"asleep", "collect"} =>
    \A i \in DOMAIN cycle.todo : /\ cycle.todo[i].scope \in Scopes
                                 /\ status[cycle.todo[i].scope] # "waiting_for_air_date"

(* On its way to call a season whole the worker holds the target it took note of.          *)
StageInv ==
  /\ cycle.pc = "target" => S \in Seasons
  /\ cycle.pc \in {"missing", "recheck", "complete"} => cycle.target = known[S]

(* What is left of a queue is a queue of what was in it.                                 *)
LEMMA QueueTail ==
  ASSUME NEW q, IsQueue(q), q # <<>>
  PROVE  /\ IsQueue(Tail(q)) /\ 1 \in DOMAIN q
         /\ \A i \in DOMAIN Tail(q) : \E j \in DOMAIN q : Tail(q)[i] = q[j]
<1> DEFINE Q == {q[i] : i \in DOMAIN q}
           t == Tail(q)
<1>1. q \in Seq(Q) /\ Len(q) \in Nat /\ DOMAIN q = 1..Len(q) /\ Len(q) # 0
  BY LenProperties, EmptySeq DEF IsQueue
<1>2. t \in Seq(Q) /\ Len(t) = Len(q) - 1 /\ \A i \in 1..Len(t) : t[i] = q[i + 1]
  BY <1>1
<1> HIDE DEF t
<1>3. Len(t) \in Nat /\ t \in [1..Len(t) -> Q]
  BY <1>2, LenProperties
<1>4. t \in [1..Len(t) -> {t[i] : i \in DOMAIN t}]
  BY <1>3
<1>5. IsQueue(t)
  BY <1>3, <1>4, SeqDef DEF IsQueue
<1>6. \A i \in DOMAIN t : i + 1 \in DOMAIN q /\ t[i] = q[i + 1]
  BY <1>1, <1>2, <1>3, SMTT(30)
<1> QED
  BY <1>1, <1>5, <1>6 DEF t

(* The queue a cycle begins with.                                               *)
LEMMA QueueBegins ==
  ASSUME NEW purged, NEW q \in _collect_due_scopes(purged)
  PROVE  /\ IsQueue(q)
         /\ \A i \in DOMAIN q : q[i].scope \in Scopes /\ status[q[i].scope] # "waiting_for_air_date"
<1> DEFINE due == list_due_for_search \ purged
           n == Cardinality(due)
           read(s) == [scope |-> s, status |-> status[s], attempts |-> search_attempts[s]]
<1>1. PICK sorted \in [1..n -> due] : q = [i \in 1..n |-> read(sorted[i])]
  BY DEF _collect_due_scopes
<1>2. n \in Nat
  <2>1. IsFiniteSet(due)
    BY AutoGrabAssumption, FS_Union, FS_Subset, FS_Difference DEF AutoGrabAssumption,
       list_due_for_search, Scopes
  <2> QED
    BY <2>1, FS_CardinalityType
<1> HIDE DEF n, read
<1>3. q \in [1..n -> {q[i] : i \in DOMAIN q}]
  BY <1>1
<1>4. IsQueue(q)
  BY <1>2, <1>3 DEF IsQueue
<1>5. ASSUME NEW i \in DOMAIN q
      PROVE  q[i].scope \in Scopes /\ status[q[i].scope] # "waiting_for_air_date"
  <2>1. i \in 1..n /\ sorted[i] \in due /\ q[i] = read(sorted[i])
    BY <1>1
  <2>2. q[i].scope = sorted[i]
    BY <2>1 DEF read
  <2> QED
    BY <2>1, <2>2 DEF list_due_for_search, Eager
<1> QED
  BY <1>4, <1>5

(* What a step makes of the worker's cycle, and with what it goes on.                    *)
CycleMoves ==
  \/ cycle' = cycle
  \/ cycle' = Asleep
  \/ cycle'.pc = "collect"
  \/ cycle'.pc = "scope" /\ \E purged : cycle'.todo \in _collect_due_scopes(purged)
  \/ cycle'.pc = "scope" /\ cycle.pc \notin {"asleep", "collect"} /\ cycle.todo # <<>>
     /\ cycle'.todo = Tail(cycle.todo)
  \/ /\ cycle.pc \notin {"asleep", "collect"} /\ cycle'.pc \notin {"asleep", "collect"}
     /\ cycle'.todo = cycle.todo
     /\ cycle'.pc = "target" => S \in Seasons
     /\ cycle'.pc = "missing" => RefreshTarget /\ cycle'.target = aired[S]
                                 /\ known' = [known EXCEPT ![S] = aired[S]]
     /\ cycle'.pc \in {"recheck", "complete"} =>
          cycle.pc \in {"missing", "recheck"} /\ cycle'.target = cycle.target /\ known' = known

(* Every action of the worker moves its cycle so; nobody else touches it.                  *)
LEMMA CycleStep ==
  ASSUME CycleOK, [SearchNext]_searchVars
  PROVE  CycleOK' /\ CycleMoves
<1> DEFINE Goal == CycleOK' /\ CycleMoves
           c == cycle
<1>1. ASSUME NEW p, NEW n, NEW q, NEW t, p # "asleep", IsQueue(q), q = <<>> => p \in {"collect", "scope"},
             cycle' = [pc |-> p, searched |-> n, todo |-> q, target |-> t]
      PROVE  CycleOK' /\ cycle'.pc = p /\ cycle'.todo = q /\ cycle'.target = t
  BY <1>1 DEF CycleOK
<1>2. ASSUME cycle.pc # "asleep"
      PROVE  /\ c = [pc |-> c.pc, searched |-> c.searched, todo |-> c.todo, target |-> c.target]
             /\ IsQueue(c.todo) /\ (c.todo = <<>> => c.pc \in {"collect", "scope"})
  BY <1>2 DEF CycleOK, Asleep
<1>3. ASSUME cycle' = Asleep PROVE Goal
  BY <1>3 DEF CycleOK, CycleMoves
<1>4. ASSUME cycle' = cycle PROVE Goal
  BY <1>4 DEF CycleOK, CycleMoves
<1>5. ASSUME cycle.pc \notin {"asleep", "collect"}, cycle.todo # <<>>,
             cycle' = [cycle EXCEPT !.pc = "scope", !.todo = Tail(@)]
      PROVE  Goal
  <2>1. cycle' = [pc |-> "scope", searched |-> c.searched, todo |-> Tail(c.todo), target |-> c.target]
    BY <1>2, <1>5
  <2>2. IsQueue(Tail(c.todo))
    BY <1>2, <1>5, QueueTail
  <2>3. CycleOK' /\ cycle'.pc = "scope" /\ cycle'.todo = Tail(c.todo)
    BY <1>1, <2>1, <2>2
  <2> QED
    BY <1>5, <2>3 DEF CycleMoves
<1>6. ASSUME cycle.pc \notin {"asleep", "collect"}, NEW p, NEW n, NEW t,
             cycle' = [pc |-> p, searched |-> n, todo |-> c.todo, target |-> t],
             p \notin {"asleep", "collect", "missing"}, p = "scope" \/ cycle.todo # <<>>,
             p = "target" => S \in Seasons,
             p \in {"recheck", "complete"} =>
               cycle.pc \in {"missing", "recheck"} /\ t = cycle.target /\ known' = known
      PROVE  Goal
  <2>1. CycleOK' /\ cycle'.pc = p /\ cycle'.todo = c.todo /\ cycle'.target = t
    BY <1>1, <1>2, <1>6
  <2> QED
    BY <1>6, <2>1 DEF CycleMoves
<1>7. ASSUME cycle.pc \notin {"asleep", "collect"}, NEW p, cycle' = [cycle EXCEPT !.pc = p],
             p \notin {"asleep", "collect", "missing", "scope", "target"}, cycle.pc # "scope",
             p \in {"recheck", "complete"} =>
               cycle.pc \in {"missing", "recheck"} /\ known' = known
      PROVE  Goal
  <2>1. cycle' = [pc |-> p, searched |-> c.searched, todo |-> c.todo, target |-> c.target]
    BY <1>2, <1>7
  <2> QED
    BY <1>2, <1>6, <1>7, <2>1
<1>10. CASE Prepare
  <2>1. cycle' = [pc |-> "collect", searched |-> 0, todo |-> <<>>, target |-> {}]
    BY <1>10 DEF Prepare
  <2>2. IsQueue(<<>>)
    BY DEF IsQueue
  <2> QED
    BY <1>1, <2>1, <2>2 DEF CycleMoves
<1>11. CASE Collect
  <2>1. cycle.pc = "collect"
    BY <1>11 DEF Collect, Worker
  <2>2. PICK purged : \E q \in _collect_due_scopes(purged) :
          cycle' = [cycle EXCEPT !.pc = "scope", !.todo = q]
    BY <1>11 DEF Collect
  <2>3. PICK q \in _collect_due_scopes(purged) :
          cycle' = [cycle EXCEPT !.pc = "scope", !.todo = q]
    BY <2>2
  <2>4. cycle' = [pc |-> "scope", searched |-> c.searched, todo |-> q, target |-> c.target]
    BY <1>2, <2>1, <2>3
  <2>5. IsQueue(q)
    BY <2>3, QueueBegins
  <2>6. CycleOK' /\ cycle'.pc = "scope" /\ cycle'.todo = q
    BY <1>1, <2>4, <2>5
  <2> QED
    BY <2>3, <2>6 DEF CycleMoves
<1>12. CASE Sleep \/ SearchRaises \/ Restart
  BY <1>3, <1>12 DEF Sleep, SearchRaises, Restart, Slept
<1>13. CASE SkipCooling \/ SkipActive
  BY <1>5, <1>13 DEF SkipCooling, SkipActive, Next_scope, Worker, Done
<1>14. CASE Search
  <2>1. cycle.pc = "scope" /\ cycle.todo # <<>>
    BY <1>14 DEF Search, Next_scope, Worker
  <2>2. PICK found : \E p \in {"grab", "target", "park"} :
          /\ p = "target" => S \in Seasons
          /\ cycle' = [cycle EXCEPT !.searched = @ + 1, !.target = found, !.pc = p]
    <3> DEFINE p(found) == CASE found # {} -> "grab"
                             [] found = {} /\ Whole(S) -> "target"
                             [] found = {} /\ ~Whole(S) -> "park"
    <3>1. \A found : /\ p(found) \in {"grab", "target", "park"}
                     /\ p(found) = "target" => S \in Seasons
      BY DEF Whole
    <3>2. \E found : cycle' = [cycle EXCEPT !.searched = @ + 1, !.target = found, !.pc = p(found)]
      BY <1>14 DEF Search
    <3> HIDE DEF p
    <3> QED
      BY <3>1, <3>2
  <2>3. PICK p \in {"grab", "target", "park"} :
          /\ p = "target" => S \in Seasons
          /\ cycle' = [cycle EXCEPT !.searched = @ + 1, !.target = found, !.pc = p]
    BY <2>2
  <2>4. cycle' = [pc |-> p, searched |-> c.searched + 1, todo |-> c.todo, target |-> found]
    BY <1>2, <2>1, <2>3
  <2> QED
    BY <1>6, <2>1, <2>3, <2>4
<1>15. ASSUME cycle.pc \in {"grab", "fallback_grab"}, Refused \/ GrabFails \/ Unusable
       PROVE  Goal
  <2>1. cycle.todo # <<>>
    BY <1>2, <1>15
  <2> QED
    BY <1>5, <1>7, <1>15, <2>1 DEF Refused, GrabFails, Unusable, Done, Goto
<1>16. CASE Grab
  <2>1. cycle.pc = "grab" /\ cycle.todo # <<>>
    BY <1>2, <1>16 DEF Grab, Worker
  <2>2. CASE \E r \in cycle.target : Grabbed(r, "scope")
    BY <1>5, <2>1, <2>2 DEF Grabbed
  <2> QED
    BY <1>15, <1>16, <2>1, <2>2 DEF Grab
<1>17. CASE FallbackGrab
  <2>1. cycle.pc = "fallback_grab" /\ cycle.todo # <<>>
    BY <1>2, <1>17 DEF FallbackGrab, Worker
  <2>2. ASSUME NEW r, Grabbed(r, "mark") PROVE Goal
    <3>1. cycle' = [cycle EXCEPT !.pc = "mark", !.target = r]
      BY <2>2 DEF Grabbed
    <3>2. cycle' = [pc |-> "mark", searched |-> c.searched, todo |-> c.todo, target |-> r]
      BY <1>2, <2>1, <3>1
    <3> QED
      BY <1>6, <2>1, <3>2
  <2> QED
    BY <1>15, <1>17, <2>1, <2>2 DEF FallbackGrab
<1>18. CASE RefreshTarget
  <2>1. cycle.pc = "target" /\ cycle.todo # <<>>
    BY <1>2, <1>18 DEF RefreshTarget, Worker
  <2>2. CASE /\ known' = [known EXCEPT ![S] = aired[S]]
             /\ cycle' = [cycle EXCEPT !.pc = "missing", !.target = aired[S]]
    <3> DEFINE t == aired[S]
    <3>1. cycle' = [cycle EXCEPT !.pc = "missing", !.target = t]
      BY <2>2
    <3> HIDE DEF t
    <3>2. cycle' = [pc |-> "missing", searched |-> c.searched, todo |-> c.todo, target |-> t]
      BY <1>2, <2>1, <3>1
    <3>3. CycleOK' /\ cycle'.pc = "missing" /\ cycle'.todo = c.todo /\ cycle'.target = t
      BY <1>1, <1>2, <2>1, <3>2
    <3> QED
      BY <1>18, <2>1, <2>2, <3>3 DEF CycleMoves, t
  <2> QED
    BY <1>7, <1>18, <2>1, <2>2 DEF RefreshTarget, Goto
<1>19. CASE _attempt_episode_fallback
  <2>1. cycle.pc = "missing" /\ cycle.todo # <<>> /\ known' = known
    BY <1>2, <1>19 DEF _attempt_episode_fallback, Worker, history
  <2>2. CASE \E t : cycle' = [cycle EXCEPT !.pc = "fallback", !.target = t]
    <3>1. PICK t : cycle' = [cycle EXCEPT !.pc = "fallback", !.target = t]
      BY <2>2
    <3>2. cycle' = [pc |-> "fallback", searched |-> c.searched, todo |-> c.todo, target |-> t]
      BY <1>2, <2>1, <3>1
    <3> QED
      BY <1>6, <2>1, <3>2
  <2>3. \/ Goto("park") \/ Goto("recheck") \/ Done
        \/ \E t : cycle' = [cycle EXCEPT !.pc = "fallback", !.target = t]
    <3> DEFINE missing == compute_missing(S, cycle.target)
    <3>1. \/ missing = {} /\ (Goto("park") \/ Goto("recheck"))
          \/ missing # {} /\ (Done \/ cycle' = [cycle EXCEPT !.pc = "fallback", !.target = missing])
      BY <1>19 DEF _attempt_episode_fallback
    <3> QED
      BY <3>1
  <2> QED
    BY <1>5, <1>7, <2>1, <2>2, <2>3 DEF Goto, Done
<1>20. CASE RecheckActive
  <2>1. cycle.pc = "recheck" /\ known' = known
    BY <1>20 DEF RecheckActive, Worker, history
  <2> QED
    BY <1>7, <1>20, <2>1 DEF RecheckActive, Goto
<1>21. CASE FallbackSearch
  <2>1. cycle.pc = "fallback" /\ cycle.todo # <<>>
    BY <1>2, <1>21 DEF FallbackSearch, Worker
  <2>2. PICK found : cycle' = [cycle EXCEPT !.searched = @ + 1, !.target = found,
                                 !.pc = IF found = {} THEN "park" ELSE "fallback_grab"]
    BY <1>21 DEF FallbackSearch
  <2> DEFINE p == IF found = {} THEN "park" ELSE "fallback_grab"
  <2>3. p \in {"park", "fallback_grab"} /\ cycle' = [cycle EXCEPT !.searched = @ + 1, !.target = found, !.pc = p]
    BY <2>2
  <2> HIDE DEF p
  <2>4. cycle' = [pc |-> p, searched |-> c.searched + 1, todo |-> c.todo, target |-> found]
    BY <1>2, <2>1, <2>3
  <2> QED
    BY <1>6, <2>1, <2>3, <2>4
<1>22. CASE mark_completed_if_in \/ mark_grabbed \/ _park
  <2>1. cycle.pc \in {"complete", "mark", "park"}
    BY <1>22 DEF mark_completed_if_in, mark_grabbed, _park, Worker
  <2> QED
    BY <1>2, <1>5, <1>22, <2>1
       DEF mark_completed_if_in, mark_grabbed, _park, Done
<1>23. CASE \E s \in Scopes : \/ ManualGrab(s) \/ ManualPark(s)
                                     \/ DownloadFails(s) \/ Import(s) \/ Cancel(s)
  BY <1>4, <1>23 DEF ManualGrab, ManualPark, DownloadFails, Import,
     Cancel, Others
<1>24. CASE \E s \in Seasons : TmdbChanges(s)
  BY <1>4, <1>24 DEF TmdbChanges, Others
<1>25. CASE UNCHANGED searchVars
  BY <1>4, <1>25 DEF searchVars
<1> QED
  BY <1>10, <1>11, <1>12, <1>13, <1>14, <1>16, <1>17, <1>18, <1>19, <1>20, <1>21, <1>22, <1>23, <1>24,
     <1>25 DEF SearchNext, run_grab_cycle

(* No step announces a season's wait, and a target grows only with the rows for it.           *)
DurableMoves ==
  /\ ScopesOK'
  /\ \A s \in Scopes : status'[s] = "waiting_for_air_date" => status[s] = "waiting_for_air_date"
  /\ \A s \in Seasons :
       /\ known[s] \subseteq Rows(s) => known'[s] \subseteq Rows(s)'
       /\ known'[s] # known[s] => \/ cycle.pc = "asleep" /\ status[s] = "completed"
                                  \/ cycle.pc = "target" /\ s = S

(* Steps that write no row, no target and no status.                               *)
LEMMA DurableQuiet ==
  ASSUME ScopesOK, UNCHANGED <<status, download, episode, known, aired>>
  PROVE  DurableMoves
BY DEF ScopesOK, DurableMoves, Rows

(* The rows of one season are written anew, none taken away.                           *)
LEMMA RowsGrow ==
  ASSUME ScopesOK, NEW s \in Seasons, NEW f, episode' = [episode EXCEPT ![s] = f],
         f = [e \in Episodes |-> f[e]], \A e \in Episodes : f[e] = "none" => episode[s][e] = "none",
         known' = known
  PROVE  /\ episode' = [t \in Seasons |-> episode'[t]]
         /\ \A t \in Seasons : episode'[t] = [e \in Episodes |-> episode'[t][e]]
         /\ \A t \in Seasons : known[t] \subseteq Rows(t) => known'[t] \subseteq Rows(t)'
<1>1. episode' = [t \in Seasons |-> episode'[t]] /\ episode'[s] = f
      /\ \A t \in Seasons \ {s} : episode'[t] = episode[t]
  BY DEF ScopesOK
<1>2. \A t \in Seasons : episode'[t] = [e \in Episodes |-> episode'[t][e]]
  BY <1>1 DEF ScopesOK
<1> QED
  BY <1>1, <1>2 DEF Rows

(* A target has its rows once upsert_target has seen it.                               *)
LEMMA TargetHasRows ==
  ASSUME NEW s, NEW target \in SUBSET Episodes
  PROVE  /\ upsert_target(s, target) = [e \in Episodes |-> upsert_target(s, target)[e]]
         /\ \A e \in target : upsert_target(s, target)[e] # "none"
BY DEF upsert_target

(* The passes before the searches.                                              *)
LEMMA PrepareMoves ==
  ASSUME ScopesOK, Prepare
  PROVE  DurableMoves
<1> DEFINE rows(s) == reconcile_airing(s).rows
           checked(x) == {s \in x : status[s] = "completed" /\ Whole(s)}
           woken(x) == {s \in x : status[s] = "waiting_for_air_date" /\ aired[s] # {}}
           rearmed(x) == {s \in checked(x) : reconcile_airing(s).missing # {}}
           to(x, s) == CASE s \in rearmed(x) -> "searching"
                         [] s \in woken(x) -> wake_waiting_for_air_date(s)
                         [] OTHER -> status[s]
<1>1. PICK x \in SUBSET Seasons :
        /\ status' = [s \in Scopes |-> to(x, s)]
        /\ episode' = [s \in Seasons |-> IF s \in checked(x) THEN rows(s) ELSE episode[s]]
        /\ known' = [s \in Seasons |-> IF s \in checked(x) THEN aired[s] ELSE known[s]]
        /\ UNCHANGED <<download, aired>> /\ cycle.pc = "asleep"
  BY DEF Prepare
<1>2. \A s \in Scopes : to(x, s) = "waiting_for_air_date" => status[s] = "waiting_for_air_date"
  BY DEF wake_waiting_for_air_date
<1>3. ASSUME NEW s \in Seasons
      PROVE  /\ rows(s) = [e \in Episodes |-> rows(s)[e]]
             /\ \A e \in aired[s] : e \in Episodes /\ rows(s)[e] # "none"
  <2>1. aired[s] \in SUBSET Episodes
    BY DEF ScopesOK
  <2> DEFINE target == upsert_target(s, aired[s])
  <2>2. \E adopted : rows(s) = [e \in Episodes |-> IF e \in adopted THEN "imported" ELSE target[e]]
    BY DEF reconcile_airing
  <2>3. \A e \in aired[s] : target[e] # "none"
    BY <2>1, TargetHasRows
  <2> HIDE DEF target, rows
  <2> QED
    BY <2>1, <2>2, <2>3
<1> HIDE DEF rows, to, checked
<1>4. ScopesOK'
  <2>1. \A s \in Seasons : episode'[s] = [e \in Episodes |-> episode'[s][e]]
    BY <1>1, <1>3 DEF ScopesOK
  <2> QED
    BY <1>1, <2>1 DEF ScopesOK
<1>5. ASSUME NEW s \in Seasons
      PROVE  /\ known[s] \subseteq Rows(s) => known'[s] \subseteq Rows(s)'
             /\ known'[s] # known[s] => cycle.pc = "asleep" /\ status[s] = "completed"
  <2>1. CASE s \in checked(x)
    <3>1. episode'[s] = rows(s) /\ known'[s] = aired[s] /\ status[s] = "completed"
      BY <1>1, <2>1 DEF checked
    <3> QED
      BY <1>1, <1>3, <3>1 DEF Rows
  <2>2. CASE s \notin checked(x)
    BY <1>1, <2>2 DEF Rows
  <2> QED
    BY <2>1, <2>2
<1> QED
  BY <1>1, <1>2, <1>4, <1>5 DEF DurableMoves

(* The scope of one step gets a status that is no wait, perhaps a download.                 *)
LEMMA ScopeMoves ==
  ASSUME ScopesOK, NEW s, NEW to, to # "waiting_for_air_date", NEW d,
         status' = status \/ status' = [status EXCEPT ![s] = to],
         download' = download \/ download' = [download EXCEPT ![s] = d],
         UNCHANGED <<episode, known, aired>>
  PROVE  DurableMoves
BY DEF ScopesOK, DurableMoves, Rows

(* The worker's steps.                                                       *)
LEMMA WorkerMoves ==
  ASSUME ScopesOK, run_grab_cycle
  PROVE  DurableMoves
<1>1. CASE Prepare
  BY <1>1, PrepareMoves
<1>2. CASE \/ Collect \/ Sleep \/ SkipCooling \/ SkipActive \/ Search
           \/ SearchRaises \/ _attempt_episode_fallback \/ RecheckActive
           \/ FallbackSearch
  <2>1. UNCHANGED <<status, download, episode, known, aired>>
    BY <1>2 DEF Collect, Sleep, SkipCooling, SkipActive, Search,
       SearchRaises, _attempt_episode_fallback, RecheckActive, FallbackSearch,
       Next_scope, Worker, history
  <2> QED
    BY <2>1, DurableQuiet
<1>3. CASE Grab \/ FallbackGrab
  <2>1. UNCHANGED <<episode, known, aired>>
    BY <1>3 DEF Grab, FallbackGrab, Grabbed, Refused, GrabFails,
       Unusable, Worker, history
  <2>2. \/ UNCHANGED <<status, download>>
        \/ \E r, pc : Grabbed(r, pc)
    BY <1>3 DEF Grab, FallbackGrab, Refused, GrabFails, Unusable
  <2>3. \/ UNCHANGED <<status, download>>
        \/ \E d : /\ status' = [status EXCEPT ![S] = "downloading"]
                   /\ download' = [download EXCEPT ![S] = d]
    BY <2>2 DEF Grabbed
  <2> QED
    BY <2>1, <2>3, DurableQuiet, ScopeMoves
<1>4. CASE RefreshTarget
  <2>1. CASE UNCHANGED <<episode, known>>
    BY <1>4, <2>1, DurableQuiet DEF RefreshTarget, Worker
  <2>2. CASE /\ episode' = [episode EXCEPT ![S] = upsert_target(S, aired[S])]
             /\ known' = [known EXCEPT ![S] = aired[S]]
    <3> DEFINE x == S
               f == upsert_target(x, aired[x])
    <3>1. cycle.pc = "target" /\ UNCHANGED <<status, download, aired>>
      BY <1>4 DEF RefreshTarget, Worker
    <3>2. ASSUME x \in Seasons
          PROVE  f = [e \in Episodes |-> f[e]] /\ aired[x] \subseteq Episodes /\ \A e \in aired[x] : f[e] # "none"
      BY <3>2, TargetHasRows DEF ScopesOK
    <3>3. episode' = [episode EXCEPT ![x] = f] /\ known' = [known EXCEPT ![x] = aired[x]]
      BY <2>2
    <3>4. \A s \in Seasons : s = x \/ (known'[s] = known[s] /\ episode'[s] = episode[s])
      BY <3>3 DEF ScopesOK
    <3>5. x \in Seasons => known'[x] = aired[x] /\ episode'[x] = f
      BY <3>3 DEF ScopesOK
    <3> HIDE DEF f
    <3>6. ScopesOK'
      <4>1. \A s \in Seasons : episode'[s] = [e \in Episodes |-> episode'[s][e]]
        BY <3>2, <3>4, <3>5 DEF ScopesOK
      <4> QED
        BY <3>1, <3>3, <4>1 DEF ScopesOK
    <3> QED
      BY <3>1, <3>2, <3>4, <3>5, <3>6 DEF DurableMoves, Rows
  <2> QED
    BY <1>4, <2>1, <2>2 DEF RefreshTarget, history
<1>5. CASE mark_completed_if_in
  BY <1>5, ScopeMoves DEF mark_completed_if_in, Worker
<1>6. CASE mark_grabbed
  <2> DEFINE x == S
             f == [e \in Episodes |-> IF e \in cycle.target /\ episode[x][e] # "imported" THEN "grabbed"
                                      ELSE episode[x][e]]
  <2>1. episode' = [episode EXCEPT ![x] = f] /\ UNCHANGED <<status, download, known, aired>>
    BY <1>6 DEF mark_grabbed, Worker, history
  <2>2. f = [e \in Episodes |-> f[e]] /\ \A e \in Episodes : f[e] = "none" => episode[x][e] = "none"
    OBVIOUS
  <2> HIDE DEF f
  <2>3. CASE x \in Seasons
    <3>1. /\ episode' = [t \in Seasons |-> episode'[t]]
          /\ \A t \in Seasons : episode'[t] = [e \in Episodes |-> episode'[t][e]]
          /\ \A t \in Seasons : known[t] \subseteq Rows(t) => known'[t] \subseteq Rows(t)'
      BY <2>1, <2>2, <2>3, RowsGrow
    <3>2. ScopesOK'
      BY <2>1, <3>1 DEF ScopesOK
    <3> QED
      BY <2>1, <3>1, <3>2 DEF DurableMoves
  <2>4. CASE x \notin Seasons
    BY <2>1, <2>4, DurableQuiet DEF ScopesOK
  <2> QED
    BY <2>3, <2>4
<1>7. CASE _park
  BY <1>7, ScopeMoves DEF _park, Worker, history
<1> QED
  BY <1>1, <1>2, <1>3, <1>4, <1>5, <1>6, <1>7 DEF run_grab_cycle

(* Everybody else's.                                                          *)
LEMMA OthersMove ==
  ASSUME ScopesOK, SearchNext, ~run_grab_cycle
  PROVE  DurableMoves
<1>1. ASSUME NEW s, ManualGrab(s) PROVE DurableMoves
  <2>1. \E d : download' = [download EXCEPT ![s] = d]
    BY <1>1 DEF ManualGrab
  <2>2. status' = [status EXCEPT ![s] = "downloading"] /\ UNCHANGED <<episode, known, aired>>
    BY <1>1 DEF ManualGrab, history
  <2> QED
    BY <2>1, <2>2, ScopeMoves
<1>2. ASSUME NEW s, ManualPark(s) \/ Cancel(s) PROVE DurableMoves
  <2>1. \E to, d : /\ to # "waiting_for_air_date" /\ status' = [status EXCEPT ![s] = to]
                   /\ download' = download \/ download' = [download EXCEPT ![s] = d]
    BY <1>2 DEF ManualPark, Cancel
  <2>2. UNCHANGED <<episode, known, aired>>
    BY <1>2 DEF ManualPark, Cancel, history
  <2> QED
    BY <2>1, <2>2, ScopeMoves
<1>3. ASSUME NEW s \in Scopes, DownloadFails(s) PROVE DurableMoves
  <2> DEFINE f == [e \in Episodes |-> IF episode[s][e] = "grabbed" /\ e \in download[s].episodes THEN "dead"
                                      ELSE episode[s][e]]
             to == IF status[s] = "downloading" THEN "searching" ELSE status[s]
  <2>1. /\ episode' = episode \/ (s \notin Movies /\ episode' = [episode EXCEPT ![s] = f])
        /\ status' = [status EXCEPT ![s] = to]
        /\ download' = [download EXCEPT ![s] = None] /\ UNCHANGED <<known, aired>>
    BY <1>3 DEF DownloadFails, history
  <2>2. to = "waiting_for_air_date" => status[s] = "waiting_for_air_date"
    OBVIOUS
  <2>3. f = [e \in Episodes |-> f[e]] /\ \A e \in Episodes : f[e] = "none" => episode[s][e] = "none"
    OBVIOUS
  <2> HIDE DEF f, to
  <2>4. \A t \in Scopes : status'[t] = "waiting_for_air_date" => status[t] = "waiting_for_air_date"
    BY <2>1, <2>2 DEF ScopesOK
  <2>5. /\ episode' = [t \in Seasons |-> episode'[t]]
        /\ \A t \in Seasons : episode'[t] = [e \in Episodes |-> episode'[t][e]]
        /\ \A t \in Seasons : known[t] \subseteq Rows(t) => known'[t] \subseteq Rows(t)'
    <3>1. CASE episode' = episode
      BY <2>1, <3>1 DEF ScopesOK, Rows
    <3>2. CASE s \notin Movies /\ episode' = [episode EXCEPT ![s] = f]
      <4>1. s \in Seasons
        BY <3>2 DEF Scopes
      <4> QED
        BY <2>1, <2>3, <3>2, <4>1, RowsGrow
    <3> QED
      BY <2>1, <3>1, <3>2
  <2>6. ScopesOK'
    BY <2>1, <2>5 DEF ScopesOK
  <2> QED
    BY <2>1, <2>4, <2>5, <2>6 DEF DurableMoves
<1>4. ASSUME NEW s \in Scopes, Import(s) PROVE DurableMoves
  <2>1. download' = [download EXCEPT ![s] = None] /\ UNCHANGED <<known, aired>>
    BY <1>4 DEF Import, history
  <2>2. CASE s \in Movies
    <3>1. status' = [status EXCEPT ![s] = "completed"] /\ UNCHANGED episode
      BY <1>4, <2>2 DEF Import
    <3> QED
      BY <2>1, <3>1, ScopeMoves
  <2>3. CASE s \notin Movies
    <3>1. PICK files \in SUBSET Episodes : apply_import(s, files)
      BY <1>4, <2>3 DEF Import
    <3> DEFINE f == ImportedRows(s, files)
    <3>2. episode' = [episode EXCEPT ![s] = f]
          /\ \E to \in {"completed", "searching"} : status' = [status EXCEPT ![s] = to]
      BY <3>1 DEF apply_import
    <3>3. f = [e \in Episodes |-> f[e]] /\ \A e \in Episodes : f[e] = "none" => episode[s][e] = "none"
      BY DEF ImportedRows
    <3>4. s \in Seasons
      BY <2>3 DEF Scopes
    <3> HIDE DEF f
    <3>5. \A t \in Scopes : status'[t] = "waiting_for_air_date" => status[t] = "waiting_for_air_date"
      BY <3>2 DEF ScopesOK
    <3>6. /\ episode' = [t \in Seasons |-> episode'[t]]
          /\ \A t \in Seasons : episode'[t] = [e \in Episodes |-> episode'[t][e]]
          /\ \A t \in Seasons : known[t] \subseteq Rows(t) => known'[t] \subseteq Rows(t)'
      BY <2>1, <3>2, <3>3, <3>4, RowsGrow
    <3>7. ScopesOK'
      BY <2>1, <3>2, <3>6 DEF ScopesOK
    <3> QED
      BY <2>1, <3>5, <3>6, <3>7 DEF DurableMoves
  <2> QED
    BY <2>2, <2>3
<1>5. ASSUME NEW s \in Seasons, TmdbChanges(s) PROVE DurableMoves
  <2>1. PICK e \in Episodes :
          aired' = [aired EXCEPT ![s] = IF e \in @ THEN @ \ {e} ELSE @ \cup {e}]
    BY <1>5 DEF TmdbChanges
  <2>2. UNCHANGED <<status, download, episode, known>>
    BY <1>5 DEF TmdbChanges, history
  <2>3. aired' = [t \in Seasons |-> aired'[t]] /\ \A t \in Seasons : aired'[t] \subseteq Episodes
    BY <2>1 DEF ScopesOK
  <2>4. ScopesOK'
    BY <2>2, <2>3 DEF ScopesOK
  <2> QED
    BY <2>2, <2>4 DEF DurableMoves, Rows
<1>6. CASE Restart
  BY <1>6, DurableQuiet DEF Restart, durable, history
<1> QED
  BY <1>1, <1>2, <1>3, <1>4, <1>5, <1>6 DEF SearchNext

(* The types and the three invariants together.                                       *)
WorkerInv == ScopesOK /\ CycleOK /\ TargetInv /\ QueueInv /\ StageInv

(* At the start the worker is asleep and has taken note of no target.                     *)
LEMMA WorkerInit == SearchInit => WorkerInv
<1> SUFFICES ASSUME SearchInit PROVE WorkerInv
  OBVIOUS
<1>1. PICK begin \in [Seasons -> {"searching", "waiting_for_air_date", "completed"}],
           x \in [Seasons -> SUBSET Episodes] :
        /\ status = [s \in Scopes |-> IF s \in Seasons THEN begin[s] ELSE "searching"]
        /\ aired = [s \in Seasons |-> IF begin[s] = "waiting_for_air_date" THEN {} ELSE x[s]]
  BY ZenonT(60) DEF SearchInit
<1>2. \A s \in Seasons : aired[s] \subseteq Episodes
  BY <1>1
<1>3. /\ status = [s \in Scopes |-> status[s]] /\ aired = [s \in Seasons |-> aired[s]]
  BY <1>1
<1>4. ScopesOK
  BY <1>2, <1>3 DEF ScopesOK, SearchInit
<1>5. cycle.pc = "asleep" /\ CycleOK
  BY DEF SearchInit, Asleep, CycleOK
<1>6. TargetInv
  BY DEF SearchInit, TargetInv
<1> QED
  BY <1>4, <1>5, <1>6 DEF WorkerInv, QueueInv, StageInv

(* A step keeps them: it moves the cycle and the durable state as the two lemmas say.        *)
LEMMA WorkerNext ==
  ASSUME WorkerInv, [SearchNext]_searchVars
  PROVE  WorkerInv' /\ DurableMoves
<1>0. ScopesOK /\ CycleOK /\ TargetInv /\ QueueInv /\ StageInv
  BY DEF WorkerInv
<1>1. CycleOK' /\ CycleMoves
  BY <1>0, CycleStep
<1>2. DurableMoves
  <2>1. CASE UNCHANGED searchVars
    BY <1>0, <2>1, DurableQuiet DEF searchVars, durable
  <2> QED
    BY <1>0, <2>1, WorkerMoves, OthersMove
<1>3. TargetInv'
  <2> SUFFICES ASSUME NEW s \in Seasons
               PROVE  /\ known'[s] \subseteq Rows(s)'
                      /\ status'[s] = "waiting_for_air_date" => known'[s] = {}
    BY DEF TargetInv
  <2>1. known'[s] \subseteq Rows(s)'
    BY <1>0, <1>2 DEF TargetInv, DurableMoves
  <2>2. ASSUME status'[s] = "waiting_for_air_date" PROVE known'[s] = {}
    <3>1. s \in Scopes
      BY DEF Scopes
    <3>2. status[s] = "waiting_for_air_date" /\ known[s] = {}
      BY <1>0, <1>2, <2>2, <3>1 DEF DurableMoves, TargetInv
    <3>3. CASE cycle.pc = "target" /\ s = S
      <4>1. cycle # Asleep /\ cycle.todo # <<>> /\ IsQueue(cycle.todo)
        BY <1>0, <3>3 DEF CycleOK, Asleep
      <4>2. 1 \in DOMAIN cycle.todo
        BY <4>1, QueueTail
      <4> QED
        BY <1>0, <3>2, <3>3, <4>2 DEF QueueInv, S, Cur
    <3> QED
      BY <1>2, <3>2, <3>3 DEF DurableMoves
  <2> QED
    BY <2>1, <2>2
<1>4. QueueInv'
  <2>1. ASSUME cycle.pc \notin {"asleep", "collect"}, NEW i \in DOMAIN cycle.todo
        PROVE  /\ cycle.todo[i].scope \in Scopes
               /\ status'[cycle.todo[i].scope] # "waiting_for_air_date"
    BY <1>0, <1>2, <2>1 DEF QueueInv, DurableMoves
  <2>2. CASE cycle'.pc = "asleep" \/ cycle'.pc = "collect"
    BY <2>2 DEF QueueInv
  <2>3. CASE cycle' = Asleep
    BY <2>2, <2>3 DEF Asleep
  <2>4. CASE cycle' = cycle
    BY <2>1, <2>4 DEF QueueInv
  <2>5. CASE cycle'.pc = "scope" /\ \E purged : cycle'.todo \in _collect_due_scopes(purged)
    <3>1. \A i \in DOMAIN cycle'.todo :
             cycle'.todo[i].scope \in Scopes /\ status[cycle'.todo[i].scope] # "waiting_for_air_date"
      BY <2>5, QueueBegins
    <3> QED
      BY <1>2, <3>1 DEF QueueInv, DurableMoves
  <2>6. CASE /\ cycle'.pc = "scope" /\ cycle.pc \notin {"asleep", "collect"} /\ cycle.todo # <<>>
             /\ cycle'.todo = Tail(cycle.todo)
    <3>1. IsQueue(cycle.todo)
      BY <1>0, <2>6 DEF CycleOK, Asleep
    <3>2. \A i \in DOMAIN cycle'.todo : \E j \in DOMAIN cycle.todo : cycle'.todo[i] = cycle.todo[j]
      BY <2>6, <3>1, QueueTail
    <3> QED
      BY <2>1, <2>6, <3>2 DEF QueueInv
  <2>7. CASE cycle.pc \notin {"asleep", "collect"} /\ cycle'.todo = cycle.todo
    BY <2>1, <2>7 DEF QueueInv
  <2> QED
    BY <1>1, <2>2, <2>3, <2>4, <2>5, <2>6, <2>7 DEF CycleMoves
<1>5. StageInv'
  <2>1. ASSUME cycle.pc \notin {"asleep", "target"} PROVE known' = known
    <3>1. \A s \in Seasons : known'[s] = known[s]
      BY <1>2, <2>1 DEF DurableMoves
    <3> QED
      BY <1>0, <1>2, <3>1 DEF DurableMoves, ScopesOK
  <2>2. ASSUME cycle'.todo = cycle.todo PROVE S' = S
    BY <2>2 DEF S, Cur
  <2>3. CASE cycle' = cycle
    BY <1>0, <2>1, <2>2, <2>3 DEF StageInv
  <2>4. CASE /\ cycle'.todo = cycle.todo
             /\ cycle'.pc = "target" => S \in Seasons
             /\ cycle'.pc = "missing" => RefreshTarget /\ cycle'.target = aired[S]
                                         /\ known' = [known EXCEPT ![S] = aired[S]]
             /\ cycle'.pc \in {"recheck", "complete"} =>
                  cycle.pc \in {"missing", "recheck"} /\ cycle'.target = cycle.target /\ known' = known
    <3>1. CASE cycle'.pc = "missing"
      <4>1. S \in Seasons
        BY <1>0, <2>4, <3>1 DEF StageInv, RefreshTarget, Worker
      <4>2. known'[S] = aired[S]
        BY <1>0, <2>4, <3>1, <4>1 DEF ScopesOK
      <4> QED
        BY <2>2, <2>4, <3>1, <4>2 DEF StageInv
    <3> QED
      BY <1>0, <2>2, <2>4, <3>1 DEF StageInv
  <2>5. CASE cycle'.pc \in {"asleep", "collect", "scope"}
    BY <2>5 DEF StageInv
  <2> QED
    BY <1>1, <2>3, <2>4, <2>5 DEF CycleMoves, Asleep
<1> QED
  BY <1>1, <1>2, <1>3, <1>4, <1>5 DEF WorkerInv, DurableMoves

(* For any films, seasons, episodes, ladders, budget and number of events: DUE_SEARCH_STATUSES  *)
(* and the active downloads are read in the statement that parks                        *)
(* (mark_no_acceptable_release, by the worker or the operator), and a grab leaves no parked   *)
(* status behind, so in every state a parked scope has no download.                     *)
THEOREM ParkSafe == SearchSpec => []ParkedIsIdle
<1> DEFINE ParkInv == ScopesOK /\ ParkedIsIdle
<1>1. SearchInit => ParkInv
  BY WorkerInit DEF WorkerInv, SearchInit, ParkedIsIdle, Idle
<1>2. ParkInv /\ [SearchNext]_searchVars => ParkInv'
  <2> SUFFICES ASSUME ParkInv, [SearchNext]_searchVars PROVE ParkInv'
    OBVIOUS
  <2>1. ScopesOK'
    <3>1. CASE UNCHANGED searchVars
      BY <3>1, DurableQuiet DEF searchVars, durable, DurableMoves
    <3> QED
      BY <3>1, WorkerMoves, OthersMove DEF DurableMoves
  <2> DEFINE parked(s) == status[s] = "no_acceptable_release"
  <2>2. ASSUME NEW s \in Scopes, NEW x, NEW to, to # "no_acceptable_release",
               status' = [status EXCEPT ![x] = to],
               download' = download \/ \E d : download' = [download EXCEPT ![x] = d],
               parked(s)'
        PROVE  Idle(s)'
    BY <2>2 DEF ScopesOK, ParkedIsIdle, Idle
  <2>3. ASSUME NEW s \in Scopes, parked(s)' PROVE Idle(s)'
    <3>1. CASE status' = status /\ download' = download
      BY <2>3, <3>1 DEF ParkedIsIdle, Idle
    <3>2. CASE \E r, pc : Grabbed(r, pc)
      <4>1. /\ status' = [status EXCEPT ![S] = "downloading"]
            /\ \E d : download' = [download EXCEPT ![S] = d]
        BY <3>2 DEF Grabbed
      <4> QED
        BY <2>2, <2>3, <4>1
    <3>3. CASE Prepare
      BY <2>3, <3>3 DEF Prepare, wake_waiting_for_air_date, ParkedIsIdle, Idle
    <3>4. CASE mark_completed_if_in
      BY <2>2, <2>3, <3>1, <3>4 DEF mark_completed_if_in
    <3>5. CASE _park
      BY <2>3, <3>1, <3>5 DEF _park, mark_no_acceptable_release, ParkedIsIdle, Idle,
         ScopesOK
    <3>6. ASSUME NEW x, ManualGrab(x) PROVE Idle(s)'
      BY <2>2, <2>3, <3>6 DEF ManualGrab
    <3>7. ASSUME NEW x, ManualPark(x) PROVE Idle(s)'
      BY <2>3, <3>7 DEF ManualPark, mark_no_acceptable_release, ParkedIsIdle, Idle,
         ScopesOK
    <3>8. ASSUME NEW x, DownloadFails(x) PROVE Idle(s)'
      BY <2>3, <3>8 DEF DownloadFails, ParkedIsIdle, Idle, ScopesOK
    <3>9. ASSUME NEW x, Import(x) PROVE Idle(s)'
      <4>1. /\ \E to \in {"completed", "searching"} : status' = [status EXCEPT ![x] = to]
            /\ download' = [download EXCEPT ![x] = None]
        BY <3>9 DEF Import, apply_import
      <4> QED
        BY <2>2, <2>3, <4>1
    <3>10. ASSUME NEW x, Cancel(x) PROVE Idle(s)'
      BY <2>2, <2>3, <3>10 DEF Cancel
    <3>11. CASE \E x \in Seasons : TmdbChanges(x)
      BY <3>1, <3>11 DEF TmdbChanges
    <3>12. CASE Restart \/ UNCHANGED searchVars
      BY <3>1, <3>12 DEF Restart, searchVars, durable
    <3>13. CASE Grab \/ FallbackGrab
      BY <3>1, <3>2, <3>13 DEF Grab, FallbackGrab, Refused, GrabFails, Unusable
    <3>14. CASE \/ Collect \/ Sleep \/ SkipCooling \/ SkipActive \/ Search
                \/ SearchRaises \/ RefreshTarget \/ _attempt_episode_fallback
                \/ RecheckActive \/ FallbackSearch \/ mark_grabbed
      BY <3>1, <3>14 DEF Collect, Sleep, SkipCooling, SkipActive, Search,
         SearchRaises, RefreshTarget, _attempt_episode_fallback, RecheckActive,
         FallbackSearch, mark_grabbed
    <3> QED
      BY <3>3, <3>4, <3>5, <3>6, <3>7, <3>8, <3>9, <3>10, <3>11, <3>12, <3>13, <3>14
         DEF SearchNext, run_grab_cycle
  <2> QED
    BY <2>1, <2>3 DEF ParkedIsIdle
<1> QED
  BY <1>1, <1>2, PTL DEF SearchSpec

(* For any films, seasons, episodes, ladders, budget and number of events: no step makes a    *)
(* season done while an episode of the target last taken note of has                        *)
(* neither been imported nor been given up with its download.  The row for every episode of     *)
(* the target is committed with it (refresh_target), and the target the worker calls whole       *)
(* (mark_completed_if_in) is the one it committed, though the import, the operator and TMDB    *)
(* go on between the two.                                                      *)
THEOREM DoneAlwaysWhole == SearchSpec => DoneIsWhole
<1> DEFINE Kept(s) == status[s] # "completed" /\ status'[s] = "completed" /\ Whole(s) /\ s \notin excused'
                       => known[s] \subseteq (Imported(s) \cup In(s, "dead"))'
           Step == \A s \in Seasons : Kept(s)
<1>1. WorkerInv /\ [SearchNext]_searchVars => [Step]_searchVars
  <2> SUFFICES ASSUME WorkerInv, [SearchNext]_searchVars, NEW s \in Seasons,
                      status[s] # "completed", status'[s] = "completed", s \notin excused'
               PROVE  known[s] \subseteq (Imported(s) \cup In(s, "dead"))'
    OBVIOUS
  <2>0. ScopesOK /\ TargetInv /\ StageInv /\ s \in Scopes
    BY DEF WorkerInv, Scopes
  <2>1. CASE Prepare
    <3>1. status[s] = "waiting_for_air_date"
      BY <2>0, <2>1 DEF Prepare
    <3> QED
      BY <2>0, <3>1 DEF TargetInv
  <2>2. CASE mark_completed_if_in
    <3>1. /\ s = S /\ cycle.pc = "complete" /\ UNCHANGED episode
          /\ cycle.target \subseteq Imported(s)
      BY <2>0, <2>2 DEF mark_completed_if_in, Worker, ScopesOK
    <3>2. known[s] \subseteq Imported(s)
      BY <2>0, <3>1 DEF StageInv
    <3> QED
      BY <3>1, <3>2 DEF Imported, In
  <2>3. ASSUME NEW x \in Scopes, Import(x) PROVE known[s] \subseteq (Imported(s) \cup In(s, "dead"))'
    <3>1. s = x
      BY <2>0, <2>3 DEF Import, apply_import, ScopesOK
    <3>2. x \notin Movies
      BY <3>1, AutoGrabAssumption DEF AutoGrabAssumption
    <3>3. PICK files \in SUBSET Episodes : apply_import(s, files)
      BY <2>3, <3>1, <3>2 DEF Import
    <3> DEFINE rows == ImportedRows(s, files)
               target == TargetOf(s)
    <3>4. episode'[s] = rows /\ (target = {} \/ \A e \in target : rows[e] = "imported")
      BY <2>0, <3>3 DEF apply_import, ScopesOK
    <3>5. ASSUME NEW e \in known[s] PROVE e \in Episodes /\ rows[e] \in {"imported", "dead"}
      <4>1. e \in Rows(s)
        BY <2>0, <3>5 DEF TargetInv
      <4>2. e \in Episodes /\ (e \in target \/ episode[s][e] = "dead")
        BY <4>1 DEF TargetOf, Rows, In
      <4> QED
        BY <3>4, <4>2 DEF ImportedRows
    <3> QED
      BY <3>4, <3>5 DEF Imported, In
  <2>4. ASSUME NEW x, NEW to, to # "completed", status' = [status EXCEPT ![x] = to] PROVE FALSE
    BY <2>0, <2>4 DEF ScopesOK
  <2>5. ASSUME status' = status PROVE FALSE
    BY <2>5
  <2>6. CASE Grab \/ FallbackGrab
    BY <2>4, <2>5, <2>6 DEF Grab, FallbackGrab, Grabbed, Refused, GrabFails,
       Unusable
  <2>7. CASE _park
    BY <2>4, <2>5, <2>7 DEF _park
  <2>8. CASE \/ Collect \/ Sleep \/ SkipCooling \/ SkipActive \/ Search
             \/ SearchRaises \/ RefreshTarget \/ _attempt_episode_fallback
             \/ RecheckActive \/ FallbackSearch \/ mark_grabbed
    BY <2>5, <2>8 DEF Collect, Sleep, SkipCooling, SkipActive, Search,
       SearchRaises, RefreshTarget, _attempt_episode_fallback, RecheckActive,
       FallbackSearch, mark_grabbed
  <2>9. ASSUME NEW x, ManualGrab(x) \/ ManualPark(x) \/ Cancel(x) PROVE FALSE
    BY <2>4, <2>9 DEF ManualGrab, ManualPark, Cancel
  <2>10. ASSUME NEW x, DownloadFails(x) PROVE FALSE
    <3> DEFINE to == IF status[x] = "downloading" THEN "searching" ELSE status[x]
    <3>1. status' = [status EXCEPT ![x] = to]
      BY <2>10 DEF DownloadFails
    <3> QED
      BY <2>0, <3>1 DEF ScopesOK
  <2>11. CASE Restart \/ UNCHANGED searchVars \/ \E x \in Seasons : TmdbChanges(x)
    BY <2>5, <2>11 DEF Restart, searchVars, durable, TmdbChanges
  <2> QED
    BY <2>1, <2>2, <2>3, <2>6, <2>7, <2>8, <2>9, <2>10, <2>11 DEF SearchNext, run_grab_cycle
<1> QED
  BY <1>1, WorkerInit, WorkerNext, PTL DEF SearchSpec, DoneIsWhole
=============================================================================
