-------------------------- MODULE DownloadTracking --------------------------
(***************************************************************************)
(* One tracked download over time: the pure reconciler (domain/reconciler.py) *)
(* inside the poll that feeds it (queue_service.reconcile_and_list), with the *)
(* hold that keeps a fresh torrent out of the reconciler until its file list  *)
(* has been inspected.                                                    *)
(*                                                                         *)
(* A timestamp is modelled by its age in ticks, which stops growing one past  *)
(* the longest window that reads it: every comparison the code makes is kept, *)
(* and time is unbounded.  The races inside a poll belong to FailureProtocol; *)
(* here a poll is one step, and "failed" stands for failed_pending and for     *)
(* what that protocol makes of it.                                          *)
(***************************************************************************)
EXTENDS Integers

CONSTANTS Grace,            \* missing_grace
          MetadataWindow,   \* METADATA_STALL_WINDOW
          ProgressWindow,   \* STALLED_PROGRESS_WINDOW
          Holds             \* the values of payload_pending a grab may write

ASSUME WindowsAssumption == /\ Grace \in Nat \ {0}
                            /\ MetadataWindow \in Nat \ {0}
                            /\ ProgressWindow \in Nat
                            /\ MetadataWindow <= ProgressWindow
ASSUME HoldsAssumption == Holds \subseteq BOOLEAN

Unset == -1                 \* a NULL timestamp; last_activity_unix <= 0

----------------------------------------------------------------------------
(* What qBittorrent reports, by the classes the code tells apart:             *)
(*   meta       metaDL, forcedMetaDL                                        *)
(*   active     downloading, forcedDL, stalledDL                            *)
(*   waiting    queuedDL, checkingDL                                        *)
(*   stopped    pausedDL, stoppedDL                                         *)
(*   transient  checkingResumeData, moving                                  *)
(*   unknown    a state the map does not list                                *)
(*   up         every seeding state;  error  error and missingFiles           *)
Raw == {"meta", "active", "waiting", "stopped", "transient", "unknown", "up", "error"}

_map_raw_state(raw) ==
  CASE raw = "meta" -> "metadata_fetching"
    [] raw = "up" -> "import_pending"
    [] raw = "error" -> "failed"
    [] OTHER -> "downloading"

_DELIBERATELY_IDLE_RAW_STATES == {"waiting", "stopped", "transient"}

Active == {"downloading", "metadata_fetching", "import_pending", "client_missing"}
StallEligible == {"downloading", "metadata_fetching"}
Completed == {"import_pending", "import_blocked", "importing"}
Statuses == Active \cup Completed \cup {"imported", "failed"}

----------------------------------------------------------------------------
VARIABLES
  row,        \* [status, pending, resume, verdict, anchor, age]: the columns status,
              \* payload_pending, payload_resume, first_seen_at and added_at; the verdict
              \* is "reject" under a payload_rejection, "restart" under the failed_reason
              \* _LEGACY_METADATA_RESTART
  client,     \* the torrent: [present, raw, activity, progress, files]
  absentFor,  \* history: age of the first poll of the present run of absent polls
  cause       \* history: why the row failed

vars == <<row, client, absentFor, cause>>

Older(age, cap) == IF age = Unset \/ age > cap THEN age ELSE age + 1

(* A torrent as the client may report it.  Metadata comes before the file list,   *)
(* the file list before the first byte; a client restart forgets the last activity. *)
Gone == [present |-> FALSE, raw |-> "unknown", activity |-> Unset,
         progress |-> FALSE, files |-> FALSE]
Reports == {c \in [present : {TRUE}, raw : Raw, activity : {Unset, 0},
                   progress : BOOLEAN, files : BOOLEAN] :
              /\ c.raw = "meta" => ~c.files
              /\ c.progress => c.files} \cup {Gone}

Fresh(hold, resume) ==
  [status |-> "downloading", pending |-> hold, resume |-> resume, verdict |-> "none",
   anchor |-> Unset, age |-> 0]

Init ==
  /\ \E hold \in Holds, resume \in BOOLEAN : row = Fresh(hold, resume)
  /\ client \in Reports
  /\ absentFor = Unset
  /\ cause = "none"

----------------------------------------------------------------------------
(* Mutant: "never transferred" does not ask whether the torrent is idle on purpose. *)
Impatient_Stalled ==
  /\ row.status \in StallEligible
  /\ \/ client.raw = "meta" /\ row.age >= MetadataWindow
     \/ client.activity = Unset /\ ~client.progress /\ row.age >= MetadataWindow

(* detect_stalls, for the one row. *)
Stalled ==
  /\ row.status \in StallEligible
  /\ \/ /\ client.raw = "meta"
        /\ row.age >= MetadataWindow
     \/ /\ client.raw \notin _DELIBERATELY_IDLE_RAW_STATES \cup {"meta"}
        /\ client.activity = Unset /\ ~client.progress
        /\ row.age >= MetadataWindow
     \/ /\ client.raw = "active"
        /\ client.activity > ProgressWindow
        /\ row.age >= ProgressWindow

(* download_deadline, the column the queue shows: whether it has come, or "none". *)
DeadlineHasCome ==
  \/ client.raw = "meta" /\ row.age >= MetadataWindow
  \/ /\ _map_raw_state(client.raw) = "downloading"
     /\ IF client.raw \notin _DELIBERATELY_IDLE_RAW_STATES
             /\ client.activity = Unset /\ ~client.progress
          THEN row.age >= MetadataWindow
          ELSE row.age >= ProgressWindow /\ (client.activity # Unset => client.activity >= ProgressWindow)

----------------------------------------------------------------------------
(* One poll.  A rejected row only has its failure tried again.  A held row is out of  *)
(* the reconciler's sight while its torrent is present; a completed one whose torrent *)
(* is gone loses its hold first.                                               *)
Rejected == row.verdict = "reject" /\ row.status \in Active \cup Completed

Held == /\ ~Rejected
        /\ row.pending /\ client.present
        /\ client.raw # "error"
        /\ row.status \in Active \cup Completed

Fails(why) ==
  /\ row' = [row EXCEPT !.status = "failed"]
  /\ cause' = why

Seen == absentFor' = Unset
Missed == absentFor' = IF absentFor = Unset THEN 0 ELSE absentFor
Observed == IF client.present THEN Seen ELSE Missed

(* Mutant: the rejection is only followed up while the torrent is there. *)
Hesitant_PollRejects ==
  /\ Rejected /\ client.present
  /\ Fails("rejected")
  /\ Observed /\ UNCHANGED client

PollRejects ==
  /\ Rejected
  /\ Fails("rejected")
  /\ Observed /\ UNCHANGED client

(* The persisted verdict of reject_payload when the failure behind it is refused: a    *)
(* row caught importing is blocked first.                                      *)
RejectPersists ==
  row' = [row EXCEPT !.verdict = "reject",
                     !.status = IF @ = "importing" THEN "import_blocked" ELSE @]

(* _restart_legacy_metadata: a magnet that would never fetch its metadata held. *)
RestartsMetadata == \/ row.verdict = "restart"
                    \/ client.raw = "meta" /\ ~row.resume
                    \/ client.raw = "stopped" /\ ~client.files
PollRestarts ==
  /\ Held /\ RestartsMetadata
  /\ Fails("restarted")
  /\ Seen /\ UNCHANGED client

(* The client or the failure behind it refuses: the intent stays recorded. *)
RestartInterrupted ==
  /\ Held /\ RestartsMetadata
  /\ row' = [row EXCEPT !.verdict = "restart"]
  /\ Seen /\ UNCHANGED <<client, cause>>

(* The first read of the torrent raises: the reason it leaves says only that the       *)
(* payload waits, and so forgets a restart; a blocked row keeps its own reason.      *)
ValidationErrs ==
  /\ Held
  /\ row' = [row EXCEPT !.verdict = IF row.status = "import_blocked" THEN @ ELSE "none"]
  /\ Seen /\ UNCHANGED <<client, cause>>

(* Mutant: the hold suspends the metadata deadline too. *)
Patient_PollWaits ==
  /\ Held /\ ~RestartsMetadata
  /\ client.raw \in {"meta", "transient", "unknown"} \/ ~client.files
  /\ Seen /\ UNCHANGED <<row, client, cause>>

(* Nothing to inspect yet: the hold stays, under the metadata deadline only. *)
PollWaits ==
  /\ Held /\ ~RestartsMetadata
  /\ client.raw \in {"meta", "transient", "unknown"} \/ ~client.files
  /\ IF client.raw = "meta" /\ Stalled THEN Fails("stalled") ELSE UNCHANGED <<row, cause>>
  /\ Seen /\ UNCHANGED client

(* The running intent is saved, the torrent stopped, its files inspected: rejected,   *)
(* or selected and started again, or left held because the client did not follow.  *)
Inspectable ==
  Held /\ ~RestartsMetadata /\ client.files /\ client.raw \notin {"meta", "transient"}
Resumes == row.resume \/ client.raw \in {"active", "waiting", "up"}
Validated ==
  [row EXCEPT !.status = IF row.status \in Active \ {"import_pending"} THEN "downloading" ELSE @,
              !.anchor = IF row.status \in Active \ {"import_pending"} THEN Unset ELSE @,
              !.pending = FALSE, !.resume = Resumes]
PollInspects ==
  /\ Inspectable
  /\ \/ Fails("rejected") /\ UNCHANGED client
     \/ RejectPersists /\ UNCHANGED <<client, cause>>
     \/ /\ row' = Validated
        /\ client' = IF Resumes \/ client.raw = "up" THEN client ELSE [client EXCEPT !.raw = "stopped"]
        /\ UNCHANGED cause
     \/ /\ row' = [row EXCEPT !.resume = Resumes]
        /\ client' = IF client.raw = "up" THEN client ELSE [client EXCEPT !.raw = "stopped"]
        /\ UNCHANGED cause
  /\ Seen

(* reconcile, a present torrent: its state decides, and a recovered client_missing   *)
(* row starts over; a row the map leaves where it is may have stalled.          *)
PollPresent ==
  /\ client.present /\ ~Held /\ ~Rejected
  /\ row.status \in Active
  /\ LET target == _map_raw_state(client.raw)
     IN IF target = row.status
          THEN IF Stalled THEN Fails("stalled") ELSE UNCHANGED <<row, cause>>
          ELSE /\ row' = [row EXCEPT !.status = target,
                            !.anchor = IF row.status = "client_missing" THEN Unset ELSE @]
               /\ cause' = IF target = "failed" THEN "reported" ELSE cause
  /\ Seen /\ UNCHANGED client

(* Mutant: the grace is measured from the grab, not from the first absence. *)
Backdated_PollAbsent ==
  /\ ~client.present /\ ~Rejected
  /\ row.status \in Active
  /\ IF row.anchor # Unset /\ row.age >= Grace
       THEN row' = [row EXCEPT !.status = "failed"] /\ cause' = "absent"
       ELSE /\ row' = [row EXCEPT !.status = "client_missing", !.anchor = IF @ = Unset THEN 0 ELSE @]
            /\ UNCHANGED cause
  /\ Missed /\ UNCHANGED client

(* _reconcile_absent. *)
PollAbsent ==
  /\ ~client.present /\ ~Rejected
  /\ row.status \in Active
  /\ LET held == IF row.status \in Completed THEN FALSE ELSE row.pending
     IN IF row.anchor # Unset /\ row.anchor >= Grace
          THEN /\ row' = [row EXCEPT !.status = "failed", !.pending = held]
               /\ cause' = "absent"
          ELSE /\ row' = [row EXCEPT !.status = "client_missing", !.pending = held,
                            !.anchor = IF @ = Unset THEN 0 ELSE @]
               /\ UNCHANGED cause
  /\ Missed /\ UNCHANGED client

(* A completed row outside the reconciler's states keeps its status. *)
PollCompleted ==
  /\ ~Held /\ ~Rejected
  /\ row.status \in Completed \ Active
  /\ row' = [row EXCEPT !.pending = IF client.present THEN @ ELSE FALSE]
  /\ Observed
  /\ UNCHANGED <<client, cause>>

Poll == PollRejects \/ PollRestarts \/ PollWaits \/ PollInspects
        \/ PollPresent \/ PollAbsent \/ PollCompleted

----------------------------------------------------------------------------
(* import_service: it leaves a held row alone; its own writes replace the reason.      *)
Importable == row.status \in Completed /\ ~row.pending
ImportMoves(outcome) ==
  row' = [row EXCEPT !.status = outcome, !.verdict = IF @ = "restart" THEN "none" ELSE @]
Imports ==
  /\ Importable
  /\ \/ ImportMoves("importing") \/ ImportMoves("import_blocked")
     \/ row.status = "importing" /\ ImportMoves("imported")
     \/ client.present /\ client.raw # "up" /\ ImportMoves("downloading")
  /\ UNCHANGED <<client, absentFor, cause>>

(* The files on disk hold no video. *)
ImportRejects ==
  /\ Importable
  /\ \/ Fails("rejected")
     \/ RejectPersists /\ UNCHANGED cause
  /\ UNCHANGED <<client, absentFor>>

(* grab_service._reuse_terminal_row: every anchor of the row's earlier life goes. *)
_reuse_terminal_row ==
  /\ row.status \in {"imported", "failed"}
  /\ \E hold \in Holds, resume \in BOOLEAN : row' = Fresh(hold, resume)
  /\ client' \in Reports
  /\ absentFor' = Unset
  /\ cause' = "none"

(* The client and the clock. *)
ClientMoves ==
  /\ client' \in {c \in Reports \cup {[r EXCEPT !.activity = client.activity] : r \in Reports \ {Gone}} :
                    client.files /\ c.present => c.files}
  /\ UNCHANGED <<row, absentFor, cause>>

Tick ==
  /\ row' = [row EXCEPT !.age = Older(@, ProgressWindow), !.anchor = Older(@, Grace)]
  /\ client' = [client EXCEPT !.activity = Older(@, ProgressWindow)]
  /\ absentFor' = Older(absentFor, Grace)
  /\ UNCHANGED cause

Next == Poll \/ RestartInterrupted \/ ValidationErrs
        \/ Imports \/ ImportRejects \/ _reuse_terminal_row \/ ClientMoves \/ Tick

Spec == Init /\ [][Next]_vars

(* The background loop polls again and again, neither the client nor the database       *)
(* fails every poll for ever, and time passes.                                 *)
FairSpec == Spec /\ WF_vars(Poll) /\ WF_vars(Tick)

----------------------------------------------------------------------------
(* Properties.                                                              *)

Ages(cap) == Unset..(cap + 1)

(* The types of the row, of the client's report and of the history. *)
TypeOK ==
  /\ row \in [status : Statuses, pending : BOOLEAN, resume : BOOLEAN,
              verdict : {"none", "restart", "reject"}, anchor : Ages(Grace), age : 0..(ProgressWindow + 1)]
  /\ client \in [present : BOOLEAN, raw : Raw, activity : Ages(ProgressWindow),
                 progress : BOOLEAN, files : BOOLEAN]
  /\ absentFor \in Ages(Grace)
  /\ cause \in {"none", "restarted", "stalled", "rejected", "reported", "absent"}

(* The grace anchor exists exactly while the row is client_missing (or on a row that    *)
(* failed for it): no other status carries an anchor a later disappearance would be     *)
(* measured from.                                                           *)
AnchorMeansMissing == row.anchor # Unset => row.status \in {"client_missing", "failed"}

(* A row is failed for absence only when every poll of a whole grace window found its   *)
(* torrent absent: a torrent seen again meanwhile starts over.  For rows whose payload   *)
(* has been inspected.                                                     *)
FailsForAbsence == cause # "absent" /\ cause' = "absent"
GraceHonoured == [][FailsForAbsence /\ ~row.pending => absentFor >= Grace]_vars

(* The stall heal removes and blocklists, so it may not fire before the deadline the     *)
(* queue shows for that very report, and never on a torrent that is deliberately idle,   *)
(* complete or in error -- although a row still "downloading" may meet any of them.    *)
HealIsHonest ==
  [][cause # "stalled" /\ cause' = "stalled" =>
       /\ DeadlineHasCome
       /\ client.raw \notin _DELIBERATELY_IDLE_RAW_STATES \cup {"up", "error"}]_vars

(* A magnet that never gets its metadata is failed in the end, held or not.            *)
StuckMetadata(statuses) ==
  row.status \in statuses /\ client.present /\ client.raw = "meta"
MetadataArrives == ~(client.present /\ client.raw = "meta")
StuckMetadataHeals ==
  StuckMetadata(StallEligible) ~> (row.status = "failed" \/ MetadataArrives)

(* A payload that was found to hold no video is failed in the end, although the failure   *)
(* may be refused, the torrent may vanish and the importer may hold the row -- unless a    *)
(* later import finds its video after all.                                     *)
RejectionLands == row.verdict = "reject" ~> row.status \in {"failed", "imported"}

=============================================================================
