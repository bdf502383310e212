---------------------------- MODULE UpdateLease ----------------------------
(***************************************************************************)
(* The maintenance lease of the container updater.  The application keeps one *)
(* coordinator row and the maintenance leases in its database                *)
(* (repositories/update_coordination.py); critical work runs under renewable   *)
(* leases (UpdateCoordinationService.critical_operation); the updater sidecar  *)
(* (updater/runner.py) drains that work through the internal endpoints of      *)
(* web/routers/updates.py before it stops the application's container.        *)
(*                                                                         *)
(* Every locked method of the repository is one transaction, hence one step of *)
(* the database.  An endpoint that opens with a snapshot and then calls one     *)
(* locked method is one step, except for /claim, which decides on the snapshot  *)
(* and acts later.  A timestamp is the time that is left of it or its age.     *)
(* Docker is reduced to whether the application runs: names, networks and      *)
(* images of the containers are left out.                                   *)
(***************************************************************************)
EXTENDS Integers, FiniteSets

CONSTANTS Workers,      \* tasks that run critical operations
          CritTTL,      \* _DEFAULT_CRITICAL_TTL
          DrainTTL,     \* _DRAIN_TTL
          RecoveryAge,  \* COORDINATOR_RECOVERY_MAX_AGE
          Policies,     \* what load_update_policy and its schedule may say
          Rows,         \* <<phase, action>> of the coordinator row at the start
          Prompt,       \* whether renewals come in time, a running application answers and
                        \* critical work ends within the timeout of a drain
          Operator,     \* whether an operator uses the buttons
          Tokens,       \* drain lease tokens
          MaxGen,       \* bound: action generations
          MaxCrashes    \* bound: sidecar crashes

ASSUME LeaseAssumption == /\ CritTTL \in Nat \ {0}
                          /\ DrainTTL \in Nat \ {0}
                          /\ RecoveryAge \in Nat \ {0}
ASSUME PolicyAssumption == Policies \subseteq [enabled : BOOLEAN, open : BOOLEAN, idle : BOOLEAN]
ASSUME SwitchAssumption == Prompt \in BOOLEAN /\ Operator \in BOOLEAN
ASSUME BoundAssumption == MaxGen \in Nat /\ MaxCrashes \in Nat

DrainPhases == {"draining", "installing", "rollback"}
BUSY_COORDINATOR_PHASES == DrainPhases \cup {"checking"}
KNOWN_COORDINATOR_PHASES ==
  BUSY_COORDINATOR_PHASES \cup {"idle", "available", "succeeded", "failed", "rolled_back"}
KNOWN_REQUESTED_ACTIONS == {"none", "check", "install"}

(* A row a newer release left behind may hold a phase or an action this release  *)
(* does not know.                                                          *)
Phases == KNOWN_COORDINATOR_PHASES \cup {"unknown"}
Actions == KNOWN_REQUESTED_ACTIONS \cup {"unknown"}

ASSUME RowsAssumption == Rows \subseteq Phases \X Actions

Unset == -1                 \* no lease row; a NULL timestamp
NoToken == 0

(* A token is random: a new one differs from the two that may be remembered. *)
ASSUME TokenAssumption == /\ NoToken \notin Tokens
                          /\ \A a, b \in Tokens \cup {NoToken} : \E t \in Tokens : t # a /\ t # b

NoDrain == [tok |-> NoToken, gen |-> 0, ttl |-> Unset]

Stages == {"prepared", "stopping", "stopped", "started", "renamed",
           "rolling", "cloned", "restored"}
NoFile == [stage |-> "none", tok |-> NoToken, gen |-> 0, told |-> FALSE]

VARIABLES
  db,       \* the coordinator row with its leases: [phase, action, gen, ack, anchor,
            \* avail, lastTok, lastRes, drain, crit]; anchor is the age of last_started_at,
            \* avail whether available_digest is set, crit the time left of each worker's lease
  running,  \* the workers whose critical body runs
  up,       \* whether a container of the application runs
  side,     \* the sidecar process: [pc, act, gen, tok, idle, mat, open]
  file,     \* the sidecar's state file: [stage, tok, gen, told]; told is history: the
            \* outcome was recorded although the sidecar did not hear of it
  crashes   \* history, for the bound

vars == <<db, running, up, side, file, crashes>>

Results == {"failed", "succeeded", "rolled_back", "no_update", "update_available", "none"}
AtRest == [pc |-> "rest", act |-> "none", gen |-> 0, tok |-> NoToken,
           idle |-> FALSE, mat |-> FALSE, open |-> FALSE]

Init ==
  /\ \E r \in Rows :
       db = [phase |-> r[1], action |-> r[2], gen |-> 0, ack |-> 0, anchor |-> Unset,
             avail |-> FALSE, lastTok |-> NoToken, lastRes |-> "none",
             drain |-> NoDrain, crit |-> [w \in Workers |-> Unset]]
  /\ running = {}
  /\ up = TRUE
  /\ side = AtRest
  /\ file = NoFile
  /\ crashes = 0

----------------------------------------------------------------------------
(* The repository: what one transaction makes of the database. *)

(* Mutant: only critical leases are swept. *)
Lingering_Sweep(d) ==
  [d EXCEPT !.crit = [w \in Workers |-> IF d.crit[w] = 0 THEN Unset ELSE d.crit[w]]]

(* _cleanup_expired; a drain that ran out takes its phase with it. *)
Sweep(d) ==
  LET ended == d.drain.ttl = 0
      reset == ended /\ d.phase \in DrainPhases
  IN [d EXCEPT !.drain = IF ended THEN NoDrain ELSE @,
               !.crit = [w \in Workers |-> IF d.crit[w] = 0 THEN Unset ELSE d.crit[w]],
               !.phase = IF reset THEN "idle" ELSE @,
               !.anchor = IF reset THEN Unset ELSE @]

(* _backfill_legacy_busy_anchor, for a row that never saw a heartbeat or a request. *)
Backfill(d) ==
  [d EXCEPT !.anchor = IF d.phase \in BUSY_COORDINATOR_PHASES /\ @ = Unset THEN 0 ELSE @]

Snapshot(d) == Backfill(Sweep(d))

(* A phase written together with _phase_timestamp_values. *)
Enter(d, phase) ==
  [d EXCEPT !.phase = phase,
            !.anchor = IF phase \notin BUSY_COORDINATOR_PHASES THEN Unset
                       ELSE IF phase # d.phase THEN 0 ELSE @]

Known(d) == d.phase \in KNOWN_COORDINATOR_PHASES
Draining(d) == d.drain # NoDrain
Holds(d, tok) == Draining(d) /\ d.drain.tok = tok
Quiet(d) == \A w \in Workers : d.crit[w] = Unset      \* _critical_count() = 0

_phase_for_result(res) ==
  CASE res = "update_available" -> "available"
    [] res = "no_update" -> "idle"
    [] res = "succeeded" -> "succeeded"
    [] res = "rolled_back" -> "rolled_back"
    [] OTHER -> "failed"

(* The endpoints answer [ok, db]: whether they went through, and the database.    *)
Refused(d) == [ok |-> FALSE, db |-> d]

(* Mutant: the acknowledgement of a check does not compare generations. *)
Unfenced_acknowledge_action(d, gen, res) ==
  LET s == Snapshot(d)
      kept == s.action = "install" /\ res = "update_available"
  IN IF ~Known(s)
       THEN Refused(s)
       ELSE [ok |-> TRUE,
             db |-> [Enter(s, _phase_for_result(res)) EXCEPT
                       !.avail = (res = "update_available"),
                       !.lastTok = NoToken, !.lastRes = res,
                       !.action = IF kept THEN @ ELSE "none",
                       !.ack = IF kept THEN @ ELSE gen]]

(* outcome of a check: acknowledge_action. *)
acknowledge_action(d, gen, res) ==
  LET s == Snapshot(d)
      kept == s.action = "install" /\ res = "update_available"
  IN IF ~Known(s) \/ s.gen # gen
       THEN Refused(s)
       ELSE [ok |-> TRUE,
             db |-> [Enter(s, _phase_for_result(res)) EXCEPT
                       !.avail = (res = "update_available"),
                       !.lastTok = NoToken, !.lastRes = res,
                       !.action = IF kept THEN @ ELSE "none",
                       !.ack = IF kept THEN @ ELSE gen]]

(* Mutant: an outcome forgets the token it was reported under. *)
Forgetful_acknowledge_outcome(d, tok, gen, res) ==
  LET s == Snapshot(d)
  IN IF ~Known(s) \/ ~Holds(s, tok) \/ s.drain.gen # gen \/ s.gen # gen
       THEN Refused(s)
       ELSE [ok |-> TRUE,
             db |-> [Enter(s, _phase_for_result(res)) EXCEPT
                       !.avail = FALSE, !.lastTok = NoToken, !.lastRes = res,
                       !.action = "none", !.ack = gen, !.drain = NoDrain]]

(* outcome of an install: acknowledge_outcome.  Without its lease an outcome is   *)
(* accepted only as the replay of the one recorded last.                      *)
acknowledge_outcome(d, tok, gen, res) ==
  LET s == Snapshot(d)
  IN IF ~Known(s) THEN Refused(s)
     ELSE IF ~Holds(s, tok)
       THEN [ok |-> s.ack = gen /\ s.lastTok = tok /\ s.lastRes = res, db |-> s]
     ELSE IF s.drain.gen # gen \/ s.gen # gen THEN Refused(s)
     ELSE [ok |-> TRUE,
           db |-> [Enter(s, _phase_for_result(res)) EXCEPT
                     !.avail = FALSE, !.lastTok = tok, !.lastRes = res,
                     !.action = "none", !.ack = gen, !.drain = NoDrain]]

(* Mutant: the drain counts as ready whatever critical work is left. *)
Hasty_renew_drain_progress(d, tok, phase) ==
  LET s == Snapshot(d)
  IN IF ~Known(s) \/ ~Holds(s, tok)
       THEN [ok |-> FALSE, ready |-> FALSE, db |-> s]
       ELSE [ok |-> TRUE, ready |-> TRUE,
             db |-> Enter([s EXCEPT !.drain.ttl = DrainTTL],
                          IF phase # "none" THEN phase
                          ELSE IF s.phase \in DrainPhases THEN s.phase ELSE "draining")]

(* renew_endpoint: renew_drain_progress; ready says that no critical lease is left. *)
renew_drain_progress(d, tok, phase) ==
  LET s == Snapshot(d)
  IN IF ~Known(s) \/ ~Holds(s, tok)
       THEN [ok |-> FALSE, ready |-> FALSE, db |-> s]
       ELSE [ok |-> TRUE, ready |-> Quiet(s),
             db |-> Enter([s EXCEPT !.drain.ttl = DrainTTL],
                          IF phase # "none" THEN IF Quiet(s) THEN phase ELSE "draining"
                          ELSE IF s.phase \in DrainPhases THEN s.phase ELSE "draining")]

(* release_endpoint, for a drain. *)
release(d, tok) ==
  LET s == Snapshot(d)
  IN IF Known(s) /\ Holds(s, tok) THEN [Enter(s, "idle") EXCEPT !.drain = NoDrain] ELSE s

----------------------------------------------------------------------------
(* Critical work: critical_operation and its renewal task. *)

(* Mutant: critical work starts while a drain is active. *)
Barging_acquire_critical(w) ==
  /\ up /\ w \notin running
  /\ db' = [Sweep(db) EXCEPT !.crit[w] = CritTTL]
  /\ running' = running \cup {w}
  /\ UNCHANGED <<up, side, file, crashes>>

acquire_critical(w) ==
  /\ up /\ w \notin running
  /\ LET s == Sweep(db)
     IN IF Draining(s)                            \* MaintenanceDrainingError
          THEN db' = s /\ UNCHANGED running
          ELSE /\ db' = [s EXCEPT !.crit[w] = CritTTL]
               /\ running' = running \cup {w}
  /\ UNCHANGED <<up, side, file, crashes>>

(* The renewal finds the lease, or finds it gone and cancels the body. *)
RenewCritical(w) ==
  /\ w \in running
  /\ LET s == Sweep(db)
     IN IF s.crit[w] = Unset
          THEN db' = s /\ running' = running \ {w}
          ELSE db' = [s EXCEPT !.crit[w] = CritTTL] /\ UNCHANGED running
  /\ UNCHANGED <<up, side, file, crashes>>

(* The database cannot be reached: the body is cancelled at the first attempt after  *)
(* its lease has run out.                                                   *)
RenewCriticalFails(w) ==
  /\ w \in running /\ db.crit[w] <= 0
  /\ running' = running \ {w}
  /\ UNCHANGED <<db, up, side, file, crashes>>

(* The body ends.  Its lease is released, or left to expire when that fails. *)
EndCritical(w) ==
  /\ w \in running
  /\ running' = running \ {w}
  /\ \/ db' = [Sweep(db) EXCEPT !.crit[w] = Unset]
     \/ UNCHANGED db
  /\ UNCHANGED <<up, side, file, crashes>>

----------------------------------------------------------------------------
(* The operator. *)

(* check_now, update_when_ready *)
request_action(action) ==
  /\ Operator /\ up
  /\ db.gen < MaxGen
  /\ LET s == Snapshot(db)
         free == Known(s) /\ s.phase \notin BUSY_COORDINATOR_PHASES /\ s.action = "none"
     IN db' = IF free THEN [s EXCEPT !.action = action, !.gen = @ + 1] ELSE s
  /\ UNCHANGED <<running, up, side, file, crashes>>

(* decide_recovery and what force_reset_phase makes of its answer.  A known      *)
(* queued action keeps its generation; anything else is fenced by a new one.     *)
force_reset_phase ==
  /\ Operator /\ up
  /\ db.gen < MaxGen
  /\ LET s == Snapshot(db)
         stale == s.phase \in BUSY_COORDINATOR_PHASES /\ s.anchor >= RecoveryAge
         odd == s.action \notin KNOWN_REQUESTED_ACTIONS
         fence == odd \/ s.action = "none"
         fenced == [s EXCEPT !.gen = @ + 1, !.action = IF odd THEN "none" ELSE @]
     IN db' = IF Draining(s) THEN s
              ELSE IF ~Known(s) \/ stale
                THEN Enter(IF fence THEN fenced ELSE s, "idle")
              ELSE IF s.phase \notin BUSY_COORDINATOR_PHASES /\ odd THEN fenced
              ELSE s
  /\ UNCHANGED <<running, up, side, file, crashes>>

----------------------------------------------------------------------------
(* The sidecar without a pending operation: poll, check, claim. *)

(* _eligibility: the work handed out, on a snapshot. *)
Eligible(s, p, due) ==
  CASE ~Known(s) \/ s.action \notin KNOWN_REQUESTED_ACTIONS -> "none"
    [] s.action = "check" -> "check"
    [] s.action = "install" -> IF s.avail THEN "install" ELSE "check"
    [] ~p.enabled \/ s.phase \in BUSY_COORDINATOR_PHASES -> "none"
    [] s.avail -> IF p.open THEN "install" ELSE "none"
    [] due -> "check"
    [] OTHER -> "none"

dispatch_starts_work(s, p, act) == act # "none" /\ ~(act = "install" /\ p.idle /\ ~Quiet(s))

(* mark_busy_work_dispatched: a handout over a busy row restarts the clock. *)
Handout(s, p, act) ==
  [s EXCEPT !.anchor = IF dispatch_starts_work(s, p, act) /\ s.phase \in BUSY_COORDINATOR_PHASES
                         THEN 0 ELSE @]

Poll(p, due) ==
  /\ side.pc = "rest" /\ file = NoFile /\ up
  /\ LET s == Snapshot(db)
         act == Eligible(s, p, due)
     IN /\ db' = Handout(s, p, act)
        /\ side' = IF dispatch_starts_work(s, p, act)
                     THEN [AtRest EXCEPT !.pc = "beat", !.act = act, !.gen = s.gen,
                                         !.open = p.open]
                     ELSE side
  /\ UNCHANGED <<running, up, file, crashes>>

(* heartbeat: the first one opens the check, the others keep it alive. *)
Heartbeat ==
  /\ side.pc \in {"beat", "check"} /\ up
  /\ LET s == Snapshot(db)
         fits == Known(s) /\ s.gen = side.gen
     IN /\ db' = IF fits THEN Enter(s, "checking") ELSE s
        /\ side' = IF fits THEN [side EXCEPT !.pc = "check"] ELSE AtRest
  /\ UNCHANGED <<running, up, file, crashes>>

(* The preflight ended and its result is posted. *)
ReportCheck(res) ==
  /\ side.pc = "check" /\ up
  /\ LET ans == acknowledge_action(db, side.gen, res)
     IN /\ db' = ans.db
        /\ side' = IF ans.ok /\ res = "update_available" /\ side.act = "install"
                     THEN [side EXCEPT !.pc = "claim"]
                     ELSE AtRest
  /\ UNCHANGED <<running, up, file, crashes>>

(* The candidate cannot be described: the check failed after all. *)
RejectTarget ==
  /\ side.pc = "claim" /\ up
  /\ db' = acknowledge_action(db, side.gen, "failed").db
  /\ side' = AtRest
  /\ UNCHANGED <<running, up, file, crashes>>

(* claim_endpoint, first half: the eligibility the claim will act on. *)
ClaimDecide(p, due) ==
  /\ side.pc = "claim" /\ up
  /\ LET s == Snapshot(db)
         act == Eligible(s, p, due)
     IN /\ db' = Handout(s, p, act)
        /\ side' = IF s.gen = side.gen /\ act = "install" /\ (p.idle => Quiet(s))
                     THEN [side EXCEPT !.pc = "claiming", !.idle = p.idle,
                                       !.mat = (s.action = "none")]
                     ELSE AtRest
  /\ UNCHANGED <<running, up, file, crashes>>

(* claim_drain: what the decision of the first half is still worth. *)
Claimable(s) ==
  /\ Known(s) /\ ~Draining(s)
  /\ s.gen = side.gen
  /\ side.idle => Quiet(s)
  /\ side.mat => s.action = "none" /\ s.gen < MaxGen

NewToken == CHOOSE t \in Tokens : t \notin {file.tok, db.lastTok}

claim_drain ==
  /\ side.pc = "claiming" /\ up
  /\ LET s == Sweep(db)
         gen == IF side.mat THEN s.gen + 1 ELSE s.gen
         grant == [tok |-> NewToken, gen |-> gen, ttl |-> DrainTTL]
     IN IF Claimable(s)
          THEN /\ db' = Enter([s EXCEPT !.drain = grant, !.gen = gen,
                                        !.action = IF side.mat THEN "install" ELSE @],
                              "draining")
               /\ side' = [side EXCEPT !.tok = NewToken, !.gen = gen,
                                       !.pc = IF Quiet(s) THEN "ready" ELSE "drain"]
          ELSE /\ db' = Snapshot(db)
               /\ side' = AtRest
  /\ UNCHANGED <<running, up, file, crashes>>

(* _claim_ready: renew until the critical work is gone. *)
AwaitDrain ==
  /\ side.pc = "drain" /\ up
  /\ LET ans == renew_drain_progress(db, side.tok, "none")
     IN /\ db' = ans.db
        /\ side' = IF ~ans.ok THEN AtRest
                   ELSE IF ans.ready THEN [side EXCEPT !.pc = "ready"] ELSE side
  /\ UNCHANGED <<running, up, file, crashes>>

(* maintenance_drain_timeout.  The deadline is looked at before the renewal, so it may   *)
(* pass over a drain that has become ready.  In a prompt system only over such a drain.  *)
DrainTimeout ==
  /\ side.pc = "drain" /\ up
  /\ Prompt => Quiet(Sweep(db))
  /\ db' = release(db, side.tok)
  /\ side' = AtRest
  /\ UNCHANGED <<running, up, file, crashes>>

----------------------------------------------------------------------------
(* The sidecar with a pending operation. *)

(* Mutant: the token of the replacement lease is not saved. *)
Unsaved_Prepare ==
  /\ side.pc = "ready"
  /\ IF file = NoFile
       THEN /\ file' = [stage |-> "prepared", tok |-> side.tok, gen |-> side.gen, told |-> FALSE]
            /\ side' = [side EXCEPT !.pc = "prepared"]
       ELSE /\ side' = [side EXCEPT !.pc = "recover"]
            /\ UNCHANGED file
  /\ UNCHANGED <<db, running, up, crashes>>

(* The file is written; a recovery only replaces its token. *)
Prepare ==
  /\ side.pc = "ready"
  /\ IF file = NoFile
       THEN /\ file' = [stage |-> "prepared", tok |-> side.tok, gen |-> side.gen, told |-> FALSE]
            /\ side' = [side EXCEPT !.pc = "prepared"]
       ELSE /\ file' = [file EXCEPT !.tok = side.tok]
            /\ side' = [side EXCEPT !.pc = "recover"]
  /\ UNCHANGED <<db, running, up, crashes>>

_progress_phase ==
  IF file.stage \in {"rolling", "cloned", "restored"} THEN "rollback" ELSE "installing"

BeginInstall ==
  /\ side.pc = "prepared" /\ up
  /\ LET ans == renew_drain_progress(db, file.tok, "installing")
     IN /\ db' = ans.db
        /\ side' = IF ans.ready THEN [side EXCEPT !.pc = "install"] ELSE AtRest
  /\ UNCHANGED <<running, up, file, crashes>>

(* _keep_lease, beside the work. *)
Kept == {"install", "rollback", "recover"}
KeepLease ==
  /\ side.pc \in Kept /\ up
  /\ LET ans == renew_drain_progress(db, file.tok, _progress_phase)
     IN /\ db' = ans.db
        /\ side' = IF ans.ready THEN side ELSE AtRest
  /\ UNCHANGED <<running, up, file, crashes>>

(* coordinator_unavailable: nothing answers, or not in time. *)
Unreachable == ~up \/ ~Prompt

(* The keeper found nobody to renew its lease with until it had run out: it cancels   *)
(* the work it guards, wherever that is.                                        *)
KeeperGivesUp ==
  /\ side.pc \in Kept /\ Unreachable
  /\ db.drain.ttl <= 0
  /\ side' = AtRest
  /\ UNCHANGED <<db, running, up, file, crashes>>

(* _install, by what it does to the application: stop_requested is saved, the old  *)
(* container stops, the candidate starts, becomes healthy and takes the name.       *)
RequestStop ==
  /\ side.pc = "install" /\ file.stage = "prepared"
  /\ file' = [file EXCEPT !.stage = "stopping"]
  /\ UNCHANGED <<db, running, up, side, crashes>>

StopOld ==
  /\ side.pc = "install" /\ file.stage = "stopping"
  /\ up' = FALSE /\ running' = {}
  /\ file' = [file EXCEPT !.stage = "stopped"]
  /\ UNCHANGED <<db, side, crashes>>

StartCandidate ==
  /\ side.pc = "install" /\ file.stage = "stopped"
  /\ up' = TRUE
  /\ file' = [file EXCEPT !.stage = "started"]
  /\ UNCHANGED <<db, running, side, crashes>>

(* _finish_success up to the outcome; in a recovery the candidate is asked again. *)
CandidateHealthy ==
  /\ \/ side.pc = "install" /\ file.stage = "started"
     \/ side.pc = "recover" /\ file.stage \in {"started", "renamed"}
  /\ up
  /\ file' = [file EXCEPT !.stage = "renamed"]
  /\ side' = [side EXCEPT !.pc = "report"]
  /\ UNCHANGED <<db, running, up, crashes>>

(* The renewal a rollback opens with.  Only an unreachable coordinator does not stop it. *)
RollbackRenews(pc) ==
  \/ /\ up
     /\ LET ans == renew_drain_progress(db, file.tok, "rollback")
        IN /\ db' = ans.db
           /\ side' = IF ans.ready THEN [side EXCEPT !.pc = pc] ELSE AtRest
  \/ /\ Unreachable
     /\ side' = [side EXCEPT !.pc = pc]
     /\ UNCHANGED db

(* _rollback up to its renewal: the install failed, or a recovery found nothing     *)
(* worth finishing.                                                          *)
BeginRollback ==
  /\ \/ side.pc = "install" /\ file.stage \in {"stopping", "stopped", "started"}
     \/ side.pc = "recover" /\ file.stage \notin {"none", "prepared"}
  /\ file' = [file EXCEPT !.stage = IF @ \in {"cloned", "restored"} THEN @ ELSE "rolling"]
  /\ RollbackRenews("rollback")
  /\ UNCHANGED <<running, up, crashes>>

(* coordinator_unavailable in one of _OFFLINE_ROLLBACK_STAGES. *)
OfflineRollback ==
  /\ side.pc = "rest" /\ Unreachable
  /\ file.stage \in {"stopping", "stopped", "started", "rolling", "cloned"}
  /\ file' = [file EXCEPT !.stage = IF @ = "cloned" THEN @ ELSE "rolling"]
  /\ RollbackRenews("offline")
  /\ UNCHANGED <<running, up, crashes>>

(* _rollback stops the candidate and the old container, and a clone that was       *)
(* healthy once and is not any more; then it starts a clone.                     *)
StopForRollback ==
  /\ side.pc \in {"rollback", "offline"} /\ up
  /\ file.stage \in {"rolling", "restored"}
  /\ up' = FALSE /\ running' = {}
  /\ file' = [file EXCEPT !.stage = "rolling"]
  /\ UNCHANGED <<db, side, crashes>>

StartClone ==
  /\ side.pc \in {"rollback", "offline"} /\ ~up
  /\ file.stage = "rolling"
  /\ up' = TRUE
  /\ file' = [file EXCEPT !.stage = "cloned"]
  /\ UNCHANGED <<db, running, side, crashes>>

CloneHealthy ==
  /\ side.pc \in {"rollback", "offline"} /\ up
  /\ file.stage \in {"cloned", "restored"}
  /\ file' = [file EXCEPT !.stage = "restored"]
  /\ side' = IF side.pc = "offline" THEN AtRest ELSE [side EXCEPT !.pc = "report"]
  /\ UNCHANGED <<db, running, up, crashes>>

(* A recovery of an operation that never stopped anything. *)
RecoverReport ==
  /\ side.pc = "recover" /\ file.stage = "prepared"
  /\ side' = [side EXCEPT !.pc = "report"]
  /\ UNCHANGED <<db, running, up, file, crashes>>

OutcomeOf(stage) ==
  CASE stage = "prepared" -> "failed"
    [] stage = "renamed" -> "succeeded"
    [] OTHER -> "rolled_back"

Reportable == {"prepared", "renamed", "restored"}

(* The outcome is posted, at the end of the work or first thing after a restart.   *)
(* It goes through and the file is cleared, or its answer is lost, or it conflicts. *)
Report(heard) ==
  /\ up
  /\ side.pc \in {"report", "rest"} /\ file.stage \in Reportable
  /\ LET ans == acknowledge_outcome(db, file.tok, file.gen, OutcomeOf(file.stage))
     IN /\ db' = ans.db
        /\ IF ans.ok
             THEN /\ file' = IF heard THEN NoFile ELSE [file EXCEPT !.told = TRUE]
                  /\ side' = AtRest
             ELSE /\ UNCHANGED file
                  /\ side' = IF side.pc = "rest" THEN [side EXCEPT !.pc = "relet"] ELSE AtRest
  /\ UNCHANGED <<running, up, crashes>>

(* _ensure_recovery_lease: renew the lease of the file, or claim another.  A       *)
(* replacement that should be reported comes here when it is not healthy any more. *)
RecoverLease ==
  /\ up
  /\ \/ side.pc = "relet"
     \/ side.pc = "rest" /\ file.stage \notin {"none", "prepared"}
  /\ LET ans == renew_drain_progress(db, file.tok, _progress_phase)
     IN /\ db' = ans.db
        /\ side' = IF ~ans.ok THEN [side EXCEPT !.pc = "reclaim"]
                   ELSE IF ans.ready
                     THEN [side EXCEPT !.pc = "recover", !.tok = file.tok, !.gen = file.gen]
                     ELSE AtRest                  \* maintenance work is still left: later
  /\ UNCHANGED <<running, up, file, crashes>>

(* claim_endpoint with recovery = True, first half. *)
RecoverClaim(p) ==
  /\ side.pc = "reclaim" /\ up
  /\ LET s == Snapshot(db)
     IN /\ db' = s
        /\ side' = IF /\ Known(s) /\ s.action = "install" /\ s.gen = file.gen
                      /\ p.idle => Quiet(s)
                     THEN [AtRest EXCEPT !.pc = "claiming", !.gen = s.gen, !.idle = p.idle]
                     ELSE AtRest
  /\ UNCHANGED <<running, up, file, crashes>>

(* The process dies, or a call that goes unanswered ends the iteration. *)
SidecarCrash ==
  /\ side # AtRest
  /\ crashes < MaxCrashes
  /\ crashes' = crashes + 1
  /\ side' = AtRest
  /\ UNCHANGED <<db, running, up, file>>

----------------------------------------------------------------------------
Held == Kept \cup {"drain", "ready", "prepared", "report"}

Left(ttl) == IF ttl > 0 THEN ttl - 1 ELSE ttl

(* Time passes.  When renewals are prompt, it does not pass over the last tick of   *)
(* a lease whose holder is alive and can reach the database.                    *)
Tick ==
  /\ Prompt => /\ \A w \in running : db.crit[w] > 1
               /\ side.pc \in Held /\ up => db.drain.ttl # 1
  /\ db' = [db EXCEPT !.crit = [w \in Workers |-> Left(db.crit[w])],
                      !.drain.ttl = Left(@),
                      !.anchor = IF @ = Unset \/ @ = RecoveryAge THEN @ ELSE @ + 1]
  /\ UNCHANGED <<running, up, side, file, crashes>>

Critical == \E w \in Workers : 
              \/ acquire_critical(w) \/ EndCritical(w)
              \/ RenewCritical(w) \/ RenewCriticalFails(w)
OperatorStep == force_reset_phase \/ \E a \in {"check", "install"} : request_action(a)
CheckStep == Heartbeat \/ \E res \in {"failed", "no_update", "update_available"} : ReportCheck(res)
ClaimStep == RejectTarget \/ claim_drain \/ AwaitDrain \/ DrainTimeout
               \/ \E p \in Policies, due \in BOOLEAN : ClaimDecide(p, due)
InstallStep == Prepare \/ BeginInstall \/ RequestStop \/ StopOld \/ StartCandidate
                 \/ CandidateHealthy \/ BeginRollback \/ StopForRollback \/ StartClone
                 \/ CloneHealthy
RecoverStep == OfflineRollback \/ RecoverReport \/ RecoverLease
                 \/ \E p \in Policies : RecoverClaim(p)

Next ==
  \/ Critical \/ OperatorStep \/ CheckStep \/ ClaimStep \/ InstallStep \/ RecoverStep
  \/ \E p \in Policies, due \in BOOLEAN : Poll(p, due)
  \/ \E heard \in BOOLEAN : Report(heard)
  \/ KeepLease \/ KeeperGivesUp \/ SidecarCrash \/ Tick

Spec == Init /\ [][Next]_vars

Sidecar == CheckStep \/ KeeperGivesUp \/ ClaimStep \/ InstallStep \/ RecoverStep \/ Report(TRUE)
             \/ \E p \in Policies, due \in BOOLEAN : Poll(p, due)

(* Time passes, the sidecar's loop goes on, a critical body ends, a preflight ends.  A    *)
(* drain that is ready again and again is once seen to be; a clone asked for its health    *)
(* again and again is once healthy, and once still healthy when it is asked once more; an   *)
(* outcome posted again and again is heard.                                          *)
FairSpec ==
  /\ Spec
  /\ WF_vars(Tick) /\ WF_vars(Sidecar)
  /\ \A w \in Workers : WF_vars(EndCritical(w))
  /\ SF_vars(\E res \in {"failed", "no_update", "update_available"} : ReportCheck(res))
  /\ SF_vars(AwaitDrain /\ Quiet(Sweep(db)))
  /\ SF_vars(CloneHealthy /\ file.stage = "cloned")
  /\ SF_vars(CloneHealthy /\ file.stage = "restored")
  /\ SF_vars(Report(TRUE))

----------------------------------------------------------------------------
PCs == {"rest", "beat", "check", "claim", "claiming", "drain", "ready", "prepared", "install",
        "rollback", "offline", "recover", "report", "relet", "reclaim"}
Token == Tokens \cup {NoToken}
Drains == [tok : Token, gen : Nat, ttl : Unset .. DrainTTL]
RowType == [phase : Phases, action : Actions, gen : Nat, ack : Nat,
            anchor : Unset .. RecoveryAge, avail : BOOLEAN, lastTok : Token,
            lastRes : Results, drain : Drains, crit : [Workers -> Unset .. CritTTL]]
SideType == [pc : PCs, act : KNOWN_REQUESTED_ACTIONS, gen : Nat, tok : Token,
             idle : BOOLEAN, mat : BOOLEAN, open : BOOLEAN]
FileType == [stage : Stages \cup {"none"}, tok : Token, gen : Nat, told : BOOLEAN]

(* Every column, lease and sidecar field keeps the values the code gives it. *)
TypeOK ==
  /\ db \in RowType
  /\ running \subseteq Workers
  /\ up \in BOOLEAN
  /\ side \in SideType
  /\ file \in FileType
  /\ crashes \in Nat

(* Once the sidecar was told "ready" under a lease, no critical lease exists for as    *)
(* long as that lease does: neither before nor after it stops the application, nor     *)
(* across its crashes can work be admitted beside an install                       *)
(* (acquire_critical, claim_drain, renew_drain_progress).                          *)
ReadyExcludesCritical ==
  /\ file # NoFile /\ Holds(db, file.tok) => Quiet(db)
  /\ side.pc = "ready" /\ Holds(db, side.tok) => Quiet(db)

(* A step that stops the application finds no critical body running. *)
StopsDrained == up /\ ~up' => running = {}

(* The application is never stopped, neither for the cutover nor for a rollback, while  *)
(* a critical body runs: import, purge or eviction is never cut in half.              *)
DrainedBeforeStop == [][StopsDrained]_vars

(* An outcome the coordinator recorded but whose answer was lost is accepted again     *)
(* when the sidecar repeats it: nothing that happens in between displaces it           *)
(* (acknowledge_outcome, the replay branch).                                        *)
LostAnswerReplays ==
  file.told => acknowledge_outcome(db, file.tok, file.gen, OutcomeOf(file.stage)).ok

(* Two fences of the coordinator row.  A generation that was fenced off since it was      *)
(* handed to the sidecar cannot be settled any more: what is acknowledged is the request   *)
(* that is queued now.  And a row in a phase this release does not know is left as it is    *)
(* by every handler but the audited reset (issue #322).                                *)
Coordinator(d) == <<d.phase, d.action, d.gen, d.ack, d.anchor, d.avail, d.lastTok, d.lastRes>>
Fenced ==
  /\ db'.ack # db.ack => db'.ack = db.gen /\ db'.action = "none" /\ db'.gen = db.gen
  /\ db.phase = "unknown" => Coordinator(db') = Coordinator(db) \/ force_reset_phase

(* Both fences hold in every step of the coordinator, the sidecar and the workers. *)
FencesHold == [][Fenced]_vars

(* An operation the sidecar has begun is reported in the end, whatever crash interrupts it. *)
PendingFinishes == file # NoFile ~> file = NoFile

(* A drain, and with it the refusal of critical work, never lasts for ever. *)
DrainEnds == Draining(db) ~> ~Draining(db)
=============================================================================
