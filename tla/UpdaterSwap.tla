---------------------------- MODULE UpdaterSwap ----------------------------
(***************************************************************************)
(* The updater sidecar replaces the application's container                  *)
(* (updater/runner.py, updater/engine.py, updater/state.py).                  *)
(*                                                                         *)
(* An install is a sequence of calls to the Docker engine, with a stage written     *)
(* to a file between any two of them.  The sidecar may die between a call and the     *)
(* write that follows it; a call may fail, with or without its effect.  Whatever     *)
(* the next iteration finds in the file and in the engine has to lead to one          *)
(* container under the service's name, and to an outcome that is true of it.          *)
(*                                                                         *)
(* The coordinator lives in the application: it answers when a container that works    *)
(* is running and attached.  Its lease is the subject of UpdateLease: here it is       *)
(* held until an outcome is recorded, and refused from then on.                   *)
(***************************************************************************)
EXTENDS Naturals, FiniteSets

CONSTANT MaxFaults  \* bound: deaths of the sidecar and calls that fail
ASSUME UpdaterSwapAssumption == MaxFaults \in Nat

VARIABLES
  docker, \* the engine's containers
  file,   \* the sidecar's state file (durable)
  side,   \* the sidecar: where it is, and the ids it knows of
  good,   \* whether the new image works
  multi,  \* whether create attaches every network (engine API 1.44)
  ports,  \* whether the container publishes ports
  told,   \* the outcome the coordinator has recorded
  faults

vars == <<docker, file, side, good, multi, ports, told, faults>>
world == <<good, multi, ports>>

Containers == {"old", "cand", "clone"}
Gone == [name |-> "none", up |-> FALSE, net |-> FALSE]
NoFile == [stage |-> "none", cand |-> FALSE, clone |-> FALSE]
AtRest == [pc |-> "rest", cand |-> FALSE, clone |-> FALSE, to |-> "none", then |-> "none",
           entry |-> "none"]

Exists(c) == docker[c] # Gone
Works(c) == c = "cand" => good
Serves(c) == docker[c].up /\ docker[c].net /\ Works(c)
wait_healthy(c) == docker[c].up /\ Works(c)
Reachable == \E c \in Containers : Serves(c)

RollbackStages == {"rollback_requested", "rollback_created", "rollback_networked",
                   "rollback_started", "rollback_healthy", "rollback_acknowledged"}
_OFFLINE_ROLLBACK_STAGES ==
  {"stop_requested", "old_stopped", "old_disconnected", "candidate_created",
   "candidate_started", "rollback_requested", "rollback_created", "rollback_networked",
   "rollback_started"}

(* The lease is ready, the candidate's configuration is known to be valid.       *)
Init ==
  /\ docker = [c \in Containers |->
                 IF c = "old" THEN [name |-> "app", up |-> TRUE, net |-> TRUE] ELSE Gone]
  /\ file = [NoFile EXCEPT !.stage = "prepared"]
  /\ side = [AtRest EXCEPT !.pc = "install"]
  /\ good \in BOOLEAN /\ multi \in BOOLEAN /\ ports \in BOOLEAN
  /\ told = "none" /\ faults = 0

(***************************************************************************)
(* The engine                                                              *)
(***************************************************************************)
Free(name) == \A c \in Containers : docker[c].name # name
Fault == faults < MaxFaults /\ faults' = faults + 1

(* A call: done, refused by the engine, or failed, its effect had or not.       *)
_request(possible, effect, done, failed) ==
  /\ \/ possible /\ docker' = effect /\ side' = done /\ UNCHANGED faults
     \/ ~possible /\ UNCHANGED docker /\ side' = failed /\ UNCHANGED faults
     \/ Fault /\ side' = failed /\ docker' \in {docker} \cup (IF possible THEN {effect} ELSE {})
  /\ UNCHANGED <<file, told>> /\ UNCHANGED world

stop_container(c, done, failed) ==
  _request(Exists(c), [docker EXCEPT ![c].up = FALSE], done, failed)

(* Published ports cannot be bound twice.                                    *)
start_container(c, done, failed) ==
  _request(Exists(c) /\ (ports => \A d \in Containers \ {c} : ~(docker[d].up /\ docker[d].net)),
           [docker EXCEPT ![c].up = TRUE], done, failed)

create_container(c, name, done, failed) ==
  _request(~Exists(c) /\ Free(name),
           [docker EXCEPT ![c] = [name |-> name, up |-> FALSE, net |-> multi]], done, failed)

remove_container(c, force, done, failed) ==
  _request(Exists(c) /\ (force \/ ~docker[c].up), [docker EXCEPT ![c] = Gone], done, failed)

disconnect_network(c, done, failed) ==
  _request(Exists(c) /\ docker[c].net, [docker EXCEPT ![c].net = FALSE], done, failed)

connect_network(c, done, failed) ==
  IF docker[c].net THEN /\ side' = done
                        /\ UNCHANGED <<docker, file, told, faults>> /\ UNCHANGED world
  ELSE _request(Exists(c), [docker EXCEPT ![c].net = TRUE], done, failed)

_ensure_name(c, name, allowed, done, failed) ==
  IF docker[c].name = name
  THEN side' = done /\ UNCHANGED <<docker, file, told, faults>> /\ UNCHANGED world
  ELSE _request(docker[c].name = allowed /\ Free(name),
                [docker EXCEPT ![c].name = name], done, failed)

(***************************************************************************)
(* The sidecar                                                             *)
(***************************************************************************)
At(pc) == side.pc = pc
Goto(pc) == [side EXCEPT !.pc = pc]
Saving(stage, pc) == [side EXCEPT !.pc = "save", !.to = stage, !.then = pc]
Raise == AtRest     \* run_forever logs it; the next iteration reads the file
Rolling == Goto("rollback")
Unmoved == UNCHANGED <<docker, told, faults>> /\ UNCHANGED world

(* _stage, and the ids it writes along.                                      *)
save ==
  /\ At("save")
  /\ file' = [stage |-> side.to, cand |-> side.cand, clone |-> side.clone]
  /\ side' = IF side.then = "rest" THEN AtRest
             ELSE [side EXCEPT !.pc = side.then, !.to = "none", !.then = "none"]
  /\ Unmoved

Write(stage, pc) ==
  /\ file' = [file EXCEPT !.stage = stage]
  /\ side' = Goto(pc)
  /\ Unmoved

BeginInstall ==
  /\ At("install")
  /\ Write("stop_requested", "stop_old")

StopOld == At("stop_old") /\ stop_container("old", Saving("old_stopped", "detach"), Rolling)
Detach == At("detach") /\ disconnect_network("old", Saving("old_disconnected", "create"), Rolling)

CreateCandidate ==
  /\ At("create")
  /\ create_container("cand", "candidate",
                      [Saving("candidate_created", "attach") EXCEPT !.cand = TRUE], Rolling)

Attach == At("attach") /\ connect_network("cand", Goto("start"), Rolling)
StartCandidate == At("start") /\ start_container("cand", Saving("candidate_started", "health"), Rolling)

(* Waiting may also time out on a container that would have been healthy.       *)
AwaitHealth(pc, c, done, failed) ==
  /\ At(pc)
  /\ \/ wait_healthy(c) /\ side' = done /\ UNCHANGED faults
     \/ ~wait_healthy(c) /\ side' = failed /\ UNCHANGED faults
     \/ Fault /\ side' = failed
  /\ UNCHANGED <<docker, file, told>> /\ UNCHANGED world

CandidateHealthy == AwaitHealth("health", "cand", Saving("candidate_healthy", "finish"), Rolling)

(* A call of the coordinator: applied and heard, applied and not heard, or never   *)
(* arrived.  An outcome already recorded is answered again; another is a conflict.  *)
outcome(o, done, unheard, conflict) ==
  /\ \/ /\ Reachable /\ told \in {"none", o}
        /\ told' = o
        /\ \/ side' = done /\ UNCHANGED faults
           \/ side' = unheard /\ Fault
     \/ /\ Reachable /\ told \notin {"none", o}
        /\ side' = conflict /\ UNCHANGED <<told, faults>>
     \/ ~Reachable /\ side' = unheard /\ UNCHANGED <<told, faults>>
     \/ Fault /\ side' = unheard /\ UNCHANGED told
  /\ UNCHANGED <<docker, file>> /\ UNCHANGED world

(* An iteration that begins by finishing, and cannot, goes on with the lease.      *)
Relet == IF side.entry = "finish" THEN [Goto("lease") EXCEPT !.entry = "none"] ELSE Raise

(* _finish_success: once healthy, it is only ever tried again.                   *)

Finish ==
  AwaitHealth("finish", "cand",
    Goto(CASE file.stage \in {"candidate_renamed"} -> "report"
           [] file.stage = "old_renamed" -> "rename_cand"
           [] OTHER -> "rename_old"),
    Relet)

RenameOld ==
  At("rename_old") /\ _ensure_name("old", "previous", "app", Saving("old_renamed", "rename_cand"), Raise)
RenameCandidate ==
  At("rename_cand") /\ _ensure_name("cand", "app", "candidate", Saving("candidate_renamed", "report"), Raise)

ReportSuccess ==
  /\ At("report")
  /\ outcome("succeeded", Saving("outcome_acknowledged", "cleanup"), Raise, Relet)

(* The previous container goes only now, and only if it has been stopped.        *)
_cleanup(pc, c) ==
  /\ At(pc)
  /\ IF wait_healthy(c) /\ Exists("old")
     THEN remove_container("old", FALSE, Goto("clear"), Raise)
     ELSE /\ side' = IF wait_healthy(c) THEN Goto("clear") ELSE Raise
          /\ UNCHANGED <<docker, file, told, faults>> /\ UNCHANGED world
_cleanup_success == _cleanup("cleanup", "cand")
_cleanup_rollback == _cleanup("cleanup_rb", "clone")

clear == At("clear") /\ file' = NoFile /\ side' = AtRest /\ Unmoved

(***************************************************************************)
(* Going back: a clone of the old container takes the name                    *)
(***************************************************************************)
_rollback ==
  /\ At("rollback")
  /\ IF file.stage \in RollbackStages THEN UNCHANGED file
     ELSE file' = [stage |-> "rollback_requested", cand |-> side.cand, clone |-> side.clone]
  /\ side' = Goto("rb_renew") /\ Unmoved

(* The lease is renewed if the coordinator answers; if it refuses, no more is done. *)
RollbackRenews ==
  /\ At("rb_renew")
  /\ \/ side' = (IF Reachable /\ told # "none" THEN Raise ELSE Goto("find_cand")) /\ UNCHANGED faults
     \/ Fault /\ side' = Goto("find_cand")
  /\ UNCHANGED <<docker, file, told>> /\ UNCHANGED world

FindCandidate ==
  LET known == [side EXCEPT !.cand = @ \/ Exists("cand")]
  IN /\ At("find_cand")
     /\ file' = [file EXCEPT !.cand = known.cand]
     /\ side' = [known EXCEPT !.pc = IF Exists("cand") THEN "stop_cand" ELSE "stop_prev"]
     /\ Unmoved

(* What would go wrong: a candidate that cannot be removed is left behind.        *)
Suppressed_RemoveCandidate ==
  At("remove_cand") /\ remove_container("cand", TRUE, Goto("stop_prev"), Goto("stop_prev"))

(* Stopping is best effort, removing is not.                                  *)
StopCandidate == At("stop_cand") /\ stop_container("cand", Goto("remove_cand"), Goto("remove_cand"))
RemoveCandidate == At("remove_cand") /\ remove_container("cand", TRUE, Goto("stop_prev"), Raise)

StopPrevious ==
  At("stop_prev") /\ stop_container("old", Goto("rename_prev"), Goto("rename_prev"))
RenamePrevious ==
  At("rename_prev") /\ _ensure_name("old", "previous", "app", Goto("detach_prev"), Raise)
DetachPrevious ==
  At("detach_prev") /\ disconnect_network("old", Goto("find_clone"), Goto("find_clone"))

(* What would go wrong: a clone whose id was never written is not looked for.     *)
Blind_FindClone ==
  /\ At("find_clone")
  /\ IF side.clone
     THEN Write(file.stage, "await_clone")
     ELSE Write(file.stage, "create_clone")

(* A clone created before the id could be written is found by its labels.          *)
FindClone ==
  LET found == Exists("clone")
      stage == CASE found /\ ~side.clone -> "rollback_created"
                 [] ~found /\ side.clone -> "rollback_requested"
                 [] OTHER -> file.stage
  IN /\ At("find_clone")
     /\ file' = [stage |-> stage, cand |-> side.cand, clone |-> found]
     /\ side' = [side EXCEPT !.clone = found,
                             !.pc = CASE ~found -> "create_clone"
                                      [] stage = "rollback_created" -> "attach_clone"
                                      [] stage = "rollback_networked" -> "start_clone"
                                      [] stage = "rollback_healthy" -> "recheck_clone"
                                      [] OTHER -> "await_clone"]
     /\ Unmoved

(* It was healthy once and is not any more: another one.                       *)
RecheckClone == AwaitHealth("recheck_clone", "clone", Goto("await_clone"), Goto("stop_clone"))
StopClone == At("stop_clone") /\ stop_container("clone", Goto("remove_clone"), Goto("remove_clone"))
RemoveClone ==
  /\ At("remove_clone")
  /\ remove_container("clone", TRUE,
       [Saving("rollback_requested", "create_clone") EXCEPT !.clone = FALSE], Raise)

CreateClone ==
  /\ At("create_clone")
  /\ create_container("clone", "app",
                      [Saving("rollback_created", "attach_clone") EXCEPT !.clone = TRUE], Raise)
AttachClone ==
  At("attach_clone") /\ connect_network("clone", Saving("rollback_networked", "start_clone"), Raise)
StartClone ==
  At("start_clone") /\ start_container("clone", Saving("rollback_started", "await_clone"), Raise)
CloneHealthy ==
  AwaitHealth("await_clone", "clone", Saving("rollback_healthy", IF side.entry = "offline" THEN "rest" ELSE "finish_rb"),
              Raise)

_finish_rollback_outcome == AwaitHealth("finish_rb", "clone", Goto("report_rb"), Relet)
ReportRollback ==
  /\ At("report_rb")
  /\ outcome("rolled_back", Saving("rollback_acknowledged", "cleanup_rb"), Raise, Relet)

(***************************************************************************)
(* An iteration that finds a file                                           *)
(***************************************************************************)
run_once ==
  /\ At("rest") /\ file # NoFile
  /\ side' = [AtRest EXCEPT !.cand = file.cand, !.clone = file.clone,
                !.entry = IF file.stage \in {"prepared", "candidate_renamed", "rollback_healthy"}
                          THEN "finish" ELSE "none",
                !.pc = CASE file.stage = "outcome_acknowledged" -> "cleanup"
                         [] file.stage = "rollback_acknowledged" -> "cleanup_rb"
                         [] file.stage = "prepared" -> "report_failed"
                         [] file.stage = "candidate_renamed" -> "finish"
                         [] file.stage = "rollback_healthy" -> "finish_rb"
                         [] OTHER -> "lease"]
  /\ UNCHANGED file /\ Unmoved

_ack_pre_cutover_failure ==
  At("report_failed") /\ outcome("failed", Goto("clear"), Raise, Relet)

(* No coordinator answers: with nothing running there is none, so the old image is   *)
(* brought back without it.                                                   *)
Offline == [Rolling EXCEPT !.entry = "offline"]
_ensure_recovery_lease ==
  /\ At("lease")
  /\ \/ Reachable /\ told = "none" /\ side' = Goto("recover") /\ UNCHANGED faults
     \/ Reachable /\ told # "none" /\ side' = Raise /\ UNCHANGED faults
     \/ /\ ~Reachable /\ UNCHANGED faults
        /\ side' = IF file.stage \in _OFFLINE_ROLLBACK_STAGES THEN Offline ELSE Raise
     \/ Fault /\ side' = IF file.stage \in _OFFLINE_ROLLBACK_STAGES THEN Offline ELSE Raise
  /\ UNCHANGED <<docker, file, told>> /\ UNCHANGED world

_recover ==
  /\ At("recover")
  /\ side' = CASE file.stage \notin RollbackStages /\ side.cand /\ Exists("cand") -> Goto("recover_health")
               [] file.stage = "prepared" -> Goto("report_failed")
               [] OTHER -> Rolling
  /\ UNCHANGED file /\ Unmoved
RecoverHealth == AwaitHealth("recover_health", "cand", Goto("finish"), Rolling)

Die ==
  /\ side # AtRest /\ Fault
  /\ side' = AtRest
  /\ UNCHANGED <<docker, file, told>> /\ UNCHANGED world

Install ==
  \/ BeginInstall \/ StopOld \/ Detach \/ CreateCandidate \/ Attach \/ StartCandidate
  \/ CandidateHealthy \/ Finish \/ RenameOld \/ RenameCandidate \/ ReportSuccess
  \/ _cleanup_success \/ clear \/ save
Rollback ==
  \/ _rollback \/ RollbackRenews \/ FindCandidate \/ StopCandidate \/ RemoveCandidate
  \/ StopPrevious \/ RenamePrevious \/ DetachPrevious \/ FindClone \/ RecheckClone
  \/ StopClone \/ RemoveClone \/ CreateClone \/ AttachClone \/ StartClone \/ CloneHealthy
  \/ _finish_rollback_outcome \/ ReportRollback \/ _cleanup_rollback
Recovery ==
  \/ run_once \/ _ack_pre_cutover_failure \/ _ensure_recovery_lease \/ _recover \/ RecoverHealth

Sidecar == Install \/ Rollback \/ Recovery
Finished == At("rest") /\ file = NoFile /\ UNCHANGED vars
Next == Sidecar \/ Die \/ Finished

Spec == Init /\ [][Next]_vars

(* The sidecar's container is restarted and its loop goes on.                  *)
FairSpec == Spec /\ WF_vars(Sidecar)

(***************************************************************************)
(* Properties                                                              *)
(***************************************************************************)
Images(c) == IF c = "cand" THEN "new" ELSE "old"
Serving == {Images(c) : c \in {d \in Containers : Serves(d)}}
Promise == INSTANCE ImageSwap WITH serving <- Serving, told <- told

(* However the sidecar dies or the engine fails, the service sees no more than what    *)
(* ImageSwap promises: one image at a time, one outcome, true when it is reported and    *)
(* from then on.                                                             *)
Refinement == Promise!Spec

(* Every install ends: nothing left to recover, and the one container that has the      *)
(* service's name serves the image that was reported.  Two ends are not that.  Both     *)
(* stops of the old container failed, the second one unnoticed: the clone took over       *)
(* beside it, and the removal of a container that runs is refused for ever.  And a clone   *)
(* that was healthy and was stopped to be replaced, but was not: nobody serves, and its    *)
(* stage is not one that is rolled back without a coordinator.                       *)
Settled ==
  /\ file = NoFile /\ told # "none"
  /\ \E c \in Containers :
       /\ docker[c].name = "app" /\ Serves(c)
       /\ Images(c) = IF told = "succeeded" THEN "new" ELSE "old"
       /\ \A d \in Containers \ {c} : ~Exists(d)
StillRuns == told = "rolled_back" /\ file # NoFile /\ docker["old"].up
Stranded == file.stage = "rollback_healthy" /\ ~docker["clone"].up
InstallSettles == <>Settled \/ <>[]StillRuns \/ <>[]Stranded
=============================================================================
