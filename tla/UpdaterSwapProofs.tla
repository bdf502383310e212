------------------------- MODULE UpdaterSwapProofs -------------------------
(***************************************************************************)
(* UpdaterSwap implements ImageSwap, for any number of deaths of the sidecar and   *)
(* of failed calls: the invariant Inv, that every step preserves it, and that     *)
(* every step is seen from outside as a step of ImageSwap or as nothing.        *)
(*                                                                         *)
(* Inv has three ideas beside the types.  OneImage: a candidate exists only while   *)
(* the old container does not serve and there is no clone.  StagesAgree: what the    *)
(* file says and where the sidecar is fit together.  ToldIsFinal: once an outcome    *)
(* is recorded, the sidecar can no longer reach a step that changes what serves.    *)
(***************************************************************************)
EXTENDS UpdaterSwap, TLAPS

(* What the engine keeps of a container. *)
Names == {"none", "app", "candidate", "previous"}
Boxes == [name : Names, up : BOOLEAN, net : BOOLEAN]

(* Before the candidate exists, and from when it is gone again. *)
CutOver == {"install", "stop_old", "detach", "create"}
Reverting ==
  {"stop_prev", "rename_prev", "detach_prev", "find_clone", "recheck_clone", "stop_clone",
   "remove_clone", "create_clone", "attach_clone", "start_clone", "await_clone", "finish_rb",
   "report_rb", "cleanup_rb"}
(* Where the sidecar can be, and what the file can say. *)
Pcs ==
  {"install", "stop_old", "detach", "create", "attach", "start", "health", "finish",
   "rename_old", "rename_cand", "report", "cleanup",
   "rollback", "rb_renew", "find_cand", "stop_cand", "remove_cand",
   "stop_prev", "rename_prev", "detach_prev", "find_clone", "recheck_clone", "stop_clone",
   "remove_clone", "create_clone", "attach_clone", "start_clone", "await_clone", "finish_rb",
   "report_rb", "cleanup_rb",
   "rest", "lease", "recover", "recover_health", "report_failed", "clear", "save", "none"}

(* The stages in which an outcome may have been recorded. *)
QuietStages ==
  {"none", "prepared", "candidate_renamed", "outcome_acknowledged", "rollback_healthy",
   "rollback_acknowledged"}
Stages ==
  {"none", "prepared", "stop_requested", "old_stopped", "old_disconnected",
   "candidate_created", "candidate_started", "candidate_healthy", "old_renamed",
   "candidate_renamed", "outcome_acknowledged", "rollback_requested", "rollback_created",
   "rollback_networked", "rollback_started", "rollback_healthy", "rollback_acknowledged"}
Sides == [pc : Pcs, cand : BOOLEAN, clone : BOOLEAN, to : Stages, then : Pcs,
          entry : {"none", "finish", "offline"}]
Files == [stage : Stages, cand : BOOLEAN, clone : BOOLEAN]

(* The types. *)
SwapTypes ==
  /\ docker \in [Containers -> Boxes]
  /\ side \in Sides /\ file \in Files
  /\ good \in BOOLEAN /\ multi \in BOOLEAN /\ ports \in BOOLEAN

(* Where the sidecar is, or will be once it has written its stage. *)
Where == IF side.pc = "save" THEN side.then ELSE side.pc
(* The stages that are written only after the candidate is gone. *)
Reverted == RollbackStages \ {"rollback_requested"}
(* Where the sidecar may be once an outcome is recorded. *)
Quiet ==
  {"rest", "save", "finish", "report", "cleanup", "clear", "finish_rb", "report_rb",
   "cleanup_rb", "report_failed", "lease"}
(* Which stage is written on the way to which step. *)
StageThen ==
  {<<"old_stopped", "detach">>, <<"old_disconnected", "create">>,
   <<"candidate_created", "attach">>, <<"candidate_started", "health">>,
   <<"candidate_healthy", "finish">>, <<"old_renamed", "rename_cand">>,
   <<"candidate_renamed", "report">>, <<"outcome_acknowledged", "cleanup">>,
   <<"rollback_requested", "create_clone">>, <<"rollback_created", "attach_clone">>,
   <<"rollback_networked", "start_clone">>, <<"rollback_started", "await_clone">>,
   <<"rollback_healthy", "rest">>, <<"rollback_healthy", "finish_rb">>,
   <<"rollback_acknowledged", "cleanup_rb">>}

(* The two images never run side by side, and why. *)
OneImage ==
  /\ Exists("cand") => ~Serves("old") /\ ~Exists("clone")
  /\ Where \in CutOver => ~Exists("cand") /\ ~Exists("clone")
  /\ Where = "create" => ~docker["old"].net
  /\ Where \in Reverting => ~Exists("cand")
  /\ file.stage \in Reverted \cup {"prepared"} => ~Exists("cand")
  /\ side.pc = "save" /\ side.to \in Reverted => ~Exists("cand")
  /\ Where \in {"rename_old", "rename_cand", "report"} => Exists("cand")

(* The file and the sidecar agree. *)
StagesAgree ==
  /\ side.pc = "save" => <<side.to, side.then>> \in StageThen
  /\ Where \in CutOver => file.stage \notin Reverted
  /\ side.pc = "report" => file.stage = "candidate_renamed"
  /\ side.pc \in {"finish_rb", "report_rb"} => file.stage = "rollback_healthy"
  /\ side.pc = "report_failed" => file.stage = "prepared"
  /\ file.stage = "prepared" =>
       side.pc \in {"install", "rest", "report_failed", "lease", "recover", "clear"}

(* Nothing that serves is touched once an outcome is recorded. *)
ToldIsFinal ==
  told # "none" =>
    /\ side.pc \in Quiet /\ file.stage \in QuietStages
    /\ side.pc = "save" => side.to \in QuietStages
    /\ side.pc = "finish" => file.stage = "candidate_renamed"

(* The inductive invariant. *)
Inv == SwapTypes /\ OneImage /\ StagesAgree /\ ToldIsFinal

(* The names of the steps. *)
LEMMA PcsHas ==
  /\ "install" \in Pcs /\ "stop_old" \in Pcs /\ "detach" \in Pcs /\ "create" \in Pcs
  /\ "attach" \in Pcs /\ "start" \in Pcs /\ "health" \in Pcs /\ "finish" \in Pcs
  /\ "rename_old" \in Pcs /\ "rename_cand" \in Pcs /\ "report" \in Pcs /\ "cleanup" \in Pcs
  /\ "rollback" \in Pcs /\ "rb_renew" \in Pcs /\ "find_cand" \in Pcs /\ "stop_cand" \in Pcs
  /\ "remove_cand" \in Pcs /\ "stop_prev" \in Pcs /\ "rename_prev" \in Pcs /\ "detach_prev" \in Pcs
  /\ "find_clone" \in Pcs /\ "recheck_clone" \in Pcs /\ "stop_clone" \in Pcs /\ "remove_clone" \in Pcs
  /\ "create_clone" \in Pcs /\ "attach_clone" \in Pcs /\ "start_clone" \in Pcs /\ "await_clone" \in Pcs
  /\ "finish_rb" \in Pcs /\ "report_rb" \in Pcs /\ "cleanup_rb" \in Pcs /\ "rest" \in Pcs
  /\ "lease" \in Pcs /\ "recover" \in Pcs /\ "recover_health" \in Pcs /\ "report_failed" \in Pcs
  /\ "clear" \in Pcs /\ "save" \in Pcs /\ "none" \in Pcs
  BY DEF Pcs

(* The names of the stages. *)
LEMMA StagesHas ==
  /\ "none" \in Stages /\ "prepared" \in Stages /\ "candidate_renamed" \in Stages
  /\ "outcome_acknowledged" \in Stages
  /\ "rollback_healthy" \in Stages /\ "rollback_acknowledged" \in Stages
  BY DEF Stages

(* What a step leaves of the sidecar, as far as the invariant asks. *)
IsAt(s, pc) == s \in Sides /\ s.pc = pc
IsSaving(s, st, pc) == s \in Sides /\ s.pc = "save" /\ s.to = st /\ s.then = pc

(* The records the steps leave the sidecar in have their types and fields. *)
LEMMA GotoIs == ASSUME side \in Sides, NEW pc \in Pcs PROVE IsAt(Goto(pc), pc)
  BY DEF Sides, Goto, IsAt
(* The way back. *)
LEMMA RollingIs == ASSUME side \in Sides PROVE IsAt(Rolling, "rollback")
  BY GotoIs DEF Rolling, Pcs
(* A stage about to be written. *)
LEMMA SavingIs ==
  ASSUME side \in Sides, NEW st \in Stages, NEW pc \in Pcs
  PROVE  IsSaving(Saving(st, pc), st, pc)
  <1>1. "save" \in Pcs
    BY DEF Pcs
  <1>. QED BY <1>1 DEF Sides, Saving, IsSaving
(* A stage about to be written with the id of the candidate. *)
LEMMA SavingCandIs ==
  ASSUME side \in Sides, NEW st \in Stages, NEW pc \in Pcs, NEW b \in BOOLEAN
  PROVE  IsSaving([Saving(st, pc) EXCEPT !.cand = b], st, pc)
  BY SavingIs DEF Sides, IsSaving
(* A stage about to be written with the id of the clone. *)
LEMMA SavingCloneIs ==
  ASSUME side \in Sides, NEW st \in Stages, NEW pc \in Pcs, NEW b \in BOOLEAN
  PROVE  IsSaving([Saving(st, pc) EXCEPT !.clone = b], st, pc)
  BY SavingIs DEF Sides, IsSaving
(* An error ends the iteration. *)
LEMMA RaiseIs == IsAt(Raise, "rest")
  <1>1. "rest" \in Pcs /\ "none" \in Pcs /\ "none" \in Stages
    BY DEF Pcs, Stages
  <1>. QED BY <1>1 DEF Raise, AtRest, IsAt, Sides

(* An iteration that began by finishing, and cannot. *)
LEMMA ReletIs == ASSUME side \in Sides PROVE IsAt(Relet, "lease") \/ IsAt(Relet, "rest")
  <1>1. IsAt(Raise, "rest")
    BY RaiseIs
  <1>2. IsAt(Goto("lease"), "lease")
    BY GotoIs DEF Pcs
  <1>3. IsAt([Goto("lease") EXCEPT !.entry = "none"], "lease")
    BY <1>2 DEF IsAt, Sides
  <1>. QED BY <1>1, <1>3 DEF Relet

(* A container that does not exist. *)
LEMMA GoneIs == Gone \in Boxes /\ ~Gone.up /\ ~Gone.net /\ Gone.name = "none" BY
DEF Boxes, Gone, Names

(* The invariant holds when an install begins. *)
LEMMA InitInv == Init => Inv
  <1>. SUFFICES ASSUME Init PROVE Inv OBVIOUS
  <1>1. [name |-> "app", up |-> TRUE, net |-> TRUE] \in Boxes BY DEF Boxes, Names
  <1>2. docker \in [Containers -> Boxes]
     BY <1>1, GoneIs DEF Init, Containers
  <1>3. side \in Sides /\ side.pc = "install"
    <2>1. "install" \in Pcs
      BY DEF Pcs
    <2>. QED BY <2>1, RaiseIs DEF Init, Sides, Raise, IsAt
  <1>4. file \in Files /\ file.stage = "prepared" BY DEF Init, NoFile, Files, Stages
  <1>5. docker["cand"] = Gone /\ docker["clone"] = Gone BY DEF Init, Containers
  <1>6. QED BY <1>2, <1>3, <1>4, <1>5
  DEF Init, Inv, SwapTypes, OneImage, StagesAgree, ToldIsFinal, Exists, Where, CutOver,
      Reverting, Reverted, RollbackStages

(* A call of the engine touches one container. *)
Touched(c) ==
  /\ docker' \in [Containers -> Boxes]
  /\ \A e \in Containers \ {c} : docker'[e] = docker[e]

(* A step that can change what serves: before any outcome is recorded. *)
Switches(c) == Touched(c) /\ told = "none" /\ UNCHANGED <<told, good>>

(* A container is stopped, or the call failed. *)
LEMMA Stops ==
  ASSUME docker \in [Containers -> Boxes], NEW c \in Containers,
         docker' = docker \/ docker' = [docker EXCEPT ![c].up = FALSE]
  PROVE  /\ Touched(c) /\ (docker'[c].up => docker[c].up)
         /\ docker'[c].net = docker[c].net /\ docker'[c].name = docker[c].name
  BY DEF Boxes, Touched
(* A container is started, or the call failed. *)
LEMMA Starts ==
  ASSUME docker \in [Containers -> Boxes], NEW c \in Containers,
         docker' = docker \/ docker' = [docker EXCEPT ![c].up = TRUE]
  PROVE  Touched(c) /\ docker'[c].net = docker[c].net /\ docker'[c].name = docker[c].name
  BY DEF Boxes, Touched
(* A container leaves its networks, or the call failed. *)
LEMMA Detaches ==
  ASSUME docker \in [Containers -> Boxes], NEW c \in Containers,
         docker' = docker \/ docker' = [docker EXCEPT ![c].net = FALSE]
  PROVE  /\ Touched(c) /\ (docker'[c].net => docker[c].net)
         /\ docker'[c].up = docker[c].up /\ docker'[c].name = docker[c].name
  BY DEF Boxes, Touched
(* A container left its networks. *)
LEMMA Detached ==
  ASSUME docker \in [Containers -> Boxes], NEW c \in Containers,
         docker' = [docker EXCEPT ![c].net = FALSE]
  PROVE  ~docker'[c].net
  BY DEF Boxes, Touched
(* A container joins its networks, or the call failed. *)
LEMMA Attaches ==
  ASSUME docker \in [Containers -> Boxes], NEW c \in Containers,
         docker' = docker \/ docker' = [docker EXCEPT ![c].net = TRUE]
  PROVE  Touched(c) /\ docker'[c].up = docker[c].up /\ docker'[c].name = docker[c].name
  BY DEF Boxes, Touched
(* A container is renamed, or the call failed. *)
LEMMA Renames ==
  ASSUME docker \in [Containers -> Boxes], NEW c \in Containers, NEW n \in Names,
         docker' = docker \/ docker' = [docker EXCEPT ![c].name = n]
  PROVE  /\ Touched(c) /\ docker'[c].up = docker[c].up /\ docker'[c].net = docker[c].net
         /\ docker'[c].name \in {docker[c].name, n}
  BY DEF Boxes, Touched
(* A container is created or removed, or the call failed. *)
LEMMA Replaces ==
  ASSUME docker \in [Containers -> Boxes], NEW c \in Containers, NEW x \in Boxes,
         docker' = docker \/ docker' = [docker EXCEPT ![c] = x]
  PROVE  Touched(c) /\ docker'[c] \in {docker[c], x}
  BY DEF Touched

(* The old container stops. *)
LEMMA StopOldKeeps == ASSUME Inv, StopOld PROVE Inv' /\ Switches("old")
  <1>. USE DEF Containers
  <1>1. side \in Sides /\ docker \in [Containers -> Boxes] /\ side.pc = "stop_old"
    BY DEF Inv, SwapTypes, StopOld, At
  <1>2. /\ UNCHANGED <<file, told, good, multi, ports>>
        /\ side' = Saving("old_stopped", "detach") \/ side' = Rolling
        /\ docker' = docker \/ (docker' = [docker EXCEPT !["old"].up = FALSE])
    BY DEF StopOld, stop_container, _request, world
  <1>3. IsSaving(Saving("old_stopped", "detach"), "old_stopped", "detach")
    BY <1>1, SavingIs DEF Pcs, Stages
  <1>4. IsAt(Rolling, "rollback")
    BY <1>1, RollingIs
  <1>5. Touched("old") /\ docker'["old"].net = docker["old"].net /\ (docker'["old"].up => docker["old"].up)
    BY <1>1, <1>2, Stops
  <1>. QED
    BY <1>1, <1>2, <1>3, <1>4, <1>5
    DEF Inv, SwapTypes, Switches, Touched, OneImage, Exists, Serves, Works, Where, Reverting,
        Reverted, StagesAgree, StageThen, ToldIsFinal, Quiet, Containers, CutOver,
        RollbackStages, QuietStages, IsAt, IsSaving

(* The candidate stops. *)
LEMMA StopCandidateKeeps == ASSUME Inv, StopCandidate PROVE Inv' /\ Switches("cand")
  <1>. USE DEF Containers
  <1>1. side \in Sides /\ docker \in [Containers -> Boxes] /\ side.pc = "stop_cand"
    BY DEF Inv, SwapTypes, StopCandidate, At
  <1>2. /\ UNCHANGED <<file, told, good, multi, ports>>
        /\ side' = Goto("remove_cand")
        /\ docker' = docker \/ (Exists("cand") /\ docker' = [docker EXCEPT !["cand"].up = FALSE])
    BY DEF StopCandidate, stop_container, _request, world
  <1>3. IsAt(Goto("remove_cand"), "remove_cand")
    BY <1>1, GotoIs DEF Pcs
  <1>4. Touched("cand") /\ (docker["cand"] = Gone => docker'["cand"] = Gone)
    BY <1>1, <1>2, Stops DEF Exists
  <1>. QED
    BY <1>1, <1>2, <1>3, <1>4
    DEF Inv, SwapTypes, Switches, Touched, OneImage, Exists, Serves, Works, Where, Reverting,
        Reverted, StagesAgree, StageThen, ToldIsFinal, Quiet, Containers, CutOver,
        RollbackStages, QuietStages, IsAt, IsSaving

(* The old container stops, for the second time of asking. *)
LEMMA StopPreviousKeeps == ASSUME Inv, StopPrevious PROVE Inv' /\ Switches("old")
  <1>. USE DEF Containers
  <1>1. side \in Sides /\ docker \in [Containers -> Boxes] /\ side.pc = "stop_prev"
    BY DEF Inv, SwapTypes, StopPrevious, At
  <1>2. /\ UNCHANGED <<file, told, good, multi, ports>>
        /\ side' = Goto("rename_prev")
        /\ docker' = docker \/ (docker' = [docker EXCEPT !["old"].up = FALSE])
    BY DEF StopPrevious, stop_container, _request, world
  <1>3. IsAt(Goto("rename_prev"), "rename_prev")
    BY <1>1, GotoIs DEF Pcs
  <1>4. Touched("old") /\ docker'["old"].net = docker["old"].net /\ (docker'["old"].up => docker["old"].up)
    BY <1>1, <1>2, Stops
  <1>. QED
    BY <1>1, <1>2, <1>3, <1>4
    DEF Inv, SwapTypes, Switches, Touched, OneImage, Exists, Serves, Works, Where, Reverting,
        Reverted, StagesAgree, StageThen, ToldIsFinal, Quiet, Containers, CutOver,
        RollbackStages, QuietStages, IsAt, IsSaving

(* A clone that is not healthy stops. *)
LEMMA StopCloneKeeps == ASSUME Inv, StopClone PROVE Inv' /\ Switches("clone")
  <1>. USE DEF Containers
  <1>1. side \in Sides /\ docker \in [Containers -> Boxes] /\ side.pc = "stop_clone"
    BY DEF Inv, SwapTypes, StopClone, At
  <1>2. /\ UNCHANGED <<file, told, good, multi, ports>>
        /\ side' = Goto("remove_clone")
        /\ docker' = docker \/ (docker' = [docker EXCEPT !["clone"].up = FALSE])
    BY DEF StopClone, stop_container, _request, world
  <1>3. IsAt(Goto("remove_clone"), "remove_clone")
    BY <1>1, GotoIs DEF Pcs
  <1>4. Touched("clone") /\ docker'["clone"].net = docker["clone"].net
        /\ (docker'["clone"].up => docker["clone"].up)
    BY <1>1, <1>2, Stops
  <1>. QED
    BY <1>1, <1>2, <1>3, <1>4
    DEF Inv, SwapTypes, Switches, Touched, OneImage, Exists, Serves, Works, Where, Reverting,
        Reverted, StagesAgree, StageThen, ToldIsFinal, Quiet, Containers, CutOver,
        RollbackStages, QuietStages, IsAt, IsSaving

(* The old container leaves its networks. *)
LEMMA DetachPreviousKeeps == ASSUME Inv, DetachPrevious PROVE Inv' /\ Switches("old")
  <1>. USE DEF Containers
  <1>1. side \in Sides /\ docker \in [Containers -> Boxes] /\ side.pc = "detach_prev"
    BY DEF Inv, SwapTypes, DetachPrevious, At
  <1>2. /\ UNCHANGED <<file, told, good, multi, ports>>
        /\ side' = Goto("find_clone")
        /\ docker' = docker \/ (docker' = [docker EXCEPT !["old"].net = FALSE])
    BY DEF DetachPrevious, disconnect_network, _request, world
  <1>3. IsAt(Goto("find_clone"), "find_clone")
    BY <1>1, GotoIs DEF Pcs
  <1>4. Touched("old") /\ docker'["old"].up = docker["old"].up /\ (docker'["old"].net => docker["old"].net)
    BY <1>1, <1>2, Detaches
  <1>. QED
    BY <1>1, <1>2, <1>3, <1>4
    DEF Inv, SwapTypes, Switches, Touched, OneImage, Exists, Serves, Works, Where, Reverting,
        Reverted, StagesAgree, StageThen, ToldIsFinal, Quiet, Containers, CutOver,
        RollbackStages, QuietStages, IsAt, IsSaving

(* The clone is created. *)
LEMMA CreateCloneKeeps == ASSUME Inv, CreateClone PROVE Inv' /\ Switches("clone")
  <1>. USE DEF Containers
  <1>1. side \in Sides /\ docker \in [Containers -> Boxes] /\ side.pc = "create_clone"
    BY DEF Inv, SwapTypes, CreateClone, At
  <1>2. /\ UNCHANGED <<file, told, good, multi, ports>>
        /\ side' = [Saving("rollback_created", "attach_clone") EXCEPT !.clone = TRUE] \/ side' = Raise
        /\ \/ docker' = docker
           \/ docker' = [docker EXCEPT !["clone"] = [name |-> "app", up |-> FALSE, net |-> multi]]
    BY DEF CreateClone, create_container, Free, _request, world
  <1>3. IsSaving([Saving("rollback_created", "attach_clone") EXCEPT !.clone = TRUE],
                 "rollback_created", "attach_clone")
    BY <1>1, SavingCloneIs DEF Pcs, Stages
  <1>4. IsAt(Raise, "rest")
    BY <1>1, RaiseIs
  <1>5. Touched("clone")
    BY <1>1, <1>2, Replaces DEF Inv, SwapTypes, Boxes, Names
  <1>. QED
    BY <1>1, <1>2, <1>3, <1>4, <1>5
    DEF Inv, SwapTypes, Switches, Touched, OneImage, Exists, Serves, Works, Where, Reverting,
        Reverted, StagesAgree, StageThen, ToldIsFinal, Quiet, Containers, CutOver,
        RollbackStages, QuietStages, IsAt, IsSaving

(* The candidate joins its networks. *)
LEMMA AttachKeeps == ASSUME Inv, Attach PROVE Inv' /\ Switches("cand")
  <1>. USE DEF Containers
  <1>1. side \in Sides /\ docker \in [Containers -> Boxes] /\ side.pc = "attach"
    BY DEF Inv, SwapTypes, Attach, At
  <1>2. /\ UNCHANGED <<file, told, good, multi, ports>>
        /\ side' = Goto("start") \/ side' = Rolling
        /\ docker' = docker \/ (Exists("cand") /\ docker' = [docker EXCEPT !["cand"].net = TRUE])
    BY DEF Attach, connect_network, _request, world
  <1>3. IsAt(Goto("start"), "start")
    BY <1>1, GotoIs DEF Pcs
  <1>4. IsAt(Rolling, "rollback")
    BY <1>1, RollingIs
  <1>5. Touched("cand") /\ (docker["cand"] = Gone => docker'["cand"] = Gone)
    BY <1>1, <1>2, Attaches DEF Exists
  <1>. QED
    BY <1>1, <1>2, <1>3, <1>4, <1>5
    DEF Inv, SwapTypes, Switches, Touched, OneImage, Exists, Serves, Works, Where, Reverting,
        Reverted, StagesAgree, StageThen, ToldIsFinal, Quiet, Containers, CutOver,
        RollbackStages, QuietStages, IsAt, IsSaving

(* The clone joins its networks. *)
LEMMA AttachCloneKeeps == ASSUME Inv, AttachClone PROVE Inv' /\ Switches("clone")
  <1>. USE DEF Containers
  <1>1. side \in Sides /\ docker \in [Containers -> Boxes] /\ side.pc = "attach_clone"
    BY DEF Inv, SwapTypes, AttachClone, At
  <1>2. /\ UNCHANGED <<file, told, good, multi, ports>>
        /\ side' = Saving("rollback_networked", "start_clone") \/ side' = Raise
        /\ docker' = docker \/ (docker' = [docker EXCEPT !["clone"].net = TRUE])
    BY DEF AttachClone, connect_network, _request, world
  <1>3. IsSaving(Saving("rollback_networked", "start_clone"), "rollback_networked", "start_clone")
    BY <1>1, SavingIs DEF Pcs, Stages
  <1>4. IsAt(Raise, "rest")
    BY <1>1, RaiseIs
  <1>5. Touched("clone")
    BY <1>1, <1>2, Attaches
  <1>. QED
    BY <1>1, <1>2, <1>3, <1>4, <1>5
    DEF Inv, SwapTypes, Switches, Touched, OneImage, Exists, Serves, Works, Where, Reverting,
        Reverted, StagesAgree, StageThen, ToldIsFinal, Quiet, Containers, CutOver,
        RollbackStages, QuietStages, IsAt, IsSaving

(* The candidate starts. *)
LEMMA StartCandidateKeeps == ASSUME Inv, StartCandidate PROVE Inv' /\ Switches("cand")
  <1>. USE DEF Containers
  <1>1. side \in Sides /\ docker \in [Containers -> Boxes] /\ side.pc = "start"
    BY DEF Inv, SwapTypes, StartCandidate, At
  <1>2. /\ UNCHANGED <<file, told, good, multi, ports>>
        /\ side' = Saving("candidate_started", "health") \/ side' = Rolling
        /\ docker' = docker \/ (Exists("cand") /\ docker' = [docker EXCEPT !["cand"].up = TRUE])
    BY DEF StartCandidate, start_container, _request, world
  <1>3. IsSaving(Saving("candidate_started", "health"), "candidate_started", "health")
    BY <1>1, SavingIs DEF Pcs, Stages
  <1>4. IsAt(Rolling, "rollback")
    BY <1>1, RollingIs
  <1>5. Touched("cand") /\ (docker["cand"] = Gone => docker'["cand"] = Gone)
    BY <1>1, <1>2, Starts DEF Exists
  <1>. QED
    BY <1>1, <1>2, <1>3, <1>4, <1>5
    DEF Inv, SwapTypes, Switches, Touched, OneImage, Exists, Serves, Works, Where, Reverting,
        Reverted, StagesAgree, StageThen, ToldIsFinal, Quiet, Containers, CutOver,
        RollbackStages, QuietStages, IsAt, IsSaving

(* The clone starts. *)
LEMMA StartCloneKeeps == ASSUME Inv, StartClone PROVE Inv' /\ Switches("clone")
  <1>. USE DEF Containers
  <1>1. side \in Sides /\ docker \in [Containers -> Boxes] /\ side.pc = "start_clone"
    BY DEF Inv, SwapTypes, StartClone, At
  <1>2. /\ UNCHANGED <<file, told, good, multi, ports>>
        /\ side' = Saving("rollback_started", "await_clone") \/ side' = Raise
        /\ docker' = docker \/ (docker' = [docker EXCEPT !["clone"].up = TRUE])
    BY DEF StartClone, start_container, _request, world
  <1>3. IsSaving(Saving("rollback_started", "await_clone"), "rollback_started", "await_clone")
    BY <1>1, SavingIs DEF Pcs, Stages
  <1>4. IsAt(Raise, "rest")
    BY <1>1, RaiseIs
  <1>5. Touched("clone")
    BY <1>1, <1>2, Starts
  <1>. QED
    BY <1>1, <1>2, <1>3, <1>4, <1>5
    DEF Inv, SwapTypes, Switches, Touched, OneImage, Exists, Serves, Works, Where, Reverting,
        Reverted, StagesAgree, StageThen, ToldIsFinal, Quiet, Containers, CutOver,
        RollbackStages, QuietStages, IsAt, IsSaving

(* The clone is removed. *)
LEMMA RemoveCloneKeeps == ASSUME Inv, RemoveClone PROVE Inv' /\ Switches("clone")
  <1>. USE DEF Containers
  <1>1. side \in Sides /\ docker \in [Containers -> Boxes] /\ side.pc = "remove_clone"
    BY DEF Inv, SwapTypes, RemoveClone, At
  <1>2. /\ UNCHANGED <<file, told, good, multi, ports>>
        /\ side' = [Saving("rollback_requested", "create_clone") EXCEPT !.clone = FALSE] \/ side' = Raise
        /\ docker' = docker \/ (docker' = [docker EXCEPT !["clone"] = Gone])
    BY DEF RemoveClone, remove_container, _request, world
  <1>3. IsSaving([Saving("rollback_requested", "create_clone") EXCEPT !.clone = FALSE],
                 "rollback_requested", "create_clone")
    BY <1>1, SavingCloneIs DEF Pcs, Stages
  <1>4. IsAt(Raise, "rest")
    BY <1>1, RaiseIs
  <1>5. Touched("clone")
    BY <1>1, <1>2, Replaces, GoneIs
  <1>. QED
    BY <1>1, <1>2, <1>3, <1>4, <1>5
    DEF Inv, SwapTypes, Switches, Touched, OneImage, Exists, Serves, Works, Where, Reverting,
        Reverted, StagesAgree, StageThen, ToldIsFinal, Quiet, Containers, CutOver,
        RollbackStages, QuietStages, IsAt, IsSaving

(* The old container gives up the name. *)
LEMMA RenamePreviousKeeps == ASSUME Inv, RenamePrevious PROVE Inv' /\ Switches("old")
  <1>. USE DEF Containers
  <1>1. side \in Sides /\ docker \in [Containers -> Boxes] /\ side.pc = "rename_prev"
    BY DEF Inv, SwapTypes, RenamePrevious, At
  <1>2. /\ UNCHANGED <<file, told, good, multi, ports>>
        /\ side' = Goto("detach_prev") \/ side' = Raise
        /\ docker' = docker \/ (docker' = [docker EXCEPT !["old"].name = "previous"])
    BY DEF RenamePrevious, _ensure_name, Free, _request, world
  <1>3. IsAt(Goto("detach_prev"), "detach_prev")
    BY <1>1, GotoIs DEF Pcs
  <1>4. IsAt(Raise, "rest")
    BY <1>1, RaiseIs
  <1>5. Touched("old") /\ docker'["old"].up = docker["old"].up /\ docker'["old"].net = docker["old"].net
    BY <1>1, <1>2, Renames DEF Names
  <1>. QED
    BY <1>1, <1>2, <1>3, <1>4, <1>5
    DEF Inv, SwapTypes, Switches, Touched, OneImage, Exists, Serves, Works, Where, Reverting,
        Reverted, StagesAgree, StageThen, ToldIsFinal, Quiet, Containers, CutOver,
        RollbackStages, QuietStages, IsAt, IsSaving

(* The old container gives up the name, the candidate being healthy. *)
LEMMA RenameOldKeeps == ASSUME Inv, RenameOld PROVE Inv' /\ Switches("old")
  <1>. USE DEF Containers
  <1>1. side \in Sides /\ docker \in [Containers -> Boxes] /\ side.pc = "rename_old"
    BY DEF Inv, SwapTypes, RenameOld, At
  <1>2. /\ UNCHANGED <<file, told, good, multi, ports>>
        /\ side' = Saving("old_renamed", "rename_cand") \/ side' = Raise
        /\ docker' = docker \/ (docker' = [docker EXCEPT !["old"].name = "previous"])
    BY DEF RenameOld, _ensure_name, Free, _request, world
  <1>3. IsSaving(Saving("old_renamed", "rename_cand"), "old_renamed", "rename_cand")
    BY <1>1, SavingIs DEF Pcs, Stages
  <1>4. IsAt(Raise, "rest")
    BY <1>1, RaiseIs
  <1>5. Touched("old") /\ docker'["old"].up = docker["old"].up /\ docker'["old"].net = docker["old"].net
    BY <1>1, <1>2, Renames DEF Names
  <1>. QED
    BY <1>1, <1>2, <1>3, <1>4, <1>5
    DEF Inv, SwapTypes, Switches, Touched, OneImage, Exists, Serves, Works, Where, Reverting,
        Reverted, StagesAgree, StageThen, ToldIsFinal, Quiet, Containers, CutOver,
        RollbackStages, QuietStages, IsAt, IsSaving

(* Only a container that has left its networks lets the candidate be created. *)
LEMMA DetachKeeps == ASSUME Inv, Detach PROVE Inv' /\ Switches("old")
  <1>. USE DEF Containers
  <1>1. side \in Sides /\ docker \in [Containers -> Boxes] /\ side.pc = "detach"
    BY DEF Inv, SwapTypes, Detach, At
  <1>2. /\ UNCHANGED <<file, told, good, multi, ports>>
        /\ \/ side' = Saving("old_disconnected", "create") /\ docker' = [docker EXCEPT !["old"].net = FALSE]
           \/ side' = Rolling
        /\ docker' = docker \/ docker' = [docker EXCEPT !["old"].net = FALSE]
    BY DEF Detach, disconnect_network, _request, world
  <1>3. IsSaving(Saving("old_disconnected", "create"), "old_disconnected", "create")
    BY <1>1, SavingIs DEF Pcs, Stages
  <1>4. IsAt(Rolling, "rollback")
    BY <1>1, RollingIs
  <1>5. Touched("old") /\ docker'["old"].up = docker["old"].up /\ (docker'["old"].net => docker["old"].net)
    BY <1>1, <1>2, Detaches
  <1>6. docker' = [docker EXCEPT !["old"].net = FALSE] => ~docker'["old"].net
    BY <1>1, Detached
  <1>. QED
    BY <1>1, <1>2, <1>3, <1>4, <1>5, <1>6
    DEF Inv, SwapTypes, Switches, Touched, OneImage, Exists, Serves, Works, Where, Reverting,
        Reverted, StagesAgree, StageThen, ToldIsFinal, Quiet, Containers, CutOver,
        RollbackStages, QuietStages, IsAt, IsSaving

(* The candidate is created when the old container has left the networks. *)
LEMMA CreateCandidateKeeps == ASSUME Inv, CreateCandidate PROVE Inv' /\ Switches("cand")
  <1>. USE DEF Containers
  <1>1. side \in Sides /\ docker \in [Containers -> Boxes] /\ side.pc = "create"
    BY DEF Inv, SwapTypes, CreateCandidate, At
  <1>2. /\ UNCHANGED <<file, told, good, multi, ports>>
        /\ \/ side' = [Saving("candidate_created", "attach") EXCEPT !.cand = TRUE]
           \/ side' = Rolling
        /\ \/ docker' = docker
           \/ docker' = [docker EXCEPT !["cand"] = [name |-> "candidate", up |-> FALSE, net |-> multi]]
    BY DEF CreateCandidate, create_container, _request, world
  <1>3. IsSaving([Saving("candidate_created", "attach") EXCEPT !.cand = TRUE], "candidate_created", "attach")
    BY <1>1, SavingCandIs DEF Pcs, Stages
  <1>4. IsAt(Rolling, "rollback")
    BY <1>1, RollingIs
  <1>5. Touched("cand")
    BY <1>1, <1>2, Replaces DEF Inv, SwapTypes, Boxes, Names
  <1>6. file.stage \notin Reverted \cup {"prepared"}
    BY <1>1 DEF Inv, StagesAgree, Where, CutOver
  <1>7. told = "none" /\ ~docker["old"].net /\ ~Exists("clone")
    BY <1>1 DEF Inv, ToldIsFinal, Quiet, OneImage, Where, CutOver
  <1>8. SwapTypes'
    BY <1>2, <1>3, <1>4, <1>5 DEF Inv, SwapTypes, Touched, IsAt, IsSaving
  <1>9. OneImage'
    BY <1>2, <1>3, <1>4, <1>5, <1>6, <1>7
    DEF OneImage, Touched, IsAt, IsSaving, Exists, Serves, Where, CutOver, Reverting, Reverted, RollbackStages
  <1>10. StagesAgree' /\ ToldIsFinal'
    BY <1>2, <1>3, <1>4, <1>6, <1>7
    DEF StagesAgree, ToldIsFinal, IsAt, IsSaving, Where, CutOver, StageThen
  <1>. QED BY <1>2, <1>5, <1>7, <1>8, <1>9, <1>10 DEF Inv, Switches

(* Going back continues only when the candidate is gone. *)
LEMMA RemoveCandidateKeeps == ASSUME Inv, RemoveCandidate PROVE Inv' /\ Switches("cand")
  <1>. USE DEF Containers
  <1>1. side \in Sides /\ docker \in [Containers -> Boxes] /\ side.pc = "remove_cand"
    BY DEF Inv, SwapTypes, RemoveCandidate, At
  <1>2. /\ UNCHANGED <<file, told, good, multi, ports>>
        /\ \/ side' = Goto("stop_prev") /\ docker' = [docker EXCEPT !["cand"] = Gone]
           \/ side' = Raise
        /\ docker' = docker \/ docker' = [docker EXCEPT !["cand"] = Gone]
    BY DEF RemoveCandidate, remove_container, _request, world
  <1>3. IsAt(Goto("stop_prev"), "stop_prev")
    BY <1>1, GotoIs DEF Pcs
  <1>4. IsAt(Raise, "rest")
    BY RaiseIs
  <1>5. Touched("cand") /\ docker'["cand"] \in {docker["cand"], Gone}
    BY <1>1, <1>2, Replaces, GoneIs
  <1>6. docker' = [docker EXCEPT !["cand"] = Gone] => docker'["cand"] = Gone
    BY <1>1
  <1>. QED
    BY <1>1, <1>2, <1>3, <1>4, <1>5, <1>6
    DEF Inv, SwapTypes, Switches, Touched, OneImage, Exists, Serves, Works, Where, Reverting,
        Reverted, StagesAgree, StageThen, ToldIsFinal, Quiet, Containers, CutOver,
        RollbackStages, QuietStages, IsAt, IsSaving

(* The candidate takes the name: it is there before and after. *)
LEMMA RenameCandidateKeeps == ASSUME Inv, RenameCandidate PROVE Inv' /\ Switches("cand")
  <1>. USE DEF Containers
  <1>1. side \in Sides /\ docker \in [Containers -> Boxes] /\ side.pc = "rename_cand"
    BY DEF Inv, SwapTypes, RenameCandidate, At
  <1>2. /\ UNCHANGED <<file, told, good, multi, ports>>
        /\ side' = Saving("candidate_renamed", "report") \/ side' = Raise
        /\ docker' = docker \/ docker' = [docker EXCEPT !["cand"].name = "app"]
    BY DEF RenameCandidate, _ensure_name, _request, world
  <1>3. IsSaving(Saving("candidate_renamed", "report"), "candidate_renamed", "report")
    BY <1>1, SavingIs DEF Pcs, Stages
  <1>4. IsAt(Raise, "rest")
    BY RaiseIs
  <1>5. Touched("cand") /\ docker'["cand"].up = docker["cand"].up /\ docker'["cand"].net = docker["cand"].net
    BY <1>1, <1>2, Renames DEF Names
  <1>6. Exists("cand") /\ docker'["cand"] # Gone
    <2>1. Exists("cand")
      BY <1>1 DEF Inv, OneImage, Where
    <2>2. CASE docker' = docker
      BY <2>1, <2>2 DEF Exists
    <2>3. CASE docker' = [docker EXCEPT !["cand"].name = "app"]
      <3>1. docker'["cand"].name = "app"
        BY <1>1, <2>3 DEF Boxes
      <3>. QED BY <2>1, <3>1, GoneIs
    <2>. QED BY <1>2, <2>1, <2>2, <2>3
  <1>. QED
    BY <1>1, <1>2, <1>3, <1>4, <1>5, <1>6
    DEF Inv, SwapTypes, Switches, Touched, OneImage, Exists, Serves, Works, Where, Reverting,
        Reverted, StagesAgree, StageThen, ToldIsFinal, Quiet, Containers, CutOver,
        RollbackStages, QuietStages, IsAt, IsSaving

(* The previous container is removed only if it does not run. *)
LEMMA CleanupKeeps ==
  ASSUME Inv, _cleanup_success \/ _cleanup_rollback
  PROVE  /\ Inv' /\ Touched("old") /\ UNCHANGED <<told, good>>
         /\ docker' = docker \/ (~docker["old"].up /\ ~docker'["old"].up)
  <1>. USE DEF Containers
  <1>1. side \in Sides /\ docker \in [Containers -> Boxes] /\ side.pc \in {"cleanup", "cleanup_rb"}
    BY DEF Inv, SwapTypes, _cleanup_success, _cleanup_rollback, _cleanup, At
  <1>2. /\ UNCHANGED <<file, told, good, multi, ports>>
        /\ side' = Goto("clear") \/ side' = Raise
        /\ docker' = docker \/ (docker' = [docker EXCEPT !["old"] = Gone] /\ ~docker["old"].up)
    BY DEF _cleanup_success, _cleanup_rollback, _cleanup, remove_container, _request, world
  <1>3. IsAt(Goto("clear"), "clear")
    BY <1>1, GotoIs DEF Pcs
  <1>4. IsAt(Raise, "rest")
    BY RaiseIs
  <1>5. Touched("old") /\ docker'["old"] \in {docker["old"], Gone}
    BY <1>1, <1>2, Replaces, GoneIs
  <1>. QED
    BY <1>1, <1>2, <1>3, <1>4, <1>5, GoneIs
    DEF Inv, SwapTypes, Switches, Touched, OneImage, Exists, Serves, Works, Where, Reverting,
        Reverted, StagesAgree, StageThen, ToldIsFinal, Quiet, Containers, CutOver,
        RollbackStages, QuietStages, IsAt, IsSaving

(* A wait for the candidate's health, after its start or after a restart. *)
LEMMA CandidateHealthyKeeps ==
  ASSUME Inv, CandidateHealthy \/ RecoverHealth PROVE Inv' /\ UNCHANGED <<docker, told, good>>
  <1>1. side \in Sides /\ side.pc \in {"health", "recover_health"}
    BY DEF Inv, SwapTypes, CandidateHealthy, RecoverHealth, AwaitHealth, At
  <1>2. /\ UNCHANGED <<docker, file, told, good, multi, ports>>
        /\ side' \in {Saving("candidate_healthy", "finish"), Goto("finish"), Rolling}
    BY DEF CandidateHealthy, RecoverHealth, AwaitHealth, world
  <1>3. IsSaving(Saving("candidate_healthy", "finish"), "candidate_healthy", "finish")
    BY <1>1, SavingIs DEF Pcs, Stages
  <1>4. IsAt(Goto("finish"), "finish")
    BY <1>1, GotoIs DEF Pcs
  <1>5. IsAt(Rolling, "rollback")
    BY <1>1, RollingIs
  <1>. QED
    BY <1>1, <1>2, <1>3, <1>4, <1>5
    DEF Inv, SwapTypes, OneImage, Exists, Serves, Works, Where, Reverting, Reverted,
        StagesAgree, StageThen, ToldIsFinal, Quiet, Containers, CutOver, RollbackStages,
        QuietStages, IsAt, IsSaving

(* Finishing needs a candidate that runs, so one that exists. *)
LEMMA FinishKeeps == ASSUME Inv, Finish PROVE Inv' /\ UNCHANGED <<docker, told, good>>
  <1>1. side \in Sides /\ docker \in [Containers -> Boxes] /\ side.pc = "finish"
    BY DEF Inv, SwapTypes, Finish, AwaitHealth, At
  <1>2. /\ UNCHANGED <<docker, file, told, good, multi, ports>>
        /\ \/ /\ docker["cand"].up
              /\ \/ side' = Goto("report") /\ file.stage = "candidate_renamed"
                 \/ side' = Goto("rename_cand") /\ file.stage # "candidate_renamed"
                 \/ side' = Goto("rename_old") /\ file.stage # "candidate_renamed"
           \/ side' = Relet
    BY DEF Finish, AwaitHealth, wait_healthy, world
  <1>3. IsAt(Goto("report"), "report") /\ IsAt(Goto("rename_cand"), "rename_cand")
        /\ IsAt(Goto("rename_old"), "rename_old")
    BY <1>1, GotoIs DEF Pcs
  <1>4. IsAt(Relet, "lease") \/ IsAt(Relet, "rest")
    BY <1>1, ReletIs
  <1>5. docker["cand"].up => Exists("cand")
    BY <1>1, GoneIs DEF Exists
  <1>. QED
    BY <1>1, <1>2, <1>3, <1>4, <1>5
    DEF Inv, SwapTypes, OneImage, Exists, Serves, Works, Where, Reverting, Reverted,
        StagesAgree, StageThen, ToldIsFinal, Quiet, Containers, CutOver, RollbackStages,
        QuietStages, IsAt, IsSaving

(* The stage the sidecar was about to write is written. *)
LEMMA SaveKeeps == ASSUME Inv, save PROVE Inv' /\ UNCHANGED <<docker, told, good>>
  <1>1. side \in Sides /\ side.pc = "save" /\ <<side.to, side.then>> \in StageThen
    BY DEF Inv, SwapTypes, save, At, StagesAgree
  <1>2. /\ UNCHANGED <<docker, told, good, multi, ports>>
        /\ file' = [stage |-> side.to, cand |-> side.cand, clone |-> side.clone]
        /\ \/ side' = AtRest /\ side.then = "rest"
           \/ side' = [side EXCEPT !.pc = side.then, !.to = "none", !.then = "none"]
    BY DEF save, Unmoved, world
  <1>3. file' \in Files /\ file'.stage = side.to
    BY <1>1, <1>2 DEF Files, Sides
  <1>4. side' \in Sides /\ side'.pc = side.then
    <2>1. IsAt(AtRest, "rest")
      BY RaiseIs DEF Raise
    <2>2. [side EXCEPT !.pc = side.then, !.to = "none", !.then = "none"] \in Sides
      BY <1>1, PcsHas, StagesHas DEF Sides
    <2>3. [side EXCEPT !.pc = side.then, !.to = "none", !.then = "none"].pc = side.then
      BY <1>1 DEF Sides
    <2>. QED BY <1>2, <2>1, <2>2, <2>3 DEF IsAt
  <1>5. side.then # "save"
    BY <1>1 DEF StageThen
  <1>6. SwapTypes'
    BY <1>2, <1>3, <1>4 DEF Inv, SwapTypes
  <1>7. OneImage'
    BY <1>1, <1>2, <1>3, <1>4, <1>5
    DEF Inv, OneImage, Where, Exists, Serves, Works, StageThen, Reverted, RollbackStages,
        CutOver, Reverting
  <1>8. StagesAgree'
    BY <1>1, <1>2, <1>3, <1>4, <1>5
    DEF Inv, StagesAgree, Where, StageThen, Reverted, RollbackStages, CutOver
  <1>9. ToldIsFinal'
    BY <1>1, <1>2, <1>3, <1>4, <1>5 DEF Inv, ToldIsFinal, StageThen, Quiet, QuietStages
  <1>. QED BY <1>2, <1>6, <1>7, <1>8, <1>9 DEF Inv

(* The install begins. *)
LEMMA BeginInstallKeeps == ASSUME Inv, BeginInstall PROVE Inv' /\ UNCHANGED <<docker, told, good>>
  <1>1. side \in Sides /\ file \in Files /\ side.pc = "install"
    BY DEF Inv, SwapTypes, BeginInstall, At
  <1>2. /\ UNCHANGED <<docker, told, good, multi, ports>>
        /\ file' = [file EXCEPT !.stage = "stop_requested"]
        /\ side' = Goto("stop_old")
    BY DEF BeginInstall, Write, Unmoved, world
  <1>3. IsAt(Goto("stop_old"), "stop_old")
    BY <1>1, GotoIs DEF Pcs
  <1>4. file' \in Files /\ file'.stage = "stop_requested"
    BY <1>1, <1>2 DEF Files, Stages
  <1>. QED
    BY <1>1, <1>2, <1>3, <1>4
    DEF Inv, SwapTypes, OneImage, Exists, Serves, Works, Where, Reverting, Reverted,
        StagesAgree, StageThen, ToldIsFinal, Quiet, Containers, CutOver, RollbackStages,
        QuietStages, IsAt, IsSaving

(* The file is deleted. *)
LEMMA ClearKeeps == ASSUME Inv, clear PROVE Inv' /\ UNCHANGED <<docker, told, good>>
  <1>1. side \in Sides /\ side.pc = "clear"
    BY DEF Inv, SwapTypes, clear, At
  <1>2. /\ UNCHANGED <<docker, told, good, multi, ports>>
        /\ file' = NoFile /\ side' = Raise
    BY DEF clear, Unmoved, world, Raise
  <1>3. IsAt(Raise, "rest")
    BY RaiseIs
  <1>4. file' \in Files /\ file'.stage = "none"
    BY <1>2, StagesHas DEF Files, NoFile
  <1>. QED
    BY <1>1, <1>2, <1>3, <1>4
    DEF Inv, SwapTypes, OneImage, Exists, Serves, Works, Where, Reverting, Reverted,
        StagesAgree, StageThen, ToldIsFinal, Quiet, Containers, CutOver, RollbackStages,
        QuietStages, IsAt, IsSaving

(* The way back is written down before anything is undone. *)
LEMMA RollbackKeeps == ASSUME Inv, _rollback PROVE Inv' /\ UNCHANGED <<docker, told, good>>
  <1>1. side \in Sides /\ file \in Files /\ side.pc = "rollback"
    BY DEF Inv, SwapTypes, _rollback, At
  <1>2. /\ UNCHANGED <<docker, told, good, multi, ports>>
        /\ \/ UNCHANGED file
           \/ file' = [stage |-> "rollback_requested", cand |-> side.cand, clone |-> side.clone]
        /\ side' = Goto("rb_renew")
    BY DEF _rollback, Unmoved, world
  <1>3. IsAt(Goto("rb_renew"), "rb_renew")
    BY <1>1, GotoIs DEF Pcs
  <1>4. file' \in Files /\ file'.stage \in {file.stage, "rollback_requested"}
    <2>1. [stage |-> "rollback_requested", cand |-> side.cand, clone |-> side.clone] \in Files
      BY <1>1 DEF Files, Sides, Stages
    <2>. QED BY <1>1, <1>2, <2>1
  <1>. QED
    BY <1>1, <1>2, <1>3, <1>4
    DEF Inv, SwapTypes, OneImage, Exists, Serves, Works, Where, Reverting, Reverted,
        StagesAgree, StageThen, ToldIsFinal, Quiet, Containers, CutOver, RollbackStages,
        QuietStages, IsAt, IsSaving

(* The renewal, answered or not. *)
LEMMA RollbackRenewsKeeps == ASSUME Inv, RollbackRenews PROVE Inv' /\ UNCHANGED <<docker, told, good>>
  <1>1. side \in Sides /\ side.pc = "rb_renew"
    BY DEF Inv, SwapTypes, RollbackRenews, At
  <1>2. /\ UNCHANGED <<docker, file, told, good, multi, ports>>
        /\ side' = Goto("find_cand") \/ side' = Raise
    BY DEF RollbackRenews, world
  <1>3. IsAt(Goto("find_cand"), "find_cand")
    BY <1>1, GotoIs DEF Pcs
  <1>4. IsAt(Raise, "rest")
    BY RaiseIs
  <1>. QED
    BY <1>1, <1>2, <1>3, <1>4
    DEF Inv, SwapTypes, OneImage, Exists, Serves, Works, Where, Reverting, Reverted,
        StagesAgree, StageThen, ToldIsFinal, Quiet, Containers, CutOver, RollbackStages,
        QuietStages, IsAt, IsSaving

(* A candidate that does not exist needs no removal. *)
LEMMA FindCandidateKeeps == ASSUME Inv, FindCandidate PROVE Inv' /\ UNCHANGED <<docker, told, good>>
  <1>1. side \in Sides /\ file \in Files /\ side.pc = "find_cand"
    BY DEF Inv, SwapTypes, FindCandidate, At
  <1>2. /\ UNCHANGED <<docker, told, good, multi, ports>>
        /\ \E b \in BOOLEAN :
             /\ file' = [file EXCEPT !.cand = b]
             /\ \/ ~Exists("cand") /\ side' = [[side EXCEPT !.cand = b] EXCEPT !.pc = "stop_prev"]
                \/ side' = [[side EXCEPT !.cand = b] EXCEPT !.pc = "stop_cand"]
    <2>1. (side.cand \/ Exists("cand")) \in BOOLEAN /\ side.cand \in BOOLEAN
      BY <1>1 DEF Sides
    <2>2. [side EXCEPT !.cand = @ \/ Exists("cand")].cand \in BOOLEAN
      BY <1>1, <2>1 DEF Sides
    <2>. QED BY <2>1, <2>2 DEF FindCandidate, Unmoved, world
  <1>3. PICK b \in BOOLEAN :
             /\ file' = [file EXCEPT !.cand = b]
             /\ \/ ~Exists("cand") /\ side' = [[side EXCEPT !.cand = b] EXCEPT !.pc = "stop_prev"]
                \/ side' = [[side EXCEPT !.cand = b] EXCEPT !.pc = "stop_cand"]
    BY <1>2
  <1>4. side' \in Sides /\ ((side'.pc = "stop_prev" /\ ~Exists("cand")) \/ side'.pc = "stop_cand")
    BY <1>1, <1>3, PcsHas DEF Sides
  <1>5. file' \in Files /\ file'.stage = file.stage
    BY <1>1, <1>3 DEF Files
  <1>. QED
    BY <1>1, <1>2, <1>4, <1>5
    DEF Inv, SwapTypes, OneImage, Exists, Serves, Works, Where, Reverting, Reverted,
        StagesAgree, StageThen, ToldIsFinal, Quiet, Containers, CutOver, RollbackStages,
        QuietStages, IsAt, IsSaving

(* The clone is looked for.  By now no candidate exists. *)
LEMMA FindCloneKeeps == ASSUME Inv, FindClone PROVE Inv' /\ UNCHANGED <<docker, told, good>>
  <1>1. side \in Sides /\ file \in Files /\ side.pc = "find_clone" /\ told = "none" /\ ~Exists("cand")
    BY DEF Inv, SwapTypes, FindClone, At, ToldIsFinal, Quiet, OneImage, Where, Reverting
  <1>. DEFINE found == Exists("clone")
              st == CASE found /\ ~side.clone -> "rollback_created"
                      [] ~found /\ side.clone -> "rollback_requested"
                      [] OTHER -> file.stage
              pc == CASE ~found -> "create_clone"
                      [] st = "rollback_created" -> "attach_clone"
                      [] st = "rollback_networked" -> "start_clone"
                      [] st = "rollback_healthy" -> "recheck_clone"
                      [] OTHER -> "await_clone"
  <1>2. /\ UNCHANGED <<docker, told, good, multi, ports>>
        /\ file' = [stage |-> st, cand |-> side.cand, clone |-> found]
        /\ side' = [side EXCEPT !.clone = found, !.pc = pc]
    BY DEF FindClone, Unmoved, world
  <1>3. /\ st \in {"rollback_created", "rollback_requested", file.stage}
        /\ pc \in {"create_clone", "attach_clone", "start_clone", "recheck_clone", "await_clone"}
        /\ found \in BOOLEAN
    BY DEF Exists
  <1>. HIDE DEF found, st, pc
  <1>4. side' \in Sides /\ side'.pc = pc
    <2>1. pc \in Pcs
      BY <1>3 DEF Pcs
    <2>. QED BY <1>1, <1>2, <1>3, <2>1 DEF Sides
  <1>5. file' \in Files /\ file'.stage = st
    <2>1. st \in Stages
      BY <1>1, <1>3 DEF Stages, Files
    <2>. QED BY <1>1, <1>2, <1>3, <2>1 DEF Files, Sides
  <1>6. st # "prepared"
    BY <1>1, <1>3 DEF Inv, StagesAgree
  <1>. QED
    BY <1>1, <1>2, <1>3, <1>4, <1>5, <1>6
    DEF Inv, SwapTypes, OneImage, Exists, Serves, Works, Where, Reverting, Reverted,
        StagesAgree, StageThen, ToldIsFinal, Quiet, Containers, CutOver, RollbackStages,
        QuietStages, IsAt, IsSaving

(* A wait for the clone's health. *)
LEMMA CloneHealthKeeps ==
  ASSUME Inv, RecheckClone \/ CloneHealthy PROVE Inv' /\ UNCHANGED <<docker, told, good>>
  <1>1. side \in Sides /\ side.pc \in {"recheck_clone", "await_clone"}
    BY DEF Inv, SwapTypes, RecheckClone, CloneHealthy, AwaitHealth, At
  <1>2. /\ UNCHANGED <<docker, file, told, good, multi, ports>>
        /\ side' \in {Goto("await_clone"), Goto("stop_clone"), Raise,
                      Saving("rollback_healthy", "rest"), Saving("rollback_healthy", "finish_rb")}
    BY DEF RecheckClone, CloneHealthy, AwaitHealth, world
  <1>3. IsAt(Goto("await_clone"), "await_clone") /\ IsAt(Goto("stop_clone"), "stop_clone")
        /\ IsAt(Raise, "rest")
    BY <1>1, GotoIs, RaiseIs DEF Pcs
  <1>4. IsSaving(Saving("rollback_healthy", "rest"), "rollback_healthy", "rest")
    BY <1>1, SavingIs DEF Pcs, Stages
  <1>5. IsSaving(Saving("rollback_healthy", "finish_rb"), "rollback_healthy", "finish_rb")
    BY <1>1, SavingIs DEF Pcs, Stages
  <1>. QED
    BY <1>1, <1>2, <1>3, <1>4, <1>5
    DEF Inv, SwapTypes, OneImage, Exists, Serves, Works, Where, Reverting, Reverted,
        StagesAgree, StageThen, ToldIsFinal, Quiet, Containers, CutOver, RollbackStages,
        QuietStages, IsAt, IsSaving

(* The clone's health before its outcome is reported. *)
LEMMA FinishRollbackKeeps ==
  ASSUME Inv, _finish_rollback_outcome PROVE Inv' /\ UNCHANGED <<docker, told, good>>
  <1>1. side \in Sides /\ side.pc = "finish_rb"
    BY DEF Inv, SwapTypes, _finish_rollback_outcome, AwaitHealth, At
  <1>2. /\ UNCHANGED <<docker, file, told, good, multi, ports>>
        /\ side' = Goto("report_rb") \/ side' = Relet
    BY DEF _finish_rollback_outcome, AwaitHealth, world
  <1>3. IsAt(Goto("report_rb"), "report_rb")
    BY <1>1, GotoIs DEF Pcs
  <1>4. IsAt(Relet, "lease") \/ IsAt(Relet, "rest")
    BY <1>1, ReletIs
  <1>. QED
    BY <1>1, <1>2, <1>3, <1>4
    DEF Inv, SwapTypes, OneImage, Exists, Serves, Works, Where, Reverting, Reverted,
        StagesAgree, StageThen, ToldIsFinal, Quiet, Containers, CutOver, RollbackStages,
        QuietStages, IsAt, IsSaving

(* A report is recorded once, by a coordinator that runs. *)
Reported(o) == told' = told \/ (told = "none" /\ told' = o /\ Reachable)

(* Success. *)
LEMMA ReportSuccessKeeps ==
  ASSUME Inv, ReportSuccess
  PROVE  Inv' /\ UNCHANGED <<docker, good>> /\ Reported("succeeded") /\ Exists("cand")
  <1>1. side \in Sides /\ side.pc = "report" /\ Exists("cand")
    BY DEF Inv, SwapTypes, ReportSuccess, At, OneImage, Where
  <1>2. /\ UNCHANGED <<docker, file, good, multi, ports>> /\ Reported("succeeded")
        /\ side' = Saving("outcome_acknowledged", "cleanup") \/ side' = Raise \/ side' = Relet
    BY DEF ReportSuccess, outcome, world, Reported
  <1>3. IsSaving(Saving("outcome_acknowledged", "cleanup"), "outcome_acknowledged", "cleanup")
    BY <1>1, SavingIs DEF Pcs, Stages
  <1>4. IsAt(Raise, "rest") /\ (IsAt(Relet, "lease") \/ IsAt(Relet, "rest"))
    BY <1>1, RaiseIs, ReletIs
  <1>. QED
    BY <1>1, <1>2, <1>3, <1>4
    DEF Inv, SwapTypes, OneImage, Exists, Serves, Works, Where, Reverting, Reverted,
        StagesAgree, StageThen, ToldIsFinal, Quiet, Containers, CutOver, RollbackStages,
        QuietStages, IsAt, IsSaving, Reported

(* A return to the old image. *)
LEMMA ReportRollbackKeeps ==
  ASSUME Inv, ReportRollback
  PROVE  Inv' /\ UNCHANGED <<docker, good>> /\ Reported("rolled_back") /\ ~Exists("cand")
  <1>1. side \in Sides /\ side.pc = "report_rb" /\ ~Exists("cand")
    BY DEF Inv, SwapTypes, ReportRollback, At, OneImage, Where, Reverting
  <1>2. /\ UNCHANGED <<docker, file, good, multi, ports>> /\ Reported("rolled_back")
        /\ side' = Saving("rollback_acknowledged", "cleanup_rb") \/ side' = Raise \/ side' = Relet
    BY DEF ReportRollback, outcome, world, Reported
  <1>3. IsSaving(Saving("rollback_acknowledged", "cleanup_rb"), "rollback_acknowledged", "cleanup_rb")
    BY <1>1, SavingIs DEF Pcs, Stages
  <1>4. IsAt(Raise, "rest") /\ (IsAt(Relet, "lease") \/ IsAt(Relet, "rest"))
    BY <1>1, RaiseIs, ReletIs
  <1>. QED
    BY <1>1, <1>2, <1>3, <1>4
    DEF Inv, SwapTypes, OneImage, Exists, Serves, Works, Where, Reverting, Reverted,
        StagesAgree, StageThen, ToldIsFinal, Quiet, Containers, CutOver, RollbackStages,
        QuietStages, IsAt, IsSaving, Reported

(* A failure before anything was touched. *)
LEMMA ReportFailureKeeps ==
  ASSUME Inv, _ack_pre_cutover_failure
  PROVE  Inv' /\ UNCHANGED <<docker, good>> /\ Reported("failed") /\ ~Exists("cand")
  <1>1. side \in Sides /\ side.pc = "report_failed" /\ file.stage = "prepared" /\ ~Exists("cand")
    BY DEF Inv, SwapTypes, _ack_pre_cutover_failure, At, StagesAgree, OneImage
  <1>2. /\ UNCHANGED <<docker, file, good, multi, ports>> /\ Reported("failed")
        /\ side' = Goto("clear") \/ side' = Raise \/ side' = Relet
    BY DEF _ack_pre_cutover_failure, outcome, world, Reported
  <1>3. IsAt(Goto("clear"), "clear")
    BY <1>1, GotoIs DEF Pcs
  <1>4. IsAt(Raise, "rest") /\ (IsAt(Relet, "lease") \/ IsAt(Relet, "rest"))
    BY <1>1, RaiseIs, ReletIs
  <1>. QED
    BY <1>1, <1>2, <1>3, <1>4
    DEF Inv, SwapTypes, OneImage, Exists, Serves, Works, Where, Reverting, Reverted,
        StagesAgree, StageThen, ToldIsFinal, Quiet, Containers, CutOver, RollbackStages,
        QuietStages, IsAt, IsSaving, Reported

(* An iteration goes where the file says. *)
Landings == {"cleanup", "cleanup_rb", "report_failed", "finish", "finish_rb", "lease"}

LEMMA RunOnceKeeps == ASSUME Inv, run_once PROVE Inv' /\ UNCHANGED <<docker, told, good>>
  <1>1. side \in Sides /\ file \in Files /\ side.pc = "rest"
    BY DEF Inv, SwapTypes, run_once, At
  <1>2. /\ UNCHANGED <<docker, file, told, good, multi, ports>>
        /\ \E e \in {"none", "finish"}, pc \in Landings :
             /\ side' = [AtRest EXCEPT !.cand = file.cand, !.clone = file.clone, !.entry = e, !.pc = pc]
             /\ pc = "cleanup_rb" => file.stage = "rollback_acknowledged"
             /\ pc = "report_failed" => file.stage = "prepared"
             /\ pc = "finish" => file.stage = "candidate_renamed"
             /\ pc = "finish_rb" => file.stage = "rollback_healthy"
             /\ file.stage = "prepared" => pc = "report_failed"
    BY DEF run_once, Unmoved, world, Landings
  <1>3. PICK e \in {"none", "finish"}, pc \in Landings :
             /\ side' = [AtRest EXCEPT !.cand = file.cand, !.clone = file.clone, !.entry = e, !.pc = pc]
             /\ pc = "cleanup_rb" => file.stage = "rollback_acknowledged"
             /\ pc = "report_failed" => file.stage = "prepared"
             /\ pc = "finish" => file.stage = "candidate_renamed"
             /\ pc = "finish_rb" => file.stage = "rollback_healthy"
             /\ file.stage = "prepared" => pc = "report_failed"
    BY <1>2
  <1>4. side' \in Sides /\ side'.pc = pc
    <2>1. AtRest \in Sides /\ file.cand \in BOOLEAN /\ file.clone \in BOOLEAN
      BY <1>1, RaiseIs DEF Raise, IsAt, Files
    <2>. QED BY <1>3, <2>1, PcsHas DEF Sides, Landings
  <1>. QED
    BY <1>1, <1>2, <1>3, <1>4
    DEF Inv, SwapTypes, OneImage, Exists, Serves, Works, Where, Reverting, Reverted,
        StagesAgree, StageThen, ToldIsFinal, Quiet, Containers, CutOver, RollbackStages,
        QuietStages, Landings, IsAt, IsSaving

(* The lease: granted, refused, or out of reach. *)
LEMMA LeaseKeeps == ASSUME Inv, _ensure_recovery_lease PROVE Inv' /\ UNCHANGED <<docker, told, good>>
  <1>1. side \in Sides /\ side.pc = "lease"
    BY DEF Inv, SwapTypes, _ensure_recovery_lease, At
  <1>2. /\ UNCHANGED <<docker, file, told, good, multi, ports>>
        /\ \/ side' = Goto("recover") /\ told = "none"
           \/ side' = Offline /\ file.stage \in _OFFLINE_ROLLBACK_STAGES
           \/ side' = Raise
    BY DEF _ensure_recovery_lease, world
  <1>3. IsAt(Goto("recover"), "recover") /\ IsAt(Raise, "rest")
    BY <1>1, GotoIs, RaiseIs DEF Pcs
  <1>4. IsAt(Offline, "rollback")
    BY <1>1, RollingIs DEF Offline, IsAt, Sides
  <1>. QED
    BY <1>1, <1>2, <1>3, <1>4
    DEF Inv, SwapTypes, OneImage, Exists, Serves, Works, Where, Reverting, Reverted,
        StagesAgree, StageThen, ToldIsFinal, Quiet, Containers, CutOver, RollbackStages,
        QuietStages, IsAt, IsSaving, _OFFLINE_ROLLBACK_STAGES

(* What to do with the lease: finish, report, or go back. *)
LEMMA RecoverKeeps == ASSUME Inv, _recover PROVE Inv' /\ UNCHANGED <<docker, told, good>>
  <1>1. side \in Sides /\ side.pc = "recover"
    BY DEF Inv, SwapTypes, _recover, At
  <1>2. /\ UNCHANGED <<docker, file, told, good, multi, ports>>
        /\ \/ side' = Goto("recover_health") /\ Exists("cand")
           \/ side' = Goto("report_failed") /\ file.stage = "prepared"
           \/ side' = Rolling /\ file.stage # "prepared"
    BY DEF _recover, Unmoved, world
  <1>3. IsAt(Goto("recover_health"), "recover_health") /\ IsAt(Goto("report_failed"), "report_failed")
    BY <1>1, GotoIs DEF Pcs
  <1>4. IsAt(Rolling, "rollback")
    BY <1>1, RollingIs
  <1>. QED
    BY <1>1, <1>2, <1>3, <1>4
    DEF Inv, SwapTypes, OneImage, Exists, Serves, Works, Where, Reverting, Reverted,
        StagesAgree, StageThen, ToldIsFinal, Quiet, Containers, CutOver, RollbackStages,
        QuietStages, IsAt, IsSaving

(* The sidecar dies, or has nothing to do. *)
LEMMA DieKeeps == ASSUME Inv, Die PROVE Inv' /\ UNCHANGED <<docker, told, good>>
  <1>1. side' = Raise /\ UNCHANGED <<docker, file, told, good, multi, ports>>
    BY DEF Die, Raise, world
  <1>2. IsAt(Raise, "rest")
    BY RaiseIs
  <1>. QED
    BY <1>1, <1>2
    DEF Inv, SwapTypes, OneImage, Exists, Serves, Works, Where, Reverting, Reverted,
        StagesAgree, StageThen, ToldIsFinal, Quiet, Containers, CutOver, RollbackStages,
        QuietStages, IsAt, IsSaving

(* A stutter. *)
LEMMA StutterKeeps == ASSUME Inv, UNCHANGED vars PROVE Inv' /\ UNCHANGED <<docker, told, good>>
  BY DEF vars, Inv, SwapTypes, OneImage, Exists, Serves, Works, Where, Reverting, Reverted,
      StagesAgree, StageThen, ToldIsFinal, Quiet, Containers, CutOver, RollbackStages,
      QuietStages, IsAt, IsSaving

(* Which image serves, and what a step of ImageSwap is under the mapping. *)
OldServes == Serves("old") \/ Serves("clone")
NewServes == Serves("cand")
Simulates == [Promise!Next]_<<Serving, told>>

(* What serves, in terms of the containers. *)
LEMMA ServingIs ==
  Serving = (IF OldServes THEN {"old"} ELSE {}) \cup (IF NewServes THEN {"new"} ELSE {})
  BY DEF Serving, Images, OldServes, NewServes, Containers

(* Never both images. *)
LEMMA Exclusive == ASSUME Inv PROVE ~(OldServes /\ NewServes)
  <1>1. NewServes => Exists("cand")
    BY GoneIs DEF NewServes, Serves, Exists
  <1>2. Serves("clone") => Exists("clone")
    BY GoneIs DEF Serves, Exists
  <1>. QED BY <1>1, <1>2 DEF Inv, OneImage, OldServes

(* A step that leaves the engine alone, or removes what does not serve, is not seen. *)
LEMMA Unseen ==
  ASSUME UNCHANGED <<told, good>>, OldServes' <=> OldServes, NewServes' <=> NewServes
  PROVE  Simulates
  <1>1. Serving' = Serving
    BY ServingIs DEF Serving, Images, OldServes, NewServes, Containers
  <1>. QED BY <1>1 DEF Simulates

(* A step that touches one container never goes from one image to the other. *)
LEMMA SwitchSimulates ==
  ASSUME Inv, Inv', NEW c \in Containers, Switches(c)
  PROVE  Simulates
  <1>1. ~(OldServes /\ NewServes) /\ ~(OldServes' /\ NewServes')
    <2>1. Inv' => ~(OldServes /\ NewServes)'
      BY Exclusive, PTL
    <2>. QED BY <2>1, Exclusive
  <1>2. (c = "cand" /\ (OldServes' <=> OldServes)) \/ (c # "cand" /\ (NewServes' <=> NewServes))
    BY DEF Switches, Touched, OldServes, NewServes, Serves, Works, Containers
  <1>3. /\ Serving = (IF OldServes THEN {"old"} ELSE {}) \cup (IF NewServes THEN {"new"} ELSE {})
        /\ Serving' = (IF OldServes' THEN {"old"} ELSE {}) \cup (IF NewServes' THEN {"new"} ELSE {})
    BY ServingIs DEF Serving, Images, OldServes, NewServes, Containers, Serves, Works
  <1>4. told = "none" /\ told' = told
    BY DEF Switches
  <1>5. CASE OldServes
    <2>1. Serving = {"old"} /\ Serving' \in {{}, {"old"}}
      BY <1>1, <1>2, <1>3, <1>5
    <2>. QED BY <1>4, <2>1 DEF Simulates, Promise!Next, Promise!Stop
  <1>6. CASE NewServes
    <2>1. Serving = {"new"} /\ Serving' \in {{}, {"new"}}
      BY <1>1, <1>2, <1>3, <1>6
    <2>. QED BY <1>4, <2>1 DEF Simulates, Promise!Next, Promise!Stop
  <1>7. CASE ~OldServes /\ ~NewServes
    <2>1. Serving = {} /\ Serving' \in {{}, {"old"}, {"new"}}
      BY <1>1, <1>2, <1>3, <1>7
    <2>. QED BY <1>4, <2>1 DEF Simulates, Promise!Next, Promise!Serve
  <1>. QED BY <1>5, <1>6, <1>7

(* A report names the image that serves. *)
LEMMA ReportSimulates ==
  ASSUME Inv, UNCHANGED <<docker, good>>,
         NEW o \in {"succeeded", "rolled_back", "failed"}, Reported(o),
         o = "succeeded" <=> Exists("cand")
  PROVE  Simulates
  <1>1. Serving' = Serving
    BY DEF Serving, Images, Containers, Serves, Works
  <1>2. CASE told' = told
    BY <1>1, <1>2 DEF Simulates
  <1>3. CASE told = "none" /\ told' = o /\ Reachable
    <2>1. OldServes \/ NewServes
      BY <1>3 DEF Reachable, OldServes, NewServes, Containers
    <2>2. NewServes => Exists("cand")
      BY GoneIs DEF NewServes, Serves, Exists
    <2>3. Exists("cand") => ~OldServes
      BY GoneIs DEF Inv, OneImage, OldServes, Serves, Exists
    <2>4. Serving = IF o = "succeeded" THEN {"new"} ELSE {"old"}
      BY <2>1, <2>2, <2>3, ServingIs
    <2>. QED BY <1>1, <1>3, <2>4 DEF Simulates, Promise!Next, Promise!Report
  <1>. QED BY <1>2, <1>3 DEF Reported

(* A step of the sidecar that calls the engine, but for the removal at the end. *)
EngineCall(c) ==
  \/ c = "old" /\ (StopOld \/ Detach \/ RenameOld \/ StopPrevious \/ RenamePrevious \/ DetachPrevious)
  \/ c = "cand" /\ (CreateCandidate \/ Attach \/ StartCandidate \/ RenameCandidate
                     \/ StopCandidate \/ RemoveCandidate)
  \/ c = "clone" /\ (StopClone \/ RemoveClone \/ CreateClone \/ AttachClone \/ StartClone)

(* A step that calls neither the engine nor the coordinator. *)
Bookkeeping ==
  \/ BeginInstall \/ CandidateHealthy \/ Finish \/ clear \/ save
  \/ _rollback \/ RollbackRenews \/ FindCandidate \/ FindClone \/ RecheckClone \/ CloneHealthy
  \/ _finish_rollback_outcome \/ run_once \/ _ensure_recovery_lease \/ _recover \/ RecoverHealth
  \/ Die \/ UNCHANGED vars

(* Every step preserves the invariant and is a step of ImageSwap, or a stutter. *)
LEMMA StepSimulates == ASSUME Inv, [Next]_vars PROVE Inv' /\ Simulates
  <1>1. ASSUME NEW c \in Containers, EngineCall(c) PROVE Inv' /\ Simulates
    <2>1. Inv' /\ Switches(c)
      BY <1>1, StopOldKeeps, DetachKeeps, RenameOldKeeps, StopPreviousKeeps, RenamePreviousKeeps,
         DetachPreviousKeeps, CreateCandidateKeeps, AttachKeeps, StartCandidateKeeps,
         RenameCandidateKeeps, StopCandidateKeeps, RemoveCandidateKeeps, StopCloneKeeps,
         RemoveCloneKeeps, CreateCloneKeeps, AttachCloneKeeps, StartCloneKeeps DEF EngineCall
    <2>. QED BY <2>1, SwitchSimulates
  <1>2. CASE Bookkeeping
    <2>1. Inv' /\ UNCHANGED <<docker, told, good>>
      BY <1>2, BeginInstallKeeps, CandidateHealthyKeeps, FinishKeeps, ClearKeeps, SaveKeeps,
         RollbackKeeps, RollbackRenewsKeeps, FindCandidateKeeps, FindCloneKeeps,
         CloneHealthKeeps, FinishRollbackKeeps, RunOnceKeeps, LeaseKeeps, RecoverKeeps,
         DieKeeps, StutterKeeps DEF Bookkeeping
    <2>2. (OldServes' <=> OldServes) /\ (NewServes' <=> NewServes)
      BY <2>1 DEF OldServes, NewServes, Serves, Works
    <2>. QED BY <2>1, <2>2, Unseen
  <1>3. CASE _cleanup_success \/ _cleanup_rollback
    <2>1. /\ Inv' /\ Touched("old") /\ UNCHANGED <<told, good>>
          /\ docker' = docker \/ (~docker["old"].up /\ ~docker'["old"].up)
      BY <1>3, CleanupKeeps
    <2>2. (OldServes' <=> OldServes) /\ (NewServes' <=> NewServes)
      BY <2>1 DEF OldServes, NewServes, Serves, Works, Touched, Containers
    <2>. QED BY <2>1, <2>2, Unseen
  <1>4. CASE ReportSuccess
    BY <1>4, ReportSuccessKeeps, ReportSimulates
  <1>5. CASE ReportRollback
    BY <1>5, ReportRollbackKeeps, ReportSimulates
  <1>6. CASE _ack_pre_cutover_failure
    BY <1>6, ReportFailureKeeps, ReportSimulates
  <1>7. \/ \E c \in Containers : EngineCall(c)
        \/ Bookkeeping
        \/ _cleanup_success \/ _cleanup_rollback
        \/ ReportSuccess \/ ReportRollback \/ _ack_pre_cutover_failure
    BY DEF Next, Sidecar, Install, Rollback, Recovery, Finished, EngineCall, Bookkeeping, Containers
  <1>. QED BY <1>1, <1>2, <1>3, <1>4, <1>5, <1>6, <1>7

(* The initial states of the sidecar are initial states of ImageSwap. *)
LEMMA InitSimulates == Init => Promise!Init
  <1>. SUFFICES ASSUME Init PROVE Serving = {"old"} /\ told = "none"
    BY DEF Promise!Init
  <1>1. OldServes /\ ~NewServes
    BY GoneIs DEF Init, OldServes, NewServes, Serves, Works, Containers
  <1>. QED BY <1>1, ServingIs DEF Init

(* However often the sidecar dies or the engine fails, the service shows no more    *)
(* than ImageSwap allows.                                                   *)
THEOREM SwapImplementsPromise == Spec => Refinement
  <1>1. Inv /\ [Next]_vars => Inv' /\ [Promise!Next]_<<Serving, told>>
    BY StepSimulates DEF Simulates
  <1>. QED BY <1>1, InitInv, InitSimulates, PTL DEF Spec, Refinement, Promise!Spec
=============================================================================
