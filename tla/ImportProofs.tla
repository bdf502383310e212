---------------------------- MODULE ImportProofs ----------------------------
(***************************************************************************)
(* What services/import_service.py keeps true: the import of a download,   *)
(* and, below, the availability cycle on the rows of a title.              *)
(*                                                                         *)
(* The first part is about the import pipeline, for any units, files and   *)
(* bounds: an import is whole or it is not recorded, a failed download     *)
(* stays failed, and files of other owners survive every rollback.  The    *)
(* inductive invariant Inv says what an attempt in flight has done, what   *)
(* it still answers for, and that what is on record is on disk.            *)
(*                                                                         *)
(* The second part is about Requests and Availability, for any users,      *)
(* seasons, asks, pasts and bounds: every answer is honest, a join brings  *)
(* no cancelled row back, a promotion stands on the completion Plex was    *)
(* asked about, and healing strands nobody.  The inductive invariant       *)
(* ServiceOK says that every row fits, that a call in flight stands on the *)
(* rows it has read, and what a tick of the cycle still knows.             *)
(***************************************************************************)
EXTENDS ImportPipeline, Availability, SequenceTheorems, FiniteSetTheorems, TLAPS

(* The statuses of the rows, and the shape of an attempt. *)
Statuses == {"import_pending", "import_blocked", "importing", "downloading", "failed", "imported"}
Wants == {"downloading", "searching", "import_blocked", "completed"}
ScopeRows == {"absent", "active", "import_blocked", "imported"}
Trees == {"none", "new", "same", "foreign"}
Reading == {"client", "probe", "plan"}
Working == {"place", "record", "scan", "final"}
RunType == [pc : {"idle", "client", "probe", "plan", "claim", "place", "record", "scan", "final"},
            entered : BOOLEAN, scoped : BOOLEAN, targets : SUBSET Units, good : SUBSET Files,
            plan : [Units -> SUBSET Files], todo : SUBSET Units, at : Units,
            left : SUBSET Files, placed : SUBSET Files, swapped : SUBSET Files,
            done : SUBSET Units,
            fails : SUBSET Units]
RowType == [status : Statuses, path : Units \cup {"none"}, retry : Nat]

(* The download row, the rows of its seasons, the tree and the attempt keep their types. *)
TypeOK ==
  /\ kind \in Kinds
  /\ dl \in RowType
  /\ scope \in [Units -> ScopeRows] /\ want \in [Units -> Wants]
  /\ have \in [Units -> SUBSET Files] /\ lib \in [Units -> BOOLEAN]
  /\ tree \in [Units -> [Files -> Trees]]
  /\ run \in RunType
  /\ leftover \in BOOLEAN

(* The attempt.  Before the claim nothing is done; the targets are those still to do,      *)
(* those done, those that failed, and the one at hand; and without scope rows there is        *)
(* one target, whose failure ends the attempt.                                         *)
Busy(r) == r.pc \in {"record", "scan"} \/ (r.pc = "place" /\ r.left # {})
AttemptFits(r) ==
  /\ r.pc \in Reading => r.fails = {}
  /\ r.pc \in Reading \cup {"claim"} => r.done = {} /\ r.placed = {} /\ r.left = {}
  /\ r.pc \in Working \cup {"claim"} =>
       /\ r.targets = r.todo \cup r.done \cup r.fails \cup IF Busy(r) THEN {r.at} ELSE {}
       /\ \A u \in r.todo \cup r.done : r.plan[u] # {}
       /\ ~r.scoped => r.fails = {}
       /\ r.done \cap r.todo = {} /\ r.fails \cap (r.todo \cup r.done) = {}
  /\ r.pc = "final" => r.todo = {} /\ r.done # {}
  /\ r.pc \in {"record", "scan"} => r.left = {}
  /\ ~Busy(r) => r.placed = {} /\ r.left = {} /\ r.swapped = {}
  /\ Busy(r) => /\ r.at \notin r.done \cup r.todo \cup r.fails
                /\ r.plan[r.at] # {} /\ r.swapped \subseteq r.plan[r.at] \ r.left
                /\ r.placed \subseteq r.plan[r.at] \ r.left
                /\ r.left \subseteq r.plan[r.at]
  /\ ~r.scoped /\ r.pc # "idle" => r.targets = {First}

(* The attempt beside the rows: while files are placed the row stays claimed, and a movie   *)
(* has no scope rows, and no file on record before it is imported.                       *)
DownloadFits ==
  /\ run.pc \in Working => dl.status = "importing"
  /\ dl.status = "imported" => run.pc = "idle" /\ \A u \in Units : scope[u] \in {"absent", "imported"}
  /\ kind = "movie" => /\ ~run.scoped /\ \A u \in Units : scope[u] = "absent"
                       /\ dl.status # "imported" => \A u \in Units : have[u] = {}
(* What is on record is on disk. *)
OnRecord ==
  \A u \in Units : /\ \A f \in have[u] : tree[u][f] # "none"
                   /\ want[u] = "completed" => lib[u] /\ have[u] # {} /\ unmet[u] = {}
(* What this attempt has done so far is on disk, and what it created was on no record. *)
OnDisk ==
  /\ run.pc \in Working => \A u \in run.done : \A f \in run.plan[u] : tree[u][f] # "none"
  /\ Busy(run) => /\ \A f \in run.plan[run.at] \ run.left : tree[run.at][f] # "none"
                  /\ run.placed \cap have[run.at] = {}
(* What the attempt knows of the entries at its destinations: what it created is this       *)
(* download's file and what it accepted is identical, unless somebody replaced it since.    *)
Traced ==
  Busy(run) =>
    /\ \A f \in run.placed \ run.swapped : tree[run.at][f] = "new"
    /\ \A f \in (run.plan[run.at] \ run.left) \ run.swapped : tree[run.at][f] \in {"new", "same"}
    /\ \A f \in run.swapped : tree[run.at][f] \in {"same", "foreign"}
(* A file of this download, in a unit not imported, is one the attempt still answers for. *)
Answered(u, f) == run.pc \in Working /\ (u \in run.done \/ (u = run.at /\ f \in run.placed))
NothingStray ==
  ~leftover => \A u \in Units, f \in Files : tree[u][f] = "new" /\ ~lib[u] => Answered(u, f)

Inv == TypeOK /\ AttemptFits(run) /\ DownloadFits /\ OnRecord /\ OnDisk /\ Traced /\ NothingStray

----------------------------------------------------------------------------
(* An attempt that is over fits. *)
LEMMA IdleFits == /\ Idle \in RunType /\ AttemptFits(Idle)
                  /\ Idle.pc = "idle" /\ Idle.scoped = FALSE /\ ~Busy(Idle)
<1>1. Idle \in RunType
  BY ImportUnitsAssumption DEF Idle, RunType
<1> QED BY <1>1 DEF Idle, AttemptFits, Busy, Reading, Working

LEMMA ImportInit == Init => Inv
<1> SUFFICES ASSUME Init PROVE Inv
  OBVIOUS
<1>1. scope \in [Units -> ScopeRows] /\ want \in [Units -> Wants]
  BY DEF Init, ScopeRows, Wants
<1>2. have \in [Units -> SUBSET Files] /\ lib \in [Units -> BOOLEAN]
  BY DEF Init
<1>3. tree \in [Units -> [Files -> Trees]] /\ \A u \in Units, f \in Files : tree[u][f] = "none"
  BY DEF Init, Trees
<1>4. dl \in RowType /\ dl.status = "import_pending"
  BY DEF Init, RowType, Statuses
<1>5. TypeOK
  BY <1>1, <1>2, <1>3, <1>4, IdleFits DEF Init, TypeOK
<1>6. AttemptFits(run)
  BY IdleFits DEF Init
<1>7. DownloadFits
  BY <1>4, IdleFits DEF Init, DownloadFits, Working
<1>8. OnRecord
  BY DEF Init, OnRecord
<1>9. OnDisk /\ Traced /\ NothingStray
  BY <1>3, IdleFits DEF Init, OnDisk, Traced, NothingStray, Working
<1> QED BY <1>5, <1>6, <1>7, <1>8, <1>9 DEF Inv

(* What the writes before and after an attempt have in common: nothing is imported by     *)
(* them, and an imported row is left alone.                                           *)
Written ==
  /\ kind' = kind /\ have' = have /\ lib' = lib
  /\ dl' \in RowType /\ scope' \in [Units -> ScopeRows] /\ want' \in [Units -> Wants]
  /\ \A u \in Units : want'[u] = "completed" => want[u] = "completed"
  /\ kind = "movie" => \A u \in Units : scope[u] = "absent" => scope'[u] = "absent"
  /\ dl.status = "imported" \/ dl'.status = "imported" => dl'.status = dl.status /\ scope' = scope

(* No write is one. *)
LEMMA NothingWritten == ASSUME TypeOK, UNCHANGED database PROVE Written
BY DEF TypeOK, Written, database

LEMMA RowWritten ==
  ASSUME TypeOK, kind' = kind, have' = have, lib' = lib, scope' = scope, want' = want,
         dl' \in RowType, dl.status # "imported", dl'.status # "imported"
  PROVE  Written
BY DEF TypeOK, Written

(* A status of the row with one of its units. *)
LEMMA SetUnitsWritten ==
  ASSUME TypeOK, NEW us, NEW sc \in {"active", "import_blocked"},
         NEW w \in {"downloading", "import_blocked"}, SetUnits(us, sc, w),
         kind' = kind, have' = have, lib' = lib,
         dl' \in RowType, dl.status # "imported", dl'.status # "imported"
  PROVE  Written
<1>1. scope' \in [Units -> ScopeRows] /\ want' \in [Units -> Wants]
  BY DEF TypeOK, SetUnits, ScopeRows, Wants
<1>2. \A u \in Units : want'[u] = "completed" => want[u] = "completed"
  BY DEF SetUnits
<1>3. \A u \in Units : scope[u] = "absent" => scope'[u] = "absent"
  BY DEF SetUnits
<1> QED BY <1>1, <1>2, <1>3 DEF Written

LEMMA BlockWritten ==
  ASSUME TypeOK, NEW clear \in BOOLEAN, _block(clear)
  PROVE  Written /\ run' = Idle
<1>1. CASE dl.status \in _RESUMABLE
  <2> DEFINE path == IF clear THEN "none" ELSE dl.path
             d == [dl EXCEPT !.status = "import_blocked", !.path = path]
  <2>1. dl' = d /\ SetUnits(run.targets, "import_blocked", "import_blocked")
    BY <1>1 DEF _block
  <2>2. path \in Units \cup {"none"}
    BY DEF TypeOK, RowType
  <2> HIDE DEF path
  <2>3. d \in RowType /\ d.status = "import_blocked"
    BY <2>2 DEF TypeOK, RowType, Statuses
  <2> HIDE DEF d
  <2>4. dl.status # "imported" /\ dl'.status # "imported" /\ dl' \in RowType
    BY <1>1, <2>1, <2>3 DEF _RESUMABLE
  <2>5. kind' = kind /\ have' = have /\ lib' = lib /\ run' = Idle
    BY DEF _block, Ends
  <2> QED BY <2>1, <2>4, <2>5, SetUnitsWritten
<1>2. CASE dl.status \notin _RESUMABLE
  BY <1>2, NothingWritten DEF _block, Ends, database
<1> QED BY <1>1, <1>2

LEMMA FailsWritten ==
  ASSUME TypeOK, NEW us, Fails(dl, us), dl.status # "imported"
  PROVE  Written /\ dl'.status = "failed"
<1>1. dl' \in RowType /\ dl'.status = "failed"
  BY DEF Fails, TypeOK, RowType, Statuses
<1>2. want' \in [Units -> Wants] /\ \A u \in Units : want'[u] = "completed" => want[u] = "completed"
  BY DEF Fails, TypeOK, Wants
<1> QED BY <1>1, <1>2 DEF Written, Fails, TypeOK

----------------------------------------------------------------------------
(* The end of an attempt, with whatever it took back from the tree. *)
LEMMA EndsKeeps ==
  ASSUME Inv, Written, run' = Idle, unmet' = unmet, tree' \in [Units -> [Files -> Trees]], leftover' \in BOOLEAN,
         \A u \in Units : \A f \in have[u] : tree'[u][f] # "none",
         ~leftover' => \A u \in Units, f \in Files : tree'[u][f] = "new" => lib[u]
  PROVE  Inv'
<1>1. TypeOK'
  BY IdleFits DEF Inv, TypeOK, Written
<1>2. AttemptFits(run)'
  <2>1. AttemptFits(run')
    BY IdleFits
  <2> QED BY <2>1 DEF AttemptFits, Busy
<1>3. DownloadFits'
  BY IdleFits DEF Inv, DownloadFits, Written, Working
<1>4. OnRecord'
  BY DEF Inv, OnRecord, Written
<1>5. OnDisk' /\ Traced'
  <2>1. ~Busy(run)' /\ run'.pc \notin Working
    BY IdleFits DEF Working, Busy
  <2> QED BY <2>1 DEF OnDisk, Traced
<1>6. NothingStray'
  BY DEF NothingStray, Written
<1> QED BY <1>1, <1>2, <1>3, <1>4, <1>5, <1>6 DEF Inv

(* An attempt that ends before it placed anything. *)
LEMMA EarlyEnd ==
  ASSUME Inv, Written, run' = Idle, UNCHANGED <<tree, leftover, unmet>>, run.pc \notin Working
  PROVE  Inv'
<1>1. \A u \in Units : \A f \in have[u] : tree'[u][f] # "none"
  BY DEF Inv, OnRecord
<1>2. ~leftover' => \A u \in Units, f \in Files : tree'[u][f] = "new" => lib[u]
  BY DEF Inv, NothingStray, Answered
<1>3. tree' \in [Units -> [Files -> Trees]] /\ leftover' \in BOOLEAN
  BY DEF Inv, TypeOK
<1> QED BY <1>1, <1>2, <1>3, EndsKeeps

(* A write beside an attempt that has not claimed the row, or leaves the claim. *)
LEMMA WriteKeeps ==
  ASSUME Inv, Written, UNCHANGED <<run, tree, leftover, unmet>>,
         run.pc \in Working => dl'.status = "importing"
  PROVE  Inv'
<1>1. TypeOK'
  BY DEF Inv, TypeOK, Written
<1>2. AttemptFits(run)'
  BY DEF Inv, AttemptFits, Busy
<1>3. DownloadFits'
  BY DEF Inv, DownloadFits, Written
<1>4. OnRecord'
  BY DEF Inv, OnRecord, Written
<1>5. OnDisk' /\ Traced' /\ NothingStray'
  BY DEF Inv, OnDisk, Traced, NothingStray, Answered, Written, Busy
<1> QED BY <1>1, <1>2, <1>3, <1>4, <1>5 DEF Inv

(* The steps of an attempt up to its claim. *)
LEMMA ReadKeeps ==
  ASSUME Inv, UNCHANGED database, UNCHANGED <<tree, leftover, unmet>>,
         run.pc \notin Working, dl.status # "imported",
         run' \in RunType, AttemptFits(run'), run'.pc \notin Working, ~Busy(run'),
         kind = "movie" => ~run'.scoped
  PROVE  Inv'
<1>1. TypeOK'
  BY DEF Inv, TypeOK, database
<1>2. AttemptFits(run)' /\ ~Busy(run)'
  BY DEF AttemptFits, Busy
<1>3. DownloadFits'
  BY DEF Inv, DownloadFits, database
<1>4. OnRecord'
  BY DEF Inv, OnRecord, database
<1>5. OnDisk' /\ Traced'
  BY <1>2 DEF OnDisk, Traced
<1>6. NothingStray'
  BY DEF Inv, NothingStray, Answered, database
<1> QED BY <1>1, <1>2, <1>3, <1>4, <1>5, <1>6 DEF Inv

----------------------------------------------------------------------------
(* Up to the claim. *)
LEMMA EntryKeeps ==
  ASSUME Inv, NEW auto \in BOOLEAN, import_download(auto)
  PROVE  Inv'
<1> DEFINE targets == IF ScopeTargets # {} THEN ScopeTargets ELSE {First}
           entered == dl.status = "importing"
           scoped == ScopeTargets # {}
           r == [Idle EXCEPT !.pc = "client", !.entered = entered, !.scoped = scoped,
                             !.targets = targets]
<1>1. /\ run' = r /\ dl.status # "imported" /\ run.pc = "idle"
      /\ UNCHANGED database /\ UNCHANGED <<tree, leftover, unmet>>
  BY DEF import_download, _AUTO_DRAIN
<1>2. targets \subseteq Units /\ (~scoped => targets = {First}) /\ scoped \in BOOLEAN /\ entered \in BOOLEAN
  BY ImportUnitsAssumption DEF ScopeTargets
<1>3. kind = "movie" => ~scoped
  BY DEF Inv, DownloadFits, ScopeTargets
<1> HIDE DEF targets, entered, scoped
<1>4. Idle \in RunType /\ AttemptFits(Idle)
  BY IdleFits
<1>5. r \in RunType
  BY <1>2, <1>4 DEF RunType
<1>6. /\ r.pc = "client" /\ r.scoped = scoped /\ r.targets = targets /\ r.fails = {} /\ r.done = {}
      /\ r.placed = {} /\ r.left = {} /\ r.swapped = {}
  BY DEF Idle
<1> HIDE DEF r
<1>7. AttemptFits(r) /\ ~Busy(r)
  BY <1>2, <1>6 DEF AttemptFits, Busy, Reading, Working
<1> QED BY <1>1, <1>3, <1>5, <1>6, <1>7, ReadKeeps DEF Working

(* Nothing but an idle attempt is found beside an imported row. *)
LEMMA Unfinished == ASSUME Inv, run.pc # "idle" PROVE dl.status # "imported"
BY DEF Inv, DownloadFits

LEMMA ResolveKeeps ==
  ASSUME Inv, ResolveContent
  PROVE  Inv'
<1>1. run.pc = "client" /\ UNCHANGED <<tree, leftover, unmet>>
  BY DEF ResolveContent
<1>2. CASE DeferToClient
  <2>1. Written
    <3>1. CASE dl.status \in _RESUMABLE
      <4>1. dl' \in RowType /\ dl'.status = "downloading" /\ dl.status # "imported"
        BY <1>2, <3>1 DEF DeferToClient, Inv, TypeOK, RowType, Statuses, _RESUMABLE
      <4> QED BY <1>2, <3>1, <4>1, SetUnitsWritten DEF DeferToClient, Inv
    <3>2. CASE dl.status \notin _RESUMABLE
      BY <1>2, <3>2, NothingWritten DEF DeferToClient, database, Inv
    <3> QED BY <3>1, <3>2
  <2> QED BY <1>1, <1>2, <2>1, EarlyEnd DEF DeferToClient, Ends, Working
<1>3. CASE _block(FALSE)
  BY <1>1, <1>3, BlockWritten, EarlyEnd DEF Working, Inv
<1>4. CASE run' = [run EXCEPT !.pc = "probe"] /\ UNCHANGED database
  <2> DEFINE r == [run EXCEPT !.pc = "probe"]
  <2>1. r \in RunType
    BY DEF Inv, TypeOK, RunType
  <2>2. /\ r.pc = "probe" /\ r.scoped = run.scoped /\ r.targets = run.targets /\ r.fails = run.fails
        /\ r.done = run.done /\ r.placed = run.placed /\ r.left = run.left
        /\ r.swapped = run.swapped
    BY DEF Inv, TypeOK, RunType
  <2> HIDE DEF r
  <2>3. AttemptFits(r) /\ ~Busy(r)
    BY <1>1, <2>2 DEF Inv, AttemptFits, Busy, Reading, Working
  <2>4. run' = r /\ (kind = "movie" => ~r.scoped)
    BY <1>4, <2>2 DEF r, Inv, DownloadFits
  <2> QED BY <1>1, <1>4, <2>1, <2>2, <2>3, <2>4, Unfinished, ReadKeeps DEF Working
<1> QED BY <1>2, <1>3, <1>4 DEF ResolveContent

(* A payload that is rejected, on probing or on listing. *)
LEMMA RejectKeeps ==
  ASSUME Inv, run.pc \notin Working, UNCHANGED <<tree, leftover, unmet>>, Ends,
         IF dl.status \in _RESUMABLE THEN Fails(dl, run.targets) ELSE UNCHANGED database
  PROVE  Inv'
<1>1. Written
  BY FailsWritten, NothingWritten DEF Inv, _RESUMABLE
<1> QED BY <1>1, EarlyEnd DEF Ends

LEMMA OutageKeeps ==
  ASSUME Inv, run.pc \notin Working, UNCHANGED <<tree, leftover, unmet>>, _refresh_resumed_import
  PROVE  Inv'
<1> DEFINE retry == IF dl.retry > MaxOutages THEN dl.retry ELSE dl.retry + 1
           counted == [dl EXCEPT !.retry = retry]
           blocked == [counted EXCEPT !.status = "import_blocked"]
<1>1. run' = Idle
  BY DEF _refresh_resumed_import, Ends
<1>2. dl \in RowType /\ TypeOK
  BY DEF Inv, TypeOK
<1>3. retry \in Nat
  BY <1>2 DEF RowType
<1>4. counted = increment_retry_count_if_in
  BY DEF increment_retry_count_if_in
<1> HIDE DEF retry
<1>5. counted \in RowType /\ counted.status = dl.status
  BY <1>2, <1>3 DEF RowType
<1> HIDE DEF counted
<1>6. blocked \in RowType /\ blocked.status = "import_blocked"
  BY <1>5 DEF RowType, Statuses
<1> HIDE DEF blocked
<1>7. Written
  <2>1. CASE dl.status # "importing"
    BY <1>2, <2>1, NothingWritten DEF _refresh_resumed_import
  <2>2. CASE dl.status = "importing" /\ counted.retry > MaxOutages
    <3>1. dl' = blocked /\ SetUnits(run.targets, "import_blocked", "import_blocked")
          /\ kind' = kind /\ have' = have /\ lib' = lib
      BY <1>4, <2>2 DEF _refresh_resumed_import, blocked
    <3> QED BY <1>2, <1>6, <2>2, <3>1, SetUnitsWritten
  <2>3. CASE dl.status = "importing" /\ ~(counted.retry > MaxOutages)
    <3>1. dl' = counted /\ kind' = kind /\ have' = have /\ lib' = lib /\ scope' = scope /\ want' = want
      BY <1>4, <2>3 DEF _refresh_resumed_import
    <3> QED BY <1>2, <1>5, <2>3, <3>1, RowWritten
  <2> QED BY <2>1, <2>2, <2>3
<1> QED BY <1>1, <1>7, EarlyEnd

(* The files of a unit are files. *)
LEMMA EpisodesAreFiles == EpisodesOf \subseteq Files
BY ImportUnitsAssumption DEF EpisodesOf

LEMMA ProbeKeeps ==
  ASSUME Inv, ProbeSources
  PROVE  Inv'
<1>1. run.pc = "probe" /\ run.pc \notin Working /\ UNCHANGED <<tree, leftover, unmet>>
  BY DEF ProbeSources, Working
<1>2. PICK good \in SUBSET Files :
        \/ run' = [run EXCEPT !.pc = "plan", !.good = good] /\ UNCHANGED database
        \/ _refresh_resumed_import \/ _block(FALSE)
        \/ Ends /\ IF dl.status \in _RESUMABLE THEN Fails(dl, run.targets) ELSE UNCHANGED database
  <2>1. PICK sources \in _resolve_sources, cut \in BOOLEAN :
          \E ans \in [sources -> {"video", "junk", "outage"}] :
            LET v == VerifiedSources(sources, ans, cut)
            IN  \/ /\ run' = [run EXCEPT !.pc = "plan", !.good = v.good]
                   /\ UNCHANGED <<database, placing>>
                \/ _refresh_resumed_import \/ _block(FALSE) \/ RejectPayload
                \/ Ends /\ IF dl.status \in _RESUMABLE THEN Fails(dl, run.targets) ELSE UNCHANGED database
    BY DEF ProbeSources
  <2>2. PICK ans \in [sources -> {"video", "junk", "outage"}] :
          LET v == VerifiedSources(sources, ans, cut)
          IN  \/ /\ run' = [run EXCEPT !.pc = "plan", !.good = v.good]
                 /\ UNCHANGED <<database, placing>>
              \/ _refresh_resumed_import \/ _block(FALSE) \/ RejectPayload
              \/ Ends /\ IF dl.status \in _RESUMABLE THEN Fails(dl, run.targets) ELSE UNCHANGED database
    BY <2>1
  <2> DEFINE v == VerifiedSources(sources, ans, cut)
  <2>3. v.good \subseteq Files
    <3>1. v.good \subseteq sources
      BY DEF VerifiedSources
    <3> QED BY <3>1, EpisodesAreFiles DEF _resolve_sources
  <2> HIDE DEF v
  <2>4. \/ run' = [run EXCEPT !.pc = "plan", !.good = v.good] /\ UNCHANGED database
        \/ _refresh_resumed_import \/ _block(FALSE)
        \/ Ends /\ IF dl.status \in _RESUMABLE THEN Fails(dl, run.targets) ELSE UNCHANGED database
    BY <2>2 DEF v, RejectPayload
  <2> QED BY <2>3, <2>4
<1>3. CASE run' = [run EXCEPT !.pc = "plan", !.good = good] /\ UNCHANGED database
  <2> DEFINE r == [run EXCEPT !.pc = "plan", !.good = good]
  <2>1. r \in RunType
    BY DEF Inv, TypeOK, RunType
  <2>2. /\ r.pc = "plan" /\ r.scoped = run.scoped /\ r.targets = run.targets /\ r.fails = run.fails
        /\ r.done = run.done /\ r.placed = run.placed /\ r.left = run.left
        /\ r.swapped = run.swapped
    BY DEF Inv, TypeOK, RunType
  <2> HIDE DEF r
  <2>3. AttemptFits(r) /\ ~Busy(r)
    BY <1>1, <2>2 DEF Inv, AttemptFits, Busy, Reading, Working
  <2>4. run' = r /\ (kind = "movie" => ~r.scoped)
    BY <1>3, <2>2 DEF r, Inv, DownloadFits
  <2> QED BY <1>1, <1>3, <2>1, <2>2, <2>3, <2>4, Unfinished, ReadKeeps DEF Working
<1>4. CASE _refresh_resumed_import
  BY <1>1, <1>4, OutageKeeps
<1>5. CASE _block(FALSE)
  BY <1>1, <1>5, BlockWritten, EarlyEnd DEF Inv
<1>6. CASE Ends /\ IF dl.status \in _RESUMABLE THEN Fails(dl, run.targets) ELSE UNCHANGED database
  BY <1>1, <1>6, RejectKeeps
<1> QED BY <1>2, <1>3, <1>4, <1>5, <1>6

(* The plan: what it names has files, what it does not name has failed. *)
LEMMA PlanKeeps ==
  ASSUME Inv, PlanImport
  PROVE  Inv'
<1>1. run.pc = "plan" /\ run.pc \notin Working /\ UNCHANGED <<tree, leftover, unmet>>
  BY DEF PlanImport, Working
<1>2. CASE _block(FALSE)
  BY <1>1, <1>2, BlockWritten, EarlyEnd DEF Inv
<1>3. CASE run' = Idle /\ UNCHANGED database
  BY <1>1, <1>3, NothingWritten, EarlyEnd DEF Inv
<1>4. ASSUME NEW plan \in [Units -> SUBSET run.good], UNCHANGED database,
             _build_tv_import_plan(plan) # {},
             run' = [run EXCEPT !.pc = "claim", !.plan = plan, !.todo = _build_tv_import_plan(plan),
                                !.entered = FALSE, !.good = {},
                                !.fails = run.targets \ _build_tv_import_plan(plan)]
      PROVE  Inv'
  <2> DEFINE planned == _build_tv_import_plan(plan)
             fails == run.targets \ planned
             r == [run EXCEPT !.pc = "claim", !.plan = plan, !.todo = planned, !.entered = FALSE,
                              !.good = {}, !.fails = fails]
  <2>0. run \in RunType /\ run.targets \subseteq Units /\ run.good \subseteq Files
    BY DEF Inv, TypeOK, RunType
  <2>1. /\ planned \subseteq run.targets /\ planned # {} /\ \A u \in planned : plan[u] # {}
        /\ run.targets = planned \cup fails /\ fails \cap planned = {} /\ fails \subseteq Units /\ planned \subseteq Units
        /\ run.targets = {First} => fails = {}
    BY <1>4, <2>0 DEF _build_tv_import_plan
  <2>2. plan \in [Units -> SUBSET Files]
    BY <2>0
  <2> HIDE DEF planned, fails
  <2>3. r \in RunType
    BY <2>0, <2>1, <2>2 DEF RunType
  <2>4. /\ r.pc = "claim" /\ r.scoped = run.scoped /\ r.targets = run.targets /\ r.fails = fails
        /\ r.done = run.done /\ r.placed = run.placed /\ r.left = run.left
        /\ r.swapped = run.swapped
        /\ r.todo = planned /\ r.plan = plan
    BY <2>0 DEF RunType
  <2>5. run' = r
    BY <1>4 DEF planned, fails
  <2> HIDE DEF r
  <2>6. /\ run.done = {} /\ run.placed = {} /\ run.left = {} /\ run.swapped = {}
        /\ ~run.scoped => run.targets = {First}
    BY <1>1 DEF Inv, AttemptFits, Busy, Reading
  <2>7. AttemptFits(r) /\ ~Busy(r)
    BY <2>1, <2>4, <2>6 DEF AttemptFits, Busy, Reading, Working
  <2>8. kind = "movie" => ~r.scoped
    BY <2>4 DEF Inv, DownloadFits
  <2>9. dl.status # "imported"
    BY <1>1, Unfinished
  <2> QED BY <1>1, <1>4, <2>3, <2>4, <2>5, <2>7, <2>8, <2>9, ReadKeeps DEF Working
<1>5. CASE \E plan \in [Units -> SUBSET run.good] :
             LET planned == _build_tv_import_plan(plan)
             IN  /\ \A u \in Units \ run.targets : plan[u] = {}
                 /\ IF planned = {} THEN _block(FALSE)
                    ELSE IF planned \cap purging # {} THEN Ends /\ UNCHANGED database
                    ELSE /\ placing' = planned
                         /\ run' = [run EXCEPT !.pc = "claim", !.plan = plan, !.todo = planned,
                                               !.entered = FALSE, !.good = {}, !.fails = run.targets \ planned]
                         /\ UNCHANGED database
  <2>1. PICK plan \in [Units -> SUBSET run.good] :
          LET planned == _build_tv_import_plan(plan)
          IN  IF planned = {} THEN _block(FALSE)
              ELSE IF planned \cap purging # {} THEN Ends /\ UNCHANGED database
              ELSE /\ placing' = planned
                   /\ run' = [run EXCEPT !.pc = "claim", !.plan = plan, !.todo = planned,
                                         !.entered = FALSE, !.good = {}, !.fails = run.targets \ planned]
                   /\ UNCHANGED database
    BY <1>5
  <2>2. CASE _build_tv_import_plan(plan) = {}
    BY <1>2, <2>1, <2>2
  <2>3. CASE _build_tv_import_plan(plan) # {}
    BY <1>3, <1>4, <2>1, <2>3 DEF Ends
  <2> QED BY <2>2, <2>3
<1> QED BY <1>2, <1>5 DEF PlanImport

----------------------------------------------------------------------------
(* From the claim to the finalize. *)

(* A step of an attempt that holds the claim. *)
LEMMA ClaimedKeeps ==
  ASSUME Inv, UNCHANGED <<kind, scope, want, have, lib>>,
         dl' \in RowType, dl'.status = "importing", dl.status # "imported",
         run' \in RunType, AttemptFits(run'), run'.scoped = run.scoped,
         tree' \in [Units -> [Files -> Trees]], leftover' \in BOOLEAN,
         \A u \in Units : \A f \in have[u] : tree'[u][f] # "none",
         unmet' = unmet, OnDisk', Traced', NothingStray'
  PROVE  Inv'
<1>1. TypeOK'
  BY DEF Inv, TypeOK
<1>2. AttemptFits(run)'
  BY DEF AttemptFits, Busy
<1>3. DownloadFits'
  BY DEF Inv, DownloadFits
<1>4. OnRecord'
  BY DEF Inv, OnRecord
<1> QED BY <1>1, <1>2, <1>3, <1>4 DEF Inv

LEMMA ClaimKeeps ==
  ASSUME Inv, ClaimImporting
  PROVE  Inv'
<1>1. run.pc = "claim" /\ run.pc \notin Working /\ UNCHANGED <<tree, leftover, unmet>>
      /\ UNCHANGED <<kind, scope, want, have, lib>>
  BY DEF ClaimImporting, Working
<1>2. CASE dl.status \notin _RESUMABLE
  BY <1>1, <1>2, NothingWritten, EarlyEnd DEF ClaimImporting, Ends, Inv, database
<1>3. CASE dl.status \in _RESUMABLE
  <2> DEFINE r == [run EXCEPT !.pc = "place"]
  <2>1. /\ run' = r /\ dl' \in RowType /\ dl'.status = "importing" /\ dl.status # "imported"
    BY <1>3 DEF ClaimImporting, Inv, TypeOK, RowType, Statuses, _RESUMABLE
  <2>2. r \in RunType
    BY DEF Inv, TypeOK, RunType
  <2>3. /\ r.pc = "place" /\ r.scoped = run.scoped /\ r.targets = run.targets /\ r.fails = run.fails
        /\ r.done = run.done /\ r.placed = run.placed /\ r.left = run.left
        /\ r.swapped = run.swapped
        /\ r.todo = run.todo /\ r.plan = run.plan
    BY DEF Inv, TypeOK, RunType
  <2> HIDE DEF r
  <2>4. AttemptFits(r) /\ ~Busy(r) /\ r.done = {} /\ r.placed = {}
    BY <1>1, <2>3 DEF Inv, AttemptFits, Busy, Reading, Working
  <2>5. OnDisk' /\ Traced'
    <3>1. ~Busy(run)' /\ run'.done = {}
      BY <2>1, <2>4 DEF Busy
    <3> QED BY <3>1 DEF OnDisk, Traced
  <2>6. NothingStray'
    BY <1>1 DEF Inv, NothingStray, Answered
  <2>7. /\ tree' \in [Units -> [Files -> Trees]] /\ leftover' \in BOOLEAN
        /\ \A u \in Units : \A f \in have[u] : tree'[u][f] # "none"
    BY <1>1 DEF Inv, TypeOK, OnRecord
  <2> QED BY <1>1, <2>1, <2>2, <2>3, <2>4, <2>5, <2>6, <2>7, ClaimedKeeps
<1> QED BY <1>2, <1>3

(* An attempt between two units. *)
Between(r) ==
  /\ r \in RunType
  /\ r.targets = r.todo \cup r.done \cup r.fails
  /\ \A u \in r.todo \cup r.done : r.plan[u] # {}
  /\ ~r.scoped => r.fails = {} /\ r.targets = {First}
  /\ r.done \cap r.todo = {} /\ r.fails \cap (r.todo \cup r.done) = {}

LEMMA NextUnitFits ==
  ASSUME NEW r, Between(r), r.todo # {} \/ r.done # {}
  PROVE  LET n == NextUnit(r)
         IN /\ n \in RunType /\ AttemptFits(n)
            /\ n.pc \in {"place", "final"} /\ n.placed = {} /\ n.swapped = {}
            /\ n.done = r.done /\ n.plan = r.plan /\ n.scoped = r.scoped
            /\ n.pc = "place" => n.left = n.plan[n.at]
<1> DEFINE n == NextUnit(r)
<1>1. CASE r.todo = {}
  <2>1. n = [r EXCEPT !.pc = "final", !.left = {}, !.placed = {}, !.swapped = {}]
    BY <1>1 DEF NextUnit
  <2>2. /\ n \in RunType /\ n.pc = "final" /\ n.left = {} /\ n.placed = {} /\ n.swapped = {} /\ n.todo = r.todo
        /\ n.done = r.done /\ n.plan = r.plan /\ n.scoped = r.scoped /\ n.targets = r.targets
        /\ n.fails = r.fails
    BY <2>1 DEF Between, RunType
  <2> HIDE DEF n
  <2>3. AttemptFits(n)
    BY <1>1, <2>2 DEF Between, AttemptFits, Busy, Reading, Working
  <2> QED BY <2>2, <2>3 DEF n
<1>2. CASE r.todo # {}
  <2> DEFINE u == CHOOSE x \in r.todo : TRUE
             todo == r.todo \ {u}
             left == r.plan[u]
             m == [r EXCEPT !.pc = "place", !.at = u, !.todo = todo, !.left = left, !.placed = {},
                         !.swapped = {}]
  <2>1. n = m
    BY <1>2 DEF NextUnit
  <2>2. u \in r.todo
    BY <1>2
  <2> HIDE DEF u
  <2>2a. r.todo \subseteq Units /\ r.plan \in [Units -> SUBSET Files]
    BY DEF Between, RunType
  <2>2b. u \in Units /\ r.plan[u] # {} /\ u \notin r.done
    BY <2>2, <2>2a DEF Between
  <2>3. /\ u \in Units /\ todo \subseteq Units /\ left \subseteq Files /\ left # {}
        /\ u \notin todo /\ r.todo = todo \cup {u} /\ u \notin r.done
    BY <2>2, <2>2a, <2>2b
  <2>4. left = r.plan[u] /\ todo \subseteq r.todo
    OBVIOUS
  <2> HIDE DEF todo, left
  <2>5. /\ m \in RunType /\ m.pc = "place" /\ m.left = left /\ m.placed = {} /\ m.swapped = {} /\ m.todo = todo
        /\ m.done = r.done /\ m.plan = r.plan /\ m.scoped = r.scoped /\ m.targets = r.targets
        /\ m.fails = r.fails /\ m.at = u
    BY <2>3 DEF Between, RunType
  <2> HIDE DEF m
  <2>6. AttemptFits(m)
    BY <2>3, <2>4, <2>5 DEF Between, AttemptFits, Busy, Reading, Working
  <2>7. m.left = m.plan[m.at]
    BY <2>4, <2>5
  <2> QED BY <2>1, <2>5, <2>6, <2>7
<1> QED BY <1>1, <1>2

LEMMA StartKeeps ==
  ASSUME Inv, StartUnit
  PROVE  Inv'
<1>1. /\ run.pc = "place" /\ run.left = {} /\ run.todo # {} /\ run' = NextUnit(run)
      /\ UNCHANGED database /\ UNCHANGED <<tree, leftover, unmet>>
  BY DEF StartUnit
<1>2. ~Busy(run) /\ run.placed = {}
  BY <1>1 DEF Inv, AttemptFits, Busy
<1>3. Between(run)
  BY <1>1, <1>2 DEF Inv, TypeOK, AttemptFits, Between, Working
<1>4. /\ run' \in RunType /\ AttemptFits(run') /\ run'.placed = {} /\ run'.swapped = {} /\ run'.pc \in {"place", "final"}
      /\ run'.done = run.done /\ run'.plan = run.plan /\ run'.scoped = run.scoped
      /\ run'.pc = "place" => run'.left = run'.plan[run'.at]
  BY <1>1, <1>3, NextUnitFits
<1>5. /\ dl' \in RowType /\ dl'.status = "importing" /\ dl.status # "imported"
      /\ UNCHANGED <<kind, scope, want, have, lib>>
  BY <1>1 DEF Inv, TypeOK, DownloadFits, database, Working
<1>6. OnDisk' /\ Traced'
  BY <1>1, <1>4, <1>5 DEF Inv, OnDisk, Traced, Busy, Working
<1>7. NothingStray'
  BY <1>1, <1>2, <1>4, <1>5 DEF Inv, NothingStray, Answered, Working
<1>8. /\ tree' \in [Units -> [Files -> Trees]] /\ leftover' \in BOOLEAN
      /\ \A u \in Units : \A f \in have[u] : tree'[u][f] # "none"
  BY <1>1 DEF Inv, TypeOK, OnRecord
<1> QED BY <1>1, <1>4, <1>5, <1>6, <1>7, <1>8, ClaimedKeeps

(* What is taken back after a failure: only files this download created, none of them     *)
(* on record, and of the unit at hand all that this attempt created, unless a removal     *)
(* failed.                                                                           *)
LEMMA RemovalFits ==
  ASSUME Inv, Busy(run), NEW fs \in SUBSET Files, run.placed \subseteq fs,
         fs \cap have[run.at] = {}, _remove_quietly_many(run.at, fs)
  PROVE  /\ tree' \in [Units -> [Files -> Trees]] /\ leftover' \in BOOLEAN
         /\ \A u \in Units : \A f \in have[u] : tree'[u][f] # "none"
         /\ \A u \in Units \ {run.at} : tree'[u] = tree[u]
         /\ ~leftover' => \A u \in Units, f \in Files :
                            tree'[u][f] = "new" /\ ~lib[u] => u \in run.done
<1>0. /\ run.at \in Units /\ tree \in [Units -> [Files -> Trees]] /\ leftover \in BOOLEAN
      /\ have \in [Units -> SUBSET Files]
  BY DEF Inv, TypeOK, RunType
<1>1. PICK gone \in SUBSET fs :
        /\ tree' = [tree EXCEPT ![run.at] = [f \in Files |->
                      IF f \in gone THEN remove_published(f, @[f]) ELSE @[f]]]
        /\ leftover' = (leftover \/ gone # fs)
  BY DEF _remove_quietly_many
<1> DEFINE row == [f \in Files |-> IF f \in gone THEN remove_published(f, tree[run.at][f])
                                   ELSE tree[run.at][f]]
<1>2. tree' = [tree EXCEPT ![run.at] = row]
  BY <1>1
<1>3. row \in [Files -> Trees]
  BY <1>0 DEF remove_published, Trees
<1>4. \A f \in Files : /\ f \notin fs => row[f] = tree[run.at][f]
                       /\ f \in gone => row[f] # "new"
  BY DEF remove_published, Inv, Traced
<1> HIDE DEF row
<1>5. /\ tree' \in [Units -> [Files -> Trees]] /\ tree'[run.at] = row
      /\ \A u \in Units \ {run.at} : tree'[u] = tree[u]
  BY <1>0, <1>2, <1>3
<1>6. \A u \in Units : \A f \in have[u] : tree'[u][f] # "none"
  BY <1>0, <1>4, <1>5 DEF Inv, OnRecord
<1>7. ~leftover' => \A u \in Units, f \in Files :
                      tree'[u][f] = "new" /\ ~lib[u] => u \in run.done
  BY <1>1, <1>4, <1>5 DEF Inv, NothingStray, Answered
<1> QED BY <1>0, <1>1, <1>5, <1>6, <1>7

(* A unit that failed. *)
LEMMA UnitFailsKeeps ==
  ASSUME Inv, Busy(run), NEW fs \in SUBSET Files, run.placed \subseteq fs,
         fs \cap have[run.at] = {}, _remove_quietly_many(run.at, fs),
         NEW clear \in BOOLEAN, UnitFails(clear), unmet' = unmet
  PROVE  Inv'
<1> DEFINE fails == run.fails \cup {run.at}
           r0 == [run EXCEPT !.fails = fails, !.left = {}]
           r == NextUnit(r0)
<1>0. run \in RunType /\ AttemptFits(run) /\ run.at \in Units /\ run.pc \in Working
  BY DEF Inv, TypeOK, RunType, Busy, Working
<1>1. /\ tree' \in [Units -> [Files -> Trees]] /\ leftover' \in BOOLEAN
      /\ \A u \in Units : \A f \in have[u] : tree'[u][f] # "none"
      /\ \A u \in Units \ {run.at} : tree'[u] = tree[u]
      /\ ~leftover' => \A u \in Units, f \in Files :
                         tree'[u][f] = "new" /\ ~lib[u] => u \in run.done
  BY RemovalFits
<1>2. /\ r0 \in RunType /\ r0.fails = fails /\ r0.left = {} /\ r0.todo = run.todo
      /\ r0.done = run.done /\ r0.plan = run.plan /\ r0.scoped = run.scoped
      /\ r0.targets = run.targets
  BY <1>0 DEF RunType
<1>1a. r.done = run.done /\ (run.todo = {} => r.pc = "final")
  BY <1>0 DEF NextUnit, RunType
<1>3. run.scoped => Between(r0)
  <2> HIDE DEF r0
  <2> QED BY <1>0, <1>2 DEF AttemptFits, Between
<1>4. run.scoped /\ ~(r.pc = "final" /\ r.done = {}) =>
        /\ r \in RunType /\ AttemptFits(r) /\ r.placed = {} /\ r.swapped = {} /\ r.pc \in {"place", "final"}
        /\ r.done = run.done /\ r.plan = run.plan /\ r.scoped = run.scoped
        /\ r.pc = "place" => r.left = r.plan[r.at]
  <2> HIDE DEF r0
  <2> QED BY <1>2, <1>1a, <1>3, NextUnitFits
<1>5. \/ _block(clear) /\ ~run.scoped
      \/ _block(TRUE) /\ run.scoped /\ r.done = {}
      \/ run' = r /\ run.scoped /\ ~(r.pc = "final" /\ r.done = {}) /\ UNCHANGED database
  BY DEF UnitFails
<1> HIDE DEF r
<1>6. CASE run' = Idle /\ Written /\ run.done = {}
  <2>1. ~leftover' => \A u \in Units, f \in Files : tree'[u][f] = "new" => lib[u]
    BY <1>1, <1>6
  <2> QED BY <1>1, <1>6, <2>1, EndsKeeps
<1>7. ~run.scoped => run.done = {}
  BY <1>0 DEF AttemptFits, Working
<1>8. CASE _block(clear) /\ ~run.scoped
  BY <1>6, <1>7, <1>8, BlockWritten DEF Inv
<1>9. CASE _block(TRUE) /\ run.scoped /\ r.done = {}
  BY <1>1a, <1>6, <1>9, BlockWritten DEF Inv
<1>10. CASE run' = r /\ run.scoped /\ ~(r.pc = "final" /\ r.done = {}) /\ UNCHANGED database
  <2>1. /\ dl' \in RowType /\ dl'.status = "importing" /\ dl.status # "imported"
        /\ UNCHANGED <<kind, scope, want, have, lib>>
    BY <1>0, <1>10 DEF Inv, TypeOK, DownloadFits, database
  <2>2. run.at \notin run.done /\ run.done \subseteq Units
    BY <1>0 DEF AttemptFits, RunType
  <2>3. OnDisk'
    BY <1>0, <1>1, <1>4, <1>10, <2>1, <2>2 DEF Inv, OnDisk, Busy, Working
  <2>4. NothingStray'
    BY <1>1, <1>4, <1>10, <2>1 DEF NothingStray, Answered, Working
  <2>5. Traced'
    BY <1>4, <1>10 DEF Traced, Busy
  <2> QED BY <1>1, <1>4, <1>10, <2>1, <2>3, <2>4, <2>5, ClaimedKeeps
<1> QED BY <1>5, <1>8, <1>9, <1>10

(* The next file: published where nothing was, accepted as it is, or the end of its unit. *)
LEMMA PlaceKeeps ==
  ASSUME Inv, PlaceFile
  PROVE  Inv'
<1> DEFINE f == CHOOSE x \in run.left : TRUE
           left == run.left \ {f}
           pc == IF run.left = {f} THEN "record" ELSE run.pc
           placed == run.placed \cup {f}
           r == [run EXCEPT !.left = left, !.pc = pc]
           s == [r EXCEPT !.placed = placed]
<1>0. run \in RunType /\ AttemptFits(run) /\ run.pc = "place" /\ run.left # {} /\ Busy(run)
  BY DEF Inv, TypeOK, PlaceFile, Busy
<1>1. /\ run.at \in Units /\ run.placed \subseteq Files /\ run.left \subseteq run.plan[run.at]
      /\ run.plan[run.at] \subseteq Files /\ run.at \notin run.done
      /\ run.placed \subseteq run.plan[run.at] \ run.left
  BY <1>0 DEF RunType, AttemptFits
<1>2. /\ dl \in RowType /\ dl.status = "importing" /\ tree \in [Units -> [Files -> Trees]]
      /\ leftover \in BOOLEAN
  BY <1>0 DEF Inv, TypeOK, DownloadFits, Working
<1>3. f \in run.left /\ left \subseteq run.left /\ (pc = "place" \/ pc = "record")
      /\ (pc = "place" <=> left # {})
  BY <1>0
<1>p. run.swapped \subseteq run.plan[run.at] \ run.left /\ unmet' = unmet
  BY <1>0 DEF AttemptFits, PlaceFile
<1>4. \/ /\ tree[run.at][f] = "none" /\ tree' = [tree EXCEPT ![run.at][f] = "new"]
         /\ run' = s /\ UNCHANGED database /\ leftover' = leftover /\ unmet' = unmet
      \/ /\ tree[run.at][f] \in {"new", "same"} /\ tree' = tree
         /\ run' = r /\ UNCHANGED database /\ leftover' = leftover /\ unmet' = unmet
      \/ _remove_quietly_many(run.at, run.placed) /\ UnitFails(FALSE)
  <2>1. ASSUME NEW t PROVE /\ hardlink_or_copy(t) = "placed" => t = "none"
                           /\ hardlink_or_copy(t) = "kept" => t \in {"new", "same"}
    BY DEF hardlink_or_copy
  <2> QED
    BY <2>1, ZenonT(60) DEF PlaceFile, _place_file, FileDone
<1> HIDE DEF f
<1>5. f \in Files /\ left = run.left \ {f} /\ f \notin run.placed /\ placed = run.placed \cup {f}
  BY <1>1, <1>3
<1> HIDE DEF left, pc, placed
<1>6. /\ r \in RunType /\ r.pc = pc /\ r.left = left /\ r.placed = run.placed /\ r.todo = run.todo
      /\ r.done = run.done /\ r.plan = run.plan /\ r.scoped = run.scoped /\ r.targets = run.targets
      /\ r.fails = run.fails /\ r.at = run.at /\ r.swapped = run.swapped
  BY <1>0, <1>1, <1>3, <1>5 DEF RunType
<1> HIDE DEF r
<1>7. /\ s \in RunType /\ s.pc = pc /\ s.left = left /\ s.placed = placed /\ s.todo = run.todo
      /\ s.done = run.done /\ s.plan = run.plan /\ s.scoped = run.scoped /\ s.targets = run.targets
      /\ s.fails = run.fails /\ s.at = run.at /\ s.swapped = run.swapped
  BY <1>1, <1>5, <1>6 DEF RunType
<1> HIDE DEF s
<1>8. AttemptFits(r) /\ Busy(r) /\ AttemptFits(s) /\ Busy(s)
  <2>1. Busy(r) /\ Busy(s)
    BY <1>3, <1>6, <1>7 DEF Busy
  <2>2. AttemptFits(r)
    BY <1>0, <1>1, <1>p, <1>3, <1>5, <1>6, <2>1 DEF AttemptFits, Reading, Working
  <2>3. AttemptFits(s)
    BY <1>0, <1>1, <1>p, <1>3, <1>5, <1>7, <2>1 DEF AttemptFits, Reading, Working
  <2> QED BY <2>1, <2>2, <2>3
<1>9. UNCHANGED database => /\ dl' \in RowType /\ dl'.status = "importing" /\ dl.status # "imported"
                            /\ UNCHANGED <<kind, scope, want, have, lib>>
  BY <1>2 DEF database
<1>10. CASE /\ tree[run.at][f] = "none" /\ tree' = [tree EXCEPT ![run.at][f] = "new"]
            /\ run' = s /\ UNCHANGED database /\ leftover' = leftover /\ unmet' = unmet
  <2>1. /\ tree' \in [Units -> [Files -> Trees]] /\ tree'[run.at][f] = "new"
        /\ \A u \in Units, g \in Files : u # run.at \/ g # f => tree'[u][g] = tree[u][g]
    BY <1>1, <1>2, <1>5, <1>10 DEF Trees
  <2>2. \A u \in Units : \A g \in have[u] : tree'[u][g] # "none"
    BY <1>1, <1>5, <1>10, <2>1 DEF Inv, TypeOK, OnRecord
  <2>3. f \notin have[run.at]
    BY <1>1, <1>10 DEF Inv, OnRecord
  <2>4. OnDisk'
    <3>1. \A u \in run'.done : \A g \in run'.plan[u] : tree'[u][g] # "none"
      BY <1>0, <1>1, <1>7, <1>10, <2>1 DEF Inv, OnDisk, Working, RunType
    <3>2. \A g \in run'.plan[run'.at] \ run'.left : tree'[run'.at][g] # "none"
      BY <1>0, <1>1, <1>5, <1>7, <1>10, <2>1 DEF Inv, OnDisk
    <3>3. run'.placed \cap have'[run'.at] = {}
      BY <1>0, <1>5, <1>7, <1>9, <1>10, <2>3 DEF Inv, OnDisk
    <3> QED BY <3>1, <3>2, <3>3 DEF OnDisk
  <2>5. NothingStray'
    <3>1. run'.pc \in Working /\ run'.done = run.done /\ run'.at = run.at
          /\ run'.placed = run.placed \cup {f}
      BY <1>3, <1>5, <1>7, <1>10 DEF Working
    <3> QED BY <1>9, <1>10, <2>1, <3>1 DEF Inv, NothingStray, Answered
  <2>6. Traced'
    <3>1. /\ run'.plan = run.plan /\ run'.at = run.at /\ run'.swapped = run.swapped
          /\ run'.placed = run.placed \cup {f} /\ run'.left = run.left \ {f}
      BY <1>5, <1>7, <1>10
    <3>2. f \notin run.swapped
      BY <1>p, <1>3
    <3> QED BY <1>0, <1>1, <1>p, <1>5, <2>1, <3>1, <3>2 DEF Inv, Traced
  <2> QED BY <1>p, <1>2, <1>7, <1>8, <1>9, <1>10, <2>1, <2>2, <2>4, <2>5, <2>6, ClaimedKeeps
<1>11. CASE /\ tree[run.at][f] \in {"new", "same"} /\ tree' = tree
            /\ run' = r /\ UNCHANGED database /\ leftover' = leftover /\ unmet' = unmet
  <2>1. \A u \in Units : \A g \in have[u] : tree'[u][g] # "none"
    BY <1>11 DEF Inv, OnRecord
  <2>2. OnDisk'
    <3>1. \A u \in run'.done : \A g \in run'.plan[u] : tree'[u][g] # "none"
      BY <1>0, <1>6, <1>11 DEF Inv, OnDisk, Working
    <3>2. \A g \in run'.plan[run'.at] \ run'.left : tree'[run'.at][g] # "none"
      BY <1>0, <1>5, <1>6, <1>11 DEF Inv, OnDisk
    <3>3. run'.placed \cap have'[run'.at] = {}
      BY <1>0, <1>6, <1>9, <1>11 DEF Inv, OnDisk
    <3> QED BY <3>1, <3>2, <3>3 DEF OnDisk
  <2>3. NothingStray'
    <3>1. run'.pc \in Working /\ run'.done = run.done /\ run'.at = run.at /\ run'.placed = run.placed
      BY <1>3, <1>6, <1>11 DEF Working
    <3> QED BY <1>9, <1>11, <3>1 DEF Inv, NothingStray, Answered
  <2>4. Traced'
    <3>1. /\ run'.plan = run.plan /\ run'.at = run.at /\ run'.swapped = run.swapped
          /\ run'.placed = run.placed /\ run'.left = run.left \ {f}
      BY <1>5, <1>6, <1>11
    <3> QED BY <1>0, <1>1, <1>5, <1>11, <3>1 DEF Inv, Traced
  <2> QED BY <1>p, <1>2, <1>6, <1>8, <1>9, <1>11, <2>1, <2>2, <2>3, <2>4, ClaimedKeeps
<1>12. CASE _remove_quietly_many(run.at, run.placed) /\ UnitFails(FALSE)
  <2>1. run.placed \cap have[run.at] = {}
    BY <1>0 DEF Inv, OnDisk
  <2> QED BY <1>0, <1>1, <1>p, <1>12, <2>1, UnitFailsKeeps
<1> QED BY <1>4, <1>10, <1>11, <1>12

(* The breadcrumb: the row is claimed already. *)
LEMMA RecordKeeps ==
  ASSUME Inv, NEW always \in BOOLEAN, RecordPath(always)
  PROVE  Inv'
<1> DEFINE r == [run EXCEPT !.pc = "scan"]
<1>1. /\ run.pc = "record" /\ run' = r /\ UNCHANGED <<kind, scope, want, have, lib>>
      /\ tree' = tree /\ leftover' = leftover /\ unmet' = unmet
  BY DEF RecordPath
<1>2. /\ r \in RunType /\ r.pc = "scan" /\ r.left = run.left /\ r.placed = run.placed
      /\ r.todo = run.todo /\ r.done = run.done /\ r.plan = run.plan /\ r.scoped = run.scoped
      /\ r.targets = run.targets /\ r.fails = run.fails /\ r.at = run.at
      /\ r.swapped = run.swapped
  BY DEF Inv, TypeOK, RunType
<1> HIDE DEF r
<1>3. dl \in RowType /\ dl.status = "importing" /\ run.at \in Units
  BY <1>1 DEF Inv, TypeOK, DownloadFits, Working, RunType
<1>4. dl' \in RowType /\ dl'.status = "importing"
  BY <1>3 DEF RecordPath, update_status, RowType, Statuses
<1>5. AttemptFits(r) /\ Busy(r) /\ Busy(run)
  BY <1>1, <1>2 DEF Inv, AttemptFits, Busy, Reading, Working
<1>6. OnDisk' /\ Traced' /\ NothingStray'
  BY <1>1, <1>2, <1>5 DEF Inv, OnDisk, Traced, NothingStray, Answered, Busy, Working
<1>7. /\ tree' \in [Units -> [Files -> Trees]] /\ leftover' \in BOOLEAN
      /\ \A u \in Units : \A g \in have[u] : tree'[u][g] # "none"
  BY <1>1 DEF Inv, TypeOK, OnRecord
<1> QED BY <1>1, <1>2, <1>3, <1>4, <1>5, <1>6, <1>7, ClaimedKeeps

(* The scan: the unit is done, or what the attempt owns of it is taken back. *)
LEMMA ScanKeeps ==
  ASSUME Inv, NEW owns \in SUBSET Files, NEW clear \in BOOLEAN, TriggerScan(owns, clear),
         run.placed \subseteq owns, owns \cap have[run.at] = {}
  PROVE  Inv'
<1>0. run \in RunType /\ AttemptFits(run) /\ run.pc = "scan" /\ Busy(run) /\ unmet' = unmet
  BY DEF Inv, TypeOK, TriggerScan, Busy
<1>1. CASE _remove_quietly_many(run.at, owns) /\ UnitFails(clear)
  BY <1>0, <1>1, UnitFailsKeeps
<1>2. CASE /\ run' = NextUnit([run EXCEPT !.done = @ \cup {run.at}])
           /\ UNCHANGED <<database, tree, placing, leftover>>
  <2> DEFINE done == run.done \cup {run.at}
             r == [run EXCEPT !.done = done]
  <2>1. /\ run' = NextUnit(r) /\ UNCHANGED database /\ tree' = tree /\ leftover' = leftover /\ unmet' = unmet
    BY <1>0, <1>2
  <2>2. /\ run.at \in Units /\ run.done \subseteq Units /\ run.left = {}
        /\ run.at \notin run.done \cup run.todo /\ run.placed \subseteq run.plan[run.at]
        /\ run.plan[run.at] # {}
    BY <1>0 DEF RunType, AttemptFits
  <2>3. /\ r \in RunType /\ r.done = done /\ r.todo = run.todo /\ r.plan = run.plan
        /\ r.scoped = run.scoped /\ r.targets = run.targets /\ r.fails = run.fails
    BY <1>0, <2>2 DEF RunType
  <2> HIDE DEF r
  <2>4. Between(r)
    BY <1>0, <2>2, <2>3 DEF Between, AttemptFits, Working
  <2>5. /\ run' \in RunType /\ AttemptFits(run') /\ run'.placed = {} /\ run'.swapped = {} /\ run'.pc \in {"place", "final"}
        /\ run'.done = done /\ run'.plan = run.plan /\ run'.scoped = run.scoped
        /\ run'.pc = "place" => run'.left = run'.plan[run'.at]
    BY <2>1, <2>3, <2>4, NextUnitFits
  <2>6. /\ dl' \in RowType /\ dl'.status = "importing" /\ dl.status # "imported"
        /\ UNCHANGED <<kind, scope, want, have, lib>>
    BY <1>0, <2>1 DEF Inv, TypeOK, DownloadFits, database, Working
  <2>7. OnDisk'
    <3>1. \A u \in run'.done : \A g \in run'.plan[u] : tree'[u][g] # "none"
      BY <1>0, <2>1, <2>2, <2>5 DEF Inv, OnDisk, Working
    <3>2. Busy(run)' => run'.plan[run'.at] \ run'.left = {} /\ run'.placed = {}
      BY <2>5 DEF Busy
    <3> QED BY <3>1, <3>2 DEF OnDisk
  <2>t. Traced'
    BY <2>5 DEF Traced, Busy
  <2>8. NothingStray'
    BY <2>1, <2>5, <2>6 DEF Inv, NothingStray, Answered, Working
  <2>9. /\ tree' \in [Units -> [Files -> Trees]] /\ leftover' \in BOOLEAN
        /\ \A u \in Units : \A g \in have[u] : tree'[u][g] # "none"
    BY <2>1 DEF Inv, TypeOK, OnRecord
  <2> QED BY <2>1, <2>5, <2>6, <2>7, <2>t, <2>8, <2>9, ClaimedKeeps
<1> QED BY <1>1, <1>2 DEF TriggerScan

(* What the three importers take back is none of what is on record. *)
LEMMA ScansKeep ==
  ASSUME Inv,
         \/ Path = "_import_download_locked" /\ TriggerScan(owns_placement, owns_placement # {})
         \/ TriggerScan(run.placed, TRUE)
  PROVE  Inv'
<1>0. run \in RunType /\ AttemptFits(run) /\ run.pc = "scan" /\ Busy(run)
  BY DEF Inv, TypeOK, TriggerScan, Busy
<1>1. /\ run.placed \subseteq run.plan[run.at] /\ run.plan[run.at] \subseteq Files
      /\ run.at \in Units /\ run.placed \cap have[run.at] = {}
  BY <1>0 DEF RunType, AttemptFits, Inv, OnDisk
<1>2. CASE TriggerScan(run.placed, TRUE)
  BY <1>1, <1>2, ScanKeeps
<1>3. CASE Path = "_import_download_locked" /\ TriggerScan(owns_placement, owns_placement # {})
  <2>1. kind = "movie"
    BY <1>3 DEF Path
  <2>2. have[run.at] = {}
    BY <1>0, <1>1, <2>1 DEF Inv, DownloadFits, Working
  <2>3. owns_placement \subseteq Files /\ run.placed \subseteq owns_placement
        /\ owns_placement \cap have[run.at] = {}
    BY <1>1, <2>2 DEF owns_placement
  <2> QED BY <1>3, <2>3, ScanKeeps
<1> QED BY <1>2, <1>3

(* The finalize: the units done are imported together, and the row with them unless one    *)
(* failed or was attached meanwhile.                                                   *)
LEMMA FinalKeeps ==
  ASSUME Inv, FinalizeImport
  PROVE  Inv'
<1>0. /\ run \in RunType /\ AttemptFits(run) /\ run.pc = "final" /\ dl.status = "importing"
      /\ run' = Idle /\ kind' = kind /\ UNCHANGED <<tree, leftover>>
  BY DEF Inv, TypeOK, DownloadFits, FinalizeImport, Working, Ends, database
<1>1. /\ ~Busy(run) /\ run.placed = {} /\ run.targets = run.done \cup run.fails /\ run.done # {}
      /\ run.done \subseteq Units /\ (~run.scoped => run.fails = {}) /\ run.fails \cap run.done = {}
  BY <1>0 DEF AttemptFits, Busy, Working, RunType
<1> DEFINE late == _reread_scopes_for_finalize
           status == FinalStatus(late)
           path == CHOOSE u \in run.done : TRUE
<1>2. PICK wanted \in [run.done -> SUBSET EpisodesOf] :
        /\ dl' = [dl EXCEPT !.status = status, !.path = path]
        /\ lib' = [u \in Units |-> lib[u] \/ u \in run.done]
        /\ have' = [u \in Units |-> have[u] \cup IF u \in run.done THEN run.plan[u] ELSE {}]
        /\ scope' = [u \in Units |-> FinalScope(u)]
        /\ want' = [u \in Units |-> IF u \in run.done THEN ImportedWant(u, TargetOf(u, wanted))
                                    ELSE IF u \in run.fails THEN "import_blocked" ELSE want[u]]
        /\ unmet' = [u \in Units |-> IF u \in run.done /\ Complete(u, TargetOf(u, wanted))
                                     THEN TargetOf(u, wanted) \ (have[u] \cup run.plan[u])
                                     ELSE unmet[u]]
  BY <1>0 DEF FinalizeImport
<1>3. /\ status \in {"import_blocked", "importing", "imported"}
      /\ status = "imported" <=> run.fails = {} /\ late = {}
  BY DEF FinalStatus
<1>4. path \in Units
  BY <1>1
<1> HIDE DEF status, path
<1>5. dl' \in RowType /\ dl'.status = status
  BY <1>2, <1>3, <1>4 DEF Inv, TypeOK, RowType, Statuses
<1>6. \A u \in Units : /\ u \in run.done /\ u \in Planned => FinalScope(u) = "imported"
                       /\ FinalScope(u) \in {"imported", "import_blocked", scope[u]}
                       /\ u \notin Planned => FinalScope(u) = scope[u]
                       /\ run.fails = {} => FinalScope(u) \in {"imported", scope[u]}
  <2> SUFFICES ASSUME NEW u \in Units
               PROVE  /\ u \in run.done /\ u \in Planned => FinalScope(u) = "imported"
                      /\ FinalScope(u) \in {"imported", "import_blocked", scope[u]}
                      /\ u \notin Planned => FinalScope(u) = scope[u]
                      /\ run.fails = {} => FinalScope(u) \in {"imported", scope[u]}
    OBVIOUS
  <2>1. CASE u \in run.done /\ u \in Planned
    <3>1. FinalScope(u) = "imported"
      BY <1>1, <2>1 DEF FinalScope
    <3> QED BY <2>1, <3>1
  <2>2. CASE ~(u \in run.done /\ u \in Planned) /\ u \in run.fails /\ u \in Planned
    <3>1. FinalScope(u) = "import_blocked"
      BY <2>2 DEF FinalScope
    <3> QED BY <2>2, <3>1
  <2>3. CASE ~(u \in run.done /\ u \in Planned) /\ ~(u \in run.fails /\ u \in Planned)
    <3>1. FinalScope(u) = scope[u]
      BY <2>3 DEF FinalScope
    <3> QED BY <2>3, <3>1
  <2> QED BY <2>1, <2>2, <2>3
<1>7. \A u \in Units : /\ want'[u] \in {"completed", "searching", "import_blocked", want[u]}
                       /\ u \notin run.done => unmet'[u] = unmet[u]
                       /\ u \notin run.done /\ want'[u] = "completed" => want[u] = "completed"
                       /\ u \in run.done /\ want'[u] = "completed" => unmet'[u] = {}
  <2> SUFFICES ASSUME NEW u \in Units
               PROVE  /\ want'[u] \in {"completed", "searching", "import_blocked", want[u]}
                      /\ u \notin run.done => unmet'[u] = unmet[u]
                      /\ u \notin run.done /\ want'[u] = "completed" => want[u] = "completed"
                      /\ u \in run.done /\ want'[u] = "completed" => unmet'[u] = {}
    OBVIOUS
  <2> DEFINE target == TargetOf(u, wanted)
  <2>1. /\ want'[u] = IF u \in run.done THEN ImportedWant(u, target)
                      ELSE IF u \in run.fails THEN "import_blocked" ELSE want[u]
        /\ unmet'[u] = IF u \in run.done /\ Complete(u, target)
                       THEN target \ (have[u] \cup run.plan[u]) ELSE unmet[u]
    BY <1>2
  <2> HIDE DEF target
  <2>2. CASE u \notin run.done
    BY <2>1, <2>2
  <2>3. CASE u \in run.done /\ Complete(u, target)
    <3>1. want'[u] = "completed" /\ unmet'[u] = target \ (have[u] \cup run.plan[u])
      BY <2>1, <2>3 DEF ImportedWant
    <3>2. target \ (have[u] \cup run.plan[u]) = {}
      BY <2>3 DEF Complete
    <3> QED BY <2>3, <3>1, <3>2
  <2>4. CASE u \in run.done /\ ~Complete(u, target)
    <3>1. want'[u] = "searching"
      BY <2>1, <2>4 DEF ImportedWant
    <3> QED BY <2>4, <3>1
  <2> QED BY <2>2, <2>3, <2>4
<1>8. TypeOK'
  <2>1. scope' \in [Units -> ScopeRows] /\ want' \in [Units -> Wants]
    <3>1. want' \in [Units -> Wants]
      BY <1>2, <1>7 DEF Inv, TypeOK, Wants
    <3> QED BY <1>2, <1>6, <3>1 DEF Inv, TypeOK, ScopeRows
  <2>2. have' \in [Units -> SUBSET Files] /\ lib' \in [Units -> BOOLEAN]
    BY <1>0, <1>2 DEF Inv, TypeOK, RunType
  <2> QED BY <1>0, <1>5, <2>1, <2>2, IdleFits DEF Inv, TypeOK
<1>9. AttemptFits(run)'
  <2>1. AttemptFits(run')
    BY <1>0, IdleFits
  <2> QED BY <2>1 DEF AttemptFits, Busy
<1>10. DownloadFits'
  <2>1. ASSUME dl'.status = "imported", NEW u \in Units PROVE scope'[u] \in {"absent", "imported"}
    <3>1. run.fails = {} /\ late = {} /\ run.targets = run.done
      BY <1>1, <1>3, <1>5, <2>1
    <3>2. CASE u \in ScopeTargets
      BY <1>2, <1>6, <3>1, <3>2 DEF _reread_scopes_for_finalize, Planned
    <3>3. CASE u \notin ScopeTargets
      BY <1>2, <1>6, <3>1, <3>3 DEF ScopeTargets, Inv, TypeOK, ScopeRows
    <3> QED BY <3>2, <3>3
  <2>2. ASSUME kind = "movie"
        PROVE  dl'.status = "imported" /\ \A u \in Units : scope'[u] = "absent"
    <3>1. ~run.scoped /\ ScopeTargets = {} /\ \A u \in Units : scope[u] = "absent"
      BY <2>2 DEF Inv, DownloadFits, ScopeTargets
    <3>2. run.fails = {} /\ late = {} /\ Planned = {}
      BY <1>1, <3>1 DEF _reread_scopes_for_finalize, Planned
    <3> QED BY <1>2, <1>3, <1>5, <1>6, <3>1, <3>2
  <2> QED BY <1>0, <2>1, <2>2, IdleFits DEF DownloadFits, Working
<1>11. OnRecord'
  <2>1. ASSUME NEW u \in Units, NEW f \in have'[u] PROVE tree'[u][f] # "none"
    <3>1. f \in have[u] \/ (u \in run.done /\ f \in run.plan[u])
      BY <1>2, <2>1
    <3> QED BY <1>0, <3>1 DEF Inv, OnRecord, OnDisk, Working
  <2>2. ASSUME NEW u \in Units, want'[u] = "completed"
        PROVE  lib'[u] /\ have'[u] # {} /\ unmet'[u] = {}
    <3>1. have'[u] = (have[u] \cup IF u \in run.done THEN run.plan[u] ELSE {}) /\ lib'[u] = (lib[u] \/ u \in run.done)
      BY <1>2
    <3>2. CASE u \in run.done
      <4>1. run.plan[u] # {}
        BY <1>0, <3>2 DEF AttemptFits, Working
      <4> QED BY <1>7, <2>2, <3>1, <3>2, <4>1
    <3>3. CASE u \notin run.done
      <4>1. want[u] = "completed" /\ unmet'[u] = unmet[u]
        BY <1>7, <2>2, <3>3
      <4> QED BY <3>1, <3>3, <4>1 DEF Inv, OnRecord
    <3> QED BY <3>2, <3>3
  <2> QED BY <2>1, <2>2 DEF OnRecord
<1>12. OnDisk' /\ Traced'
  <2>1. ~Busy(run)' /\ run'.pc \notin Working
    BY <1>0, IdleFits DEF Working, Busy
  <2> QED BY <2>1 DEF OnDisk, Traced
<1>13. NothingStray'
  BY <1>0, <1>1, <1>2 DEF Inv, NothingStray, Answered
<1> QED BY <1>8, <1>9, <1>10, <1>11, <1>12, <1>13 DEF Inv

----------------------------------------------------------------------------
(* Everyone else. *)
LEMMA OthersKeep ==
  ASSUME Inv, Others
  PROVE  Inv'
<1>1. CASE mark_failed
  <2>1. Written /\ run.pc \notin Working /\ UNCHANGED <<run, tree, leftover, unmet>>
    BY <1>1, FailsWritten DEF mark_failed, Inv, DownloadFits
  <2> QED BY <2>1, WriteKeeps
<1>2. CASE TransferCompletes
  <2>1. /\ dl' \in RowType /\ dl.status = "downloading" /\ dl'.status = "import_pending"
        /\ UNCHANGED <<kind, scope, want, have, lib>> /\ UNCHANGED <<run, tree, leftover, unmet>>
    BY <1>2 DEF TransferCompletes, Inv, TypeOK, RowType, Statuses
  <2>2. Written /\ run.pc \notin Working
    BY <2>1, RowWritten DEF Inv, DownloadFits
  <2> QED BY <2>1, <2>2, WriteKeeps
<1>3. ASSUME NEW u \in Units, ensure_scope(u) PROVE Inv'
  <2>1. /\ dl' = dl /\ kind' = kind /\ have' = have /\ lib' = lib
        /\ kind # "movie" /\ dl.status # "imported" /\ UNCHANGED <<run, tree, leftover, unmet>>
    BY <1>3 DEF ensure_scope, Terminal
  <2>2. scope' \in [Units -> ScopeRows] /\ want' \in [Units -> Wants]
    BY <1>3 DEF ensure_scope, Inv, TypeOK, ScopeRows, Wants
  <2>3. \A v \in Units : want'[v] = "completed" => want[v] = "completed"
    BY <1>3 DEF ensure_scope, Inv, TypeOK
  <2>4. Written
    BY <2>1, <2>2, <2>3 DEF Written, Inv, TypeOK
  <2> QED BY <2>1, <2>4, WriteKeeps DEF Inv, DownloadFits
<1>4. ASSUME NEW u \in Units, PurgeBegins(u) \/ PurgeEnds(u) PROVE Inv'
  <2>1. UNCHANGED database /\ UNCHANGED <<run, tree, leftover, unmet>>
    BY <1>4 DEF PurgeBegins, PurgeEnds
  <2>2. Written /\ dl' = dl
    BY <2>1, NothingWritten DEF Inv, database
  <2> QED BY <2>1, <2>2, WriteKeeps DEF Inv, DownloadFits
<1>5. ASSUME NEW u \in Units, NEW f \in Files, Intrude(u, f) PROVE Inv'
  <2> DEFINE swapped == IF Published(u, f) THEN run.swapped \cup {f} ELSE run.swapped
             r == [run EXCEPT !.swapped = swapped]
  <2>1. PICK t \in {"same", "foreign"} : tree' = [tree EXCEPT ![u][f] = t]
    BY <1>5 DEF Intrude
  <2>2. UNCHANGED database /\ run' = r /\ leftover' = leftover /\ unmet' = unmet
    BY <1>5 DEF Intrude
  <2>3. /\ tree' \in [Units -> [Files -> Trees]] /\ tree'[u][f] = t
        /\ \A v \in Units, g \in Files : v # u \/ g # f => tree'[v][g] = tree[v][g]
    BY <2>1 DEF Inv, TypeOK, Trees
  <2>4. /\ swapped \subseteq Files /\ run.swapped \subseteq swapped /\ swapped \subseteq run.swapped \cup {f}
        /\ f \in swapped \ run.swapped => Published(u, f)
        /\ Published(u, f) => f \in swapped
    BY DEF Inv, TypeOK, RunType
  <2> HIDE DEF swapped
  <2>5. /\ r \in RunType /\ r.swapped = swapped /\ r.pc = run.pc /\ r.left = run.left
        /\ r.placed = run.placed /\ r.todo = run.todo /\ r.done = run.done /\ r.plan = run.plan
        /\ r.scoped = run.scoped /\ r.targets = run.targets /\ r.fails = run.fails /\ r.at = run.at
    BY <2>4 DEF Inv, TypeOK, RunType
  <2> HIDE DEF r
  <2>6. Published(u, f) <=> Busy(run) /\ u = run.at /\ f \in run.plan[run.at] \ run.left
    BY DEF Published, Busy
  <2>7. AttemptFits(r)
    <3>1. Busy(r) <=> Busy(run)
      BY <2>5 DEF Busy
    <3>2. ~Busy(run) => swapped = {}
      BY <2>4, <2>6 DEF Inv, AttemptFits
    <3>3. Busy(run) => swapped \subseteq run.plan[run.at] \ run.left
      BY <2>4, <2>6 DEF Inv, AttemptFits
    <3> QED BY <2>5, <3>1, <3>2, <3>3 DEF Inv, AttemptFits
  <2>8. TypeOK'
    BY <2>2, <2>3, <2>5 DEF Inv, TypeOK, database
  <2>9. AttemptFits(run)' /\ DownloadFits'
    BY <2>2, <2>5, <2>7 DEF Inv, AttemptFits, Busy, DownloadFits, database
  <2>10. OnRecord'
    BY <2>2, <2>3 DEF Inv, TypeOK, OnRecord, database
  <2>11. OnDisk'
    <3>1. /\ Busy(run)' <=> Busy(run)
          /\ run'.pc = run.pc /\ run'.done = run.done /\ run'.plan = run.plan /\ run'.at = run.at
          /\ run'.left = run.left /\ run'.placed = run.placed /\ have' = have
      BY <2>2, <2>5 DEF Busy, database
    <3>2. \A v \in Units, g \in Files : tree[v][g] # "none" => tree'[v][g] # "none"
      BY <2>3
    <3>3. run.done \subseteq Units /\ run.at \in Units /\ run.plan \in [Units -> SUBSET Files]
      BY DEF Inv, TypeOK, RunType
    <3> QED BY <3>1, <3>2, <3>3 DEF Inv, OnDisk
  <2>12. NothingStray'
    BY <2>2, <2>3, <2>5 DEF Inv, NothingStray, Answered, database
  <2>13. Traced'
    <3> SUFFICES ASSUME Busy(run)'
                 PROVE  /\ \A g \in run.placed \ swapped : tree'[run.at][g] = "new"
                        /\ \A g \in (run.plan[run.at] \ run.left) \ swapped : tree'[run.at][g] \in {"new", "same"}
                        /\ \A g \in swapped : tree'[run.at][g] \in {"same", "foreign"}
      BY <2>2, <2>5 DEF Traced
    <3>1. /\ Busy(run) /\ run.at \in Units /\ run.plan[run.at] \subseteq Files
          /\ run.placed \subseteq run.plan[run.at] \ run.left
      BY <2>2, <2>5 DEF Busy, Inv, TypeOK, RunType, AttemptFits
    <3>2. \A g \in (run.plan[run.at] \ run.left) \ swapped : tree'[run.at][g] = tree[run.at][g]
      BY <2>3, <2>4, <2>6, <3>1
    <3>3. \A g \in swapped : tree'[run.at][g] \in {"same", "foreign"}
      <4>1. ASSUME NEW g \in swapped PROVE tree'[run.at][g] \in {"same", "foreign"}
        <5>1. CASE run.at = u /\ g = f
          BY <2>3, <5>1
        <5>2. CASE ~(run.at = u /\ g = f)
          <6>1. g \in run.swapped
            BY <2>4, <2>6, <4>1, <5>2
          <6> QED BY <2>3, <2>4, <3>1, <4>1, <5>2, <6>1 DEF Inv, Traced
        <5> QED BY <5>1, <5>2
      <4> QED BY <4>1
    <3> QED BY <2>4, <3>1, <3>2, <3>3 DEF Inv, Traced
  <2> QED BY <2>8, <2>9, <2>10, <2>11, <2>12, <2>13 DEF Inv
<1>6. CASE Crash
  <2>1. /\ run' = Idle /\ UNCHANGED database /\ tree' = tree /\ unmet' = unmet
        /\ leftover' = (leftover \/ run.pc \in Working)
    BY <1>6 DEF Crash, Working
  <2>2. Written
    BY <2>1, NothingWritten DEF Inv
  <2>3. ~leftover' => \A u \in Units, f \in Files : tree'[u][f] = "new" => lib[u]
    BY <2>1 DEF Inv, NothingStray, Answered
  <2>4. /\ tree' \in [Units -> [Files -> Trees]] /\ leftover' \in BOOLEAN
        /\ \A u \in Units : \A g \in have[u] : tree'[u][g] # "none"
    BY <2>1 DEF Inv, TypeOK, OnRecord
  <2> QED BY <2>1, <2>2, <2>3, <2>4, EndsKeeps
<1> QED BY <1>1, <1>2, <1>3, <1>4, <1>5, <1>6 DEF Others

(* The steps an import is made of, whichever of the three importers takes them. *)
ImportAction ==
  \/ ResolveContent \/ ProbeSources \/ PlanImport \/ ClaimImporting \/ StartUnit \/ PlaceFile
  \/ RecordPath(TRUE) \/ RecordPath(FALSE) \/ FinalizeImport \/ TriggerScan(run.placed, TRUE)
  \/ (Path = "_import_download_locked" /\ TriggerScan(owns_placement, owns_placement # {}))

LEMMA ImportActions ==
  ASSUME Import
  PROVE  import_download(TRUE) \/ import_download(FALSE) \/ ClientUnreachable \/ ImportAction
BY DEF Import, run_import_cycle, RetryImport, MovieValidates, MoviePlaces, MovieEnds, TvValidates,
   TvPlans, TvPlaces, TvEnds, TargetsValidate, TargetsPlace, TargetsEnd, ImportAction

LEMMA ImportKeeps == Inv /\ [Next]_vars => Inv'
<1> SUFFICES ASSUME Inv, [Next]_vars PROVE Inv'
  OBVIOUS
<1>1. CASE import_download(TRUE) \/ import_download(FALSE)
  BY <1>1, EntryKeeps
<1>2. CASE ClientUnreachable
  <2>1. Written
    BY <1>2, NothingWritten DEF ClientUnreachable, Inv
  <2> QED BY <1>2, <2>1, EarlyEnd DEF ClientUnreachable, Ends, Working
<1>3. CASE ImportAction
  BY <1>3, ResolveKeeps, ProbeKeeps, PlanKeeps, ClaimKeeps, StartKeeps, PlaceKeeps, RecordKeeps,
     FinalKeeps, ScansKeep DEF ImportAction
<1>4. CASE Others
  BY <1>4, OthersKeep
<1>5. CASE UNCHANGED vars
  <2>1. UNCHANGED database /\ UNCHANGED <<run, tree, leftover, unmet>>
    BY <1>5 DEF vars, database
  <2>2. Written /\ dl' = dl
    BY <2>1, NothingWritten DEF Inv, database
  <2> QED BY <2>1, <2>2, WriteKeeps DEF Inv, DownloadFits
<1> QED BY <1>1, <1>2, <1>3, <1>4, <1>5, ImportActions DEF Next

LEMMA ImportInvariant == Spec => []Inv
BY ImportInit, ImportKeeps, PTL DEF Spec

(* For every number of seasons and files, every target, every order of attempts, failures,  *)
(* purges, intruders and crashes: what is on record is on disk, what is completed lacks     *)
(* nothing of its target, what is imported has all its seasons, and a rollback leaves        *)
(* nothing behind.                                                                  *)
THEOREM ImportAlwaysWhole == Spec => []ImportIsWhole
<1>1. Inv => CompletedHasFiles
  BY DEF Inv, OnRecord, CompletedHasFiles
<1>2. Inv => ImportedLeavesNoScope
  BY DEF Inv, DownloadFits, ImportedLeavesNoScope
<1>3. Inv => RollbackIsClean
  BY DEF Inv, NothingStray, Answered, Working, RollbackIsClean
<1>4. Inv => ImportIsWhole
  BY <1>1, <1>2, <1>3 DEF ImportIsWhole
<1> QED BY <1>4, ImportInvariant, PTL

(* A step of anybody leaves a failed row failed: the only write that does not ask what the    *)
(* row is, the breadcrumb's, finds it claimed.                                           *)
THEOREM FailureIsFinal == Spec => FailedStays
<1>1. ASSUME Inv, [Next]_vars, dl.status = "failed" PROVE dl'.status = "failed"
  <2>1. run.pc \notin Working
    BY <1>1 DEF Inv, DownloadFits
  <2>2. dl.status \notin _RESUMABLE /\ dl.status # "importing"
    BY <1>1 DEF _RESUMABLE
  <2>3. ASSUME Fails(dl, run.targets) PROVE dl'.status = "failed"
    BY <1>1, <2>3 DEF Fails, Inv, TypeOK, RowType
  <2>4. ASSUME NEW clear \in BOOLEAN, _block(clear) PROVE dl' = dl
    BY <2>2, <2>4 DEF _block
  <2>5. CASE import_download(TRUE) \/ import_download(FALSE) \/ ClientUnreachable
    BY <1>1, <2>5 DEF import_download, ClientUnreachable, database
  <2>6. CASE ResolveContent
    BY <1>1, <2>2, <2>4, <2>6 DEF ResolveContent, DeferToClient, database
  <2>7. CASE ProbeSources
    <3>1. \/ UNCHANGED database \/ _refresh_resumed_import \/ _block(FALSE) \/ RejectPayload
          \/ Ends /\ IF dl.status \in _RESUMABLE THEN Fails(dl, run.targets) ELSE UNCHANGED database
      BY <2>7 DEF ProbeSources, database
    <3> QED BY <1>1, <2>2, <2>4, <3>1 DEF _refresh_resumed_import, RejectPayload, database
  <2>8. CASE PlanImport
    BY <1>1, <2>4, <2>8 DEF PlanImport, database
  <2>9. CASE ClaimImporting
    BY <1>1, <2>2, <2>9 DEF ClaimImporting
  <2>10. CASE \/ StartUnit \/ PlaceFile \/ RecordPath(TRUE) \/ RecordPath(FALSE) \/ FinalizeImport
              \/ TriggerScan(run.placed, TRUE) \/ TriggerScan(owns_placement, owns_placement # {})
    BY <2>1, <2>10 DEF StartUnit, PlaceFile, RecordPath, FinalizeImport, TriggerScan, Working
  <2>11. CASE mark_failed \/ TransferCompletes
    BY <1>1, <2>11 DEF mark_failed, TransferCompletes
  <2>12. CASE Crash \/ \E u \in Units : ensure_scope(u) \/ PurgeBegins(u) \/ PurgeEnds(u)
                                        \/ \E f \in Files : Intrude(u, f)
    BY <1>1, <2>12 DEF Crash, ensure_scope, PurgeBegins, PurgeEnds, Intrude, database
  <2>13. CASE UNCHANGED vars
    BY <1>1, <2>13 DEF vars
  <2> QED BY <1>1, <2>5, <2>6, <2>7, <2>8, <2>9, <2>10, <2>11, <2>12, <2>13, ImportActions
          DEF Next, ImportAction, Others
<1>2. Inv /\ [Next]_vars => [dl.status = "failed" => dl'.status = "failed"]_vars
  BY <1>1
<1> QED BY <1>2, ImportInvariant, PTL DEF Spec, FailedStays

(* A removal takes what this attempt created or accepted and nobody replaced since: a file    *)
(* of somebody else only if it is the adopted one.                                      *)
LEMMA RemovalSpares ==
  ASSUME Inv, Busy(run), NEW fs \in SUBSET run.plan[run.at], _remove_quietly_many(run.at, fs),
         NEW u \in Units, NEW f \in Files, tree[u][f] \in {"same", "foreign"},
         fs \subseteq run.placed \/ ~(u = run.at /\ f \in run.plan[u] \ run.swapped /\ tree[u][f] = "same"),
         run.left = {} \/ fs \subseteq run.placed
  PROVE  tree'[u][f] \in {"same", "foreign"}
<1>0. tree \in [Units -> [Files -> Trees]] /\ run.at \in Units /\ run.placed \subseteq run.plan[run.at] \ run.left
  BY DEF Inv, TypeOK, RunType, AttemptFits
<1>1. PICK gone \in SUBSET fs :
        tree' = [tree EXCEPT ![run.at] = [g \in Files |->
                   IF g \in gone THEN remove_published(g, @[g]) ELSE @[g]]]
  BY DEF _remove_quietly_many
<1>2. CASE u # run.at
  BY <1>0, <1>1, <1>2
<1>3. CASE u = run.at
  <2>1. tree'[u][f] = IF f \in gone THEN remove_published(f, tree[u][f]) ELSE tree[u][f]
    BY <1>0, <1>1, <1>3
  <2>2. CASE f \notin gone \/ f \in run.swapped
    BY <2>1, <2>2 DEF remove_published
  <2>3. CASE f \in gone /\ f \notin run.swapped
    <3>1. f \in fs /\ f \in run.plan[u]
      BY <1>1, <1>3, <2>3
    <3>2. f \in run.placed => tree[u][f] = "new"
      BY <1>3, <2>3 DEF Inv, Traced
    <3>3. ~(fs \subseteq run.placed) /\ run.left = {}
      BY <3>1, <3>2
    <3>4. tree[u][f] \in {"new", "same"}
      BY <1>3, <2>3, <3>1, <3>3 DEF Inv, Traced
    <3> QED BY <1>3, <2>3, <3>1, <3>3, <3>4
  <2> QED BY <2>2, <2>3
<1> QED BY <1>2, <1>3

(* Nothing is overwritten, and what is taken back is what this attempt published, at every    *)
(* destination and in every step; the one exception is the film file adopted under an        *)
(* earlier attempt's breadcrumb.                                                      *)
THEOREM OthersFilesKept == Spec => OthersFilesSurvive
<1> DEFINE Kept == \A u \in Units, f \in Files :
                     tree[u][f] \in {"same", "foreign"} /\ ~Adopted(u, f)
                       => tree'[u][f] \in {"same", "foreign"}
<1>1. ASSUME Inv, [Next]_vars PROVE Kept
  <2>0. tree \in [Units -> [Files -> Trees]] /\ run.at \in Units /\ AttemptFits(run)
    BY <1>1 DEF Inv, TypeOK, RunType
  <2>1. CASE tree' = tree
    BY <2>1
  <2>2. ASSUME Busy(run), _remove_quietly_many(run.at, run.placed) PROVE Kept
    <3>1. run.placed \in SUBSET run.plan[run.at]
      BY <2>0, <2>2 DEF AttemptFits
    <3> QED BY <1>1, <2>2, <3>1, RemovalSpares
  <2>3. CASE PlaceFile
    <3> DEFINE f == CHOOSE x \in run.left : TRUE
    <3>1. \/ _place_file(f) = "placed" /\ tree' = [tree EXCEPT ![run.at][f] = "new"]
          \/ tree' = tree \/ _remove_quietly_many(run.at, run.placed)
      BY <2>3 DEF PlaceFile
    <3>2. _place_file(f) = "placed" => tree[run.at][f] = "none"
      BY DEF _place_file, hardlink_or_copy
    <3> HIDE DEF f
    <3>3. CASE tree[run.at][f] = "none" /\ tree' = [tree EXCEPT ![run.at][f] = "new"]
      BY <2>0, <3>3
    <3>4. Busy(run)
      BY <2>3 DEF PlaceFile, Busy
    <3> QED BY <2>1, <2>2, <3>1, <3>2, <3>3, <3>4
  <2>4. CASE \/ TriggerScan(run.placed, TRUE)
             \/ Path = "_import_download_locked" /\ TriggerScan(owns_placement, owns_placement # {})
    <3>1. run.pc = "scan" /\ Busy(run) /\ run.left = {}
      BY <2>0, <2>4 DEF TriggerScan, Busy, AttemptFits
    <3>2. \/ tree' = tree \/ _remove_quietly_many(run.at, run.placed)
          \/ kind = "movie" /\ dl.path = run.at /\ _remove_quietly_many(run.at, run.plan[run.at])
      BY <2>4 DEF TriggerScan, owns_placement, Path
    <3>3. ASSUME kind = "movie", dl.path = run.at, _remove_quietly_many(run.at, run.plan[run.at]),
                 NEW u \in Units, NEW f \in Files,
                 tree[u][f] \in {"same", "foreign"}, ~Adopted(u, f)
          PROVE  tree'[u][f] \in {"same", "foreign"}
      <4>1. ~(u = run.at /\ f \in run.plan[u] \ run.swapped /\ tree[u][f] = "same")
        BY <3>1, <3>3 DEF Adopted
      <4> QED BY <1>1, <3>1, <3>3, <4>1, RemovalSpares
    <3> QED BY <2>1, <2>2, <3>1, <3>2, <3>3
  <2>5. ASSUME NEW u \in Units, NEW f \in Files, Intrude(u, f) PROVE Kept
    BY <2>0, <2>5 DEF Intrude
  <2>6. CASE import_download(TRUE) \/ import_download(FALSE) \/ ClientUnreachable
    BY <2>1, <2>6 DEF import_download, ClientUnreachable
  <2>7. CASE \/ ResolveContent \/ ProbeSources \/ PlanImport \/ ClaimImporting \/ StartUnit
             \/ RecordPath(TRUE) \/ RecordPath(FALSE) \/ FinalizeImport
    BY <2>1, <2>7 DEF ResolveContent, ProbeSources, PlanImport, ClaimImporting, StartUnit, RecordPath,
       FinalizeImport
  <2>8. CASE mark_failed \/ TransferCompletes \/ Crash
             \/ \E u \in Units : ensure_scope(u) \/ PurgeBegins(u) \/ PurgeEnds(u)
    BY <2>1, <2>8 DEF mark_failed, TransferCompletes, Crash, ensure_scope, PurgeBegins, PurgeEnds
  <2>9. CASE UNCHANGED vars
    BY <2>1, <2>9 DEF vars
  <2> QED BY <1>1, <2>3, <2>4, <2>5, <2>6, <2>7, <2>8, <2>9, ImportActions
          DEF Next, ImportAction, Others
<1>2. Inv /\ [Next]_vars => [Kept]_vars
  BY <1>1
<1> QED BY <1>2, ImportInvariant, PTL DEF Spec, OthersFilesSurvive

(***************************************************************************)
(* Rows                                                                    *)
(***************************************************************************)
(* Every row of a table has its columns, or is what is left of a deleted one.                  *)
Fits(row) == RowFits(media_type, row)

(* A row that is there, with all its columns.                                           *)
Shaped(row) ==
  /\ row = [status |-> row.status, scopes |-> row.scopes, owner |-> row.owner,
            subscribers |-> row.subscribers, regrab |-> row.regrab, imported |-> row.imported,
            generation |-> row.generation, verified |-> row.verified, minted |-> row.minted,
            deleted |-> row.deleted]
  /\ row.deleted = FALSE
  /\ row.scopes = [s \in Scopes |-> row.scopes[s]]
(* What its status says of its seasons, and who takes part in it.                          *)
Standing(row) ==
  /\ row.status = "cancelled" => \A s \in Scopes : row.scopes[s] \in {"none", "cancelled"}
  /\ media_type = "movie" => row.scopes[1] = row.status /\ row.status # "none"
  /\ row.minted \in BOOLEAN /\ (row.minted => row.status = "available")
Attended(row) == row.owner \in row.subscribers \cup {Nobody} /\ row.subscribers \subseteq Users
SameSeasons(row, new) ==
  new.status = row.status /\ new.scopes = row.scopes /\ new.minted = row.minted
SameParty(row, new) == new.owner = row.owner /\ new.subscribers = row.subscribers
SameFiles(row, new) == new.imported = row.imported /\ new.generation = row.generation

(* A row fits just when it is what is left of a deleted one, or has its columns and they agree. *)
LEMMA FitsShaped ==
  ASSUME NEW row
  PROVE  /\ Fits(row) <=> row = Deleted \/ (Shaped(row) /\ Standing(row) /\ Attended(row))
         /\ Shaped(row) => row # Deleted /\ row.deleted = FALSE /\ DOMAIN row.scopes = Scopes
BY DEF Fits, RowFits, Scopes, Shaped, Standing, Attended, Deleted

(* A row whose participants are x, or whose owner is x, and that is the row otherwise.        *)
PartySet(row, new, x) ==
  /\ Shaped(new) /\ SameSeasons(row, new) /\ SameFiles(row, new)
  /\ new.owner = row.owner /\ new.subscribers = x
OwnerSet(row, new, x) ==
  /\ Shaped(new) /\ SameSeasons(row, new) /\ SameFiles(row, new)
  /\ new.owner = x /\ new.subscribers = row.subscribers

(* One column is written, and the others stay.                                           *)
LEMMA PartyWritten ==
  ASSUME NEW row, Shaped(row), NEW x
  PROVE  PartySet(row, [row EXCEPT !.subscribers = x], x)
<1> DEFINE a == [row EXCEPT !.subscribers = x]
<1>1. a = [row EXCEPT !.subscribers = x]
  OBVIOUS
<1> HIDE DEF a
<1>2. PartySet(row, a, x)
  BY <1>1 DEF Shaped, SameSeasons, SameFiles, PartySet
<1> QED
  BY <1>2 DEF a

LEMMA OwnerWritten ==
  ASSUME NEW row, Shaped(row), NEW x
  PROVE  OwnerSet(row, [row EXCEPT !.owner = x], x)
<1> DEFINE a == [row EXCEPT !.owner = x]
<1>1. a = [row EXCEPT !.owner = x]
  OBVIOUS
<1> HIDE DEF a
<1>2. OwnerSet(row, a, x)
  BY <1>1 DEF Shaped, SameSeasons, SameFiles, OwnerSet
<1> QED
  BY <1>2 DEF a

(* The same of a mark: verified, regrab, minted. *)
LEMMA MarkWritten ==
  ASSUME NEW row, Shaped(row), NEW x
  PROVE  LET a == [row EXCEPT !.verified = x]
             b == [row EXCEPT !.regrab = x]
             c == [row EXCEPT !.minted = x]
         IN /\ Shaped(a) /\ SameSeasons(row, a) /\ SameFiles(row, a) /\ SameParty(row, a)
            /\ Shaped(b) /\ SameSeasons(row, b) /\ SameFiles(row, b) /\ SameParty(row, b)
            /\ Shaped(c) /\ c.status = row.status /\ c.scopes = row.scopes /\ c.minted = x
            /\ SameFiles(row, c) /\ SameParty(row, c)
<1> DEFINE a == [row EXCEPT !.verified = x]
           b == [row EXCEPT !.regrab = x]
           c == [row EXCEPT !.minted = x]
<1>1. a = [row EXCEPT !.verified = x] /\ b = [row EXCEPT !.regrab = x] /\ c = [row EXCEPT !.minted = x]
  OBVIOUS
<1> HIDE DEF a, b, c
<1>2. Shaped(a) /\ SameSeasons(row, a) /\ SameFiles(row, a) /\ SameParty(row, a)
  BY <1>1 DEF Shaped, SameSeasons, SameFiles, SameParty
<1>3. Shaped(b) /\ SameSeasons(row, b) /\ SameFiles(row, b) /\ SameParty(row, b)
  BY <1>1 DEF Shaped, SameSeasons, SameFiles, SameParty
<1>4. Shaped(c) /\ c.status = row.status /\ c.scopes = row.scopes /\ c.minted = x
      /\ SameFiles(row, c) /\ SameParty(row, c)
  BY <1>1 DEF Shaped, SameFiles, SameParty
<1> QED
  BY <1>2, <1>3, <1>4 DEF a, b, c

(* A season is set, and no other column. *)
LEMMA SetShaped ==
  ASSUME NEW row, Shaped(row), NEW s, NEW status
  PROVE  LET new == Set(row, s, status)
         IN /\ Shaped(new) /\ new.status = row.status /\ new.minted = row.minted
            /\ new.scopes = [row.scopes EXCEPT ![s] = status]
            /\ SameFiles(row, new) /\ SameParty(row, new)
<1> DEFINE f == [row.scopes EXCEPT ![s] = status]
           new == [row EXCEPT !.scopes = f]
<1>1. new = Set(row, s, status)
  BY DEF Set
<1>2. f = [x \in Scopes |-> f[x]]
  BY DEF Shaped
<1> HIDE DEF f
<1>3. Shaped(new) /\ new.status = row.status /\ new.scopes = f /\ new.minted = row.minted
      /\ SameFiles(row, new) /\ SameParty(row, new)
  <2>1. new = [row EXCEPT !.scopes = f]
    OBVIOUS
  <2> HIDE DEF new
  <2> QED
    BY <1>2, <2>1 DEF Shaped, SameFiles, SameParty
<1> HIDE DEF new
<1> QED
  BY <1>1, <1>3 DEF f

(* What a step may make of a row that stays: a cancelled one stays cancelled, nothing completed *)
(* becomes available, no season and no file goes, a film that is a false claim stays one,      *)
(* and nobody is left out.                                                             *)
NotRevived(row, new) == row.status = "cancelled" => new.status = "cancelled"
NotPromoted(row, new) == \A s \in Scopes : row.scopes[s] = "completed" => new.scopes[s] # "available"
Lasts(row, new) ==
  /\ Fits(new) /\ new # Deleted
  /\ Tracked(row) \subseteq Tracked(new)
  /\ row.imported \subseteq new.imported
  /\ new.minted => row.minted
ClaimStays(row, new) == media_type = "movie" /\ FalseClaim(row) => FalseClaim(new)
Firm(row, new) == Lasts(row, new) /\ ClaimStays(row, new) /\ row.subscribers \subseteq new.subscribers
Mild(row, new) == Firm(row, new) /\ NotRevived(row, new) /\ NotPromoted(row, new)

(* The columns of a row's participants are written, and nothing else.                       *)
Alike(row, new) == /\ Fits(new) /\ new # Deleted
                   /\ SameSeasons(row, new) /\ new.imported = row.imported

(* Writing a row's participants revives nothing, promotes nothing and loses no file. *)
LEMMA AlikeIsMild ==
  ASSUME NEW row, NEW new, Alike(row, new)
  PROVE  /\ NotRevived(row, new) /\ NotPromoted(row, new) /\ Lasts(row, new) /\ ClaimStays(row, new)
         /\ row.subscribers \subseteq new.subscribers => Mild(row, new)
BY DEF Alike, SameSeasons, Lasts, ClaimStays, Firm, Mild, NotRevived, NotPromoted, Tracked, FalseClaim

(* Writing the participants twice is writing them. *)
LEMMA AlikeTwice ==
  ASSUME NEW row, NEW mid, NEW new, Alike(row, mid), Alike(mid, new)
  PROVE  Alike(row, new)
BY DEF Alike, SameSeasons

(* A row with the same seasons and files, whose owner takes part, still fits. *)
LEMMA SameStands ==
  ASSUME NEW row, NEW new, Fits(row), row # Deleted,
         Shaped(new), SameSeasons(row, new), SameFiles(row, new), Attended(new)
  PROVE  Alike(row, new)
<1>1. Standing(row)
  BY FitsShaped
<1>2. Standing(new)
  BY <1>1 DEF Standing, SameSeasons
<1> QED
  BY <1>2, FitsShaped DEF Alike, SameFiles

(* add_subscriber: the caller is in, unless it is automation, and nobody is left out. *)
LEMMA Subscribing ==
  ASSUME NEW row, Fits(row), row # Deleted, NEW c \in Callers
  PROVE  LET new == add_subscriber(row, c)
         IN /\ Alike(row, new) /\ row.subscribers \subseteq new.subscribers
            /\ new.owner = row.owner
            /\ c \in Users => c \in new.subscribers
<1>1. Shaped(row) /\ Attended(row)
  BY FitsShaped
<1>2. CASE c = Automation
  <2>1. c \notin Users
    BY <1>2, RequestsAssumption
  <2>2. add_subscriber(row, c) = row
    BY <1>2 DEF add_subscriber
  <2>3. Alike(row, row)
    BY DEF Alike, SameSeasons
  <2> QED
    BY <2>1, <2>2, <2>3
<1>3. CASE c # Automation
  <2> DEFINE x == row.subscribers \cup {c}
             new == [row EXCEPT !.subscribers = x]
  <2>1. c \in Users
    BY <1>3 DEF Callers
  <2>2. add_subscriber(row, c) = new
    BY <1>3 DEF add_subscriber
  <2>3. x \subseteq Users /\ row.owner \in x \cup {Nobody} /\ row.subscribers \subseteq x /\ c \in x
    BY <1>1, <2>1 DEF Attended
  <2> HIDE DEF x
  <2>4a. PartySet(row, new, x)
    BY <1>1, PartyWritten
  <2> HIDE DEF new
  <2>4. Shaped(new) /\ SameSeasons(row, new) /\ SameFiles(row, new) /\ new.owner = row.owner
        /\ new.subscribers = x
    BY <2>4a DEF PartySet
  <2>5. Attended(new)
    BY <2>3, <2>4 DEF Attended
  <2>6. Alike(row, new)
    BY <2>4, <2>5, SameStands
  <2> QED
    BY <2>2, <2>3, <2>4, <2>6
<1> QED
  BY <1>2, <1>3

(* A row without an owner is taken over by someone who takes part in it.                       *)
LEMMA Adopting ==
  ASSUME NEW row, Fits(row), row # Deleted, NEW c \in Users
  PROVE  LET new == add_subscriber(set_owner(row, c), c)
         IN /\ Alike(row, new) /\ row.subscribers \subseteq new.subscribers
            /\ c \in new.subscribers
<1> DEFINE mid == [row EXCEPT !.owner = c]
           x == mid.subscribers \cup {c}
           new == [mid EXCEPT !.subscribers = x]
<1>1. Shaped(row) /\ Attended(row)
  BY FitsShaped
<1>2. add_subscriber(set_owner(row, c), c) = new
  BY RequestsAssumption DEF add_subscriber, set_owner
<1>3a. OwnerSet(row, mid, c)
  BY <1>1, OwnerWritten
<1> HIDE DEF mid
<1>3. Shaped(mid) /\ SameSeasons(row, mid) /\ SameFiles(row, mid) /\ mid.owner = c
      /\ mid.subscribers = row.subscribers
  BY <1>3a DEF OwnerSet
<1>4. x = row.subscribers \cup {c}
  BY <1>3
<1> HIDE DEF x
<1>5a. PartySet(mid, new, x)
  BY <1>3, PartyWritten
<1> HIDE DEF new
<1>5. Shaped(new) /\ SameSeasons(mid, new) /\ SameFiles(mid, new) /\ new.owner = c
        /\ new.subscribers = x
  BY <1>3, <1>5a DEF PartySet
<1>6. Attended(new)
  BY <1>1, <1>4, <1>5 DEF Attended
<1>7. SameSeasons(row, new) /\ SameFiles(row, new)
  BY <1>3, <1>5 DEF SameSeasons, SameFiles
<1>8. Alike(row, new)
  BY <1>5, <1>6, <1>7, SameStands
<1> QED
  BY <1>2, <1>4, <1>5, <1>8

(* copy_subscribers: whoever took part in either row takes part in the one that stays. *)
LEMMA Copying ==
  ASSUME NEW row, Fits(row), row # Deleted, NEW other, other.subscribers \subseteq Users
  PROVE  LET new == copy_subscribers(row, other)
         IN /\ Alike(row, new)
            /\ row.subscribers \subseteq new.subscribers /\ other.subscribers \subseteq new.subscribers
<1> DEFINE x == row.subscribers \cup other.subscribers
           new == [row EXCEPT !.subscribers = x]
<1>1. Shaped(row) /\ Attended(row)
  BY FitsShaped
<1>2. copy_subscribers(row, other) = new
  BY DEF copy_subscribers
<1>3. x \subseteq Users /\ row.owner \in x \cup {Nobody}
      /\ row.subscribers \subseteq x /\ other.subscribers \subseteq x
  BY <1>1 DEF Attended
<1> HIDE DEF x
<1>4a. PartySet(row, new, x)
  BY <1>1, PartyWritten
<1> HIDE DEF new
<1>4. Shaped(new) /\ SameSeasons(row, new) /\ SameFiles(row, new) /\ new.owner = row.owner
      /\ new.subscribers = x
  BY <1>4a DEF PartySet
<1>5. Attended(new)
  BY <1>3, <1>4 DEF Attended
<1>6. Alike(row, new)
  BY <1>4, <1>5, SameStands
<1> QED
  BY <1>2, <1>3, <1>4, <1>6

(* Leaving a row: somebody who stays owns it, or nobody.                                   *)
LEMMA Leaving ==
  ASSUME NEW row, Fits(row), row # Deleted, NEW c
  PROVE  /\ LET new == Left(row, c)
            IN Alike(row, new) /\ row.subscribers \ {c} \subseteq new.subscribers
         /\ \A heir \in Remaining(row, c) :
              LET new == HandOff(row, c, heir)
              IN Alike(row, new) /\ row.subscribers \ {c} \subseteq new.subscribers
<1> DEFINE x == row.subscribers \ {c}
           mid == [row EXCEPT !.subscribers = x]
           to(u) == [mid EXCEPT !.owner = u]
<1>1. Shaped(row) /\ Attended(row)
  BY FitsShaped
<1>2. x \subseteq Users /\ (row.owner # c => row.owner \in x \cup {Nobody}) /\ x = Remaining(row, c)
  BY <1>1 DEF Attended, Remaining
<1>3. /\ Left(row, c) = IF row.owner = c THEN to(Nobody) ELSE mid
      /\ \A heir : HandOff(row, c, heir) = to(IF row.owner = c THEN heir ELSE row.owner)
  BY DEF Left, HandOff, set_owner, remove_subscriber
<1>8. row.subscribers \ {c} = x
  OBVIOUS
<1> HIDE DEF x
<1>4a. PartySet(row, mid, x)
  BY <1>1, PartyWritten
<1> HIDE DEF mid
<1>4. Shaped(mid) /\ SameSeasons(row, mid) /\ SameFiles(row, mid) /\ mid.owner = row.owner
      /\ mid.subscribers = x
  BY <1>4a DEF PartySet
<1>5. ASSUME NEW u, u \in x \cup {Nobody}
      PROVE  Alike(row, to(u)) /\ to(u).subscribers = x
  <2> DEFINE new == to(u)
  <2>1a. OwnerSet(mid, new, u)
    BY <1>4, OwnerWritten
  <2> HIDE DEF new
  <2>1. Shaped(new) /\ SameSeasons(mid, new) /\ SameFiles(mid, new) /\ new.owner = u
        /\ new.subscribers = mid.subscribers
    BY <2>1a DEF OwnerSet
  <2>2. Attended(new) /\ SameSeasons(row, new) /\ SameFiles(row, new)
    BY <1>2, <1>4, <1>5, <2>1 DEF Attended, SameSeasons, SameFiles
  <2>3. Alike(row, new)
    BY <2>1, <2>2, SameStands
  <2> QED
    BY <1>4, <2>1, <2>3 DEF new
<1>6. row.owner # c => Attended(mid) /\ Alike(row, mid)
  BY <1>2, <1>4, SameStands DEF Attended
<1> HIDE DEF to
<1>7. Nobody \in x \cup {Nobody} /\ \A heir \in x : heir \in x \cup {Nobody}
  OBVIOUS
<1>9. Alike(row, Left(row, c)) /\ row.subscribers \ {c} \subseteq Left(row, c).subscribers
  <2>1. CASE row.owner = c
    BY <1>3, <1>5, <1>7, <1>8, <2>1
  <2>2. CASE row.owner # c
    BY <1>3, <1>4, <1>6, <1>8, <2>2
  <2> QED
    BY <2>1, <2>2
<1>10. ASSUME NEW heir \in Remaining(row, c)
       PROVE  /\ Alike(row, HandOff(row, c, heir))
              /\ row.subscribers \ {c} \subseteq HandOff(row, c, heir).subscribers
  <2> DEFINE u == IF row.owner = c THEN heir ELSE row.owner
  <2>1. u \in x \cup {Nobody}
    BY <1>2, <1>10
  <2>2. HandOff(row, c, heir) = to(u)
    BY <1>3
  <2> HIDE DEF u
  <2> QED
    BY <1>5, <1>8, <2>1, <2>2
<1> QED
  BY <1>9, <1>10

(* Leaving a row that is gone leaves nothing behind. *)
LEMMA LeftDeleted == \A c : Left(Deleted, c) = Deleted
BY DEF Left, set_owner, remove_subscriber, Deleted

(* What folds to cancelled is cancelled.                                               *)
LEMMA RollupCancelled ==
  ASSUME NEW statuses, rollup_status(statuses) = "cancelled"
  PROVE  statuses \subseteq {"cancelled"}
<1> DEFINE wins == {i \in 1..5 : _PRECEDENCE_STATUSES[i] \in statuses}
           open == statuses \cap {"pending", "waiting_for_air_date"}
<1>1. \A i \in 1..5 : _PRECEDENCE_STATUSES[i] # "cancelled"
  BY DEF _PRECEDENCE_STATUSES
<1>2. CASE wins # {}
  <2> DEFINE best == CHOOSE i \in wins : \A j \in wins : i <= j
  <2>1. \E i \in wins : \A j \in wins : i <= j
    BY <1>2
  <2>2. best \in 1..5
    BY <2>1
  <2>3. rollup_status(statuses) = _PRECEDENCE_STATUSES[best]
    BY <1>2 DEF rollup_status
  <2> QED
    BY <1>1, <2>2, <2>3
<1>3. CASE wins = {}
  <2>1. "available" \notin statuses /\ open = {} /\ statuses = {"cancelled"}
    BY <1>3 DEF rollup_status
  <2> QED
    BY <2>1
<1> QED
  BY <1>2, <1>3

(* The statuses downloads and the sweep write: one alone folds to itself.                     *)
WrittenStatuses == {"pending", "searching", "downloading", "failed", "completed", "available",
                    "evicted", "cancelled"}
(* rollup_status of one such status. *)
LEMMA RollupOne ==
  ASSUME NEW x \in WrittenStatuses
  PROVE  rollup_status({x}) = x
<1> DEFINE wins == {i \in 1..5 : _PRECEDENCE_STATUSES[i] \in {x}}
           open == {x} \cap {"pending", "waiting_for_air_date"}
           place == CASE x = "downloading" -> 2 [] x = "searching" -> 3 [] x = "completed" -> 5
<1>1. CASE x \in {"downloading", "searching", "completed"}
  <2> DEFINE best == CHOOSE i \in wins : \A j \in wins : i <= j
  <2>1. wins = {place} /\ place \in 1..5 /\ _PRECEDENCE_STATUSES[place] = x
    BY <1>1 DEF _PRECEDENCE_STATUSES
  <2>2. \E i \in wins : \A j \in wins : i <= j
    BY <2>1
  <2>3. best = place
    BY <2>1, <2>2
  <2>4. rollup_status({x}) = _PRECEDENCE_STATUSES[best]
    BY <2>1 DEF rollup_status
  <2> QED
    BY <2>1, <2>3, <2>4
<1>2. CASE x \in {"pending", "failed", "available", "evicted", "cancelled"}
  <2>1. wins = {}
    BY <1>2 DEF _PRECEDENCE_STATUSES
  <2>2. CASE x = "available"
    BY <2>1, <2>2 DEF rollup_status
  <2>3. CASE x = "pending"
    <3>1. open # {} /\ "pending" \in open /\ "available" \notin {x}
      BY <2>3
    <3> QED
      BY <2>1, <2>3, <3>1 DEF rollup_status
  <2>4. CASE x \in {"failed", "evicted", "cancelled"}
    <3>1. open = {} /\ "available" \notin {x}
      BY <2>4
    <3>2. rollup_status({x}) = IF \E s \in {"evicted", "cancelled"} : {x} = {s}
                               THEN CHOOSE s \in {x} : TRUE ELSE "failed"
      BY <2>1, <3>1 DEF rollup_status
    <3>3. (CHOOSE s \in {x} : TRUE) = x
      <4>1. \E s \in {x} : TRUE
        OBVIOUS
      <4> QED
        BY <4>1
    <3>4. (\E s \in {"evicted", "cancelled"} : {x} = {s}) <=> x # "failed"
      BY <2>4
    <3> QED
      BY <3>2, <3>3, <3>4
  <2> QED
    BY <1>2, <2>2, <2>3, <2>4
<1> QED
  BY <1>1, <1>2 DEF WrittenStatuses

(* The status of a row is folded again from its seasons.                                    *)
LEMMA Recomputed ==
  ASSUME NEW row, Shaped(row), Attended(row), row.minted \in BOOLEAN,
         media_type = "movie" => row.scopes[1] \in WrittenStatuses
  PROVE  LET new == _recompute_parent(row)
         IN /\ Fits(new) /\ new # Deleted
            /\ new.status = Folded(row) /\ new.scopes = row.scopes
            /\ new.minted => row.minted
            /\ row.minted /\ Folded(row) = "available" => new.minted
            /\ SameFiles(row, new) /\ SameParty(row, new)
            /\ media_type = "movie" => Folded(row) = row.scopes[1]
<1> DEFINE status == Folded(row)
           minted == row.minted /\ status = "available"
           new == [row EXCEPT !.status = status, !.minted = minted]
<1>1. new = _recompute_parent(row)
  BY DEF _recompute_parent
<1>2. (minted <=> row.minted /\ status = "available") /\ minted \in BOOLEAN
  OBVIOUS
<1>3. ASSUME media_type = "movie" PROVE status = row.scopes[1]
  <2>1. Scopes = {1} /\ DOMAIN row.scopes = {1}
    BY <1>3, FitsShaped DEF Scopes, ScopesOf
  <2>2. {row.scopes[s] : s \in Tracked(row)} = {row.scopes[1]}
    BY <1>3, <2>1 DEF Tracked, WrittenStatuses
  <2> DEFINE x == row.scopes[1]
  <2>3. x \in WrittenStatuses
    BY <1>3
  <2> HIDE DEF x
  <2>4. rollup_status({x}) = x
    BY <2>3, RollupOne
  <2> QED
    BY <2>2, <2>4 DEF Folded, x
<1>4. ASSUME status = "cancelled", NEW s \in Scopes PROVE row.scopes[s] \in {"none", "cancelled"}
  <2>1. {row.scopes[x] : x \in Tracked(row)} \subseteq {"cancelled"}
    BY <1>4, RollupCancelled DEF Folded
  <2>2. s \in DOMAIN row.scopes
    BY FitsShaped
  <2> QED
    BY <2>1, <2>2 DEF Tracked
<1>7. status = Folded(row)
  OBVIOUS
<1> HIDE DEF status, minted
<1>5. Shaped(new) /\ new.status = status /\ new.scopes = row.scopes /\ new.minted = minted
      /\ SameFiles(row, new) /\ SameParty(row, new)
  <2>1. new = [row EXCEPT !.status = status, !.minted = minted]
    OBVIOUS
  <2> HIDE DEF new
  <2> QED
    BY <2>1 DEF Shaped, SameFiles, SameParty
<1> HIDE DEF new
<1>6. Standing(new) /\ Attended(new)
  BY <1>2, <1>3, <1>4, <1>5 DEF Standing, Attended, SameParty, WrittenStatuses
<1>8. Fits(new) /\ new # Deleted
  BY <1>5, <1>6, FitsShaped
<1>9. (new.minted => row.minted) /\ (row.minted /\ status = "available" => new.minted)
  BY <1>2, <1>5
<1> QED
  BY <1>1, <1>3, <1>5, <1>7, <1>8, <1>9

(* A season of a row moves, and the row's status with it.                                     *)
LEMMA MoveIsFirm ==
  ASSUME NEW row, Fits(row), row # Deleted, NEW s \in Scopes, NEW status \in WrittenStatuses, NEW to,
         row.scopes[s] \notin {"none", "cancelled"},
         Shaped(to), to.scopes = [row.scopes EXCEPT ![s] = status], to.minted = row.minted,
         SameParty(row, to), row.imported \subseteq to.imported,
         media_type = "movie" /\ FalseClaim(row) => status = "available" /\ to.imported = {}
  PROVE  LET new == _recompute_parent(to)
         IN /\ Firm(row, new) /\ NotRevived(row, new) /\ new.scopes = to.scopes
            /\ media_type = "movie" => new.status = status
            /\ row.scopes[s] # "completed" \/ status # "available" => Mild(row, new)
<1> DEFINE new == _recompute_parent(to)
<1>1. Shaped(row) /\ Standing(row) /\ Attended(row) /\ row.status # "cancelled"
  BY FitsShaped DEF Standing
<1>2. media_type = "movie" => s = 1 /\ to.scopes[1] = status
  BY <1>1 DEF Scopes, ScopesOf, Shaped
<1>3. Attended(to) /\ to.minted \in BOOLEAN
  BY <1>1 DEF Attended, Standing, SameParty
<1>4a. media_type = "movie" => to.scopes[1] \in WrittenStatuses
  BY <1>2
<1>4b. /\ Fits(new) /\ new # Deleted /\ new.status = Folded(to) /\ new.scopes = to.scopes
       /\ new.minted => to.minted
       /\ SameFiles(to, new) /\ SameParty(to, new)
       /\ media_type = "movie" => Folded(to) = to.scopes[1]
  BY <1>3, <1>4a, Recomputed
<1> HIDE DEF new
<1>4. /\ Fits(new) /\ new # Deleted /\ new.status = Folded(to) /\ new.scopes = to.scopes
      /\ new.minted => to.minted
      /\ SameFiles(to, new) /\ SameParty(to, new)
      /\ media_type = "movie" => new.status = status
  BY <1>2, <1>4b
<1>5. DOMAIN row.scopes = Scopes /\ DOMAIN to.scopes = Scopes
  BY <1>1, FitsShaped
<1>6. Tracked(row) \subseteq Tracked(new)
  BY <1>4, <1>5 DEF Tracked, WrittenStatuses
<1>7. Lasts(row, new)
  BY <1>4, <1>6 DEF Lasts, SameFiles
<1>8. ClaimStays(row, new)
  BY <1>4 DEF ClaimStays, FalseClaim, SameFiles
<1>9. Firm(row, new)
  BY <1>4, <1>7, <1>8 DEF Firm, SameParty
<1>10. NotRevived(row, new)
  BY <1>1 DEF NotRevived
<1>11. row.scopes[s] # "completed" \/ status # "available" => NotPromoted(row, new)
  BY <1>4, <1>5 DEF NotPromoted
<1> QED
  BY <1>4, <1>9, <1>10, <1>11 DEF Mild, new

(* The row after a season was set, as one predicate.                                       *)
SeasonSet(row, new, s, status) ==
  /\ Shaped(new) /\ new.status = row.status /\ new.minted = row.minted
  /\ new.scopes = [row.scopes EXCEPT ![s] = status]
  /\ SameFiles(row, new) /\ SameParty(row, new)

(* Setting a season makes it so.                                                        *)
LEMMA SetSets ==
  ASSUME NEW row, Shaped(row), NEW s, NEW status
  PROVE  SeasonSet(row, Set(row, s, status), s, status)
<1> DEFINE to == Set(row, s, status)
<1>1. /\ Shaped(to) /\ to.status = row.status /\ to.minted = row.minted
      /\ to.scopes = [row.scopes EXCEPT ![s] = status]
      /\ SameFiles(row, to) /\ SameParty(row, to)
  BY SetShaped
<1> HIDE DEF to
<1>2. SeasonSet(row, to, s, status)
  BY <1>1 DEF SeasonSet
<1> QED
  BY <1>2 DEF to

(* The same when the index may refuse the status: then it stays what it was.                *)
LEMMA TolerantMoveIsMild ==
  ASSUME NEW row, Fits(row), row # Deleted, NEW s \in Scopes,
         NEW status \in {"available", "evicted", "cancelled"}, NEW r,
         row.scopes[s] \notin {"none", "cancelled", "completed"},
         media_type = "movie" /\ FalseClaim(row) => status = "available"
  PROVE  Mild(row, Tolerant_recompute_parent(r, Set(row, s, status)))
<1> DEFINE to == Set(row, s, status)
<1>1. Shaped(row) /\ Standing(row) /\ Attended(row) /\ row.status # "cancelled"
  BY FitsShaped DEF Standing
<1>1a. SeasonSet(row, to, s, status)
  BY <1>1, SetSets
<1> HIDE DEF to
<1>2. Shaped(to) /\ to.status = row.status /\ to.minted = row.minted
      /\ to.scopes = [row.scopes EXCEPT ![s] = status]
      /\ SameFiles(row, to) /\ SameParty(row, to)
  BY <1>1a DEF SeasonSet
<1> DEFINE new == _recompute_parent(to)
<1>3. row.imported \subseteq to.imported /\ (FalseClaim(row) => to.imported = {}) /\ status \in WrittenStatuses
  BY <1>2 DEF SameFiles, FalseClaim, WrittenStatuses
<1>4. Mild(row, new) /\ (media_type = "movie" => new.status = status)
  BY <1>2, <1>3, MoveIsFirm
<1>5. Tolerant_recompute_parent(r, to) \in {to, new}
  BY DEF Tolerant_recompute_parent
<1>6. CASE media_type = "movie"
  <2>1. ~Active(new)
    BY <1>4, <1>6 DEF Active, SETTLED_REQUEST_STATUS_VALUES, TERMINAL_REQUEST_STATUS_VALUES
  <2>2. Tolerant_recompute_parent(r, to) = new
    BY <2>1 DEF Tolerant_recompute_parent, Collides
  <2> QED
    BY <1>4, <2>2 DEF to
<1>7. CASE media_type # "movie"
  <2>1. Standing(to) /\ Attended(to)
    BY <1>1, <1>2, <1>7 DEF Standing, Attended, SameParty
  <2>2. Fits(to) /\ to # Deleted
    BY <1>2, <2>1, FitsShaped
  <2>3. DOMAIN row.scopes = Scopes /\ DOMAIN to.scopes = Scopes
    BY <1>1, <1>2, FitsShaped
  <2>4. Tracked(row) \subseteq Tracked(to)
    BY <1>2, <2>3 DEF Tracked
  <2>5. Firm(row, to)
    BY <1>2, <1>7, <2>2, <2>4 DEF Firm, Lasts, ClaimStays, SameFiles, SameParty
  <2>6. NotRevived(row, to) /\ NotPromoted(row, to)
    BY <1>1, <1>2, <2>3 DEF NotRevived, NotPromoted
  <2>7. Mild(row, to)
    BY <2>5, <2>6 DEF Mild
  <2> HIDE DEF new
  <2> QED
    BY <1>4, <1>5, <2>7 DEF to
<1> QED
  BY <1>6, <1>7

(* Cancelling keeps the row, its files and its participants, and every tracked season tracked. *)
LEMMA CancelIsMild ==
  ASSUME NEW row, Fits(row), row # Deleted, Cancellable(row)
  PROVE  Mild(row, _cancel_request_locked(row))
<1> DEFINE f == [s \in Scopes |-> IF row.scopes[s] = "none" THEN "none" ELSE "cancelled"]
           x == "cancelled"
           new == [row EXCEPT !.status = x, !.scopes = f]
<1>1. new = _cancel_request_locked(row)
  BY DEF _cancel_request_locked
<1>2. Shaped(row) /\ Standing(row) /\ Attended(row) /\ row.status # "available" /\ ~row.minted
      /\ DOMAIN row.scopes = Scopes
  BY FitsShaped DEF Cancellable, CANCELLABLE_REQUEST_STATUS_VALUES, Standing
<1>3. /\ f = [s \in Scopes |-> f[s]] /\ \A s \in Scopes : f[s] \in {"none", "cancelled"}
      /\ \A s \in Scopes : row.scopes[s] # "none" => f[s] = "cancelled"
  OBVIOUS
<1> HIDE DEF f, x
<1>4. Shaped(new) /\ new.scopes = f /\ new.status = x /\ new.minted = row.minted
      /\ SameFiles(row, new) /\ SameParty(row, new)
  <2>1. new = [row EXCEPT !.status = x, !.scopes = f]
    OBVIOUS
  <2> HIDE DEF new
  <2> QED
    BY <1>2, <1>3, <2>1 DEF Shaped, SameFiles, SameParty
<1> HIDE DEF new
<1>5. media_type = "movie" => Scopes = {1}
  BY DEF Scopes, ScopesOf
<1>6. Standing(new) /\ Attended(new)
  BY <1>2, <1>3, <1>4, <1>5 DEF Standing, Attended, SameParty, x
<1>7. Fits(new) /\ new # Deleted
  BY <1>4, <1>6, FitsShaped
<1>8. Tracked(row) \subseteq Tracked(new)
  <2>1. DOMAIN new.scopes = Scopes
    BY <1>4, FitsShaped
  <2> QED
    BY <1>2, <1>3, <1>4, <2>1 DEF Tracked
<1>9. Firm(row, new)
  BY <1>2, <1>4, <1>7, <1>8 DEF Firm, Lasts, ClaimStays, FalseClaim, SameFiles, SameParty
<1>10. NotRevived(row, new) /\ NotPromoted(row, new)
  BY <1>3, <1>4 DEF NotRevived, NotPromoted, x
<1> QED
  BY <1>1, <1>9, <1>10 DEF Mild

(* Growing a show writes what its seasons say, tracks what was asked for, and promotes nothing  *)
(* that was completed.                                                                *)
LEMMA PlanGrows ==
  ASSUME NEW row, Shaped(row), Attended(row), row.minted \in BOOLEAN, media_type # "movie",
         NEW ask, NEW present
  PROVE  LET new == _ensure_tv_season_plan(row, ask, present)
         IN /\ Firm(row, new) /\ NotPromoted(row, new) /\ SameParty(row, new)
            /\ _season_numbers(ask) \cap Scopes \subseteq Tracked(new)
<1> DEFINE evicted == evicted_seasons
           initial(s) == IF s \in present \ evicted THEN "available" ELSE "pending"
           next(s) ==
             CASE row.scopes[s] \in {"none", "evicted", "waiting_for_air_date"} -> initial(s)
               [] ask.episodes /\ row.scopes[s] \in Done -> "pending"
               [] OTHER -> row.scopes[s]
           named == _season_numbers(ask)
           f == [s \in Scopes |-> IF s \in named THEN next(s) ELSE row.scopes[s]]
           x == row.regrab \cup {s \in named \cap evicted : row.scopes[s] = "none"}
           grown == [row EXCEPT !.scopes = f, !.regrab = x]
           g == [s \in Scopes |-> IF s \in Waiting(ask) THEN "waiting_for_air_date" ELSE grown.scopes[s]]
           full == [grown EXCEPT !.scopes = g]
           new == _recompute_parent(full)
<1>1. grown = ensure_seasons(row, ask, present)
  BY DEF ensure_seasons
<1>2. _ensure_tv_season_plan(row, ask, present) = new
  BY <1>1 DEF _ensure_tv_season_plan
<1>3. /\ \A s \in Scopes : row.scopes[s] = "completed" => f[s] # "available"
      /\ \A s \in Scopes : row.scopes[s] # "none" => f[s] # "none"
      /\ \A s \in named \cap Scopes : f[s] # "none"
  BY DEF Done
<1>4. f = [s \in Scopes |-> f[s]] /\ g = [s \in Scopes |-> g[s]]
  OBVIOUS
<1>5. \A s \in Scopes : g[s] = "waiting_for_air_date" \/ g[s] = grown.scopes[s]
  OBVIOUS
<1> HIDE DEF f, x, g, initial, next, named, evicted
<1>6. Shaped(grown) /\ grown.scopes = f /\ grown.minted = row.minted
      /\ SameFiles(row, grown) /\ SameParty(row, grown)
  <2>1. grown = [row EXCEPT !.scopes = f, !.regrab = x]
    OBVIOUS
  <2> HIDE DEF grown
  <2> QED
    BY <1>4, <2>1 DEF Shaped, SameFiles, SameParty
<1> HIDE DEF grown
<1>7. Shaped(full) /\ full.scopes = g /\ full.minted = row.minted
      /\ SameFiles(row, full) /\ SameParty(row, full)
  <2>1. full = [grown EXCEPT !.scopes = g]
    OBVIOUS
  <2> HIDE DEF full
  <2> QED
    BY <1>4, <1>6, <2>1 DEF Shaped, SameFiles, SameParty
<1>8. /\ \A s \in Scopes : row.scopes[s] = "completed" => g[s] # "available"
      /\ \A s \in Scopes : row.scopes[s] # "none" => g[s] # "none"
      /\ \A s \in named \cap Scopes : g[s] # "none"
  BY <1>3, <1>5, <1>6
<1> HIDE DEF full
<1>9. Attended(full)
  BY <1>7 DEF Attended, SameParty
<1>10. /\ Fits(new) /\ new # Deleted /\ new.scopes = g /\ (new.minted => row.minted)
       /\ SameFiles(full, new) /\ SameParty(full, new)
  BY <1>7, <1>9, Recomputed
<1> HIDE DEF new
<1>11. DOMAIN row.scopes = Scopes /\ DOMAIN g = Scopes
  BY <1>7, FitsShaped
<1>12. Tracked(row) \subseteq Tracked(new) /\ named \cap Scopes \subseteq Tracked(new)
  BY <1>8, <1>10, <1>11 DEF Tracked
<1>13. SameParty(row, new) /\ row.imported \subseteq new.imported
  BY <1>7, <1>10 DEF SameParty, SameFiles
<1>14. Firm(row, new)
  BY <1>10, <1>12, <1>13 DEF Firm, Lasts, ClaimStays, SameParty
<1>15. NotPromoted(row, new)
  BY <1>8, <1>10 DEF NotPromoted
<1> QED
  BY <1>2, <1>12, <1>13, <1>14, <1>15 DEF named

(***************************************************************************)
(* The table                                                               *)
(***************************************************************************)
TableOK == TableFits(media_type, rows)
Confirmed(r) ==
  \A s \in Scopes : rows[r].scopes[s] = "completed" /\ rows'[r].scopes[s] = "available" =>
                       Claim(r, s) \in tick.completed
(* A row goes with the call that gives way, or as a false claim the cycle heals: it may also     *)
(* arm that one again.                                                                *)
Rearmed(r) == tick.pc = "write" /\ r = tick.at /\ tick' # tick /\ media_type = "movie"
GivesWay(r) ==
  \/ \E c \in Callers : At(c, "collapse") /\ calls[c].row = r /\ calls'[c].pc # "collapse"
  \/ Rearmed(r) /\ FalseClaim(rows[r])
Remain(r) ==
  /\ Lasts(rows[r], rows'[r])
  /\ NotRevived(rows[r], rows'[r]) \/ GrowsUnread(r)
  /\ NotPromoted(rows[r], rows'[r]) \/ Confirmed(r)
  /\ ClaimStays(rows[r], rows'[r]) \/ Rearmed(r)
  /\ \A u \in rows[r].subscribers : u \in rows'[r].subscribers \/ calls[u].pc \in {"idle", "leave"}
RowMoves(r) == (rows'[r] = Deleted /\ GivesWay(r)) \/ Remain(r)
(* A row that is created available is watched by the call that did it.                          *)
Entered(r) == \E c \in Callers : calls'[c].pc = "collapse" /\ calls'[c].row = r
TableMoves ==
  /\ media_type' = media_type /\ TableOK'
  /\ DOMAIN rows \subseteq DOMAIN rows'
  /\ \A r \in DOMAIN rows : IF r \in Rows THEN RowMoves(r) ELSE rows'[r] = Deleted
  /\ \A r \in Rows' \ DOMAIN rows : rows'[r].minted => Entered(r)

(* A row that changes mildly is one that remains. *)
LEMMA MildRemains ==
  ASSUME NEW r, Mild(rows[r], rows'[r])
  PROVE  RowMoves(r)
BY DEF Mild, Firm, RowMoves, Remain

(* A row that is not written changes mildly. *)
LEMMA SameIsMild ==
  ASSUME NEW row, Fits(row), row # Deleted
  PROVE  Mild(row, row) /\ Alike(row, row)
BY DEF Mild, Firm, Lasts, ClaimStays, NotRevived, NotPromoted, Alike, SameSeasons

(* A function on 1..n is a sequence of its values. *)
LEMMA TableIsSeq ==
  ASSUME NEW t, NEW n \in Nat, t = [i \in 1..n |-> t[i]]
  PROVE  t \in Seq({t[i] : i \in DOMAIN t})
<1>1. DOMAIN t = 1..n
  OBVIOUS
<1>2. t \in [1..n -> {t[i] : i \in DOMAIN t}]
  BY <1>1
<1> QED
  BY <1>2, SeqDef

(* The ids of the table are 1..Len(rows), and every row fits. *)
LEMMA TableShape ==
  ASSUME TableOK
  PROVE  /\ Len(rows) \in Nat /\ DOMAIN rows = 1..Len(rows)
         /\ rows = [r \in 1..Len(rows) |-> rows[r]]
         /\ \A r \in DOMAIN rows : Fits(rows[r])
         /\ \A r \in DOMAIN rows : r \in Rows <=> rows[r] # Deleted
         /\ \A r \in DOMAIN rows : r \in Rows <=> ~rows[r].deleted
         /\ Rows \subseteq DOMAIN rows /\ Rows \subseteq 1..Len(rows) /\ Rows \subseteq Nat
         /\ 0 \notin Rows
<1> DEFINE T == {rows[r] : r \in DOMAIN rows}
<1>1. rows \in Seq(T)
  BY DEF TableOK, TableFits
<1>2. Len(rows) \in Nat /\ DOMAIN rows = 1..Len(rows) /\ rows \in [1..Len(rows) -> T]
  BY <1>1, LenProperties
<1>3. \A r \in DOMAIN rows : Fits(rows[r])
  BY DEF TableOK, TableFits, Fits
<1>4. \A r \in DOMAIN rows : r \in Rows <=> rows[r] # Deleted
  <2> TAKE r \in DOMAIN rows
  <2>1. CASE rows[r] = Deleted
    BY <2>1 DEF Rows, Deleted
  <2>2. CASE rows[r] # Deleted
    BY <1>3, <2>2, FitsShaped DEF Rows
  <2> QED
    BY <2>1, <2>2
<1>5. Rows \subseteq DOMAIN rows /\ \A r \in DOMAIN rows : r \in Rows <=> ~rows[r].deleted
  BY DEF Rows
<1>6. rows = [r \in 1..Len(rows) |-> rows[r]]
  BY <1>2
<1>7. Rows \subseteq 1..Len(rows) /\ Rows \subseteq Nat /\ 0 \notin Rows
  BY <1>2, <1>5
<1> QED
  BY <1>2, <1>3, <1>4, <1>5, <1>6, <1>7

(* A table whose rows each move as they may moves as a whole. *)
LEMMA TableRewritten ==
  ASSUME TableOK, media_type' = media_type, rows' = [r \in DOMAIN rows |-> rows'[r]],
         \A r \in DOMAIN rows : /\ Fits(rows'[r])
                                /\ IF r \in Rows THEN RowMoves(r) ELSE rows'[r] = Deleted
  PROVE  TableMoves
<1>1. Len(rows) \in Nat /\ DOMAIN rows = 1..Len(rows) /\ Rows \subseteq DOMAIN rows
  BY TableShape
<1>2. rows' \in Seq({rows'[r] : r \in DOMAIN rows'}) /\ DOMAIN rows' = DOMAIN rows
  BY <1>1, TableIsSeq
<1>3. TableOK'
  BY <1>1, <1>2 DEF TableOK, TableFits, Fits
<1>4. Rows' \subseteq DOMAIN rows
  BY <1>2 DEF Rows
<1> QED
  BY <1>1, <1>2, <1>3, <1>4 DEF TableMoves

(* A step that writes no row moves the table. *)
LEMMA TableStays ==
  ASSUME TableOK, media_type' = media_type, rows' = rows
  PROVE  TableMoves
<1>1. /\ rows = [r \in DOMAIN rows |-> rows[r]]
      /\ \A r \in DOMAIN rows : Fits(rows[r])
      /\ \A r \in DOMAIN rows : r \in Rows <=> rows[r] # Deleted
  BY TableShape
<1>2. \A r \in Rows : Mild(rows[r], rows'[r])
  BY <1>1, SameIsMild DEF Rows
<1>3. \A r \in Rows : RowMoves(r)
  BY <1>2, MildRemains
<1>4. \A r \in DOMAIN rows : Fits(rows'[r]) /\ IF r \in Rows THEN RowMoves(r) ELSE rows'[r] = Deleted
  BY <1>1, <1>3
<1> QED
  BY <1>1, <1>4, TableRewritten

(* One row is written, and the others stay. *)
LEMMA RowPut ==
  ASSUME TableOK, media_type' = media_type, NEW r, NEW new, Put(r, new),
         r \in Rows => Fits(new) /\ (rows'[r] = new => RowMoves(r)),
         r \in DOMAIN rows \ Rows => new = Deleted
  PROVE  TableMoves
<1>1. rows' = [rows EXCEPT ![r] = new]
  BY DEF Put
<1>2. /\ DOMAIN rows = 1..Len(rows) /\ rows = [q \in 1..Len(rows) |-> rows[q]]
      /\ \A q \in DOMAIN rows : Fits(rows[q])
      /\ \A q \in DOMAIN rows : q \in Rows <=> rows[q] # Deleted
      /\ Rows \subseteq DOMAIN rows
  BY TableShape
<1>3. rows' = [q \in DOMAIN rows |-> rows'[q]]
  BY <1>1, <1>2
<1>4. ASSUME NEW q \in DOMAIN rows
      PROVE  Fits(rows'[q]) /\ IF q \in Rows THEN RowMoves(q) ELSE rows'[q] = Deleted
  <2>1. CASE q = r /\ q \in Rows
    BY <1>1, <1>2, <2>1
  <2>2. CASE q = r /\ q \notin Rows
    BY <1>1, <1>2, <2>2, FitsShaped
  <2>3. CASE q # r
    <3>1. rows'[q] = rows[q]
      BY <1>1, <2>3
    <3>2. q \in Rows => Mild(rows[q], rows'[q])
      BY <1>2, <3>1, SameIsMild
    <3> QED
      BY <1>2, <3>1, <3>2, MildRemains
  <2> QED
    BY <2>1, <2>2, <2>3
<1> QED
  BY <1>3, <1>4, TableRewritten

(* One row that stands is written mildly. *)
LEMMA MildPut ==
  ASSUME TableOK, media_type' = media_type, NEW r \in Rows, NEW new, Put(r, new), Mild(rows[r], new)
  PROVE  TableMoves
<1>1. Fits(new)
  BY DEF Mild, Firm, Lasts
<1>2. rows'[r] = new => RowMoves(r)
  BY MildRemains
<1> QED
  BY <1>1, <1>2, RowPut

(* A row loses a participant, who is not in the middle of a call on it.                         *)
LEMMA LeavePut ==
  ASSUME TableOK, media_type' = media_type, NEW r \in Rows, NEW new, Put(r, new),
         Alike(rows[r], new), NEW c, rows[r].subscribers \ {c} \subseteq new.subscribers,
         calls[c].pc \in {"idle", "leave"}
  PROVE  TableMoves
<1>1. Fits(new)
  BY DEF Alike
<1>2. rows'[r] = new => RowMoves(r)
  BY AlikeIsMild DEF RowMoves, Remain
<1> QED
  BY <1>1, <1>2, RowPut

(* Of a table with one row more, what was there is as it was.                               *)
LEMMA RowAdded ==
  ASSUME TableOK, media_type' = media_type, NEW row, Fits(row), row # Deleted,
         rows' = Append(rows, row), row.minted => Entered(Len(rows) + 1)
  PROVE  /\ TableMoves
         /\ Len(rows) + 1 \in Rows' \ DOMAIN rows /\ rows'[Len(rows) + 1] = row
         /\ \A r \in DOMAIN rows : rows'[r] = rows[r]
<1> DEFINE n == Len(rows)
<1>1. /\ n \in Nat /\ DOMAIN rows = 1..n /\ rows = [r \in 1..n |-> rows[r]]
      /\ \A r \in DOMAIN rows : Fits(rows[r])
      /\ \A r \in DOMAIN rows : r \in Rows <=> rows[r] # Deleted
      /\ Rows \subseteq DOMAIN rows
  BY TableShape
<1> DEFINE T == {rows[r] : r \in DOMAIN rows} \cup {row}
<1>2. rows \in [1..n -> T]
  BY <1>1
<1>3. rows \in Seq(T)
  BY <1>1, <1>2, SeqDef
<1>4. /\ Len(rows') = n + 1 /\ rows' \in Seq(T)
      /\ \A r \in 1..n : rows'[r] = rows[r]
      /\ rows'[n + 1] = row
  BY <1>3, AppendProperties
<1>5. DOMAIN rows' = 1..(n + 1)
  BY <1>4, LenProperties
<1>6. rows' \in [1..(n + 1) -> T]
  BY <1>4, LenProperties
<1>7. rows' = [r \in 1..(n + 1) |-> rows'[r]]
  <2> DEFINE m == n + 1
  <2>1. rows' \in [1..m -> T]
    BY <1>6
  <2> HIDE DEF m
  <2>2. rows' = [r \in 1..m |-> rows'[r]]
    BY <2>1
  <2> QED
    BY <2>2 DEF m
<1>8. n + 1 \in Nat
  BY <1>1
<1>9. rows' \in Seq({rows'[r] : r \in DOMAIN rows'})
  BY <1>7, <1>8, TableIsSeq
<1>10. \A r \in DOMAIN rows' : Fits(rows'[r])
  BY <1>1, <1>4, <1>5
<1>11. TableOK'
  BY <1>9, <1>10 DEF TableOK, TableFits, Fits
<1>12. \A r \in DOMAIN rows : rows'[r] = rows[r]
  BY <1>1, <1>4
<1>13. ASSUME NEW r \in DOMAIN rows
       PROVE  IF r \in Rows THEN RowMoves(r) ELSE rows'[r] = Deleted
  <2>1. r \in Rows => Mild(rows[r], rows'[r])
    BY <1>1, <1>12, SameIsMild
  <2> QED
    BY <1>1, <1>12, <2>1, MildRemains
<1>14. row.deleted = FALSE
  BY FitsShaped
<1>15. n + 1 \in Rows' /\ n + 1 \notin DOMAIN rows
  BY <1>1, <1>4, <1>5, <1>14 DEF Rows
<1>16. \A r \in Rows' \ DOMAIN rows : r = n + 1
  BY <1>1, <1>5 DEF Rows
<1>17. DOMAIN rows \subseteq DOMAIN rows'
  BY <1>1, <1>5
<1>18. \A r \in Rows' \ DOMAIN rows : rows'[r].minted => Entered(r)
  BY <1>4, <1>16
<1>19. TableMoves
  BY <1>11, <1>13, <1>17, <1>18 DEF TableMoves
<1> QED
  BY <1>4, <1>12, <1>15, <1>19

(* A row gives way to another: its subscribers go over, and it goes.                       *)
LEMMA PairMoves ==
  ASSUME TableOK, media_type' = media_type, NEW r \in Rows, NEW w \in Rows, w # r, NEW new,
         rows' = [rows EXCEPT ![w] = new, ![r] = Deleted],
         Mild(rows[w], new), GivesWay(r)
  PROVE  TableMoves /\ rows'[w] = new /\ w \in Rows'
<1>1. /\ DOMAIN rows = 1..Len(rows) /\ rows = [q \in 1..Len(rows) |-> rows[q]]
      /\ \A q \in DOMAIN rows : Fits(rows[q])
      /\ \A q \in DOMAIN rows : q \in Rows <=> rows[q] # Deleted
      /\ Rows \subseteq DOMAIN rows
  BY TableShape
<1>2. rows' = [q \in DOMAIN rows |-> rows'[q]]
  BY <1>1
<1>3. rows'[r] = Deleted /\ rows'[w] = new /\ \A q \in DOMAIN rows \ {r, w} : rows'[q] = rows[q]
  BY <1>1
<1>4. Fits(new) /\ new # Deleted
  BY DEF Mild, Firm, Lasts
<1>5. ASSUME NEW q \in DOMAIN rows
      PROVE  Fits(rows'[q]) /\ IF q \in Rows THEN RowMoves(q) ELSE rows'[q] = Deleted
  <2>1. CASE q = r
    BY <1>3, <2>1, FitsShaped DEF RowMoves
  <2>2. CASE q = w
    BY <1>3, <1>4, <2>2, MildRemains
  <2>3. CASE q # r /\ q # w
    <3>1. rows'[q] = rows[q]
      BY <1>3, <2>3
    <3>2. q \in Rows => Mild(rows[q], rows'[q])
      BY <1>1, <3>1, SameIsMild
    <3> QED
      BY <1>1, <3>1, <3>2, MildRemains
  <2> QED
    BY <2>1, <2>2, <2>3
<1>6. TableMoves
  BY <1>2, <1>5, TableRewritten
<1>7. new.deleted = FALSE /\ w \in DOMAIN rows'
  BY <1>1, <1>2, <1>4, FitsShaped
<1> QED
  BY <1>3, <1>6, <1>7 DEF Rows

(***************************************************************************)
(* What the look-ups find                                                   *)
(***************************************************************************)
(* Min of some ids is one of them, and no other is less. *)
LEMMA LeastOf ==
  ASSUME NEW S, S \subseteq Nat, S # {}
  PROVE  Min(S) \in S /\ \A x \in S : Min(S) <= x
<1> DEFINE R == OpToRel(<, Nat)
<1>1. PICK x \in S : \A y \in S : <<y, x>> \notin R
  BY WFMin, NatLessThanWellFounded
<1>2. \A y \in S : ~(y < x)
  BY <1>1 DEF OpToRel
<1>3. \A y \in S : x <= y
  BY <1>2
<1> QED
  BY <1>3 DEF Min

(* Max of some of the ids 1..n is one of them. *)
LEMMA GreatestOf ==
  ASSUME NEW n \in Nat, NEW S, S \subseteq 1..n, S # {}
  PROVE  Max(S) \in S
<1> DEFINE T == {n - x : x \in S}
<1>1. \A x \in S : n - x \in Nat
  OBVIOUS
<1>2. T \subseteq Nat /\ T # {}
  BY <1>1
<1>3. Min(T) \in T /\ \A y \in T : Min(T) <= y
  BY <1>2, LeastOf
<1>4. PICK m \in S : Min(T) = n - m
  BY <1>3
<1>5. \A x \in S : m >= x
  <2> TAKE x \in S
  <2>1. n - x \in T
    OBVIOUS
  <2>2. n - m <= n - x
    BY <1>3, <1>4, <2>1
  <2> QED
    BY <2>2
<1>6. \E x \in S : \A y \in S : x >= y
  BY <1>5
<1> QED
  BY <1>6 DEF Max

(* find_active names a row that is there and in flight. *)
LEMMA FindsActive ==
  ASSUME TableOK, find_active # 0
  PROVE  find_active \in Rows /\ Active(rows[find_active])
<1> DEFINE found == {r \in Rows : Active(rows[r])}
<1>1. found # {}
  BY DEF find_active
<1>2. found \subseteq Nat
  BY TableShape
<1>3. Min(found) \in found
  BY <1>1, <1>2, LeastOf
<1>4. find_active = Min(found)
  BY <1>1 DEF find_active
<1> HIDE DEF found
<1>5. find_active \in found
  BY <1>3, <1>4
<1> QED
  BY <1>5 DEF found

(* find_in_library names a row that is there. *)
LEMMA FindsInLibrary ==
  ASSUME TableOK, NEW c, find_in_library(c) # 0
  PROVE  find_in_library(c) \in Rows
<1> DEFINE found == {r \in Rows : rows[r].status \in Done}
           u == _dedup_preference_user_id(c)
           own == {r \in found : rows[r].owner = u /\ u # Nobody}
           free == {r \in found : rows[r].owner = Nobody /\ u # Nobody}
<1>1. found # {} /\ found \subseteq Rows /\ own \subseteq Rows /\ free \subseteq Rows
  BY DEF find_in_library
<1>2. /\ own # {} => find_in_library(c) = Max(own)
      /\ own = {} /\ free # {} => find_in_library(c) = Max(free)
      /\ own = {} /\ free = {} => find_in_library(c) = Max(found)
  BY <1>1 DEF find_in_library
<1> HIDE DEF own, free, found, u
<1>3. Len(rows) \in Nat /\ Rows \subseteq 1..Len(rows)
  BY TableShape
<1>4. /\ own # {} => Max(own) \in own
      /\ free # {} => Max(free) \in free
      /\ Max(found) \in found
  BY <1>1, <1>3, GreatestOf
<1> QED
  BY <1>1, <1>2, <1>4

(* find_earliest_available names the first available row, and one if there is any. *)
LEMMA FindsEarliest ==
  ASSUME TableOK
  PROVE  /\ find_earliest_available # 0 => find_earliest_available \in Rows
         /\ \A r \in Rows : rows[r].status = "available" =>
              find_earliest_available # 0 /\ find_earliest_available <= r
<1> DEFINE found == {r \in Rows : rows[r].status = "available"}
<1>1. found \subseteq Nat /\ 0 \notin found
  BY TableShape
<1>2. find_earliest_available = IF found = {} THEN 0 ELSE Min(found)
  BY DEF find_earliest_available
<1>3. found # {} => Min(found) \in found /\ \A x \in found : Min(found) <= x
  BY <1>1, LeastOf
<1>4. \A r : r \in found => r \in Rows
  OBVIOUS
<1>5. \A r \in Rows : rows[r].status = "available" => r \in found
  OBVIOUS
<1> HIDE DEF found
<1> QED
  BY <1>1, <1>2, <1>3, <1>4, <1>5

(***************************************************************************)
(* Calls                                                                   *)
(***************************************************************************)
(* Where a call looks for a row, and where it grows one that it found.                         *)
Looking == {"join", "probe", "movie_locked", "tv_locked", "create", "recover"}
Growing == {"grow", "grow_locked", "track", "track_locked", "winner", "winner_locked"}
Pcs == Looking \cup Growing \cup {"collapse"}
Flies(call) ==
  /\ call = [pc |-> call.pc, ask |-> call.ask, attempt |-> call.attempt, row |-> call.row,
             present |-> call.present, recovering |-> call.recovering]
  /\ call.pc \in Pcs
  /\ _season_numbers(call.ask) \subseteq Scopes
  /\ media_type = "movie" => call.pc \notin Growing
  /\ call.pc = "movie_locked" => media_type = "movie"
CallFits(call) == call = NoCall \/ call = [pc |-> "leave", row |-> call.row] \/ Flies(call)
CallsFit == calls = [c \in Callers |-> calls[c]] /\ \A c \in Callers : CallFits(calls[c])

(* A call stands on a row it takes part in.  One that has created an available row finds it as   *)
(* it left it, no other call stands on it, and of such rows only the first has no call to watch   *)
(* it.                                                                               *)
Seated(c) ==
  calls[c].pc \in Growing \cup {"collapse"} =>
    /\ calls[c].row \in DOMAIN rows
    /\ c \in Users /\ ~rows[calls[c].row].deleted => Subscribed(rows[calls[c].row], c)
Racing(c) ==
  At(c, "collapse") => /\ ~rows[calls[c].row].deleted
                       /\ _season_numbers(Ask(c)) \subseteq Tracked(rows[calls[c].row])
                       /\ media_type = "movie" => FalseClaim(rows[calls[c].row])
Apart ==
  \A c, d \in Callers : At(c, "collapse") /\ At(d, "collapse") /\ c # d => calls[c].row # calls[d].row
FirstStands ==
  \A q, r \in Rows : q < r /\ rows[q].minted /\ rows[r].minted =>
     \E c \in Callers : At(c, "collapse") /\ calls[c].row = r
CallsOK == CallsFit /\ (\A c \in Callers : Seated(c) /\ Racing(c)) /\ Apart /\ FirstStands

(* What a step makes of the call that takes it.                                            *)
CallGoes(c) ==
  LET call == calls'[c]  r == calls'[c].row
  IN /\ CallFits(call)
     /\ call.pc \in Growing \cup {"collapse"} =>
          r \in DOMAIN rows' /\ (c \in Users /\ ~rows'[r].deleted => Subscribed(rows'[r], c))
     /\ call.pc = "collapse" =>
          /\ r \in Rows' \ DOMAIN rows
          /\ _season_numbers(call.ask) \subseteq Tracked(rows'[r])
          /\ media_type = "movie" => FalseClaim(rows'[r])
     /\ At(c, "collapse") =>
          calls[c].row \notin Rows' \/ \A q \in Rows : q < calls[c].row => ~rows[q].minted
CallsMove ==
  /\ calls' = [c \in Callers |-> calls'[c]]
  /\ \E c \in Callers : /\ \A d \in Callers \ {c} : calls'[d] = calls[d]
                        /\ calls'[c] = calls[c] \/ CallGoes(c)

(* A call that takes no step still stands where it stood, whatever the others did to the table. *)
LEMMA CallStays ==
  ASSUME TableOK, TableMoves, NEW c \in Callers, calls'[c] = calls[c], Seated(c), Racing(c), Apart,
         At(c, "collapse") => ~Rearmed(calls[c].row)
  PROVE  Seated(c)' /\ Racing(c)'
<1> DEFINE r == calls[c].row
<1>1. /\ \A q \in DOMAIN rows : q \in Rows <=> ~rows[q].deleted
      /\ Deleted.deleted = TRUE
  BY TableShape DEF Deleted
<1>2. ASSUME r \in DOMAIN rows, ~rows'[r].deleted
      PROVE  Remain(r) /\ r \in Rows
  BY <1>1, <1>2 DEF TableMoves, RowMoves
<1>3. Seated(c)'
  <2> SUFFICES ASSUME calls[c].pc \in Growing \cup {"collapse"}
               PROVE  r \in DOMAIN rows' /\ (c \in Users /\ ~rows'[r].deleted => c \in rows'[r].subscribers)
    BY DEF Seated, Subscribed
  <2>1. r \in DOMAIN rows /\ (c \in Users /\ ~rows[r].deleted => c \in rows[r].subscribers)
    BY DEF Seated, Subscribed
  <2>2. calls[c].pc \notin {"idle", "leave"}
    BY DEF Growing
  <2> QED
    BY <1>1, <1>2, <2>1, <2>2 DEF TableMoves, Remain
<1>4. Racing(c)'
  <2> SUFFICES ASSUME At(c, "collapse")
               PROVE  /\ ~rows'[r].deleted
                      /\ _season_numbers(Ask(c)) \subseteq Tracked(rows'[r])
                      /\ media_type = "movie" => FalseClaim(rows'[r])
    BY DEF Racing, At, Ask, TableMoves
  <2>1. /\ r \in DOMAIN rows /\ ~rows[r].deleted
        /\ _season_numbers(Ask(c)) \subseteq Tracked(rows[r])
        /\ media_type = "movie" => FalseClaim(rows[r])
    BY DEF Seated, Racing, At
  <2>2. RowMoves(r)
    BY <1>1, <2>1 DEF TableMoves
  <2>3. ~GivesWay(r)
    BY DEF GivesWay, Apart, At
  <2>4. Remain(r)
    BY <2>2, <2>3 DEF RowMoves
  <2>5. Fits(rows'[r]) /\ rows'[r] # Deleted
    BY <2>4 DEF Remain, Lasts
  <2>6. rows'[r].deleted = FALSE
    BY <2>5, FitsShaped
  <2> QED
    BY <2>1, <2>4, <2>6 DEF Remain, Lasts, ClaimStays
<1> QED
  BY <1>3, <1>4

(* What is known of the calls in flight outlives every step of the table and of one call. *)
LEMMA CallsKept ==
  ASSUME TableOK, CallsOK, TableMoves, CallsMove,
         \A c \in Callers : At(c, "collapse") => ~Rearmed(calls[c].row)
  PROVE  CallsOK'
<1>1. PICK c \in Callers : /\ \A d \in Callers \ {c} : calls'[d] = calls[d]
                           /\ calls'[c] = calls[c] \/ CallGoes(c)
  BY DEF CallsMove
<1>2. Callers' = Callers /\ Scopes' = Scopes /\ media_type' = media_type
  BY DEF Callers, Scopes, TableMoves
<1>3. \A d \in Callers : calls'[d] = calls[d] => Seated(d)' /\ Racing(d)'
  BY CallStays DEF CallsOK
<1>4. CallGoes(c) => Seated(c)' /\ Racing(c)'
  <2> SUFFICES ASSUME CallGoes(c) PROVE Seated(c)' /\ Racing(c)'
    OBVIOUS
  <2>1. Seated(c)'
    BY DEF CallGoes, Seated, Subscribed
  <2>2. Racing(c)'
    BY <1>2 DEF CallGoes, Racing, At, Ask, Rows
  <2> QED
    BY <2>1, <2>2
<1>5. \A d \in Callers : (CallFits(calls[d]) /\ calls'[d] = calls[d]) => CallFits(calls[d])'
  BY <1>2 DEF CallFits, Flies
<1>6. CallGoes(c) => CallFits(calls[c])'
  BY <1>2 DEF CallGoes, CallFits, Flies
<1>7. CallsFit'
  BY <1>1, <1>2, <1>5, <1>6 DEF CallsFit, CallsOK, CallsMove
<1>8. \A d \in Callers : At(d, "collapse") => calls[d].row \in DOMAIN rows
  BY DEF CallsOK, Seated, At
<1>9. CallGoes(c) /\ At(c, "collapse")' => calls'[c].row \notin DOMAIN rows
  BY DEF CallGoes, At
<1>10. Apart'
  <2> SUFFICES ASSUME NEW d \in Callers, NEW e \in Callers, At(d, "collapse")', At(e, "collapse")', d # e
               PROVE  calls'[d].row # calls'[e].row
    BY <1>2 DEF Apart
  <2>1. CASE calls'[d] = calls[d] /\ calls'[e] = calls[e]
    BY <2>1 DEF CallsOK, Apart, At
  <2>2. CASE calls'[d] = calls[d] /\ e = c /\ CallGoes(c)
    BY <1>8, <1>9, <2>2 DEF At
  <2>3. CASE calls'[e] = calls[e] /\ d = c /\ CallGoes(c)
    BY <1>8, <1>9, <2>3 DEF At
  <2> QED
    BY <1>1, <2>1, <2>2, <2>3
<1>11. FirstStands'
  <2> SUFFICES ASSUME NEW q \in Rows', NEW r \in Rows', q < r, rows'[q].minted, rows'[r].minted
               PROVE  \E d \in Callers : At(d, "collapse")' /\ calls'[d].row = r
    BY <1>2 DEF FirstStands
  <2>1. CASE r \notin DOMAIN rows
    BY <2>1 DEF TableMoves, Entered, At
  <2>2. CASE r \in DOMAIN rows
    <3>1. /\ DOMAIN rows = 1..Len(rows) /\ Len(rows) \in Nat
          /\ \A x \in DOMAIN rows : x \in Rows <=> ~rows[x].deleted
          /\ Deleted.deleted = TRUE
      BY TableShape DEF Deleted
    <3>2. DOMAIN rows' = 1..Len(rows') /\ Len(rows') \in Nat
      BY LenProperties DEF TableMoves, TableOK, TableFits
    <3>3. q \in DOMAIN rows' /\ ~rows'[q].deleted /\ ~rows'[r].deleted
      BY DEF Rows
    <3>4. q \in DOMAIN rows
      BY <2>2, <3>1, <3>2, <3>3
    <3>5. Remain(q) /\ Remain(r) /\ q \in Rows /\ r \in Rows
      BY <2>2, <3>1, <3>3, <3>4 DEF TableMoves, RowMoves
    <3>6. rows[q].minted /\ rows[r].minted
      BY <3>5 DEF Remain, Lasts
    <3>7. PICK d \in Callers : At(d, "collapse") /\ calls[d].row = r
      BY <3>5, <3>6 DEF CallsOK, FirstStands
    <3>8. calls'[d] = calls[d]
      BY <1>1, <3>5, <3>6, <3>7 DEF CallGoes
    <3> QED
      BY <3>7, <3>8 DEF At
  <2> QED
    BY <2>1, <2>2
<1> QED
  BY <1>1, <1>2, <1>3, <1>4, <1>7, <1>10, <1>11 DEF CallsOK

(***************************************************************************)
(* The steps of a call                                                      *)
(***************************************************************************)
OneMoves(c) == calls' = [d \in Callers |-> calls'[d]] /\ \A d \in Callers \ {c} : calls'[d] = calls[d]

(* A step of one call leaves the calls of the others alone. *)
LEMMA OneCallMoves ==
  ASSUME CallsFit, NEW c \in Callers
  PROVE  /\ OneMoves(c) /\ CallGoes(c) => CallsMove
         /\ \A call : calls' = [calls EXCEPT ![c] = call] => OneMoves(c) /\ calls'[c] = call
BY DEF CallsFit, CallsMove, OneMoves

(* A step of no call leaves the calls alone. *)
LEMMA CallsStay ==
  ASSUME CallsFit, calls' = calls
  PROVE  CallsMove
BY DEF CallsFit, CallsMove, Callers

(* What a call answers holds when it answers.                                             *)
Honest(c, r) ==
  /\ ~rows'[r].deleted
  /\ c \in Users => c \in rows'[r].subscribers
  /\ _season_numbers(Ask(c)) \subseteq Tracked(rows'[r]) \/ _owned_by_another_user(rows'[r], c)
(* A call that created an available row and found no earlier one, or gave way.                  *)
Settles(c) ==
  At(c, "collapse") => calls[c].row \notin Rows' \/ \A q \in Rows : q < calls[c].row => ~rows[q].minted

(* Answer: the call is over, and what it answers holds of the table it leaves. *)
LEMMA AnswerHolds ==
  ASSUME CallsFit, NEW c \in Callers, NEW r, Answer(c, r), Settles(c),
         Honest(c, r) \/ ~(calls[c].attempt < _MAX_DEDUP_JOIN_ATTEMPTS)
  PROVE  CallsMove /\ AnswerIsHonest'
<1>1. calls' = [calls EXCEPT ![c] = NoCall]
      /\ answer' = [row |-> r, caller |-> c, ask |-> Ask(c), attempt |-> calls[c].attempt]
  BY DEF Answer
<1>2. calls'[c] = NoCall /\ (CallGoes(c) => CallsMove)
  BY <1>1, OneCallMoves
<1>3. CallGoes(c)
  BY <1>2 DEF CallGoes, CallFits, NoCall, Growing, Settles
<1>4. answer'.row = r /\ answer'.caller = c /\ answer'.ask = Ask(c) /\ answer'.attempt = calls[c].attempt
  BY <1>1
<1>5. AnswerIsHonest'
  BY <1>4 DEF AnswerIsHonest, Honest, Subscribed, _owned_by_another_user
<1> QED
  BY <1>2, <1>3, <1>5

(* An error of the call answers nothing. *)
LEMMA Raised ==
  ASSUME CallsFit, NEW c \in Callers, Raise(c), Settles(c)
  PROVE  CallsMove /\ AnswerIsHonest'
<1>1. calls'[c] = NoCall /\ (CallGoes(c) => CallsMove)
  BY OneCallMoves DEF Raise
<1>2. CallGoes(c)
  BY <1>1 DEF CallGoes, CallFits, NoCall, Growing, Settles
<1> QED
  BY <1>1, <1>2 DEF AnswerIsHonest, Raise

(* A call goes on, on a row it takes part in.                                              *)
LEMMA CallNext ==
  ASSUME CallsFit, NEW c \in Callers, Flies(calls[c]), NEW pc \in Pcs,
         media_type = "movie" => pc \notin Growing, pc = "movie_locked" => media_type = "movie",
         NEW attempt, NEW r, NEW present, NEW recovering,
         OneMoves(c), calls'[c] = [pc |-> pc, ask |-> Ask(c), attempt |-> attempt, row |-> r,
                                   present |-> present, recovering |-> recovering],
         Settles(c), answer' = Silent,
         pc \in Growing \cup {"collapse"} =>
           r \in DOMAIN rows' /\ (c \in Users /\ ~rows'[r].deleted => c \in rows'[r].subscribers),
         pc = "collapse" =>
          /\ r \in Rows' \ DOMAIN rows
          /\ _season_numbers(Ask(c)) \subseteq Tracked(rows'[r])
          /\ media_type = "movie" => FalseClaim(rows'[r])
  PROVE  CallsMove /\ AnswerIsHonest' /\ calls'[c].pc = pc /\ calls'[c].row = r
<1> DEFINE call == [pc |-> pc, ask |-> Ask(c), attempt |-> attempt, row |-> r,
                    present |-> present, recovering |-> recovering]
<1>1. calls'[c] = call /\ (CallGoes(c) => CallsMove)
  BY OneCallMoves
<1>2. _season_numbers(Ask(c)) \subseteq Scopes
  BY DEF Flies, Ask
<1>3. call = [pc |-> call.pc, ask |-> call.ask, attempt |-> call.attempt, row |-> call.row,
              present |-> call.present, recovering |-> call.recovering]
      /\ call.pc = pc /\ call.row = r /\ call.ask = Ask(c)
  OBVIOUS
<1> HIDE DEF call
<1>4. CallFits(call)
  BY <1>2, <1>3 DEF CallFits, Flies
<1>5. CallGoes(c)
  BY <1>1, <1>3, <1>4 DEF CallGoes, Settles, Subscribed
<1>6. AnswerIsHonest'
  BY DEF AnswerIsHonest
<1> QED
  BY <1>1, <1>3, <1>5, <1>6

(* A call that is in one of create_request's places has its columns. *)
LEMMA CallInFlight ==
  ASSUME CallsFit, NEW c \in Callers, calls[c].pc \in Pcs
  PROVE  Flies(calls[c])
BY DEF CallsFit, CallFits, NoCall, Pcs, Looking, Growing

(* What every step keeps: the table moves, the calls move, and what is answered holds.            *)
StepHolds == TableMoves /\ CallsMove /\ AnswerIsHonest'

(* A film's row tracks its one scope. *)
LEMMA FilmTracked ==
  ASSUME NEW row, Fits(row), row # Deleted, media_type = "movie"
  PROVE  Scopes \subseteq Tracked(row)
<1>1. Shaped(row) /\ Standing(row) /\ DOMAIN row.scopes = Scopes /\ Scopes = {1}
  BY FitsShaped DEF Scopes, ScopesOf
<1> QED
  BY <1>1 DEF Standing, Tracked

(* A call goes from one look at the table to another.                                      *)
LEMMA CallLooks ==
  ASSUME TableOK, CallsFit, NEW c \in Callers, calls[c].pc \in Pcs \ {"collapse"}, NEW pc \in Looking,
         pc = "movie_locked" => media_type = "movie", Goto(c, pc), answer' = Silent, rows' = rows, media_type' = media_type
  PROVE  StepHolds
<1>1. Flies(calls[c]) /\ Settles(c) /\ pc \in Pcs /\ pc \notin Growing \cup {"collapse"}
  BY CallInFlight DEF Settles, At, Pcs, Looking, Growing
<1>2. OneMoves(c)
      /\ calls'[c] = [pc |-> pc, ask |-> Ask(c), attempt |-> calls[c].attempt, row |-> calls[c].row,
                      present |-> {}, recovering |-> calls[c].recovering]
  BY <1>1 DEF Goto, OneMoves, CallsFit, Flies, Ask
<1>3. CallsMove /\ AnswerIsHonest'
  BY <1>1, <1>2, CallNext
<1> QED
  BY <1>3, TableStays DEF StepHolds

(* A call that found a row of the title subscribes to it.                                    *)
LEMMA Joined ==
  ASSUME TableOK, CallsFit, NEW c \in Callers, calls[c].pc \in Looking, NEW r \in Rows,
         media_type' = media_type, Put(r, add_subscriber(rows[r], c)),
         NEW then \in Growing, NEW present, NEW recovering,
         IF media_type = "movie" \/ Stops(c, r) THEN Answer(c, r)
         ELSE /\ OneMoves(c) /\ answer' = Silent
              /\ calls'[c] = [pc |-> then, ask |-> Ask(c), attempt |-> calls[c].attempt, row |-> r,
                              present |-> present, recovering |-> recovering]
  PROVE  StepHolds
<1> DEFINE new == add_subscriber(rows[r], c)
<1>1. r \in DOMAIN rows /\ Fits(rows[r]) /\ rows[r] # Deleted
      /\ rows = [q \in DOMAIN rows |-> rows[q]]
  BY TableShape
<1>2. Alike(rows[r], new) /\ rows[r].subscribers \subseteq new.subscribers
      /\ new.owner = rows[r].owner /\ (c \in Users => c \in new.subscribers)
  BY <1>1, Subscribing
<1>3. rows'[r] = new /\ DOMAIN rows' = DOMAIN rows /\ Put(r, new)
  BY <1>1 DEF Put
<1> HIDE DEF new
<1>4. Mild(rows[r], new) /\ Fits(new) /\ new # Deleted /\ ~new.deleted
  BY <1>2, AlikeIsMild, FitsShaped DEF Alike
<1>5. TableMoves
  BY <1>3, <1>4, MildPut
<1>6. Flies(calls[c]) /\ Settles(c)
  BY CallInFlight DEF Settles, At, Pcs, Looking
<1>7. ASSUME media_type = "movie" \/ Stops(c, r) PROVE Honest(c, r)
  <2>1. CASE media_type = "movie"
    <3>1. _season_numbers(Ask(c)) \subseteq Tracked(new)
      BY <1>4, <1>6, <2>1, FilmTracked DEF Flies, Ask
    <3> QED
      BY <1>2, <1>3, <1>4, <3>1 DEF Honest
  <2>2. CASE Stops(c, r)
    <3>1. _owned_by_another_user(new, c)
      BY <1>2, <2>2 DEF Stops, _owned_by_another_user
    <3> QED
      BY <1>2, <1>3, <1>4, <3>1 DEF Honest
  <2> QED
    BY <1>7, <2>1, <2>2
<1>8. CASE media_type = "movie" \/ Stops(c, r)
  <2>1. CallsMove /\ AnswerIsHonest'
    BY <1>6, <1>7, <1>8, AnswerHolds
  <2> QED
    BY <1>5, <2>1 DEF StepHolds
<1>9. CASE ~(media_type = "movie" \/ Stops(c, r))
  <2>1. then \in Pcs /\ then \notin {"collapse", "movie_locked"}
    BY DEF Pcs, Growing
  <2>2. CallsMove /\ AnswerIsHonest'
    BY <1>1, <1>2, <1>3, <1>6, <1>9, <2>1, CallNext
  <2> QED
    BY <1>5, <2>2 DEF StepHolds
<1> QED
  BY <1>8, <1>9

(* _subscribe_dedup_winner keeps it. *)
LEMMA DedupHolds ==
  ASSUME TableOK, CallsFit, NEW c \in Callers, calls[c].pc \in Looking, NEW r \in Rows,
         media_type' = media_type, NEW then \in Growing, _subscribe_dedup_winner(c, r, then)
  PROVE  StepHolds
<1>1. Flies(calls[c])
  BY CallInFlight DEF Pcs
<1>2. ASSUME calls' = [calls EXCEPT ![c].pc = then, ![c].row = r, ![c].present = {}]
      PROVE  /\ OneMoves(c)
             /\ calls'[c] = [pc |-> then, ask |-> Ask(c), attempt |-> calls[c].attempt, row |-> r,
                             present |-> {}, recovering |-> calls[c].recovering]
  BY <1>1, <1>2 DEF OneMoves, CallsFit, Flies, Ask
<1>3. Put(r, add_subscriber(rows[r], c))
      /\ IF media_type = "movie" \/ Stops(c, r) THEN Answer(c, r)
         ELSE /\ OneMoves(c) /\ answer' = Silent
              /\ calls'[c] = [pc |-> then, ask |-> Ask(c), attempt |-> calls[c].attempt, row |-> r,
                              present |-> {}, recovering |-> calls[c].recovering]
  BY <1>2 DEF _subscribe_dedup_winner
<1> QED
  BY <1>3, Joined

(* Joining the active row, or finding it settled, keeps it. *)
LEMMA JoinHolds ==
  ASSUME TableOK, CallsFit, NEW c \in Callers, Join(c)
  PROVE  StepHolds
<1>1. media_type' = media_type /\ calls[c].pc \in Looking /\ calls[c].pc \in Pcs \ {"collapse"}
  BY DEF Join, Fixed, At, Looking, Pcs
<1>2. CASE find_active = 0
  <2> DEFINE pc == "probe"
  <2>1. pc \in Looking /\ pc # "movie_locked" /\ Goto(c, pc) /\ rows' = rows /\ answer' = Silent
    BY <1>2 DEF Join, Looking
  <2> HIDE DEF pc
  <2> QED
    BY <1>1, <2>1, CallLooks
<1>3. CASE find_active # 0
  <2> DEFINE then == "grow"
  <2>1. then \in Growing /\ _subscribe_dedup_winner(c, find_active, then)
    BY <1>3 DEF Join, Growing
  <2> HIDE DEF then
  <2> QED
    BY <1>1, <1>3, <2>1, FindsActive, DedupHolds
<1> QED
  BY <1>2, <1>3

(* Asking Plex before the lock keeps it. *)
LEMMA CrawlHolds ==
  ASSUME TableOK, CallsOK, NEW c \in Callers, Crawl(c)
  PROVE  StepHolds
<1> DEFINE pc == Locked[calls[c].pc]
<1>1. /\ media_type' = media_type /\ rows' = rows /\ answer' = Silent
      /\ calls[c].pc \in {"grow", "track", "winner"}
  BY DEF Crawl, Fixed
<1>2. PICK seen : calls' = [calls EXCEPT ![c].present = seen, ![c].pc = pc]
  BY DEF Crawl, CallsOK, CallsFit
<1>3. pc \in Growing /\ pc \in Pcs /\ pc \notin {"collapse", "movie_locked"}
  BY <1>1 DEF Locked, Growing, Pcs
<1> HIDE DEF pc
<1>4. CallsFit /\ calls[c].pc \in Growing
  BY <1>1 DEF CallsOK, Growing
<1>5. Flies(calls[c]) /\ Settles(c) /\ media_type # "movie"
  BY <1>1, <1>4, CallInFlight DEF Settles, At, Pcs, Growing, Flies
<1>6. OneMoves(c)
      /\ calls'[c] = [pc |-> pc, ask |-> Ask(c), attempt |-> calls[c].attempt, row |-> calls[c].row,
                      present |-> seen, recovering |-> calls[c].recovering]
  BY <1>2, <1>4, <1>5 DEF OneMoves, CallsFit, Flies, Ask
<1>7. calls[c].row \in DOMAIN rows
      /\ (c \in Users /\ ~rows[calls[c].row].deleted => c \in rows[calls[c].row].subscribers)
  BY <1>4 DEF CallsOK, Seated, Subscribed
<1>8. CallsMove /\ AnswerIsHonest'
  BY <1>1, <1>3, <1>4, <1>5, <1>6, <1>7, CallNext
<1> QED
  BY <1>1, <1>8, TableStays DEF StepHolds

(* The seasons of the row the call stands on are grown, and the call is over.                    *)
LEMMA GrowHolds ==
  ASSUME TableOK, CallsOK, NEW c \in Callers, calls[c].pc \in Growing, media_type' = media_type,
         NEW r, r = calls[c].row, ~rows[r].deleted,
         Put(r, _ensure_tv_season_plan(rows[r], Ask(c), calls[c].present)), Answer(c, r),
         Active(rows[r]) \/ calls[c].pc \in {"track_locked", "winner_locked"}
  PROVE  StepHolds
<1> DEFINE new == _ensure_tv_season_plan(rows[r], Ask(c), calls[c].present)
<1>1. CallsFit /\ calls[c].pc \in Pcs /\ Flies(calls[c]) /\ media_type # "movie" /\ Settles(c)
  BY CallInFlight DEF CallsOK, Pcs, Flies, Settles, At, Growing
<1>2. r \in DOMAIN rows /\ (c \in Users => c \in rows[r].subscribers)
  BY DEF CallsOK, Seated, Subscribed
<1>3. r \in Rows /\ Fits(rows[r]) /\ rows[r] # Deleted /\ rows = [q \in DOMAIN rows |-> rows[q]]
  BY <1>2, TableShape DEF Rows
<1>4. Shaped(rows[r]) /\ Standing(rows[r]) /\ Attended(rows[r])
  BY <1>3, FitsShaped
<1>5. rows[r].minted \in BOOLEAN
  BY <1>4 DEF Standing
<1>6. Firm(rows[r], new) /\ NotPromoted(rows[r], new) /\ SameParty(rows[r], new)
      /\ _season_numbers(Ask(c)) \cap Scopes \subseteq Tracked(new)
  BY <1>1, <1>4, <1>5, PlanGrows
<1>7. Put(r, new) /\ rows'[r] = new
  BY <1>2 DEF Put
<1> HIDE DEF new
<1>8. NotRevived(rows[r], new) \/ GrowsUnread(r)
  <2>1. CASE Active(rows[r])
    BY <2>1 DEF Active, NotRevived, SETTLED_REQUEST_STATUS_VALUES, TERMINAL_REQUEST_STATUS_VALUES
  <2>2. CASE calls[c].pc \in {"track_locked", "winner_locked"}
    BY <2>2 DEF Answer, GrowsUnread
  <2> QED
    BY <2>1, <2>2
<1>9. Fits(new) /\ new # Deleted /\ ~new.deleted
  BY <1>6, FitsShaped DEF Firm, Lasts
<1>10. rows'[r] = new => RowMoves(r)
  BY <1>6, <1>8 DEF RowMoves, Remain, Firm
<1>11. TableMoves
  BY <1>3, <1>7, <1>9, <1>10, RowPut
<1>12. _season_numbers(Ask(c)) \subseteq Tracked(new)
  BY <1>1, <1>6 DEF Flies, Ask
<1>13. Honest(c, r)
  BY <1>2, <1>6, <1>7, <1>9, <1>12 DEF Honest, SameParty
<1>14. CallsMove /\ AnswerIsHonest'
  BY <1>1, <1>13, AnswerHolds
<1> QED
  BY <1>11, <1>14 DEF StepHolds

(* The row settled under the call: all over again, or that was the last attempt.                  *)
LEMMA RetryHolds ==
  ASSUME TableOK, CallsFit, NEW c \in Callers, calls[c].pc \in Pcs \ {"collapse"}, NEW r, Retry(c, r),
         media_type' = media_type, rows' = rows
  PROVE  StepHolds
<1>1. Flies(calls[c]) /\ Settles(c)
  BY CallInFlight DEF Settles, At
<1>2. CASE calls[c].attempt < _MAX_DEDUP_JOIN_ATTEMPTS
  <2> DEFINE pc == IF find_active # 0 THEN "join" ELSE "probe"
             attempt == calls[c].attempt + 1
  <2>1. /\ answer' = Silent /\ OneMoves(c)
        /\ calls'[c] = [pc |-> pc, ask |-> Ask(c), attempt |-> attempt, row |-> 0,
                        present |-> {}, recovering |-> FALSE]
    BY <1>2 DEF Retry, Begun, CallsFit, OneMoves, Ask
  <2>2. pc \in Pcs /\ pc \notin Growing \cup {"collapse", "movie_locked"}
    BY DEF Pcs, Looking, Growing
  <2> HIDE DEF pc, attempt
  <2>3. CallsMove /\ AnswerIsHonest'
    BY <1>1, <2>1, <2>2, CallNext
  <2> QED
    BY <2>3, TableStays DEF StepHolds
<1>3. CASE ~(calls[c].attempt < _MAX_DEDUP_JOIN_ATTEMPTS)
  <2>1. Raise(c) \/ Answer(c, r)
    BY <1>3 DEF Retry
  <2>2. CallsMove /\ AnswerIsHonest'
    BY <1>1, <1>3, <2>1, Raised, AnswerHolds
  <2> QED
    BY <2>2, TableStays DEF StepHolds
<1> QED
  BY <1>2, <1>3

(* Growing the joined row, read again under the lock, keeps it. *)
LEMMA GrowJoinHolds ==
  ASSUME TableOK, CallsOK, NEW c \in Callers, _grow_tv_dedup_join(c)
  PROVE  StepHolds
<1> DEFINE r == calls[c].row
<1>1. media_type' = media_type /\ calls[c].pc \in Growing /\ calls[c].pc \in Pcs \ {"collapse"} /\ CallsFit
  BY DEF _grow_tv_dedup_join, Fixed, At, Growing, Pcs, CallsOK
<1>2. CASE rows[r].deleted \/ ~Active(rows[r])
  BY <1>1, <1>2, RetryHolds DEF _grow_tv_dedup_join
<1>3. CASE ~(rows[r].deleted \/ ~Active(rows[r]))
  BY <1>1, <1>3, GrowHolds DEF _grow_tv_dedup_join
<1> QED
  BY <1>2, <1>3

(* What `create` makes is a row, owned and subscribed to by its caller if that is a user. *)
LEMMA CreateFits ==
  ASSUME NEW c \in Callers, NEW status \in {"pending", "available"}, NEW regrab
  PROVE  LET row == create(c, status, regrab)
         IN /\ Shaped(row) /\ Fits(row) /\ row # Deleted
            /\ row.status = status /\ ~row.minted /\ row.imported = {}
            /\ c \in Users => c \in row.subscribers
<1> DEFINE scopes == [s \in Scopes |-> IF media_type = "movie" THEN status ELSE "none"]
           owner == IF c \in Users THEN c ELSE Nobody
           again == IF regrab THEN {1} ELSE {}
           generation == [s \in Scopes |-> 0]
           f == FALSE
           bare == [status |-> status, scopes |-> scopes, owner |-> owner, subscribers |-> {},
                    regrab |-> again, imported |-> {}, generation |-> generation, verified |-> f,
                    minted |-> f, deleted |-> f]
           x == IF c \in Users THEN {c} ELSE {}
           row == [bare EXCEPT !.subscribers = x]
<1>1. create(c, status, regrab) = add_subscriber(bare, c)
  BY DEF create
<1>2. /\ scopes = [s \in Scopes |-> scopes[s]] /\ f = FALSE /\ x \subseteq Users /\ owner \in x \cup {Nobody}
      /\ c \in Users => c \in x
      /\ media_type = "movie" => scopes[1] = status
  BY DEF Scopes, ScopesOf
<1>3. add_subscriber(bare, c) = row
  <2>1. CASE c = Automation
    <3>1. x = {}
      BY <2>1, RequestsAssumption
    <3>2. add_subscriber(bare, c) = bare
      BY <2>1 DEF add_subscriber
    <3> DEFINE e == {}
    <3>3. x = e /\ bare.subscribers = e
      BY <3>1
    <3>4. bare = [status |-> bare.status, scopes |-> bare.scopes, owner |-> bare.owner,
            subscribers |-> bare.subscribers, regrab |-> bare.regrab, imported |-> bare.imported,
            generation |-> bare.generation, verified |-> bare.verified, minted |-> bare.minted,
            deleted |-> bare.deleted]
      OBVIOUS
    <3> HIDE DEF x, e, bare
    <3>5. [bare EXCEPT !.subscribers = x] = bare
      BY <3>3, <3>4
    <3> QED
      BY <3>2, <3>5
  <2>2. CASE c # Automation
    <3>1. x = bare.subscribers \cup {c}
      BY <2>2 DEF Callers
    <3>2. row = [bare EXCEPT !.subscribers = x]
      OBVIOUS
    <3> HIDE DEF bare, x, row
    <3>3. row = [bare EXCEPT !.subscribers = @ \cup {c}]
      BY <3>1, <3>2
    <3> QED
      BY <2>2, <3>3 DEF add_subscriber
  <2> QED
    BY <2>1, <2>2
<1> HIDE DEF scopes, owner, again, generation, f, x
<1>4. /\ bare.scopes = scopes /\ bare.deleted = f /\ bare.status = status /\ bare.owner = owner
      /\ bare.minted = f /\ bare.imported = {}
      /\ bare = [status |-> bare.status, scopes |-> bare.scopes, owner |-> bare.owner,
            subscribers |-> bare.subscribers, regrab |-> bare.regrab, imported |-> bare.imported,
            generation |-> bare.generation, verified |-> bare.verified, minted |-> bare.minted,
            deleted |-> bare.deleted]
  OBVIOUS
<1> HIDE DEF bare
<1>5. Shaped(bare)
  BY <1>2, <1>4 DEF Shaped
<1>6a. PartySet(bare, row, x)
  BY <1>5, PartyWritten
<1> HIDE DEF row
<1>6. Shaped(row) /\ SameSeasons(bare, row) /\ SameFiles(bare, row) /\ row.owner = bare.owner
      /\ row.subscribers = x
  BY <1>6a DEF PartySet
<1>7. row.status = status /\ row.scopes = scopes /\ row.minted = f /\ row.imported = {} /\ row.owner = owner
  BY <1>4, <1>6 DEF SameSeasons, SameFiles
<1>8. Standing(row) /\ Attended(row)
  BY <1>2, <1>6, <1>7 DEF Standing, Attended
<1>9. Fits(row) /\ row # Deleted
  BY <1>6, <1>8, FitsShaped
<1> QED
  BY <1>1, <1>2, <1>3, <1>6, <1>7, <1>9

(* Inserting a row answers the call, or leaves it watching a row that is available. *)
LEMMA Inserted ==
  ASSUME TableOK, CallsFit, NEW c \in Callers, calls[c].pc \in Looking, media_type' = media_type,
         NEW row, Fits(row), row # Deleted, c \in Users => c \in row.subscribers,
         _season_numbers(Ask(c)) \subseteq Tracked(row),
         NEW pc, Insert(c, row, pc),
         \/ pc = "done" /\ ~row.minted
         \/ pc = "collapse" /\ (media_type = "movie" => FalseClaim(row))
  PROVE  StepHolds
<1> DEFINE n == Len(rows) + 1
<1>1. rows' = Append(rows, row)
  BY DEF Insert
<1>2. Flies(calls[c]) /\ Settles(c) /\ ~row.deleted
  BY CallInFlight, FitsShaped DEF Settles, At, Pcs, Looking
<1>3. CASE pc = "done"
  <2>1. TableMoves /\ n \in Rows' \ DOMAIN rows /\ rows'[n] = row
    BY <1>1, <1>3, RowAdded
  <2>2. Honest(c, n)
    BY <1>2, <2>1 DEF Honest
  <2>3. Answer(c, n)
    BY <1>3 DEF Insert
  <2> HIDE DEF n
  <2>4. CallsMove /\ AnswerIsHonest'
    BY <1>2, <2>2, <2>3, AnswerHolds
  <2> QED
    BY <2>1, <2>4 DEF StepHolds
<1>4. CASE pc = "collapse"
  <2>1. calls' = [calls EXCEPT ![c].pc = pc, ![c].row = n] /\ answer' = Silent
    BY <1>4 DEF Insert
  <2> HIDE DEF n
  <2>2. /\ OneMoves(c)
        /\ calls'[c] = [pc |-> pc, ask |-> Ask(c), attempt |-> calls[c].attempt, row |-> n,
                        present |-> calls[c].present, recovering |-> calls[c].recovering]
    BY <1>2, <2>1 DEF OneMoves, CallsFit, Flies, Ask
  <2>3. Entered(n)
    BY <1>4, <2>2 DEF Entered
  <2>4. TableMoves /\ n \in Rows' \ DOMAIN rows /\ rows'[n] = row
    BY <1>1, <2>3, RowAdded DEF n
  <2>5. n \in DOMAIN rows'
    BY <2>4 DEF Rows
  <2>6. pc \in Pcs /\ pc \notin Growing \cup {"movie_locked"}
    BY <1>4 DEF Pcs, Growing
  <2>7. CallsMove /\ AnswerIsHonest'
    BY <1>2, <1>4, <2>1, <2>2, <2>4, <2>5, <2>6, CallNext
  <2> QED
    BY <2>4, <2>7 DEF StepHolds
<1> QED
  BY <1>3, <1>4

(* The row of a film tracks its one scope.                                                 *)
LEMMA FilmInserted ==
  ASSUME TableOK, CallsFit, NEW c \in Callers, calls[c].pc \in Looking, media_type' = media_type,
         media_type = "movie", NEW regrab, Insert(c, create(c, "pending", regrab), "done")
  PROVE  StepHolds
<1> DEFINE row == create(c, "pending", regrab)
           pc == "done"
<1>1. Fits(row) /\ row # Deleted /\ ~row.minted /\ (c \in Users => c \in row.subscribers)
  BY CreateFits
<1>2. Insert(c, row, pc) /\ pc = "done"
  OBVIOUS
<1> HIDE DEF row, pc
<1>3. Flies(calls[c])
  BY CallInFlight DEF Pcs
<1>4. _season_numbers(Ask(c)) \subseteq Tracked(row)
  BY <1>1, <1>3, FilmTracked DEF Flies, Ask
<1> QED
  BY <1>1, <1>2, <1>4, Inserted

(* A locked section that finds a row to join keeps it. *)
LEMMA DedupFound ==
  ASSUME TableOK, CallsFit, NEW c \in Callers, calls[c].pc \in Looking, media_type' = media_type,
         \/ find_active # 0 /\ _subscribe_dedup_winner(c, find_active, "grow")
         \/ find_in_library(c) # 0 /\ _subscribe_dedup_winner(c, find_in_library(c), "grow")
         \/ find_in_library(c) # 0 /\ _subscribe_dedup_winner(c, find_in_library(c), "track")
  PROVE  StepHolds
<1>1. PICK then \in {"grow", "track"} :
         \/ find_active # 0 /\ _subscribe_dedup_winner(c, find_active, then)
         \/ find_in_library(c) # 0 /\ _subscribe_dedup_winner(c, find_in_library(c), then)
  OBVIOUS
<1>2. then \in Growing
  BY DEF Growing
<1>3. CASE find_active # 0 /\ _subscribe_dedup_winner(c, find_active, then)
  BY <1>2, <1>3, FindsActive, DedupHolds
<1>4. CASE find_in_library(c) # 0 /\ _subscribe_dedup_winner(c, find_in_library(c), then)
  BY <1>2, <1>4, FindsInLibrary, DedupHolds
<1> QED
  BY <1>1, <1>3, <1>4

(* The look at Plex that takes no lock keeps it. *)
LEMMA ProbeHolds ==
  ASSUME TableOK, CallsFit, NEW c \in Callers, _already_in_library(c) \/ _present_seasons_or_empty(c)
  PROVE  StepHolds
<1>1. /\ media_type' = media_type /\ rows' = rows /\ answer' = Silent
      /\ calls[c].pc = "probe" /\ calls[c].pc \in Pcs \ {"collapse"}
  BY DEF _already_in_library, _present_seasons_or_empty, Fixed, At, Pcs, Looking
<1>2. CASE _already_in_library(c)
  <2>1. media_type = "movie" /\ \E pc \in {"movie_locked", "create"} : Goto(c, pc)
    BY <1>2 DEF _already_in_library
  <2>3. PICK pc \in {"movie_locked", "create"} : Goto(c, pc)
    BY <2>1
  <2>2. pc \in Looking
    BY DEF Looking
  <2> QED
    BY <1>1, <2>1, <2>2, <2>3, CallLooks
<1>3. CASE _present_seasons_or_empty(c)
  <2>1. PICK seen : calls' = [calls EXCEPT ![c].present = seen,
                              ![c].pc = IF seen = {} THEN "create" ELSE "tv_locked"]
    BY <1>3 DEF _present_seasons_or_empty
  <2> DEFINE pc == IF seen = {} THEN "create" ELSE "tv_locked"
  <2>2. calls' = [calls EXCEPT ![c].present = seen, ![c].pc = pc]
        /\ pc \in Looking /\ pc # "movie_locked"
    BY <2>1 DEF Looking
  <2> HIDE DEF pc
  <2>3. Flies(calls[c]) /\ Settles(c) /\ pc \in Pcs /\ pc \notin Growing \cup {"collapse"}
    BY <1>1, <2>2, CallInFlight DEF Settles, At, Pcs, Looking, Growing
  <2>4. OneMoves(c)
        /\ calls'[c] = [pc |-> pc, ask |-> Ask(c), attempt |-> calls[c].attempt, row |-> calls[c].row,
                        present |-> seen, recovering |-> calls[c].recovering]
    BY <2>2, <2>3 DEF OneMoves, CallsFit, Flies, Ask
  <2>5. CallsMove /\ AnswerIsHonest'
    BY <1>1, <2>2, <2>3, <2>4, CallNext
  <2> QED
    BY <1>1, <2>5, TableStays DEF StepHolds
<1> QED
  BY <1>2, <1>3

(* The locked section of a film keeps it. *)
LEMMA MovieHolds ==
  ASSUME TableOK, CallsFit, NEW c \in Callers, MovieLocked(c)
  PROVE  StepHolds
<1> DEFINE available == create(c, "available", FALSE)
           mint == [available EXCEPT !.minted = TRUE]
<1>1. media_type' = media_type /\ calls[c].pc \in Looking /\ media_type = "movie"
  BY CallInFlight DEF MovieLocked, Fixed, At, Looking, Pcs, Flies
<1>2. \/ find_active # 0 /\ _subscribe_dedup_winner(c, find_active, "grow")
      \/ \E regrab : Insert(c, create(c, "pending", regrab), "done")
      \/ find_in_library(c) # 0 /\ _subscribe_dedup_winner(c, find_in_library(c), "grow")
      \/ Insert(c, mint, "collapse")
  BY DEF MovieLocked
<1>3. CASE Insert(c, mint, "collapse")
  <2> DEFINE pc == "collapse"
             t == TRUE
             row == [available EXCEPT !.minted = t]
  <2>1. Shaped(available) /\ Fits(available) /\ available # Deleted /\ available.status = "available"
        /\ available.imported = {} /\ (c \in Users => c \in available.subscribers)
    BY CreateFits
  <2>2. Insert(c, row, pc) /\ pc = "collapse" /\ t = TRUE
    BY <1>3
  <2> HIDE DEF available, pc, t
  <2>3. Shaped(row) /\ row.status = available.status /\ row.scopes = available.scopes /\ row.minted = t
        /\ SameFiles(available, row) /\ SameParty(available, row)
    BY <2>1, MarkWritten
  <2> HIDE DEF row
  <2>4. Standing(available) /\ Attended(available)
    BY <2>1, FitsShaped
  <2>5. Standing(row) /\ Attended(row)
    BY <2>1, <2>2, <2>3, <2>4 DEF Standing, Attended, SameParty
  <2>6. Fits(row) /\ row # Deleted /\ FalseClaim(row) /\ (c \in Users => c \in row.subscribers)
    BY <2>1, <2>3, <2>5, FitsShaped DEF FalseClaim, SameFiles, SameParty
  <2>7. Flies(calls[c])
    BY <1>1, CallInFlight DEF Pcs
  <2>8. _season_numbers(Ask(c)) \subseteq Tracked(row)
    BY <1>1, <2>6, <2>7, FilmTracked DEF Flies, Ask
  <2> QED
    BY <1>1, <2>2, <2>6, <2>8, Inserted
<1> HIDE DEF mint
<1>4. CASE \E regrab : Insert(c, create(c, "pending", regrab), "done")
  BY <1>1, <1>4, FilmInserted
<1>5. CASE \/ find_active # 0 /\ _subscribe_dedup_winner(c, find_active, "grow")
           \/ find_in_library(c) # 0 /\ _subscribe_dedup_winner(c, find_in_library(c), "grow")
  BY <1>1, <1>5, DedupFound
<1> QED
  BY <1>2, <1>3, <1>4, <1>5

(* The locked section of a show keeps it. *)
LEMMA TvHolds ==
  ASSUME TableOK, CallsFit, NEW c \in Callers, TvLocked(c)
  PROVE  StepHolds
<1>1. media_type' = media_type /\ calls[c].pc \in Looking /\ calls[c].pc \in Pcs \ {"collapse"}
  BY DEF TvLocked, Fixed, At, Looking, Pcs
<1>2. \/ find_active # 0 /\ _subscribe_dedup_winner(c, find_active, "grow")
      \/ find_in_library(c) # 0 /\ _subscribe_dedup_winner(c, find_in_library(c), "track")
      \/ Goto(c, "create") /\ rows' = rows /\ answer' = Silent
  BY DEF TvLocked
<1>3. CASE Goto(c, "create") /\ rows' = rows /\ answer' = Silent
  <2> DEFINE pc == "create"
  <2>1. Goto(c, pc) /\ pc \in Looking /\ pc # "movie_locked"
    BY <1>3 DEF Looking
  <2> HIDE DEF pc
  <2> QED
    BY <1>1, <1>3, <2>1, CallLooks
<1>4. CASE \/ find_active # 0 /\ _subscribe_dedup_winner(c, find_active, "grow")
           \/ find_in_library(c) # 0 /\ _subscribe_dedup_winner(c, find_in_library(c), "track")
  BY <1>1, <1>4, DedupFound
<1> QED
  BY <1>2, <1>3, <1>4

(* What a show's call inserts is grown first, and tracks what was asked for.                       *)
LEMMA ShowFits ==
  ASSUME NEW c \in Callers, media_type # "movie", NEW ask, _season_numbers(ask) \subseteq Scopes, NEW seen
  PROVE  LET row == _ensure_tv_season_plan(create(c, "pending", FALSE), ask, seen)
         IN /\ Fits(row) /\ row # Deleted /\ ~row.minted
            /\ c \in Users => c \in row.subscribers
            /\ _season_numbers(ask) \subseteq Tracked(row)
<1> DEFINE bare == create(c, "pending", FALSE)
           row == _ensure_tv_season_plan(bare, ask, seen)
<1>1. Shaped(bare) /\ Fits(bare) /\ bare # Deleted /\ ~bare.minted /\ (c \in Users => c \in bare.subscribers)
  BY CreateFits
<1> HIDE DEF bare
<1>2. Attended(bare) /\ bare.minted \in BOOLEAN
  BY <1>1, FitsShaped DEF Standing
<1>3. Firm(bare, row) /\ SameParty(bare, row) /\ _season_numbers(ask) \cap Scopes \subseteq Tracked(row)
  BY <1>1, <1>2, PlanGrows
<1> HIDE DEF row
<1>4. Fits(row) /\ row # Deleted /\ ~row.minted
  BY <1>1, <1>3 DEF Firm, Lasts
<1>5. /\ c \in Users => c \in row.subscribers
      /\ _season_numbers(ask) \subseteq Tracked(row)
  BY <1>1, <1>3 DEF SameParty
<1> QED
  BY <1>4, <1>5 DEF row, bare

(* The insert outside the lock, which the index may refuse, keeps it. *)
LEMMA CreateHolds ==
  ASSUME TableOK, CallsFit, NEW c \in Callers, CreateRow(c)
  PROVE  StepHolds
<1> DEFINE again == ~Ask(c).force /\ latest_request_evicted
           show(seen) == _ensure_tv_season_plan(create(c, "pending", FALSE), Ask(c), seen)
           mint(seen) == [show(seen) EXCEPT !.minted = TRUE]
<1>1. media_type' = media_type /\ calls[c].pc \in Looking /\ calls[c].pc \in Pcs \ {"collapse"}
  BY DEF CreateRow, Fixed, At, Looking, Pcs
<1>2. \/ Goto(c, "recover") /\ rows' = rows /\ answer' = Silent
      \/ media_type = "movie" /\ Insert(c, create(c, "pending", again), "done")
      \/ media_type # "movie" /\ \E seen :
            \/ show(seen).status = "available" /\ Insert(c, mint(seen), "collapse")
            \/ Insert(c, show(seen), "done")
  BY DEF CreateRow
<1>3. CASE Goto(c, "recover") /\ rows' = rows /\ answer' = Silent
  <2> DEFINE pc == "recover"
  <2>1. Goto(c, pc) /\ pc \in Looking /\ pc # "movie_locked"
    BY <1>3 DEF Looking
  <2> HIDE DEF pc
  <2> QED
    BY <1>1, <1>3, <2>1, CallLooks
<1>4. CASE media_type = "movie" /\ Insert(c, create(c, "pending", again), "done")
  <2> HIDE DEF again
  <2> QED
    BY <1>1, <1>4, FilmInserted
<1>5. ASSUME media_type # "movie", NEW seen,
             \/ show(seen).status = "available" /\ Insert(c, mint(seen), "collapse")
             \/ Insert(c, show(seen), "done")
      PROVE  StepHolds
  <2> DEFINE row == show(seen)
             t == TRUE
             marked == [row EXCEPT !.minted = t]
  <2>1. Flies(calls[c])
    BY <1>1, CallInFlight DEF Pcs
  <2>2. Fits(row) /\ row # Deleted /\ ~row.minted /\ (c \in Users => c \in row.subscribers)
        /\ _season_numbers(Ask(c)) \subseteq Tracked(row)
    BY <1>5, <2>1, ShowFits DEF Flies, Ask
  <2>3. t = TRUE /\ (\/ row.status = "available" /\ Insert(c, marked, "collapse")
                     \/ Insert(c, row, "done"))
    BY <1>5
  <2> HIDE DEF row, t
  <2>4. CASE Insert(c, row, "done")
    <3> DEFINE pc == "done"
    <3>1. Insert(c, row, pc) /\ pc = "done"
      BY <2>4
    <3> HIDE DEF pc
    <3> QED
      BY <1>1, <2>2, <3>1, Inserted
  <2>5. CASE row.status = "available" /\ Insert(c, marked, "collapse")
    <3> DEFINE pc == "collapse"
    <3>1. Insert(c, marked, pc) /\ pc = "collapse"
      BY <2>5
    <3>2. Shaped(row) /\ Standing(row) /\ Attended(row)
      BY <2>2, FitsShaped
    <3>3. Shaped(marked) /\ marked.status = row.status /\ marked.scopes = row.scopes /\ marked.minted = t
          /\ SameParty(row, marked)
      BY <3>2, MarkWritten
    <3> HIDE DEF marked, pc
    <3>4. Standing(marked) /\ Attended(marked)
      BY <1>5, <2>3, <2>5, <3>2, <3>3 DEF Standing, Attended, SameParty
    <3>5. Fits(marked) /\ marked # Deleted
      BY <3>3, <3>4, FitsShaped
    <3>6. /\ c \in Users => c \in marked.subscribers
          /\ _season_numbers(Ask(c)) \subseteq Tracked(marked)
      BY <2>2, <3>3 DEF SameParty, Tracked
    <3> QED
      BY <1>1, <1>5, <3>1, <3>5, <3>6, Inserted
  <2> QED
    BY <2>3, <2>4, <2>5
<1> QED
  BY <1>2, <1>3, <1>4, <1>5

(* Joining the row that was first after a refused insert keeps it. *)
LEMMA RecoverHolds ==
  ASSUME TableOK, CallsFit, NEW c \in Callers, Recover(c)
  PROVE  StepHolds
<1>1. media_type' = media_type /\ calls[c].pc \in Looking /\ calls[c].pc \in Pcs \ {"collapse"}
  BY DEF Recover, Fixed, At, Looking, Pcs
<1>2. Flies(calls[c]) /\ Settles(c)
  BY <1>1, CallInFlight DEF Settles, At
<1>3. CASE find_active = 0
  <2>1. rows' = rows /\ (Retry(c, 0) \/ Raise(c))
    BY <1>3 DEF Recover
  <2>2. CASE Retry(c, 0)
    BY <1>1, <2>1, <2>2, RetryHolds
  <2>3. CASE Raise(c)
    <3>1. CallsMove /\ AnswerIsHonest'
      BY <1>2, <2>3, Raised
    <3> QED
      BY <1>1, <2>1, <3>1, TableStays DEF StepHolds
  <2> QED
    BY <2>1, <2>2, <2>3
<1>4. CASE find_active # 0
  <2> DEFINE r == find_active
             then == "grow"
             t == TRUE
  <2>1. r \in Rows
    BY <1>4, FindsActive
  <2>2. /\ Put(r, add_subscriber(rows[r], c)) /\ then \in Growing
        /\ IF media_type = "movie" \/ Stops(c, r) THEN Answer(c, r)
           ELSE /\ calls' = [calls EXCEPT ![c].pc = then, ![c].row = r, ![c].recovering = t]
                /\ answer' = Silent
    BY <1>4 DEF Recover, Growing
  <2> HIDE DEF r, then, t
  <2>3. ASSUME calls' = [calls EXCEPT ![c].pc = then, ![c].row = r, ![c].recovering = t]
        PROVE  /\ OneMoves(c)
               /\ calls'[c] = [pc |-> then, ask |-> Ask(c), attempt |-> calls[c].attempt, row |-> r,
                               present |-> calls[c].present, recovering |-> t]
    BY <1>2, <2>3 DEF OneMoves, CallsFit, Flies, Ask
  <2>4. IF media_type = "movie" \/ Stops(c, r) THEN Answer(c, r)
        ELSE /\ OneMoves(c) /\ answer' = Silent
             /\ calls'[c] = [pc |-> then, ask |-> Ask(c), attempt |-> calls[c].attempt, row |-> r,
                             present |-> calls[c].present, recovering |-> t]
    BY <2>2, <2>3
  <2> QED
    BY <1>1, <2>1, <2>2, <2>4, Joined
<1> QED
  BY <1>3, <1>4

(* What the call that gives way does to the row that stays.                                  *)
LEMMA GivenWay ==
  ASSUME TableOK, NEW w \in Rows, NEW r \in Rows, NEW c \in Callers
  PROVE  LET adopted == IF rows[w].owner = Nobody /\ c \in Users THEN set_owner(rows[w], c)
                        ELSE rows[w]
             new == copy_subscribers(add_subscriber(adopted, c), rows[r])
         IN /\ Mild(rows[w], new)
            /\ rows[r].subscribers \subseteq new.subscribers
            /\ c \in Users => c \in new.subscribers
<1> DEFINE adopted == IF rows[w].owner = Nobody /\ c \in Users THEN set_owner(rows[w], c)
                      ELSE rows[w]
           mid == add_subscriber(adopted, c)
           new == copy_subscribers(mid, rows[r])
<1>1. /\ Fits(rows[w]) /\ rows[w] # Deleted
      /\ Fits(rows[r]) /\ rows[r] # Deleted
  BY TableShape
<1>2. rows[r].subscribers \subseteq Users
  BY <1>1, FitsShaped DEF Attended
<1>3. Alike(rows[w], mid) /\ rows[w].subscribers \subseteq mid.subscribers
      /\ (c \in Users => c \in mid.subscribers)
  <2>1. CASE rows[w].owner = Nobody /\ c \in Users
    BY <1>1, <2>1, Adopting
  <2>2. CASE ~(rows[w].owner = Nobody /\ c \in Users)
    <3>1. adopted = rows[w]
      BY <2>2
    <3> HIDE DEF adopted
    <3> QED
      BY <1>1, <3>1, Subscribing
  <2> QED
    BY <2>1, <2>2
<1> HIDE DEF mid
<1>4. Fits(mid) /\ mid # Deleted
  BY <1>3 DEF Alike
<1>5. Alike(mid, new) /\ mid.subscribers \subseteq new.subscribers
      /\ rows[r].subscribers \subseteq new.subscribers
  BY <1>2, <1>4, Copying
<1> HIDE DEF new
<1>6. Alike(rows[w], new)
  BY <1>3, <1>5, AlikeTwice
<1>7. Mild(rows[w], new) /\ (c \in Users => c \in new.subscribers)
  BY <1>3, <1>5, <1>6, AlikeIsMild
<1> QED
  BY <1>5, <1>7 DEF new, mid

(* The look for an earlier available row, and giving way to it, keeps it. *)
LEMMA CollapseHolds ==
  ASSUME TableOK, CallsOK, NEW c \in Callers, _collapse_available_race(c)
  PROVE  StepHolds
<1> DEFINE r == calls[c].row
           w == find_earliest_available
           adopted == IF rows[w].owner = Nobody /\ c \in Users THEN set_owner(rows[w], c)
                      ELSE rows[w]
           new == copy_subscribers(add_subscriber(adopted, c), rows[r])
<1>1. media_type' = media_type /\ At(c, "collapse") /\ calls[c].pc \in Pcs /\ CallsFit
  BY DEF _collapse_available_race, Fixed, At, Pcs, CallsOK
<1>2. Flies(calls[c])
  BY <1>1, CallInFlight
<1>3. r \in DOMAIN rows /\ ~rows[r].deleted
  BY <1>1 DEF CallsOK, Seated, Racing, At
<1>4. /\ r \in Rows /\ Rows \subseteq Nat
      /\ DOMAIN rows = 1..Len(rows) /\ Rows \subseteq DOMAIN rows
      /\ \A q \in Rows : Fits(rows[q]) /\ rows[q] # Deleted
      /\ rows = [q \in 1..Len(rows) |-> rows[q]]
  <2>1. Rows \subseteq DOMAIN rows /\ \A q \in DOMAIN rows : q \in Rows <=> ~rows[q].deleted
    BY TableShape
  <2> QED
    BY <1>3, <2>1, TableShape
<1>5. /\ c \in Users => c \in rows[r].subscribers
      /\ _season_numbers(Ask(c)) \subseteq Tracked(rows[r])
  BY <1>1, <1>3 DEF CallsOK, Seated, Racing, At, Subscribed
<1>6. CASE w \in {0, r}
  <2>1. Answer(c, r) /\ rows' = rows
    BY <1>6 DEF _collapse_available_race
  <2>2. Honest(c, r)
    BY <1>3, <1>5, <2>1 DEF Honest
  <2>3. ASSUME NEW q \in Rows, q < r, rows[q].minted PROVE FALSE
    <3>1. rows[q].status = "available"
      BY <1>4, <2>3, FitsShaped DEF Standing
    <3> HIDE DEF w
    <3>2. w # 0 /\ w <= q
      BY <3>1, FindsEarliest DEF w
    <3>3. q \in Nat /\ r \in Nat
      BY <1>4
    <3> HIDE DEF r
    <3> QED
      BY <1>6, <2>3, <3>2, <3>3
  <2>4. Settles(c)
    BY <2>3 DEF Settles
  <2>5. CallsMove /\ AnswerIsHonest'
    BY <1>1, <2>1, <2>2, <2>4, AnswerHolds
  <2> QED
    BY <1>1, <2>1, <2>5, TableStays DEF StepHolds
<1>7. CASE w \notin {0, r}
  <2>1. w \in Rows /\ w # r
    BY <1>7, FindsEarliest
  <2>2. /\ rows' = [rows EXCEPT ![w] = new, ![r] = Deleted]
        /\ IF media_type = "movie" THEN Answer(c, w)
           ELSE calls' = [calls EXCEPT ![c].pc = "winner", ![c].row = w] /\ answer' = Silent
    BY <1>7 DEF _collapse_available_race
  <2>3. /\ Mild(rows[w], new)
        /\ rows[r].subscribers \subseteq new.subscribers
        /\ c \in Users => c \in new.subscribers
    BY <1>4, <2>1, GivenWay
  <2> HIDE DEF new, w
  <2>4. calls'[c].pc # "collapse"
    <3>1. CASE media_type = "movie"
      BY <1>1, <2>2, <3>1 DEF Answer, CallsFit, NoCall
    <3>2. CASE media_type # "movie"
      BY <1>1, <1>2, <2>2, <3>2 DEF CallsFit, Flies
    <3> QED
      BY <3>1, <3>2
  <2>5. GivesWay(r)
    BY <1>1, <2>4 DEF GivesWay
  <2>6. TableMoves /\ rows'[w] = new /\ w \in Rows'
    BY <1>1, <1>4, <2>1, <2>2, <2>3, <2>5, PairMoves
  <2>7. rows'[r] = Deleted /\ w \in DOMAIN rows'
    BY <1>4, <2>1, <2>2
  <2>8. Settles(c)
    BY <2>7 DEF Settles, Rows, Deleted
  <2>9. Fits(new) /\ new # Deleted /\ ~new.deleted
    BY <2>3, FitsShaped DEF Mild, Firm, Lasts
  <2>10. CASE media_type = "movie"
    <3>1. _season_numbers(Ask(c)) \subseteq Tracked(new)
      BY <1>2, <2>9, <2>10, FilmTracked DEF Flies, Ask
    <3>2. Honest(c, w)
      BY <2>3, <2>6, <2>9, <3>1 DEF Honest
    <3>3. CallsMove /\ AnswerIsHonest'
      BY <1>1, <2>2, <2>8, <2>10, <3>2, AnswerHolds
    <3> QED
      BY <2>6, <3>3 DEF StepHolds
  <2>11. CASE media_type # "movie"
    <3> DEFINE pc == "winner"
    <3>1. calls' = [calls EXCEPT ![c].pc = pc, ![c].row = w] /\ answer' = Silent
      BY <2>2, <2>11
    <3>2. pc \in Growing /\ pc \in Pcs /\ pc \notin {"collapse", "movie_locked"}
      BY DEF Growing, Pcs
    <3> HIDE DEF pc
    <3>3. OneMoves(c)
          /\ calls'[c] = [pc |-> pc, ask |-> Ask(c), attempt |-> calls[c].attempt, row |-> w,
                          present |-> calls[c].present, recovering |-> calls[c].recovering]
      BY <1>1, <1>2, <3>1 DEF OneMoves, CallsFit, Flies, Ask
    <3>4. CallsMove /\ AnswerIsHonest'
      BY <1>1, <1>2, <2>3, <2>6, <2>7, <2>8, <2>11, <3>1, <3>2, <3>3, CallNext
    <3> QED
      BY <2>6, <3>4 DEF StepHolds
  <2> QED
    BY <2>10, <2>11
<1> QED
  BY <1>6, <1>7

(* The row the call found in the library, or gave way to, is grown, unless the index or a foreign *)
(* key refuses that.                                                                   *)
LEMMA TrackHolds ==
  ASSUME TableOK, CallsOK, NEW c \in Callers, TrackInLibrary(c) \/ GrowWinner(c)
  PROVE  StepHolds
<1> DEFINE r == calls[c].row
           grown == _ensure_tv_season_plan(rows[r], Ask(c), calls[c].present)
<1>1. /\ media_type' = media_type /\ calls[c].pc \in {"track_locked", "winner_locked"}
      /\ calls[c].pc \in Growing /\ calls[c].pc \in Pcs \ {"collapse"} /\ CallsFit
  BY DEF TrackInLibrary, GrowWinner, Fixed, At, Growing, Pcs, CallsOK
<1>2. \/ rows' = rows /\ Raise(c)
      \/ rows' = rows /\ Goto(c, "recover") /\ answer' = Silent
      \/ ~rows[r].deleted /\ Put(r, grown) /\ Answer(c, r)
  BY DEF TrackInLibrary, GrowWinner
<1>3. CASE rows' = rows /\ Raise(c)
  <2>1. Settles(c)
    BY <1>1 DEF Settles, At
  <2>2. CallsMove /\ AnswerIsHonest'
    BY <1>1, <1>3, <2>1, Raised
  <2> QED
    BY <1>1, <1>3, <2>2, TableStays DEF StepHolds
<1>4. CASE rows' = rows /\ Goto(c, "recover") /\ answer' = Silent
  <2> DEFINE pc == "recover"
  <2>1. Goto(c, pc) /\ pc \in Looking /\ pc # "movie_locked"
    BY <1>4 DEF Looking
  <2> HIDE DEF pc
  <2> QED
    BY <1>1, <1>4, <2>1, CallLooks
<1>5. CASE ~rows[r].deleted /\ Put(r, grown) /\ Answer(c, r)
  BY <1>1, <1>5, GrowHolds
<1> QED
  BY <1>2, <1>3, <1>4, <1>5

(* A call that begins asks for seasons of the title. *)
LEMMA PostHolds ==
  ASSUME TableOK, CallsFit, NEW c \in Callers, NEW ask \in Asks, Post(c, ask)
  PROVE  StepHolds
<1> DEFINE pc == IF find_active # 0 THEN "join" ELSE "probe"
           call == [pc |-> pc, ask |-> ask, attempt |-> 1, row |-> 0, present |-> {}, recovering |-> FALSE]
<1>1. media_type' = media_type /\ rows' = rows /\ answer' = Silent /\ At(c, "idle")
      /\ calls' = [calls EXCEPT ![c] = call]
  BY DEF Post, Begun
<1>2. _season_numbers(ask) \subseteq Scopes
  <2>1. ask.want \subseteq Seasons /\ 1..Aired \subseteq Seasons
    BY RequestsAssumption
  <2>2. CASE media_type = "movie"
    <3>1. ask.want = {1}
      BY <2>2 DEF Post
    <3> QED
      BY <2>2, <3>1 DEF _season_numbers, Scopes, ScopesOf
  <2>3. CASE media_type # "movie"
    BY <2>1, <2>3 DEF _season_numbers, Scopes, ScopesOf
  <2> QED
    BY <2>2, <2>3
<1>3. pc \in Pcs /\ pc \notin Growing \cup {"collapse", "movie_locked"}
  BY DEF Pcs, Looking, Growing
<1> HIDE DEF pc
<1>4. call = [pc |-> call.pc, ask |-> call.ask, attempt |-> call.attempt, row |-> call.row,
              present |-> call.present, recovering |-> call.recovering]
      /\ call.pc = pc /\ call.ask = ask
  OBVIOUS
<1> HIDE DEF call
<1>5. OneMoves(c) /\ calls'[c] = call
  BY <1>1, OneCallMoves
<1>6. CallGoes(c)
  BY <1>1, <1>2, <1>3, <1>4, <1>5 DEF CallGoes, CallFits, Flies, At
<1>7. CallsMove
  BY <1>5, <1>6, OneCallMoves
<1> QED
  BY <1>1, <1>7, TableStays DEF StepHolds, AnswerIsHonest

(* Every step of create_request keeps it. *)
LEMMA CallHolds ==
  ASSUME TableOK, CallsOK, NEW c \in Callers, create_request(c) \/ \E ask \in Asks : Post(c, ask)
  PROVE  StepHolds
<1>1. CallsFit
  BY DEF CallsOK
<1>2. CASE Join(c) \/ Crawl(c) \/ _grow_tv_dedup_join(c)
  BY <1>1, <1>2, JoinHolds, CrawlHolds, GrowJoinHolds
<1>3. CASE _already_in_library(c) \/ MovieLocked(c) \/ _present_seasons_or_empty(c) \/ TvLocked(c)
  BY <1>1, <1>3, ProbeHolds, MovieHolds, TvHolds
<1>4. CASE TrackInLibrary(c) \/ CreateRow(c) \/ Recover(c) \/ _collapse_available_race(c) \/ GrowWinner(c)
  BY <1>1, <1>4, TrackHolds, CreateHolds, RecoverHolds, CollapseHolds
<1>5. CASE \E ask \in Asks : Post(c, ask)
  BY <1>1, <1>5, PostHolds
<1> QED
  BY <1>2, <1>3, <1>4, <1>5 DEF create_request

(***************************************************************************)
(* Those who leave, and the world around the calls                            *)
(***************************************************************************)
(* A step that answers nobody and leaves the calls alone has only its table to mind.              *)
LEMMA TableAlone ==
  ASSUME CallsFit, TableMoves, calls' = calls, answer' = Silent
  PROVE  StepHolds
BY CallsStay DEF StepHolds, AnswerIsHonest

(* Cancelling, by the operator or the last owner, keeps it. *)
LEMMA CancelHolds ==
  ASSUME TableOK, CallsFit, NEW r \in Rows, NEW c,
         cancel_request(r) \/ cancel_request_as_owner(c, r)
  PROVE  StepHolds
<1> DEFINE new == _cancel_request_locked(rows[r])
<1>1. /\ media_type' = media_type /\ calls' = calls /\ answer' = Silent
      /\ Put(r, new) /\ Cancellable(rows[r])
  BY DEF cancel_request, cancel_request_as_owner
<1>2. Fits(rows[r]) /\ rows[r] # Deleted
  BY TableShape
<1>3. Mild(rows[r], new)
  BY <1>1, <1>2, CancelIsMild
<1> HIDE DEF new
<1>4. TableMoves
  BY <1>1, <1>3, MildPut
<1> QED
  BY <1>1, <1>4, TableAlone

(* Whoever leaves is in no other call; the last one out begins by cancelling the row.             *)
LEMMA WithdrawHolds ==
  ASSUME TableOK, CallsFit, NEW c \in Users, NEW r \in Rows, withdraw_participant(c, r)
  PROVE  StepHolds
<1> DEFINE row == rows[r]
<1>1. media_type' = media_type /\ answer' = Silent /\ calls[c].pc = "idle" /\ c \in Callers
  BY DEF withdraw_participant, At, Callers
<1>2. Fits(row) /\ row # Deleted
  BY TableShape
<1>3. \/ \E heir \in Remaining(row, c) : Put(r, HandOff(row, c, heir)) /\ calls' = calls
      \/ Put(r, Left(row, c)) /\ calls' = calls
      \/ /\ Cancellable(row) /\ Put(r, _cancel_request_locked(row))
         /\ calls' = [calls EXCEPT ![c] = [pc |-> "leave", row |-> r]]
  BY DEF withdraw_participant
<1>4. ASSUME NEW heir \in Remaining(row, c), Put(r, HandOff(row, c, heir)), calls' = calls
      PROVE  StepHolds
  <2> DEFINE new == HandOff(row, c, heir)
  <2>1. Alike(row, new) /\ row.subscribers \ {c} \subseteq new.subscribers /\ Put(r, new)
    BY <1>2, <1>4, Leaving
  <2> HIDE DEF new
  <2>2. TableMoves
    BY <1>1, <2>1, LeavePut
  <2> QED
    BY <1>1, <1>4, <2>2, TableAlone
<1>5. CASE Put(r, Left(row, c)) /\ calls' = calls
  <2> DEFINE new == Left(row, c)
  <2>1. Alike(row, new) /\ row.subscribers \ {c} \subseteq new.subscribers /\ Put(r, new)
    BY <1>2, <1>5, Leaving
  <2> HIDE DEF new
  <2>2. TableMoves
    BY <1>1, <2>1, LeavePut
  <2> QED
    BY <1>1, <1>5, <2>2, TableAlone
<1>6. CASE /\ Cancellable(row) /\ Put(r, _cancel_request_locked(row))
           /\ calls' = [calls EXCEPT ![c] = [pc |-> "leave", row |-> r]]
  <2> DEFINE new == _cancel_request_locked(row)
             call == [pc |-> "leave", row |-> r]
  <2>1. Mild(row, new) /\ Put(r, new)
    BY <1>2, <1>6, CancelIsMild
  <2> HIDE DEF new
  <2>2. TableMoves
    BY <1>1, <2>1, MildPut
  <2>3. call.pc = "leave" /\ CallFits(call)
    BY DEF CallFits
  <2>4. OneMoves(c) /\ calls'[c] = call
    BY <1>1, <1>6, OneCallMoves
  <2> HIDE DEF call
  <2>5. CallGoes(c)
    BY <1>1, <2>3, <2>4 DEF CallGoes, At, Growing
  <2>6. CallsMove
    BY <1>1, <2>4, <2>5, OneCallMoves
  <2> QED
    BY <1>1, <2>2, <2>6 DEF StepHolds, AnswerIsHonest
<1> QED
  BY <1>3, <1>4, <1>5, <1>6

(* The end of a withdrawal, after the cancel has committed, keeps it. *)
LEMMA LeaveHolds ==
  ASSUME TableOK, CallsFit, NEW c \in Users, Leave(c)
  PROVE  StepHolds
<1> DEFINE r == calls[c].row
           new == Left(rows[r], c)
<1>1. media_type' = media_type /\ Put(r, new) /\ answer' = Silent /\ calls[c].pc = "leave" /\ c \in Callers
      /\ Raise(c)
  BY DEF Leave, At, Callers, Raise
<1>2. Settles(c)
  BY <1>1 DEF Settles, At
<1>3. CallsMove /\ AnswerIsHonest'
  BY <1>1, <1>2, Raised
<1>4. TableMoves
  <2>1. CASE r \in Rows
    <3>1. Fits(rows[r]) /\ rows[r] # Deleted
      BY <2>1, TableShape
    <3>2. Alike(rows[r], new) /\ rows[r].subscribers \ {c} \subseteq new.subscribers
      BY <3>1, Leaving
    <3> HIDE DEF new, r
    <3> QED
      BY <1>1, <2>1, <3>2, LeavePut
  <2>2. CASE r \notin Rows
    <3>1. r \in DOMAIN rows \ Rows => rows[r] = Deleted
      BY TableShape
    <3>2. r \in DOMAIN rows \ Rows => new = Deleted
      BY <3>1, LeftDeleted
    <3> HIDE DEF new, r
    <3> QED
      BY <1>1, <2>2, <3>2, RowPut
  <2> QED
    BY <2>1, <2>2
<1> QED
  BY <1>3, <1>4 DEF StepHolds

(* What is pending or on its way has no file that could be there by mistake.                     *)
LEMMA NotYetThere ==
  ASSUME NEW row, Fits(row), row # Deleted, NEW s \in Scopes, media_type = "movie",
         row.scopes[s] # "available"
  PROVE  ~FalseClaim(row)
<1>1. Standing(row) /\ s = 1
  BY FitsShaped DEF Scopes, ScopesOf
<1> QED
  BY <1>1 DEF Standing, FalseClaim

(* A grab that begins or fails keeps it. *)
LEMMA MovedHolds ==
  ASSUME TableOK, CallsFit, NEW r \in Rows, NEW s \in Scopes, Grab(r, s) \/ _rearm_failed_request(r, s)
  PROVE  StepHolds
<1>1. media_type' = media_type /\ calls' = calls /\ answer' = Silent
  BY DEF Grab, _rearm_failed_request, Moved, EnvFixed
<1>2. Fits(rows[r]) /\ rows[r] # Deleted
  BY TableShape
<1>3. PICK from, to : Moved(r, s, from, to) /\ from \in {_PRE_GRAB_STATUSES, {"downloading"}}
                      /\ to \in {"downloading", "searching"}
  BY DEF Grab, _rearm_failed_request
<1> DEFINE new == Set(rows[r], s, to)
<1>4. Shaped(rows[r])
  BY <1>2, FitsShaped
<1>5. Shaped(new) /\ new.scopes = [rows[r].scopes EXCEPT ![s] = to] /\ new.minted = rows[r].minted
      /\ SameFiles(rows[r], new) /\ SameParty(rows[r], new)
  BY <1>4, SetShaped
<1>6. rows[r].scopes[s] \notin {"none", "cancelled", "completed", "available"}
      /\ Put(r, _recompute_parent(new)) /\ to \in WrittenStatuses
  BY <1>3 DEF Moved, WrittenStatuses, _PRE_GRAB_STATUSES
<1> HIDE DEF new
<1>7. media_type = "movie" => ~FalseClaim(rows[r])
  BY <1>2, <1>6, NotYetThere
<1>8. Mild(rows[r], _recompute_parent(new))
  BY <1>2, <1>5, <1>6, <1>7, MoveIsFirm DEF SameFiles
<1>9. TableMoves
  BY <1>1, <1>6, <1>8, MildPut
<1> QED
  BY <1>1, <1>9, TableAlone

(* An import keeps it: it only adds a file. *)
LEMMA CompletedHolds ==
  ASSUME TableOK, CallsFit, NEW r \in Rows, NEW s \in Scopes, mark_completed(r, s)
  PROVE  StepHolds
<1> DEFINE to == "completed"
           mid == Set(rows[r], s, to)
           x == mid.imported \cup {s}
           y == [mid.generation EXCEPT ![s] = @ + 1]
           new == [mid EXCEPT !.imported = x, !.generation = y]
           made == [Set(rows[r], s, "completed") EXCEPT
                                  !.imported = @ \cup {s}, !.generation[s] = @ + 1]
<1>1. media_type' = media_type /\ calls' = calls /\ answer' = Silent
      /\ rows[r].scopes[s] \in _PRE_GRAB_STATUSES \cup {"downloading"}
      /\ Put(r, _recompute_parent(made))
  BY DEF mark_completed, EnvFixed
<1>2. Fits(rows[r]) /\ rows[r] # Deleted /\ Shaped(rows[r])
  BY TableShape, FitsShaped
<1>3. media_type = "movie" => ~FalseClaim(rows[r])
  BY <1>1, <1>2, NotYetThere DEF _PRE_GRAB_STATUSES
<1>4. to \in WrittenStatuses /\ to # "available"
  BY DEF WrittenStatuses
<1>5. x = mid.imported \cup {s}
  OBVIOUS
<1> HIDE DEF to, x, y, made, new
<1>6. Shaped(mid) /\ mid.scopes = [rows[r].scopes EXCEPT ![s] = to] /\ mid.minted = rows[r].minted
      /\ SameFiles(rows[r], mid) /\ SameParty(rows[r], mid)
  <2>1. Shaped(rows[r])
    BY <1>2
  <2> HIDE DEF mid
  <2>2. mid = Set(rows[r], s, to)
    BY DEF mid
  <2> QED
    BY <2>1, <2>2, SetShaped
<1> HIDE DEF mid
<1>7. made = new
  BY <1>6 DEF to, mid, Shaped, made, new, x, y
<1> USE DEF new
<1>8. Shaped(new) /\ new.scopes = mid.scopes /\ new.minted = mid.minted /\ new.imported = x
      /\ SameParty(mid, new)
  <2>1. new = [mid EXCEPT !.imported = x, !.generation = y]
    OBVIOUS
  <2> HIDE DEF new
  <2> QED
    BY <1>6, <2>1 DEF Shaped, SameParty
<1> HIDE DEF new
<1>9. SameParty(rows[r], new) /\ rows[r].imported \subseteq new.imported
  BY <1>5, <1>6, <1>8 DEF SameParty, SameFiles
<1>10. rows[r].scopes[s] \notin {"none", "cancelled"}
  BY <1>1 DEF _PRE_GRAB_STATUSES
<1>11. Mild(rows[r], _recompute_parent(new))
  BY <1>2, <1>3, <1>4, <1>6, <1>8, <1>9, <1>10, MoveIsFirm
<1>12. TableMoves
  BY <1>1, <1>7, <1>11, MildPut
<1> QED
  BY <1>1, <1>12, TableAlone

(* Only what has a file of ours is evicted: such a row is no false claim.                       *)
LEMMA EvictHolds ==
  ASSUME TableOK, CallsFit, NEW r \in Rows, NEW s \in Scopes, Evict(r, s)
  PROVE  StepHolds
<1> DEFINE new == Tolerant_recompute_parent(r, Set(rows[r], s, "evicted"))
<1>1. media_type' = media_type /\ calls' = calls /\ answer' = Silent
      /\ rows[r].scopes[s] = "available" /\ s \in rows[r].imported /\ Put(r, new)
  BY DEF Evict, EnvFixed
<1>2. Fits(rows[r]) /\ rows[r] # Deleted /\ ~FalseClaim(rows[r])
  BY <1>1, TableShape DEF FalseClaim
<1>3. Mild(rows[r], new)
  BY <1>1, <1>2, TolerantMoveIsMild
<1> HIDE DEF new
<1>4. TableMoves
  BY <1>1, <1>3, MildPut
<1> QED
  BY <1>1, <1>4, TableAlone

(* Undoing an eviction keeps it, on the row and on those asked again because of it. *)
LEMMA RestoreHolds ==
  ASSUME TableOK, CallsFit, NEW r \in Rows, NEW s \in Scopes, Restore(r, s)
  PROVE  StepHolds
<1> DEFINE up == Tolerant_recompute_parent(r, Set(rows[r], s, "available"))
           down(q) == Tolerant_recompute_parent(q, Set(rows[q], s, "cancelled"))
<1>1. media_type' = media_type /\ calls' = calls /\ answer' = Silent /\ rows[r].scopes[s] = "evicted"
  BY DEF Restore, EnvFixed
<1>2. /\ \A q \in DOMAIN rows : Fits(rows[q])
      /\ \A q \in DOMAIN rows : q \in Rows <=> rows[q] # Deleted
      /\ \A q \in DOMAIN rows : q \in Rows <=> ~rows[q].deleted
      /\ r \in DOMAIN rows
  BY TableShape
<1>3. rows' = [q \in DOMAIN rows |-> IF rows[q].deleted THEN Deleted ELSE
       CASE q = r -> up
         [] q # r /\ s \in rows[q].regrab /\ rows[q].scopes[s] \in _PRE_GRAB_STATUSES -> down(q)
         [] OTHER -> rows[q]]
  BY DEF Restore
<1>4. Mild(rows[r], up)
  BY <1>1, <1>2, TolerantMoveIsMild
<1>5. ASSUME NEW q \in DOMAIN rows, q \in Rows, rows[q].scopes[s] \in _PRE_GRAB_STATUSES PROVE Mild(rows[q], down(q))
  <2>1. Fits(rows[q]) /\ rows[q] # Deleted /\ (media_type = "movie" => ~FalseClaim(rows[q]))
    BY <1>2, <1>5, NotYetThere DEF _PRE_GRAB_STATUSES
  <2> QED
    BY <1>5, <2>1, TolerantMoveIsMild DEF _PRE_GRAB_STATUSES
<1> HIDE DEF up, down
<1>6. ASSUME NEW q \in DOMAIN rows
      PROVE  Fits(rows'[q]) /\ IF q \in Rows THEN RowMoves(q) ELSE rows'[q] = Deleted
  <2>1. CASE q \notin Rows
    <3>1. rows'[q] = Deleted
      BY <1>2, <1>3, <2>1
    <3> QED
      BY <2>1, <3>1, FitsShaped
  <2>2. CASE q \in Rows
    <3>1. \/ q = r /\ rows'[q] = up
          \/ rows[q].scopes[s] \in _PRE_GRAB_STATUSES /\ rows'[q] = down(q)
          \/ rows'[q] = rows[q]
      BY <1>2, <1>3, <2>2
    <3>2. Mild(rows[q], rows'[q])
      BY <1>2, <1>4, <1>5, <2>2, <3>1, SameIsMild
    <3> QED
      BY <2>2, <3>2, MildRemains DEF Mild, Firm, Lasts
  <2> QED
    BY <2>1, <2>2
<1>7. rows' = [q \in DOMAIN rows |-> rows'[q]]
  BY <1>3
<1>8. TableMoves
  BY <1>1, <1>6, <1>7, TableRewritten
<1> QED
  BY <1>1, <1>8, TableAlone

(* Every step of the requests.                                                          *)
LEMMA NextHolds ==
  ASSUME TableOK, CallsOK, AnswerIsHonest, RequestsNext
  PROVE  StepHolds
<1>0. CallsFit
  BY DEF CallsOK
<1>1. ASSUME NEW c \in Callers, (\E ask \in Asks : Post(c, ask)) \/ create_request(c)
      PROVE  StepHolds
  BY <1>1, CallHolds
<1>2. ASSUME NEW r \in Rows, cancel_request(r)
      PROVE  StepHolds
  BY <1>0, <1>2, CancelHolds
<1>3. ASSUME NEW c \in Users, NEW r \in Rows, cancel_request_as_owner(c, r) \/ withdraw_participant(c, r)
      PROVE  StepHolds
  BY <1>0, <1>3, CancelHolds, WithdrawHolds
<1>4. ASSUME NEW c \in Users, Leave(c)
      PROVE  StepHolds
  BY <1>0, <1>4, LeaveHolds
<1>5. ASSUME NEW r \in Rows, NEW s \in Scopes,
             Grab(r, s) \/ _rearm_failed_request(r, s) \/ mark_completed(r, s) \/ Index(r, s) \/ Evict(r, s) \/ Restore(r, s)
      PROVE  StepHolds
  <2>1. CASE Index(r, s)
    <3>1. rows' = rows /\ media_type' = media_type /\ calls' = calls /\ answer' = Silent
      BY <2>1 DEF Index, EnvFixed
    <3> QED
      BY <1>0, <3>1, TableStays, TableAlone
  <2> QED
    BY <1>0, <1>5, <2>1, MovedHolds, CompletedHolds, EvictHolds, RestoreHolds
<1>6. ASSUME NEW s \in Scopes, Scan(s)
      PROVE  StepHolds
  <2>1. rows' = rows /\ media_type' = media_type /\ calls' = calls /\ answer' = Silent
    BY <1>6 DEF Scan, EnvFixed
  <2> QED
    BY <1>0, <2>1, TableStays, TableAlone
<1>7. CASE Terminating
  <2>1. rows' = rows /\ media_type' = media_type /\ calls' = calls /\ answer' = answer
    BY <1>7 DEF Terminating, requestVars
  <2>2. TableMoves /\ CallsMove
    BY <1>0, <2>1, TableStays, CallsStay
  <2>3. AnswerIsHonest'
    BY <2>1 DEF AnswerIsHonest, Subscribed, Tracked, _owned_by_another_user, _season_numbers
  <2> QED
    BY <2>2, <2>3 DEF StepHolds
<1> QED
  BY <1>1, <1>2, <1>3, <1>4, <1>5, <1>6, <1>7 DEF RequestsNext

(***************************************************************************)
(* The cycle                                                               *)
(***************************************************************************)
(* What a tick promotes is among what it read when it began.                                  *)
Phases == {"asking", "paths", "promote", "cross", "heal", "write"}
TickFits(t) ==
  /\ t = [pc |-> t.pc, completed |-> t.completed, listed |-> t.listed,
          heard |-> t.heard, sure |-> t.sure, heal |-> t.heal, kin |-> t.kin,
          crossed |-> t.crossed, at |-> t.at, act |-> t.act, winner |-> t.winner]
  /\ t.pc \in Phases
  /\ t.sure \subseteq t.completed
  /\ \A c \in t.completed :
       c.scope \in Scopes /\ c = [row |-> c.row, scope |-> c.scope, generation |-> c.generation]

(* What it heals are false claims no call is about to give up, the rows it may give them to      *)
(* have a file, and the one it has chosen stands.                                          *)
Contested(r) == \E c \in Callers : At(c, "collapse") /\ calls[c].row = r
HealFits(t) ==
  /\ DOMAIN t.heal \subseteq DOMAIN rows
  /\ \A r \in DOMAIN t.heal : media_type = "movie" /\ (rows[r].deleted \/ FalseClaim(rows[r]))
  /\ t.pc # "asking" => \A r \in DOMAIN t.heal : ~Contested(r)
  /\ t.pc \in {"cross", "heal", "write"} =>
       /\ DOMAIN t.heal # {}
       /\ \A r \in DOMAIN t.heal : \A q \in t.kin[r].ids : q \in Rows /\ q # r /\ rows[q].imported # {}
  /\ t.pc = "write" =>
       /\ t.at \in DOMAIN t.heal
       /\ t.act \in {"collapse", "adopt"} =>
            t.winner \in Rows /\ t.winner # t.at /\ ~Contested(t.winner)
TickOK == tick = Asleep \/ (TickFits(tick) /\ HealFits(tick))

(* When the table stands still, a tick that fits now fits then. *)
LEMMA SameTick ==
  ASSUME media_type' = media_type, rows' = rows, calls' = calls,
         tick' = Asleep \/ (TickFits(tick') /\ HealFits(tick'))
  PROVE  TickOK'
<1>1. Scopes' = Scopes /\ Rows' = Rows /\ Asleep' = Asleep
  BY DEF Scopes, Rows, Asleep
<1>2. \A r : Contested(r)' <=> Contested(r)
  BY DEF Contested, Callers, At
<1>3. TickFits(tick') => TickFits(tick)'
  BY <1>1 DEF TickFits
<1>4. HealFits(tick') => HealFits(tick)'
  BY <1>1, <1>2 DEF HealFits, FalseClaim
<1> QED
  BY <1>1, <1>3, <1>4 DEF TickOK

(* What has a file is not contested, and what nobody gives up stays with its files.             *)
LEMMA Undisturbed ==
  ASSUME TableOK, CallsOK, TableMoves, CallsMove
  PROVE  /\ \A r \in DOMAIN rows : ~Contested(r) => ~Contested(r)'
         /\ \A r \in DOMAIN rows : ~Rearmed(r) /\ media_type = "movie" =>
              (rows[r].deleted \/ FalseClaim(rows[r]) => rows'[r].deleted \/ FalseClaim(rows'[r]))
         /\ \A q \in Rows : ~Contested(q) /\ ~(Rearmed(q) /\ FalseClaim(rows[q])) =>
              q \in Rows' /\ rows[q].imported \subseteq rows'[q].imported
         /\ \A r \in Rows : media_type = "movie" /\ Contested(r) => FalseClaim(rows[r])
<1>1. /\ Rows \subseteq DOMAIN rows /\ Deleted.deleted = TRUE
      /\ \A r \in DOMAIN rows : r \in Rows <=> ~rows[r].deleted
  BY TableShape DEF Deleted
<1>2. ASSUME NEW r \in DOMAIN rows, ~Contested(r), Contested(r)' PROVE FALSE
  <2>1. PICK c \in Callers : At(c, "collapse")' /\ calls'[c].row = r
    BY <1>2 DEF Contested, Callers
  <2>2. calls'[c] = calls[c] \/ CallGoes(c)
    BY DEF CallsMove
  <2>3. CASE calls'[c] = calls[c]
    BY <1>2, <2>1, <2>3 DEF Contested, At
  <2>4. CASE CallGoes(c)
    BY <2>1, <2>4 DEF CallGoes, At
  <2> QED
    BY <2>2, <2>3, <2>4
<1>3. ASSUME NEW r \in DOMAIN rows, ~Rearmed(r), media_type = "movie",
             rows[r].deleted \/ FalseClaim(rows[r])
      PROVE  rows'[r].deleted \/ FalseClaim(rows'[r])
  <2>1. CASE rows'[r] = Deleted
    BY <1>1, <2>1
  <2>2. CASE rows'[r] # Deleted
    <3>1. Remain(r) /\ r \in Rows
      BY <2>2 DEF TableMoves, RowMoves
    <3> QED
      BY <1>1, <1>3, <3>1 DEF Remain, ClaimStays
  <2> QED
    BY <2>1, <2>2
<1>4. ASSUME NEW q \in Rows, ~Contested(q), ~(Rearmed(q) /\ FalseClaim(rows[q]))
      PROVE  q \in Rows' /\ rows[q].imported \subseteq rows'[q].imported
  <2>1. ~GivesWay(q)
    BY <1>4 DEF GivesWay, Contested
  <2>2. Remain(q)
    BY <1>1, <2>1 DEF TableMoves, RowMoves
  <2>3. Fits(rows'[q]) /\ rows'[q] # Deleted
    BY <2>2 DEF Remain, Lasts
  <2>4. rows'[q].deleted = FALSE /\ q \in DOMAIN rows'
    BY <1>1, <2>3, FitsShaped DEF TableMoves
  <2> QED
    BY <2>2, <2>4 DEF Remain, Lasts, Rows
<1>5. ASSUME NEW r \in Rows, media_type = "movie", Contested(r) PROVE FalseClaim(rows[r])
  BY <1>5 DEF Contested, CallsOK, Racing
<1> QED
  BY <1>2, <1>3, <1>4, <1>5

(* The requests go on under a tick.                                                      *)
LEMMA TickStays ==
  ASSUME TableOK, CallsOK, TickOK, TableMoves, CallsMove, tick' = tick
  PROVE  TickOK'
<1>1. media_type' = media_type /\ Scopes' = Scopes /\ Asleep' = Asleep /\ DOMAIN rows \subseteq DOMAIN rows'
  BY DEF TableMoves, Scopes, Asleep
<1>2. \A r : ~Rearmed(r)
  BY DEF Rearmed
<1>3. TickFits(tick) => TickFits(tick)'
  BY <1>1 DEF TickFits
<1>4. ASSUME HealFits(tick) PROVE HealFits(tick)'
  <2>1. /\ DOMAIN tick.heal \subseteq DOMAIN rows'
        /\ \A r \in DOMAIN tick.heal :
             media_type = "movie" /\ (rows'[r].deleted \/ FalseClaim(rows'[r]))
        /\ tick.pc # "asking" => \A r \in DOMAIN tick.heal : ~Contested(r)'
    BY <1>1, <1>2, <1>4, Undisturbed DEF HealFits
  <2>2. ASSUME tick.pc \in {"cross", "heal", "write"},
               NEW r \in DOMAIN tick.heal, NEW q \in tick.kin[r].ids
        PROVE  q \in Rows' /\ q # r /\ rows'[q].imported # {}
    <3>1. q \in Rows /\ q # r /\ rows[q].imported # {} /\ media_type = "movie"
      BY <1>4, <2>2 DEF HealFits
    <3>2. ~Contested(q)
      BY <3>1, Undisturbed DEF FalseClaim
    <3> QED
      BY <1>2, <3>1, <3>2, Undisturbed
  <2>3. ASSUME tick.pc = "write", tick.act \in {"collapse", "adopt"}
        PROVE  tick.winner \in Rows' /\ tick.winner # tick.at /\ ~Contested(tick.winner)'
    <3> DEFINE w == tick.winner
    <3>1. w \in Rows /\ w # tick.at /\ ~Contested(w)
      BY <1>4, <2>3 DEF HealFits
    <3>2. w \in DOMAIN rows
      BY <3>1 DEF Rows
    <3>3. Contested(tick.winner)' <=> Contested(w)'
      OBVIOUS
    <3> HIDE DEF w
    <3>4. w \in Rows' /\ ~(\E c \in Callers' : At(c, "collapse")' /\ calls'[c].row = w)
      BY <1>2, <3>1, <3>2, Undisturbed DEF Contested
    <3> QED
      BY <3>1, <3>4 DEF Contested, w
  <2> QED
    BY <1>1, <1>4, <2>1, <2>2, <2>3 DEF HealFits
<1> QED
  BY <1>1, <1>3, <1>4 DEF TickOK

(* A tick asks, decides and goes on: what it read when it began stays, and what it is sure of   *)
(* comes from there.                                                                  *)
LEMMA TickGoes ==
  ASSUME TickFits(tick),
         NEW pc \in Phases, NEW listed, NEW heard, NEW sure, NEW heal, NEW kin, NEW crossed, NEW at,
         NEW act, NEW winner, NEW t,
         t = [pc |-> pc, completed |-> tick.completed, listed |-> listed, heard |-> heard,
              sure |-> sure, heal |-> heal, kin |-> kin, crossed |-> crossed, at |-> at,
              act |-> act, winner |-> winner],
         sure \subseteq tick.completed
  PROVE  /\ TickFits(t)
         /\ t.pc = pc /\ t.heal = heal /\ t.kin = kin /\ t.at = at /\ t.act = act /\ t.winner = winner
<1> DEFINE completed == tick.completed
<1>1. \A c \in completed :
          c.scope \in Scopes /\ c = [row |-> c.row, scope |-> c.scope, generation |-> c.generation]
  BY DEF TickFits
<1>2. sure \subseteq completed /\
         t = [pc |-> pc, completed |-> completed, listed |-> listed, heard |-> heard,
              sure |-> sure, heal |-> heal, kin |-> kin, crossed |-> crossed, at |-> at,
              act |-> act, winner |-> winner]
  OBVIOUS
<1> HIDE DEF completed
<1>3. /\ t.completed = completed /\ t.sure = sure /\ t.pc = pc
      /\ t.heal = heal /\ t.kin = kin /\ t.at = at /\ t.act = act /\ t.winner = winner
      /\ t = [pc |-> t.pc, completed |-> t.completed, listed |-> t.listed,
              heard |-> t.heard, sure |-> t.sure, heal |-> t.heal, kin |-> t.kin,
              crossed |-> t.crossed, at |-> t.at, act |-> t.act, winner |-> t.winner]
  BY <1>2
<1> QED
  BY <1>1, <1>2, <1>3 DEF TickFits

(* The snapshot of a tick.                                                             *)
LEMMA BeginTicks ==
  ASSUME TableOK, run_availability_cycle
  PROVE  TickOK'
<1> DEFINE done == {Claim(r, s) : r \in Rows, s \in Scopes}
           completed == {c \in done : rows[c.row].scopes[c.scope] = "completed"}
           heal == [r \in list_false_available_movies |-> rows[r].owner]
           new == [pc |-> "asking", completed |-> completed, listed |-> {}, heard |-> FALSE,
                   sure |-> {}, heal |-> heal,
                   kin |-> <<>>, crossed |-> TRUE, at |-> 0, act |-> "none", winner |-> 0]
<1>1. tick' = new /\ media_type' = media_type /\ rows' = rows /\ calls' = calls
  BY DEF run_availability_cycle, tickFrame
<1>2. \A c \in completed :
          c.scope \in Scopes /\ c = [row |-> c.row, scope |-> c.scope, generation |-> c.generation]
  BY DEF Claim
<1>3. /\ DOMAIN heal \subseteq DOMAIN rows
      /\ \A r \in DOMAIN heal : media_type = "movie" /\ FalseClaim(rows[r])
  BY DEF list_false_available_movies, Rows
<1> HIDE DEF completed, heal
<1>4. /\ new.completed = completed /\ new.sure = {} /\ new.heal = heal /\ new.pc = "asking"
      /\ new = [pc |-> new.pc, completed |-> new.completed, listed |-> new.listed,
                heard |-> new.heard, sure |-> new.sure, heal |-> new.heal, kin |-> new.kin,
                crossed |-> new.crossed, at |-> new.at, act |-> new.act, winner |-> new.winner]
  OBVIOUS
<1> HIDE DEF new
<1>5. TickFits(new) /\ HealFits(new)
  BY <1>2, <1>3, <1>4 DEF TickFits, HealFits, Phases
<1>6. tick' = Asleep \/ (TickFits(tick') /\ HealFits(tick'))
  BY <1>1, <1>5
<1> QED
  BY <1>1, <1>6, SameTick

(* The two questions to Plex leave the tick sure only of what it read. *)
LEMMA AsksTick ==
  ASSUME TickOK, present_ids \/ confirm_paths
  PROVE  TickOK'
<1> DEFINE t == tick
           asked == "paths"
           checked == "promote"
           Goes(pc, listed, heard, sure) ==
             /\ pc \in {"paths", "promote"}
             /\ tick' = [pc |-> pc, completed |-> t.completed, listed |-> listed,
                         heard |-> heard, sure |-> sure, heal |-> t.heal, kin |-> t.kin,
                         crossed |-> t.crossed, at |-> t.at, act |-> t.act, winner |-> t.winner]
             /\ sure \subseteq t.completed
<1>1. /\ media_type' = media_type /\ rows' = rows /\ calls' = calls /\ t # Asleep
      /\ t.pc = "asking" => \A r : ~Contested(r)
  BY DEF present_ids, confirm_paths, tickFrame, Asleep, Contested
<1>2. /\ TickFits(tick) /\ HealFits(tick)
      /\ t = [pc |-> t.pc, completed |-> t.completed, listed |-> t.listed,
              heard |-> t.heard, sure |-> t.sure, heal |-> t.heal, kin |-> t.kin,
              crossed |-> t.crossed, at |-> t.at, act |-> t.act, winner |-> t.winner]
      /\ t.sure \subseteq t.completed
  BY <1>1 DEF TickOK, TickFits
<1>0. /\ asked = "paths" /\ asked \in {"paths", "promote"}
      /\ checked = "promote" /\ checked \in {"paths", "promote"}
  OBVIOUS
<1> HIDE DEF asked, checked, Goes
<1>3. \E pc, listed, heard, sure : Goes(pc, listed, heard, sure)
  <2>1. CASE present_ids
    <3>1. CASE \E listed \in {plex, {}} :
                 tick' = [tick EXCEPT !.pc = "paths", !.heard = TRUE, !.listed = listed,
                                      !.sure = {c \in tick.completed : c.scope \in listed}]
      <4>1. PICK listed : tick' = [t EXCEPT !.pc = "paths", !.heard = TRUE, !.listed = listed,
                                            !.sure = {c \in tick.completed : c.scope \in listed}]
        BY <3>1
      <4> DEFINE sure == {c \in tick.completed : c.scope \in listed}
      <4>2. sure \subseteq t.completed
        OBVIOUS
      <4>3. tick' = [t EXCEPT !.pc = "paths", !.heard = TRUE, !.listed = listed, !.sure = sure]
        BY <4>1
      <4> HIDE DEF sure
      <4>4. tick' = [pc |-> asked, completed |-> t.completed, listed |-> listed,
                    heard |-> TRUE, sure |-> sure, heal |-> t.heal, kin |-> t.kin,
                    crossed |-> t.crossed, at |-> t.at, act |-> t.act, winner |-> t.winner]
        BY <1>0, <1>2, <4>3
      <4>5. Goes(asked, listed, TRUE, sure)
        BY <1>0, <4>2, <4>4 DEF Goes
      <4> QED
        BY <4>5
    <3>2. CASE tick' = [t EXCEPT !.pc = "paths"]
      <4>1. tick' = [pc |-> asked, completed |-> t.completed, listed |-> t.listed,
                    heard |-> t.heard, sure |-> t.sure, heal |-> t.heal, kin |-> t.kin,
                    crossed |-> t.crossed, at |-> t.at, act |-> t.act, winner |-> t.winner]
        BY <1>0, <1>2, <3>2
      <4>2. Goes(asked, t.listed, t.heard, t.sure)
        BY <1>0, <1>2, <4>1 DEF Goes
      <4> QED
        BY <4>2
    <3> QED
      BY <2>1, <3>1, <3>2 DEF present_ids
  <2>2. CASE confirm_paths
    <3> DEFINE rest == {c \in tick.completed \ tick.sure : c.scope \in plex}
    <3>1. PICK found \in {rest, {}} : tick' = [tick EXCEPT !.pc = "promote", !.sure = @ \cup found]
      BY <2>2 DEF confirm_paths
    <3> DEFINE sure == t.sure \cup found
    <3>2. sure \subseteq t.completed
      BY <1>2
    <3>3. tick' = [t EXCEPT !.pc = "promote", !.sure = sure]
      BY <3>1
    <3> HIDE DEF sure
    <3>4. tick' = [pc |-> checked, completed |-> t.completed, listed |-> t.listed,
                   heard |-> t.heard, sure |-> sure, heal |-> t.heal, kin |-> t.kin,
                   crossed |-> t.crossed, at |-> t.at, act |-> t.act, winner |-> t.winner]
      BY <1>0, <1>2, <3>3
    <3>5. Goes(checked, t.listed, t.heard, sure)
      BY <1>0, <3>2, <3>4 DEF Goes
    <3> QED
      BY <3>5
  <2> QED
    BY <2>1, <2>2
<1> HIDE DEF t
<1>4. PICK pc, listed, heard, sure :
        /\ pc \in {"paths", "promote"}
        /\ tick' = [pc |-> pc, completed |-> t.completed, listed |-> listed,
                    heard |-> heard, sure |-> sure, heal |-> t.heal, kin |-> t.kin,
                    crossed |-> t.crossed, at |-> t.at, act |-> t.act, winner |-> t.winner]
        /\ sure \subseteq t.completed
  BY <1>3 DEF Goes
<1>5. pc \in Phases /\ pc \notin {"asking", "cross", "heal", "write"}
  BY <1>4 DEF Phases
<1>6. TickFits(tick') /\ tick'.pc = pc /\ tick'.heal = tick.heal
  BY <1>2, <1>4, <1>5, TickGoes DEF t
<1>7. HealFits(tick')
  BY <1>1, <1>2, <1>5, <1>6 DEF HealFits, t
<1> QED
  BY <1>1, <1>6, <1>7, SameTick

(* Of several rows the oldest is one of them.                                              *)
LEMMA OldestOf ==
  ASSUME TableOK, NEW ids, ids \subseteq Rows, Oldest(ids) # 0
  PROVE  Oldest(ids) \in ids
<1>1. ids # {} /\ Oldest(ids) = Min(ids)
  BY DEF Oldest
<1>2. ids \subseteq Nat
  BY TableShape
<1> QED
  BY <1>1, <1>2, LeastOf

(* What is decided about a claim gives it to a row that stands.                                *)
LEMMA Decided ==
  ASSUME TableOK, CallsOK, HealFits(tick), tick.pc = "heal", NEW r \in DOMAIN tick.heal,
         Verdict(r).act \in {"collapse", "adopt"}
  PROVE  Verdict(r).winner \in Rows /\ Verdict(r).winner # r /\ ~Contested(Verdict(r).winner)
<1> DEFINE w == Verdict(r).winner
<1>1. /\ media_type = "movie" /\ (rows[r].deleted \/ FalseClaim(rows[r]))
      /\ \A q \in tick.kin[r].ids : q \in Rows /\ q # r /\ rows[q].imported # {}
  BY DEF HealFits
<1>2. w \in {SafeSibling(r), AdoptableSibling(r)} \ {0} \/ (w = find_active /\ find_active # 0)
  BY DEF Verdict
<1> HIDE DEF w
<1>3. \A q \in Rows : Contested(q) => FalseClaim(rows[q])
  BY <1>1 DEF Contested, CallsOK, Racing
<1>4. CASE w \in {SafeSibling(r), AdoptableSibling(r)} \ {0}
  <2> DEFINE own == {q \in tick.kin[r].ids : tick.heal[r] \in {Nobody, tick.kin[r].owner[q]}}
             free == {q \in tick.kin[r].ids : tick.kin[r].owner[q] = Nobody}
  <2>1. own \subseteq tick.kin[r].ids /\ free \subseteq tick.kin[r].ids
    OBVIOUS
  <2>2. w # 0 /\ (w = Oldest(own) \/ w = Oldest(free))
    BY <1>4 DEF SafeSibling, AdoptableSibling
  <2> HIDE DEF own, free
  <2>3. w \in tick.kin[r].ids
    <3>1. own \subseteq Rows /\ free \subseteq Rows
      BY <1>1, <2>1
    <3> QED
      BY <2>1, <2>2, <3>1, OldestOf
  <2> QED
    BY <1>1, <1>3, <2>3 DEF FalseClaim, w
<1>5. CASE w = find_active /\ find_active # 0
  <2>1. w \in Rows /\ Active(rows[w])
    BY <1>5, FindsActive
  <2>2. ~FalseClaim(rows[w]) /\ ~rows[w].deleted
    BY <2>1 DEF FalseClaim, Active, SETTLED_REQUEST_STATUS_VALUES, TERMINAL_REQUEST_STATUS_VALUES, Rows
  <2> QED
    BY <1>1, <1>3, <2>1, <2>2 DEF w
<1> QED
  BY <1>2, <1>4, <1>5

(* Reading the rows with files, and deciding, leaves the tick with claims it may heal. *)
LEMMA ReadsTick ==
  ASSUME TableOK, CallsOK, TickOK, HealReads \/ ConfirmCrossOwner \/ _heal_false_available_movies
  PROVE  TickOK'
<1> DEFINE t == tick
<1>1. media_type' = media_type /\ rows' = rows /\ calls' = calls /\ t # Asleep
  <2>1. tickFrame /\ rows' = rows
    BY DEF HealReads, ConfirmCrossOwner, _heal_false_available_movies
  <2>2. tick.pc \in {"promote", "cross", "heal"}
    BY DEF HealReads, ConfirmCrossOwner, _heal_false_available_movies
  <2> QED
    BY <2>1, <2>2 DEF tickFrame, Asleep
<1>2. /\ TickFits(tick) /\ HealFits(tick)
      /\ t = [pc |-> t.pc, completed |-> t.completed, listed |-> t.listed,
              heard |-> t.heard, sure |-> t.sure, heal |-> t.heal, kin |-> t.kin,
              crossed |-> t.crossed, at |-> t.at, act |-> t.act, winner |-> t.winner]
      /\ t.sure \subseteq t.completed
  BY <1>1 DEF TickOK, TickFits
<1>3. CASE HealReads
  <2> DEFINE kin == [r \in DOMAIN tick.heal |->
               [ids |-> list_for_media(r), owner |-> [q \in list_for_media(r) |-> rows[q].owner]]]
             pc == "cross"
  <2>1. t.pc = "promote" /\ (tick' = Asleep \/ (DOMAIN t.heal # {} /\ tick' = [t EXCEPT !.pc = pc, !.kin = kin]))
    BY <1>3 DEF HealReads
  <2>2. \A r \in DOMAIN t.heal : kin[r].ids = list_for_media(r)
    OBVIOUS
  <2>3. \A r \in DOMAIN t.heal : \A q \in kin[r].ids : q \in Rows /\ q # r /\ rows[q].imported # {}
    BY <2>2 DEF list_for_media
  <2>4. pc \in Phases /\ pc \notin {"asking", "write"}
    BY DEF Phases
  <2> HIDE DEF kin, pc
  <2>5. ASSUME DOMAIN t.heal # {}, tick' = [t EXCEPT !.pc = pc, !.kin = kin]
        PROVE  TickFits(tick') /\ HealFits(tick')
    <3>1. tick' = [pc |-> pc, completed |-> tick.completed, listed |-> t.listed,
                   heard |-> t.heard, sure |-> t.sure, heal |-> t.heal, kin |-> kin,
                   crossed |-> t.crossed, at |-> t.at, act |-> t.act, winner |-> t.winner]
      BY <1>2, <2>5
    <3>2. TickFits(tick') /\ tick'.pc = pc /\ tick'.heal = tick.heal /\ tick'.kin = kin
      BY <1>2, <2>4, <3>1, TickGoes
    <3> QED
      BY <1>2, <2>1, <2>3, <2>4, <2>5, <3>2 DEF HealFits
  <2> QED
    BY <1>1, <2>1, <2>5, SameTick
<1>4. CASE ConfirmCrossOwner
  <2> DEFINE pc == "heal"
  <2>1. t.pc = "cross" /\ \E x : tick' = [t EXCEPT !.pc = pc, !.crossed = x]
    BY <1>4 DEF ConfirmCrossOwner
  <2>2. PICK x : tick' = [t EXCEPT !.pc = pc, !.crossed = x]
    BY <2>1
  <2>3. pc \in Phases /\ pc \notin {"asking", "write"}
    BY DEF Phases
  <2> HIDE DEF pc
  <2>4. tick' = [pc |-> pc, completed |-> tick.completed, listed |-> t.listed,
                 heard |-> t.heard, sure |-> t.sure, heal |-> t.heal, kin |-> t.kin,
                 crossed |-> x, at |-> t.at, act |-> t.act, winner |-> t.winner]
    BY <1>2, <2>2
  <2>5. TickFits(tick') /\ tick'.pc = pc /\ tick'.heal = tick.heal /\ tick'.kin = tick.kin
    BY <1>2, <2>3, <2>4, TickGoes
  <2>6. HealFits(tick')
    BY <1>2, <2>1, <2>3, <2>5 DEF HealFits
  <2> QED
    BY <1>1, <2>5, <2>6, SameTick
<1>5. CASE _heal_false_available_movies
  <2> DEFINE r == Min(DOMAIN tick.heal)
             act == Verdict(r).act
             w == Verdict(r).winner
             pc == "write"
  <2>1. t.pc = "heal" /\ tick' = [t EXCEPT !.pc = pc, !.at = r, !.act = act, !.winner = w]
    BY <1>5 DEF _heal_false_available_movies
  <2>2. pc \in Phases /\ pc # "asking"
    BY DEF Phases
  <2>3. r \in DOMAIN tick.heal
    <3>1. DOMAIN tick.heal # {} /\ DOMAIN tick.heal \subseteq Nat
      BY <1>2, <2>1, TableShape DEF HealFits
    <3> QED
      BY <3>1, LeastOf
  <2> HIDE DEF r
  <2>4. act \in {"collapse", "adopt"} => w \in Rows /\ w # r /\ ~Contested(w)
    BY <1>2, <2>1, <2>3, Decided
  <2> HIDE DEF act, w, pc
  <2>5. tick' = [pc |-> pc, completed |-> tick.completed, listed |-> t.listed,
                 heard |-> t.heard, sure |-> t.sure, heal |-> t.heal, kin |-> t.kin,
                 crossed |-> t.crossed, at |-> r, act |-> act, winner |-> w]
    BY <1>2, <2>1
  <2>6. TickFits(tick') /\ tick'.pc = pc /\ tick'.heal = tick.heal /\ tick'.kin = tick.kin
        /\ tick'.at = r /\ tick'.act = act /\ tick'.winner = w
    BY <1>2, <2>2, <2>5, TickGoes
  <2>7. HealFits(tick')
    BY <1>2, <2>1, <2>2, <2>3, <2>4, <2>6 DEF HealFits
  <2> QED
    BY <1>1, <2>6, <2>7, SameTick
<1> QED
  BY <1>3, <1>4, <1>5

(* Whoever takes part in a row takes part in one that is there after the step.                   *)
Attends == \A r \in Rows : \E q \in Rows' : rows[r].subscribers \subseteq rows'[q].subscribers

(* A table that stands still leaves nobody out. *)
LEMMA SameAttends ==
  ASSUME rows' = rows
  PROVE  Attends
BY DEF Attends, Rows

(* A row that keeps its participants leaves nobody out. *)
LEMMA PutAttends ==
  ASSUME TableOK, NEW r \in Rows, NEW new, Put(r, new), Fits(new), new # Deleted,
         rows[r].subscribers \subseteq new.subscribers
  PROVE  Attends
<1>1. Rows \subseteq DOMAIN rows /\ rows = [q \in DOMAIN rows |-> rows[q]]
      /\ \A q \in DOMAIN rows : q \in Rows <=> ~rows[q].deleted
  BY TableShape
<1>2. DOMAIN rows' = DOMAIN rows /\ rows'[r] = new /\ \A q \in DOMAIN rows \ {r} : rows'[q] = rows[q]
  BY <1>1 DEF Put
<1>3. ~new.deleted
  BY FitsShaped
<1>4. ASSUME NEW q \in Rows PROVE q \in Rows' /\ rows[q].subscribers \subseteq rows'[q].subscribers
  BY <1>1, <1>2, <1>3 DEF Rows
<1> QED
  BY <1>4 DEF Attends

(* A row that gives way to one with its participants leaves nobody out. *)
LEMMA PairAttends ==
  ASSUME TableOK, NEW r \in Rows, NEW w \in Rows, w # r, NEW new, Fits(new), new # Deleted,
         rows' = [rows EXCEPT ![w] = new, ![r] = Deleted],
         rows[r].subscribers \subseteq new.subscribers, rows[w].subscribers \subseteq new.subscribers
  PROVE  Attends
<1>1. Rows \subseteq DOMAIN rows /\ rows = [q \in DOMAIN rows |-> rows[q]]
      /\ \A q \in DOMAIN rows : q \in Rows <=> ~rows[q].deleted
  BY TableShape
<1>2. DOMAIN rows' = DOMAIN rows /\ rows'[w] = new /\ \A q \in DOMAIN rows \ {r, w} : rows'[q] = rows[q]
  BY <1>1
<1>3. ~new.deleted
  BY FitsShaped
<1>4. w \in Rows'
  BY <1>1, <1>2, <1>3 DEF Rows
<1>5. ASSUME NEW q \in Rows PROVE \E x \in Rows' : rows[q].subscribers \subseteq rows'[x].subscribers
  <2>1. CASE q \in {r, w}
    BY <1>2, <1>4, <2>1
  <2>2. CASE q \notin {r, w}
    <3>1. q \in Rows' /\ rows'[q] = rows[q]
      BY <1>1, <1>2, <2>2 DEF Rows
    <3> QED
      BY <3>1
  <2> QED
    BY <2>1, <2>2
<1> QED
  BY <1>5 DEF Attends

(* One row is promoted, if it still holds the completion that Plex was asked about.               *)
LEMMA PromoteHolds ==
  ASSUME TableOK, CallsOK, TickOK, PromoteOne
  PROVE  StepHolds /\ TickOK' /\ Attends
<1>1. PICK c \in tick.sure :
       /\ tick' = [tick EXCEPT !.sure = @ \ {c}]
       /\ IF ~rows[c.row].deleted /\ mark_available(rows[c.row], c)
          THEN Put(c.row, _recompute_parent(
                 [Set(rows[c.row], c.scope, "available") EXCEPT !.regrab = @ \ {c.scope}]))
          ELSE UNCHANGED rows
  BY DEF PromoteOne
<1>2. media_type' = media_type /\ calls' = calls /\ answer' = Silent /\ tick # Asleep
      /\ tick.pc = "promote" /\ CallsFit
  BY DEF PromoteOne, tickFrame, Asleep, CallsOK
<1>3. /\ TickFits(tick) /\ HealFits(tick)
      /\ tick = [pc |-> tick.pc, completed |-> tick.completed, listed |-> tick.listed,
                heard |-> tick.heard, sure |-> tick.sure, heal |-> tick.heal, kin |-> tick.kin,
                crossed |-> tick.crossed, at |-> tick.at, act |-> tick.act, winner |-> tick.winner]
      /\ tick.sure \subseteq tick.completed /\ tick.pc \in Phases
      /\ c.scope \in Scopes /\ c = [row |-> c.row, scope |-> c.scope, generation |-> c.generation]
  BY <1>2 DEF TickOK, TickFits
<1>4. TickFits(tick') /\ tick'.pc = "promote" /\ tick'.heal = tick.heal
  <2> DEFINE sure == tick.sure \ {c}
  <2>1. sure \subseteq tick.completed
    BY <1>3
  <2>2. tick' = [tick EXCEPT !.sure = sure]
    BY <1>1
  <2> HIDE DEF sure
  <2>3. tick' = [pc |-> tick.pc, completed |-> tick.completed, listed |-> tick.listed,
                  heard |-> tick.heard, sure |-> sure, heal |-> tick.heal, kin |-> tick.kin,
                  crossed |-> tick.crossed,
                  at |-> tick.at, act |-> tick.act, winner |-> tick.winner]
    BY <1>3, <2>2
  <2>4. TickFits(tick') /\ tick'.pc = tick.pc /\ tick'.heal = tick.heal
    BY <1>3, <2>1, <2>3, TickGoes
  <2> QED
    BY <1>2, <2>4
<1>5. ASSUME TableMoves PROVE StepHolds /\ TickOK'
  <2>1. StepHolds /\ CallsMove
    BY <1>2, <1>5, TableAlone, CallsStay
  <2>2. \A r : ~Rearmed(r)
    BY <1>2 DEF Rearmed
  <2>3. /\ DOMAIN tick'.heal \subseteq DOMAIN rows'
        /\ \A r \in DOMAIN tick'.heal :
             media_type' = "movie" /\ (rows'[r].deleted \/ FalseClaim(rows'[r]))
        /\ \A r \in DOMAIN tick'.heal : ~Contested(r)'
    BY <1>2, <1>3, <1>4, <1>5, <2>1, <2>2, Undisturbed DEF HealFits, TableMoves
  <2>4. HealFits(tick)'
    BY <1>4, <2>3 DEF HealFits
  <2>5. TickFits(tick)'
    <3>1. Scopes' = Scopes
      BY <1>2 DEF Scopes
    <3> QED
      BY <1>4, <3>1 DEF TickFits
  <2> QED
    BY <2>1, <2>4, <2>5 DEF TickOK
<1>6. CASE rows' = rows
  BY <1>2, <1>5, <1>6, TableStays, SameAttends
<1> DEFINE r == c.row
           s == c.scope
           to == "available"
           mid == Set(rows[r], s, to)
           x == mid.regrab \ {s}
           new == [mid EXCEPT !.regrab = x]
           last == _recompute_parent(new)
<1>7. CASE ~rows[r].deleted /\ mark_available(rows[r], c) /\ Put(r, last)
  <2>1. /\ rows = [q \in DOMAIN rows |-> rows[q]]
        /\ \A q \in DOMAIN rows : Fits(rows[q])
        /\ \A q \in DOMAIN rows : q \in Rows <=> ~rows[q].deleted
        /\ \A q \in DOMAIN rows : q \in Rows <=> rows[q] # Deleted
        /\ Rows \subseteq DOMAIN rows
    BY TableShape
  <2>2. rows[r].scopes[s] \in Done /\ rows[r].generation[s] = c.generation
    BY <1>7 DEF mark_available
  <2>3. CASE r \notin Rows
    <3>1. r \notin DOMAIN rows
      BY <1>7, <2>1, <2>3
    <3> HIDE DEF last, r
    <3>2. rows' = rows
      BY <1>7, <2>1, <3>1 DEF Put
    <3> QED
      BY <1>6, <3>2
  <2>4. CASE r \in Rows
    <3>1. Fits(rows[r]) /\ rows[r] # Deleted /\ Shaped(rows[r]) /\ r \in DOMAIN rows
      BY <2>1, <2>4, FitsShaped
    <3>2. to = "available" /\ to \in WrittenStatuses /\ rows[r].scopes[s] \notin {"none", "cancelled"} /\ s \in Scopes
      BY <1>3, <2>2 DEF WrittenStatuses, Done
    <3>3. Claim(r, s) = c
      BY <1>3, <2>2 DEF Claim
    <3> HIDE DEF r, s, to
    <3>4. Shaped(mid) /\ mid.scopes = [rows[r].scopes EXCEPT ![s] = to] /\ mid.minted = rows[r].minted
          /\ SameFiles(rows[r], mid) /\ SameParty(rows[r], mid)
      BY <3>1, SetShaped
    <3> HIDE DEF mid, x
    <3>5. Shaped(new) /\ SameSeasons(mid, new) /\ SameFiles(mid, new) /\ SameParty(mid, new)
      BY <3>4, MarkWritten
    <3> HIDE DEF new
    <3>6. /\ new.scopes = [rows[r].scopes EXCEPT ![s] = to] /\ new.minted = rows[r].minted
          /\ SameParty(rows[r], new) /\ rows[r].imported \subseteq new.imported
          /\ FalseClaim(rows[r]) => new.imported = {}
      BY <3>4, <3>5 DEF SameSeasons, SameFiles, SameParty, FalseClaim
    <3>7. Firm(rows[r], last) /\ NotRevived(rows[r], last) /\ last.scopes = new.scopes
      BY <3>1, <3>2, <3>5, <3>6, MoveIsFirm
    <3> HIDE DEF last
    <3>8. rows'[r] = last /\ Put(r, last)
      BY <1>7, <3>1 DEF Put
    <3>9. Confirmed(r)
      <4> SUFFICES ASSUME NEW z \in Scopes, rows[r].scopes[z] = "completed", rows'[r].scopes[z] = "available"
                   PROVE  Claim(r, z) \in tick.completed
        BY DEF Confirmed
      <4>1. z = s
        BY <3>1, <3>6, <3>7, <3>8 DEF Shaped
      <4> QED
        BY <1>3, <3>3, <4>1
    <3>10. RowMoves(r)
      BY <3>7, <3>8, <3>9 DEF RowMoves, Remain, Firm
    <3>11. Fits(last) /\ last # Deleted /\ rows[r].subscribers \subseteq last.subscribers
      BY <3>7 DEF Firm, Lasts
    <3>12. TableMoves
      BY <1>2, <2>4, <3>8, <3>10, <3>11, RowPut
    <3>13. Attends
      BY <2>4, <3>8, <3>11, PutAttends
    <3> QED
      BY <1>5, <3>12, <3>13
  <2> QED
    BY <2>3, <2>4
<1> QED
  BY <1>1, <1>6, <1>7

(* A false claim is armed again: a row that nobody was told of yet.                              *)
LEMMA ArmedAgain ==
  ASSUME NEW row, Fits(row), row # Deleted, FalseClaim(row), media_type = "movie"
  PROVE  LET new == Set([row EXCEPT !.status = "pending", !.minted = FALSE], 1, "pending")
         IN Lasts(row, new) /\ NotRevived(row, new) /\ NotPromoted(row, new) /\ SameParty(row, new)
<1> DEFINE p == "pending"
           f == FALSE
           start == [row EXCEPT !.status = p, !.minted = f]
           one == 1
           new == Set(start, one, p)
<1>1. Shaped(row) /\ Standing(row) /\ Attended(row) /\ row.status = "available" /\ Scopes = {1}
  BY FitsShaped DEF FalseClaim, Scopes, ScopesOf
<1>2. new = Set([row EXCEPT !.status = "pending", !.minted = FALSE], 1, "pending")
  OBVIOUS
<1>3. p = "pending" /\ f = FALSE /\ one = 1
  OBVIOUS
<1> HIDE DEF p, f, one
<1>4. Shaped(start) /\ start.status = p /\ start.minted = f /\ start.scopes = row.scopes
      /\ SameFiles(row, start) /\ SameParty(row, start)
  <2>1. start = [row EXCEPT !.status = p, !.minted = f]
    OBVIOUS
  <2> HIDE DEF start
  <2> QED
    BY <1>1, <2>1 DEF Shaped, SameFiles, SameParty
<1> HIDE DEF start
<1>5. Shaped(new) /\ new.status = p /\ new.minted = f /\ new.scopes = [row.scopes EXCEPT ![one] = p]
      /\ SameFiles(start, new) /\ SameParty(start, new)
  BY <1>4, SetShaped
<1> HIDE DEF new
<1>6. SameFiles(row, new) /\ SameParty(row, new)
  BY <1>4, <1>5 DEF SameFiles, SameParty
<1>7. DOMAIN row.scopes = {1} /\ new.scopes[1] = p /\ DOMAIN new.scopes = {1}
  <2>1. DOMAIN row.scopes = {1} /\ DOMAIN new.scopes = {1}
    BY <1>1, <1>5, FitsShaped
  <2> QED
    BY <1>3, <1>5, <2>1
<1>8. Standing(new) /\ Attended(new)
  BY <1>1, <1>3, <1>5, <1>6, <1>7 DEF Standing, Attended, SameParty
<1>9. Fits(new) /\ new # Deleted
  BY <1>5, <1>8, FitsShaped
<1>10. Tracked(row) \subseteq Tracked(new)
  BY <1>3, <1>7 DEF Tracked
<1>11. Lasts(row, new)
  BY <1>3, <1>5, <1>6, <1>9, <1>10 DEF Lasts, SameFiles
<1>12. NotRevived(row, new) /\ NotPromoted(row, new)
  BY <1>1 DEF NotRevived, NotPromoted, Standing
<1> QED
  BY <1>2, <1>6, <1>11, <1>12

(* The decision is written, if the claim still is what it was decided for.                       *)
LEMMA HealHolds ==
  ASSUME TableOK, CallsOK, TickFits(tick), HealFits(tick), HealWrites
  PROVE  TableMoves /\ Attends
<1> DEFINE r == tick.at
           w == tick.winner
           u == tick.heal[r]
           adopted == add_subscriber(set_owner(rows[w], u), u)
           t == TRUE
           seen == [rows[r] EXCEPT !.verified = t]
           armed == Set([rows[r] EXCEPT !.status = "pending", !.minted = FALSE], 1, "pending")
<1>1. /\ media_type' = media_type /\ tick.pc = "write" /\ media_type = "movie"
      /\ r \in DOMAIN rows
  BY DEF HealWrites, tickFrame, HealFits
<1>2. tick' # tick
  <2>1. Asleep.pc = "idle"
    BY DEF Asleep
  <2> DEFINE heal == [q \in DOMAIN tick.heal \ {r} |-> tick.heal[q]]
             pc == "heal"
  <2>2. tick' = Asleep \/ tick' = [tick EXCEPT !.pc = pc, !.heal = heal]
    BY DEF HealWrites
  <2>3. pc # "write"
    OBVIOUS
  <2> HIDE DEF heal, pc
  <2>4. [tick EXCEPT !.pc = pc, !.heal = heal].pc = pc
    BY DEF TickFits
  <2> QED
    BY <1>1, <2>1, <2>2, <2>3, <2>4
<1>3. Rearmed(r)
  BY <1>1, <1>2 DEF Rearmed
<1>4. /\ \A q \in Rows : Fits(rows[q]) /\ rows[q] # Deleted
      /\ ~rows[r].deleted => r \in Rows
  <2>1. Rows \subseteq DOMAIN rows /\ \A q \in DOMAIN rows : q \in Rows <=> ~rows[q].deleted
    BY TableShape
  <2> QED
    BY <1>1, <2>1, TableShape
<1>5. \/ rows' = rows
      \/ /\ tick.act \in {"collapse", "adopt"} /\ delete_false_available_sibling_collapse(r)
         /\ \/ rows' = [rows EXCEPT ![w] = copy_subscribers(rows[w], rows[r]), ![r] = Deleted]
            \/ /\ u # Nobody
               /\ rows' = [rows EXCEPT ![w] = copy_subscribers(adopted, rows[r]), ![r] = Deleted]
      \/ Put(r, seen) /\ ~rows[r].deleted
      \/ Put(r, armed) /\ ~rows[r].deleted /\ FalseClaim(rows[r])
  BY DEF HealWrites, _commit_collapse, _adopt_then_collapse, mark_heal_verified_present,
         rearm_false_available_to_pending, claim_if_unowned
<1>6. CASE rows' = rows
  BY <1>1, <1>6, TableStays, SameAttends
<1>7. CASE /\ tick.act \in {"collapse", "adopt"} /\ delete_false_available_sibling_collapse(r)
           /\ \/ rows' = [rows EXCEPT ![w] = copy_subscribers(rows[w], rows[r]), ![r] = Deleted]
              \/ /\ u # Nobody
                 /\ rows' = [rows EXCEPT ![w] = copy_subscribers(adopted, rows[r]), ![r] = Deleted]
  <2>1. r \in Rows /\ FalseClaim(rows[r]) /\ rows[r].owner = u /\ w \in Rows /\ w # r
    BY <1>1, <1>4, <1>7 DEF delete_false_available_sibling_collapse, HealFits
  <2>2. Fits(rows[w]) /\ rows[w] # Deleted /\ Attended(rows[r])
    BY <1>4, <2>1, FitsShaped
  <2>3. rows[r].subscribers \subseteq Users /\ (u # Nobody => u \in Users)
    BY <2>1, <2>2 DEF Attended
  <2>4. GivesWay(r)
    BY <1>3, <2>1 DEF GivesWay
  <2> HIDE DEF r, w, u
  <2>5. ASSUME NEW mid, Alike(rows[w], mid), rows[w].subscribers \subseteq mid.subscribers,
               rows' = [rows EXCEPT ![w] = copy_subscribers(mid, rows[r]), ![r] = Deleted]
        PROVE  TableMoves /\ Attends
    <3> DEFINE new == copy_subscribers(mid, rows[r])
    <3>1. Fits(mid) /\ mid # Deleted
      BY <2>5 DEF Alike
    <3>2. Alike(mid, new) /\ mid.subscribers \subseteq new.subscribers
          /\ rows[r].subscribers \subseteq new.subscribers
      BY <2>3, <3>1, Copying
    <3>3. rows' = [rows EXCEPT ![w] = new, ![r] = Deleted]
      BY <2>5
    <3> HIDE DEF new
    <3>4. Alike(rows[w], new) /\ rows[w].subscribers \subseteq new.subscribers
      BY <2>5, <3>2, AlikeTwice
    <3>5. Mild(rows[w], new) /\ Fits(new) /\ new # Deleted
      BY <3>4, AlikeIsMild DEF Alike
    <3>6. TableMoves
      BY <1>1, <2>1, <2>4, <3>3, <3>5, PairMoves
    <3>7. Attends
      BY <2>1, <3>2, <3>3, <3>4, <3>5, PairAttends
    <3> QED
      BY <3>6, <3>7
  <2>6. CASE rows' = [rows EXCEPT ![w] = copy_subscribers(rows[w], rows[r]), ![r] = Deleted]
    <3>1. Alike(rows[w], rows[w])
      BY <2>2, SameIsMild
    <3> QED
      BY <2>5, <2>6, <3>1
  <2>7. CASE /\ u # Nobody
             /\ rows' = [rows EXCEPT ![w] = copy_subscribers(adopted, rows[r]), ![r] = Deleted]
    <3>1. Alike(rows[w], adopted) /\ rows[w].subscribers \subseteq adopted.subscribers
      BY <2>2, <2>3, <2>7, Adopting
    <3> HIDE DEF adopted
    <3> QED
      BY <2>5, <2>7, <3>1
  <2> QED
    BY <1>7, <2>6, <2>7 DEF r, w, u
<1>8. CASE Put(r, seen) /\ ~rows[r].deleted
  <2>1. r \in Rows /\ Fits(rows[r]) /\ rows[r] # Deleted /\ Shaped(rows[r]) /\ Attended(rows[r])
    BY <1>4, <1>8, FitsShaped
  <2>2. Put(r, seen)
    BY <1>8
  <2> HIDE DEF r, t
  <2>3. Shaped(seen) /\ SameSeasons(rows[r], seen) /\ SameFiles(rows[r], seen) /\ SameParty(rows[r], seen)
    BY <2>1, MarkWritten
  <2> HIDE DEF seen
  <2>4. Attended(seen) /\ rows[r].subscribers \subseteq seen.subscribers
    BY <2>1, <2>3 DEF Attended, SameParty
  <2>5. Alike(rows[r], seen)
    BY <2>1, <2>3, <2>4, SameStands
  <2>6. Mild(rows[r], seen) /\ Fits(seen) /\ seen # Deleted
    BY <2>4, <2>5, AlikeIsMild DEF Alike
  <2>7. TableMoves
    BY <1>1, <2>1, <2>2, <2>6, MildPut
  <2>8. Attends
    BY <2>1, <2>2, <2>4, <2>6, PutAttends
  <2> QED
    BY <2>7, <2>8
<1>9. CASE Put(r, armed) /\ ~rows[r].deleted /\ FalseClaim(rows[r])
  <2>1. r \in Rows /\ Fits(rows[r]) /\ rows[r] # Deleted
    BY <1>4, <1>9
  <2>2. Lasts(rows[r], armed) /\ NotRevived(rows[r], armed) /\ NotPromoted(rows[r], armed)
        /\ SameParty(rows[r], armed)
    BY <1>1, <1>9, <2>1, ArmedAgain
  <2>3. Put(r, armed)
    BY <1>9
  <2> HIDE DEF armed, r
  <2>4. rows'[r] = armed => RowMoves(r)
    BY <1>3, <2>2 DEF RowMoves, Remain, SameParty
  <2>5. Fits(armed) /\ armed # Deleted /\ rows[r].subscribers \subseteq armed.subscribers
    BY <2>2 DEF Lasts, SameParty
  <2>6. TableMoves
    BY <1>1, <2>1, <2>3, <2>4, <2>5, RowPut
  <2>7. Attends
    BY <2>1, <2>3, <2>5, PutAttends
  <2> QED
    BY <2>6, <2>7
<1> QED
  BY <1>5, <1>6, <1>7, <1>8, <1>9

(* Healing one claim keeps everything: the table, the calls, the tick and who takes part. *)
LEMMA HealWritesHolds ==
  ASSUME TableOK, CallsOK, TickOK, HealWrites
  PROVE  StepHolds /\ TickOK' /\ Attends
<1> DEFINE left == DOMAIN tick.heal \ {tick.at}
           heal == [q \in left |-> tick.heal[q]]
           pc == "heal"
<1>1. /\ media_type' = media_type /\ calls' = calls /\ answer' = Silent /\ tick # Asleep
      /\ tick.pc = "write" /\ CallsFit
      /\ tick' = Asleep \/ (left # {} /\ tick' = [tick EXCEPT !.pc = pc, !.heal = heal])
  BY DEF HealWrites, tickFrame, Asleep, CallsOK
<1>2. /\ TickFits(tick) /\ HealFits(tick)
      /\ tick = [pc |-> tick.pc, completed |-> tick.completed, listed |-> tick.listed,
                heard |-> tick.heard, sure |-> tick.sure, heal |-> tick.heal, kin |-> tick.kin,
                crossed |-> tick.crossed, at |-> tick.at, act |-> tick.act, winner |-> tick.winner]
      /\ tick.sure \subseteq tick.completed
  BY <1>1 DEF TickOK, TickFits
<1>3. TableMoves /\ Attends
  BY <1>2, HealHolds
<1>4. StepHolds /\ CallsMove
  BY <1>1, <1>3, TableAlone, CallsStay
<1>5. DOMAIN heal = left /\ pc \in Phases /\ pc = "heal"
  BY DEF Phases
<1> HIDE DEF heal, pc
<1>6. ASSUME left # {}, tick' = [tick EXCEPT !.pc = pc, !.heal = heal]
      PROVE  TickOK'
  <2>1. tick' = [pc |-> pc, completed |-> tick.completed, listed |-> tick.listed,
                 heard |-> tick.heard, sure |-> tick.sure, heal |-> heal, kin |-> tick.kin,
                 crossed |-> tick.crossed,
                 at |-> tick.at, act |-> tick.act, winner |-> tick.winner]
    BY <1>2, <1>6
  <2>2. TickFits(tick') /\ tick'.pc = pc /\ tick'.heal = heal /\ tick'.kin = tick.kin
    BY <1>2, <1>5, <2>1, TickGoes
  <2>3. \A q \in left : q \in DOMAIN tick.heal /\ q \in DOMAIN rows /\ ~Rearmed(q)
    BY <1>2 DEF HealFits, Rearmed
  <2>4. /\ left \subseteq DOMAIN rows'
        /\ \A q \in left : media_type' = "movie" /\ (rows'[q].deleted \/ FalseClaim(rows'[q]))
        /\ \A q \in left : ~Contested(q)'
    BY <1>1, <1>2, <1>3, <1>4, <2>3, Undisturbed DEF HealFits, TableMoves
  <2>5. ASSUME NEW q \in left, NEW x \in tick.kin[q].ids
        PROVE  x \in Rows' /\ x # q /\ rows'[x].imported # {}
    <3>1. x \in Rows /\ x # q /\ rows[x].imported # {} /\ media_type = "movie"
      BY <1>1, <1>2, <2>3 DEF HealFits
    <3>2. ~Contested(x) /\ ~FalseClaim(rows[x])
      BY <1>3, <1>4, <3>1, Undisturbed DEF FalseClaim
    <3> QED
      BY <1>3, <1>4, <3>1, <3>2, Undisturbed
  <2>6. HealFits(tick)'
    BY <1>5, <1>6, <2>2, <2>4, <2>5 DEF HealFits
  <2>7. TickFits(tick)'
    <3>1. Scopes' = Scopes
      BY <1>1 DEF Scopes
    <3> QED
      BY <2>2, <3>1 DEF TickFits
  <2> QED
    BY <2>6, <2>7 DEF TickOK
<1>7. tick' = Asleep => TickOK'
  BY DEF TickOK, Asleep
<1> QED
  BY <1>1, <1>3, <1>4, <1>6, <1>7

(***************************************************************************)
(* The theorems                                                            *)
(***************************************************************************)
(* The inductive invariant.                                                            *)
ServiceOK == TableOK /\ CallsOK /\ TickOK /\ AnswerIsHonest

(* Every step of the availability cycle does. *)
LEMMA CycleHolds ==
  ASSUME TableOK, CallsOK, TickOK, Cycle
  PROVE  StepHolds /\ TickOK' /\ Attends
<1>1. CASE PromoteOne \/ HealWrites
  BY <1>1, PromoteHolds, HealWritesHolds
<1>2. CASE \/ run_availability_cycle \/ present_ids \/ confirm_paths
           \/ HealReads \/ ConfirmCrossOwner \/ _heal_false_available_movies
  <2>1. TickOK'
    BY <1>2, BeginTicks, AsksTick, ReadsTick
  <2>2. tickFrame /\ rows' = rows
    <3>1. run_availability_cycle => tickFrame /\ rows' = rows
      BY DEF run_availability_cycle
    <3>2. present_ids \/ confirm_paths => tickFrame /\ rows' = rows
      BY DEF present_ids, confirm_paths
    <3>3. HealReads \/ ConfirmCrossOwner \/ _heal_false_available_movies => tickFrame /\ rows' = rows
      BY DEF HealReads, ConfirmCrossOwner, _heal_false_available_movies
    <3> QED
      BY <1>2, <3>1, <3>2, <3>3
  <2>3. media_type' = media_type /\ calls' = calls /\ answer' = Silent /\ CallsFit
    BY <2>2 DEF tickFrame, CallsOK
  <2>4. TableMoves /\ Attends
    BY <2>2, <2>3, TableStays, SameAttends
  <2>5. StepHolds
    BY <2>3, <2>4, TableAlone
  <2> QED
    BY <2>1, <2>4, <2>5
<1> QED
  BY <1>1, <1>2 DEF Cycle

(* The invariant is inductive. *)
LEMMA CycleStep ==
  ASSUME ServiceOK, [CycleNext]_cycleVars
  PROVE  ServiceOK' /\ TableMoves /\ (tick' # tick => Attends)
<1> USE DEF ServiceOK
<1>1. StepHolds /\ TickOK' /\ (tick' # tick => Attends)
  <2>1. CASE RequestsNext /\ UNCHANGED tick
    <3>1. StepHolds
      BY <2>1, NextHolds
    <3>2. TickOK'
      BY <2>1, <3>1, TickStays DEF StepHolds
    <3> QED
      BY <2>1, <3>1, <3>2
  <2>2. CASE Cycle
    BY <2>2, CycleHolds
  <2>3. CASE UNCHANGED cycleVars
    <3>1. rows' = rows /\ media_type' = media_type /\ calls' = calls /\ answer' = answer /\ tick' = tick
      BY <2>3 DEF cycleVars, requestVars
    <3>2. TableMoves /\ CallsMove
      BY <3>1, TableStays, CallsStay DEF CallsOK
    <3>3. AnswerIsHonest'
      BY <3>1 DEF AnswerIsHonest, Subscribed, Tracked, _owned_by_another_user, _season_numbers
    <3>4. TickOK'
      BY <3>1, <3>2, TickStays
    <3> QED
      BY <3>1, <3>2, <3>3, <3>4 DEF StepHolds
  <2> QED
    BY <2>1, <2>2, <2>3 DEF CycleNext
<1>2. \A c \in Callers : At(c, "collapse") => ~Rearmed(calls[c].row)
  BY DEF TickOK, HealFits, Contested, Rearmed, Asleep
<1>3. CallsOK'
  BY <1>1, <1>2, CallsKept DEF StepHolds
<1> QED
  BY <1>1, <1>3 DEF StepHolds, TableMoves

(* It holds at the start, where no call and no tick is in flight. *)
LEMMA CycleStarts == CycleInit => ServiceOK
<1> SUFFICES ASSUME CycleInit PROVE ServiceOK
  OBVIOUS
<1>1. PICK past \in Pasts : media_type = past.media_type /\ rows = past.rows
  BY DEF CycleInit, RequestsInit
<1>2. TableOK /\ \A r \in DOMAIN rows : rows[r] # Deleted => ~rows[r].minted
  BY <1>1, PastsAssumption DEF TableOK
<1>3. calls = [c \in Callers |-> NoCall] /\ answer = Silent /\ tick = Asleep
  BY DEF CycleInit, RequestsInit
<1>4. \A c \in Callers : calls[c] = NoCall /\ calls[c].pc = "idle"
  BY <1>3 DEF NoCall
<1>5. CallsFit
  BY <1>3, <1>4 DEF CallsFit, CallFits
<1>6. \A c \in Callers : Seated(c) /\ Racing(c)
  BY <1>4 DEF Seated, Racing, At, Growing
<1>7. Apart
  BY <1>4 DEF Apart, At
<1>8. FirstStands
  BY <1>2, TableShape DEF FirstStands
<1> QED
  BY <1>2, <1>3, <1>5, <1>6, <1>7, <1>8 DEF ServiceOK, CallsOK, TickOK, AnswerIsHonest

(* The invariant of the requests and the cycle: every row has its columns and an owner who takes *)
(* part in it, a call stands on a row it subscribed to, of the rows created available all but     *)
(* the first have a call to give them up, and the cycle heals none of those.                     *)
THEOREM ServiceHolds == CycleSpec => []ServiceOK
<1>1. ServiceOK /\ [CycleNext]_cycleVars => ServiceOK'
  BY CycleStep
<1> QED
  BY <1>1, CycleStarts, PTL DEF CycleSpec

(* When no call is left, at most one row stands as it was created available. *)
LEMMA OneRemains ==
  ASSUME TableOK, FirstStands, Quiet
  PROVE  Cardinality({r \in Rows : rows[r].minted /\ rows[r].status = "available"}) <= 1
<1> DEFINE S == {r \in Rows : rows[r].minted /\ rows[r].status = "available"}
<1>1. S \subseteq Nat /\ S \subseteq Rows /\ \A r \in S : rows[r].minted
  BY TableShape
<1> HIDE DEF S
<1>2. \A c \in Callers : ~At(c, "collapse")
  BY DEF Quiet, At
<1>3. ASSUME NEW q \in S, NEW r \in S, q # r PROVE FALSE
  <2>1. \A x, y \in S : ~(x < y)
    BY <1>1, <1>2 DEF FirstStands
  <2>2. q \in Nat /\ r \in Nat
    BY <1>1, <1>3
  <2>3. q < r \/ r < q
    BY <1>3, <2>2
  <2> QED
    BY <2>1, <2>3
<1>4. CASE S = {}
  <2>1. Cardinality(S) = 0
    BY <1>4, FS_EmptySet
  <2> QED
    BY <2>1 DEF S
<1>5. CASE S # {}
  <2>1. PICK x : x \in S
    BY <1>5
  <2>2. S = {x}
    BY <1>3, <2>1
  <2>3. Cardinality({x}) = 1
    BY FS_Singleton
  <2> QED
    BY <2>2, <2>3 DEF S
<1> QED
  BY <1>4, <1>5

(* A row is owned by one of its participants or by nobody, what a call answers is a row its caller *)
(* can see that tracks what was asked for, and of the rows created available by racing calls one   *)
(* remains when the calls are over.                                                        *)
THEOREM AnswersHeld == CycleSpec => []AnswersHold
<1>1. ServiceOK => AnswersHold
  <2> SUFFICES ASSUME ServiceOK PROVE AnswersHold
    OBVIOUS
  <2>1. OwnerParticipates
    <3> SUFFICES ASSUME NEW r \in Rows, rows[r].owner # Nobody
                 PROVE  rows[r].owner \in rows[r].subscribers
      BY DEF OwnerParticipates, Subscribed
    <3>1. Fits(rows[r]) /\ rows[r] # Deleted
      BY TableShape DEF ServiceOK
    <3>2. Attended(rows[r])
      BY <3>1, FitsShaped
    <3> QED
      BY <3>2 DEF Attended
  <2>2. OneAnswer
    BY OneRemains DEF OneAnswer, ServiceOK, CallsOK
  <2> QED
    BY <2>1, <2>2 DEF AnswersHold, ServiceOK
<1> QED
  BY <1>1, ServiceHolds, PTL

(* A cancelled request stays cancelled: nobody brings it back but the two writes that do not look *)
(* again, of a call that found the row in the library and of one that gave way to it.             *)
THEOREM NothingRevived == CycleSpec => JoinRevivesNothing
<1>1. ServiceOK /\ [CycleNext]_cycleVars =>
        [\A r \in Rows : rows[r].status = "cancelled" /\ ~GrowsUnread(r) =>
                       rows'[r].deleted \/ rows'[r].status = "cancelled"]_requestVars
  <2>1. ASSUME ServiceOK, [CycleNext]_cycleVars,
               NEW r \in Rows, rows[r].status = "cancelled", ~GrowsUnread(r)
        PROVE  rows'[r].deleted \/ rows'[r].status = "cancelled"
    <3>1. RowMoves(r)
      BY <2>1, CycleStep DEF TableMoves, Rows
    <3> QED
      BY <2>1, <3>1 DEF RowMoves, Remain, NotRevived, Deleted
  <2> QED
    BY <2>1
<1> QED
  BY <1>1, ServiceHolds, PTL DEF CycleSpec, JoinRevivesNothing

(* What was completed becomes available for the completion that Plex was asked about, and for no  *)
(* other.                                                                            *)
THEOREM PromotionConfirmed == CycleSpec => PromotionIsConfirmed
<1>1. ServiceOK /\ [CycleNext]_cycleVars =>
        [\A r \in Rows : ~rows'[r].deleted =>
          \A s \in Scopes :
           (rows[r].scopes[s] = "completed" /\ rows'[r].scopes[s] = "available")
             => Claim(r, s) \in tick.completed]_cycleVars
  <2>1. ASSUME ServiceOK, [CycleNext]_cycleVars, NEW r \in Rows, ~rows'[r].deleted, NEW s \in Scopes,
               rows[r].scopes[s] = "completed", rows'[r].scopes[s] = "available"
        PROVE  Claim(r, s) \in tick.completed
    <3>1. RowMoves(r)
      BY <2>1, CycleStep DEF TableMoves, Rows
    <3> QED
      BY <2>1, <3>1 DEF RowMoves, Remain, NotPromoted, Confirmed, Deleted
  <2> QED
    BY <2>1
<1> QED
  BY <1>1, ServiceHolds, PTL DEF CycleSpec, PromotionIsConfirmed

(* Whoever participates in a row that the cycle deletes participates in one that stays.            *)
THEOREM NobodyStranded == CycleSpec => HealStrandsNobody
<1>1. ServiceOK /\ [CycleNext]_cycleVars =>
        [tick # tick' => \A u \in Users : Sees(rows, u) => Sees(rows', u)]_cycleVars
  <2>1. ASSUME ServiceOK, [CycleNext]_cycleVars, tick # tick', NEW u \in Users, Sees(rows, u)
        PROVE  Sees(rows', u)
    <3>1. Attends
      BY <2>1, CycleStep
    <3>2. PICK r \in DOMAIN rows : ~rows[r].deleted /\ u \in rows[r].subscribers
      BY <2>1 DEF Sees
    <3>3. r \in Rows
      BY <3>2 DEF Rows
    <3>4. PICK q \in Rows' : rows[r].subscribers \subseteq rows'[q].subscribers
      BY <3>1, <3>3 DEF Attends
    <3>5. q \in DOMAIN rows' /\ ~rows'[q].deleted
      BY <3>4 DEF Rows
    <3> QED
      BY <3>2, <3>4, <3>5 DEF Sees
  <2> QED
    BY <2>1
<1> QED
  BY <1>1, ServiceHolds, PTL DEF CycleSpec, HealStrandsNobody
=============================================================================
