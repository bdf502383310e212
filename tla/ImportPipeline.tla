--------------------------- MODULE ImportPipeline ---------------------------
(***************************************************************************)
(* The import of ONE finished download into the library                     *)
(* (services/import_service.py, adapters/filesystem/local.py): a movie, a    *)
(* season held in the download's own columns ("scalar"), or a pack whose     *)
(* seasons are rows of download_scopes.  Around it: the operator who fails,   *)
(* or retries the download, a grab of the same torrent that               *)
(* attaches one more season to it, a purge that owns a destination, a file     *)
(* somebody else writes, and a crash.                                       *)
(*                                                                         *)
(* A per-download lock admits one import at a time.  A step is what happens    *)
(* between two awaits; a compare-and-swap and its commit are one step.       *)
(***************************************************************************)
EXTENDS Naturals, FiniteSets

CONSTANTS Units,        \* the seasons of the show; a movie is its only unit
          First,        \* the unit the download was grabbed for
          Files,        \* the files (episodes) of a unit
          Kinds,        \* of "movie", "scalar", "pack"
          MaxOutages,   \* _PROBE_OUTAGE_MAX_RETRIES
          Troubles      \* bound: retries on demand, purges, files somebody else
                        \* writes and crashes, all together, until the row is closed

ASSUME ImportUnitsAssumption == /\ First \in Units /\ IsFiniteSet(Units)
                                /\ Files # {} /\ IsFiniteSet(Files)
ASSUME ImportKindsAssumption == Kinds \subseteq {"movie", "scalar", "pack"}
ASSUME ImportBoundsAssumption ==
  MaxOutages \in Nat /\ Troubles \in Nat

VARIABLES
  kind,
  dl,       \* the download row: [status, path, retry] (durable)
  scope,    \* download_scopes[u].status (durable)
  want,     \* the request's (movie) or the seasons' status (durable)
  have,     \* season_episode_states: the episodes recorded as imported (durable)
  lib,      \* library_path is set, by unit (durable)
  tree,     \* what is at each destination: "none", "new" (this download put it
            \* there), "same" (identical, but somebody else's), "foreign"
  placing,  \* the destinations begin_placement holds
  purging,  \* the destinations a purge holds
  run,      \* the import in progress
  unmet,    \* history: what the target of a completed season lacked at its completion
  leftover, \* history: a crash or a failed best-effort removal left a file behind
  troubles

database == <<kind, dl, scope, want, have, lib>>
vars == <<kind, dl, scope, want, have, lib, tree, placing, purging, run, unmet, leftover,
          troubles>>

_RESUMABLE == {"import_pending", "import_blocked", "importing"}
_AUTO_DRAIN == {"import_pending", "importing"}
Terminal == {"failed", "imported"}

(* at is the unit being placed and left the files it still needs; placed are the  *)
(* files of that unit that this attempt created, and swapped those whose entry    *)
(* somebody has replaced since this attempt published it.                     *)
Idle == [pc |-> "idle", entered |-> FALSE, scoped |-> FALSE, targets |-> {}, good |-> {},
         plan |-> [u \in Units |-> {}], todo |-> {}, at |-> First, left |-> {},
         placed |-> {}, swapped |-> {}, done |-> {}, fails |-> {}]

UnitsOf == IF kind = "movie" THEN {First} ELSE Units
EpisodesOf == IF kind = "movie" THEN {CHOOSE f \in Files : TRUE} ELSE Files

Init ==
  /\ kind \in Kinds
  /\ dl = [status |-> "import_pending", path |-> "none", retry |-> 0]
  /\ scope = [u \in Units |-> IF kind = "pack" /\ u = First THEN "active" ELSE "absent"]
  /\ want = [u \in Units |-> IF u = First THEN "downloading" ELSE "searching"]
  /\ have = [u \in Units |-> {}] /\ lib = [u \in Units |-> FALSE]
  /\ tree = [u \in Units |-> [f \in Files |-> "none"]]
  /\ placing = {} /\ purging = {} /\ run = Idle
  /\ unmet = [u \in Units |-> {}] /\ leftover = FALSE
  /\ troubles = 0

----------------------------------------------------------------------------
(* Writes to the rows.                                                      *)

Trouble ==
  /\ troubles < Troubles /\ (dl.status \notin Terminal \/ run.pc # "idle")
  /\ troubles' = troubles + 1

Ends == run' = Idle /\ placing' = {}

SetUnits(us, sc, w) ==
  /\ scope' = [u \in Units |-> IF u \in us /\ scope[u] # "absent" THEN sc ELSE scope[u]]
  /\ want' = [u \in Units |-> IF u \in us THEN w ELSE want[u]]

(* _block: a compare-and-swap from _RESUMABLE, and nothing at all if the row   *)
(* has left it; the import ends either way.                                 *)
_block(clear) ==
  /\ Ends /\ UNCHANGED <<kind, have, lib>>
  /\ IF dl.status \in _RESUMABLE
     THEN /\ dl' = [dl EXCEPT !.status = "import_blocked",
                              !.path = IF clear THEN "none" ELSE @]
          /\ SetUnits(run.targets, "import_blocked", "import_blocked")
     ELSE UNCHANGED <<dl, scope, want>>

(* The failure protocol, seen from here: the row is terminal and the units it   *)
(* did not import are searched again.                                       *)
Fails(d, us) ==
  /\ dl' = [d EXCEPT !.status = "failed"]
  /\ scope' = scope
  /\ want' = [u \in Units |-> IF u \in us /\ scope[u] # "imported" THEN "searching" ELSE want[u]]
  /\ UNCHANGED <<kind, have, lib>>

----------------------------------------------------------------------------
(* Before the claim: nothing is written but a block, a deferral or a failure. *)

ScopeTargets == {u \in Units : scope[u] \in {"active", "import_blocked"}}

(* Which function imports the row, by the scopes read at its entry.             *)
Path == CASE run.scoped -> "_import_tv_targets_locked"
          [] ~run.scoped /\ kind = "movie" -> "_import_download_locked"
          [] OTHER -> "_import_tv_locked"

(* The reconcile loop takes what _AUTO_DRAIN names; a blocked row is retried    *)
(* on demand.                                                              *)
import_download(auto) ==
  /\ run.pc = "idle"
  /\ \/ auto /\ dl.status \in _AUTO_DRAIN /\ UNCHANGED troubles
     \/ ~auto /\ dl.status = "import_blocked" /\ Trouble
  /\ run' = [Idle EXCEPT !.pc = "client", !.entered = (dl.status = "importing"),
               !.scoped = (ScopeTargets # {}),
               !.targets = IF ScopeTargets # {} THEN ScopeTargets ELSE {First}]
  /\ UNCHANGED <<database, tree, placing, purging, unmet, leftover>>

run_import_cycle == import_download(TRUE)
RetryImport == import_download(FALSE)

(* The client raised: the cycle logs it and leaves the row for the next one.   *)
ClientUnreachable ==
  /\ run.pc = "client"
  /\ Ends
  /\ UNCHANGED <<database, tree, purging, unmet, leftover, troubles>>

(* get_status says the payload is still moving: the row downloads again.     *)
DeferToClient ==
  /\ Ends /\ UNCHANGED <<kind, have, lib>>
  /\ IF dl.status \in _RESUMABLE
     THEN /\ dl' = [dl EXCEPT !.status = "downloading"]
          /\ SetUnits(run.targets, "active", "downloading")
     ELSE UNCHANGED <<dl, scope, want>>

(* _resolve_content: the path the client names, the row's breadcrumb if it names     *)
(* none, or nothing; an answer outside its save path is refused.                *)
_resolve_content(answer) ==
  IF answer = "silent" THEN IF dl.path = "none" THEN "none" ELSE "breadcrumb" ELSE answer

(* _resolve_visible_content: a path the client named may be remapped to a mount       *)
(* that holds the payload; a breadcrumb counts only as it stands, and what this row     *)
(* placed stands.                                                           *)
_resolve_visible_content(content) ==
  CASE content \in {"unsafe", "none"} -> {FALSE}
    [] content = "breadcrumb" /\ \E f \in Files : tree[dl.path][f] # "none" -> {TRUE}
    [] OTHER -> BOOLEAN

(* No root, no content path, an unsafe one, or one this container cannot see:   *)
(* blocked.                                                                 *)
ResolveContent ==
  /\ run.pc = "client"
  /\ \/ DeferToClient
     \/ \E answer \in {"client", "silent", "unsafe"} :
          \E visible \in _resolve_visible_content(_resolve_content(answer)) :
            IF visible
            THEN run' = [run EXCEPT !.pc = "probe"] /\ UNCHANGED <<database, placing>>
            ELSE _block(FALSE)
  /\ UNCHANGED <<tree, purging, unmet, leftover, troubles>>

(* Mutant: an outage on a resumed import is retried for ever.                *)
Endless_refresh_resumed_import ==
  /\ Ends
  /\ IF dl.status # "importing" THEN UNCHANGED database
     ELSE dl' = dl /\ UNCHANGED <<kind, scope, want, have, lib>>

(* increment_retry_count_if_in: capped in the model one past the limit.            *)
increment_retry_count_if_in ==
  [dl EXCEPT !.retry = IF @ > MaxOutages THEN @ ELSE @ + 1]

(* _refresh_resumed_import_after_probe_outage: counted, and past the limit        *)
(* blocked.                                                                 *)
_refresh_resumed_import ==
  IF dl.status # "importing" THEN Ends /\ UNCHANGED database
  ELSE LET counted == increment_retry_count_if_in
       IN  IF counted.retry > MaxOutages
           THEN /\ Ends /\ UNCHANGED <<kind, have, lib>>
                /\ dl' = [counted EXCEPT !.status = "import_blocked"]
                /\ SetUnits(run.targets, "import_blocked", "import_blocked")
           ELSE Ends /\ dl' = counted /\ UNCHANGED <<kind, scope, want, have, lib>>

(* _resolve_sources: the listing of the payload finds any of the unit's files.        *)
_resolve_sources == SUBSET EpisodesOf

(* _verified_plex_video_sources: ans is the probe's answer for each candidate,     *)
(* cut says that the batch deadline came first.                             *)
VerifiedSources(sources, ans, cut) ==
  LET ok == {f \in sources : ans[f] = "video"}
  IN  CASE sources = {} -> [out |-> "unlisted", good |-> {}]
        [] cut -> [out |-> "unavailable", good |-> {}]
        [] ok # {} -> [out |-> "ok", good |-> ok]
        [] \E f \in sources : ans[f] = "outage" -> [out |-> "unavailable", good |-> {}]
        [] OTHER -> [out |-> "novideo", good |-> {}]

(* No video after probing, or none listed and the client confirms it: the        *)
(* payload is rejected (reject_payload, if the row is still resumable);        *)
(* unconfirmed: blocked.                                                    *)
RejectPayload ==
  \/ _block(FALSE)
  \/ /\ Ends
     /\ IF dl.status \in _RESUMABLE THEN Fails(dl, run.targets) ELSE UNCHANGED database

ProbeSources ==
  /\ run.pc = "probe"
  /\ \E sources \in _resolve_sources, cut \in BOOLEAN :
       \E ans \in [sources -> {"video", "junk", "outage"}] :
         LET v == VerifiedSources(sources, ans, cut)
         IN  CASE v.out = "ok" ->
                    /\ run' = [run EXCEPT !.pc = "plan", !.good = v.good]
                    /\ UNCHANGED <<database, placing>>
               [] v.out = "unavailable" ->
                    IF run.entered THEN _refresh_resumed_import ELSE _block(FALSE)
               [] v.out = "unlisted" -> RejectPayload
               [] OTHER -> Ends /\ IF dl.status \in _RESUMABLE THEN Fails(dl, run.targets)
                                   ELSE UNCHANGED database
  /\ UNCHANGED <<tree, purging, unmet, leftover, troubles>>

(* _build_tv_import_plan: the units for which the validation accepted a file, one       *)
(* per destination.                                                        *)
_build_tv_import_plan(plan) == {u \in run.targets : plan[u] # {}}

(* The validation accepts some of the good files for each unit; an unseen library      *)
(* root or an incomplete episode-scoped grab blocks.  begin_placement for every         *)
(* planned unit, all or none.                                               *)
PlanImport ==
  /\ run.pc = "plan"
  /\ \/ _block(FALSE)
     \/ \E plan \in [Units -> SUBSET run.good] :
          LET planned == _build_tv_import_plan(plan)
          IN  /\ \A u \in Units \ run.targets : plan[u] = {}
              /\ IF planned = {} THEN _block(FALSE)
                 ELSE IF planned \cap purging # {} THEN Ends /\ UNCHANGED database
                 ELSE /\ placing' = planned
                      /\ run' = [run EXCEPT !.pc = "claim", !.plan = plan, !.todo = planned,
                                            !.entered = FALSE, !.good = {}, !.fails = run.targets \ planned]
                      /\ UNCHANGED database
  /\ UNCHANGED <<tree, purging, unmet, leftover, troubles>>

----------------------------------------------------------------------------
(* The claim, the placements and the scan.                                   *)

(* Mutant: the claim does not ask what became of the row during validation.    *)
Blind_ClaimImporting ==
  /\ run.pc = "claim"
  /\ dl' = [dl EXCEPT !.status = "importing"]
  /\ run' = [run EXCEPT !.pc = "place"]
  /\ UNCHANGED <<kind, scope, want, have, lib, tree, placing, purging, unmet, leftover, troubles>>

ClaimImporting ==
  /\ run.pc = "claim"
  /\ IF dl.status \in _RESUMABLE
     THEN /\ dl' = [dl EXCEPT !.status = "importing"]
          /\ run' = [run EXCEPT !.pc = "place"]
          /\ UNCHANGED placing
     ELSE Ends /\ UNCHANGED dl
  /\ UNCHANGED <<kind, scope, want, have, lib, tree, purging, unmet, leftover, troubles>>

(* The next unit of the plan, or the end of the loop.                        *)
NextUnit(r) ==
  IF r.todo = {} THEN [r EXCEPT !.pc = "final", !.left = {}, !.placed = {}, !.swapped = {}]
  ELSE LET u == CHOOSE x \in r.todo : TRUE
       IN  [r EXCEPT !.pc = "place", !.at = u, !.todo = @ \ {u}, !.left = r.plan[u],
                     !.placed = {}, !.swapped = {}]

StartUnit ==
  /\ run.pc = "place" /\ run.left = {} /\ run.todo # {}
  /\ run' = NextUnit(run)
  /\ UNCHANGED <<database, tree, placing, purging, unmet, leftover, troubles>>

(* The file f of the unit at hand has been placed, or found there and accepted.      *)
Published(u, f) ==
  /\ run.pc \in {"record", "scan"} \/ (run.pc = "place" /\ run.left # {})
  /\ u = run.at /\ f \in run.plan[u] \ run.left

(* Mutant: the rollback removes by name, whatever is there now.              *)
Nameonly_remove_published(f, t) == "none"

(* remove_published: only the entry this attempt's publication resolved to.      *)
remove_published(f, t) == IF f \in run.swapped THEN t ELSE "none"

(* _remove_quietly_many: each file, best effort.                              *)
_remove_quietly_many(u, fs) ==
  \E gone \in SUBSET fs :
    /\ tree' = [tree EXCEPT ![u] = [f \in Files |->
                  IF f \in gone THEN remove_published(f, @[f]) ELSE @[f]]]
    /\ leftover' = (leftover \/ gone # fs)

(* A unit that failed: fatal unless the download is a pack, whose other seasons    *)
(* go on; a pack none of whose seasons succeeded is blocked.                 *)
UnitFails(clear) ==
  LET r == NextUnit([run EXCEPT !.fails = @ \cup {run.at}, !.left = {}])
  IN  IF ~run.scoped
      THEN _block(clear)
      ELSE IF r.pc = "final" /\ r.done = {} THEN _block(TRUE)
      ELSE run' = r /\ UNCHANGED <<database, placing>>

(* hardlink_or_copy: published, or accepted as it is because it is identical, or a   *)
(* conflict.  Nothing is ever overwritten.                                   *)
hardlink_or_copy(t) ==
  CASE t = "none" -> "placed"
    [] t \in {"new", "same"} -> "kept"
    [] OTHER -> "conflict"

FileDone(f) ==
  [run EXCEPT !.left = @ \ {f}, !.pc = IF run.left = {f} THEN "record" ELSE @]

(* _place_file: what becomes of the next file of the unit.                      *)
_place_file(f) == hardlink_or_copy(tree[run.at][f])

(* A conflict or an I/O error takes back what this attempt created.              *)
PlaceFile ==
  /\ run.pc = "place" /\ run.left # {}
  /\ LET u == run.at
         f == CHOOSE x \in run.left : TRUE
     IN  \/ /\ _place_file(f) = "placed"
            /\ tree' = [tree EXCEPT ![u][f] = "new"]
            /\ run' = [FileDone(f) EXCEPT !.placed = @ \cup {f}]
            /\ UNCHANGED <<database, placing, leftover>>
         \/ /\ _place_file(f) = "kept"
            /\ run' = FileDone(f) /\ UNCHANGED <<database, tree, placing, leftover>>
         \/ _remove_quietly_many(u, run.placed) /\ UnitFails(FALSE)
  /\ UNCHANGED <<purging, unmet, troubles>>

(* update_status, which asks for no earlier status.                              *)
update_status(status, path) == dl' = [dl EXCEPT !.status = status, !.path = path]

(* The breadcrumb; a movie's is written only if this attempt placed the file.        *)
RecordPath(always) ==
  /\ run.pc = "record"
  /\ IF always \/ run.placed # {} THEN update_status("importing", run.at) ELSE UNCHANGED dl
  /\ run' = [run EXCEPT !.pc = "scan"]
  /\ UNCHANGED <<kind, scope, want, have, lib, tree, placing, purging, unmet, leftover, troubles>>

(* trigger_scan: if it fails, the files in owns are taken back.                     *)
TriggerScan(owns, clear) ==
  /\ run.pc = "scan"
  /\ \/ /\ run' = NextUnit([run EXCEPT !.done = @ \cup {run.at}])
        /\ UNCHANGED <<database, tree, placing, leftover>>
     \/ _remove_quietly_many(run.at, owns) /\ UnitFails(clear)
  /\ UNCHANGED <<purging, unmet, troubles>>

(* A movie that an earlier attempt placed is this row's too, as its breadcrumb says: then   *)
(* what this attempt found there, identical, counts as that file, whoever wrote it.       *)
owns_placement == IF dl.path = run.at THEN run.plan[run.at] ELSE run.placed

----------------------------------------------------------------------------
(* The finalize: one transaction, opened by lock_if_active.                    *)

(* _reread_scopes_for_finalize: the seasons that a grab attached meanwhile.        *)
Planned == IF run.scoped THEN run.targets ELSE {}
_reread_scopes_for_finalize == ScopeTargets \ Planned

(* The target of a season: its rows of season_episode_states, read here.  The imported    *)
(* ones are `have`; the others, in wanted, are what the searches for single episodes      *)
(* seeded and have not retired (AutoGrab): none for a season they never touched, and       *)
(* none for a movie.                                                         *)
TargetOf(u, wanted) == IF kind = "movie" THEN {} ELSE have[u] \cup wanted[u]

(* apply_import: with no target any import completes the season; a known one may be        *)
(* smaller than the files of the season, and is completed when it is in.               *)
Complete(u, target) == target = {} \/ target \subseteq have[u] \cup run.plan[u]

(* Mutant: the scopes are not read again.                                     *)
Stale_FinalStatus(late) == IF run.fails # {} THEN "import_blocked" ELSE "imported"

FinalStatus(late) ==
  CASE run.fails # {} -> "import_blocked"
    [] late # {} -> "importing"
    [] OTHER -> "imported"

FinalScope(u) ==
  CASE u \in run.done /\ u \in Planned -> "imported"
    [] u \in run.fails /\ u \in Planned -> "import_blocked"
    [] OTHER -> scope[u]

(* A season that lacks episodes is searched again; the pack is blocklisted.       *)
ImportedWant(u, target) == IF Complete(u, target) THEN "completed" ELSE "searching"

FinalizeImport ==
  /\ run.pc = "final"
  /\ IF dl.status # "importing" THEN UNCHANGED <<database, unmet>>
     ELSE \E wanted \in [run.done -> SUBSET EpisodesOf] :
          /\ dl' = [dl EXCEPT !.status = FinalStatus(_reread_scopes_for_finalize),
                              !.path = CHOOSE u \in run.done : TRUE]
          /\ lib' = [u \in Units |-> lib[u] \/ u \in run.done]
          /\ have' = [u \in Units |-> have[u] \cup IF u \in run.done THEN run.plan[u] ELSE {}]
          /\ scope' = [u \in Units |-> FinalScope(u)]
          /\ want' = [u \in Units |-> IF u \in run.done THEN ImportedWant(u, TargetOf(u, wanted))
                                      ELSE IF u \in run.fails THEN "import_blocked" ELSE want[u]]
          /\ unmet' = [u \in Units |-> IF u \in run.done /\ Complete(u, TargetOf(u, wanted))
                                       THEN TargetOf(u, wanted) \ (have[u] \cup run.plan[u])
                                       ELSE unmet[u]]
          /\ UNCHANGED kind
  /\ Ends
  /\ UNCHANGED <<tree, purging, leftover, troubles>>

----------------------------------------------------------------------------
(* The three importers: the same steps, but for who owns a placed file and when    *)
(* a breadcrumb is written.                                                 *)

MovieValidates == Path = "_import_download_locked" /\ (ResolveContent \/ ProbeSources)
MoviePlaces ==
  /\ Path = "_import_download_locked"
  /\ PlanImport \/ ClaimImporting \/ StartUnit \/ PlaceFile \/ RecordPath(FALSE)
MovieEnds ==
  /\ Path = "_import_download_locked"
  /\ TriggerScan(owns_placement, owns_placement # {}) \/ FinalizeImport

TvValidates == Path = "_import_tv_locked" /\ (ResolveContent \/ ProbeSources)
TvPlans == Path = "_import_tv_locked" /\ PlanImport
TvPlaces ==
  Path = "_import_tv_locked" /\ (ClaimImporting \/ StartUnit \/ PlaceFile \/ RecordPath(TRUE))
TvEnds == Path = "_import_tv_locked" /\ (TriggerScan(run.placed, TRUE) \/ FinalizeImport)

TargetsValidate == Path = "_import_tv_targets_locked" /\ (ResolveContent \/ ProbeSources)
TargetsPlace ==
  /\ Path = "_import_tv_targets_locked"
  /\ PlanImport \/ ClaimImporting \/ StartUnit \/ PlaceFile \/ RecordPath(TRUE)
TargetsEnd ==
  Path = "_import_tv_targets_locked" /\ (TriggerScan(run.placed, TRUE) \/ FinalizeImport)

Import ==
  \/ run_import_cycle \/ RetryImport \/ ClientUnreachable
  \/ MovieValidates \/ MoviePlaces \/ MovieEnds
  \/ TvValidates \/ TvPlans \/ TvPlaces \/ TvEnds
  \/ TargetsValidate \/ TargetsPlace \/ TargetsEnd

----------------------------------------------------------------------------
(* Everyone else.                                                           *)

(* mark_failed and cancel_request, which both refuse an importing row.         *)
mark_failed ==
  /\ dl.status \in {"import_pending", "import_blocked", "downloading"}
  /\ Fails(dl, {u \in Units : u = First \/ scope[u] # "absent"})
  /\ UNCHANGED <<tree, placing, purging, run, unmet, leftover, troubles>>

(* The reconciler sees the payload settle.                                   *)
TransferCompletes ==
  /\ dl.status = "downloading"
  /\ dl' = [dl EXCEPT !.status = "import_pending"]
  /\ UNCHANGED <<kind, scope, want, have, lib, tree, placing, purging, run, unmet, leftover, troubles>>

(* A grab of the same torrent for one more season.                           *)
ensure_scope(u) ==
  /\ kind # "movie" /\ dl.status \notin Terminal
  /\ scope[u] = "absent" /\ want[u] = "searching"
  /\ scope' = [scope EXCEPT ![u] = "active"]
  /\ want' = [want EXCEPT ![u] = "downloading"]
  /\ UNCHANGED <<kind, dl, have, lib, tree, placing, purging, run, unmet, leftover, troubles>>

PurgeBegins(u) ==
  /\ u \in UnitsOf \ (placing \cup purging) /\ Trouble
  /\ purging' = purging \cup {u}
  /\ UNCHANGED <<database, tree, placing, run, unmet, leftover>>

PurgeEnds(u) ==
  /\ u \in purging
  /\ purging' = purging \ {u}
  /\ UNCHANGED <<database, tree, placing, run, unmet, leftover, troubles>>

(* Somebody puts a file of their own at a destination, where there was none or in place    *)
(* of what was there: identical to the download's, or another.                    *)
Intrude(u, f) ==
  /\ u \in UnitsOf /\ f \in EpisodesOf /\ Trouble
  /\ \E t \in {"same", "foreign"} \ {tree[u][f]} : tree' = [tree EXCEPT ![u][f] = t]
  /\ run' = [run EXCEPT !.swapped = IF Published(u, f) THEN @ \cup {f} ELSE @]
  /\ UNCHANGED <<database, placing, purging, unmet, leftover>>

Crash ==
  /\ Trouble
  /\ run' = Idle /\ placing' = {} /\ purging' = {}
  /\ leftover' = (leftover \/ run.pc \in {"place", "record", "scan", "final"})
  /\ UNCHANGED <<database, tree, unmet>>

Others ==
  \/ mark_failed \/ TransferCompletes
  \/ \E u \in Units : ensure_scope(u) \/ PurgeBegins(u) \/ PurgeEnds(u)
                      \/ \E f \in Files : Intrude(u, f)
  \/ Crash

Next == Import \/ Others

Spec == Init /\ [][Next]_vars

(* The loop keeps draining and an import it started goes on; purges end; the client      *)
(* is not down for ever.                                                    *)
ImportSteps ==
  \/ run_import_cycle \/ ProbeSources \/ MoviePlaces \/ MovieEnds
  \/ TvPlans \/ TvPlaces \/ TvEnds \/ TargetsPlace \/ TargetsEnd
FairSpec ==
  /\ Spec /\ WF_vars(ImportSteps) /\ SF_vars(ResolveContent)
  /\ WF_vars(\E u \in Units : PurgeEnds(u))

----------------------------------------------------------------------------
(* Properties.                                                              *)

(* What an import accounts for stays on disk, whatever later attempts roll back; and a    *)
(* season is `completed` only with its breadcrumb set, a file in, and every episode of     *)
(* the target it was measured against recorded.  An unseeded target asks for none.        *)
CompletedHasFiles ==
  \A u \in Units :
    /\ \A f \in have[u] : tree[u][f] # "none"
    /\ want[u] = "completed" => lib[u] /\ have[u] # {} /\ unmet[u] = {}

(* A download is `imported` only when every season it was asked for is: also the one      *)
(* attached while the files were being placed.                              *)
ImportedLeavesNoScope ==
  dl.status = "imported" => \A u \in Units : scope[u] \in {"absent", "imported"}

(* An import that ended in a block, with no crash and no failed removal, left none of      *)
(* its files in a unit it did not import.                                   *)
RollbackIsClean ==
  (/\ ~leftover /\ run.pc = "idle"
   /\ dl.status \in {"import_blocked", "failed"})
     => \A u \in Units : lib[u] \/ \A f \in Files : tree[u][f] # "new"

(* What an attempt publishes is whole or not there, on disk and in the rows, whatever    *)
(* the attempts before it left.                                            *)
ImportIsWhole == CompletedHasFiles /\ ImportedLeavesNoScope /\ RollbackIsClean

(* The one file of somebody else that a rollback may take: a film's, when the breadcrumb     *)
(* of an earlier attempt names the destination and the identical file found there passes    *)
(* for the one that attempt placed.                                            *)
Adopted(u, f) ==
  /\ kind = "movie" /\ dl.path = u /\ run.pc = "scan" /\ u = run.at
  /\ f \in run.plan[u] \ run.swapped /\ tree[u][f] = "same"

(* A file that the import did not create is never removed or replaced by it, also one       *)
(* that somebody put in the place of its own between the placement and the rollback.      *)
OthersFilesSurvive ==
  [][\A u \in Units, f \in Files :
       tree[u][f] \in {"same", "foreign"} /\ ~Adopted(u, f)
         => tree'[u][f] \in {"same", "foreign"}]_vars

(* What the comment at the rollback says, import_service.py:1599-1615: a file is taken back    *)
(* on proof that it is ours, "NEVER by content-match alone".  The code does not keep it      *)
(* (MCImportPipeline_adopted.cfg): a breadcrumb proves a placement, not that the identical    *)
(* file found there later is still the one placed.                              *)
NeverByContentMatchAlone ==
  [][\A u \in Units, f \in Files :
       tree[u][f] = "same" => tree'[u][f] \in {"same", "foreign"}]_vars

(* An operator's failure during the long validation is final: no later step of the         *)
(* import, which read the row before, moves it back.                        *)
FailedStays == [][dl.status = "failed" => dl'.status = "failed"]_vars

(* No row is importing for ever: crashes, outages of the probe, refusals by a purge and      *)
(* late seasons all come to a verdict.                                       *)
ImportSettles == dl.status = "importing" ~> dl.status # "importing"

=============================================================================
