# Plex Manager: TLA+ models, model checking and proofs

Plex Manager is a self-hosted request and automation service for a Plex library: a
request is searched (Prowlarr), grabbed (qBittorrent), tracked, imported into the
library, confirmed in Plex, and later evicted under disk pressure. It is one asyncio
process over SQLite, with a second container (the updater) that replaces it.
This directory models its own protocols in TLA+, checks them with TLC and proves
the central ones with TLAPS. Paths below are relative to `src/src/plex_manager/`.

## 1. Inventory

| Component | State | Operations | What is hard | What makes it correct | Module |
|---|---|---|---|---|---|
| Failure protocol (`services/queue_service.py`) | row status and `failed_reason` marker; in memory: operator claims, removal guard, token counter | `mark_failed`, `reconcile_and_list`, `heal_failed_pending_without_client` | three phases with client I/O in the middle, superseding operators, crash between any two steps | a delete never hits a re-grabbed torrent; an operator's choice governs; nothing strands | `FailureProtocol` |
| Reconciler (`domain/reconciler.py`) | status, `first_seen_at`, `added_at`, `payload_*` columns | `reconcile`, `detect_stalls`, `download_deadline`, payload hold | anchors of earlier lives, two windows, rows the reconciler does not see | grace and deadlines are honoured, stuck downloads heal | `DownloadTracking` |
| Grab (`services/grab_service.py`) | rows by unique hash, scopes and coverage claims, in-flight removals | `grab`, `_reuse_terminal_row`, attach of seasons, compensating removals | two grabs for one hash, torrent added before the row exists | seasons and downloads agree, one carrier per season, no orphan | `GrabProtocol` |
| Automatic search (`services/auto_grab_service.py`, `season_episode_service.py`) | backoff and cooldown, episode targets | grab cycle, park, airing refresh, episode fallback | budget, a target that grows, manual grabs meanwhile | no starvation, done means whole, new episodes are chased | `AutoGrab` |
| Import (`services/import_service.py`) | `importing` claim, files on disk, scopes | import cycle | long copy between two compare-and-sets, crash, purge of the same directory | files and rows agree | `ImportPipeline` |
| Availability (`services/import_service.py`) | completion generations | promotion, healing of false claims | Plex answers late and about an older state | a promotion stands on what was asked; healing strands nobody | `Availability` |
| Requests, seasons (`services/request_service.py`, `season_request_service.py`, `domain/season_rollup.py`) | request and season rows, subscribers | create and join, withdraw, cancel, roll-up | Plex is asked without the lock; racing creates | an answer is a row its caller can see and that tracks what was asked | `Requests`, `SeasonRollup` |
| Corrections (`services/correction_service.py`) | request status, guards | cancel, withdraw, report issue | races with every other actor | a cancel is final and its torrent goes | `FailureProtocol`, `Requests`, `Retention` |
| Purge, eviction (`services/purge_service.py`, `eviction_service.py`) | delete markers, placement registry, pressure lease | sweep, resume | crash around an irreversible delete | no half-deleted tree is published or forgotten; no owner's file goes | `Retention` |
| Update coordination (`services/update_coordination_service.py`) | phase, requested action, generations, leases | acquire, renew, drain, outcome, forced reset | lease expiry under running work, late and repeated outcomes | an install never overlaps critical work | `UpdateLease` |
| Updater sidecar (`updater/`) | stage file, containers | install, rollback, recover | crash between Docker calls, calls that fail with their effect | one image serves, one true outcome, every install ends | `UpdaterSwap`, `ImageSwap`, `UpdateLease` |
| Sign-in, sessions, setup (`web/routers/auth.py`, `settings.py`, `services/plex_access_service.py`) | sessions, server on file, entitlement snapshots, setup claim | sign in, replace the server, revalidate shares, capture | everything is decided on plex.tv answers that are old when they are used | no session outlives what it was granted on | `Access` |
| Watchlist (`services/watchlist_service.py`) | stored rows that protect titles | tick, clear | an outage looks like an empty configuration | rows are lost for a stated reason only | `Access` |
| Credentials and logs (`web/routers/settings.py`, `services/log_capture_service.py`) | redaction snapshot, queue, ring, table | rotate, capture, drain | a record in transit while its credential is retired | a retired credential is readable nowhere | `Secrets` |
| Live events, audit, backup, discovery, adapters, web, frontend | - | reads and I/O | - | - | - |

Interaction: the background loops (`web/app.py`) run reconcile, import, availability,
auto-grab, eviction, watchlist and share cycles; HTTP handlers run operator commands
concurrently with them on the same event loop. They meet in three
places: rows of SQLite (one writer; every contested write is a conditional
`UPDATE ... WHERE status IN (...)`), in-memory registries and locks (claims, guards,
placements, leases; changed only between awaits), and external systems, whose calls are
slow, may fail, and may have taken effect although they failed.

## 2. Modules

Throughout, a step is what happens between two awaits; a statement, or a transaction from
its first write, and the commit after it are one step, since SQLite admits one writer. A
call to an external system is a step of its own, between a read and a later write.

**FailureProtocol.** One row of `downloads` and everyone who may touch it. The code keys
everything by the download id, so one row with any number of `mark_failed` calls
is the whole protocol. `row`, `req`, `blk` are durable; `claim`, `guard`, `next` are the
in-memory registry; `call[c]` is a `mark_failed`, `rec` a cycle of `reconcile_and_list`,
`cancel` and `grab` the two that meet them. `SelfHeal` is the cycle's own call (stall
heal, payload rejection), which may neither supersede nor adopt. `failed_reason` is a
record, as `_parse_operator_fail_marker` reads it. `kept` and `wiped` are history.
Abstracted: log text, history rows, scopes, several rows per cycle. The three
Phase-C attempts are one that wins or does not. `downloading` stands for `downloading`,
`metadata_fetching` and `client_missing`, which this protocol treats alike.

**DownloadTracking.** One tracked row and its torrent over time. A timestamp is its age,
which stops one past the longest window that reads it, so time is unbounded and every
comparison is kept. A poll is one action per outcome: reject, restart, wait, inspect,
present, absent, completed; interrupted polls are actions of their own, outside the fair
ones. `failed` stands for `failed_pending` and what FailureProtocol makes of it.
`absentFor` and `cause` are history. The client may report anything that respects metadata
before files before bytes, and may vanish and return at any time.

**UpdateLease.** The coordinator row with its leases (`db`), the application's critical
work (`running`), the operator's buttons and the sidecar (`side`, `file`). Every locked
repository method is one operator from row to row; an endpoint is its opening snapshot and
its method in one step. `/claim` is two steps (`ClaimDecide` or `RecoverClaim`, then
`claim_drain`), because its decision is taken on the first and acted on in the second.
A crash, or any Docker or network failure that ends the iteration, is `SidecarCrash`. The
policy, its window and the due time of the next check are arbitrary at every poll. With
`Prompt` set, renewals by a live holder come before the lease ends, a running application
answers and a drain does not time out over work that is still there; without it none of
this is assumed.

**UpdaterSwap** and **ImageSwap.** `ImageSwap` is the promise seen from outside: one image
serves at a time or none, one outcome is reported, it names the image that serves, and that
image stays. `UpdaterSwap` is how the sidecar keeps it: containers with their names,
networks and whether they run (`docker`), the stage file (`file`), the ids the process
knows (`side`). Each Docker call and each write of a stage is a step; each call may fail
with or without its effect, and the sidecar may die between any two. The refinement mapping
is the set of images whose container works, is running and is attached, and the outcome the
coordinator recorded; `Refinement` is `ImageSwap`'s specification under it. The coordinator
answers when a container serves; its lease is `UpdateLease`'s subject.

**Retention.** One library path and the rows whose breadcrumb names it or may come to. The
sweep (`sweep`, with its lease, its crash recovery, its candidates, claim, checks, two
boundaries of the pressure lease, the delete thread, restore and finalize), a `report_issue`
(`fix`), an import that places files, and the registries `purges` and `placing`. A delete
thread leaves the tree intact, partial or gone and outlives the task that started it. `clash`
is history: two verbs have worked on one row or tree unknown to each other (section 4).

**ImportPipeline.** The import of one download: a movie, a season in the download's own
columns, or a pack whose seasons are rows of `download_scopes`. Resolving the content, the
probe with its outages, the plan, the claim, each placement with its registry, the scan, the
finalize that reads the scopes again, and the rollback, which removes by the identity a
placement returned; beside it an operator who fails or retries, a season attached late, a purge,
a crash, and somebody who puts files of their own at a destination, other ones or identical
ones. The target of a season (the rows of `season_episode_states`) is whatever it is when the
finalize reads it: unseeded, part of the episodes, or all. `unmet` and `swapped` are history: what
the target lacked when its season was completed, and where an entry was replaced after the
attempt looked at it. Blocklist rows and the reasons of a block are not in the state.

**GrabProtocol.** Two concurrent `grab` calls for one title (a show with a pack and a single,
or a film), through the pre-checks, the client, the resolution of a hash that exists, the
attach under `lock_if_active`, the conflict of a unique index and every compensating
removal; failures, a cancel with a new request, an import, a park and a crash around them. An
add that fails may have reached the client. `stray` marks the torrents that are left without a
row (section 4).

**SeasonRollup.** The fold of season statuses into the show's, as an operator on the set of
statuses, used by `GrabProtocol` and `Requests`.

**AutoGrab.** The worker's cycle over films and seasons: the passes committed together
(promotion of waiting seasons, airing refresh), the due scopes in their order, the search
budget, grabs that fail, the park, cooldowns and backoff as countdowns, and the episode
fallback against a target read from TMDB. What a search returns is arbitrary.

**Requests** and **Availability.** All rows of one title, `create_request` with its joins,
races and collapse, withdrawal with its hand-over, cancellation, and the environment that
moves statuses. `Availability` extends it with the cycle that promotes and heals. The
subscribers of a row are a set: who of those left becomes the owner when the owner withdraws,
the earliest in the code, is any of them here. A row is evicted only if it has a file.
`minted` is history: the row stands as it was created for a title found in the library.

**Secrets** and **Access.** `Secrets`: the boundary in which a credential is replaced, the log
records on their way from a thread to ring, queue, batch and table, and the recovery key with
the sessions exchanged for it. `Access` extends it: sign-in, the settings update that
replaces the server, the setup claim, the share sweep, entitlement captures in their slots,
and the watchlist tick. The `cast` of a behaviour says which actors take part in it, so
that every pair and the triples that share state are checked without the product of all.
Abstracted: one candidate per sweep tick; a token's ciphertext changes only when the token
does; creation times have the one-second resolution of SQLite's `CURRENT_TIMESTAMP`; a failed
sweep is "nothing swept"; expiry of sessions by age.

**Proof and MC modules.** Each `<Module>Proofs` holds the theorems about `<Module>` (section 5).
Two hold those of two components: `BackgroundLoopProofs` of `DownloadTracking` and `AutoGrab`,
two tasks of the background loop that share nothing here, and `ImportProofs` of `ImportPipeline`
and of `Requests` with `Availability`, which are the two halves of `services/import_service.py`.
`MC*` are the TLC instances; `Retention`, `ImportPipeline` and `UpdaterSwap` are instantiated by
their cfg alone.

## 3. Runs

| Run | Properties | Shows | States |
|---|---|---|---|
| `one_operator` | `GuardedDeleteSparesRegrab`, `RemovalIsHonest`, `PendingCompletes` | deletes spare a re-grab and a kept torrent, a recorded removal happened, a failing row is completed in the end | 0.61 M |
| `two_operators` | `GuardAccounting`, `FailureIsSettled`, `MarkerGoverns` | guard count exact, no leaked claim, terminal rows settled, the marker governs | 1.4 M |
| `tracking` | `GraceHonoured`, `HealIsHonest`, `StuckMetadataHeals`, `RejectionLands` | grace and deadlines; stuck metadata and rejections are failed in the end | 76 k |
| `update_lease` | `ReadyExcludesCritical`, `LostAnswerReplays`, `FencesHold` | a ready drain excludes critical leases, lost answers replay, fenced generations settle nothing and unknown phases are left alone | 130 k |
| `lease_live` | `DrainedBeforeStop`, `PendingFinishes`, `DrainEnds` | nothing critical runs at the stop, operations are reported, drains end | 76 k |
| `retention` | `TreeIsAccounted`, `DeleteSparesOwner`, `LeaseIsReleased` | no half-deleted tree is available or forgotten, no delete during a placement or of a twin's file; the sweep ends | 1.1 M |
| `import` | `ImportIsWhole`, `OthersFilesSurvive`, `FailedStays`, `ImportSettles` | a completed season has its files and all its target asked for, imported leaves no season out, a block leaves nothing of the attempt's behind; no file of somebody else's goes but an adopted one; every attempt comes to a verdict | 1.1 M |
| `grab` | `DownloadingIsCarried`, `TorrentsAreOwned` | seasons and downloads agree; torrents are tracked, and none is taken from its owner under the claim | 3.3 M |
| `autograb` | `ParkedIsIdle`, `DoneIsWhole`, `EagerSettles`, `MissingIsChased` | parks are idle, done is whole, no eager scope starves, later episodes are chased | 0.59 M |
| `requests` | `AnswersHold`, `JoinRevivesNothing`, `PromotionIsConfirmed`, `HealStrandsNobody` | honest answers, no join revives a cancelled row, confirmed promotions, harmless heals | 1.5 M |
| `image_swap` | `Refinement`, `InstallSettles` | `UpdaterSwap` implements `ImageSwap`; every install ends | 16 k |
| `access` | `SessionsAreCurrent`, `VerdictSparesOthers`, `SnapshotIsTrue`, `WatchlistSurvives`, `RetiredIsErased` | stale verdicts, grants, snapshots and ticks undo nothing newer; a retired credential is gone from every place when the rotation returns, from what was captured while it ran too | 2.6 M |

Invariants with several aspects are conjunctions of named parts, each with its comment in
the module. Every property of a run has a mutant of the code that violates it, in
`PROJECT.json`. Beside the runs, `MCRequests_library.cfg` and `MCImportPipeline_adopted.cfg` are
instances that end in a counterexample (section 4).

**Bounds.** `MaxToken` bounds claim registrations per process (the code's counter is
unbounded; the bound acts as one more refusal, which the code has anyway); two are a call and
the one that supersedes it. One grab and one crash suffice for re-grab during delete
and recovery from the marker alone. The operator of `one_operator` always keeps, against a
loop that always removes; those of `two_operators` have opposed flags and are symmetric, and
have no re-grab or crash. Windows of 1 to 3 ticks distinguish before, at and after each
boundary. Leases of two ticks distinguish live, last tick and expired; two generations are an
operation and the request that displaces it; three drain tokens make a fresh one available
beside the two that are remembered. `update_lease` starts from rows with unknown phases and
actions and from a busy row without anchor. `retention`: two rows (a claim and a twin), one
report, one replacement, one crash. `import`: two seasons of two episodes, one outage
retry, two troubles of any kind, among them a file put at any destination at any time (so the
library may begin empty): a crash and a file are what an adoption takes. `grab`: two seasons, a pack and a single, four events, the
pack with or without an earlier life. `autograb`: a film and a season of two episodes, the
smallest legal budget of two searches, two events. `requests`: three seasons of which two
aired, three calls, two events, two dedup-join attempts (the code has three: the second is the
retry, the third another of it), and tables that begin with a past, whose calls count as
used. `image_swap`: four faults, enough for two rounds of failed recovery. `access`: two
sign-ins, two puts or sweeps, one change of the world, two seconds, two log records, a
queue of one. Deadlock is not checked where the bounds stop every actor.

**Fairness.** `FailureProtocol`: tasks of the event loop run on (weak fairness of each call and
of the cycle); a client poll, a Phase-A commit and a Phase-C commit that are tried again and
again succeed in the end (strong fairness), because the loop repeats them every cycle
whatever happened before. Operators, cancels, grabs and crashes owe nothing.
`DownloadTracking`: the loop polls on and time passes; interrupted polls may happen any
number of times but not for ever.
`UpdateLease`: time passes, the sidecar's loop runs on (`while True` with a sleep), bodies
and preflights end; what the loop repeats until it succeeds (seeing a drain ready, a clone
healthy and still healthy, an outcome heard) succeeds in the end. Crashes,
operators and renewals owe nothing; the policy of the liveness run lets the sidecar drain.
`Retention`: the sweep's own steps go on (its task and its thread are scheduled), nothing
else. `ImportPipeline`: the import's steps go on and its cycle comes round; a content path
that is looked up again and again is answered; a purge ends. `AutoGrab`: the worker's loop
runs. `UpdaterSwap`: the sidecar's container is restarted and its loop goes on; its faults
are bounded. `GrabProtocol`, `Requests` and `Access` are checked for safety only.

## 4. Observations

What the models showed that a reader of the code should know. The properties of the passing
runs are stated so that they hold of the code; here is what lies outside them.

*Comments the code does not keep.*
* `queue_service.py:84` says an older call cannot clobber a newer call's marker. A superseded
  call whose fresh stamp loses re-reads the row (line 2394) and adopts whatever reason it
  finds, without asking whether it still owns the claim.
* `queue_service.py:1989` says anything after the bar is refused. The guard refuses new claims
  only: once the newer call has raised and released the claim, the older one's remove=no
  can land between the re-proof and the delete. `AutomaticDeleteSparesKept`, a part of
  `RemovalIsHonest`, therefore holds with one operator and not with two.
* `reconciler.py:118` says a stale grace anchor is cleared when the torrent is back. A row whose
  payload is held is out of the reconciler's sight (`queue_service.py:1613`), keeps its anchor
  and fails on the first later absence; and since it stays `client_missing`,
  `detect_stalls` (`reconciler.py:369`) never heals it, against `queue_service.py:1578`.
  `GraceHonoured` and `StuckMetadataHeals` are stated for the other rows.
* The repository's README (line 186) says only **Update when ready** bypasses the schedule.
  `claim_drain` (`repositories/update_coordination.py:610`) queues the install an automatic
  claim stands for; if the drain times out, the next poll hands it out outside the window.
* `request_service.py:423` says that every TV join reads the row again under the lock, since
  blindly written seasons would resurrect a row that was settled meanwhile. Two sites do not: a
  call that found the show in the library (lines 1240-1252), and one that gave way to an
  earlier available row, let the lock go, ask Plex and write. If that row is armed again by
  other calls and cancelled in between, the call brings it back. `NoResurrection` says that
  it never happens; `tlc -config MCRequests_library.cfg MCRequests` (a show the library has,
  three aired seasons, three calls that join it and the operator's) finds it violated.
  `JoinRevivesNothing` is what is left when these two writes (`GrowsUnread`) are set apart.
* `import_service.py:1599-1615` says that a rollback removes only what this download placed,
  "NEVER by content-match alone". Of a film it can be a file of somebody else's: the breadcrumb of
  an earlier attempt proves a placement, not that the file found now is the one placed. The
  resumed attempt meets an identical file, gets that file's identity from `hardlink_or_copy`
  (`local.py:768`), and a failed scan removes it. `NeverByContentMatchAlone` says what the comment
  says; `tlc -config MCImportPipeline_adopted.cfg ImportPipeline` (a film, a crash, an identical
  file) finds it violated. `OthersFilesSurvive` is about every file but such a one (`Adopted`).
* A season is completed by any import while its target is unseeded
  (`season_episode_service.py:147`; `import_service.py:2680` calls that the common case), and by
  the episodes of a target that is behind. Completed therefore means that the target, as it was
  when the import finalized, is on disk: `CompletedHasFiles` says this and no more. What makes the
  season whole in the end is the chase after later episodes (`MissingIsChased`).
* `request_service.py`, `_collapse_available_race`, speaks of the earlier winner but tests only
  that the winner is another row.
* `auto_grab_service.py` (about line 655) takes a season's completion for covered; a
  completion between the cycle's read and its write escapes it.
* `plex_access_service.py` (about line 1180) says the session of a sign-in with the same token
  survives an older verdict; the ciphertext does not change then, and creation times have
  seconds only, so a session of the same second is cut.
* `retry_count` of an import is documented as consecutive and is not reset by a probe
  that succeeds.

*Races with a small window.*
* `grab_service.py:587` removes a torrent it added without the in-flight claim; another grab
  may have come to own it. `ClaimedRemovalSparesOwner` is about the claimed removal only.
* A conflict whose other row became terminal, a torrent added without a known hash, an add whose
  answer was lost (`adapters/qbittorrent/adapter.py:1249`: nothing looks the hash up after), a
  crash and a failed removal each leave a torrent untracked (`stray`).
* `report_issue` on a row the sweep has claimed: `_restore_after_failed_delete` disarms the
  marker unconditionally (`eviction_service.py`, about lines 1226 and 3045). And a recovery
  that retries a delete does not count a dead twin's unmarked breadcrumb as a claim
  (`requests.py`, `other_row_claims_path`), though the same pass may yet restore that twin. A
  retry that starts beside such a twin, and a report that lands on a row the sweep claimed, set
  `clash`, on which the parts of `TreeIsAccounted` and `DeleteSparesOwner` are conditioned.
* A heal can delete a row that a call has just created if Plex answers within the one query
  between the insert and the collapse; `present_ids` assumes it does not. An exhausted dedup
  join may answer with a row that was deleted meanwhile.
* A log record captured before a rotation begins, quoting a short value, and delivered after
  its sweep stays readable, as does a record captured after it (a late log of a value already
  retired). `RetiredIsErased` is about the others: what the sweep finds, and what was captured
  while the rotation ran, whenever it arrives.
* `DrainedBeforeStop` needs prompt renewals: a body whose renewals fail past its lease is
  only cancelled at its next attempt. A `checking` phase left by a sidecar that died is ended
  by the operator's reset alone.
* Two ends of an install are not settled (`StillRuns`, `Stranded`): both stops of the old
  container failed, the second one suppressed, and its removal is refused for ever; and a
  clone that was healthy, was removed, and whose record failed, since `rollback_healthy`
  is not a stage that is rolled back without a coordinator.
* A search that raises aborts the cycle; under a steady overload of eager scopes, cooled
  scopes wait.

## 5. Proofs

All for arbitrary constants, from the named assumptions of the modules only: sets of the right
kind, bounds that are naturals, a first row or unit, at least one file per unit
(`ImportUnitsAssumption`), windows that are not empty, names of actors that are nobody else's
(`HoldersAssumption`, `SignersAssumption`), the two accounts of the scenes
(`AccountsAssumption`), and asks and first tables a title can have (`RequestsAssumption`,
`PastsAssumption`: an owner takes part in his row, as migration `7f4a2c91d8e3` sees to; a
cancelled row's seasons are cancelled; a film's status is its one scope's). Four theorems have a
hypothesis, one that their run satisfies: `StopsAfterDrain` prompt renewals (`Prompt`),
`RemovalAlwaysHonest` at most one operator, `SessionsCurrent` `LegacyIsSettled` and
`SnapshotTrue` `OneEndMoves` (below; TLC evaluates these two as `ScenesAssumption` of
`MCAccess`). `Inv` below is the conjunction each proof module calls so; it was checked by TLC on
the instance of the run before it was proved, and every proof has one lemma per action or group
of actions.

**FailureProtocol.** `TypeCorrect`; `GuardExact` (`GuardAccounting`); `RegrabSafe`
(`GuardedDeleteSparesRegrab`). The safety invariant is not inductive: that the row is still
failed while the cycle deletes follows from the guard refusing every re-grab, which needs the
count to be right; from the re-proof having seen exactly `failed_pending`; and from the fact
that nobody leaves `failed_pending` or `failed` for a live status but the grab. `RegrabInv` is
the conjunction. `NothingHalfDone` (`FailureIsSettled`) adds `SettledInv`: what each phase of a
call and of the cycle knows of the row, that a heal waits for its Phase A, that a claim has an
owner still running, and that a row without marker is one whose blocklist entry and re-arm are
recorded. `MarkerRules` (`MarkerGoverns`) follows from the same invariant.
`DoneIsRemoved` (`DoneMeansRemoved`, for any operators) needs two more layers. `ClaimInv`: the
tokens of the calls past their registration differ, a call that deletes owns the claim and
bars the next one, and the cycle guards only an unclaimed row. `RemovedInv`: whoever is about to
record a removal has made it; two calls cannot take each other's marker for their own, because
their tokens differ; and no grab re-owns the row before the record. `RemovalAlwaysHonest`
(`RemovalIsHonest`) adds `SoleInv` under its hypothesis: an operator's call past its
registration owns the claim, so while the cycle or its own mark_failed deletes, the one operator
is at most registering and the row says what the re-proof or the stamp saw. With two operators
that is false, and so is the property (section 4).

**DownloadTracking.** `TrackingTypeCorrect`; `NoStaleAnchor` (`AnchorMeansMissing`: only a
missing row, or one that failed for it, carries a grace anchor) and `GraceIsHonoured`
(`GraceHonoured`): from `AnchorCovered`, an inspected missing row's anchor is never older than
the run of absent polls it stands in. `HealAlwaysHonest` (`HealIsHonest`): the three clauses of
`detect_stalls` against the one deadline the queue shows, where the row's status must agree with
the report for the heal to be asked at all.

**UpdateLease.** `LeaseTypeCorrect`; `ReadyIsExclusive` (`ReadyExcludesCritical`), with or
without prompt renewals. Almost every transaction `Eases` the row: it adds neither a drain nor a
critical lease. The four that do not are the argument: `acquire_critical` adds a lease only
where no drain is left after the sweep, a renewal only where there was one, a claim grants a
token nobody has written down, and `Prepare` writes down only the token it was told is ready.
`ReplayNeverLost` (`LostAnswerReplays`) and `FencesAlways` (`FencesHold`) need `OutcomeInv`: what
the sidecar remembers and what its file says belong to the row's generation or to an older one,
and a row with an unknown phase has no anchor. `StopsAfterDrain` (`DrainedBeforeStop`) needs
`StopInv`: a running body has a lease with time left, and an install or a rollback about to stop
the container holds a drain with time left.

**UpdaterSwap.** `SwapImplementsPromise` (`Refinement`): the initial states map to initial
states of `ImageSwap`, and every step of the sidecar, fault and restart included, to a step or a
stutter. The mapping is a step simulation only under `Inv`: one container runs or none does, the
stage in the journal agrees with which one that is, and an outcome that was told is final.

**GrabProtocol.** `CarriedExactly` (`DownloadingIsCarried`) and `OwnedAlways`
(`TorrentsAreOwned`), for any seasons and torrents. `Inv`: what a season row says of its
download and the download of its seasons, at most one live request, what each grab knows
between its awaits (`CallsFit`), the in-flight count, and that a torrent without a row belongs
to a grab that will track or remove it, or is a documented `stray`.

**ImportPipeline.** `ImportAlwaysWhole` (`ImportIsWhole`), `FailureIsFinal` (`FailedStays`) and
`OthersFilesKept` (`OthersFilesSurvive`), for any units, files and kinds. `Inv`: the units of an
attempt are done, failed or still to do, and only one of these; the rows, the records and the disk
agree on each; nothing lies on disk that the attempt would not take back; and (`Traced`) where
nobody replaced an entry since, what the attempt created is this download's file and what it
accepted is identical. A rollback that takes back what was accepted takes it by its identity, so
from a film with a breadcrumb only: `RemovalSpares` leaves the `Adopted` file as the one exception.

**Retention.** `TreeAlwaysAccounted` (`TreeIsAccounted`) and `OwnerIsSpared`
(`DeleteSparesOwner`), for any number of rows, reports, replacements and crashes. `Inv` has two
parts. `Registered` always holds: the reference counts of the path registry are exactly what the
phases of sweep, correction and import hold, a thread belongs to a caller that waits for it, and
a delete that was admitted finds no placement. Without a `clash`, `TreeFits` holds: at most one
row names the tree without a marker, and then the tree is whole; and this is what a claim, a
recovery item, a correction and an import may rely on after each await. The proof is also why
`clash` is as narrow as it is: an eviction beside a dead twin needs no exception.

**Access.** Five theorems, over any records, accounts, sign-ins, exchanges, credentials and
scenes. None of the properties is inductive, and each needs another part of what the others know.
* `RetiredErased` (`RetiredIsErased`). `HoldInv`: whoever is inside the boundary holds its lock,
  and a rotation its own lock as well. `LogInv`: while somebody is inside, no batch is under way,
  and between a commit and its sweep every stored record with an old secret is masked
  already. Without the second part the sweep, which looks at ring and table once, would miss a record
  that was in a batch; it is what `_rewrite_before_secret_replacement` is for. A record captured
  while the rotation runs may arrive after the sweep: `HandlerOK` (the retiring values are in the
  handler's snapshot) and `Caught` (such a record is masked) are the theorem's second half.
* `SessionsCurrent` (`SessionsAreCurrent`). `KeyInv`: an exchange past its check holds the key on
  file, under the rotation lock. `GrantInv`: live sessions match the configured server, and so does
  what a sign-in of the present `plex_identity_generation` is about to write, unless a
  repoint has committed and not yet raised the generation; its sessions are then cut by the same
  step. `PutInv`: the settings update writes only an end it has looked at. The hypothesis
  `LegacyIsSettled` excludes an installation without an anchor whose address changes hands
  before `_backfill_missing_plex_anchor`: until then the address alone says which server it is,
  and TLC shows the property violated.
* `WatchlistSafe` (`WatchlistSurvives`), from the conditions the statements themselves carry.
* `VerdictSafe` (`VerdictSparesOthers`). `TokenInv` (`Behind`): whoever read the row holds an
  earlier ciphertext or the row's own token; `GuardInv`: so does the second look, which is why
  a verdict conditioned on the ciphertext is conditioned on the token.
* `SnapshotTrue` (`SnapshotIsTrue`) adds `WhenInv`, that a read not yet stored has a time of its
  own, and what the readers know of the server: `StaticInv` where servers stay, `FixedInv` where
  the settings do. The hypothesis `OneEndMoves` says that a scene with a reader has one or
  the other. With both, TLC finds a snapshot of a server that was moved away and back under
  two answers of one read; `_anchor_confirmed` says as much (`plex_access_service.py:1672`,
  "Separate responses are not atomic identity proof").

**AutoGrab.** `ParkSafe` (`ParkedIsIdle`): a park and a grab are each conditioned on what they
would contradict. `DoneAlwaysWhole` (`DoneIsWhole`) needs `TargetInv`: every episode of the last
target taken note of has a row, and a season waiting for its announcement has no target;
`QueueInv`: nothing in the worker's queue waits so, though the queue is older than the status;
and `StageInv`: from the refresh to the write the worker holds the very target it committed.
The queue is any sorted sequence of the due scopes; that the order is total, so that there is
one, is seen by TLC only.

**Requests and Availability.** `AnswersHeld` (`AnswersHold`), `NothingRevived`
(`JoinRevivesNothing`), `PromotionConfirmed` (`PromotionIsConfirmed`) and `NobodyStranded`
(`HealStrandsNobody`), for any users, seasons, asks, first tables and bounds, on top of
`ServiceHolds`: `ServiceOK` is invariant. Its parts:
* `TableOK`: every row has its columns, they agree with each other, and its owner takes part.
* `CallsOK`: a user's call in flight that is to write its row takes part in it, unless it is gone
  (`Seated`). A call that created an available row finds it as it left it (`Racing`), no other
  call watches it (`Apart`), and of all the rows created so only the first may have lost the
  call that would give it up (`FirstStands`), which is why racing answers leave one row.
* `TickOK`: the cycle is sure only of completions it read when it began; what it may heal is gone
  or still an available film without a file, which no call is about to give up; and the rows it
  may give them to are others and have files. What it read is old by then: the invariant says
  which part of it no other step makes false. That no call is about to give up such a row
  rests on `present_ids` (section 4).
* `AnswerIsHonest`, for the answer of the step just taken.

Every step, of a call, a withdrawal, a download, the sweep, Plex or the cycle, moves each row in
one of two ways (`RowMoves`). It remains: it loses no file unnoticed and no participant but by
withdrawal, is revived by the two unread writes only, and is promoted only for a completion
the tick read. Or it gives way, to the collapse or the heal. The four properties are read
off from that, `HealStrandsNobody` with one look at each write of the cycle.

Only model-checked:
* liveness (`PendingCompletes`, `StuckMetadataHeals`, `RejectionLands`, `PendingFinishes`,
  `DrainEnds`, `LeaseIsReleased`, `ImportSettles`, `EagerSettles`, `MissingIsChased`,
  `InstallSettles`): fairness and ENABLED are out of the prover's reach.

`NoResurrection` is false of the code (section 4). That the order of `AutoGrab`'s queue is
total is seen on its run only.

No module uses a RECURSIVE operator.

## 6. Not modelled

* The decision engine's scoring, release parsing and quality rules (`domain/`): pure
  functions of text; what they accept is an arbitrary choice in `AutoGrab` and `GrabProtocol`.
* The update calendar (`domain/update_schedule.py`): arbitrary at every poll.
* The ranking of eviction candidates and disk telemetry: any candidate may come first.
* Start-up, shutdown and migration; audit rows, backup rotation, live events, discovery: no
  decision of a modelled component reads what they write.
* Adapters, encryption, schemas and the frontend: I/O, conversion and presentation; what the
  services rely on is an external client, library, file system or clock in each module.
* `AutoGrab`: several titles sharing a show, the rotation of the airing refresh, time within
  a cycle. `Access`: session expiry, the wizard's probes, the budget of the share sweep.
