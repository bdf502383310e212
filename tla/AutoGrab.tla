------------------------------ MODULE AutoGrab ------------------------------
(***************************************************************************)
(* The automatic search worker (services/auto_grab_service.py): a cycle takes   *)
(* the scopes (films, seasons) that are due, most overdue first, and spends a    *)
(* budget of indexer searches on them.  A season without an acceptable pack is   *)
(* collected episode by episode, against a target read from TMDB                *)
(* (services/season_episode_service.py).                                     *)
(*                                                                         *)
(* Next to the worker, and between any two of its awaits: an operator grabs or   *)
(* cancels, downloads fail or are imported, TMDB announces and retracts episodes, *)
(* and the process restarts.  Time passes between cycles: a countdown step is the *)
(* worker's sleep.                                                          *)
(***************************************************************************)
EXTENDS Integers, Sequences, FiniteSets

CONSTANTS Movies, Seasons,  \* numbers; a movie's is below a season's, as in the sort
          Episodes,
          MaxSearches,      \* auto_grab_max_searches_per_cycle
          BACKOFF_SCHEDULE, COOLDOWN_SCHEDULE, \* ladders, in sleeps of the worker
          MaxOverdue,       \* bound: how long a parked scope may be overdue
          MaxEvents         \* bound: calls of the operator, failures, outages, crashes
                            \* and changes at TMDB, all together

ASSUME AutoGrabAssumption ==
  /\ Movies \subseteq Nat /\ Seasons \subseteq Nat /\ Movies \cap Seasons = {}
  /\ IsFiniteSet(Movies) /\ IsFiniteSet(Seasons)
  /\ MaxSearches \in Nat \ {0, 1}  \* settings_bounds.AUTO_GRAB_MAX_SEARCHES_PER_CYCLE_MIN
  /\ MaxOverdue \in Nat /\ MaxEvents \in Nat

Scopes == Movies \cup Seasons

(* `searching` stands for pending too: both are eager.  `completed` stands for    *)
(* available too: reconcile_airing re-arms either.                            *)
DUE_SEARCH_STATUSES == {"searching", "no_acceptable_release"}
Pack == {}  \* a release is the set of episodes its name lists: a pack, or a film, none

VARIABLES
  status, search_attempts, \* by scope (durable); attempts past the ladder count as its last
  next_search_at, \* a countdown (durable); 0 unless parked: no one reads it else
  download,   \* the active download: <<>>, or a record of what it covers (durable)
  episode,    \* season_episode_states (durable): "dead" is a row grabbed by a
              \* download that has failed since
  packed,     \* episodes aired before the latest imported pack was grabbed (durable)
  requested,  \* the episodes a request names, {} for the whole season (durable)
  aired,      \* what TMDB says
  cooldowns,  \* the registry: failures and a countdown (memory); 0 failures: absent
  cycle,      \* the worker
  known,      \* history: the target the last refresh found
  owned,      \* history: the episodes in the library
  excused,    \* history: seasons the code takes to be whole without having looked
  events

durable == <<status, search_attempts, next_search_at, download, episode, packed, requested>>
searchVars == <<durable, aired, cooldowns, cycle, known, owned, excused, events>>

Eager(s) == status[s] = "searching"
None == <<>>
Idle(s) == download[s] = None
NoFailures == [failures |-> 0, left |-> 0]
Rows(s) == {e \in Episodes : episode[s][e] # "none"}
In(s, state) == {e \in Episodes : episode[s][e] = state}
Imported(s) == In(s, "imported")
Whole(s) == s \in Seasons /\ requested[s] = {}
Asleep == [pc |-> "asleep"]

First == CHOOSE e \in Episodes : TRUE

(* A season is wanted, waits for TMDB to announce it, or was watchable before its *)
(* episodes were tracked.                                                     *)
SearchInit ==
  /\ \E begin \in [Seasons -> {"searching", "waiting_for_air_date", "completed"}] :
       /\ status = [s \in Scopes |-> IF s \in Seasons THEN begin[s] ELSE "searching"]
       /\ \E x \in [Seasons -> SUBSET Episodes] :
            /\ aired = [s \in Seasons |-> IF begin[s] = "waiting_for_air_date" THEN {} ELSE x[s]]
            /\ owned = [s \in Seasons |-> IF begin[s] = "searching" THEN {} ELSE x[s]]
            /\ \A s \in Seasons, e \in Episodes : x[s] \in {{}, {e}} => x[s] \subseteq {First}
       /\ requested \in [Seasons -> {{}, {First}}]
       /\ \A s \in Seasons : begin[s] = "completed" => requested[s] = {}
  /\ search_attempts = [s \in Scopes |-> 0]
  /\ next_search_at = [s \in Scopes |-> 0]
  /\ download = [s \in Scopes |-> None]
  /\ episode = [s \in Seasons |-> [e \in Episodes |-> "none"]]
  /\ packed = [s \in Seasons |-> {}]
  /\ cooldowns = [s \in Scopes |-> NoFailures]
  /\ cycle = Asleep
  /\ known = [s \in Seasons |-> {}]
  /\ excused = {}
  /\ events = 0

Event == events < MaxEvents /\ events' = events + 1

(***************************************************************************)
(* What is due, and in which order                                          *)
(***************************************************************************)
Rung(ladder, n) == ladder[IF n < Len(ladder) THEN n + 1 ELSE Len(ladder)]
cooldown_delay(prior) == Rung(COOLDOWN_SCHEDULE, prior)
backoff_delay(prior) == Rung(BACKOFF_SCHEDULE, prior)

list_due_for_search ==
  {s \in Scopes : Eager(s) \/ (status[s] = "no_acceptable_release" /\ next_search_at[s] <= 0)}

_due_sort_key(s) == IF Eager(s) THEN -(MaxOverdue + 1) ELSE next_search_at[s]

Before(s, t) ==
  LET key(x) == <<IF cooldowns[x].failures > 0 THEN 1 ELSE 0, _due_sort_key(x), x>>
      a == key(s)  b == key(t)
  IN \E i \in 1..3 : a[i] < b[i] /\ \A j \in 1..(i - 1) : a[j] = b[j]

(* The queue: every due scope once, in that order, which is total, so there is one.  *)
(* Scopes under an active purge are left out of the cycle.                      *)
_collect_due_scopes(purged) ==
  LET due == list_due_for_search \ purged
      places == 1..Cardinality(due)
      read(s) == [scope |-> s, status |-> status[s], attempts |-> search_attempts[s]]
  IN {[i \in places |-> read(sorted[i])] : sorted \in
        {x \in [places -> due] : \A i, j \in places : i < j => Before(x[i], x[j])}}

(***************************************************************************)
(* The passes before the searches, committed together                        *)
(***************************************************************************)
(* Rows for what aired; a row that is still pending and has been retracted goes.   *)
upsert_target(s, target) ==
  [e \in Episodes |->
     CASE e \in target /\ episode[s][e] = "none" -> "pending"
       [] e \notin target /\ episode[s][e] = "pending" -> "none"
       [] OTHER -> episode[s][e]]

(* Mutant: an episode with a row counts as collected.                            *)
Seeded_reconcile_airing(s) ==
  LET rows == upsert_target(s, aired[s])
  IN [rows |-> rows, adopted |-> {}, missing |-> {e \in aired[s] : rows[e] = "none"}]

(* A watchable season gets its aired target as what it owns when it has no rows;   *)
(* else the episodes an imported pack must hold.  What is then still missing        *)
(* re-arms it.                                                                 *)
reconcile_airing(s) ==
  LET rows == upsert_target(s, aired[s])
      adopted == {e \in Episodes : rows[e] = "pending"} \cap
                 (IF Rows(s) = {} THEN Episodes ELSE aired[s] \cap packed[s])
  IN [rows |-> [e \in Episodes |-> IF e \in adopted THEN "imported" ELSE rows[e]],
      adopted |-> adopted,
      missing |-> aired[s] \ (Imported(s) \cup adopted)]

(* Plex may hold some of a season that was not announced yet: enough, unless the    *)
(* request names episodes.                                                      *)
wake_waiting_for_air_date(s) ==
  IF owned[s] # {} /\ requested[s] = {} THEN "completed" ELSE "searching"

(* TMDB answers for some of the seasons.                                         *)
Prepare ==
  \E answered \in SUBSET Seasons :
    LET checked == {s \in answered : status[s] = "completed" /\ Whole(s)}
        woken == {s \in answered : status[s] = "waiting_for_air_date" /\ aired[s] # {}}
        rearmed == {s \in checked : reconcile_airing(s).missing # {}}
    IN
    /\ cycle.pc = "asleep"
    /\ IF answered = Seasons THEN UNCHANGED events ELSE Event
    /\ status' = [s \in Scopes |-> CASE s \in rearmed -> "searching"
                                     [] s \in woken -> wake_waiting_for_air_date(s)
                                     [] OTHER -> status[s]]
    /\ search_attempts' = [s \in Scopes |-> IF s \in rearmed THEN 0 ELSE search_attempts[s]]
    /\ next_search_at' = [s \in Scopes |-> IF s \in rearmed THEN 0 ELSE next_search_at[s]]
    /\ episode' = [s \in Seasons |-> IF s \in checked THEN reconcile_airing(s).rows
                                     ELSE episode[s]]
    /\ known' = [s \in Seasons |-> IF s \in checked THEN aired[s] ELSE known[s]]
    /\ excused' = excused \cup {s \in checked : ~(reconcile_airing(s).adopted \subseteq owned[s])}
    /\ cycle' = [pc |-> "collect", searched |-> 0, todo |-> <<>>, target |-> {}]
    /\ UNCHANGED <<download, packed, requested, aired, cooldowns, owned>>

(***************************************************************************)
(* The cycle                                                               *)
(***************************************************************************)
Worker(pc) == cycle.pc = pc /\ UNCHANGED <<aired, owned, packed, requested>>
history == <<known, excused>>
Cur == cycle.todo[1]
S == Cur.scope
Goto(pc) == cycle' = [cycle EXCEPT !.pc = pc]
Done == cycle' = [cycle EXCEPT !.pc = "scope", !.todo = Tail(@)]
Cleared == cooldowns' = [cooldowns EXCEPT ![S] = NoFailures]

Collect ==
  /\ Worker("collect")
  /\ \E purged \in SUBSET Scopes :
       /\ IF purged = {} THEN UNCHANGED events ELSE Event
       /\ \E due \in _collect_due_scopes(purged) :
            cycle' = [cycle EXCEPT !.pc = "scope", !.todo = due]
  /\ UNCHANGED <<status, search_attempts, next_search_at, download, episode, cooldowns, history>>

(* The cycle is over, or a search raised; the worker sleeps.  A parked scope at the  *)
(* bound of MaxOverdue holds time back.                                          *)
Slept ==
  LET parked == {s \in Scopes : status[s] = "no_acceptable_release"}
  IN
  /\ cycle' = Asleep
  /\ IF \E s \in parked : next_search_at[s] = -MaxOverdue THEN UNCHANGED <<next_search_at, cooldowns>>
     ELSE /\ next_search_at' = [s \in Scopes |-> IF s \in parked THEN next_search_at[s] - 1 ELSE 0]
          /\ cooldowns' = [s \in Scopes |-> [cooldowns[s] EXCEPT !.left = IF @ > 0 THEN @ - 1 ELSE 0]]

Sleep ==
  /\ Worker("scope")
  /\ cycle.todo = <<>> \/ cycle.searched >= MaxSearches
  /\ Slept
  /\ UNCHANGED <<status, search_attempts, download, episode, history, events>>

Next_scope == Worker("scope") /\ cycle.todo # <<>> /\ cycle.searched < MaxSearches

SkipCooling ==
  /\ Next_scope /\ cooldowns[S].left > 0
  /\ Done
  /\ UNCHANGED <<status, search_attempts, next_search_at, download, episode, cooldowns, history,
                 events>>

SkipActive ==
  /\ Next_scope /\ cooldowns[S].left = 0 /\ ~Idle(S)
  /\ Cleared /\ Done
  /\ UNCHANGED <<status, search_attempts, next_search_at, download, episode, history, events>>

(* Which releases a search may come back with, the gates of decide applied.       *)
preview(s, r) == IF s \in Movies \/ requested[s] = {} THEN r = Pack
                 ELSE r = Pack \/ requested[s] \subseteq r
preview_episode_fallback(missing, r) == r # Pack /\ r \subseteq missing

Search ==
  /\ Next_scope /\ cooldowns[S].left = 0 /\ Idle(S)
  /\ \E found \in {{r} : r \in {x \in SUBSET Episodes : preview(S, x)}} \cup {{}} :
       cycle' = [cycle EXCEPT !.searched = @ + 1, !.target = found,
                   !.pc = CASE found # {} -> "grab"
                            [] found = {} /\ Whole(S) -> "target"
                            [] found = {} /\ ~Whole(S) -> "park"]
  /\ UNCHANGED <<status, search_attempts, next_search_at, download, episode, cooldowns, history,
                 events>>

(* Prowlarr is down or refuses: nothing is parked, the cycle ends.                *)
SearchRaises ==
  /\ \/ Next_scope /\ cooldowns[S].left = 0 /\ Idle(S)
     \/ Worker("fallback")
  /\ Slept /\ Event
  /\ UNCHANGED <<status, search_attempts, download, episode, history>>

(* The guards of grab_service.grab: nothing active, and the scope as it was read. *)
Grabbable == Idle(S) /\ status[S] \in DUE_SEARCH_STATUSES /\ (S \in Seasons => status[S] = Cur.status)

Grabbed(r, pc) ==
  /\ Grabbable
  /\ download' = [download EXCEPT ![S] =
       [episodes |-> r, seen |-> IF S \in Seasons THEN aired[S] ELSE {}]]
  /\ status' = [status EXCEPT ![S] = "downloading"]
  /\ cycle' = IF pc = "mark" THEN [cycle EXCEPT !.pc = pc, !.target = r]
              ELSE [cycle EXCEPT !.pc = "scope", !.todo = Tail(@)]
  /\ next_search_at' = [next_search_at EXCEPT ![S] = 0]
  /\ Cleared
  /\ UNCHANGED <<search_attempts, episode, history, events>>

(* AlreadyDownloading, RequestNotActive; or a removal of the torrent is in flight. *)
Refused ==
  /\ Cleared /\ Done
  /\ IF Grabbable THEN Event ELSE UNCHANGED events
  /\ UNCHANGED <<status, search_attempts, next_search_at, download, episode, history>>

(* Mutant: the scope is tried again in the next cycle.                           *)
Uncooled_GrabFails ==
  /\ Done
  /\ UNCHANGED <<status, search_attempts, next_search_at, download, episode, cooldowns, history,
                 events>>

(* GrabError: the scope cools, and is not parked.                               *)
GrabFails ==
  /\ cooldowns' = [cooldowns EXCEPT ![S] =
       [failures |-> IF @.failures < Len(COOLDOWN_SCHEDULE) THEN @.failures + 1 ELSE @.failures,
        left |-> cooldown_delay(@.failures)]]
  /\ Done
  /\ UNCHANGED <<status, search_attempts, next_search_at, download, episode, history, events>>

(* Every release that was tried could not be used: no fallback, there was a pack.   *)
Unusable ==
  /\ Goto("park")
  /\ UNCHANGED <<status, search_attempts, next_search_at, download, episode, cooldowns, history,
                 events>>

Grab ==
  /\ Worker("grab")
  /\ (\E r \in cycle.target : Grabbed(r, "scope")) \/ Refused \/ GrabFails \/ Unusable

(***************************************************************************)
(* The episode fallback of a whole season                                    *)
(***************************************************************************)
(* Mutant: the target is not committed, and goes with the first rollback.          *)
Uncommitted_RefreshTarget ==
  /\ Worker("target")
  /\ known' = [known EXCEPT ![S] = aired[S]]
  /\ cycle' = [cycle EXCEPT !.pc = "missing", !.target = aired[S]]
  /\ UNCHANGED <<status, search_attempts, next_search_at, download, episode, cooldowns, excused,
                 events>>

(* refresh_target, committed before any candidate is tried.                    *)
RefreshTarget ==
  /\ Worker("target")
  /\ \/ /\ episode' = [episode EXCEPT ![S] = upsert_target(S, aired[S])]
        /\ known' = [known EXCEPT ![S] = aired[S]]
        /\ cycle' = [cycle EXCEPT !.pc = "missing", !.target = aired[S]]
        /\ UNCHANGED excused
     \/ Goto("park") /\ UNCHANGED <<episode, history>>
  /\ UNCHANGED <<status, search_attempts, next_search_at, download, cooldowns, events>>

compute_missing(s, target) ==
  target \ (Imported(s) \cup CASE Idle(s) -> {}
                               [] ~Idle(s) /\ download[s].episodes = Pack -> target
                               [] OTHER -> download[s].episodes)

_attempt_episode_fallback ==
  /\ Worker("missing")
  /\ LET missing == compute_missing(S, cycle.target)
     IN CASE missing = {} /\ cycle.target = {} -> Goto("park")
          [] missing = {} /\ cycle.target # {} -> Goto("recheck")
          [] missing # {} /\ cycle.searched >= MaxSearches -> Done
          [] OTHER ->
               cycle' = [cycle EXCEPT !.pc = "fallback", !.target = missing]
  /\ UNCHANGED <<status, search_attempts, next_search_at, download, episode, cooldowns, history,
                 events>>

(* The whole target is imported, it seems: is something downloading?            *)
RecheckActive ==
  /\ Worker("recheck")
  /\ Goto(IF Idle(S) THEN "complete" ELSE "park")
  /\ UNCHANGED <<status, search_attempts, next_search_at, download, episode, cooldowns, history,
                 events>>

mark_completed_if_in ==
  LET wins == status[S] \in DUE_SEARCH_STATUSES /\ Idle(S)
  IN
  /\ Worker("complete")
  /\ status' = IF wins THEN [status EXCEPT ![S] = "completed"] ELSE status
  /\ next_search_at' = IF wins THEN [next_search_at EXCEPT ![S] = 0] ELSE next_search_at
  /\ excused' = IF wins /\ ~(cycle.target \subseteq Imported(S)) THEN excused \cup {S} ELSE excused
  /\ IF wins THEN Cleared ELSE UNCHANGED cooldowns
  /\ Done
  /\ UNCHANGED <<search_attempts, download, episode, known, events>>

FallbackSearch ==
  /\ Worker("fallback")
  /\ \E found \in {{r} : r \in {x \in SUBSET Episodes :
                                  preview_episode_fallback(cycle.target, x)}} \cup {{}} :
       cycle' = [cycle EXCEPT !.searched = @ + 1, !.target = found,
                              !.pc = IF found = {} THEN "park" ELSE "fallback_grab"]
  /\ UNCHANGED <<status, search_attempts, next_search_at, download, episode, cooldowns, history,
                 events>>

FallbackGrab ==
  /\ Worker("fallback_grab")
  /\ (\E r \in cycle.target : Grabbed(r, "mark")) \/ Refused \/ GrabFails \/ Unusable

mark_grabbed ==
  /\ Worker("mark")
  /\ episode' = [episode EXCEPT ![S] = [e \in Episodes |->
       IF e \in cycle.target /\ @[e] # "imported" THEN "grabbed" ELSE @[e]]]
  /\ Done
  /\ UNCHANGED <<status, search_attempts, next_search_at, download, cooldowns, history, events>>

(* Mutant: the status is written whatever it is by now.                          *)
Unconditional_park ==
  /\ Worker("park")
  /\ status' = [status EXCEPT ![S] = "no_acceptable_release"]
  /\ next_search_at' = [next_search_at EXCEPT ![S] = backoff_delay(Cur.attempts)]
  /\ Cleared /\ Done
  /\ UNCHANGED <<search_attempts, download, episode, history, events>>

(* The CAS re-reads the status and, for a season, the active downloads.             *)
mark_no_acceptable_release(s) == Idle(s) /\ status[s] \in DUE_SEARCH_STATUSES

(* The ladder moves only with a park that won.                                   *)
_park ==
  /\ Worker("park")
  /\ IF mark_no_acceptable_release(S)
     THEN /\ status' = [status EXCEPT ![S] = "no_acceptable_release"]
          /\ search_attempts' = [search_attempts EXCEPT ![S] =
               IF Cur.attempts < Len(BACKOFF_SCHEDULE) - 1 THEN Cur.attempts + 1 ELSE Cur.attempts]
          /\ next_search_at' = [next_search_at EXCEPT ![S] = backoff_delay(Cur.attempts)]
     ELSE UNCHANGED <<status, search_attempts, next_search_at>>
  /\ Cleared /\ Done
  /\ UNCHANGED <<download, episode, history, events>>

(***************************************************************************)
(* The others                                                              *)
(***************************************************************************)
Others == UNCHANGED <<cycle, cooldowns, requested>>

(* grab_endpoint: the operator grabs for a wanted scope, or finds nothing          *)
(* acceptable, which parks it without a step on the ladder.                       *)
ManualGrab(s) ==
  /\ Event /\ Others
  /\ status[s] \in DUE_SEARCH_STATUSES /\ Idle(s)
  /\ download' = [download EXCEPT ![s] =
       [episodes |-> Pack, seen |-> IF s \in Seasons THEN aired[s] ELSE {}]]
  /\ status' = [status EXCEPT ![s] = "downloading"]
  /\ next_search_at' = [next_search_at EXCEPT ![s] = 0]
  /\ UNCHANGED <<search_attempts, episode, packed, aired, owned, history>>

ManualPark(s) ==
  /\ Event /\ Others
  /\ mark_no_acceptable_release(s) /\ status[s] # "no_acceptable_release"
  /\ status' = [status EXCEPT ![s] = "no_acceptable_release"]
  /\ UNCHANGED <<search_attempts, next_search_at, download, episode, packed, aired, owned, history>>

(* The scope is re-armed; rows the download had grabbed are dead.               *)
DownloadFails(s) ==
  /\ Event /\ Others
  /\ ~Idle(s)
  /\ download' = [download EXCEPT ![s] = None]
  /\ status' = [status EXCEPT ![s] = IF @ = "downloading" THEN "searching" ELSE @]
  /\ episode' = IF s \in Movies THEN episode
                ELSE [episode EXCEPT ![s] = [e \in Episodes |->
                        IF @[e] = "grabbed" /\ e \in download[s].episodes THEN "dead" ELSE @[e]]]
  /\ UNCHANGED <<search_attempts, next_search_at, packed, aired, owned, history>>

TargetOf(s) == Rows(s) \ In(s, "dead")
ImportedRows(s, files) == [e \in Episodes |-> IF e \in files THEN "imported" ELSE episode[s][e]]

(* The import of a season: the target is what the rows say, without the dead ones;  *)
(* no rows, no target.  A pack may have holes.                                  *)
apply_import(s, files) ==
  LET rows == ImportedRows(s, files)
      target == TargetOf(s)
      complete == target = {} \/ \A e \in target : rows[e] = "imported"
  IN
  /\ episode' = [episode EXCEPT ![s] = rows]
  /\ owned' = [owned EXCEPT ![s] = @ \cup files]
  /\ packed' = IF download[s].episodes = Pack
               THEN [packed EXCEPT ![s] = download[s].seen] ELSE packed
  /\ status' = [status EXCEPT ![s] = IF complete THEN "completed" ELSE "searching"]
  /\ IF complete THEN UNCHANGED <<search_attempts, next_search_at>>
     ELSE /\ search_attempts' = [search_attempts EXCEPT ![s] = 0]
          /\ next_search_at' = [next_search_at EXCEPT ![s] = 0]

Import(s) ==
  /\ ~Idle(s) /\ status[s] = "downloading" /\ Others
  /\ download' = [download EXCEPT ![s] = None]
  /\ IF s \in Movies
     THEN /\ status' = [status EXCEPT ![s] = "completed"]
          /\ UNCHANGED <<search_attempts, next_search_at, episode, packed, owned>>
     ELSE \E files \in SUBSET Episodes \ {{}} :
            /\ download[s].episodes # Pack => files = download[s].episodes
            /\ apply_import(s, files)
  /\ UNCHANGED <<aired, history, events>>

Cancel(s) ==
  /\ Event /\ Others
  /\ status[s] \notin {"completed", "cancelled"}
  /\ status' = [status EXCEPT ![s] = "cancelled"]
  /\ download' = [download EXCEPT ![s] = None]
  /\ next_search_at' = [next_search_at EXCEPT ![s] = 0]
  /\ UNCHANGED <<search_attempts, episode, packed, aired, owned, history>>

(* TMDB announces an episode, or retracts one.                                  *)
TmdbChanges(s) ==
  /\ Event /\ Others
  /\ \E e \in Episodes : aired' = [aired EXCEPT ![s] = IF e \in @ THEN @ \ {e} ELSE @ \cup {e}]
  /\ UNCHANGED <<status, search_attempts, next_search_at, download, episode, packed, owned, history>>

Restart ==
  /\ Event
  /\ cycle' = Asleep
  /\ cooldowns' = [s \in Scopes |-> NoFailures]
  /\ UNCHANGED <<durable, aired, owned, history>>

run_grab_cycle ==
  \/ Prepare \/ Collect \/ Sleep \/ SkipCooling \/ SkipActive \/ Search \/ SearchRaises
  \/ Grab \/ RefreshTarget \/ _attempt_episode_fallback \/ RecheckActive \/ mark_completed_if_in
  \/ FallbackSearch \/ FallbackGrab \/ mark_grabbed \/ _park

SearchNext ==
  \/ run_grab_cycle \/ Restart
  \/ \E s \in Scopes : ManualGrab(s) \/ ManualPark(s) \/ DownloadFails(s) \/ Import(s) \/ Cancel(s)
  \/ \E s \in Seasons : TmdbChanges(s)

(* The worker is a loop that a failed cycle does not end (web/app.py,           *)
(* _autograb_loop).                                                          *)
SearchSpec == SearchInit /\ [][SearchNext]_searchVars /\ WF_searchVars(run_grab_cycle)

(***************************************************************************)
(* Properties                                                              *)
(***************************************************************************)
(* An eager scope does not stay one: the worker grabs for it, parks it or cools it, *)
(* whatever the scopes before it do with the budget.                            *)
EagerSettles ==
  \A s \in Scopes : (Eager(s) /\ cooldowns[s].failures = 0)
                    ~> (~Eager(s) \/ cooldowns[s].failures > 0)

(* A season becomes done only when every episode the last refresh saw is imported,  *)
(* but for those whose download died.                                           *)
DoneIsWhole ==
  [][\A s \in Seasons :
       status[s] # "completed" /\ status'[s] = "completed" /\ Whole(s) /\ s \notin excused'
         => known[s] \subseteq (Imported(s) \cup In(s, "dead"))']_searchVars

(* An episode that airs after a season was done is chased.                       *)
MissingIsChased ==
  \A s \in Seasons :
    (status[s] = "completed" /\ Whole(s) /\ s \notin excused /\ ~(aired[s] \subseteq owned[s]))
    ~> (status[s] # "completed" \/ s \in excused \/ aired[s] \subseteq owned[s])

(* A park never covers a download that is under way.                            *)
ParkedIsIdle == \A s \in Scopes : status[s] = "no_acceptable_release" => Idle(s)
=============================================================================
