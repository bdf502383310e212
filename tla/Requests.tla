------------------------------ MODULE Requests ------------------------------
(***************************************************************************)
(* Who asked for a title, and which request row answers them                 *)
(* (services/request_service.py, services/correction_service.py).              *)
(*                                                                         *)
(* One title, and every row the database holds for it.  `create_request` looks for *)
(* a row to join, asks Plex and TMDB without a lock, and comes back to a table      *)
(* that users, the operator and the retention sweep have changed meanwhile: what    *)
(* it read before is read again under the title's lock.  SQLite admits one writer,  *)
(* so a locked section up to its commit is one step; a call to Plex is a step of    *)
(* its own.                                                                 *)
(*                                                                         *)
(* A film is a row with the one scope 1; a show's scopes are its seasons.  The      *)
(* torrents of a cancelled row belong to the failure protocol, the files of an      *)
(* evicted one to Retention: here they are the environment that moves statuses.     *)
(***************************************************************************)
EXTENDS Integers, Sequences, FiniteSets, FiniteSetsExt, SeasonRollup

CONSTANTS Users, Admins, Automation, \* signed-in users; the API key, which is no user
          Seasons, Aired, \* and how many of them TMDB knows of
          Asks,      \* what a call may ask: records [want, episodes, force, expand]
          Pasts,     \* the tables a behaviour may start from: [media_type, rows, started]
          _MAX_DEDUP_JOIN_ATTEMPTS,
          MaxRows,   \* bound: rows of the title
          MaxCalls,  \* bound: calls of users and of automation
          MaxEvents  \* bound: steps of downloads, of the sweep and of Plex

ASSUME RequestsAssumption ==
  /\ Admins \subseteq Users /\ Automation \notin Users
  /\ Seasons \subseteq Nat \ {0} /\ 1 \in Seasons /\ Aired \in Nat /\ 1..Aired \subseteq Seasons
  /\ \A ask \in Asks : ask.want \subseteq Seasons
  /\ _MAX_DEDUP_JOIN_ATTEMPTS \in Nat \ {0}
  /\ MaxRows \in Nat /\ MaxCalls \in Nat /\ MaxEvents \in Nat

(* A row as the tables hold it: what is left of a deleted one, or every column.  The seasons  *)
(* of a cancelled row are cancelled, a film's status is that of its one scope, an owner takes   *)
(* part (migration 7f4a2c91d8e3), and a row is `minted` while it stands as it was created.     *)
Nobody == "nobody"
Deleted == [deleted |-> TRUE]
ScopesOf(type) == IF type = "movie" THEN {1} ELSE Seasons
RowFits(type, row) ==
  \/ row = Deleted
  \/ /\ row = [status |-> row.status, scopes |-> row.scopes, owner |-> row.owner,
               subscribers |-> row.subscribers, regrab |-> row.regrab, imported |-> row.imported,
               generation |-> row.generation, verified |-> row.verified, minted |-> row.minted,
               deleted |-> row.deleted]
     /\ row.deleted = FALSE
     /\ row.scopes = [s \in ScopesOf(type) |-> row.scopes[s]]
     /\ row.status = "cancelled" => \A s \in ScopesOf(type) : row.scopes[s] \in {"none", "cancelled"}
     /\ type = "movie" => row.scopes[1] = row.status /\ row.status # "none"
     /\ row.owner \in row.subscribers \cup {Nobody} /\ row.subscribers \subseteq Users
     /\ row.minted \in BOOLEAN /\ (row.minted => row.status = "available")
TableFits(type, table) ==
  /\ table \in Seq({table[r] : r \in DOMAIN table})
  /\ \A r \in DOMAIN table : RowFits(type, table[r])

ASSUME PastsAssumption ==
  \A past \in Pasts : /\ TableFits(past.media_type, past.rows)
                       /\ \A r \in DOMAIN past.rows : past.rows[r] # Deleted => ~past.rows[r].minted

VARIABLES
  media_type,    \* "movie" or "tv"
  rows,    \* media_requests by id, with their seasons and subscribers (durable)
  plex,    \* the scopes Plex lists: a deleted file stays listed until the next scan
  calls,   \* by caller: the call in flight
  answer,  \* what the step just taken answered, if it did
  started, events

requestVars == <<media_type, rows, plex, calls, answer, started, events>>

Callers == Users \cup {Automation}
SETTLED_REQUEST_STATUS_VALUES == TERMINAL_REQUEST_STATUS_VALUES \ {"completed"}
CANCELLABLE_REQUEST_STATUS_VALUES ==
  {"pending", "searching", "no_acceptable_release", "waiting_for_air_date", "downloading"}
Done == {"available", "completed"}
Scopes == ScopesOf(media_type)
NoCall == [pc |-> "idle"]
Silent == [row |-> 0]

Rows == {r \in DOMAIN rows : ~rows[r].deleted}
Tracked(row) == {s \in DOMAIN row.scopes : row.scopes[s] # "none"}
Folded(row) == rollup_status({row.scopes[s] : s \in Tracked(row)})
Active(row) == row.status \notin SETTLED_REQUEST_STATUS_VALUES
Subscribed(row, u) == u \in row.subscribers

RequestsInit ==
  /\ \E past \in Pasts : media_type = past.media_type /\ rows = past.rows /\ started = past.started
  /\ plex \in {{}, Scopes \cap 1..Aired}
  /\ calls = [c \in Callers |-> NoCall]
  /\ answer = Silent
  /\ events = 0

(***************************************************************************)
(* The tables                                                              *)
(***************************************************************************)
find_active ==
  LET found == {r \in Rows : Active(rows[r])}
  IN IF found = {} THEN 0 ELSE Min(found)

_dedup_preference_user_id(c) == IF c \in Users \ Admins THEN c ELSE Nobody

(* The caller's own row, then an ownerless one, then another's; newest first.  *)
find_in_library(c) ==
  LET found == {r \in Rows : rows[r].status \in Done}
      u == _dedup_preference_user_id(c)
      own == {r \in found : rows[r].owner = u /\ u # Nobody}
      free == {r \in found : rows[r].owner = Nobody /\ u # Nobody}
  IN CASE found = {} -> 0
       [] own # {} -> Max(own)
       [] own = {} /\ free # {} -> Max(free)
       [] own = {} /\ free = {} /\ found # {} -> Max(found)

find_earliest_available ==
  LET found == {r \in Rows : rows[r].status = "available"}
  IN IF found = {} THEN 0 ELSE Min(found)

(* The newest row that says anything of the file says that it is gone.        *)
latest_request_evicted ==
  LET told == {r \in Rows : rows[r].status \in Done \cup {"evicted"}}
  IN told # {} /\ rows[Max(told)].status = "evicted"

evicted_seasons ==
  {s \in Scopes :
     LET told == {r \in Rows : rows[r].scopes[s] \notin {"none", "cancelled"}}
     IN told # {} /\ rows[Max(told)].scopes[s] = "evicted"}

(* uq_media_requests_active: what the index would refuse.                    *)
Collides(r, row) == Active(row) /\ \E q \in Rows \ {r} : Active(rows[q])

_recompute_parent(row) ==
  [row EXCEPT !.status = Folded(row), !.minted = @ /\ Folded(row) = "available"]
Tolerant_recompute_parent(r, row) ==
  IF Collides(r, _recompute_parent(row)) THEN row ELSE _recompute_parent(row)

add_subscriber(row, c) ==
  IF c = Automation THEN row ELSE [row EXCEPT !.subscribers = @ \cup {c}]
copy_subscribers(row, other) == [row EXCEPT !.subscribers = @ \cup other.subscribers]
remove_subscriber(row, c) == [row EXCEPT !.subscribers = @ \ {c}]
set_owner(row, u) == [row EXCEPT !.owner = u]

_owned_by_another_user(row, c) ==
  c \in Users \ Admins /\ row.owner # Nobody /\ row.owner # c

(* A row for an ask: `minted` is history: created available, and available ever since;   *)
(* `imported` the scopes with a library_path, `generation` their completion_generation.  *)
create(c, status, regrab) ==
  add_subscriber([status |-> status,
                  scopes |-> [s \in Scopes |-> IF media_type = "movie" THEN status ELSE "none"],
                  owner |-> IF c \in Users THEN c ELSE Nobody,
                  subscribers |-> {},
                  regrab |-> IF regrab THEN {1} ELSE {},
                  imported |-> {}, generation |-> [s \in Scopes |-> 0], verified |-> FALSE,
                  minted |-> FALSE, deleted |-> FALSE], c)

(***************************************************************************)
(* The seasons of a row                                                     *)
(***************************************************************************)
_season_numbers(ask) == IF ask.want = {} THEN 1..Aired ELSE ask.want
Waiting(ask) == {s \in ask.want : s > Aired}
Crawled(ask) == IF ask.episodes THEN {} ELSE plex

(* Rows that are missing are created, evicted and waiting ones are armed again;   *)
(* a season the sweep has just taken is never believed to be there.              *)
ensure_seasons(row, ask, present) ==
  LET evicted == evicted_seasons
      initial(s) == IF s \in present \ evicted THEN "available" ELSE "pending"
      next(s) ==
        CASE row.scopes[s] \in {"none", "evicted", "waiting_for_air_date"} -> initial(s)
          [] ask.episodes /\ row.scopes[s] \in Done -> "pending"
          [] OTHER -> row.scopes[s]
      want == _season_numbers(ask)
  IN [row EXCEPT !.scopes = [s \in Scopes |-> IF s \in want THEN next(s) ELSE @[s]],
                 !.regrab = @ \cup {s \in want \cap evicted : row.scopes[s] = "none"}]

_ensure_tv_season_plan(row, ask, present) ==
  LET grown == ensure_seasons(row, ask, present)
  IN _recompute_parent(
       [grown EXCEPT !.scopes =
          [s \in Scopes |-> IF s \in Waiting(ask) THEN "waiting_for_air_date" ELSE @[s]]])

(***************************************************************************)
(* POST /requests                                                          *)
(***************************************************************************)
At(c, pc) == calls[c].pc = pc
Ask(c) == calls[c].ask
Goto(c, pc) == calls' = [calls EXCEPT ![c].pc = pc, ![c].present = {}]
Put(r, row) == rows' = [rows EXCEPT ![r] = row]
Fixed == UNCHANGED <<media_type, started, events>>

Answer(c, r) ==
  /\ calls' = [calls EXCEPT ![c] = NoCall]
  /\ answer' = [row |-> r, caller |-> c, ask |-> Ask(c), attempt |-> calls[c].attempt]
Raise(c) == calls' = [calls EXCEPT ![c] = NoCall] /\ answer' = Silent

(* create_request_result begins, or begins again: the first look takes no lock. *)
Begun(ask, attempt) ==
  [pc |-> IF find_active # 0 THEN "join" ELSE "probe", ask |-> ask, attempt |-> attempt,
   row |-> 0, present |-> {}, recovering |-> FALSE]

Post(c, ask) ==
  /\ At(c, "idle") /\ started < MaxCalls
  /\ ask.force => media_type = "movie"
  /\ ask.episodes \/ ask.expand \/ ask.want # {1} => media_type = "tv"
  /\ ask.expand => c \in Users  \* the watchlist of a user
  /\ calls' = [calls EXCEPT ![c] = Begun(ask, 1)]
  /\ started' = started + 1
  /\ answer' = Silent /\ UNCHANGED <<media_type, rows, plex, events>>

(* What a call that found a row of someone else does to it: it subscribes.     *)
Stops(c, r) == _owned_by_another_user(rows[r], c) /\ ~Ask(c).expand

_subscribe_dedup_winner(c, r, then) ==
  /\ Put(r, add_subscriber(rows[r], c))
  /\ IF media_type = "movie" \/ Stops(c, r)
     THEN Answer(c, r)
     ELSE /\ calls' = [calls EXCEPT ![c].pc = then, ![c].row = r, ![c].present = {}]
          /\ answer' = Silent

(* Under the lock: the row seen before may have settled since.               *)
Join(c) ==
  /\ At(c, "join")
  /\ IF find_active = 0 THEN Goto(c, "probe") /\ UNCHANGED rows /\ answer' = Silent
     ELSE _subscribe_dedup_winner(c, find_active, "grow")
  /\ UNCHANGED plex /\ Fixed

(* The row settled under the call: all over again, a bounded number of times.  *)
Retry(c, r) ==
  IF calls[c].attempt < _MAX_DEDUP_JOIN_ATTEMPTS
  THEN /\ calls' = [calls EXCEPT ![c] = Begun(@.ask, @.attempt + 1)]
       /\ answer' = Silent
  ELSE IF calls[c].recovering THEN Raise(c) ELSE Answer(c, r)

(* Plex is asked before the lock: the joined row's seasons are written after it.  *)
Locked == [grow |-> "grow_locked", track |-> "track_locked", winner |-> "winner_locked"]
Crawl(c) ==
  /\ calls[c].pc \in {"grow", "track", "winner"}
  /\ \E seen \in {Crawled(Ask(c)), {}} :  \* an outage proves nothing
       calls' = [calls EXCEPT ![c].present = seen, ![c].pc = Locked[@]]
  /\ UNCHANGED <<rows, plex>> /\ answer' = Silent /\ Fixed

(* What would go wrong: the joined row is not read again under the lock.      *)
Blind_grow_tv_dedup_join(c) ==
  LET r == calls[c].row
  IN /\ At(c, "grow_locked")
     /\ Put(r, _ensure_tv_season_plan(rows[r], Ask(c), calls[c].present))
     /\ Answer(c, r)
     /\ UNCHANGED plex /\ Fixed

_grow_tv_dedup_join(c) ==
  LET r == calls[c].row
  IN /\ At(c, "grow_locked")
     /\ IF rows[r].deleted \/ ~Active(rows[r])
        THEN Retry(c, r) /\ UNCHANGED rows
        ELSE /\ Put(r, _ensure_tv_season_plan(rows[r], Ask(c), calls[c].present))
             /\ Answer(c, r)
     /\ UNCHANGED plex /\ Fixed

(* The film: Plex is asked, then everything is decided under the lock.         *)
_already_in_library(c) ==
  /\ At(c, "probe") /\ media_type = "movie"
  /\ \E seen \in {plex # {}, FALSE} :
       Goto(c, IF Ask(c).force \/ seen THEN "movie_locked" ELSE "create")
  /\ UNCHANGED <<rows, plex>> /\ answer' = Silent /\ Fixed

Insert(c, row, pc) ==
  /\ Len(rows) < MaxRows
  /\ rows' = Append(rows, row)
  /\ IF pc = "done" THEN Answer(c, Len(rows) + 1)
     ELSE /\ calls' = [calls EXCEPT ![c].pc = pc, ![c].row = Len(rows) + 1]
          /\ answer' = Silent

(* A path some earlier import left behind has to be confirmed by Plex as well.   *)
Unconfirmed == IF \E r \in Rows : rows[r].imported # {} THEN BOOLEAN ELSE {FALSE}

MovieLocked(c) ==
  LET mint == [create(c, "available", FALSE) EXCEPT !.minted = TRUE]
  IN /\ At(c, "movie_locked")
     /\ CASE find_active # 0 ->
               _subscribe_dedup_winner(c, find_active, "grow")
          [] find_active = 0 /\ (Ask(c).force \/ latest_request_evicted) ->
               Insert(c, create(c, "pending", ~Ask(c).force), "done")
          [] find_active = 0 /\ ~Ask(c).force /\ ~latest_request_evicted ->
               IF find_in_library(c) # 0
               THEN _subscribe_dedup_winner(c, find_in_library(c), "grow")
               ELSE \E unsure \in Unconfirmed :
                      IF unsure THEN Insert(c, create(c, "pending", FALSE), "done")
                      ELSE Insert(c, mint, "collapse")
     /\ UNCHANGED plex /\ Fixed

(* The show: one crawl, then the lock if there is anything to believe.         *)
_present_seasons_or_empty(c) ==
  /\ At(c, "probe") /\ media_type = "tv"
  /\ \E seen \in {Crawled(Ask(c)), {}} :
       calls' = [calls EXCEPT ![c].present = seen,
                              ![c].pc = IF seen = {} THEN "create" ELSE "tv_locked"]
  /\ UNCHANGED <<rows, plex>> /\ answer' = Silent /\ Fixed

TvLocked(c) ==
  LET covered == _season_numbers(Ask(c)) \subseteq calls[c].present \ evicted_seasons
  IN /\ At(c, "tv_locked")
     /\ CASE find_active # 0 ->
               _subscribe_dedup_winner(c, find_active, "grow")
          [] find_active = 0 /\ covered /\ find_in_library(c) # 0 ->
               _subscribe_dedup_winner(c, find_in_library(c), "track")
          [] find_active = 0 /\ ~(covered /\ find_in_library(c) # 0) ->
               Goto(c, "create") /\ UNCHANGED rows /\ answer' = Silent
     /\ UNCHANGED plex /\ Fixed

(* The row is in the library and its lock released: seasons are added to it all   *)
(* the same.  What the index or a foreign key refuses is an error of the call.    *)
TrackInLibrary(c) ==
  LET r == calls[c].row
      grown == _ensure_tv_season_plan(rows[r], Ask(c), calls[c].present)
  IN /\ At(c, "track_locked")
     /\ IF rows[r].deleted \/ Collides(r, grown) THEN Raise(c) /\ UNCHANGED rows
        ELSE Put(r, grown) /\ Answer(c, r)
     /\ UNCHANGED plex /\ Fixed

(* The insert, outside the lock: the index decides who was first.              *)
CreateRow(c) ==
  LET film == create(c, "pending", ~Ask(c).force /\ latest_request_evicted)
      show(seen) == _ensure_tv_season_plan(create(c, "pending", FALSE), Ask(c), seen)
  IN /\ At(c, "create")
     /\ IF find_active # 0 THEN Goto(c, "recover") /\ UNCHANGED rows /\ answer' = Silent
        ELSE IF media_type = "movie" THEN Insert(c, film, "done")
        ELSE \E seen \in {Crawled(Ask(c)), {}} :
               IF show(seen).status = "available"
               THEN Insert(c, [show(seen) EXCEPT !.minted = TRUE], "collapse")
               ELSE Insert(c, show(seen), "done")
     /\ UNCHANGED plex /\ Fixed

(* The insert was refused: join the row that was first, if it still stands.     *)
Recover(c) ==
  /\ At(c, "recover")
  /\ IF find_active = 0
     THEN /\ UNCHANGED rows
          /\ IF calls[c].attempt < _MAX_DEDUP_JOIN_ATTEMPTS THEN Retry(c, 0) ELSE Raise(c)
     ELSE /\ Put(find_active, add_subscriber(rows[find_active], c))
          /\ IF media_type = "movie" \/ Stops(c, find_active)
             THEN Answer(c, find_active)
             ELSE /\ calls' = [calls EXCEPT ![c].pc = "grow", ![c].row = find_active,
                                            ![c].recovering = TRUE]
                  /\ answer' = Silent
  /\ UNCHANGED plex /\ Fixed

(* What would go wrong: each keeps the row it created.                      *)
Uncollapsed(c) ==
  At(c, "collapse") /\ Answer(c, calls[c].row) /\ UNCHANGED <<rows, plex>> /\ Fixed

(* Two calls may both have created an available row: the later one gives way.    *)
_collapse_available_race(c) ==
  LET r == calls[c].row
      w == find_earliest_available
      adopted == IF rows[w].owner = Nobody /\ c \in Users THEN set_owner(rows[w], c)
                 ELSE rows[w]
  IN /\ At(c, "collapse")
     /\ IF w \in {0, r} THEN Answer(c, r) /\ UNCHANGED rows
        ELSE /\ rows' = [rows EXCEPT
                  ![w] = copy_subscribers(add_subscriber(adopted, c), rows[r]),
                  ![r] = Deleted]
             /\ IF media_type = "movie" THEN Answer(c, w)
                ELSE /\ calls' = [calls EXCEPT ![c].pc = "winner", ![c].row = w]
                     /\ answer' = Silent
     /\ UNCHANGED plex /\ Fixed

(* The surviving row has to track what this call asked for too.               *)
GrowWinner(c) ==
  LET r == calls[c].row
      grown == _ensure_tv_season_plan(rows[r], Ask(c), calls[c].present)
  IN /\ At(c, "winner_locked")
     /\ IF rows[r].deleted \/ Collides(r, grown)
        THEN Goto(c, "recover") /\ UNCHANGED rows /\ answer' = Silent
        ELSE Put(r, grown) /\ Answer(c, r)
     /\ UNCHANGED plex /\ Fixed

create_request(c) ==
  \/ Join(c) \/ Crawl(c) \/ _grow_tv_dedup_join(c)
  \/ _already_in_library(c) \/ MovieLocked(c)
  \/ _present_seasons_or_empty(c) \/ TvLocked(c) \/ TrackInLibrary(c)
  \/ CreateRow(c) \/ Recover(c) \/ _collapse_available_race(c) \/ GrowWinner(c)

(***************************************************************************)
(* Leaving and cancelling                                                   *)
(***************************************************************************)
Begin == started < MaxCalls /\ started' = started + 1

(* A season that is done, or whose torrent still seeds, refuses the whole cancel. *)
Cancellable(row) ==
  /\ row.status \in CANCELLABLE_REQUEST_STATUS_VALUES
  /\ media_type = "tv" => \A s \in Tracked(row) : row.scopes[s] \notin Done /\ s \notin row.imported

_cancel_request_locked(row) ==
  [row EXCEPT !.status = "cancelled",
              !.scopes = [s \in Scopes |-> IF @[s] = "none" THEN "none" ELSE "cancelled"]]

cancel_request(r) ==
  /\ Begin /\ Cancellable(rows[r])
  /\ Put(r, _cancel_request_locked(rows[r]))
  /\ answer' = Silent /\ UNCHANGED <<media_type, plex, calls, events>>

cancel_request_as_owner(c, r) ==
  /\ Begin /\ rows[r].owner = c /\ Cancellable(rows[r])
  /\ rows[r].subscribers \subseteq {c}
  /\ Put(r, _cancel_request_locked(rows[r]))
  /\ answer' = Silent /\ UNCHANGED <<media_type, plex, calls, events>>

Left(row, c) ==
  IF row.owner = c THEN set_owner(remove_subscriber(row, c), Nobody)
  ELSE remove_subscriber(row, c)

Remaining(row, c) == row.subscribers \ {c}

(* To the earliest of those who remain; when each of them came is not kept here.      *)
HandOff(row, c, heir) ==
  set_owner(remove_subscriber(row, c), IF row.owner = c THEN heir ELSE row.owner)

(* Others remain: the row is theirs.  The last one out takes a row that can still be *)
(* cancelled with them, and may not leave one that is neither that nor settled.    *)
withdraw_participant(c, r) ==
  LET row == rows[r]
  IN /\ At(c, "idle") /\ Subscribed(row, c) /\ Begin
     /\ CASE Remaining(row, c) # {} ->
               /\ \E heir \in Remaining(row, c) : Put(r, HandOff(row, c, heir))
               /\ UNCHANGED calls
          [] Remaining(row, c) = {} /\ Active(row) ->
               /\ Cancellable(row)
               /\ Put(r, _cancel_request_locked(row))
               /\ calls' = [calls EXCEPT ![c] = [pc |-> "leave", row |-> r]]
          [] Remaining(row, c) = {} /\ ~Active(row) ->
               Put(r, Left(row, c)) /\ UNCHANGED calls
     /\ answer' = Silent /\ UNCHANGED <<media_type, plex, events>>

(* The cancel has committed and let the lock go; the rest is done under it again.  *)
Leave(c) ==
  /\ At(c, "leave")
  /\ Put(calls[c].row, Left(rows[calls[c].row], c))
  /\ calls' = [calls EXCEPT ![c] = NoCall]
  /\ answer' = Silent /\ UNCHANGED <<media_type, plex, started, events>>

(***************************************************************************)
(* Downloads, the retention sweep and Plex                                   *)
(***************************************************************************)
Event == events < MaxEvents /\ events' = events + 1
EnvFixed == answer' = Silent /\ UNCHANGED <<media_type, calls, started>>
Set(row, s, status) == [row EXCEPT !.scopes[s] = status]

Moved(r, s, from, to) ==
  /\ Event /\ rows[r].scopes[s] \in from
  /\ Put(r, _recompute_parent(Set(rows[r], s, to)))
  /\ EnvFixed

_PRE_GRAB_STATUSES == {"pending", "searching", "no_acceptable_release"}

(* A download that fails arms its scope again: it is searched for, never given up.     *)
Grab(r, s) == Moved(r, s, _PRE_GRAB_STATUSES, "downloading") /\ UNCHANGED plex
_rearm_failed_request(r, s) == Moved(r, s, {"downloading"}, "searching") /\ UNCHANGED plex

(* A grab may come and go unobserved before its import.                      *)
mark_completed(r, s) ==
  /\ Event /\ rows[r].scopes[s] \in _PRE_GRAB_STATUSES \cup {"downloading"}
  /\ Put(r, _recompute_parent([Set(rows[r], s, "completed") EXCEPT
                                  !.imported = @ \cup {s}, !.generation[s] = @ + 1]))
  /\ UNCHANGED plex /\ EnvFixed

(* Plex indexes what was imported.                                              *)
Index(r, s) ==
  /\ Event /\ s \in rows[r].imported \ plex /\ rows[r].scopes[s] \in Done
  /\ plex' = plex \cup {s}
  /\ UNCHANGED rows /\ EnvFixed

(* What has no path of ours is skipped (_evict_one).                            *)
Evict(r, s) ==
  /\ Event /\ rows[r].scopes[s] = "available" /\ s \in rows[r].imported
  /\ Put(r, Tolerant_recompute_parent(r, Set(rows[r], s, "evicted")))
  /\ UNCHANGED plex /\ EnvFixed

(* The file was never deleted: the row is restored, and what was asked again      *)
(* because of the eviction, and not yet grabbed, is cancelled.                  *)
Restore(r, s) ==
  /\ Event /\ rows[r].scopes[s] = "evicted"
  /\ rows' = [q \in DOMAIN rows |-> IF rows[q].deleted THEN Deleted ELSE
       CASE q = r -> Tolerant_recompute_parent(r, Set(rows[r], s, "available"))
         [] q # r /\ s \in rows[q].regrab /\ rows[q].scopes[s] \in _PRE_GRAB_STATUSES ->
              Tolerant_recompute_parent(q, Set(rows[q], s, "cancelled"))
         [] OTHER -> rows[q]]
  /\ UNCHANGED plex /\ EnvFixed

Scan(s) ==
  /\ Event /\ s \in plex
  /\ \A r \in Rows : rows[r].scopes[s] # "available"
  /\ plex' = plex \ {s}
  /\ UNCHANGED rows /\ EnvFixed

Quiet == \A c \in Callers : At(c, "idle")
Terminating == Quiet /\ UNCHANGED requestVars

RequestsNext ==
  \/ \E c \in Callers : (\E ask \in Asks : Post(c, ask)) \/ create_request(c)
  \/ \E r \in Rows : cancel_request(r)
  \/ \E c \in Users, r \in Rows : cancel_request_as_owner(c, r) \/ withdraw_participant(c, r)
  \/ \E c \in Users : Leave(c)
  \/ \E r \in Rows, s \in Scopes : Grab(r, s) \/ _rearm_failed_request(r, s) \/ mark_completed(r, s)
                                   \/ Index(r, s) \/ Evict(r, s) \/ Restore(r, s)
  \/ \E s \in Scopes : Scan(s)
  \/ Terminating

(***************************************************************************)
(* Properties                                                              *)
(***************************************************************************)
(* "Every TV dedup-join site" releases the lock, and "blindly writing season rows" then    *)
(* "would RESURRECT the settled row" (_grow_tv_dedup_join): a cancelled request stays so.   *)
NoResurrection ==
  [][\A r \in Rows : rows[r].status = "cancelled" =>
                       rows'[r].deleted \/ rows'[r].status = "cancelled"]_requestVars

(* What the code keeps of it: a call that joined a row while it was active, or anyone else,  *)
(* never brings a cancelled row back.  The two writes that do not look again are apart: of a  *)
(* call that found the row in the library, and of one that gave way to it.                *)
GrowsUnread(r) ==
  \E c \in Callers : /\ calls[c].pc \in {"track_locked", "winner_locked"} /\ calls[c].row = r
                     /\ calls' = [calls EXCEPT ![c] = NoCall]
JoinRevivesNothing ==
  [][\A r \in Rows : rows[r].status = "cancelled" /\ ~GrowsUnread(r) =>
                       rows'[r].deleted \/ rows'[r].status = "cancelled"]_requestVars

(* A row that is in flight is owned by one of its participants, or by nobody       *)
(* (automation): handing over on withdrawal never leaves it with a stranger.       *)
OwnerParticipates ==
  \A r \in Rows : Active(rows[r]) /\ rows[r].owner # Nobody =>
                    Subscribed(rows[r], rows[r].owner)

(* What a call answers, unless it has run out of attempts, is a row that exists, that its   *)
(* caller can see and, unless it belongs to someone else, one that tracks every season      *)
(* the call named.                                                              *)
AnswerIsHonest ==
  (answer # Silent /\ answer.attempt < _MAX_DEDUP_JOIN_ATTEMPTS) =>
    LET row == rows[answer.row]
        c == answer.caller
    IN /\ ~row.deleted
       /\ c \in Users => Subscribed(row, c)
       /\ \/ _season_numbers(answer.ask) \subseteq Tracked(row)
          \/ _owned_by_another_user(row, c)

(* Whoever was told the title is in the library was told of one row: of the rows    *)
(* created available by racing calls one remains when the calls are over.          *)
OneAnswer ==
  Quiet => Cardinality({r \in Rows : rows[r].minted /\ rows[r].status = "available"}) <= 1

(* Every user can stand on the answer: it names a row that is there, the only one, with    *)
(* the seasons asked for, and an owner who still takes part.                         *)
AnswersHold == OwnerParticipates /\ AnswerIsHonest /\ OneAnswer
=============================================================================
