---------------------------- MODULE GrabProtocol ----------------------------
(***************************************************************************)
(* Grabbing a release (services/grab_service.py): hand a torrent to the         *)
(* download client, then own it with a row of `downloads`.  Two grabs for one    *)
(* title run at once, next to an operator who fails a download or cancels the    *)
(* request and asks again, an import that finishes, and a crash.              *)
(*                                                                         *)
(* A row is keyed by its torrent's hash and is reused once it is terminal.  A   *)
(* step is what happens between two awaits; a database transaction, which holds  *)
(* the writer's lock from its first write to its commit, is one step.          *)
(***************************************************************************)
EXTENDS SeasonRollup, FiniteSets

CONSTANTS Grabbers,   \* concurrent calls of grab
          First, Again, \* the title's request, and the one made after a cancel
          Kinds,      \* of "tv", "movie"
          Seasons,    \* of the show; a movie has one scope
          Hashes,
          Pack,       \* the hash that holds every season of a show; the others hold one
          MaxEvents   \* bound: calls of grab, failures, cancels and new requests,
                      \* imports, parks and crashes, all together

ASSUME GrabSetsAssumption ==
  /\ First # Again /\ Pack \in Hashes /\ Seasons # {} /\ Kinds \subseteq {"tv", "movie"}
  /\ MaxEvents \in Nat

Scopes == {First, Again} \X Seasons
RequestOf(s) == s[1]

VARIABLES
  kind,
  want,      \* status of each season, or of the film's request (durable)
  row,       \* downloads: [status, request, scopes, claims] by hash (durable)
  blocklist, \* (durable)
  client,    \* the torrents in the client
  removing,  \* _removals_in_flight: a count by hash (memory)
  ending,    \* torrents an operator's failure or cancel is about to remove
  grabs,     \* the calls in progress
  stray,     \* history: torrents left untracked by a crash, an add whose answer was
             \* lost or named no hash, a removal that failed, or a refusal that could
             \* not name its conflict
  spent

vars == <<kind, want, row, blocklist, client, removing, ending, grabs, stray, spent>>
database == <<kind, want, row, blocklist>>

Tv == kind = "tv"
ScopesOf(r) == {s \in Scopes : RequestOf(s) = r /\ want[s] # "none"}

Active(h) == row[h].status = "active"
Terminal(h) == row[h].status \in {"failed", "imported"}
removal_in_flight(h) == removing[h] > 0

Idle == [pc |-> "idle"]
Free == [status |-> "none", request |-> "none", scopes |-> {}, claims |-> {}]

A == CHOOSE n \in Seasons : TRUE

(* The pack may have an earlier life: failed or imported, with its torrent kept    *)
(* or gone, or still active after the import of one of its seasons.            *)
Init ==
  /\ kind \in Kinds
  /\ \E life \in {"none", "failed", "imported"} \cup (IF Tv THEN {"active"} ELSE {}) :
       /\ row = [h \in Hashes |-> IF h # Pack \/ life = "none" THEN Free
                 ELSE [status |-> life, request |-> First,
                       scopes |-> IF life = "active" THEN {First} \X (Seasons \ {A}) ELSE {},
                       claims |-> IF life = "active" THEN {First} \X (Seasons \ {A}) ELSE {}]]
       /\ want = [s \in Scopes |->
            CASE s[1] = Again \/ (~Tv /\ s[2] # A) -> "none"
              [] s[1] = First /\ life = "active" ->
                   IF s[2] = A THEN "completed" ELSE "downloading"
              [] s[1] = First /\ (Tv \/ s[2] = A) /\ life # "active" -> "pending"]
       /\ client \in IF life = "active" THEN {{Pack}}
                     ELSE SUBSET {h \in Hashes : h = Pack /\ life # "none"}
  /\ blocklist = {} /\ ending = {} /\ stray = {}
  /\ removing = [h \in Hashes |-> 0]
  /\ grabs = [g \in Grabbers |-> Idle]
  /\ spent = 0

----------------------------------------------------------------------------
(* What a call reads.                                                       *)

(* A different active torrent that holds, or physically covers, one of them.    *)
_active_conflict_for_targets(h, guard) ==
  \E k \in Hashes \ {h} : Active(k) /\ row[k].claims \cap guard # {}

(* What the unique indexes refuse: a scope, or a physical claim, of another row.   *)
ScopeTaken(h, ss) == \E k \in Hashes \ {h} : Active(k) /\ row[k].scopes \cap ss # {}
ClaimTaken(h, ss) == \E k \in Hashes \ {h} : Active(k) /\ row[k].claims \cap ss # {}

tv_grab_blocked_by_terminal_parent(parent, season) ==
  /\ parent \in TERMINAL_REQUEST_STATUS_VALUES
  /\ ~(parent = "completed" /\ season \notin _SETTLED_TV_SEASON_STATUS_VALUES)

Parent(r) == rollup_status({want[s] : s \in ScopesOf(r)})

_scope_still_grabbable(s) ==
  IF Tv
  THEN want[s] # "cancelled" /\ ~tv_grab_blocked_by_terminal_parent(Parent(RequestOf(s)), want[s])
  ELSE want[s] \notin TERMINAL_REQUEST_STATUS_VALUES

(* The seasons the torrent carries for this request, imported or not.         *)
_active_guard_seasons(s, h) == IF Tv /\ h = Pack THEN ScopesOf(RequestOf(s)) ELSE {s}

_planned_target_seasons(s, h) == {{s}, _active_guard_seasons(s, h)}

(* The row carries every target, and every target is downloading.            *)
_attached_target_scopes(g) ==
  /\ g.targets \subseteq row[g.h].scopes
  /\ \A s \in g.targets : want[s] = "downloading"

_PACK_TARGET_SEASON_STATUS_VALUES == {"pending", "searching", "no_acceptable_release", "failed"}

(* The compare-and-swap of every target to downloading.                      *)
SeasonsMove(g) ==
  \A s \in g.targets :
    IF s = g.s THEN want[s] = g.seen ELSE want[s] \in _PACK_TARGET_SEASON_STATUS_VALUES

----------------------------------------------------------------------------
(* How a call moves on.                                                     *)

Event == spent < MaxEvents /\ spent' = spent + 1

Goes(g, pc) == grabs' = [grabs EXCEPT ![g].pc = pc]
Returns(g) == grabs' = [grabs EXCEPT ![g] = Idle]

(* _remove_torrent_if_added follows a lost call: only a torrent that the client   *)
(* did not have before is ours to remove.                                   *)
LeavesTorrent(g) == IF grabs[g].added THEN Goes(g, "remove") ELSE Returns(g)

(* The refusal that has nothing to name: the torrent, if ours, stays untracked.  *)
Raises(g) ==
  /\ Returns(g)
  /\ stray' = IF grabs[g].added THEN stray \cup {grabs[g].h} ELSE stray

Attaches(g, back) == grabs' = [grabs EXCEPT ![g].pc = "attach", ![g].back = back]

(* An active row: another request's refuses the call, this request's takes the    *)
(* seasons as further scopes, and a film's is the answer.                     *)
MeetsActive(g, back) ==
  IF row[grabs[g].h].request # RequestOf(grabs[g].s) \/ ~Tv
  THEN Returns(g)
  ELSE Attaches(g, back)

----------------------------------------------------------------------------
(* grab, up to the client.                                                  *)

(* The decision: the candidate is not blocklisted and the scope is grabbable.   *)
(* What it observes of the scope is what the last write compares with.        *)
grab(g) ==
  /\ grabs[g].pc = "idle" /\ Event
  /\ \E s \in Scopes, h \in Hashes \ blocklist, known \in BOOLEAN :
     \E targets \in _planned_target_seasons(s, h) :
       /\ h = Pack \/ s[2] = A
       /\ want[s] # "none" /\ _scope_still_grabbable(s)
       /\ grabs' = [grabs EXCEPT ![g] =
            [pc |-> IF known THEN "pre" ELSE "add", s |-> s, h |-> h, targets |-> targets,
             known |-> known, seen |-> want[s], added |-> FALSE, reuse |-> FALSE,
             back |-> "none"]]
  /\ UNCHANGED <<database, client, removing, ending, stray>>

(* The indexer named the hash: look before anything is added.                *)
KnownHash(g) ==
  LET h == grabs[g].h IN
  /\ grabs[g].pc = "pre"
  /\ CASE Terminal(h) /\ removal_in_flight(h) -> Returns(g)
       [] Active(h) -> MeetsActive(g, "guard")
       [] ~Active(h) /\ ~(Terminal(h) /\ removal_in_flight(h)) -> Goes(g, "guard")
  /\ UNCHANGED <<database, client, removing, ending, stray, spent>>

ParallelGuard(g) ==
  LET c == grabs[g] IN
  /\ c.pc = "guard"
  /\ IF _active_conflict_for_targets(c.h, _active_guard_seasons(c.s, c.h))
     THEN Returns(g) ELSE Goes(g, "add")
  /\ UNCHANGED <<database, client, removing, ending, stray, spent>>

(* QbittorrentClient.add: a torrent the client already holds is not created.    *)
add(g) ==
  /\ grabs[g].pc = "add"
  /\ client' = client \cup {grabs[g].h}
  /\ grabs' = [grabs EXCEPT ![g].pc = "exists", ![g].added = (grabs[g].h \notin client)]
  /\ UNCHANGED <<database, removing, ending, stray, spent>>

(* The client holds it, and the call ends without a row for it.              *)
Abandons(g) ==
  /\ client' = client \cup {grabs[g].h}
  /\ stray' = IF grabs[g].h \notin client THEN stray \cup {grabs[g].h} ELSE stray
  /\ Returns(g)

(* The source cannot be resolved or the client refuses; or its answer is lost,   *)
(* whether the request reached it or not: nothing looks the hash up after.       *)
AddFails(g) ==
  /\ grabs[g].pc = "add"
  /\ \/ Returns(g) /\ UNCHANGED <<client, stray>>
     \/ Abandons(g)
  /\ UNCHANGED <<database, removing, ending, spent>>

(* The client took it and no hash can be derived (GrabError).                *)
AddHashless(g) ==
  /\ grabs[g].pc = "add" /\ ~grabs[g].known
  /\ Abandons(g)
  /\ UNCHANGED <<database, removing, ending, spent>>

----------------------------------------------------------------------------
(* grab, after the client: find out whose torrent it is.                      *)

ReadRow(g) ==
  LET h == grabs[g].h IN
  /\ grabs[g].pc = "exists"
  /\ IF Active(h) THEN MeetsActive(g, "conflict")
     ELSE grabs' = [grabs EXCEPT ![g].pc = "conflict", ![g].reuse = Terminal(h)]
  /\ UNCHANGED <<database, client, removing, ending, stray, spent>>

ReadConflict(g) ==
  LET c == grabs[g] IN
  /\ c.pc = "conflict"
  /\ IF _active_conflict_for_targets(c.h, _active_guard_seasons(c.s, c.h))
     THEN LeavesTorrent(g) ELSE Goes(g, "own")
  /\ UNCHANGED <<database, client, removing, ending, stray, spent>>

(* The transaction that owns the torrent: the row is created, or a terminal one   *)
(* is reused, then every target moves and every season carried is claimed.  It    *)
(* is rolled back whole.                                                   *)
Owned(c) ==
  /\ row' = [row EXCEPT ![c.h] = [status |-> "active", request |-> RequestOf(c.s),
               scopes |-> c.targets, claims |-> _active_guard_seasons(c.s, c.h)]]
  /\ want' = [s \in Scopes |-> IF s \in c.targets THEN "downloading" ELSE want[s]]
  /\ UNCHANGED <<kind, blocklist>>

(* The season, its further targets and the claims, in the transaction's order.   *)
FinishOwning(g) ==
  LET c == grabs[g]
      taken == \/ ScopeTaken(c.h, c.targets)
               \/ SeasonsMove(c) /\ ClaimTaken(c.h, _active_guard_seasons(c.s, c.h))
  IN CASE want[c.s] = c.seen /\ taken -> Goes(g, "integrity") /\ UNCHANGED database
       [] want[c.s] = c.seen /\ ~taken /\ SeasonsMove(c) -> Owned(c) /\ Returns(g)
       [] want[c.s] # c.seen \/ (~taken /\ ~SeasonsMove(c)) ->
            LeavesTorrent(g) /\ UNCHANGED database

Blind_reuse_terminal_row(g) ==
  LET c == grabs[g] IN
  /\ c.pc = "own" /\ c.reuse
  /\ IF Terminal(c.h) /\ ~ScopeTaken(c.h, {c.s}) THEN FinishOwning(g)
     ELSE Goes(g, "lost") /\ UNCHANGED database
  /\ UNCHANGED <<client, removing, ending, stray, spent>>

_reuse_terminal_row(g) ==
  LET c == grabs[g] IN
  /\ c.pc = "own" /\ c.reuse
  /\ CASE removal_in_flight(c.h) -> LeavesTorrent(g) /\ UNCHANGED database
       [] ~removal_in_flight(c.h) /\ ~Terminal(c.h) -> Goes(g, "lost") /\ UNCHANGED database
       [] ~removal_in_flight(c.h) /\ Terminal(c.h) ->
            IF ScopeTaken(c.h, {c.s})
            THEN Goes(g, "integrity") /\ UNCHANGED database
            ELSE FinishOwning(g)
  /\ UNCHANGED <<client, removing, ending, stray, spent>>

create(g) ==
  LET c == grabs[g] IN
  /\ c.pc = "own" /\ ~c.reuse
  /\ IF row[c.h].status # "none" \/ ScopeTaken(c.h, {c.s})
     THEN grabs' = [grabs EXCEPT ![g].pc = "integrity", ![g].back = "create"]
          /\ UNCHANGED database
     ELSE FinishOwning(g)
  /\ UNCHANGED <<client, removing, ending, stray, spent>>

(* A unique index refused the transaction.  Another torrent for the same season  *)
(* is the honest answer; when it has gone in between, only the collision on the   *)
(* hash itself is left to look for.                                         *)
IntegrityError(g) ==
  LET c == grabs[g] IN
  /\ c.pc = "integrity"
  /\ CASE _active_conflict_for_targets(c.h, _active_guard_seasons(c.s, c.h)) ->
            LeavesTorrent(g) /\ UNCHANGED stray
       [] ~_active_conflict_for_targets(c.h, _active_guard_seasons(c.s, c.h))
            /\ (c.back # "create" \/ row[c.h].status = "none") -> Raises(g)
       [] ~_active_conflict_for_targets(c.h, _active_guard_seasons(c.s, c.h))
            /\ c.back = "create" /\ row[c.h].status # "none" ->
            /\ IF Active(c.h) THEN MeetsActive(g, "own")
               ELSE grabs' = [grabs EXCEPT ![g].pc = "own", ![g].reuse = TRUE,
                                           ![g].back = "none"]
            /\ UNCHANGED stray
  /\ UNCHANGED <<database, client, removing, ending, spent>>

(* The reuse was lost to another grab: whose is the row now?                  *)
LostReuse(g) ==
  /\ grabs[g].pc = "lost"
  /\ IF Active(grabs[g].h) THEN MeetsActive(g, "own") ELSE Returns(g)
  /\ UNCHANGED <<database, client, removing, ending, stray, spent>>

(* Best effort.                                                            *)
_remove_torrent_if_added(g) ==
  LET h == grabs[g].h IN
  /\ grabs[g].pc = "remove"
  /\ Returns(g)
  /\ \/ client' = client \ {h} /\ UNCHANGED stray
     \/ UNCHANGED client /\ stray' = stray \cup {h}
  /\ UNCHANGED <<database, removing, ending, spent>>

----------------------------------------------------------------------------
(* Attaching seasons to a torrent this request already downloads.              *)

_attach_target_scopes_to_existing_download(g) ==
  LET c == grabs[g] IN
  /\ c.pc = "attach"
  /\ IF _active_conflict_for_targets(c.h, _active_guard_seasons(c.s, c.h))
     THEN Returns(g) ELSE Goes(g, "lock")
  /\ UNCHANGED <<database, client, removing, ending, stray, spent>>

(* lock_if_active and the transaction it opens.                             *)
Unlocked_lock_if_active(g) ==
  LET c == grabs[g] IN
  /\ c.pc = "lock" /\ SeasonsMove(c) /\ ~ClaimTaken(c.h, _active_guard_seasons(c.s, c.h))
  /\ row' = [row EXCEPT ![c.h].scopes = @ \cup c.targets,
                        ![c.h].claims = @ \cup _active_guard_seasons(c.s, c.h)]
  /\ want' = [s \in Scopes |-> IF s \in c.targets THEN "downloading" ELSE want[s]]
  /\ Returns(g)
  /\ UNCHANGED <<kind, blocklist, client, removing, ending, stray, spent>>

lock_if_active(g) ==
  LET c == grabs[g]
      taken == \/ ScopeTaken(c.h, c.targets)
               \/ SeasonsMove(c) /\ ClaimTaken(c.h, _active_guard_seasons(c.s, c.h))
  IN
  /\ c.pc = "lock"
  /\ CASE ~Active(c.h) -> Goes(g, "reprove") /\ UNCHANGED database
       [] Active(c.h) /\ taken -> Goes(g, "collide") /\ UNCHANGED database
       [] Active(c.h) /\ ~taken /\ ~SeasonsMove(c) -> Goes(g, "owner") /\ UNCHANGED database
       [] Active(c.h) /\ ~taken /\ SeasonsMove(c) ->
            /\ row' = [row EXCEPT ![c.h].scopes = @ \cup c.targets,
                                  ![c.h].claims = @ \cup _active_guard_seasons(c.s, c.h)]
            /\ want' = [s \in Scopes |-> IF s \in c.targets THEN "downloading" ELSE want[s]]
            /\ Returns(g) /\ UNCHANGED <<kind, blocklist>>
  /\ UNCHANGED <<client, removing, ending, stray, spent>>

(* The attachment hit a unique index.                                       *)
Collides(g) ==
  LET c == grabs[g] IN
  /\ c.pc = "collide"
  /\ CASE _active_conflict_for_targets(c.h, _active_guard_seasons(c.s, c.h)) -> LeavesTorrent(g)
       [] ~_active_conflict_for_targets(c.h, _active_guard_seasons(c.s, c.h)) ->
            IF _attached_target_scopes(c) THEN Returns(g)
            ELSE Goes(g, IF Terminal(c.h) THEN "reprove" ELSE "attach")
  /\ UNCHANGED <<database, client, removing, ending, stray, spent>>

(* The row went terminal under the attachment: is the decision still good?      *)
_refuse_unsafe_attachment_loss_recovery(g) ==
  LET c == grabs[g] IN
  /\ c.pc = "reprove"
  /\ IF c.h \in blocklist \/ ~_scope_still_grabbable(c.s) \/ removal_in_flight(c.h)
     THEN Returns(g)
     ELSE Goes(g, IF c.back = "guard" THEN "guard" ELSE "alive")
  /\ UNCHANGED <<database, client, removing, ending, stray, spent>>

(* After the add: the torrent must still be there, and it is no longer provably   *)
(* the one this call created.                                              *)
_surviving_claim_after_attachment_loss(g) ==
  LET c == grabs[g] IN
  /\ c.pc = "alive"
  /\ IF c.h \notin client THEN Returns(g)
     ELSE grabs' = [grabs EXCEPT ![g].pc = c.back, ![g].added = FALSE, ![g].reuse = TRUE]
  /\ UNCHANGED <<database, client, removing, ending, stray, spent>>

(* A season had moved.  A live owner is answered or refused, never removed; a     *)
(* terminal row is claimed for removal before anything else is awaited.         *)
_resolve_same_hash_owner(g) ==
  LET h == grabs[g].h IN
  /\ grabs[g].pc = "owner"
  /\ IF Active(h)
     THEN Returns(g) /\ UNCHANGED removing
     ELSE Goes(g, "locked") /\ removing' = [removing EXCEPT ![h] = @ + 1]
  /\ UNCHANGED <<database, client, ending, stray, spent>>

(* lock_if_terminal decides again; the torrent, if it is ours, goes.  The claim   *)
(* is released whichever way this ends.                                     *)
lock_if_terminal(g) ==
  LET c == grabs[g] IN
  /\ c.pc = "locked"
  /\ IF Active(c.h) \/ ~c.added
     THEN Returns(g) /\ removing' = [removing EXCEPT ![c.h] = @ - 1]
     ELSE Goes(g, "claimed") /\ UNCHANGED removing
  /\ UNCHANGED <<database, client, ending, stray, spent>>

RemoveClaimed(g) ==
  LET h == grabs[g].h IN
  /\ grabs[g].pc = "claimed"
  /\ Returns(g)
  /\ removing' = [removing EXCEPT ![h] = @ - 1]
  /\ \/ client' = client \ {h} /\ UNCHANGED stray
     \/ UNCHANGED client /\ stray' = stray \cup {h}
  /\ UNCHANGED <<database, ending, spent>>

----------------------------------------------------------------------------
(* Around it.                                                               *)

(* A row becomes terminal: its scopes end and its claims are released.         *)
Ended(r, status) == [r EXCEPT !.status = status, !.scopes = {}, !.claims = {}]

(* The failure protocol, seen from here: the torrent may be kept or removed, and  *)
(* a removal is in flight from before the row is terminal.                    *)
MarkFailed(h, remove, block) ==
  /\ Active(h) /\ Event
  /\ row' = [row EXCEPT ![h] = Ended(@, "failed")]
  /\ want' = [s \in Scopes |-> IF s \in row[h].scopes THEN "searching" ELSE want[s]]
  /\ blocklist' = IF block THEN blocklist \cup {h} ELSE blocklist
  /\ IF remove /\ h \notin ending
     THEN ending' = ending \cup {h} /\ removing' = [removing EXCEPT ![h] = @ + 1]
     ELSE UNCHANGED <<ending, removing>>
  /\ UNCHANGED <<kind, client, grabs, stray>>

(* cancel_request refuses a request that has something to show, and takes every   *)
(* active download of the others with it.                                   *)
cancel_request(r) ==
  /\ Event
  /\ ScopesOf(r) # {} /\ \A s \in ScopesOf(r) : want[s] \notin {"completed", "cancelled"}
  /\ want' = [s \in Scopes |-> IF s \in ScopesOf(r) THEN "cancelled" ELSE want[s]]
  /\ LET mine == {h \in Hashes : Active(h) /\ row[h].request = r}
     IN /\ row' = [h \in Hashes |-> IF h \in mine THEN Ended(row[h], "failed") ELSE row[h]]
        /\ ending' = ending \cup mine
        /\ removing' = [h \in Hashes |-> IF h \in mine \ ending THEN removing[h] + 1
                                         ELSE removing[h]]
  /\ UNCHANGED <<kind, blocklist, client, grabs, stray>>

(* create_request: the cancelled request no longer holds the title's active slot. *)
RequestAgain ==
  /\ Event
  /\ ScopesOf(Again) = {} /\ \A s \in ScopesOf(First) : want[s] = "cancelled"
  /\ want' = [s \in Scopes |-> IF RequestOf(s) = Again /\ want[<<First, s[2]>>] # "none"
                               THEN "pending" ELSE want[s]]
  /\ UNCHANGED <<kind, row, blocklist, client, removing, ending, grabs, stray>>

RemoveEnding(h) ==
  /\ h \in ending
  /\ ending' = ending \ {h} /\ removing' = [removing EXCEPT ![h] = @ - 1]
  /\ client' = client \ {h}
  /\ UNCHANGED <<database, grabs, stray, spent>>

(* An import completes what the torrent was grabbed for; the torrent seeds on.   *)
Import(h) ==
  /\ Active(h) /\ Event
  /\ row' = [row EXCEPT ![h] = Ended(@, "imported")]
  /\ want' = [s \in Scopes |-> IF s \in row[h].scopes THEN "completed" ELSE want[s]]
  /\ UNCHANGED <<kind, blocklist, client, removing, ending, grabs, stray>>

(* mark_no_acceptable_release: a compare-and-swap that also requires that nothing  *)
(* covers the season.                                                       *)
Park(s) ==
  /\ Event
  /\ want[s] \in {"pending", "searching", "no_acceptable_release"}
  /\ Tv => \A h \in Hashes : Active(h) => s \notin row[h].claims
  /\ want' = [want EXCEPT ![s] = "no_acceptable_release"]
  /\ UNCHANGED <<kind, row, blocklist, client, removing, ending, grabs, stray>>

(* The registries are memory: a removal that was in flight is forgotten.        *)
Crash ==
  /\ Event
  /\ grabs' = [g \in Grabbers |-> Idle]
  /\ removing' = [h \in Hashes |-> 0] /\ ending' = {}
  /\ stray' = stray \cup {grabs[g].h : g \in {g \in Grabbers : grabs[g].pc # "idle"}}
  /\ UNCHANGED <<database, client>>

GrabStep(g) ==
  \/ grab(g) \/ KnownHash(g) \/ ParallelGuard(g) \/ add(g) \/ AddFails(g) \/ AddHashless(g)
  \/ ReadRow(g) \/ ReadConflict(g) \/ _reuse_terminal_row(g) \/ create(g)
  \/ IntegrityError(g) \/ LostReuse(g) \/ _remove_torrent_if_added(g)
  \/ _attach_target_scopes_to_existing_download(g) \/ lock_if_active(g) \/ Collides(g)
  \/ _refuse_unsafe_attachment_loss_recovery(g) \/ _surviving_claim_after_attachment_loss(g)
  \/ _resolve_same_hash_owner(g) \/ lock_if_terminal(g) \/ RemoveClaimed(g)

Next ==
  \/ \E g \in Grabbers : GrabStep(g)
  \/ \E h \in Hashes : Import(h) \/ RemoveEnding(h)
                       \/ \E remove, block \in BOOLEAN : MarkFailed(h, remove, block)
  \/ \E r \in {First, Again} : cancel_request(r)
  \/ RequestAgain
  \/ \E s \in Scopes : Park(s)
  \/ Crash

Spec == Init /\ [][Next]_vars

----------------------------------------------------------------------------
(* Properties.                                                              *)

(* What a request says and what the downloads say agree, whichever way two grabs,  *)
(* a cancel and a failure interleave: a season is downloading exactly when an      *)
(* active download carries it, and then only one does.                          *)
DownloadingIsCarried ==
  \A s \in Scopes :
    LET carriers == {h \in Hashes : Active(h) /\ s \in row[h].scopes}
    IN /\ want[s] = "downloading" <=> carriers # {}
       /\ Cardinality({h \in Hashes : Active(h) /\ s \in row[h].claims}) <= 1

(* A torrent in the client is tracked by a row, or a call that created it is still  *)
(* running; except for the leaks (stray): a call that a crash ended after its add, an  *)
(* add whose answer was lost or gave no hash, a removal the client did not carry out,  *)
(* an integrity error with nothing to name.  No other path loses a torrent.          *)
NothingSeedsUntracked ==
  \A h \in client :
    \/ row[h].status # "none"
    \/ h \in stray
    \/ \E g \in Grabbers : grabs[g].pc # "idle" /\ grabs[g].h = h /\ grabs[g].added

(* The removal that _resolve_same_hash_owner makes under its claim never takes a   *)
(* torrent some request has come to own meanwhile.                            *)
ClaimedRemovalSparesOwner ==
  \A g \in Grabbers : grabs[g].pc = "claimed" => ~Active(grabs[g].h)

(* The client and the downloads agree: no torrent is left that nobody tracks, and    *)
(* none is taken that somebody owns.                                          *)
TorrentsAreOwned == NothingSeedsUntracked /\ ClaimedRemovalSparesOwner
=============================================================================
