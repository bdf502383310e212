----------------------------- MODULE MCRequests -----------------------------
EXTENDS Availability

CONSTANTS u1, u2
MCUsers == {u1, u2}
Alike == {[u \in MCUsers |-> u], [u \in MCUsers |-> IF u = u1 THEN u2 ELSE u1]}

(* A season, one to come, the show from a watchlist, an episode, a forced film.       *)
Ask1 == [want |-> {1}, episodes |-> FALSE, force |-> FALSE, expand |-> FALSE]
SmallAsks == {Ask1, [Ask1 EXCEPT !.want = {3}], [Ask1 EXCEPT !.want = {}, !.expand = TRUE],
              [Ask1 EXCEPT !.episodes = TRUE], [Ask1 EXCEPT !.force = TRUE]}

(* Nothing yet; a film answered on a wrong listing, alone or before a copy was forced;    *)
(* a show whose first season was imported.                                          *)
Row(o, scopes) ==
  [status |-> scopes[1], scopes |-> scopes, owner |-> o,
   subscribers |-> {o} \ {"nobody"}, regrab |-> {}, imported |-> {},
   generation |-> [s \in DOMAIN scopes |-> 0], verified |-> FALSE, minted |-> FALSE, deleted |-> FALSE]
Mistaken(o) == Row(o, <<"available">>)
Held(o) == [Mistaken(o) EXCEPT !.imported = {1}, !.generation = <<1>>]
Imported(o) ==
  [Row(o, <<"completed", "none", "none">>) EXCEPT !.imported = {1}, !.generation = <<1, 0, 0>>]
Owners == MCUsers \cup {"nobody"}
MCPasts ==
  {[media_type |-> k, rows |-> <<>>, started |-> 0] : k \in {"movie", "tv"}}
  \cup {[media_type |-> "movie", rows |-> <<Mistaken(o)>>, started |-> 2] : o \in Owners}
  \cup {[media_type |-> "movie", rows |-> <<Mistaken(o), Held(p)>>, started |-> 2] : o \in Owners, p \in Owners}
  \cup {[media_type |-> "tv", rows |-> <<Imported(o)>>, started |-> 2] : o \in Owners}

(* A show Plex has: all of it, two seasons of it, an episode of one.                       *)
InLibrary == [media_type |-> "tv", rows |-> <<Row(u1, <<"available", "none", "none">>)>>, started |-> 0]
LibraryPasts == {InLibrary}
LibraryAsks == {[Ask1 EXCEPT !.want = {}, !.expand = TRUE], [Ask1 EXCEPT !.want = {1, 2}],
                [Ask1 EXCEPT !.episodes = TRUE]}
=============================================================================
