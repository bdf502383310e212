------------------------- MODULE GrabProtocolProofs -------------------------
(***************************************************************************)
(* GrabProtocol keeps its two promises for every number of calls, seasons,         *)
(* torrents, failures, cancels and crashes: the invariant Inv and that every step  *)
(* preserves it.                                                            *)
(*                                                                         *)
(* Beside the types, Inv says of the rows that what they claim is disjoint and of    *)
(* one request (RowsFit, OneRequest); of a call, what it still knows about the      *)
(* row it works on (CallsFit); and of the registry of removals, that it counts       *)
(* exactly the calls and the operators that are about to remove (Counted).         *)
(***************************************************************************)
EXTENDS GrabProtocol, FiniteSetTheorems, TLAPS

Statuses == {"none", "pending", "searching", "no_acceptable_release", "downloading",
             "completed", "cancelled", "failed"}
Rows == [status : {"none", "active", "failed", "imported"}, request : {"none", First, Again},
         scopes : SUBSET Scopes, claims : SUBSET Scopes]

(* Where a call can be: before its torrent is in the client, past the point where   *)
(* it met a row of its own, and while it holds a removal.                      *)
Before == {"pre", "guard", "add"}
Holding == {"locked", "claimed"}
Attaching == {"attach", "lock", "collide", "reprove", "alive", "owner"} \cup Holding
Pcs == Before \cup Attaching \cup {"exists", "conflict", "own", "integrity", "lost", "remove"}
Calls == [pc : Pcs, s : Scopes, h : Hashes, targets : SUBSET Scopes, known : BOOLEAN,
          seen : Statuses, added : BOOLEAN, reuse : BOOLEAN,
          back : {"none", "guard", "conflict", "own", "create"}]

GrabTypes ==
  /\ kind \in Kinds
  /\ want \in [Scopes -> Statuses]
  /\ row \in [Hashes -> Rows]
  /\ blocklist \subseteq Hashes /\ client \subseteq Hashes
  /\ ending \subseteq Hashes /\ stray \subseteq Hashes
  /\ removing \in [Hashes -> Int]
  /\ grabs \in [Grabbers -> Calls \cup {Idle}]

(* What a row holds is of its own request, and claimed; nothing else claims it.   *)
RowFit(h) ==
  /\ row[h].scopes \subseteq row[h].claims
  /\ row[h].status # "active" => row[h].claims = {}
  /\ \A s \in row[h].claims : RequestOf(s) = row[h].request
RowsFit ==
  /\ \A h \in Hashes : RowFit(h)
  /\ \A h, k \in Hashes : h # k => row[h].claims \cap row[k].claims = {}

(* A season is downloading exactly when a row carries it. *)
Carried ==
  \A s \in Scopes : want[s] = "downloading" <=> \E h \in Hashes : s \in row[h].scopes

(* The title has one request that is not cancelled, and an active row is its.     *)
OneRequest ==
  /\ \A s, t \in Scopes :
       RequestOf(s) = Again /\ want[s] # "none" /\ RequestOf(t) = First
         => want[t] \in {"none", "cancelled"}
  /\ \A h \in Hashes : row[h].status = "active" =>
       \E s \in Scopes : RequestOf(s) = row[h].request /\ want[s] \notin {"none", "cancelled"}

(* What a call in progress knows. *)
Fit(c) ==
  /\ c \in Calls
  /\ c.s \in c.targets
  /\ \A t \in c.targets : RequestOf(t) = RequestOf(c.s) /\ want[t] # "none"
  /\ c.targets = {c.s} \/ (Tv /\ c.h = Pack)
  /\ c.seen \notin {"none", "cancelled"}
  /\ c.pc \in Before => ~c.added
  /\ c.pc \in Attaching =>
       c.back \in {"guard", "conflict", "own"} /\ (c.back = "guard" => ~c.added)
  /\ (c.pc \in Attaching \cup {"lost"} \/ c.reuse) => row[c.h].status # "none"
CallsFit == \A g \in Grabbers : grabs[g] = Idle \/ Fit(grabs[g])

(* The registry of removals counts who is about to remove. *)
Holders(h) == {g \in Grabbers : grabs[g].pc \in Holding /\ grabs[g].h = h}
Counted ==
  \A h \in Hashes :
    /\ IsFiniteSet(Holders(h))
    /\ removing[h] = Cardinality(Holders(h)) + (IF h \in ending THEN 1 ELSE 0)

Inv == /\ GrabTypes /\ RowsFit /\ Carried /\ OneRequest /\ CallsFit /\ Counted
       /\ NothingSeedsUntracked /\ ClaimedRemovalSparesOwner

----------------------------------------------------------------------------
(* A call's record.                                                         *)

(* Nothing is forgotten: a wanted season stays wanted and a row stays a row. *)
Grows ==
  /\ kind' = kind
  /\ \A s \in Scopes : want[s] # "none" => want'[s] # "none"
  /\ \A h \in Hashes : row[h].status # "none" => row'[h].status # "none"

LEMMA PcsHas ==
  /\ "idle" \notin Pcs
  /\ \A pc \in {"pre", "add", "guard", "exists", "conflict", "own", "integrity", "lost", "remove",
                "attach", "lock", "collide", "reprove", "alive", "owner", "locked", "claimed"} :
       pc \in Pcs
  BY DEF Pcs, Before, Attaching, Holding

(* What a call knows stays true of a world that grows. *)
LEMMA FitStays == ASSUME NEW c, Fit(c), Grows PROVE Fit(c)'
  <1>1. c \in Calls /\ c.h \in Hashes /\ \A t \in c.targets : t \in Scopes
    BY DEF Fit, Calls
  <1>. QED BY <1>1 DEF Fit, Grows, Tv

(* A step of one call leaves the others' knowledge alone. *)
LEMMA CallsStay ==
  ASSUME GrabTypes, CallsFit, Grows, NEW g \in Grabbers, NEW c,
         grabs' = [grabs EXCEPT ![g] = c], c = Idle \/ Fit(c)'
  PROVE  CallsFit'
  <1>. SUFFICES ASSUME NEW f \in Grabbers PROVE (grabs[f] = Idle \/ Fit(grabs[f]))'
    BY DEF CallsFit
  <1>1. CASE f = g
    <2>1. grabs'[f] = c
      BY <1>1 DEF GrabTypes
    <2>. QED BY <2>1 DEF Fit, Tv
  <1>2. CASE f # g
    <2>1. grabs'[f] = grabs[f]
      BY <1>2 DEF GrabTypes
    <2>2. CASE grabs[f] = Idle
      BY <2>1, <2>2
    <2>3. CASE Fit(grabs[f])
      BY <2>1, <2>3, FitStays DEF Fit, Tv
    <2>. QED BY <2>2, <2>3 DEF CallsFit
  <1>. QED BY <1>1, <1>2

(* The calls that hold a removal are the same when one that holds none moves on    *)
(* and takes none.                                                          *)
LEMMA HoldersStay ==
  ASSUME GrabTypes, NEW g \in Grabbers, NEW c, grabs' = [grabs EXCEPT ![g] = c],
         grabs[g].pc \notin Holding, c.pc \notin Holding, NEW h \in Hashes
  PROVE  Holders(h)' = Holders(h)
  BY DEF GrabTypes, Holders

(* The torrent a call created is not dropped by it: the row tracks it, it is owned    *)
(* up to, or the call still has it.                                          *)
Handed(g, c) ==
  grabs[g].pc # "idle" /\ grabs[g].added /\ grabs[g].h \in client' =>
    \/ row'[grabs[g].h].status # "none"
    \/ grabs[g].h \in stray'
    \/ c.pc # "idle" /\ c.added /\ c.h = grabs[g].h

LEMMA TrackedStays ==
  ASSUME GrabTypes, NothingSeedsUntracked, Grows, NEW g \in Grabbers, NEW c,
         grabs' = [grabs EXCEPT ![g] = c], client' \subseteq client, stray \subseteq stray',
         Handed(g, c)
  PROVE  NothingSeedsUntracked'
  <1>. SUFFICES ASSUME NEW h \in client',
                       ~(row'[h].status # "none"), h \notin stray'
                PROVE  \E f \in Grabbers : grabs'[f].pc # "idle" /\ grabs'[f].h = h /\ grabs'[f].added
    BY DEF NothingSeedsUntracked
  <1>1. PICK f \in Grabbers : grabs[f].pc # "idle" /\ grabs[f].h = h /\ grabs[f].added
    BY DEF NothingSeedsUntracked, Grows, GrabTypes
  <1>2. CASE f = g
    BY <1>1, <1>2 DEF Handed, GrabTypes
  <1>3. CASE f # g
    BY <1>1, <1>3 DEF GrabTypes
  <1>. QED BY <1>2, <1>3

(* The steps that read: a call moves on and nothing else does. *)
LEMMA Passes ==
  ASSUME Inv, NEW g \in Grabbers, NEW c, c = Idle \/ Fit(c),
         grabs' = [grabs EXCEPT ![g] = c], grabs[g].pc \notin Holding, c.pc \notin Holding,
         UNCHANGED <<database, removing, ending>>,
         client' \subseteq client, stray \subseteq stray', stray' \subseteq Hashes, Handed(g, c)
  PROVE  Inv'
  <1>1. Grows /\ UNCHANGED <<kind, want, row, blocklist>>
    BY DEF database, Grows
  <1>2. CallsFit' /\ GrabTypes'
    <2>1. c = Idle \/ Fit(c)'
      BY <1>1, FitStays
    <2>2. c \in Calls \cup {Idle}
      BY DEF Fit
    <2>3. grabs' \in [Grabbers -> Calls \cup {Idle}]
      BY <2>2 DEF Inv, GrabTypes
    <2>. QED BY <1>1, <2>1, <2>3, CallsStay DEF Inv, GrabTypes, database
  <1>3. NothingSeedsUntracked'
    BY <1>1, TrackedStays DEF Inv
  <1>4. RowsFit' /\ Carried' /\ OneRequest'
    BY <1>1 DEF Inv, RowsFit, RowFit, Carried, OneRequest
  <1>5. \A h \in Hashes : Holders(h)' = Holders(h)
    BY HoldersStay DEF Inv
  <1>6. Counted'
    BY <1>5 DEF Inv, Counted
  <1>7. ClaimedRemovalSparesOwner'
    BY <1>1 DEF Inv, GrabTypes, ClaimedRemovalSparesOwner, Active, Holding
  <1>. QED BY <1>2, <1>3, <1>4, <1>6, <1>7 DEF Inv

(* Going on to pc, with what pc asks for. *)
LEMMA GoesIs ==
  ASSUME NEW c, Fit(c), NEW pc \in Pcs,
         pc \in Before => ~c.added,
         pc \in Attaching =>
           c.back \in {"guard", "conflict", "own"} /\ (c.back = "guard" => ~c.added),
         pc \in Attaching \cup {"lost"} => row[c.h].status # "none"
  PROVE  /\ Fit([c EXCEPT !.pc = pc])
         /\ [c EXCEPT !.pc = pc].pc = pc
         /\ [c EXCEPT !.pc = pc].added = c.added
         /\ [c EXCEPT !.pc = pc].h = c.h
  BY DEF Fit, Calls

LEMMA AttachesIs ==
  ASSUME NEW c, Fit(c), NEW back \in {"guard", "conflict", "own"},
         back = "guard" => ~c.added, row[c.h].status # "none"
  PROVE  /\ Fit([c EXCEPT !.pc = "attach", !.back = back])
         /\ [c EXCEPT !.pc = "attach", !.back = back].pc = "attach"
         /\ [c EXCEPT !.pc = "attach", !.back = back].added = c.added
         /\ [c EXCEPT !.pc = "attach", !.back = back].h = c.h
  BY PcsHas DEF Fit, Calls, Before, Attaching

(* What is known of a call that is running. *)
LEMMA Running ==
  ASSUME Inv, NEW g \in Grabbers, grabs[g].pc # "idle"
  PROVE  Fit(grabs[g]) /\ grabs[g] \in Calls /\ grabs[g].h \in Hashes
  BY DEF Inv, CallsFit, Fit, Calls, Idle

(* A call that returns hands over what it created. *)
LEMMA ReturnKeeps ==
  ASSUME Inv, NEW g \in Grabbers, grabs[g].pc # "idle", grabs[g].pc \notin Holding, Returns(g),
         UNCHANGED <<database, client, removing, ending, stray>>,
         grabs[g].added => row[grabs[g].h].status # "none"
  PROVE  Inv'
  <1>1. Idle.pc \notin Holding /\ Handed(g, Idle)
    BY DEF Idle, Holding, Handed, database
  <1>2. stray' \subseteq Hashes
    BY DEF Inv, GrabTypes
  <1>. QED BY <1>1, <1>2, Passes DEF Returns

(* A call that goes on keeps what it created. *)
LEMMA GoKeeps ==
  ASSUME Inv, NEW g \in Grabbers, NEW pc \in Pcs \ Holding, Goes(g, pc),
         grabs[g].pc # "idle", grabs[g].pc \notin Holding,
         UNCHANGED <<database, client, removing, ending, stray>>,
         pc \in Before => ~grabs[g].added,
         pc \in Attaching =>
           grabs[g].back \in {"guard", "conflict", "own"} /\ (grabs[g].back = "guard" => ~grabs[g].added),
         pc \in Attaching \cup {"lost"} => row[grabs[g].h].status # "none"
  PROVE  Inv'
  <1>1. Fit(grabs[g])
    BY Running
  <1>. DEFINE c == [grabs[g] EXCEPT !.pc = pc]
  <1>2. Fit(c) /\ c.pc = pc /\ c.added = grabs[g].added /\ c.h = grabs[g].h
    BY <1>1, GoesIs
  <1>3. grabs' = [grabs EXCEPT ![g] = c]
    BY DEF Goes
  <1>. HIDE DEF c
  <1>4. Handed(g, c) /\ stray' \subseteq Hashes
    BY <1>2 DEF Handed, Inv, GrabTypes, Pcs, Before, Attaching, Holding
  <1>. QED BY <1>2, <1>3, <1>4, Passes

(* A call that loses its torrent removes it, if it created it. *)
LEMMA LeaveKeeps ==
  ASSUME Inv, NEW g \in Grabbers, LeavesTorrent(g), grabs[g].pc # "idle", grabs[g].pc \notin Holding,
         UNCHANGED <<database, client, removing, ending, stray>>
  PROVE  Inv'
  <1>1. CASE grabs[g].added
    <2>1. "remove" \in Pcs \ Holding /\ "remove" \notin Before \cup Attaching \cup {"lost"}
      BY DEF Pcs, Before, Attaching, Holding
    <2>. QED BY <1>1, <2>1, GoKeeps DEF LeavesTorrent
  <1>2. CASE ~grabs[g].added
    BY <1>2, ReturnKeeps DEF LeavesTorrent
  <1>. QED BY <1>1, <1>2

(* A call that meets an active row. *)
LEMMA MeetKeeps ==
  ASSUME Inv, NEW g \in Grabbers, NEW back \in {"guard", "conflict", "own"},
         MeetsActive(g, back), Active(grabs[g].h), grabs[g].pc # "idle", grabs[g].pc \notin Holding,
         UNCHANGED <<database, client, removing, ending, stray>>,
         back = "guard" => ~grabs[g].added
  PROVE  Inv'
  <1>1. Fit(grabs[g]) /\ row[grabs[g].h].status # "none"
    BY Running DEF Active
  <1>2. CASE Returns(g)
    BY <1>1, <1>2, ReturnKeeps
  <1>3. CASE Attaches(g, back)
    <2>. DEFINE c == [grabs[g] EXCEPT !.pc = "attach", !.back = back]
    <2>1. Fit(c) /\ c.pc = "attach" /\ c.added = grabs[g].added /\ c.h = grabs[g].h
      BY <1>1, AttachesIs
    <2>2. grabs' = [grabs EXCEPT ![g] = c]
      BY <1>3 DEF Attaches
    <2>. HIDE DEF c
    <2>3. Handed(g, c) /\ stray' \subseteq Hashes /\ c.pc \notin Holding
      BY <2>1 DEF Handed, Inv, GrabTypes, Holding
    <2>. QED BY <2>1, <2>2, <2>3, Passes
  <1>. QED BY <1>2, <1>3 DEF MeetsActive

----------------------------------------------------------------------------
(* The steps that only read.                                                *)

LEMMA GrabKeeps == ASSUME Inv, NEW g \in Grabbers, grab(g) PROVE Inv'
  <1>0. PICK s \in Scopes, h \in Hashes \ blocklist, known \in BOOLEAN :
          \E targets \in _planned_target_seasons(s, h) :
            /\ h = Pack \/ s[2] = A
            /\ want[s] # "none" /\ _scope_still_grabbable(s)
            /\ grabs' = [grabs EXCEPT ![g] =
                 [pc |-> IF known THEN "pre" ELSE "add", s |-> s, h |-> h, targets |-> targets,
                  known |-> known, seen |-> want[s], added |-> FALSE, reuse |-> FALSE,
                  back |-> "none"]]
    BY DEF grab
  <1>1. PICK targets \in _planned_target_seasons(s, h) :
            /\ h = Pack \/ s[2] = A
            /\ want[s] # "none" /\ _scope_still_grabbable(s)
            /\ grabs' = [grabs EXCEPT ![g] =
                 [pc |-> IF known THEN "pre" ELSE "add", s |-> s, h |-> h, targets |-> targets,
                  known |-> known, seen |-> want[s], added |-> FALSE, reuse |-> FALSE,
                  back |-> "none"]]
    BY <1>0
  <1>. DEFINE c == [pc |-> IF known THEN "pre" ELSE "add", s |-> s, h |-> h, targets |-> targets,
                    known |-> known, seen |-> want[s], added |-> FALSE, reuse |-> FALSE,
                    back |-> "none"]
  <1>2. want[s] # "cancelled" /\ want[s] \in Statuses
    BY <1>1 DEF _scope_still_grabbable, TERMINAL_REQUEST_STATUS_VALUES, Inv, GrabTypes
  <1>3. /\ targets \subseteq Scopes /\ s \in targets
        /\ \A t \in targets : RequestOf(t) = RequestOf(s) /\ want[t] # "none"
        /\ targets = {s} \/ (Tv /\ h = Pack)
    BY <1>1 DEF _planned_target_seasons, _active_guard_seasons, ScopesOf
  <1>4. Fit(c) /\ c.pc \notin Holding
    <2>1. c.pc \in Before /\ c.pc \in Pcs /\ c.pc \notin Attaching \cup Holding \cup {"lost"}
      BY DEF Pcs, Before, Attaching, Holding
    <2>2. c \in Calls
      BY <1>2, <1>3, <2>1 DEF Calls
    <2>. QED BY <1>2, <1>3, <2>1, <2>2 DEF Fit
  <1>5. grabs' = [grabs EXCEPT ![g] = c]
    BY <1>1
  <1>6. Handed(g, c) /\ stray' \subseteq Hashes /\ grabs[g].pc \notin Holding
    BY DEF grab, Handed, Inv, GrabTypes, Holding
  <1>. HIDE DEF c
  <1>. QED BY <1>4, <1>5, <1>6, Passes DEF grab

LEMMA KnownHashKeeps == ASSUME Inv, NEW g \in Grabbers, KnownHash(g) PROVE Inv'
  <1>1. /\ grabs[g].pc = "pre" /\ grabs[g].pc # "idle" /\ grabs[g].pc \notin Holding
        /\ UNCHANGED <<database, client, removing, ending, stray>>
    BY DEF KnownHash, Holding
  <1>2. ~grabs[g].added
    BY <1>1, Running DEF Fit, Before
  <1>3. \/ Returns(g)
        \/ Active(grabs[g].h) /\ MeetsActive(g, "guard")
        \/ Goes(g, "guard")
    BY DEF KnownHash
  <1>4. "guard" \in Pcs \ Holding /\ "guard" \notin Attaching \cup {"lost"}
    BY DEF Pcs, Before, Attaching, Holding
  <1>. QED BY <1>1, <1>2, <1>3, <1>4, ReturnKeeps, MeetKeeps, GoKeeps

LEMMA ParallelGuardKeeps == ASSUME Inv, NEW g \in Grabbers, ParallelGuard(g) PROVE Inv'
  <1>1. /\ grabs[g].pc = "guard" /\ grabs[g].pc # "idle" /\ grabs[g].pc \notin Holding
        /\ UNCHANGED <<database, client, removing, ending, stray>>
    BY DEF ParallelGuard, Holding
  <1>2. ~grabs[g].added
    BY <1>1, Running DEF Fit, Before
  <1>3. "add" \in Pcs \ Holding /\ "add" \notin Attaching \cup {"lost"}
    BY DEF Pcs, Before, Attaching, Holding
  <1>. QED BY <1>1, <1>2, <1>3, ReturnKeeps, GoKeeps DEF ParallelGuard

LEMMA ReadRowKeeps == ASSUME Inv, NEW g \in Grabbers, ReadRow(g) PROVE Inv'
  <1>1. /\ grabs[g].pc = "exists" /\ grabs[g].pc # "idle" /\ grabs[g].pc \notin Holding
        /\ UNCHANGED <<database, client, removing, ending, stray>>
    BY DEF ReadRow, Holding
  <1>2. CASE Active(grabs[g].h)
    <2>1. MeetsActive(g, "conflict")
      BY <1>2 DEF ReadRow
    <2>. QED BY <1>1, <1>2, <2>1, MeetKeeps
  <1>3. CASE ~Active(grabs[g].h)
    <2>. DEFINE c == [grabs[g] EXCEPT !.pc = "conflict", !.reuse = Terminal(grabs[g].h)]
    <2>1. Fit(grabs[g])
      BY <1>1, Running
    <2>2. Terminal(grabs[g].h) \in BOOLEAN /\ (Terminal(grabs[g].h) => row[grabs[g].h].status # "none")
      BY DEF Terminal
    <2>3. Fit(c) /\ c.pc = "conflict" /\ c.added = grabs[g].added /\ c.h = grabs[g].h
      BY <2>1, <2>2, PcsHas DEF Fit, Calls, Before, Attaching, Holding
    <2>4. grabs' = [grabs EXCEPT ![g] = c]
      BY <1>3 DEF ReadRow
    <2>. HIDE DEF c
    <2>5. Handed(g, c) /\ stray' \subseteq Hashes /\ c.pc \notin Holding
      BY <1>1, <2>3 DEF Handed, Inv, GrabTypes, Holding
    <2>. QED BY <1>1, <2>3, <2>4, <2>5, Passes
  <1>. QED BY <1>2, <1>3

LEMMA ReadConflictKeeps == ASSUME Inv, NEW g \in Grabbers, ReadConflict(g) PROVE Inv'
  <1>1. /\ grabs[g].pc # "idle" /\ grabs[g].pc \notin Holding
        /\ UNCHANGED <<database, client, removing, ending, stray>>
        /\ LeavesTorrent(g) \/ Goes(g, "own")
    BY DEF ReadConflict, Holding
  <1>2. "own" \in Pcs \ Holding /\ "own" \notin Before \cup Attaching \cup {"lost"}
    BY DEF Pcs, Before, Attaching, Holding
  <1>. QED BY <1>1, <1>2, LeaveKeeps, GoKeeps

LEMMA IntegrityErrorKeeps == ASSUME Inv, NEW g \in Grabbers, IntegrityError(g) PROVE Inv'
  <1>1. /\ grabs[g].pc = "integrity" /\ grabs[g].pc # "idle" /\ grabs[g].pc \notin Holding
        /\ UNCHANGED <<database, client, removing, ending>>
    BY DEF IntegrityError, Holding
  <1>2. \/ LeavesTorrent(g) /\ UNCHANGED stray
        \/ Raises(g)
        \/ Active(grabs[g].h) /\ MeetsActive(g, "own") /\ UNCHANGED stray
        \/ /\ row[grabs[g].h].status # "none" /\ UNCHANGED stray
           /\ grabs' = [grabs EXCEPT ![g].pc = "own", ![g].reuse = TRUE, ![g].back = "none"]
    BY DEF IntegrityError
  <1>3. CASE Raises(g)
    <2>1. Idle.pc \notin Holding /\ Handed(g, Idle) /\ stray \subseteq stray' /\ stray' \subseteq Hashes
      BY <1>1, <1>3, Running DEF Raises, Idle, Holding, Handed, Inv, GrabTypes
    <2>. QED BY <1>1, <1>3, <2>1, Passes DEF Raises, Returns
  <1>4. CASE /\ row[grabs[g].h].status # "none" /\ UNCHANGED stray
             /\ grabs' = [grabs EXCEPT ![g].pc = "own", ![g].reuse = TRUE, ![g].back = "none"]
    <2>. DEFINE c == [grabs[g] EXCEPT !.pc = "own", !.reuse = TRUE, !.back = "none"]
    <2>1. Fit(grabs[g])
      BY <1>1, Running
    <2>3. Fit(c) /\ c.pc = "own" /\ c.added = grabs[g].added /\ c.h = grabs[g].h
      BY <1>4, <2>1, PcsHas DEF Fit, Calls, Before, Attaching, Holding
    <2>4. grabs' = [grabs EXCEPT ![g] = c]
      BY <1>4
    <2>. HIDE DEF c
    <2>5. Handed(g, c) /\ stray' \subseteq Hashes /\ c.pc \notin Holding
      BY <1>1, <1>4, <2>3 DEF Handed, Inv, GrabTypes, Holding
    <2>. QED BY <1>1, <1>4, <2>3, <2>4, <2>5, Passes
  <1>. QED BY <1>1, <1>2, <1>3, <1>4, LeaveKeeps, MeetKeeps

LEMMA LostReuseKeeps == ASSUME Inv, NEW g \in Grabbers, LostReuse(g) PROVE Inv'
  <1>1. /\ grabs[g].pc = "lost" /\ grabs[g].pc # "idle" /\ grabs[g].pc \notin Holding
        /\ UNCHANGED <<database, client, removing, ending, stray>>
        /\ (Active(grabs[g].h) /\ MeetsActive(g, "own")) \/ Returns(g)
    BY DEF LostReuse, Holding
  <1>2. row[grabs[g].h].status # "none"
    BY <1>1, Running DEF Fit
  <1>. QED BY <1>1, <1>2, MeetKeeps, ReturnKeeps

LEMMA RemoveIfAddedKeeps == ASSUME Inv, NEW g \in Grabbers, _remove_torrent_if_added(g) PROVE Inv'
  <1>1. /\ grabs[g].pc = "remove" /\ grabs[g].pc # "idle" /\ grabs[g].pc \notin Holding
        /\ UNCHANGED <<database, removing, ending>> /\ Returns(g)
        /\ \/ client' = client \ {grabs[g].h} /\ UNCHANGED stray
           \/ UNCHANGED client /\ stray' = stray \cup {grabs[g].h}
    BY DEF _remove_torrent_if_added, Holding
  <1>2. /\ client' \subseteq client /\ stray \subseteq stray' /\ stray' \subseteq Hashes
        /\ Handed(g, Idle) /\ Idle.pc \notin Holding
    BY <1>1, Running DEF Handed, Idle, Holding, Inv, GrabTypes
  <1>. QED BY <1>1, <1>2, Passes DEF Returns

LEMMA AttachGuardKeeps ==
  ASSUME Inv, NEW g \in Grabbers, _attach_target_scopes_to_existing_download(g)
  PROVE  Inv'
  <1>1. /\ grabs[g].pc = "attach" /\ grabs[g].pc # "idle" /\ grabs[g].pc \notin Holding
        /\ UNCHANGED <<database, client, removing, ending, stray>>
        /\ Returns(g) \/ Goes(g, "lock")
    BY DEF _attach_target_scopes_to_existing_download, Holding
  <1>2. /\ row[grabs[g].h].status # "none" /\ grabs[g].back \in {"guard", "conflict", "own"}
        /\ grabs[g].back = "guard" => ~grabs[g].added
    BY <1>1, Running DEF Fit, Attaching
  <1>3. "lock" \in Pcs \ Holding /\ "lock" \notin Before
    BY DEF Pcs, Before, Attaching, Holding
  <1>. QED BY <1>1, <1>2, <1>3, ReturnKeeps, GoKeeps

LEMMA CollidesKeeps == ASSUME Inv, NEW g \in Grabbers, Collides(g) PROVE Inv'
  <1>1. /\ grabs[g].pc = "collide" /\ grabs[g].pc # "idle" /\ grabs[g].pc \notin Holding
        /\ UNCHANGED <<database, client, removing, ending, stray>>
        /\ LeavesTorrent(g) \/ Returns(g) \/ Goes(g, "reprove") \/ Goes(g, "attach")
    BY DEF Collides, Holding
  <1>2. /\ row[grabs[g].h].status # "none" /\ grabs[g].back \in {"guard", "conflict", "own"}
        /\ grabs[g].back = "guard" => ~grabs[g].added
    BY <1>1, Running DEF Fit, Attaching
  <1>3. \A pc \in {"reprove", "attach"} : pc \in Pcs \ Holding /\ pc \notin Before
    BY DEF Pcs, Before, Attaching, Holding
  <1>. QED BY <1>1, <1>2, <1>3, LeaveKeeps, ReturnKeeps, GoKeeps

LEMMA ReproveKeeps ==
  ASSUME Inv, NEW g \in Grabbers, _refuse_unsafe_attachment_loss_recovery(g)
  PROVE  Inv'
  <1>1. /\ grabs[g].pc = "reprove" /\ grabs[g].pc # "idle" /\ grabs[g].pc \notin Holding
        /\ UNCHANGED <<database, client, removing, ending, stray>>
        /\ Returns(g) \/ (grabs[g].back = "guard" /\ Goes(g, "guard")) \/ Goes(g, "alive")
    BY DEF _refuse_unsafe_attachment_loss_recovery, Holding
  <1>2. /\ row[grabs[g].h].status # "none" /\ grabs[g].back \in {"guard", "conflict", "own"}
        /\ grabs[g].back = "guard" => ~grabs[g].added
    BY <1>1, Running DEF Fit, Attaching
  <1>3. \A pc \in {"guard", "alive"} : pc \in Pcs \ Holding /\ (pc \in Before => pc = "guard")
    BY DEF Pcs, Before, Attaching, Holding
  <1>. QED BY <1>1, <1>2, <1>3, ReturnKeeps, GoKeeps

LEMMA SurvivingKeeps ==
  ASSUME Inv, NEW g \in Grabbers, _surviving_claim_after_attachment_loss(g)
  PROVE  Inv'
  <1>1. /\ grabs[g].pc = "alive" /\ grabs[g].pc # "idle" /\ grabs[g].pc \notin Holding
        /\ UNCHANGED <<database, client, removing, ending, stray>>
        /\ \/ Returns(g)
           \/ grabs' = [grabs EXCEPT ![g].pc = grabs[g].back, ![g].added = FALSE, ![g].reuse = TRUE]
    BY DEF _surviving_claim_after_attachment_loss, Holding
  <1>2. /\ Fit(grabs[g]) /\ row[grabs[g].h].status # "none"
        /\ grabs[g].back \in {"guard", "conflict", "own"}
        /\ grabs[g].back = "guard" => ~grabs[g].added
    BY <1>1, Running DEF Fit, Attaching
  <1>3. CASE Returns(g)
    BY <1>1, <1>2, <1>3, ReturnKeeps
  <1>4. CASE grabs' = [grabs EXCEPT ![g].pc = grabs[g].back, ![g].added = FALSE, ![g].reuse = TRUE]
    <2>. DEFINE c == [grabs[g] EXCEPT !.pc = grabs[g].back, !.added = FALSE, !.reuse = TRUE]
    <2>1. \A pc \in {"guard", "conflict", "own"} : pc \in Pcs \ Attaching /\ pc # "lost"
      BY DEF Pcs, Before, Attaching, Holding
    <2>2. Fit(c) /\ c.pc = grabs[g].back
      BY <1>2, <2>1 DEF Fit, Calls
    <2>3. grabs' = [grabs EXCEPT ![g] = c]
      BY <1>4
    <2>. HIDE DEF c
    <2>4. Handed(g, c) /\ stray' \subseteq Hashes /\ c.pc \notin Holding
      BY <1>1, <1>2, <2>2 DEF Handed, Inv, GrabTypes, Holding, database
    <2>. QED BY <1>1, <2>2, <2>3, <2>4, Passes
  <1>. QED BY <1>1, <1>3, <1>4

----------------------------------------------------------------------------
(* The steps on the client and on the registry of removals.                   *)

(* A call takes the claim on the removal of its torrent, or releases it. *)
LEMMA ClaimTakenCounts ==
  ASSUME GrabTypes, Counted, NEW g \in Grabbers, NEW c, grabs' = [grabs EXCEPT ![g] = c],
         grabs[g].pc \notin Holding, c.pc \in Holding, c.h \in Hashes,
         removing' = [removing EXCEPT ![c.h] = @ + 1], ending' = ending
  PROVE  Counted'
  <1>. SUFFICES ASSUME NEW h \in Hashes
                PROVE  /\ IsFiniteSet(Holders(h)')
                       /\ removing'[h] = Cardinality(Holders(h)') + (IF h \in ending THEN 1 ELSE 0)
    BY DEF Counted
  <1>1. /\ IsFiniteSet(Holders(h))
        /\ removing[h] = Cardinality(Holders(h)) + (IF h \in ending THEN 1 ELSE 0)
        /\ Cardinality(Holders(h)) \in Nat
    BY FS_CardinalityType DEF Counted
  <1>2. CASE h = c.h
    <2>1. Holders(h)' = Holders(h) \cup {g} /\ g \notin Holders(h)
      BY <1>2 DEF GrabTypes, Holders
    <2>2. IsFiniteSet(Holders(h)') /\ Cardinality(Holders(h)') = Cardinality(Holders(h)) + 1
      BY <1>1, <2>1, FS_AddElement
    <2>3. removing'[h] = removing[h] + 1
      BY <1>2 DEF GrabTypes
    <2>. QED BY <1>1, <2>2, <2>3
  <1>3. CASE h # c.h
    <2>1. Holders(h)' = Holders(h) /\ removing'[h] = removing[h]
      BY <1>3 DEF GrabTypes, Holders
    <2>. QED BY <1>1, <2>1
  <1>. QED BY <1>2, <1>3

LEMMA ClaimReleasedCounts ==
  ASSUME GrabTypes, Counted, NEW g \in Grabbers, Returns(g), grabs[g].pc \in Holding,
         grabs[g].h \in Hashes, removing' = [removing EXCEPT ![grabs[g].h] = @ - 1],
         ending' = ending
  PROVE  Counted'
  <1>. SUFFICES ASSUME NEW h \in Hashes
                PROVE  /\ IsFiniteSet(Holders(h)')
                       /\ removing'[h] = Cardinality(Holders(h)') + (IF h \in ending THEN 1 ELSE 0)
    BY DEF Counted
  <1>1. /\ IsFiniteSet(Holders(h))
        /\ removing[h] = Cardinality(Holders(h)) + (IF h \in ending THEN 1 ELSE 0)
        /\ Cardinality(Holders(h)) \in Nat
    BY FS_CardinalityType DEF Counted
  <1>2. Idle.pc \notin Holding
    BY DEF Idle, Holding
  <1>3. CASE h = grabs[g].h
    <2>1. Holders(h)' = Holders(h) \ {g} /\ g \in Holders(h)
      BY <1>2, <1>3 DEF GrabTypes, Holders, Returns
    <2>2. IsFiniteSet(Holders(h)') /\ Cardinality(Holders(h)') = Cardinality(Holders(h)) - 1
      BY <1>1, <2>1, FS_RemoveElement
    <2>3. removing'[h] = removing[h] - 1
      BY <1>3 DEF GrabTypes
    <2>. QED BY <1>1, <2>2, <2>3
  <1>4. CASE h # grabs[g].h
    <2>1. Holders(h)' = Holders(h) /\ removing'[h] = removing[h]
      BY <1>2, <1>4 DEF GrabTypes, Holders, Returns
    <2>. QED BY <1>1, <2>1
  <1>. QED BY <1>3, <1>4

(* While a call holds a removal, the registry says so. *)
LEMMA HeldIsInFlight ==
  ASSUME Inv, NEW g \in Grabbers, grabs[g].pc \in Holding
  PROVE  removal_in_flight(grabs[g].h)
  <1>1. grabs[g].h \in Hashes
    BY Running DEF Holding
  <1>2. /\ IsFiniteSet(Holders(grabs[g].h)) /\ g \in Holders(grabs[g].h)
        /\ removing[grabs[g].h] = Cardinality(Holders(grabs[g].h))
                                    + (IF grabs[g].h \in ending THEN 1 ELSE 0)
    BY <1>1 DEF Inv, Counted, Holders
  <1>3. Cardinality(Holders(grabs[g].h)) \in Nat /\ Cardinality(Holders(grabs[g].h)) # 0
    BY <1>2, FS_CardinalityType, FS_EmptySet
  <1>. QED BY <1>2, <1>3 DEF removal_in_flight

(* The claim on a removal moves with its call; the rows and the rest stay. *)
LEMMA HoldMoves ==
  ASSUME Inv, NEW g \in Grabbers, NEW c, c = Idle \/ Fit(c), grabs' = [grabs EXCEPT ![g] = c],
         UNCHANGED <<database, ending>>, removing' \in [Hashes -> Int], Counted',
         client' \subseteq client, stray \subseteq stray', stray' \subseteq Hashes, Handed(g, c),
         c.pc = "claimed" => ~Active(c.h)
  PROVE  Inv'
  <1>1. Grows /\ UNCHANGED <<kind, want, row, blocklist>>
    BY DEF database, Grows
  <1>2. CallsFit' /\ GrabTypes'
    <2>1. c = Idle \/ Fit(c)'
      BY <1>1, FitStays
    <2>2. c \in Calls \cup {Idle}
      BY DEF Fit
    <2>3. grabs' \in [Grabbers -> Calls \cup {Idle}]
      BY <2>2 DEF Inv, GrabTypes
    <2>. QED BY <1>1, <2>1, <2>3, CallsStay DEF Inv, GrabTypes
  <1>3. NothingSeedsUntracked'
    BY <1>1, TrackedStays DEF Inv
  <1>4. RowsFit' /\ Carried' /\ OneRequest'
    BY <1>1 DEF Inv, RowsFit, RowFit, Carried, OneRequest
  <1>5. ClaimedRemovalSparesOwner'
    BY <1>1 DEF Inv, GrabTypes, ClaimedRemovalSparesOwner, Active
  <1>. QED BY <1>2, <1>3, <1>4, <1>5 DEF Inv

LEMMA OwnerKeeps == ASSUME Inv, NEW g \in Grabbers, _resolve_same_hash_owner(g) PROVE Inv'
  <1>1. /\ grabs[g].pc = "owner" /\ grabs[g].pc # "idle" /\ grabs[g].pc \notin Holding
        /\ UNCHANGED <<database, client, ending, stray>>
    BY DEF _resolve_same_hash_owner, Holding
  <1>2. /\ Fit(grabs[g]) /\ grabs[g].h \in Hashes /\ row[grabs[g].h].status # "none"
        /\ grabs[g].back \in {"guard", "conflict", "own"}
        /\ grabs[g].back = "guard" => ~grabs[g].added
    BY <1>1, Running DEF Fit, Attaching
  <1>3. CASE Returns(g) /\ UNCHANGED removing
    BY <1>1, <1>2, <1>3, ReturnKeeps
  <1>4. CASE Goes(g, "locked") /\ removing' = [removing EXCEPT ![grabs[g].h] = @ + 1]
    <2>. DEFINE c == [grabs[g] EXCEPT !.pc = "locked"]
    <2>1. "locked" \in Pcs /\ "locked" \in Holding /\ "locked" \notin Before
      BY DEF Pcs, Before, Attaching, Holding
    <2>2. Fit(c) /\ c.pc = "locked" /\ c.added = grabs[g].added /\ c.h = grabs[g].h
      BY <1>2, <2>1, GoesIs
    <2>3. grabs' = [grabs EXCEPT ![g] = c]
      BY <1>4 DEF Goes
    <2>. HIDE DEF c
    <2>4. Handed(g, c) /\ stray' \subseteq Hashes
      BY <1>1, <2>2 DEF Handed, Inv, GrabTypes
    <2>5. Counted'
      BY <1>1, <1>2, <1>4, <2>1, <2>2, <2>3, ClaimTakenCounts DEF Inv
    <2>6. removing' \in [Hashes -> Int]
      BY <1>2, <1>4 DEF Inv, GrabTypes
    <2>. QED BY <1>1, <2>2, <2>3, <2>4, <2>5, <2>6, HoldMoves
  <1>. QED BY <1>3, <1>4 DEF _resolve_same_hash_owner

LEMMA LockTerminalKeeps == ASSUME Inv, NEW g \in Grabbers, lock_if_terminal(g) PROVE Inv'
  <1>1. /\ grabs[g].pc = "locked" /\ grabs[g].pc # "idle" /\ grabs[g].pc \in Holding
        /\ UNCHANGED <<database, client, ending, stray>>
    BY DEF lock_if_terminal, Holding
  <1>2. /\ Fit(grabs[g]) /\ grabs[g].h \in Hashes /\ row[grabs[g].h].status # "none"
        /\ grabs[g].back \in {"guard", "conflict", "own"}
        /\ grabs[g].back = "guard" => ~grabs[g].added
    BY <1>1, Running DEF Fit, Attaching
  <1>3. CASE Returns(g) /\ removing' = [removing EXCEPT ![grabs[g].h] = @ - 1]
    <2>1. Counted'
      BY <1>1, <1>2, <1>3, ClaimReleasedCounts DEF Inv
    <2>3. removing' \in [Hashes -> Int]
      BY <1>2, <1>3 DEF Inv, GrabTypes
    <2>2. Handed(g, Idle) /\ stray' \subseteq Hashes /\ Idle.pc # "claimed"
      BY <1>1, <1>2 DEF Handed, Inv, GrabTypes, database, Idle
    <2>. QED BY <1>1, <1>3, <2>1, <2>2, <2>3, HoldMoves DEF Returns
  <1>4. CASE Goes(g, "claimed") /\ UNCHANGED removing /\ ~Active(grabs[g].h)
    <2>. DEFINE c == [grabs[g] EXCEPT !.pc = "claimed"]
    <2>1. "claimed" \in Pcs /\ "claimed" \in Holding /\ "claimed" \notin Before
      BY DEF Pcs, Before, Attaching, Holding
    <2>2. Fit(c) /\ c.pc = "claimed" /\ c.added = grabs[g].added /\ c.h = grabs[g].h
      BY <1>2, <2>1, GoesIs
    <2>3. grabs' = [grabs EXCEPT ![g] = c]
      BY <1>4 DEF Goes
    <2>. HIDE DEF c
    <2>4. Handed(g, c) /\ stray' \subseteq Hashes
      BY <1>1, <2>2 DEF Handed, Inv, GrabTypes
    <2>5. \A h \in Hashes : Holders(h)' = Holders(h)
      BY <1>1, <2>1, <2>2, <2>3 DEF Inv, GrabTypes, Holders
    <2>6. Counted' /\ removing' \in [Hashes -> Int]
      BY <1>1, <1>4, <2>5 DEF Inv, GrabTypes, Counted
    <2>. QED BY <1>1, <1>4, <2>2, <2>3, <2>4, <2>6, HoldMoves
  <1>. QED BY <1>3, <1>4 DEF lock_if_terminal

LEMMA RemoveClaimedKeeps == ASSUME Inv, NEW g \in Grabbers, RemoveClaimed(g) PROVE Inv'
  <1>1. /\ grabs[g].pc = "claimed" /\ grabs[g].pc # "idle" /\ grabs[g].pc \in Holding
        /\ UNCHANGED <<database, ending>> /\ Returns(g)
        /\ removing' = [removing EXCEPT ![grabs[g].h] = @ - 1]
        /\ \/ client' = client \ {grabs[g].h} /\ UNCHANGED stray
           \/ UNCHANGED client /\ stray' = stray \cup {grabs[g].h}
    BY DEF RemoveClaimed, Holding
  <1>2. grabs[g].h \in Hashes
    BY <1>1, Running
  <1>3. Counted'
    BY <1>1, <1>2, ClaimReleasedCounts DEF Inv
  <1>5. removing' \in [Hashes -> Int]
    BY <1>1, <1>2 DEF Inv, GrabTypes
  <1>4. /\ client' \subseteq client /\ stray \subseteq stray' /\ stray' \subseteq Hashes
        /\ Handed(g, Idle) /\ Idle.pc # "claimed"
    BY <1>1, <1>2 DEF Handed, Inv, GrabTypes, Idle
  <1>. QED BY <1>1, <1>3, <1>4, <1>5, HoldMoves DEF Returns

(* The torrent enters the client: its call has it, or it is owned up to. *)
LEMMA AddMoves ==
  ASSUME Inv, NEW g \in Grabbers, NEW c, c = Idle \/ Fit(c), grabs' = [grabs EXCEPT ![g] = c],
         grabs[g].pc = "add", c.pc \notin Holding,
         UNCHANGED <<database, removing, ending>>, client' = client \cup {grabs[g].h},
         stray \subseteq stray', stray' \subseteq Hashes,
         grabs[g].h \notin client =>
           grabs[g].h \in stray' \/ (c.pc # "idle" /\ c.added /\ c.h = grabs[g].h)
  PROVE  Inv'
  <1>1. Grows /\ UNCHANGED <<kind, want, row, blocklist>>
    BY DEF database, Grows
  <1>2. grabs[g].h \in Hashes /\ ~grabs[g].added /\ grabs[g].pc \notin Holding
    BY Running DEF Fit, Before, Holding
  <1>3. CallsFit' /\ GrabTypes'
    <2>1. c = Idle \/ Fit(c)'
      BY <1>1, FitStays
    <2>2. c \in Calls \cup {Idle}
      BY DEF Fit
    <2>3. grabs' \in [Grabbers -> Calls \cup {Idle}]
      BY <2>2 DEF Inv, GrabTypes
    <2>. QED BY <1>1, <1>2, <2>1, <2>3, CallsStay DEF Inv, GrabTypes
  <1>4. NothingSeedsUntracked'
    <2>. SUFFICES ASSUME NEW h \in client', ~(row'[h].status # "none"), h \notin stray'
                  PROVE  \E f \in Grabbers :
                           grabs'[f].pc # "idle" /\ grabs'[f].h = h /\ grabs'[f].added
      BY DEF NothingSeedsUntracked
    <2>1. CASE h \in client
      <3>1. PICK f \in Grabbers : grabs[f].pc # "idle" /\ grabs[f].h = h /\ grabs[f].added
        BY <1>1, <2>1 DEF Inv, NothingSeedsUntracked
      <3>. QED BY <1>2, <3>1 DEF Inv, GrabTypes
    <2>2. CASE h \notin client
      BY <2>2 DEF Inv, GrabTypes
    <2>. QED BY <2>1, <2>2
  <1>5. RowsFit' /\ Carried' /\ OneRequest'
    BY <1>1 DEF Inv, RowsFit, RowFit, Carried, OneRequest
  <1>6. \A h \in Hashes : Holders(h)' = Holders(h)
    BY <1>2, HoldersStay DEF Inv
  <1>7. Counted'
    BY <1>6 DEF Inv, Counted
  <1>8. ClaimedRemovalSparesOwner'
    BY <1>1 DEF Inv, GrabTypes, ClaimedRemovalSparesOwner, Active, Holding
  <1>. QED BY <1>3, <1>4, <1>5, <1>7, <1>8 DEF Inv

LEMMA AddKeeps == ASSUME Inv, NEW g \in Grabbers, add(g) PROVE Inv'
  <1>1. /\ grabs[g].pc = "add" /\ Fit(grabs[g]) /\ grabs[g].h \in Hashes
        /\ UNCHANGED <<database, removing, ending, stray>>
    BY Running DEF add
  <1>. DEFINE c == [grabs[g] EXCEPT !.pc = "exists", !.added = (grabs[g].h \notin client)]
  <1>2. "exists" \in Pcs /\ "exists" \notin Before \cup Attaching \cup Holding \cup {"lost", "idle"}
    BY DEF Pcs, Before, Attaching, Holding
  <1>3. Fit(c) /\ c.pc = "exists" /\ c.added = (grabs[g].h \notin client) /\ c.h = grabs[g].h
    BY <1>1, <1>2 DEF Fit, Calls
  <1>4. grabs' = [grabs EXCEPT ![g] = c] /\ client' = client \cup {grabs[g].h}
    BY DEF add
  <1>. HIDE DEF c
  <1>5. stray' \subseteq Hashes
    BY <1>1 DEF Inv, GrabTypes
  <1>. QED BY <1>1, <1>2, <1>3, <1>4, <1>5, AddMoves

LEMMA AbandonKeeps ==
  ASSUME Inv, NEW g \in Grabbers, grabs[g].pc = "add", Abandons(g), UNCHANGED <<database, removing, ending>>
  PROVE  Inv'
  <1>1. grabs[g].h \in Hashes /\ Idle.pc \notin Holding
    BY Running DEF Idle, Holding
  <1>2. stray \subseteq stray' /\ stray' \subseteq Hashes
        /\ (grabs[g].h \notin client => grabs[g].h \in stray')
    BY <1>1 DEF Abandons, Inv, GrabTypes
  <1>. QED BY <1>1, <1>2, AddMoves DEF Abandons, Returns

LEMMA AddHashlessKeeps == ASSUME Inv, NEW g \in Grabbers, AddHashless(g) PROVE Inv'
  BY AbandonKeeps DEF AddHashless

(* An add that fails leaves nothing, or a torrent that is owned up to. *)
LEMMA AddFailsKeeps == ASSUME Inv, NEW g \in Grabbers, AddFails(g) PROVE Inv'
  <1>1. /\ grabs[g].pc = "add" /\ grabs[g].pc # "idle" /\ grabs[g].pc \notin Holding
        /\ UNCHANGED <<database, removing, ending>>
    BY DEF AddFails, Holding
  <1>2. CASE Returns(g) /\ UNCHANGED <<client, stray>>
    <2>1. ~grabs[g].added
      BY <1>1, Running DEF Fit, Before
    <2>. QED BY <1>1, <1>2, <2>1, ReturnKeeps
  <1>3. CASE Abandons(g)
    BY <1>1, <1>3, AbandonKeeps
  <1>. QED BY <1>2, <1>3 DEF AddFails

(* An operator's removal ends. *)
LEMMA RemoveEndingKeeps == ASSUME Inv, NEW h \in Hashes, RemoveEnding(h) PROVE Inv'
  <1>1. Grows /\ UNCHANGED <<kind, want, row, blocklist, grabs, stray>> /\ client' \subseteq client
    BY DEF RemoveEnding, database, Grows
  <1>2. GrabTypes'
    BY <1>1 DEF RemoveEnding, Inv, GrabTypes
  <1>3. RowsFit' /\ Carried' /\ OneRequest' /\ CallsFit' /\ ClaimedRemovalSparesOwner'
    BY <1>1 DEF Inv, RowsFit, RowFit, Carried, OneRequest, CallsFit, Fit, Tv,
       ClaimedRemovalSparesOwner, Active
  <1>4. NothingSeedsUntracked'
    BY <1>1 DEF Inv, NothingSeedsUntracked
  <1>5. Counted'
    <2>. SUFFICES ASSUME NEW k \in Hashes
                  PROVE  /\ IsFiniteSet(Holders(k)')
                         /\ removing'[k] = Cardinality(Holders(k)') + (IF k \in ending' THEN 1 ELSE 0)
      BY DEF Counted
    <2>1. Holders(k)' = Holders(k)
      BY <1>1 DEF Holders
    <2>2. Cardinality(Holders(k)) \in Nat /\ IsFiniteSet(Holders(k))
          /\ removing[k] = Cardinality(Holders(k)) + (IF k \in ending THEN 1 ELSE 0)
      BY FS_CardinalityType DEF Inv, Counted
    <2>3. /\ ending' = ending \ {h} /\ h \in ending
          /\ removing'[k] = IF k = h THEN removing[k] - 1 ELSE removing[k]
      BY DEF RemoveEnding, Inv, GrabTypes
    <2>. QED BY <2>1, <2>2, <2>3
  <1>. QED BY <1>2, <1>3, <1>4, <1>5 DEF Inv

(* The process dies: what its calls had is owned up to, and nothing is in flight. *)
LEMMA CrashKeeps == ASSUME Inv, Crash PROVE Inv'
  <1>1. UNCHANGED <<kind, want, row, blocklist, client>> /\ \A g \in Grabbers : grabs'[g] = Idle
    BY DEF Crash, database
  <1>2. GrabTypes'
    <2>1. stray' \subseteq Hashes
      BY Running DEF Crash, Inv, GrabTypes
    <2>. QED BY <1>1, <2>1 DEF Crash, Inv, GrabTypes
  <1>3. RowsFit' /\ Carried' /\ OneRequest' /\ CallsFit'
    BY <1>1 DEF Inv, RowsFit, RowFit, Carried, OneRequest, CallsFit
  <1>4. NothingSeedsUntracked'
    BY <1>1 DEF Crash, Inv, NothingSeedsUntracked
  <1>5. ClaimedRemovalSparesOwner'
    BY <1>1 DEF Idle, ClaimedRemovalSparesOwner
  <1>6. Counted'
    <2>1. \A h \in Hashes : Holders(h)' = {}
      BY <1>1 DEF Holders, Idle, Holding
    <2>. QED BY <2>1, FS_EmptySet DEF Crash, Counted
  <1>. QED BY <1>2, <1>3, <1>4, <1>5, <1>6 DEF Inv

----------------------------------------------------------------------------
(* The steps on the requests and the rows that are not a call's.               *)

LEMMA WorldMoves ==
  ASSUME Inv, Grows, UNCHANGED <<client, grabs, stray>>,
         GrabTypes', RowsFit', Carried', OneRequest', Counted',
         \A h \in Hashes : row'[h].status = "active" => row[h].status = "active"
  PROVE  Inv'
  <1>1. CallsFit'
    <2>1. \A d : Fit(d) => Fit(d)'
      BY FitStays
    <2>2. \A g \in Grabbers : Fit(grabs[g]) => Fit(grabs[g])'
      BY <2>1 DEF Fit, Tv
    <2>. QED BY <2>2 DEF Inv, CallsFit
  <1>2. NothingSeedsUntracked'
    BY DEF Inv, NothingSeedsUntracked, Grows, GrabTypes
  <1>3. ClaimedRemovalSparesOwner'
    <2>. SUFFICES ASSUME NEW g \in Grabbers, grabs[g].pc = "claimed" PROVE ~Active(grabs[g].h)'
      BY DEF ClaimedRemovalSparesOwner, Active
    <2>1. grabs[g].h \in Hashes /\ row[grabs[g].h].status # "active"
      BY Running DEF Inv, ClaimedRemovalSparesOwner, Active
    <2>. QED BY <2>1 DEF Active
  <1>. QED BY <1>1, <1>2, <1>3 DEF Inv

(* An operator who is about to remove is counted. *)
LEMMA EndingCounts ==
  ASSUME Inv, grabs' = grabs, ending \subseteq ending', ending' \subseteq Hashes,
         removing' = [h \in Hashes |-> IF h \in ending' \ ending THEN removing[h] + 1 ELSE removing[h]]
  PROVE  Counted' /\ removing' \in [Hashes -> Int]
  <1>1. ASSUME NEW h \in Hashes
        PROVE  /\ IsFiniteSet(Holders(h)')
               /\ removing'[h] = Cardinality(Holders(h)') + (IF h \in ending' THEN 1 ELSE 0)
    <2>1. Holders(h)' = Holders(h)
      BY DEF Holders
    <2>2. Cardinality(Holders(h)) \in Nat /\ IsFiniteSet(Holders(h))
          /\ removing[h] = Cardinality(Holders(h)) + (IF h \in ending THEN 1 ELSE 0)
      BY FS_CardinalityType DEF Inv, Counted
    <2>. QED BY <2>1, <2>2
  <1>. QED BY <1>1 DEF Counted, Inv, GrabTypes

(* Rows that end release what they hold; the others keep it. *)
LEMMA RowsEnd ==
  ASSUME GrabTypes, RowsFit, NEW D \in SUBSET Hashes, NEW st \in {"failed", "imported"},
         row' = [h \in Hashes |-> IF h \in D THEN Ended(row[h], st) ELSE row[h]]
  PROVE  /\ row' \in [Hashes -> Rows] /\ RowsFit'
         /\ \A h \in D : row'[h].status = st /\ row'[h].scopes = {}
         /\ \A h \in Hashes \ D : row'[h] = row[h]
         /\ \A h \in Hashes : row[h].status # "none" => row'[h].status # "none"
  <1>1. \A h \in Hashes : row[h] \in Rows
    BY DEF GrabTypes
  <1>2. \A h \in D :
          /\ Ended(row[h], st) \in Rows
          /\ Ended(row[h], st).status = st /\ Ended(row[h], st).scopes = {} /\ Ended(row[h], st).claims = {}
    BY <1>1 DEF Ended, Rows
  <1>3. \A h \in D : row'[h] \in Rows /\ row'[h].status = st /\ row'[h].scopes = {} /\ row'[h].claims = {}
    BY <1>2
  <1>4. \A h \in Hashes \ D : row'[h] = row[h]
    OBVIOUS
  <1>5. row' \in [Hashes -> Rows]
    BY <1>1, <1>3, <1>4
  <1>6. RowsFit'
    BY <1>3, <1>4 DEF RowsFit, RowFit
  <1>. QED BY <1>3, <1>4, <1>5, <1>6

(* The seasons of a row that ends move on, and no other. *)
LEMMA RowEndMoves ==
  ASSUME Inv, NEW h \in Hashes, NEW st \in {"failed", "imported"},
         NEW next \in {"searching", "completed"},
         row' = [row EXCEPT ![h] = Ended(@, st)],
         want' = [s \in Scopes |-> IF s \in row[h].scopes THEN next ELSE want[s]],
         kind' = kind, blocklist' \subseteq Hashes,
         ending' \subseteq Hashes, removing' \in [Hashes -> Int], Counted',
         UNCHANGED <<client, grabs, stray>>
  PROVE  Inv'
  <1>. DEFINE D == {h}
  <1>1. /\ row' = [k \in Hashes |-> IF k \in D THEN Ended(row[k], st) ELSE row[k]]
        /\ D \in SUBSET Hashes /\ h \in D /\ \A k \in D : k = h
    BY DEF Inv, GrabTypes
  <1>. HIDE DEF D
  <1>2. /\ row' \in [Hashes -> Rows] /\ RowsFit'
        /\ row'[h].status = st /\ row'[h].scopes = {}
        /\ \A k \in Hashes \ {h} : row'[k] = row[k]
        /\ \A k \in Hashes : row[k].status # "none" => row'[k].status # "none"
    <2>1. /\ row' \in [Hashes -> Rows] /\ RowsFit'
          /\ \A k \in D : row'[k].status = st /\ row'[k].scopes = {}
          /\ \A k \in Hashes \ D : row'[k] = row[k]
          /\ \A k \in Hashes : row[k].status # "none" => row'[k].status # "none"
      BY <1>1, RowsEnd DEF Inv
    <2>. QED BY <1>1, <2>1
  <1>3. \A s \in Scopes : s \in row[h].scopes => want[s] = "downloading"
    BY DEF Inv, Carried
  <1>4. want' \in [Scopes -> Statuses]
    BY DEF Inv, GrabTypes, Statuses
  <1>5. GrabTypes' /\ Grows
    BY <1>2, <1>3, <1>4 DEF Inv, GrabTypes, Grows
  <1>6. Carried'
    <2>. SUFFICES ASSUME NEW s \in Scopes
                  PROVE  want'[s] = "downloading" <=> \E k \in Hashes : s \in row'[k].scopes
      BY DEF Carried
    <2>1. \A k \in Hashes \ {h} : row[h].scopes \cap row[k].scopes = {}
      BY DEF Inv, RowsFit, RowFit
    <2>2. want[s] = "downloading" <=> \E k \in Hashes : s \in row[k].scopes
      BY DEF Inv, Carried
    <2>. QED BY <1>2, <2>1, <2>2
  <1>7. OneRequest'
    <2>1. \A s \in Scopes : want'[s] \in {"none", "cancelled"} <=> want[s] \in {"none", "cancelled"}
      BY <1>3
    <2>2. \A s \in Scopes : want[s] \in {"none", "cancelled"} => want'[s] = want[s]
      BY <1>3
    <2>3. \A k \in Hashes : row'[k].status = "active" => row[k].status = "active" /\ row'[k] = row[k]
      BY <1>2
    <2>. QED BY <2>1, <2>2, <2>3 DEF Inv, OneRequest
  <1>. QED BY <1>2, <1>5, <1>6, <1>7, WorldMoves

LEMMA ImportKeeps == ASSUME Inv, NEW h \in Hashes, Import(h) PROVE Inv'
  <1>1. Counted' /\ removing' \in [Hashes -> Int] /\ ending' \subseteq Hashes /\ blocklist' \subseteq Hashes
    BY DEF Import, Inv, Counted, Holders, GrabTypes
  <1>. QED BY <1>1, RowEndMoves DEF Import

LEMMA MarkFailedKeeps ==
  ASSUME Inv, NEW h \in Hashes, NEW remove \in BOOLEAN, NEW block \in BOOLEAN,
         MarkFailed(h, remove, block)
  PROVE  Inv'
  <1>1. ending' \subseteq Hashes /\ ending \subseteq ending' /\ blocklist' \subseteq Hashes /\ grabs' = grabs
    BY DEF MarkFailed, Inv, GrabTypes
  <1>2. removing' = [k \in Hashes |-> IF k \in ending' \ ending THEN removing[k] + 1 ELSE removing[k]]
    BY DEF MarkFailed, Inv, GrabTypes
  <1>3. Counted' /\ removing' \in [Hashes -> Int]
    BY <1>1, <1>2, EndingCounts
  <1>. QED BY <1>1, <1>3, RowEndMoves DEF MarkFailed

LEMMA CancelKeeps == ASSUME Inv, NEW r \in {First, Again}, cancel_request(r) PROVE Inv'
  <1>. DEFINE mine == {h \in Hashes : Active(h) /\ row[h].request = r}
  <1>1. /\ row' = [h \in Hashes |-> IF h \in mine THEN Ended(row[h], "failed") ELSE row[h]]
        /\ ending' = ending \cup mine
        /\ removing' = [h \in Hashes |-> IF h \in mine \ ending THEN removing[h] + 1 ELSE removing[h]]
        /\ want' = [s \in Scopes |-> IF s \in ScopesOf(r) THEN "cancelled" ELSE want[s]]
        /\ UNCHANGED <<kind, blocklist, client, grabs, stray>>
    BY DEF cancel_request
  <1>2. /\ row' \in [Hashes -> Rows] /\ RowsFit'
        /\ \A h \in mine : row'[h].status = "failed" /\ row'[h].scopes = {}
        /\ \A h \in Hashes \ mine : row'[h] = row[h]
        /\ \A h \in Hashes : row[h].status # "none" => row'[h].status # "none"
    <2>1. mine \in SUBSET Hashes
      OBVIOUS
    <2>. HIDE DEF mine
    <2>. QED BY <1>1, <2>1, RowsEnd DEF Inv
  <1>3. Counted' /\ removing' \in [Hashes -> Int] /\ ending' \subseteq Hashes
    <2>1. /\ ending \subseteq ending' /\ ending' \subseteq Hashes
          /\ removing' = [h \in Hashes |-> IF h \in ending' \ ending THEN removing[h] + 1 ELSE removing[h]]
      BY <1>1 DEF Inv, GrabTypes
    <2>. QED BY <1>1, <2>1, EndingCounts
  <1>4. want' \in [Scopes -> Statuses] /\ Grows
    BY <1>1, <1>2 DEF Inv, GrabTypes, Statuses, Grows
  <1>5. GrabTypes'
    BY <1>1, <1>2, <1>3, <1>4 DEF Inv, GrabTypes
  <1>6. Carried'
    <2>. SUFFICES ASSUME NEW s \in Scopes
                  PROVE  want'[s] = "downloading" <=> \E k \in Hashes : s \in row'[k].scopes
      BY DEF Carried
    <2>1. want[s] = "downloading" <=> \E k \in Hashes : s \in row[k].scopes
      BY DEF Inv, Carried
    <2>2. \A k \in Hashes : s \in row[k].scopes => Active(k) /\ row[k].request = RequestOf(s)
      BY DEF Inv, RowsFit, RowFit, Active
    <2>3. CASE RequestOf(s) = r
      BY <1>1, <1>2, <2>1, <2>2, <2>3 DEF ScopesOf
    <2>4. CASE RequestOf(s) # r
      BY <1>1, <1>2, <2>1, <2>2, <2>4 DEF ScopesOf
    <2>. QED BY <2>3, <2>4
  <1>7. OneRequest'
    <2>1. \A s \in Scopes : (want'[s] = "none" <=> want[s] = "none")
      BY <1>1 DEF ScopesOf
    <2>2. \A s \in Scopes : want[s] \in {"none", "cancelled"} => want'[s] = want[s]
      BY <1>1 DEF ScopesOf
    <2>3. \A s \in Scopes : RequestOf(s) # r => want'[s] = want[s]
      BY <1>1 DEF ScopesOf
    <2>4. \A h \in Hashes : row'[h].status = "active" =>
            row[h].status = "active" /\ row'[h] = row[h] /\ row[h].request # r
      BY <1>2 DEF Active
    <2>5. ASSUME NEW s \in Scopes, NEW t \in Scopes,
                 RequestOf(s) = Again, want'[s] # "none", RequestOf(t) = First
          PROVE  want'[t] \in {"none", "cancelled"}
      BY <2>1, <2>2, <2>5 DEF Inv, OneRequest
    <2>6. ASSUME NEW h \in Hashes, row'[h].status = "active"
          PROVE  \E s \in Scopes : RequestOf(s) = row'[h].request /\ want'[s] \notin {"none", "cancelled"}
      BY <2>3, <2>4, <2>6 DEF Inv, OneRequest
    <2>. QED BY <2>5, <2>6 DEF OneRequest
  <1>8. \A h \in Hashes : row'[h].status = "active" => row[h].status = "active"
    BY <1>2
  <1>. QED BY <1>1, <1>2, <1>3, <1>4, <1>5, <1>6, <1>7, <1>8, WorldMoves

LEMMA RequestAgainKeeps == ASSUME Inv, RequestAgain PROVE Inv'
  <1>1. /\ UNCHANGED <<kind, row, blocklist, client, removing, ending, grabs, stray>>
        /\ \A s \in Scopes : RequestOf(s) = Again => want[s] = "none"
        /\ \A s \in Scopes : RequestOf(s) = First => want[s] \in {"none", "cancelled"}
        /\ \A s \in Scopes : RequestOf(s) = First => want'[s] = want[s]
        /\ \A s \in Scopes : want'[s] = want[s] \/ (RequestOf(s) = Again /\ want'[s] = "pending")
        /\ want' \in [Scopes -> Statuses]
    BY GrabSetsAssumption DEF RequestAgain, ScopesOf, Inv, GrabTypes, Statuses
  <1>2. GrabTypes' /\ Grows /\ RowsFit' /\ Counted'
    BY <1>1 DEF Inv, GrabTypes, Grows, RowsFit, RowFit, Counted, Holders
  <1>3. Carried'
    BY <1>1 DEF Inv, Carried
  <1>4. OneRequest'
    BY <1>1 DEF Inv, OneRequest
  <1>. QED BY <1>1, <1>2, <1>3, <1>4, WorldMoves

LEMMA ParkKeeps == ASSUME Inv, NEW s \in Scopes, Park(s) PROVE Inv'
  <1>1. /\ UNCHANGED <<kind, row, blocklist, client, removing, ending, grabs, stray>>
        /\ want[s] \notin {"none", "cancelled", "downloading"}
        /\ want'[s] = "no_acceptable_release" /\ want' \in [Scopes -> Statuses]
        /\ \A t \in Scopes : t # s => want'[t] = want[t]
    BY DEF Park, Inv, GrabTypes, Statuses
  <1>2. GrabTypes' /\ Grows /\ RowsFit' /\ Counted'
    BY <1>1 DEF Inv, GrabTypes, Grows, RowsFit, RowFit, Counted, Holders
  <1>3. Carried'
    BY <1>1 DEF Inv, Carried
  <1>4. OneRequest'
    BY <1>1 DEF Inv, OneRequest
  <1>. QED BY <1>1, <1>2, <1>3, <1>4, WorldMoves

----------------------------------------------------------------------------
(* The transactions of a call.                                              *)

(* An active row is of the request that is open. *)
LEMMA SameRequest ==
  ASSUME Inv, NEW h \in Hashes, row[h].status = "active", NEW s \in Scopes,
         want[s] \notin {"none", "cancelled"}
  PROVE  row[h].request = RequestOf(s)
  <1>1. PICK t \in Scopes : RequestOf(t) = row[h].request /\ want[t] \notin {"none", "cancelled"}
    BY DEF Inv, OneRequest
  <1>2. RequestOf(s) \in {First, Again} /\ RequestOf(t) \in {First, Again}
    BY DEF Scopes, RequestOf
  <1>. QED BY <1>1, <1>2 DEF Inv, OneRequest

(* What a call carries is of its request, and is open when its write goes through. *)
LEMMA TargetsAre ==
  ASSUME Inv, NEW c, Fit(c), SeasonsMove(c)
  PROVE  /\ c.targets \subseteq _active_guard_seasons(c.s, c.h)
         /\ _active_guard_seasons(c.s, c.h) \subseteq Scopes
         /\ \A s \in _active_guard_seasons(c.s, c.h) : RequestOf(s) = RequestOf(c.s)
         /\ c.s \in c.targets /\ c.s \in Scopes /\ c.h \in Hashes /\ c.targets \subseteq Scopes
         /\ \A t \in c.targets : want[t] \notin {"none", "cancelled"}
  <1>1. c.s \in Scopes /\ c.h \in Hashes /\ c.targets \subseteq Scopes /\ c.s \in c.targets
    BY DEF Fit, Calls
  <1>2. \A t \in c.targets : want[t] \notin {"none", "cancelled"}
    BY DEF Fit, SeasonsMove, _PACK_TARGET_SEASON_STATUS_VALUES
  <1>3. c.targets \subseteq _active_guard_seasons(c.s, c.h)
    BY <1>1 DEF Fit, _active_guard_seasons, ScopesOf
  <1>4. /\ _active_guard_seasons(c.s, c.h) \subseteq Scopes
        /\ \A s \in _active_guard_seasons(c.s, c.h) : RequestOf(s) = RequestOf(c.s)
    BY <1>1 DEF _active_guard_seasons, ScopesOf
  <1>. QED BY <1>1, <1>2, <1>3, <1>4

(* A row takes the seasons of a call. *)
LEMMA CarryMoves ==
  ASSUME Inv, NEW g \in Grabbers, grabs[g].pc # "idle", grabs[g].pc \notin Holding,
         NEW guard, guard = _active_guard_seasons(grabs[g].s, grabs[g].h),
         SeasonsMove(grabs[g]), ~ClaimTaken(grabs[g].h, guard), Returns(g),
         NEW R, R.status = "active", R.request = RequestOf(grabs[g].s), R \in Rows,
         R.scopes = row[grabs[g].h].scopes \cup grabs[g].targets,
         R.claims = row[grabs[g].h].claims \cup guard,
         row' = [row EXCEPT ![grabs[g].h] = R],
         want' = [s \in Scopes |-> IF s \in grabs[g].targets THEN "downloading" ELSE want[s]],
         row[grabs[g].h].status \in {"active", "none"} \/ ~removal_in_flight(grabs[g].h),
         UNCHANGED <<kind, blocklist, client, removing, ending, stray>>
  PROVE  Inv'
  <1>. DEFINE c == grabs[g]
  <1>0. PICK h \in Hashes : h = grabs[g].h
    BY Running
  <1>1. /\ Fit(c) /\ c.targets \subseteq guard /\ guard \subseteq Scopes
        /\ \A s \in guard : RequestOf(s) = RequestOf(c.s)
        /\ c.s \in c.targets /\ c.s \in Scopes /\ h \in Hashes /\ c.targets \subseteq Scopes
        /\ \A t \in c.targets : want[t] \notin {"none", "cancelled"}
    BY <1>0, Running, TargetsAre
  <1>2. row[h].status = "active" => row[h].request = RequestOf(c.s)
    BY <1>0, <1>1, SameRequest
  <1>3. row' \in [Hashes -> Rows] /\ row'[h] = R /\ \A k \in Hashes \ {h} : row'[k] = row[k]
    BY <1>0, <1>1 DEF Inv, GrabTypes
  <1>4. \A k \in Hashes \ {h} : row[k].claims \cap guard = {}
    BY <1>0, <1>1 DEF ClaimTaken, Active, Inv, RowsFit, RowFit
  <1>5. want' \in [Scopes -> Statuses]
    BY DEF Inv, GrabTypes, Statuses
  <1>6. Grows
    BY <1>0, <1>1, <1>3 DEF Grows
  <1>7. RowsFit'
    <2>1. RowFit(h)'
      BY <1>0, <1>1, <1>2, <1>3 DEF RowFit, Inv, RowsFit
    <2>2. \A k \in Hashes \ {h} : RowFit(k)'
      BY <1>3 DEF RowFit, Inv, RowsFit
    <2>3. \A k \in Hashes \ {h} : row'[h].claims \cap row'[k].claims = {}
      BY <1>0, <1>1, <1>3, <1>4 DEF Inv, RowsFit
    <2>4. \A j, k \in Hashes : j # k => row'[j].claims \cap row'[k].claims = {}
      BY <1>3, <2>3 DEF Inv, RowsFit
    <2>. QED BY <2>1, <2>2, <2>4 DEF RowsFit
  <1>8. Carried'
    <2>. SUFFICES ASSUME NEW s \in Scopes
                  PROVE  want'[s] = "downloading" <=> \E k \in Hashes : s \in row'[k].scopes
      BY DEF Carried
    <2>1. want[s] = "downloading" <=> \E k \in Hashes : s \in row[k].scopes
      BY DEF Inv, Carried
    <2>. QED BY <1>0, <1>1, <1>3, <2>1
  <1>9. OneRequest'
    <2>1. \A s \in Scopes : want'[s] \in {"none", "cancelled"} <=> want[s] \in {"none", "cancelled"}
      BY <1>1
    <2>2. \A s \in Scopes : want[s] \in {"none", "cancelled"} => want'[s] = want[s]
      BY <1>1
    <2>3. ASSUME NEW s \in Scopes, NEW t \in Scopes,
                 RequestOf(s) = Again, want'[s] # "none", RequestOf(t) = First
          PROVE  want'[t] \in {"none", "cancelled"}
      BY <2>1, <2>2, <2>3 DEF Inv, OneRequest
    <2>4. ASSUME NEW k \in Hashes, row'[k].status = "active"
          PROVE  \E s \in Scopes : RequestOf(s) = row'[k].request /\ want'[s] \notin {"none", "cancelled"}
      <3>1. CASE k = h
        BY <1>1, <1>3, <2>1, <3>1
      <3>2. CASE k # h
        BY <1>3, <2>1, <2>4, <3>2 DEF Inv, OneRequest
      <3>. QED BY <3>1, <3>2
    <2>. QED BY <2>3, <2>4 DEF OneRequest
  <1>10. CallsFit' /\ GrabTypes'
    <2>1. grabs' \in [Grabbers -> Calls \cup {Idle}]
      BY DEF Returns, Inv, GrabTypes
    <2>2. CallsFit'
      <3>1. GrabTypes /\ CallsFit /\ grabs' = [grabs EXCEPT ![g] = Idle]
        BY DEF Returns, Inv
      <3>. QED BY <1>6, <3>1, CallsStay
    <2>. QED BY <1>3, <1>5, <2>1, <2>2 DEF Inv, GrabTypes
  <1>11. NothingSeedsUntracked'
    <2>1. Handed(g, Idle)
      BY <1>0, <1>3 DEF Handed
    <2>2. GrabTypes /\ NothingSeedsUntracked /\ grabs' = [grabs EXCEPT ![g] = Idle]
      BY DEF Returns, Inv
    <2>3. client' \subseteq client /\ stray \subseteq stray'
      OBVIOUS
    <2>. QED BY <1>6, <2>1, <2>2, <2>3, TrackedStays
  <1>12. Counted'
    <2>1. \A k \in Hashes : Holders(k)' = Holders(k)
      <3>1. Idle.pc \notin Holding
        BY DEF Idle, Holding
      <3>. QED BY <3>1, HoldersStay DEF Inv, Returns
    <2>. QED BY <2>1 DEF Inv, Counted
  <1>13. ClaimedRemovalSparesOwner'
    <2>. SUFFICES ASSUME NEW f \in Grabbers, grabs'[f].pc = "claimed"
                  PROVE  row'[grabs'[f].h].status # "active"
      BY DEF ClaimedRemovalSparesOwner, Active
    <2>1. f # g /\ grabs'[f] = grabs[f] /\ grabs[f].pc = "claimed"
      BY DEF Returns, Inv, GrabTypes, Idle
    <2>2. /\ grabs[f].h \in Hashes /\ row[grabs[f].h].status \notin {"active", "none"}
          /\ removal_in_flight(grabs[f].h)
      BY <2>1, Running, HeldIsInFlight
      DEF Inv, ClaimedRemovalSparesOwner, Active, Fit, Attaching, Holding
    <2>. QED BY <1>0, <1>3, <2>1, <2>2
  <1>. QED BY <1>7, <1>8, <1>9, <1>10, <1>11, <1>12, <1>13 DEF Inv

LEMMA FinishOwningKeeps ==
  ASSUME Inv, NEW g \in Grabbers, grabs[g].pc = "own", FinishOwning(g),
         row[grabs[g].h].status # "active",
         row[grabs[g].h].status = "none" \/ ~removal_in_flight(grabs[g].h),
         UNCHANGED <<client, removing, ending, stray>>
  PROVE  Inv'
  <1>. DEFINE c == grabs[g]
             guard == _active_guard_seasons(grabs[g].s, grabs[g].h)
  <1>1. /\ grabs[g].pc # "idle" /\ grabs[g].pc \notin Holding
        /\ \/ Goes(g, "integrity") /\ UNCHANGED database
           \/ Owned(c) /\ Returns(g) /\ SeasonsMove(c) /\ ~ClaimTaken(c.h, guard)
           \/ LeavesTorrent(g) /\ UNCHANGED database
    BY DEF FinishOwning, Holding
  <1>2. CASE Goes(g, "integrity") /\ UNCHANGED database
    <2>1. "integrity" \in Pcs \ Holding /\ "integrity" \notin Before \cup Attaching \cup {"lost"}
      BY DEF Pcs, Before, Attaching, Holding
    <2>. QED BY <1>1, <1>2, <2>1, GoKeeps
  <1>3. CASE Owned(c) /\ Returns(g) /\ SeasonsMove(c) /\ ~ClaimTaken(c.h, guard)
    <2>. DEFINE R == [status |-> "active", request |-> RequestOf(c.s),
                      scopes |-> c.targets, claims |-> guard]
    <2>1. /\ Fit(c) /\ c.h \in Hashes /\ c.s \in Scopes /\ c.targets \subseteq Scopes
          /\ guard \subseteq Scopes
      BY <1>1, <1>3, Running, TargetsAre
    <2>2. RequestOf(c.s) \in {First, Again}
      BY <2>1 DEF Scopes, RequestOf
    <2>3. row[c.h].scopes = {} /\ row[c.h].claims = {}
      BY <2>1 DEF Inv, RowsFit, RowFit
    <2>4. /\ R \in Rows /\ R.status = "active" /\ R.request = RequestOf(c.s)
          /\ R.scopes = row[c.h].scopes \cup c.targets /\ R.claims = row[c.h].claims \cup guard
      BY <2>1, <2>2, <2>3 DEF Rows
    <2>5. /\ row' = [row EXCEPT ![c.h] = R] /\ UNCHANGED <<kind, blocklist>>
          /\ want' = [s \in Scopes |-> IF s \in c.targets THEN "downloading" ELSE want[s]]
      BY <1>3 DEF Owned
    <2>. HIDE DEF R
    <2>. QED BY <1>1, <1>3, <2>4, <2>5, CarryMoves
  <1>4. CASE LeavesTorrent(g) /\ UNCHANGED database
    BY <1>1, <1>4, LeaveKeeps
  <1>. QED BY <1>1, <1>2, <1>3, <1>4

LEMMA ReuseKeeps == ASSUME Inv, NEW g \in Grabbers, _reuse_terminal_row(g) PROVE Inv'
  <1>1. /\ grabs[g].pc = "own" /\ grabs[g].pc # "idle" /\ grabs[g].pc \notin Holding
        /\ grabs[g].reuse /\ UNCHANGED <<client, removing, ending, stray>>
    BY DEF _reuse_terminal_row, Holding
  <1>2. row[grabs[g].h].status # "none"
    BY <1>1, Running DEF Fit
  <1>3. \/ LeavesTorrent(g) /\ UNCHANGED database
        \/ Goes(g, "lost") /\ UNCHANGED database
        \/ Goes(g, "integrity") /\ UNCHANGED database
        \/ ~removal_in_flight(grabs[g].h) /\ Terminal(grabs[g].h) /\ FinishOwning(g)
    BY DEF _reuse_terminal_row
  <1>4. \A pc \in {"lost", "integrity"} : pc \in Pcs \ Holding /\ pc \notin Before \cup Attaching
    BY DEF Pcs, Before, Attaching, Holding
  <1>5. Terminal(grabs[g].h) => row[grabs[g].h].status # "active"
    BY DEF Terminal
  <1>. QED BY <1>1, <1>2, <1>3, <1>4, <1>5, LeaveKeeps, GoKeeps, FinishOwningKeeps

LEMMA CreateKeeps == ASSUME Inv, NEW g \in Grabbers, create(g) PROVE Inv'
  <1>1. /\ grabs[g].pc = "own" /\ grabs[g].pc # "idle" /\ grabs[g].pc \notin Holding
        /\ UNCHANGED <<client, removing, ending, stray>>
    BY DEF create, Holding
  <1>2. CASE /\ grabs' = [grabs EXCEPT ![g].pc = "integrity", ![g].back = "create"]
             /\ UNCHANGED database
    <2>. DEFINE c == [grabs[g] EXCEPT !.pc = "integrity", !.back = "create"]
    <2>1. "integrity" \in Pcs /\ "integrity" \notin Before \cup Attaching \cup Holding \cup {"lost"}
      BY DEF Pcs, Before, Attaching, Holding
    <2>2. Fit(grabs[g])
      BY <1>1, Running
    <2>3. Fit(c) /\ c.pc = "integrity" /\ c.added = grabs[g].added /\ c.h = grabs[g].h
      BY <2>1, <2>2 DEF Fit, Calls
    <2>4. grabs' = [grabs EXCEPT ![g] = c]
      BY <1>2
    <2>. HIDE DEF c
    <2>5. Handed(g, c) /\ stray' \subseteq Hashes /\ c.pc \notin Holding
      BY <1>1, <2>1, <2>3 DEF Handed, Inv, GrabTypes
    <2>. QED BY <1>1, <1>2, <2>3, <2>4, <2>5, Passes
  <1>3. CASE row[grabs[g].h].status = "none" /\ FinishOwning(g)
    BY <1>1, <1>3, FinishOwningKeeps
  <1>. QED BY <1>2, <1>3 DEF create

LEMMA LockActiveKeeps == ASSUME Inv, NEW g \in Grabbers, lock_if_active(g) PROVE Inv'
  <1>. DEFINE c == grabs[g]
             guard == _active_guard_seasons(grabs[g].s, grabs[g].h)
  <1>1. /\ c.pc = "lock" /\ c.pc # "idle" /\ c.pc \notin Holding
        /\ UNCHANGED <<client, removing, ending, stray>>
    BY DEF lock_if_active, Holding
  <1>2. \/ (Goes(g, "reprove") \/ Goes(g, "collide") \/ Goes(g, "owner")) /\ UNCHANGED database
        \/ /\ Active(c.h) /\ SeasonsMove(c) /\ ~ClaimTaken(c.h, guard)
           /\ row' = [row EXCEPT ![c.h].scopes = @ \cup c.targets, ![c.h].claims = @ \cup guard]
           /\ want' = [s \in Scopes |-> IF s \in c.targets THEN "downloading" ELSE want[s]]
           /\ Returns(g) /\ UNCHANGED <<kind, blocklist>>
    BY DEF lock_if_active
  <1>3. /\ Fit(c) /\ row[c.h].status # "none" /\ c.back \in {"guard", "conflict", "own"}
        /\ c.back = "guard" => ~c.added
    BY <1>1, Running DEF Fit, Attaching
  <1>4. CASE (Goes(g, "reprove") \/ Goes(g, "collide") \/ Goes(g, "owner")) /\ UNCHANGED database
    <2>1. \A pc \in {"reprove", "collide", "owner"} : pc \in Pcs \ Holding /\ pc \notin Before
      BY DEF Pcs, Before, Attaching, Holding
    <2>. QED BY <1>1, <1>3, <1>4, <2>1, GoKeeps
  <1>5. CASE /\ Active(c.h) /\ SeasonsMove(c) /\ ~ClaimTaken(c.h, guard)
             /\ row' = [row EXCEPT ![c.h].scopes = @ \cup c.targets, ![c.h].claims = @ \cup guard]
             /\ want' = [s \in Scopes |-> IF s \in c.targets THEN "downloading" ELSE want[s]]
             /\ Returns(g) /\ UNCHANGED <<kind, blocklist>>
    <2>. DEFINE R == [row[c.h] EXCEPT !.scopes = @ \cup c.targets, !.claims = @ \cup guard]
    <2>1. /\ c.h \in Hashes /\ c.s \in Scopes /\ c.targets \subseteq Scopes /\ guard \subseteq Scopes
          /\ want[c.s] \notin {"none", "cancelled"}
      BY <1>3, <1>5, TargetsAre
    <2>2. row[c.h] \in Rows /\ row[c.h].status = "active" /\ row[c.h].request = RequestOf(c.s)
      BY <1>5, <2>1, SameRequest DEF Active, Inv, GrabTypes
    <2>3. /\ R \in Rows /\ R.status = "active" /\ R.request = RequestOf(c.s)
          /\ R.scopes = row[c.h].scopes \cup c.targets /\ R.claims = row[c.h].claims \cup guard
      BY <2>1, <2>2 DEF Rows
    <2>4. row' = [row EXCEPT ![c.h] = R]
      BY <1>5, <2>1 DEF Inv, GrabTypes
    <2>5. /\ SeasonsMove(c) /\ ~ClaimTaken(c.h, guard) /\ Returns(g) /\ UNCHANGED <<kind, blocklist>>
          /\ want' = [s \in Scopes |-> IF s \in c.targets THEN "downloading" ELSE want[s]]
      BY <1>5
    <2>. HIDE DEF R
    <2>. QED BY <1>1, <2>2, <2>3, <2>4, <2>5, CarryMoves
  <1>. QED BY <1>2, <1>4, <1>5

----------------------------------------------------------------------------
(* Together.                                                               *)

LEMMA InitInv == Init => Inv
  <1>. SUFFICES ASSUME Init PROVE Inv
    OBVIOUS
  <1>1. PICK life \in {"none", "failed", "imported"} \cup (IF Tv THEN {"active"} ELSE {}) :
       /\ row = [h \in Hashes |-> IF h # Pack \/ life = "none" THEN Free
                 ELSE [status |-> life, request |-> First,
                       scopes |-> IF life = "active" THEN {First} \X (Seasons \ {A}) ELSE {},
                       claims |-> IF life = "active" THEN {First} \X (Seasons \ {A}) ELSE {}]]
       /\ want = [s \in Scopes |->
            CASE s[1] = Again \/ (~Tv /\ s[2] # A) -> "none"
              [] s[1] = First /\ life = "active" ->
                   IF s[2] = A THEN "completed" ELSE "downloading"
              [] s[1] = First /\ (Tv \/ s[2] = A) /\ life # "active" -> "pending"]
       /\ client \in IF life = "active" THEN {{Pack}}
                     ELSE SUBSET {h \in Hashes : h = Pack /\ life # "none"}
    BY DEF Init
  <1>. DEFINE left == IF life = "active" THEN {First} \X (Seasons \ {A}) ELSE {}
  <1>2. /\ \A h \in Hashes : row[h].scopes = IF h = Pack THEN left ELSE {}
        /\ \A h \in Hashes : row[h].claims = IF h = Pack THEN left ELSE {}
        /\ \A h \in Hashes : row[h].status = IF h = Pack THEN life ELSE "none"
        /\ \A h \in Hashes : row[h].status # "none" => row[h].request = First
        /\ row \in [Hashes -> Rows]
    BY <1>1 DEF Free, Rows, Scopes
  <1>3. A \in Seasons /\ \A s \in Scopes : s[1] \in {First, Again} /\ s[2] \in Seasons
    BY GrabSetsAssumption DEF A, Scopes
  <1>4. /\ want \in [Scopes -> Statuses]
        /\ \A s \in Scopes : s[1] = Again => want[s] = "none"
        /\ \A s \in Scopes : want[s] = "downloading" <=> s \in left
        /\ life = "active" => <<First, A>> \in Scopes /\ want[<<First, A>>] = "completed"
    <2>1. ASSUME NEW s \in Scopes, s[1] = Again \/ (~Tv /\ s[2] # A) PROVE want[s] = "none"
      BY <1>1, <1>3, <2>1, GrabSetsAssumption
    <2>2. ASSUME NEW s \in Scopes, s[1] = First, life = "active"
          PROVE  want[s] = IF s[2] = A THEN "completed" ELSE "downloading"
      BY <1>1, <1>3, <2>2, GrabSetsAssumption
    <2>3. ASSUME NEW s \in Scopes, s[1] = First, Tv \/ s[2] = A, life # "active"
          PROVE  want[s] = "pending"
      BY <1>1, <1>3, <2>3, GrabSetsAssumption
    <2>. DEFINE first(s) == CASE s[1] = Again \/ (~Tv /\ s[2] # A) -> "none"
                             [] s[1] = First /\ life = "active" ->
                                  IF s[2] = A THEN "completed" ELSE "downloading"
                             [] s[1] = First /\ (Tv \/ s[2] = A) /\ life # "active" -> "pending"
    <2>0. want = [s \in Scopes |-> first(s)]
      BY <1>1
    <2>. HIDE DEF first
    <2>4. want = [s \in Scopes |-> want[s]]
      BY <2>0
    <2>5. \A s \in Scopes : want[s] \in Statuses
      BY <1>3, <2>1, <2>2, <2>3 DEF Statuses
    <2>6. \A s \in Scopes : s \in {First} \X (Seasons \ {A}) <=> s[1] = First /\ s[2] # A
      BY DEF Scopes
    <2>7. \A s \in Scopes : want[s] = "downloading" <=> s \in left
      BY <1>1, <1>3, <2>1, <2>2, <2>3, <2>6
    <2>8. life = "active" => <<First, A>> \in Scopes /\ want[<<First, A>>] = "completed"
      BY <1>3, <2>2 DEF Scopes
    <2>. QED BY <2>1, <2>4, <2>5, <2>7, <2>8
  <1>5. GrabTypes
    <2>1. client \subseteq Hashes
      BY <1>1, GrabSetsAssumption
    <2>2. grabs \in [Grabbers -> Calls \cup {Idle}] /\ removing \in [Hashes -> Int]
      BY DEF Init
    <2>. QED BY <1>2, <1>4, <2>1, <2>2 DEF Init, GrabTypes
  <1>6. RowsFit /\ Carried
    BY <1>2, <1>3, <1>4, GrabSetsAssumption DEF RowsFit, RowFit, Carried, RequestOf
  <1>7. OneRequest
    BY <1>2, <1>3, <1>4, GrabSetsAssumption DEF OneRequest, RequestOf
  <1>8. CallsFit /\ NothingSeedsUntracked /\ ClaimedRemovalSparesOwner
    BY <1>1, <1>2, GrabSetsAssumption
    DEF Init, CallsFit, NothingSeedsUntracked, ClaimedRemovalSparesOwner, Idle
  <1>9. Counted
    <2>1. \A h \in Hashes : Holders(h) = {}
      BY DEF Init, Holders, Idle, Holding
    <2>2. ending = {} /\ \A h \in Hashes : removing[h] = 0
      BY DEF Init
    <2>. QED BY <2>1, <2>2, FS_EmptySet DEF Counted
  <1>. QED BY <1>5, <1>6, <1>7, <1>8, <1>9 DEF Inv

LEMMA StepInv == Inv /\ [Next]_vars => Inv'
  <1>. SUFFICES ASSUME Inv, [Next]_vars PROVE Inv'
    OBVIOUS
  <1>1. ASSUME NEW g \in Grabbers, GrabStep(g) PROVE Inv'
    BY <1>1, GrabKeeps, KnownHashKeeps, ParallelGuardKeeps, AddKeeps, AddFailsKeeps,
       AddHashlessKeeps, ReadRowKeeps, ReadConflictKeeps, ReuseKeeps, CreateKeeps,
       IntegrityErrorKeeps, LostReuseKeeps, RemoveIfAddedKeeps, AttachGuardKeeps,
       LockActiveKeeps, CollidesKeeps, ReproveKeeps, SurvivingKeeps, OwnerKeeps,
       LockTerminalKeeps, RemoveClaimedKeeps DEF GrabStep
  <1>2. CASE UNCHANGED vars
    <2>1. UNCHANGED <<kind, want, row, blocklist, client, removing, ending, grabs, stray>>
      BY <1>2 DEF vars
    <2>2. GrabTypes' /\ Grows /\ RowsFit' /\ Carried' /\ OneRequest'
      BY <2>1 DEF Inv, GrabTypes, Grows, RowsFit, RowFit, Carried, OneRequest
    <2>3. \A h \in Hashes : Holders(h)' = Holders(h)
      BY <2>1 DEF Holders
    <2>4. Counted'
      BY <2>1, <2>3 DEF Inv, Counted
    <2>. QED BY <2>1, <2>2, <2>4, WorldMoves
  <1>. QED
    BY <1>1, <1>2, ImportKeeps, RemoveEndingKeeps, MarkFailedKeeps, CancelKeeps,
       RequestAgainKeeps, ParkKeeps, CrashKeeps DEF Next

(* The invariant of the protocol. *)
LEMMA GrabInvariant == Spec => []Inv
  BY InitInv, StepInv, PTL DEF Spec

(* A season is downloading exactly when one active download carries it, however many   *)
(* grabs, failures, cancels, imports, parks and crashes interleave.                *)
THEOREM CarriedExactly == Spec => []DownloadingIsCarried
  <1>1. Inv => DownloadingIsCarried
    <2>. SUFFICES ASSUME Inv, NEW s \in Scopes
                  PROVE  /\ want[s] = "downloading"
                              <=> {h \in Hashes : Active(h) /\ s \in row[h].scopes} # {}
                         /\ Cardinality({h \in Hashes : Active(h) /\ s \in row[h].claims}) <= 1
      BY DEF DownloadingIsCarried
    <2>1. want[s] = "downloading" <=> {h \in Hashes : Active(h) /\ s \in row[h].scopes} # {}
      BY DEF Inv, Carried, RowsFit, RowFit, Active
    <2>. DEFINE claimants == {h \in Hashes : Active(h) /\ s \in row[h].claims}
    <2>2. claimants = {} \/ \E k : claimants = {k}
      BY DEF Inv, RowsFit
    <2>. HIDE DEF claimants
    <2>3. Cardinality(claimants) <= 1
      <3>1. Cardinality({}) = 0 /\ \A k : Cardinality({k}) = 1
        BY FS_EmptySet, FS_Singleton, Zenon
      <3>2. Cardinality(claimants) \in {0, 1}
        BY <2>2, <3>1, Zenon
      <3>. QED BY <3>2
    <2>. QED BY <2>1, <2>3 DEF claimants
  <1>. QED BY <1>1, GrabInvariant, PTL

(* No torrent is left that nobody tracks, and none is taken that somebody owns.    *)
THEOREM OwnedAlways == Spec => []TorrentsAreOwned
  <1>1. Inv => TorrentsAreOwned
    BY DEF Inv, TorrentsAreOwned
  <1>. QED BY <1>1, GrabInvariant, PTL
=============================================================================
