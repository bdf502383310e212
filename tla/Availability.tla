---------------------------- MODULE Availability ----------------------------
(***************************************************************************)
(* The availability cycle (services/import_service.py): it promotes what was   *)
(* imported once Plex lists it, and heals films that were answered "available"   *)
(* on a listing that was wrong.                                             *)
(*                                                                         *)
(* The rows are those of Requests, and its callers go on meanwhile: the cycle     *)
(* reads them once, then waits for Plex, up to three times, and writes by           *)
(* compare-and-swap.  One tick is a case of MaxEvents.                           *)
(***************************************************************************)
EXTENDS Requests

VARIABLE tick  \* the cycle in progress

Asleep == [pc |-> "idle"]
Claim(r, s) == [row |-> r, scope |-> s, generation |-> rows[r].generation[s]]
tickFrame == answer' = Silent /\ UNCHANGED <<media_type, plex, calls, started>>

(* The signature of a false claim: available, and no file of this application's.         *)
FalseClaim(row) == row.status = "available" /\ row.imported = {}
list_false_available_movies ==
  {r \in Rows : media_type = "movie" /\ FalseClaim(rows[r]) /\ ~rows[r].verified}

(* The snapshot of a tick: completed rows, with the completion they stand for, and the      *)
(* false claims, with their owners.                                             *)
run_availability_cycle ==
  /\ tick.pc = "idle" /\ Event
  /\ LET done == {Claim(r, s) : r \in Rows, s \in Scopes}
         completed == {c \in done : rows[c.row].scopes[c.scope] = "completed"}
     IN /\ completed # {} \/ list_false_available_movies # {}
        /\ tick' = [pc |-> "asking", completed |-> completed, listed |-> {}, heard |-> FALSE,
                    sure |-> {}, heal |-> [r \in list_false_available_movies |-> rows[r].owner],
                    kin |-> <<>>, crossed |-> TRUE, at |-> 0, act |-> "none", winner |-> 0]
  /\ UNCHANGED rows /\ tickFrame

(* present_ids, season_presence: one answer for the whole tick.  A guid may be wrong, and    *)
(* the call may fail.  It takes longer than the one query between a call's insert and its    *)
(* look for earlier rows.                                                       *)
present_ids ==
  /\ tick.pc = "asking" /\ \A c \in Callers : ~At(c, "collapse")
  /\ \/ \E listed \in {plex, {}} :
          tick' = [tick EXCEPT !.pc = "paths", !.heard = TRUE, !.listed = listed,
                     !.sure = {c \in tick.completed : c.scope \in listed}]
     \/ tick' = [tick EXCEPT !.pc = "paths"]
  /\ UNCHANGED <<rows, events>> /\ tickFrame

(* What has no guid may still be listed under its path.  A failure confirms nothing.        *)
confirm_paths ==
  /\ tick.pc = "paths"
  /\ LET rest == {c \in tick.completed \ tick.sure : c.scope \in plex}
     IN \E found \in {rest, {}} :
          tick' = [tick EXCEPT !.pc = "promote", !.sure = @ \cup found]
  /\ UNCHANGED <<rows, events>> /\ tickFrame

(* What would go wrong: the row is promoted for whatever it holds now.            *)
Any_mark_available(row, c) == row.scopes[c.scope] \in Done
(* The completion that Plex was asked about, and no other.                       *)
mark_available(row, c) ==
  row.scopes[c.scope] \in Done /\ row.generation[c.scope] = c.generation

(* One row at a time.  A film that is promoted is no longer the re-grab of an eviction.       *)
PromoteOne ==
  /\ tick.pc = "promote" /\ tick.sure # {}
  /\ \E c \in tick.sure :
       /\ tick' = [tick EXCEPT !.sure = @ \ {c}]
       /\ IF ~rows[c.row].deleted /\ mark_available(rows[c.row], c)
          THEN Put(c.row, _recompute_parent(
                 [Set(rows[c.row], c.scope, "available") EXCEPT !.regrab = @ \ {c.scope}]))
          ELSE UNCHANGED rows
  /\ UNCHANGED events /\ tickFrame

(***************************************************************************)
(* _heal_false_available_movies                                             *)
(***************************************************************************)
(* The rows of the title that have a file.                                     *)
list_for_media(r) ==
  {q \in Rows \ {r} : rows[q].status \in Done /\ rows[q].imported # {}}

Oldest(ids) == IF ids = {} THEN 0 ELSE Min(ids)
SafeSibling(r) ==
  Oldest({q \in tick.kin[r].ids : tick.heal[r] \in {Nobody, tick.kin[r].owner[q]}})
AdoptableSibling(r) ==
  IF SafeSibling(r) # 0 \/ tick.heal[r] = Nobody THEN 0
  ELSE Oldest({q \in tick.kin[r].ids : tick.kin[r].owner[q] = Nobody})

HealReads ==
  /\ tick.pc = "promote" /\ tick.sure = {}
  /\ tick' = IF DOMAIN tick.heal = {} THEN Asleep
             ELSE [tick EXCEPT !.pc = "cross", !.kin = [r \in DOMAIN tick.heal |->
               [ids |-> list_for_media(r), owner |-> [q \in list_for_media(r) |-> rows[q].owner]]]]
  /\ UNCHANGED <<rows, events>> /\ tickFrame

(* The files of other owners are looked up by path; only whether that worked matters.         *)
CrossOwner(r) ==
  SafeSibling(r) = 0 /\ AdoptableSibling(r) = 0 /\ tick.kin[r].ids # {}
    /\ ~(tick.heard /\ 1 \in tick.listed)
ConfirmCrossOwner ==
  /\ tick.pc = "cross"
  /\ \E ok \in IF \E r \in DOMAIN tick.heal : CrossOwner(r) THEN BOOLEAN ELSE {TRUE} :
       tick' = [tick EXCEPT !.pc = "heal", !.crossed = ok]
  /\ UNCHANGED <<rows, events>> /\ tickFrame

(* What to do about the next claim; the active row is read here and may change before        *)
(* the write.                                                                  *)
Verdict(r) ==
  LET present == 1 \in tick.listed
      active == find_active
      with(act, winner) == [act |-> act, winner |-> winner]
  IN CASE SafeSibling(r) # 0 -> with("collapse", SafeSibling(r))
       [] AdoptableSibling(r) # 0 -> with("adopt", AdoptableSibling(r))
       [] ~tick.heard -> with("leave", 0)
       [] present /\ tick.kin[r].ids = {} -> with("verify", 0)
       [] active # 0 ->
            (CASE tick.heal[r] \in {Nobody, rows[active].owner} -> with("collapse", active)
               [] rows[active].owner = Nobody -> with("adopt", active)
               [] OTHER -> with("leave", 0))
       [] ~present /\ tick.kin[r].ids # {} /\ ~tick.crossed -> with("leave", 0)
       [] OTHER -> with("rearm", 0)

_heal_false_available_movies ==
  /\ tick.pc = "heal"
  /\ LET r == Min(DOMAIN tick.heal) IN
     tick' = [tick EXCEPT !.pc = "write", !.at = r, !.act = Verdict(r).act, !.winner = Verdict(r).winner]
  /\ UNCHANGED <<rows, events>> /\ tickFrame

(* The delete asks for the owner the decision was taken for.                        *)
delete_false_available_sibling_collapse(r) ==
  ~rows[r].deleted /\ FalseClaim(rows[r]) /\ rows[r].owner = tick.heal[r]

(* What would go wrong: the row goes with its subscribers.                         *)
Bare_commit_collapse(r, w, winner) ==
  IF delete_false_available_sibling_collapse(r)
  THEN rows' = [rows EXCEPT ![w] = winner, ![r] = Deleted]
  ELSE UNCHANGED rows
_commit_collapse(r, w, winner) ==
  IF delete_false_available_sibling_collapse(r)
  THEN rows' = [rows EXCEPT ![w] = copy_subscribers(winner, rows[r]), ![r] = Deleted]
  ELSE UNCHANGED rows

claim_if_unowned(w, c) == rows[w].owner = Nobody /\ c # Nobody
_adopt_then_collapse(r, w) ==
  LET c == tick.heal[r] IN
  IF claim_if_unowned(w, c) THEN _commit_collapse(r, w, add_subscriber(set_owner(rows[w], c), c))
  ELSE UNCHANGED rows

mark_heal_verified_present(r) ==
  IF ~rows[r].deleted /\ FalseClaim(rows[r]) /\ ~rows[r].verified
  THEN Put(r, [rows[r] EXCEPT !.verified = TRUE]) ELSE UNCHANGED rows

(* The index refuses a second active row; the next tick will see it.                  *)
rearm_false_available_to_pending(r) ==
  LET armed == Set([rows[r] EXCEPT !.status = "pending", !.minted = FALSE], 1, "pending") IN
  IF ~rows[r].deleted /\ FalseClaim(rows[r]) /\ ~Collides(r, armed)
  THEN Put(r, armed) ELSE UNCHANGED rows

HealWrites ==
  /\ tick.pc = "write"
  /\ LET r == tick.at  w == tick.winner
         left == DOMAIN tick.heal \ {r}
     IN /\ \/ tick.act = "collapse" /\ _commit_collapse(r, w, rows[w])
           \/ tick.act = "adopt" /\ _adopt_then_collapse(r, w)
           \/ tick.act = "verify" /\ mark_heal_verified_present(r)
           \/ tick.act = "rearm" /\ rearm_false_available_to_pending(r)
           \/ tick.act = "leave" /\ UNCHANGED rows
        /\ tick' = IF left = {} THEN Asleep
                   ELSE [tick EXCEPT !.pc = "heal", !.heal = [q \in left |-> @[q]]]
  /\ UNCHANGED events /\ tickFrame

(***************************************************************************)
(* The specification                                                       *)
(***************************************************************************)
Cycle ==
  \/ run_availability_cycle \/ present_ids \/ confirm_paths \/ PromoteOne
  \/ HealReads \/ ConfirmCrossOwner \/ _heal_false_available_movies \/ HealWrites

cycleVars == <<requestVars, tick>>
CycleInit == RequestsInit /\ tick = Asleep
CycleNext == (RequestsNext /\ UNCHANGED tick) \/ Cycle
CycleSpec == CycleInit /\ [][CycleNext]_cycleVars

(* A completed season or film becomes available only for the completion that Plex was     *)
(* asked about: one that was re-armed and imported again meanwhile waits for the next       *)
(* tick, which asks about the new files (mark_available, issue #494).                   *)
PromotionIsConfirmed ==
  [][\A r \in Rows : ~rows'[r].deleted =>
       \A s \in Scopes :
         (rows[r].scopes[s] = "completed" /\ rows'[r].scopes[s] = "available")
           => Claim(r, s) \in tick.completed]_cycleVars

(* Healing deletes duplicates and never a user's view of the title: whoever participated   *)
(* in a row that goes participates in one that stays, whatever happened since the cycle       *)
(* read the rows (issue #58).                                                    *)
Sees(table, u) == \E r \in DOMAIN table : ~table[r].deleted /\ u \in table[r].subscribers
HealStrandsNobody ==
  [][tick # tick' => \A u \in Users : Sees(rows, u) => Sees(rows', u)]_cycleVars
=============================================================================
