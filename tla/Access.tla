------------------------------- MODULE Access -------------------------------
(***************************************************************************)
(* Who may use the application (web/routers/auth.py, web/routers/settings.py,    *)
(* services/plex_access_service.py, services/session_lifecycle.py).             *)
(*                                                                         *)
(* A Plex account signs in when plex.tv says that it reaches the configured       *)
(* server, and is given a session.  The server may be replaced, the share          *)
(* withdrawn, the token rotated, while a sign-in, a revalidation or a capture of     *)
(* the account's libraries is under way; each of them decided on what it read      *)
(* before.  The writes go through the lock and the boundary of Secrets.            *)
(*                                                                         *)
(* The cast of a behaviour says which actors take part in it.                    *)
(***************************************************************************)
EXTENDS Secrets

CONSTANTS
  Accounts,   \* Plex accounts
  Signers,    \* sign-in requests
  Casts,      \* the sets of actors that are checked together
  _MAX_SIGN_IN_SHAPE_ATTEMPTS,
  MaxPuts, MaxSweeps, MaxEvents, MaxClock \* bounds

VARIABLES
  init,    \* SystemSettings.initialized
  claimed, \* setup_started_at
  conf,    \* the Plex server on file: its identity (the anchor) and its address
  gen,     \* plex_identity_generation
  user,    \* the rows of the accounts
  sess,    \* the Plex sessions
  sign,    \* the sign-ins
  put,     \* the settings update
  sweep,   \* the share revalidation
  cap,     \* the detached captures, one for each sign-in
  slot,    \* the capture slots
  watch,   \* the watchlist sync, its switch and the rows it stored for the account
  world,   \* what Plex would answer
  tally    \* bounds: the counters, and the clock in seconds

(* Whoever takes the boundary is told apart from everybody else who does.            *)
ASSUME SignersAssumption ==
  /\ Signers \cap (Holders \cup {None, "drain", "put"}) = {}
  /\ "put" \notin Holders

(* The account whose share is revalidated, and the one that may sign in beside it.        *)
ASSUME AccountsAssumption == {"a", "b"} \subseteq Accounts

accessVars == <<init, claimed, conf, gen, user, sess, sign, put, sweep, cap, slot, watch, world, tally>>
vars == <<secretVars, accessVars>>

Servers == {"A", "B"}
Urls == {"uA", "uB"}
TokensOf(a) == IF a = "a" THEN {"t1", "t2"} ELSE {"t3"}
NoEnt == [server |-> None, saw |-> None, token |-> None, at |-> 0]
NewUser == [row |-> FALSE, token |-> None, cipher |-> 0, admin |-> FALSE, ent |-> NoEnt,
            due |-> TRUE, state |-> None]
Idle == [at |-> "idle"]

Owner(p) == IF p = "s2" /\ ~init /\ ~Act("resume") THEN "b" ELSE "a"
Sessions == Signers \cup {"s0"}
Answers(u) == world.live[u]
secretFrame == UNCHANGED <<cast, secrets, faults>> /\ UNCHANGED logVars /\ UNCHANGED keyVars

(***************************************************************************)
(* Signing in                                                              *)
(***************************************************************************)
signFrame == UNCHANGED <<init, claimed, conf, gen, put, sweep, slot, watch, world, tally>>

(* The generation is read before anything else.                                *)
plex_sign_in_endpoint(p) ==
  /\ Act(p) /\ sign[p].at = "idle"
  /\ \E t \in TokensOf(Owner(p)) : sign' = [sign EXCEPT ![p] =
       [at |-> "stamped", gen |-> gen, token |-> t, reach |-> world.reach["a"], admin |-> FALSE,
        server |-> None, old |-> None, tries |-> 0]]
  /\ UNCHANGED <<user, sess, cap, bound>> /\ signFrame /\ secretFrame

fetch_resources(p) ==
  /\ sign[p].at = "stamped"
  /\ sign' = [sign EXCEPT ![p].reach = world.reach[Owner(p)],
                          ![p].at = IF sign[p].token \in world.dead THEN "denied" ELSE "fetched"]
  /\ UNCHANGED <<user, sess, cap, bound>> /\ signFrame /\ secretFrame

(* The server the account is measured against: the anchor, or what answers at the      *)
(* address when none is on file.                                               *)
Configured == IF conf.anchor # None THEN conf.anchor
              ELSE IF conf.url # None THEN Answers(conf.url) ELSE None
_post_init_access(p) == Configured # None /\ sign[p].reach[Configured] # "no"
Granted(p, at) == [sign[p] EXCEPT !.at = at, !.server = Configured,
                                  !.admin = sign[p].reach[Configured] = "own"]

(* The first decision, taken outside the lock; the row's token gives the shape.         *)
Shape(old, t) == IF old \notin {None, t} THEN "boundary" ELSE "ordinary"
Decide(p) ==
  /\ init /\ sign[p].at = "fetched"
  /\ LET old == user[Owner(p)].token IN
     sign' = [sign EXCEPT ![p] =
       IF _post_init_access(p) THEN [Granted(p, Shape(old, sign[p].token)) EXCEPT !.old = old]
       ELSE [@ EXCEPT !.at = "denied"]]
  /\ UNCHANGED <<user, sess, cap, bound>> /\ signFrame /\ secretFrame

(* What a sign-in writes.  The column is rewritten, under a new ciphertext, when the     *)
(* value it holds changes.                                                     *)
_apply_signin_fields(p, admin) ==
  LET u == user[Owner(p)] t == sign[p].token IN
  user' = [user EXCEPT ![Owner(p)] =
    [u EXCEPT !.row = TRUE, !.admin = admin, !.token = t,
              !.cipher = IF u.token = t THEN @ ELSE @ + 1]]
_stage_browser_session(p) ==
  sess' = [sess EXCEPT ![p] = [live |-> TRUE, who |-> Owner(p), server |-> sign[p].server,
                              token |-> sign[p].token, born |-> tally.clock]]
(* The capture carries the ciphertext of the row this sign-in wrote.               *)
Spawn(p, cipher) ==
  cap' = [cap EXCEPT ![p] = [at |-> "spawned", token |-> sign[p].token, cipher |-> cipher,
                             server |-> None, url |-> None, saw |-> None, when |-> 0]]

(* The rotation shape.  Access is computed again before anything is rewritten.          *)
SignEnters(p) ==
  /\ sign[p].at = "boundary" /\ Enter(p)
  /\ sign' = [sign EXCEPT ![p].at = "inside"]
  /\ UNCHANGED <<user, sess, cap>> /\ signFrame /\ secretFrame

_recompute_access_in_lock(p) ==
  /\ init /\ sign[p].at = "inside"
  /\ \/ _post_init_access(p) /\ sign' = [sign EXCEPT ![p] = Granted(p, "again")]
        /\ UNCHANGED <<bound, faults>>
     \/ ~_post_init_access(p) /\ sign' = [sign EXCEPT ![p].at = "denied"]
        /\ bound' = Free /\ UNCHANGED faults
     \/ Fault /\ sign' = [sign EXCEPT ![p].at = "denied"] /\ bound' = Free \* the recheck times out
  /\ UNCHANGED <<cast, secrets>> /\ UNCHANGED logVars /\ UNCHANGED keyVars
  /\ UNCHANGED <<user, sess, cap>> /\ signFrame

_reread_retiring_token(p) == {user[Owner(p)].token} \ {None, sign[p].token}

SignBegins(p) ==
  /\ sign[p].at = IF init THEN "again" ELSE "inside"
  /\ begin_secret_rotation(p, _reread_retiring_token(p), {sign[p].token})
  /\ sign' = [sign EXCEPT ![p].at = "begun"]
  /\ UNCHANGED <<cast, secrets, faults, rec, gone>> /\ UNCHANGED keyVars
  /\ UNCHANGED <<user, sess, cap>> /\ signFrame

SignCommits(p) ==
  /\ sign[p].at = "begun" /\ _commit(p)
  /\ _apply_signin_fields(p, ~init \/ sign[p].admin) /\ _stage_browser_session(p)
  /\ sign' = [sign EXCEPT ![p].at = "committed"]
  /\ UNCHANGED <<cast, faults, handler, gone>> /\ UNCHANGED keyVars
  /\ UNCHANGED cap /\ signFrame

SignEnds(p) ==
  /\ \/ /\ sign[p].at = "committed" /\ complete_secret_rotation(p)
        /\ sign' = [sign EXCEPT ![p].at = "done"] /\ Spawn(p, user[Owner(p)].cipher)
     \/ /\ sign[p].at = "begun" /\ abort_secret_rotation(p)
        /\ sign' = [sign EXCEPT ![p].at = "failed"] /\ UNCHANGED <<rec, gone, cap>>
  /\ UNCHANGED <<cast, secrets>> /\ UNCHANGED keyVars
  /\ UNCHANGED <<user, sess>> /\ signFrame

(* The ordinary shape.  Under the lock the row is read again; a token that changed        *)
(* meanwhile makes it a rotation, a server replaced meanwhile a new decision.             *)
Unstamped_Moved(p) == FALSE
Moved(p) == gen # sign[p].gen
SignRechecks(p) ==
  /\ init /\ sign[p].at = "ordinary" /\ bound.by = None
  /\ LET stored == user[Owner(p)].token  next == sign[p].tries + 1 IN
     \/ /\ stored \notin {None, sign[p].token}
        /\ sign' = [sign EXCEPT ![p].old = stored, ![p].tries = next,
             ![p].at = IF next < _MAX_SIGN_IN_SHAPE_ATTEMPTS THEN "boundary" ELSE "exhausted"]
        /\ UNCHANGED bound
     \/ /\ stored \in {None, sign[p].token} /\ (Moved(p) => _post_init_access(p))
        /\ sign' = [sign EXCEPT ![p] =
             IF Moved(p) THEN Granted(p, "staged") ELSE [@ EXCEPT !.at = "staged"]]
        /\ bound' = [Free EXCEPT !.by = p]
     \/ /\ stored \in {None, sign[p].token} /\ Moved(p) /\ ~_post_init_access(p)
        /\ sign' = [sign EXCEPT ![p].at = "denied"] /\ UNCHANGED bound
  /\ UNCHANGED <<user, sess, cap>> /\ signFrame /\ secretFrame

_upsert_user(p) ==
  /\ sign[p].at = "staged" /\ bound.by = p
  /\ bound' = Free
  /\ \/ /\ _apply_signin_fields(p, sign[p].admin) /\ _stage_browser_session(p)
        /\ secrets' = secrets \cup {sign[p].token}
        /\ sign' = [sign EXCEPT ![p].at = "done"] /\ Spawn(p, user'[Owner(p)].cipher)
        /\ UNCHANGED faults
     \/ /\ Fault /\ sign' = [sign EXCEPT ![p].at = "failed"]
        /\ UNCHANGED <<user, sess, cap, secrets>>
  /\ UNCHANGED cast /\ UNCHANGED logVars /\ UNCHANGED keyVars /\ signFrame

(* Before setup is done: the first account that owns a server claims it, and only its     *)
(* own row may come back.  The claim and the session are one transaction.               *)
_claim_or_resume_setup(p) ==
  /\ ~init /\ sign[p].at = "fetched"
  /\ LET u == user[Owner(p)]
         may == (\E s \in Servers : sign[p].reach[s] = "own") /\ (claimed => u.row)
     IN \/ /\ ~may /\ sign' = [sign EXCEPT ![p].at = "denied"]
           /\ UNCHANGED <<user, sess, cap, secrets, claimed>>
        \/ /\ may /\ Shape(u.token, sign[p].token) = "boundary"
           /\ sign' = [sign EXCEPT ![p].at = "boundary"]
           /\ UNCHANGED <<user, sess, cap, secrets, claimed>>
        \/ /\ may /\ Shape(u.token, sign[p].token) = "ordinary"
           /\ claimed' = TRUE /\ _apply_signin_fields(p, TRUE) /\ _stage_browser_session(p)
           /\ secrets' = secrets \cup {sign[p].token}
           /\ sign' = [sign EXCEPT ![p].at = "done"] /\ Spawn(p, user'[Owner(p)].cipher)
  /\ UNCHANGED <<cast, bound, faults>> /\ UNCHANGED logVars /\ UNCHANGED keyVars
  /\ UNCHANGED <<init, conf, gen, put, sweep, slot, watch, world, tally>>

(***************************************************************************)
(* Replacing the server                                                    *)
(***************************************************************************)
putFrame == UNCHANGED <<init, claimed, user, sign, sweep, cap, slot, watch, world>>

(* PUT /settings, under its own lock from here to the end.  A change of the server is       *)
(* verified, by asking whoever answers at the new address, before anything is written.       *)
_verify_plex_repoint ==
  /\ Act("put") /\ put.at = "idle" /\ tally.puts < MaxPuts
  /\ \/ \E u \in Urls \ {conf.url} :
          put' = [at |-> "boundary", kind |-> "point", url |-> u, machine |-> Answers(u)]
     \/ /\ conf.url # None
        /\ put' = [at |-> "boundary", kind |-> "clear", url |-> None, machine |-> None]
  /\ tally' = [tally EXCEPT !.puts = @ + 1]
  /\ UNCHANGED <<bound, conf, gen, sess>> /\ putFrame /\ secretFrame

(* Any other secret of the settings: nothing of the server changes.                  *)
ChangeSecret ==
  /\ Act("secret") /\ put.at = "idle" /\ "q1" \in secrets
  /\ put' = [at |-> "boundary", kind |-> "secret", url |-> None, machine |-> None]
  /\ UNCHANGED <<bound, conf, gen, sess, tally>> /\ putFrame /\ secretFrame

(* The address is saved again as it is: an installation without an anchor is given one.    *)
_backfill_missing_plex_anchor ==
  /\ Act("put") /\ put.at = "idle" /\ tally.puts < MaxPuts
  /\ conf.anchor = None /\ conf.url # None
  /\ put' = [at |-> "backfill", kind |-> "backfill", url |-> conf.url, machine |-> Answers(conf.url)]
  /\ tally' = [tally EXCEPT !.puts = @ + 1]
  /\ UNCHANGED <<bound, conf, gen, sess>> /\ putFrame /\ secretFrame

Backfill ==
  /\ put.at = "backfill"
  /\ conf' = [conf EXCEPT !.anchor = put.machine] /\ put' = Idle
  /\ UNCHANGED <<bound, gen, sess, tally>> /\ putFrame /\ secretFrame

PutEnters ==
  /\ put.at = "boundary" /\ Enter("put") /\ put' = [put EXCEPT !.at = "inside"]
  /\ UNCHANGED <<conf, gen, sess, tally>> /\ putFrame /\ secretFrame

PutBegins ==
  /\ put.at = "inside"
  /\ IF put.kind = "secret" THEN begin_secret_rotation("put", {"q1"}, {"q2"})
     ELSE begin_secret_rotation("put", {}, {})
  /\ put' = [put EXCEPT !.at = "begun"]
  /\ UNCHANGED <<cast, secrets, faults, rec, gone>> /\ UNCHANGED keyVars
  /\ UNCHANGED <<conf, gen, sess, tally>> /\ putFrame

(* The same server at another address is a relocation, and signs nobody out.              *)
Relocates == put.machine = conf.anchor
SignEveryoneOut ==
  /\ sess' = [s \in Sessions |-> [sess[s] EXCEPT !.live = FALSE]]
  /\ recov' = [r \in DOMAIN recov |-> [recov[r] EXCEPT !.live = FALSE]]

write_settings ==
  /\ put.at = "begun" /\ _commit("put")
  /\ \/ /\ put.kind = "secret" /\ UNCHANGED <<conf, sess, recov>>
        /\ put' = [put EXCEPT !.at = "committed"]
     \/ /\ put.kind # "secret" /\ conf' = [url |-> put.url, anchor |-> put.machine]
        /\ \/ put.machine = None /\ UNCHANGED <<sess, recov>>
              /\ put' = [put EXCEPT !.at = "committed"]
           \/ put.machine # None /\ Relocates /\ UNCHANGED <<sess, recov>>
              /\ put' = [put EXCEPT !.at = "committed", !.kind = "relocated"]
           \/ put.machine # None /\ ~Relocates /\ SignEveryoneOut
              /\ put' = [put EXCEPT !.at = "committed"]
  /\ UNCHANGED <<cast, faults, handler, gone, appkey, rotating, keeper, hold, exch>>
  /\ UNCHANGED <<gen, tally>> /\ putFrame

(* The generation moves after the commit and before the lock is released.                *)
_post_commit_invalidations ==
  /\ \/ /\ put.at = "committed" /\ complete_secret_rotation("put")
        /\ gen' = IF put.kind \in {"point", "clear"} THEN gen + 1 ELSE gen
     \/ /\ put.at = "begun" /\ abort_secret_rotation("put") /\ UNCHANGED <<gen, rec, gone>>
  /\ put' = Idle
  /\ UNCHANGED <<cast, secrets>> /\ UNCHANGED keyVars
  /\ UNCHANGED <<conf, sess, tally>> /\ putFrame

(***************************************************************************)
(* Revalidating a share                                                    *)
(***************************************************************************)
sweepFrame == UNCHANGED <<init, claimed, conf, gen, sign, put, cap, watch, world>>
_holds_live_session(a) == \E s \in Sessions : sess[s].live /\ sess[s].who = a

(* A tick selects who is due and has a session, with the token and its ciphertext.         *)
_select_due_candidates ==
  /\ Act("sweep") /\ sweep.at = "idle" /\ tally.sweeps < MaxSweeps
  /\ user["a"].due /\ _holds_live_session("a") /\ Configured # None
  /\ sweep' = [at |-> "selected", token |-> user["a"].token, cipher |-> user["a"].cipher,
               machine |-> Configured, url |-> conf.url, wired |-> conf.anchor # None,
               verdict |-> None, guard |-> 0, seen |-> 0, admin |-> FALSE,
               saw |-> None, when |-> 0]
  /\ tally' = [tally EXCEPT !.sweeps = @ + 1]
  /\ UNCHANGED <<bound, user, sess, slot>> /\ sweepFrame /\ secretFrame

(* plex.tv is asked with that token.  An outage says nothing; an error ends the attempt.      *)
check_share ==
  /\ sweep.at = "selected"
  /\ \/ /\ sweep' = [sweep EXCEPT !.at = "checked", !.verdict =
             IF sweep.token = None THEN "unverifiable"
             ELSE IF sweep.token \in world.dead THEN "token_stale"
             ELSE IF world.reach["a"][sweep.machine] = "no" THEN "share_revoked" ELSE "authorized"]
        /\ UNCHANGED faults
     \/ Fault /\ sweep' = [sweep EXCEPT !.at = "checked", !.verdict = "unknown"]
     \/ Fault /\ sweep' = Idle
  /\ UNCHANGED <<cast, bound, secrets>> /\ UNCHANGED logVars /\ UNCHANGED keyVars
  /\ UNCHANGED <<user, sess, slot, tally>> /\ sweepFrame

(* A live probe of the address on file, which may fail; the tick goes on only if the     *)
(* server that answers is the one the verdict is about.                              *)
_confirm_share_anchor == conf.url # None /\ Answers(conf.url) = sweep.machine
_anchor_confirmed(next) ==
  \/ sweep' = (IF _confirm_share_anchor THEN next ELSE Idle) /\ UNCHANGED faults
  \/ Fault /\ sweep' = Idle

(* A share that seems lost is acted on only against a server known to be the same.             *)
ConfirmLoss ==
  /\ sweep.at = "checked" /\ sweep.verdict = "share_revoked"
  /\ _anchor_confirmed([sweep EXCEPT !.at = "confirmed"])
  /\ UNCHANGED <<cast, bound, secrets>> /\ UNCHANGED logVars /\ UNCHANGED keyVars
  /\ UNCHANGED <<user, sess, slot, tally>> /\ sweepFrame

(* The row is read again: another token, and the verdict is dropped.                        *)
GuardVerdict ==
  /\ \/ sweep.at = "confirmed"
     \/ sweep.at = "checked" /\ sweep.verdict # "share_revoked"
  /\ sweep' = IF user["a"].token # sweep.token THEN Idle
              ELSE [sweep EXCEPT !.at = "guarded", !.guard = tally.clock,
                                 !.seen = user["a"].cipher, !.admin = user["a"].admin]
  /\ UNCHANGED <<bound, user, sess, slot, tally>> /\ sweepFrame /\ secretFrame

Unconditioned_revoke_user_sessions ==
  sess' = [s \in Sessions |->
    [sess[s] EXCEPT !.live = @ /\ ~(sess[s].who = "a" /\ sess[s].born <= sweep.guard)]]
(* One statement: sessions no newer than the look, while the ciphertext is still the same.         *)
revoke_user_sessions ==
  sess' = [s \in Sessions |->
    [sess[s] EXCEPT !.live = @ /\ ~(/\ sess[s].who = "a" /\ sess[s].born <= sweep.guard
                                    /\ user["a"].cipher = sweep.seen)]]

apply_share_verdict ==
  /\ sweep.at = "guarded"
  /\ LET v == sweep.verdict IN
     /\ user' = IF v = "unknown" THEN user
                ELSE [user EXCEPT !["a"].due = FALSE, !["a"].state = v,
                                  !["a"].ent = IF v = "share_revoked" THEN NoEnt ELSE @]
     /\ IF v \in {"share_revoked", "token_stale"} /\ ~sweep.admin THEN revoke_user_sessions
        ELSE UNCHANGED sess
     /\ sweep' = IF v = "authorized" /\ sweep.wired THEN [sweep EXCEPT !.at = "authorized"] ELSE Idle
  /\ UNCHANGED <<bound, slot, tally>> /\ sweepFrame /\ secretFrame

(* The revalidation interval passes.                                             *)
_due_predicate ==
  /\ Act("sweep") /\ ~user["a"].due /\ tally.sweeps < MaxSweeps
  /\ user' = [user EXCEPT !["a"].due = TRUE]
  /\ UNCHANGED <<bound, sess, slot, sweep, tally>> /\ sweepFrame /\ secretFrame

(***************************************************************************)
(* Capturing an account's libraries                                        *)
(***************************************************************************)
(* Written while the anchor, the ciphertext and the age still allow it.                 *)
Tokenless_Supersedes(a, server, cipher, when) == conf.anchor = server /\ user[a].ent.at <= when
Supersedes(a, server, cipher, when) ==
  conf.anchor = server /\ user[a].cipher = cipher /\ user[a].ent.at <= when
store_entitlements(a, server, saw, token, cipher, when) ==
  user' = IF Supersedes(a, server, cipher, when)
          THEN [user EXCEPT ![a].ent = [server |-> server, saw |-> saw, token |-> token, at |-> when]]
          ELSE user

(* The sweep takes the slot only if nobody holds it or waits for it...                    *)
try_entitlement_capture_slot ==
  /\ sweep.at = "authorized"
  /\ IF slot.holder # None \/ slot.waiting # {}
     THEN sweep' = Idle /\ UNCHANGED <<slot, faults>>
     ELSE /\ _anchor_confirmed([sweep EXCEPT !.at = "slot"])
          /\ slot' = [slot EXCEPT !.holder = IF sweep'.at = "slot" THEN "sweep" ELSE None]
  /\ UNCHANGED <<cast, bound, secrets>> /\ UNCHANGED logVars /\ UNCHANGED keyVars
  /\ UNCHANGED <<user, sess, tally>> /\ sweepFrame

(* ...reads the sections with the token it selected, from whoever answers...                *)
_attempt_capture ==
  /\ sweep.at = "slot"
  /\ \/ /\ sweep.token \notin world.dead
        /\ sweep' = [sweep EXCEPT !.at = "read", !.saw = Answers(sweep.url), !.when = tally.reads + 1]
        /\ tally' = [tally EXCEPT !.reads = @ + 1] /\ UNCHANGED <<slot, faults>>
     \/ /\ sweep.token \in world.dead /\ sweep' = Idle
        /\ slot' = [slot EXCEPT !.holder = None] /\ UNCHANGED <<tally, faults>>
     \/ /\ Fault /\ sweep' = Idle /\ slot' = [slot EXCEPT !.holder = None] /\ UNCHANGED tally
  /\ UNCHANGED <<cast, bound, secrets>> /\ UNCHANGED logVars /\ UNCHANGED keyVars
  /\ UNCHANGED <<user, sess>> /\ sweepFrame

(* ...asks again who answers, and stores.                                        *)
_capture_in_slot ==
  /\ sweep.at = "read"
  /\ _anchor_confirmed([sweep EXCEPT !.at = "sure"])
  /\ slot' = [slot EXCEPT !.holder = IF sweep'.at = "sure" THEN @ ELSE None]
  /\ UNCHANGED <<cast, bound, secrets>> /\ UNCHANGED logVars /\ UNCHANGED keyVars
  /\ UNCHANGED <<user, sess, tally>> /\ sweepFrame

StoreSwept ==
  /\ sweep.at = "sure"
  /\ store_entitlements("a", sweep.machine, sweep.saw, sweep.token, sweep.cipher, sweep.when)
  /\ sweep' = Idle /\ slot' = [slot EXCEPT !.holder = None]
  /\ UNCHANGED <<bound, sess, tally>> /\ sweepFrame /\ secretFrame

(* The capture a sign-in leaves behind: the anchor and the address are two reads.            *)
capFrame == UNCHANGED <<init, claimed, conf, gen, sess, sign, put, sweep, watch, world>>
_capture_entitlements_after_sign_in(p) ==
  /\ \/ cap[p].at = "spawned" /\ Act("capture")
        /\ cap' = [cap EXCEPT ![p].at = "anchor", ![p].server = conf.anchor]
     \/ cap[p].at = "anchor"
        /\ cap' = [cap EXCEPT ![p].url = conf.url,
             ![p].at = IF cap[p].server = None \/ conf.url = None THEN "done" ELSE "ready"]
  /\ UNCHANGED <<bound, user, slot, tally>> /\ capFrame /\ secretFrame

entitlement_capture_slot(p) ==
  /\ \/ /\ cap[p].at = "ready" /\ cap' = [cap EXCEPT ![p].at = "waiting"]
        /\ slot' = [slot EXCEPT !.waiting = @ \cup {p}]
     \/ /\ cap[p].at = "waiting" /\ slot.holder = None /\ cap' = [cap EXCEPT ![p].at = "slot"]
        /\ slot' = [holder |-> p, waiting |-> slot.waiting \ {p}]
  /\ UNCHANGED <<bound, user, tally>> /\ capFrame /\ secretFrame

Vacated == [slot EXCEPT !.holder = None]
capture_entitlements(p) ==
  /\ cap[p].at = "slot"
  /\ \/ /\ cap[p].token \notin world.dead
        /\ cap' = [cap EXCEPT ![p].at = "read", ![p].saw = Answers(cap[p].url),
                              ![p].when = tally.reads + 1]
        /\ tally' = [tally EXCEPT !.reads = @ + 1] /\ UNCHANGED <<slot, faults>>
     \/ /\ Fault \/ (cap[p].token \in world.dead /\ UNCHANGED faults)
        /\ cap' = [cap EXCEPT ![p].at = "done"] /\ slot' = Vacated /\ UNCHANGED tally
  /\ UNCHANGED <<cast, bound, secrets>> /\ UNCHANGED logVars /\ UNCHANGED keyVars
  /\ UNCHANGED user /\ capFrame

fetch_server_identity(p) ==
  /\ cap[p].at = "read"
  /\ IF Answers(cap[p].url) = cap[p].server
     THEN cap' = [cap EXCEPT ![p].at = "sure"] /\ UNCHANGED slot
     ELSE cap' = [cap EXCEPT ![p].at = "done"] /\ slot' = Vacated
  /\ UNCHANGED <<bound, user, tally>> /\ capFrame /\ secretFrame

StoreSigned(p) ==
  /\ cap[p].at = "sure"
  /\ store_entitlements(Owner(p), cap[p].server, cap[p].saw, cap[p].token, cap[p].cipher,
                        cap[p].when)
  /\ cap' = [cap EXCEPT ![p].at = "done"] /\ slot' = Vacated
  /\ UNCHANGED <<bound, tally>> /\ capFrame /\ secretFrame

(***************************************************************************)
(* Following the watchlists.  The rows protect titles from eviction.          *)
(***************************************************************************)
watchFrame ==
  /\ UNCHANGED <<bound, init, claimed, conf, gen, user, sess, sign, put, sweep, cap, slot, world, tally>>
  /\ UNCHANGED <<cast, secrets>> /\ UNCHANGED logVars /\ UNCHANGED keyVars
Rest(rows) == [watch EXCEPT !.at = "idle", !.rows = rows]

(* A tick, when the sync is on: the server it judges by, asked for if there is no anchor.    *)
_watchlist_sync_once ==
  /\ Act("watch") /\ watch.at = "idle"
  /\ \/ watch.on /\ UNCHANGED faults
        /\ watch' = [watch EXCEPT !.at = IF Configured = None THEN "absent" ELSE "resolved",
                                  !.machine = Configured]
     \/ ~watch.on /\ UNCHANGED faults /\ watch' = Rest(FALSE)
     \/ watch.on /\ Fault /\ conf.anchor = None /\ UNCHANGED watch \* the probe fails
  /\ watchFrame

(* Nothing configured: asked twice, and the rows go only if it is still so when they go.     *)
Reconfirm ==
  /\ watch.at = "absent"
  /\ watch' = [watch EXCEPT !.at = IF Configured = None THEN "clearing" ELSE "idle"]
  /\ UNCHANGED faults /\ watchFrame

Unguarded_clear_snapshots_unless_settings_present ==
  watch.at = "clearing" /\ watch' = Rest(FALSE) /\ UNCHANGED faults /\ watchFrame
clear_snapshots_unless_settings_present ==
  /\ watch.at = "clearing"
  /\ watch' = Rest(watch.rows /\ (conf.anchor # None \/ conf.url # None))
  /\ UNCHANGED faults /\ watchFrame

list_sync_users ==
  /\ watch.at = "resolved"
  /\ watch' = IF user["a"].token = None THEN Rest(watch.rows)
              ELSE [watch EXCEPT !.at = "listed", !.token = user["a"].token]
  /\ UNCHANGED faults /\ watchFrame

revalidate_sync_user ==
  /\ watch.at = "listed"
  /\ \/ watch' = [watch EXCEPT !.at = IF watch.token \in world.dead
                                         \/ world.reach["a"][watch.machine] = "no"
                                      THEN "stale" ELSE "authorized"] /\ UNCHANGED faults
     \/ Fault /\ watch' = Rest(watch.rows)
  /\ watchFrame

(* A stale account's rows go if the server is still the one it was judged by...            *)
StillConfigured(next) ==
  \/ watch' = (IF Configured = watch.machine THEN [watch EXCEPT !.at = next] ELSE Rest(watch.rows))
     /\ UNCHANGED faults
  \/ Fault /\ conf.anchor = None /\ watch' = Rest(watch.rows)
_resolve_watchlist_server_identity ==
  /\ \/ watch.at = "stale" /\ StillConfigured("forget")
     \/ watch.at = "authorized" /\ StillConfigured("sync")
  /\ watchFrame

(* ...and its token the one that was judged.                                   *)
clear_user_snapshot ==
  /\ watch.at = "forget"
  /\ watch' = Rest(watch.rows /\ user["a"].token # watch.token)
  /\ UNCHANGED faults /\ watchFrame

(* The account's entries replace its rows; requests follow (Requests).               *)
sync_user ==
  /\ watch.at = "sync"
  /\ \/ \E rows \in BOOLEAN : watch' = Rest(rows) /\ UNCHANGED faults
     \/ Fault /\ watch' = Rest(watch.rows)
  /\ watchFrame

(***************************************************************************)
(* The world                                                               *)
(***************************************************************************)
World ==
  /\ Act("world") /\ tally.events < MaxEvents
  /\ tally' = [tally EXCEPT !.events = @ + 1]
  /\ \/ \E to \in {"no", "share"} \ {world.reach["a"]["A"]} : world' = [world EXCEPT !.reach["a"]["A"] = to]
     \/ world.live["uA"] = "A" /\ world' = [world EXCEPT !.live["uA"] = "B"]
     \/ \E t \in TokensOf("a") \ world.dead : world' = [world EXCEPT !.dead = @ \cup {t}]
  /\ UNCHANGED <<bound, init, claimed, conf, gen, user, sess, sign, put, sweep, cap, slot, watch>>
  /\ secretFrame

Second ==
  /\ Act("sweep") /\ tally.clock < MaxClock
  /\ tally' = [tally EXCEPT !.clock = @ + 1]
  /\ UNCHANGED <<bound, init, claimed, conf, gen, user, sess, sign, put, sweep, cap, slot, watch, world>>
  /\ secretFrame

(***************************************************************************)
(* The specification                                                       *)
(***************************************************************************)
Reaches == {[A |-> "share", B |-> "no"], [A |-> "own", B |-> "share"], [A |-> "no", B |-> "own"]}

Init ==
  /\ cast \in Casts
  /\ init = ~Act("setup") /\ claimed = FALSE
  /\ conf = [anchor |-> IF Act("legacy") \/ ~init THEN None ELSE "A", url |-> IF init THEN "uA" ELSE None]
  /\ \E known \in IF init THEN BOOLEAN ELSE {FALSE} :
       /\ user = [a \in Accounts |->
            IF a = "a" /\ known THEN [NewUser EXCEPT !.row = TRUE, !.token = "t1", !.cipher = 1]
            ELSE NewUser]
       /\ sess = [s \in Sessions |-> [live |-> s = "s0" /\ known, who |-> "a", server |-> "A",
                                      token |-> "t1", born |-> 0]]
       /\ SecretsInit((IF known THEN {"t1"} ELSE {}) \cup (IF Act("secret") THEN {"q1"} ELSE {}))
  /\ \E r \in Reaches, s \in IF Act("capture") THEN Servers ELSE {"B"} :
       world = [live |-> [uA |-> "A", uB |-> s], reach |-> [a \in Accounts |-> r], dead |-> {}]
  /\ gen = 0 /\ put = Idle /\ sweep = Idle
  /\ sign = [p \in Signers |-> Idle] /\ cap = [p \in Signers |-> Idle]
  /\ slot = [holder |-> None, waiting |-> {}]
  /\ \E on \in IF Act("watch") THEN BOOLEAN ELSE {FALSE} :
       watch = [at |-> "idle", on |-> on, rows |-> Act("watch"), machine |-> None, token |-> None]
  /\ tally = [puts |-> 0, sweeps |-> 0, events |-> 0, reads |-> 0, clock |-> 0]

SignIn(p) ==
  \/ plex_sign_in_endpoint(p) \/ fetch_resources(p) \/ Decide(p) \/ SignEnters(p)
  \/ _recompute_access_in_lock(p) \/ SignBegins(p) \/ SignCommits(p) \/ SignEnds(p)
  \/ SignRechecks(p) \/ _upsert_user(p) \/ _claim_or_resume_setup(p)

Capture(p) ==
  \/ _capture_entitlements_after_sign_in(p) \/ entitlement_capture_slot(p)
  \/ capture_entitlements(p) \/ fetch_server_identity(p) \/ StoreSigned(p)

PutSettings ==
  \/ _verify_plex_repoint \/ ChangeSecret \/ _backfill_missing_plex_anchor \/ Backfill
  \/ PutEnters \/ PutBegins \/ write_settings \/ _post_commit_invalidations

SweepShares ==
  \/ _select_due_candidates \/ check_share \/ ConfirmLoss \/ GuardVerdict
  \/ apply_share_verdict \/ _due_predicate
  \/ try_entitlement_capture_slot \/ _attempt_capture \/ _capture_in_slot \/ StoreSwept

Watchlist ==
  \/ _watchlist_sync_once \/ Reconfirm \/ clear_snapshots_unless_settings_present
  \/ list_sync_users \/ revalidate_sync_user \/ _resolve_watchlist_server_identity
  \/ clear_user_snapshot \/ sync_user

Next ==
  \/ (LogNext \/ KeyNext) /\ UNCHANGED accessVars
  \/ \E p \in Signers : SignIn(p) \/ Capture(p)
  \/ PutSettings \/ SweepShares \/ Watchlist \/ World \/ Second

Spec == Init /\ [][Next]_vars

(***************************************************************************)
(* What the code leaves to the owner                                         *)
(***************************************************************************)
(* Two workflows the code does not guard, and the proofs of two properties exclude: the   *)
(* address of an installation that has no anchor yet changes hands before             *)
(* _backfill_missing_plex_anchor; the settings are repointed and a server moved, both,    *)
(* between two answers of one read of the libraries (_anchor_confirmed: separate         *)
(* responses are not atomic identity proof).                                     *)
LegacyIsSettled == \A c \in Casts : ~({"legacy", "world"} \subseteq c)
OneEndMoves == \A c \in Casts : {"put", "world"} \subseteq c => c \cap {"capture", "sweep"} = {}

(***************************************************************************)
(* Properties                                                              *)
(***************************************************************************)
(* A session that works was granted against the server now on file: a sign-in that     *)
(* decided on the server of before is decided again, or its session cut.             *)
GrantsMatchServer ==
  (init /\ conf.anchor # None) => \A s \in Sessions : sess[s].live => sess[s].server = conf.anchor

(* A revalidation signs an account out only while the token it asked plex.tv about is    *)
(* still the one of the last sign-in, and cuts no session minted in a later second than    *)
(* its look at the row.                                                          *)
VerdictSparesOthers ==
  [][(sweep.at = "guarded" /\ sweep' # sweep) => \A s \in Sessions :
       (sess[s].live /\ ~sess'[s].live)
         => user["a"].token = sweep.token /\ sess[s].born <= sweep.guard]_vars

(* A snapshot of an account's libraries is written only if they were read from the     *)
(* server on file, with the token on file, and later than the one it replaces.        *)
SnapshotIsTrue ==
  [][\A a \in Accounts :
       LET old == user[a].ent  new == user'[a].ent IN
       (new # old /\ new # NoEnt) => /\ new.saw = conf.anchor /\ new.token = user[a].token
                                     /\ old.at < new.at]_vars

(* The rows of a watchlist are lost only when the sync is off, when no server is on file,   *)
(* or when plex.tv has refused the account: never to an outage, nor to a change of server    *)
(* that a tick under way has not seen.                                            *)
WatchlistSurvives ==
  [][(watch.rows /\ ~watch'.rows) =>
       \/ ~watch.on
       \/ conf.url = None /\ conf.anchor = None
       \/ watch.at \in {"forget", "sync"}]_vars

(* A recovery session that works came from the key on file, or asked for the rotation    *)
(* that put that key there.                                                      *)
RecoveryFollowsKey ==
  \A r \in DOMAIN recov : recov[r].live => recov[r].key = appkey.now \/ r = keeper

(* No session outlives what it was granted on, a server or a key.                     *)
SessionsAreCurrent == GrantsMatchServer /\ RecoveryFollowsKey

(* Once a credential's rotation has ended, no record that was delivered by then, nor     *)
(* one captured while it ran and delivered whenever, shows it: not in the table, the       *)
(* queue or the ring.  The sweep erases the first, the floorless capture the second.      *)
RetiredIsErased ==
  \A i \in Records :
    (rec[i].val \in gone /\ (rec[i].during \/ ~rec[i].late))
      => rec[i].ring # "clear" /\ (rec[i].at \in {"queued", "batch", "stored"} => rec[i].masked)
=============================================================================
