---------------------------- MODULE AccessProofs ----------------------------
(* For every set of scenes, every number of accounts, sign-ins and records, and every  *)
(* sequence of credentials: a retired credential is erased from the logs; live sessions *)
(* match the server and the key on file; no watchlist is lost but for a reason; a       *)
(* revalidation's verdict spares whoever signed in since; and the snapshots of the      *)
(* libraries are true.  Two of the five have a hypothesis about the scenes, stated in   *)
(* Access next to the properties.                                              *)
EXTENDS Access, TLAPS

(* Shapes: EXCEPT is read through them.  One sign-in, the settings update, the lock, a log record. *)
SignAts == {"idle", "stamped", "fetched", "denied", "boundary", "ordinary", "inside", "again", "begun",
            "committed", "staged", "done", "failed", "exhausted"}
SignShape(r) ==
  r = [at |-> r.at, gen |-> r.gen, token |-> r.token, reach |-> r.reach, admin |-> r.admin,
       server |-> r.server, old |-> r.old, tries |-> r.tries]
Tokens == {"t1", "t2", "t3"}
SignOK ==
  /\ sign = [p \in Signers |-> sign[p]]
  /\ \A p \in Signers :
       \/ sign[p] = Idle
       \/ SignShape(sign[p]) /\ sign[p].gen \in Nat /\ sign[p].token \in Tokens
  /\ gen \in Nat
BoundOK ==
  /\ bound = [by |-> bound.by, at |-> bound.at, old |-> bound.old, new |-> bound.new,
              previous |-> bound.previous]
  /\ bound.by \in {None, "drain"} => bound.at = "free"
RecShape(r) == r = [at |-> r.at, val |-> r.val, masked |-> r.masked, ring |-> r.ring,
                    during |-> r.during, late |-> r.late]
RecOK ==
  /\ rec = [i \in Records |-> rec[i]]
  /\ \A i \in Records : RecShape(rec[i]) /\ rec[i].masked \in BOOLEAN /\ rec[i].late \in BOOLEAN
PutOK == put = Idle \/ put = [at |-> put.at, kind |-> put.kind, url |-> put.url, machine |-> put.machine]

(* Who is inside the secret boundary holds its lock, and a key rotation its own lock too. *)
Inside == {"inside", "again", "begun", "committed", "staged"}
HoldInv ==
  /\ \A p \in Signers : sign[p].at \in Inside => bound.by = p
  /\ put.at \in {"inside", "begun", "committed"} => bound.by = "put"
  /\ bound.by \in Holders => rotating = bound.by

(* While the boundary is held nothing is being delivered; from a commit to the sweep *)
(* every stored record with an old secret is masked already.                        *)
LogInv ==
  \A i \in Records :
    /\ rec[i].at = "batch" => bound.by = "drain"
    /\ bound.at = "committed" /\ rec[i].at = "stored" /\ rec[i].val \in bound.old => rec[i].masked

(* What the rewrite and the sweep are for: the records delivered by the end of a rotation.  *)
SweepErases ==
  \A i \in Records :
    (rec[i].val \in gone /\ ~rec[i].late)
      => rec[i].ring # "clear" /\ (rec[i].at \in {"queued", "batch", "stored"} => rec[i].masked)

(* What the capture is for: while a rotation runs the snapshot knows what it retires, and a    *)
(* record captured meanwhile is masked for good.                                    *)
HandlerOK ==
  /\ handler = [values |-> handler.values, retiring |-> handler.retiring]
  /\ bound.at \in {"begun", "committed"} => bound.old \subseteq handler.retiring
Caught == \A i \in Records : rec[i].during => rec[i].masked /\ rec[i].ring # "clear"

(* Recovery sessions; an exchange under way knows the key on file.                  *)
RecovOK ==
  /\ DOMAIN recov = {"r0"} \cup Exchangers
  /\ recov = [r \in {"r0"} \cup Exchangers |-> recov[r]]
  /\ \A r \in {"r0"} \cup Exchangers :
       recov[r] = [key |-> recov[r].key, live |-> recov[r].live] /\ recov[r].live \in BOOLEAN

KeyInv ==
  /\ exch = [e \in Exchangers |-> exch[e]]
  /\ \A e \in Exchangers :
      exch[e] \notin {"idle", "refused", "done"} => rotating = e /\ exch[e] = appkey.now

(* Settings, Plex and the sessions.                                                 *)
ConfOK == conf = [anchor |-> conf.anchor, url |-> conf.url]
WorldOK ==
  /\ world = [live |-> world.live, reach |-> world.reach, dead |-> world.dead]
  /\ world.live = [u \in Urls |-> world.live[u]]
  /\ \A u \in Urls : world.live[u] \in Servers

SessOK ==
  /\ sess = [s \in Sessions |-> sess[s]]
  /\ \A s \in Sessions :
       /\ sess[s] = [live |-> sess[s].live, who |-> sess[s].who, server |-> sess[s].server,
                     token |-> sess[s].token, born |-> sess[s].born]
       /\ sess[s].live \in BOOLEAN

(* An anchor needs an address; without a legacy installation they come and go together. *)
ConfInv ==
  /\ conf.anchor \in Servers \cup {None} /\ conf.url \in Urls \cup {None}
  /\ conf.url = None => conf.anchor = None
  /\ ~Act("legacy") => (conf.anchor = None <=> conf.url = None)

(* What the settings update is about to write: one end it has looked at.            *)
PutInv ==
  /\ put.at \in {"boundary", "inside", "begun"} =>
       \/ put.kind = "secret"
       \/ put.kind = "point" /\ put.url \in Urls /\ put.machine \in Servers
       \/ put.kind = "clear" /\ put.url = None /\ put.machine = None
  /\ put.at = "backfill" =>
       /\ Act("legacy") /\ conf.anchor = None /\ conf.url \in Urls /\ put.machine = Answers(conf.url)

(* Live sessions match the server on file; so does whatever a sign-in of the present *)
(* generation is about to write, unless a repoint has committed and not yet counted. *)
GrantInv ==
  /\ gen \in Nat
  /\ init /\ Configured # None => \A s \in Sessions : sess[s].live => sess[s].server = Configured
  /\ \A p \in Signers :
       /\ sign[p] # Idle => sign[p].gen <= gen
       /\ init /\ sign[p].at \in {"again", "begun", "staged"} => sign[p].server = Configured
       /\ init /\ sign[p].at = "ordinary" /\ sign[p].gen = gen =>
            sign[p].server = Configured \/ (put.at = "committed" /\ put.kind \in {"point", "clear"})

(* Rows of the accounts, the revalidation, the captures, the watchlist.             *)
UserShape(u) ==
  /\ u = [row |-> u.row, token |-> u.token, cipher |-> u.cipher, admin |-> u.admin, ent |-> u.ent,
          due |-> u.due, state |-> u.state]
  /\ u.cipher \in Nat
UserOK ==
  /\ user = [a \in Accounts |-> user[a]]
  /\ \A a \in Accounts : UserShape(user[a]) /\ user[a].ent.at \in Nat
SweepShape(r) ==
  r = [at |-> r.at, token |-> r.token, cipher |-> r.cipher, machine |-> r.machine, url |-> r.url,
       wired |-> r.wired, verdict |-> r.verdict, guard |-> r.guard, seen |-> r.seen,
       admin |-> r.admin, saw |-> r.saw, when |-> r.when]
SweepOK == sweep = Idle \/ (SweepShape(sweep) /\ sweep.cipher \in Nat /\ sweep.seen \in Nat)
CapShape(r) ==
  r = [at |-> r.at, token |-> r.token, cipher |-> r.cipher, server |-> r.server, url |-> r.url,
       saw |-> r.saw, when |-> r.when]
CapOK ==
  /\ cap = [p \in Signers |-> cap[p]]
  /\ \A p \in Signers : cap[p] = Idle \/ (CapShape(cap[p]) /\ cap[p].cipher \in Nat)
TallyOK ==
  /\ tally = [puts |-> tally.puts, sweeps |-> tally.sweeps, events |-> tally.events,
              reads |-> tally.reads, clock |-> tally.clock]
  /\ tally.reads \in Nat
WatchOK ==
  watch = [at |-> watch.at, on |-> watch.on, rows |-> watch.rows, machine |-> watch.machine,
           token |-> watch.token]

(* The second look at the row: while its ciphertext is the one seen, its token is the *)
(* one plex.tv was asked about.                                                     *)
GuardInv == sweep.at = "guarded" =>
  sweep.seen <= user["a"].cipher /\ (sweep.seen = user["a"].cipher => user["a"].token = sweep.token)

(* A reader holds an earlier ciphertext of the row, or the row's own token.         *)
Behind(r, a) == r.cipher <= user[a].cipher /\ (r.cipher = user[a].cipher => r.token = user[a].token)
TokenInv ==
  /\ sweep # Idle => Behind(sweep, "a")
  /\ \A p \in Signers :
       /\ cap[p] # Idle => Behind(cap[p], Owner(p))
       /\ sign[p].at = "committed" => user[Owner(p)].token = sign[p].token

(* A read that is not stored yet has a time of its own, not later than the last read *)
(* and not that of any snapshot.                                                    *)
Pending == {"read", "sure"}
WhenInv ==
  /\ \A a \in Accounts : user[a].ent.at <= tally.reads
  /\ sweep.at \in Pending =>
       /\ sweep.when \in Nat /\ 0 < sweep.when /\ sweep.when <= tally.reads
       /\ \A a \in Accounts : user[a].ent.at # sweep.when
       /\ \A p \in Signers : cap[p].at \in Pending => cap[p].when # sweep.when
  /\ \A p \in Signers : cap[p].at \in Pending =>
       /\ cap[p].when \in Nat /\ 0 < cap[p].when /\ cap[p].when <= tally.reads
       /\ \A a \in Accounts : user[a].ent.at # cap[p].when
       /\ \A q \in Signers \ {p} : cap[q].at \in Pending => cap[p].when # cap[q].when

(* Who is reading libraries at all.                                                 *)
Reading == {"ready", "waiting", "slot", "read", "sure"}
ReadInv ==
  /\ sweep.at \in {"authorized", "slot", "read", "sure"} => sweep.wired
  /\ sweep # Idle => Act("sweep")
  /\ \A p \in Signers : cap[p].at \in {"anchor"} \cup Reading => Act("capture")

(* Servers that do not move: what an address answered it still answers.             *)
StaticInv == ~Act("world") =>
  /\ conf.anchor # None => Answers(conf.url) = conf.anchor
  /\ put.at \in {"boundary", "inside", "begun"} =>
       put.kind = "secret" \/ put.machine = None \/ put.machine = Answers(put.url)
  /\ put.at = "backfill" => put.machine = Answers(conf.url)
  /\ sweep # Idle /\ sweep.wired => Answers(sweep.url) = sweep.machine
  /\ sweep.at \in Pending => sweep.saw = sweep.machine
  /\ \A p \in Signers : /\ cap[p].at = "read" => cap[p].saw = Answers(cap[p].url)
                        /\ cap[p].at = "sure" => cap[p].saw = cap[p].server

(* Settings that are not repointed: they name A at its address, and so does every reader. *)
FixedInv == ~Act("put") =>
  /\ put = Idle \/ (put.kind = "secret" /\ put.at # "backfill")
  /\ conf.anchor \in {"A", None} /\ conf.url \in {"uA", None}
  /\ conf.anchor # None => conf.url = "uA"
  /\ sweep # Idle /\ sweep.wired => sweep.machine = "A" /\ sweep.url = "uA" /\ conf.url = "uA"
  /\ sweep.at = "read" => sweep.saw = "A" \/ world.live["uA"] # "A"
  /\ sweep.at = "sure" => sweep.saw = "A"
  /\ \A p \in Signers :
       /\ cap[p].at = "anchor" => cap[p].server \in {"A", None}
       /\ cap[p].at \in Reading => cap[p].server = "A" /\ cap[p].url = "uA"
       /\ cap[p].at = "read" => cap[p].saw = "A" \/ world.live["uA"] # "A"
       /\ cap[p].at = "sure" => cap[p].saw = "A"

(***************************************************************************)
(* What the groups of actions leave alone                                   *)
(***************************************************************************)
(* The log's threads and the drain touch the records, their handler and the lock.     *)
LEMMA LogFrame ==
  ASSUME LogNext, UNCHANGED accessVars
  PROVE  UNCHANGED <<cast, secrets, gone, keyVars, init, claimed, conf, gen, user, sess, sign, put,
                     sweep, cap, slot, watch, world, tally>>
BY DEF LogNext, _capture, Captures, emit, _enqueue, drain_once, _log_drain_loop, accessVars

(* Requests about the recovery key touch nothing of the Plex accounts.                *)
LEMMA KeyFrame ==
  ASSUME KeyNext, UNCHANGED accessVars
  PROVE  UNCHANGED <<cast, init, claimed, conf, gen, user, sess, sign, put, sweep, cap, slot, watch,
                     world, tally>>
BY DEF KeyNext, Authenticate, _observed_app_key, rotate_app_key_endpoint, RotateEnters, RotateBegins,
       RotateCommits, RotateEnds, exchange_api_key_endpoint, _issue_browser_session, logout_endpoint,
       held, accessVars

(* A sign-in writes its own progress, the account, the session and the capture.           *)
LEMMA SignFrame ==
  ASSUME NEW p \in Signers, SignIn(p)
  PROVE  UNCHANGED <<cast, init, conf, gen, put, sweep, slot, watch, world, tally, keyVars>>
BY DEF SignIn, plex_sign_in_endpoint, fetch_resources, Decide, SignEnters, _recompute_access_in_lock,
       SignBegins, SignCommits, SignEnds, SignRechecks, _upsert_user, _claim_or_resume_setup,
       signFrame, secretFrame

(* A capture writes its own progress, the slot and the account's snapshot.                 *)
LEMMA CaptureFrame ==
  ASSUME NEW p \in Signers, Capture(p)
  PROVE  UNCHANGED <<cast, bound, secrets, logVars, keyVars, init, claimed, conf, gen, sess, sign, put,
                     sweep, watch, world>>
BY DEF Capture, _capture_entitlements_after_sign_in, entitlement_capture_slot, capture_entitlements,
       fetch_server_identity, StoreSigned, capFrame, secretFrame

(* The settings update leaves the accounts and everybody else's progress alone.            *)
LEMMA PutFrame ==
  ASSUME PutSettings
  PROVE  UNCHANGED <<cast, appkey, rotating, keeper, hold, exch, init, claimed, user, sign, sweep, cap,
                     slot, watch, world>>
BY DEF PutSettings, _verify_plex_repoint, ChangeSecret, _backfill_missing_plex_anchor, Backfill,
       PutEnters, PutBegins, write_settings, _post_commit_invalidations, putFrame, secretFrame, keyVars

(* The revalidation writes its own progress, the account, its sessions and the slot.          *)
LEMMA SweepFrame ==
  ASSUME SweepShares
  PROVE  UNCHANGED <<cast, bound, secrets, logVars, keyVars, init, claimed, conf, gen, sign, put, cap,
                     watch, world>>
BY DEF SweepShares, _select_due_candidates, check_share, ConfirmLoss, GuardVerdict, apply_share_verdict,
       _due_predicate, try_entitlement_capture_slot, _attempt_capture, _capture_in_slot, StoreSwept,
       sweepFrame, secretFrame

(* The watchlist sync writes its own state only.                                       *)
LEMMA WatchFrame ==
  ASSUME Watchlist
  PROVE  UNCHANGED <<cast, bound, secrets, logVars, keyVars, init, claimed, conf, gen, user, sess, sign,
                     put, sweep, cap, slot, world, tally>>
BY DEF Watchlist, _watchlist_sync_once, Reconfirm, clear_snapshots_unless_settings_present,
       list_sync_users, revalidate_sync_user, _resolve_watchlist_server_identity, StillConfigured,
       clear_user_snapshot, sync_user, watchFrame

(* Plex and the clock change by themselves.                                         *)
LEMMA WorldFrame ==
  ASSUME World \/ Second
  PROVE  UNCHANGED <<cast, bound, secrets, logVars, keyVars, init, claimed, conf, gen, user, sess, sign,
                     put, sweep, cap, slot, watch>>
BY DEF World, Second, secretFrame

(***************************************************************************)
(* The shape of the variables                                               *)
(***************************************************************************)
LEMMA SignTokens == ASSUME NEW p, NEW t \in TokensOf(Owner(p)) PROVE t \in Tokens
BY DEF TokensOf, Tokens

(* One sign-in's record changes; the others stay.                                  *)
LEMMA SignSet ==
  ASSUME SignOK, NEW p \in Signers, NEW r, sign' = [sign EXCEPT ![p] = r], gen' = gen,
         SignShape(r) /\ r.gen \in Nat /\ r.token \in Tokens
  PROVE  /\ SignOK'
         /\ sign'[p] = r
         /\ \A q \in Signers \ {p} : sign'[q] = sign[q]
BY DEF SignOK, SignShape

(* A sign-in's generation and token are those it was stamped with.                  *)
LEMMA SignProgress ==
  ASSUME SignOK, NEW p \in Signers, SignIn(p)
  PROVE  /\ SignOK'
         /\ \A q \in Signers \ {p} : sign'[q] = sign[q]
         /\ sign[p].at # "idle" => sign[p] # Idle
         /\ sign'[p].at # "idle"
         /\ sign[p].at # "idle" => sign'[p].gen = sign[p].gen /\ sign'[p].token = sign[p].token
         /\ sign[p].at = "idle" => sign'[p].gen = gen /\ sign'[p].at = "stamped"
<1>0. gen' = gen
  BY SignFrame
<1> DEFINE s == sign[p]
<1>1. s.at # "idle" => s # Idle /\ SignShape(s) /\ s.gen \in Nat /\ s.token \in Tokens
  BY DEF SignOK, Idle
<1>2. CASE plex_sign_in_endpoint(p)
  <2>1. PICK t \in TokensOf(Owner(p)) : sign' = [sign EXCEPT ![p] =
       [at |-> "stamped", gen |-> gen, token |-> t, reach |-> world.reach["a"], admin |-> FALSE,
        server |-> None, old |-> None, tries |-> 0]]
    BY <1>2 DEF plex_sign_in_endpoint
  <2> DEFINE r == [at |-> "stamped", gen |-> gen, token |-> t, reach |-> world.reach["a"], admin |-> FALSE,
        server |-> None, old |-> None, tries |-> 0]
  <2>2. r.at = "stamped" /\ r.gen = gen /\ r.token = t /\ SignShape(r)
    BY DEF SignShape
  <2>3. r.gen \in Nat /\ r.token \in Tokens /\ sign' = [sign EXCEPT ![p] = r]
    BY <2>1, <2>2, SignTokens DEF SignOK
  <2> HIDE DEF r
  <2>4. SignOK' /\ sign'[p] = r /\ \A q \in Signers \ {p} : sign'[q] = sign[q]
    BY <2>2, <2>3, <1>0, SignSet
  <2> QED
    BY <2>2, <2>4, <1>1, <1>2 DEF plex_sign_in_endpoint
<1>3. CASE ~plex_sign_in_endpoint(p)
  <2>1. s.at # "idle"
    BY <1>3 DEF SignIn, plex_sign_in_endpoint, fetch_resources, Decide, SignEnters,
       _recompute_access_in_lock, SignBegins, SignCommits, SignEnds, SignRechecks, _upsert_user,
       _claim_or_resume_setup
  <2>2. SUFFICES \E r : /\ sign' = [sign EXCEPT ![p] = r] /\ SignShape(r)
                        /\ r.gen = s.gen /\ r.token = s.token /\ r.at # "idle"
    <3>1. PICK r : /\ sign' = [sign EXCEPT ![p] = r] /\ SignShape(r)
                   /\ r.gen = s.gen /\ r.token = s.token /\ r.at # "idle"
      BY <2>2
    <3>2. r.gen \in Nat /\ r.token \in Tokens
      BY <3>1, <2>1, <1>1
    <3>3. SignOK' /\ sign'[p] = r /\ \A q \in Signers \ {p} : sign'[q] = sign[q]
      BY <3>1, <3>2, <1>0, SignSet
    <3> QED
      BY <3>1, <3>3, <2>1, <1>1
  <2>3. CASE fetch_resources(p)
    <3> DEFINE r == [s EXCEPT !.reach = world.reach[Owner(p)],
                              !.at = IF s.token \in world.dead THEN "denied" ELSE "fetched"]
    <3>1. sign' = [sign EXCEPT ![p] = r]
      BY <2>3 DEF fetch_resources, SignOK
    <3> DEFINE at == IF s.token \in world.dead THEN "denied" ELSE "fetched"
               reach == world.reach[Owner(p)]
    <3>2. r = [s EXCEPT !.reach = reach, !.at = at] /\ at # "idle"
      OBVIOUS
    <3> HIDE DEF at, reach, r
    <3>3. SignShape(r) /\ r.gen = s.gen /\ r.token = s.token /\ r.at # "idle"
      BY <3>2, <2>1, <1>1 DEF SignShape
    <3> QED
      BY <3>1, <3>3
  <2>4. ASSUME NEW at, at # "idle",
               NEW old, NEW r, r = [Granted(p, at) EXCEPT !.old = old] \/ r = Granted(p, at)
        PROVE  SignShape(r) /\ r.gen = s.gen /\ r.token = s.token /\ r.at = at
    BY <2>4, <2>1, <1>1 DEF SignShape, Granted
  <2>5. ASSUME NEW at, at # "idle", NEW r, r = [s EXCEPT !.at = at]
        PROVE  SignShape(r) /\ r.gen = s.gen /\ r.token = s.token /\ r.at = at
    BY <2>5, <2>1, <1>1 DEF SignShape
  <2>6. CASE Decide(p)
    <3> DEFINE old == user[Owner(p)].token
               r == IF _post_init_access(p) THEN [Granted(p, Shape(old, s.token)) EXCEPT !.old = old]
                    ELSE [s EXCEPT !.at = "denied"]
    <3>1. sign' = [sign EXCEPT ![p] = r]
      BY <2>6 DEF Decide, SignOK
    <3>2. Shape(old, s.token) # "idle"
      BY DEF Shape
    <3>3. SignShape(r) /\ r.gen = s.gen /\ r.token = s.token /\ r.at # "idle"
      BY <3>2, <2>4, <2>5
    <3> QED
      BY <3>1, <3>3
  <2>7. CASE SignEnters(p) \/ SignBegins(p) \/ SignCommits(p) \/ SignEnds(p) \/ _upsert_user(p)
    <3>1. \E at \in SignAts \ {"idle"} : sign' = [sign EXCEPT ![p] = [s EXCEPT !.at = at]]
      BY <2>7 DEF SignEnters, SignBegins, SignCommits, SignEnds, _upsert_user, SignOK, SignAts
    <3>2. PICK at \in SignAts \ {"idle"} : sign' = [sign EXCEPT ![p] = [s EXCEPT !.at = at]]
      BY <3>1
    <3> DEFINE r == [s EXCEPT !.at = at]
    <3>3. SignShape(r) /\ r.gen = s.gen /\ r.token = s.token /\ r.at = at
      BY <2>5
    <3> QED
      BY <3>2, <3>3
  <2>8. CASE _recompute_access_in_lock(p)
    <3>1. \/ sign' = [sign EXCEPT ![p] = Granted(p, "again")]
          \/ sign' = [sign EXCEPT ![p] = [s EXCEPT !.at = "denied"]]
      BY <2>8 DEF _recompute_access_in_lock, SignOK
    <3> QED
      BY <3>1, <2>4, <2>5
  <2>9. CASE SignRechecks(p)
    <3>1. CASE \/ sign' = [sign EXCEPT ![p] = Granted(p, "staged")]
               \/ sign' = [sign EXCEPT ![p] = [s EXCEPT !.at = "staged"]]
               \/ sign' = [sign EXCEPT ![p] = [s EXCEPT !.at = "denied"]]
      BY <3>1, <2>4, <2>5, SMTT(30)
    <3> DEFINE old == user[Owner(p)].token
               tries == s.tries + 1
               at == IF tries < _MAX_SIGN_IN_SHAPE_ATTEMPTS THEN "boundary" ELSE "exhausted"
               r == [s EXCEPT !.old = old, !.tries = tries, !.at = at]
    <3>2. \/ sign' = [sign EXCEPT ![p] = Granted(p, "staged")]
          \/ sign' = [sign EXCEPT ![p] = [s EXCEPT !.at = "staged"]]
          \/ sign' = [sign EXCEPT ![p] = [s EXCEPT !.at = "denied"]]
          \/ sign' = [sign EXCEPT ![p].old = old, ![p].tries = tries, ![p].at = at]
      BY <2>9 DEF SignRechecks
    <3>3. at # "idle"
      OBVIOUS
    <3> HIDE DEF old, tries, at
    <3>4. CASE sign' = [sign EXCEPT ![p].old = old, ![p].tries = tries, ![p].at = at]
      <4>1. sign' = [sign EXCEPT ![p] = r]
        BY <3>4 DEF SignOK
      <4>2. r = [s EXCEPT !.old = old, !.tries = tries, !.at = at]
        OBVIOUS
      <4> HIDE DEF r
      <4>3. SignShape(r) /\ r.gen = s.gen /\ r.token = s.token /\ r.at = at
        BY <4>2, <2>1, <1>1 DEF SignShape
      <4> QED
        BY <4>1, <4>3, <3>3
    <3> QED
      BY <3>1, <3>2, <3>4
  <2>10. CASE _claim_or_resume_setup(p)
    <3>1. \E at \in SignAts \ {"idle"} : sign' = [sign EXCEPT ![p] = [s EXCEPT !.at = at]]
      BY <2>10 DEF _claim_or_resume_setup, SignOK, SignAts
    <3>2. PICK at \in SignAts \ {"idle"} : sign' = [sign EXCEPT ![p] = [s EXCEPT !.at = at]]
      BY <3>1
    <3> DEFINE r == [s EXCEPT !.at = at]
    <3>3. SignShape(r) /\ r.gen = s.gen /\ r.token = s.token /\ r.at = at
      BY <2>5
    <3> QED
      BY <3>2, <3>3
  <2> QED
    BY <1>3, <2>3, <2>6, <2>7, <2>8, <2>9, <2>10 DEF SignIn
<1> QED
  BY <1>2, <1>3

(* Where each step of a sign-in leads, and what becomes of the server it decided on.       *)
LEMMA SignStages ==
  ASSUME SignOK, NEW p \in Signers
  PROVE  /\ plex_sign_in_endpoint(p) => sign'[p].at = "stamped"
         /\ fetch_resources(p) => sign'[p].at \in {"fetched", "denied"}
         /\ Decide(p) => \/ sign'[p].at = "denied"
                         \/ sign'[p].at \in {"boundary", "ordinary"} /\ sign'[p].server = Configured
         /\ SignEnters(p) => sign'[p].at = "inside"
         /\ _recompute_access_in_lock(p) =>
              \/ sign'[p].at = "denied"
              \/ sign'[p].at = "again" /\ sign'[p].server = Configured /\ bound' = bound
         /\ SignBegins(p) => sign'[p].at = "begun" /\ sign'[p].server = sign[p].server
         /\ SignCommits(p) => sign'[p].at = "committed"
         /\ SignEnds(p) => sign'[p].at \in {"done", "failed"}
         /\ SignRechecks(p) =>
              \/ sign'[p].at \in {"boundary", "exhausted", "denied"}
              \/ /\ sign'[p].at = "staged" /\ bound'.by = p
                 /\ sign'[p].server = IF Moved(p) THEN Configured ELSE sign[p].server
         /\ _upsert_user(p) => sign'[p].at \in {"done", "failed"}
         /\ _claim_or_resume_setup(p) => sign'[p].at \in {"denied", "boundary", "done"}
<1> DEFINE s == sign[p]
<1>0. s = Idle \/ SignShape(s)
  BY DEF SignOK
<1>1. plex_sign_in_endpoint(p) => sign'[p].at = "stamped"
  <2>1. ASSUME NEW t PROVE [at |-> "stamped", gen |-> gen, token |-> t, reach |-> world.reach["a"],
          admin |-> FALSE, server |-> None, old |-> None, tries |-> 0].at = "stamped"
    OBVIOUS
  <2> QED
    BY <2>1 DEF plex_sign_in_endpoint, SignOK
<1>2. fetch_resources(p) => sign'[p].at \in {"fetched", "denied"}
  <2> SUFFICES ASSUME fetch_resources(p) PROVE sign'[p].at \in {"fetched", "denied"}
    OBVIOUS
  <2>1. SignShape(s)
    BY <1>0 DEF fetch_resources, Idle
  <2> DEFINE at == IF s.token \in world.dead THEN "denied" ELSE "fetched"
             reach == world.reach[Owner(p)]
  <2>2. sign' = [sign EXCEPT ![p].reach = reach, ![p].at = at] /\ at \in {"fetched", "denied"}
    BY DEF fetch_resources
  <2> HIDE DEF at, reach
  <2> QED
    BY <2>1, <2>2 DEF SignOK, SignShape
<1>3. ASSUME NEW at, SignShape(s)
      PROVE  /\ Granted(p, at).at = at /\ Granted(p, at).server = Configured
             /\ \A old : [Granted(p, at) EXCEPT !.old = old].at = at
                      /\ [Granted(p, at) EXCEPT !.old = old].server = Configured
             /\ [s EXCEPT !.at = at].at = at /\ [s EXCEPT !.at = at].server = s.server
  BY <1>3 DEF SignShape, Granted
<1>4. Decide(p) => \/ sign'[p].at = "denied"
                   \/ sign'[p].at \in {"boundary", "ordinary"} /\ sign'[p].server = Configured
  <2> SUFFICES ASSUME Decide(p)
               PROVE  \/ sign'[p].at = "denied"
                      \/ sign'[p].at \in {"boundary", "ordinary"} /\ sign'[p].server = Configured
    OBVIOUS
  <2>1. SignShape(s)
    BY <1>0 DEF Decide, Idle
  <2> DEFINE old == user[Owner(p)].token
             at == Shape(old, s.token)
  <2>2. sign'[p] = IF _post_init_access(p) THEN [Granted(p, at) EXCEPT !.old = old]
                   ELSE [s EXCEPT !.at = "denied"]
    BY DEF Decide, SignOK
  <2>3. at \in {"boundary", "ordinary"}
    BY DEF Shape
  <2> HIDE DEF old, at
  <2>4. /\ [Granted(p, at) EXCEPT !.old = old].at = at
        /\ [Granted(p, at) EXCEPT !.old = old].server = Configured
    BY <2>1, <1>3
  <2>5. [s EXCEPT !.at = "denied"].at = "denied"
    BY <2>1, <1>3
  <2> QED
    BY <2>2, <2>3, <2>4, <2>5
<1>5. SignEnters(p) => sign'[p].at = "inside"
  BY <1>0 DEF SignEnters, SignOK, SignShape, Idle
<1>6. _recompute_access_in_lock(p) =>
              \/ sign'[p].at = "denied"
              \/ sign'[p].at = "again" /\ sign'[p].server = Configured /\ bound' = bound
  <2> SUFFICES ASSUME _recompute_access_in_lock(p)
               PROVE  \/ sign'[p].at = "denied"
                      \/ sign'[p].at = "again" /\ sign'[p].server = Configured /\ bound' = bound
    OBVIOUS
  <2>1. SignShape(s)
    BY <1>0 DEF _recompute_access_in_lock, Idle
  <2>2. \/ sign'[p] = Granted(p, "again") /\ bound' = bound
        \/ sign'[p] = [s EXCEPT !.at = "denied"]
    BY DEF _recompute_access_in_lock, SignOK
  <2>3. Granted(p, "again").at = "again" /\ Granted(p, "again").server = Configured
    BY <2>1, <1>3
  <2>4. [s EXCEPT !.at = "denied"].at = "denied"
    BY <2>1, <1>3
  <2> QED
    BY <2>2, <2>3, <2>4
<1>7. SignBegins(p) => sign'[p].at = "begun" /\ sign'[p].server = sign[p].server
  BY <1>0 DEF SignBegins, SignOK, SignShape, Idle
<1>8. SignCommits(p) => sign'[p].at = "committed"
  BY <1>0 DEF SignCommits, SignOK, SignShape, Idle
<1>9. SignEnds(p) => sign'[p].at \in {"done", "failed"}
  BY <1>0 DEF SignEnds, SignOK, SignShape, Idle
<1>10. SignRechecks(p) =>
              \/ sign'[p].at \in {"boundary", "exhausted", "denied"}
              \/ /\ sign'[p].at = "staged" /\ bound'.by = p
                 /\ sign'[p].server = IF Moved(p) THEN Configured ELSE sign[p].server
  <2> SUFFICES ASSUME SignRechecks(p)
               PROVE  \/ sign'[p].at \in {"boundary", "exhausted", "denied"}
                      \/ /\ sign'[p].at = "staged" /\ bound'.by = p
                         /\ sign'[p].server = IF Moved(p) THEN Configured ELSE sign[p].server
    OBVIOUS
  <2>1. SignShape(s)
    BY <1>0 DEF SignRechecks, Idle
  <2> DEFINE old == user[Owner(p)].token
             tries == s.tries + 1
             at == IF tries < _MAX_SIGN_IN_SHAPE_ATTEMPTS THEN "boundary" ELSE "exhausted"
  <2>2. \/ sign' = [sign EXCEPT ![p].old = old, ![p].tries = tries, ![p].at = at]
        \/ /\ sign' = [sign EXCEPT ![p] = IF Moved(p) THEN Granted(p, "staged") ELSE [@ EXCEPT !.at = "staged"]]
           /\ bound' = [Free EXCEPT !.by = p]
        \/ sign' = [sign EXCEPT ![p].at = "denied"]
    BY DEF SignRechecks
  <2>3. at \in {"boundary", "exhausted"}
    OBVIOUS
  <2> HIDE DEF old, tries, at
  <2>4. CASE sign' = [sign EXCEPT ![p].old = old, ![p].tries = tries, ![p].at = at]
    BY <2>4, <2>1, <2>3 DEF SignOK, SignShape
  <2>5. CASE sign' = [sign EXCEPT ![p].at = "denied"]
    BY <2>5, <2>1 DEF SignOK, SignShape
  <2>6. CASE /\ sign' = [sign EXCEPT ![p] = IF Moved(p) THEN Granted(p, "staged") ELSE [@ EXCEPT !.at = "staged"]]
             /\ bound' = [Free EXCEPT !.by = p]
    <3>1. sign'[p] = IF Moved(p) THEN Granted(p, "staged") ELSE [s EXCEPT !.at = "staged"]
      BY <2>6 DEF SignOK
    <3>2. bound'.by = p
      BY <2>6 DEF Free
    <3> QED
      BY <3>1, <3>2, <2>1, <1>3
  <2> QED
    BY <2>2, <2>4, <2>5, <2>6
<1>11. _upsert_user(p) => sign'[p].at \in {"done", "failed"}
  BY <1>0 DEF _upsert_user, SignOK, SignShape, Idle
<1>12. _claim_or_resume_setup(p) => sign'[p].at \in {"denied", "boundary", "done"}
  BY <1>0 DEF _claim_or_resume_setup, SignOK, SignShape, Idle
<1> QED
  BY <1>1, <1>2, <1>4, <1>5, <1>6, <1>7, <1>8, <1>9, <1>10, <1>11, <1>12

(***************************************************************************)
(* The boundary                                                             *)
(***************************************************************************)
(* All that an actor does to the lock and the records, from its entry to its release.       *)
BoundaryStep(p) ==
  \/ UNCHANGED <<bound, rec, gone>>
  \/ bound.by = None /\ UNCHANGED <<rec, gone>> /\ \E at \in {"free", "inside"} :
       bound' = [by |-> p, at |-> at, old |-> {}, new |-> {}, previous |-> {}]
  \/ bound.by = p /\ (\E old, new, previous : bound' = [bound EXCEPT !.at = "begun", !.old = old,
                                                          !.new = new, !.previous = previous])
     /\ UNCHANGED <<rec, gone>>
  \/ bound.by = p /\ bound' = [bound EXCEPT !.at = "committed"] /\ UNCHANGED gone
     /\ rec' = [i \in Records |-> _rewrite_before_secret_replacement(rec[i])]
  \/ bound.by = p /\ bound' = Free /\ UNCHANGED <<rec, gone>>
  \/ /\ bound.by = p /\ bound.at = "committed" /\ bound' = Free
     /\ rec' = [i \in Records |-> Swept(rec[i])]
     /\ gone' = (gone \cup bound.old) \ secrets

(* Whoever may be in the lock's record.                                             *)
Actors == Holders \cup Signers \cup {"put"}

(* The lock's record once somebody has entered.                                     *)
LEMMA Entered ==
  ASSUME NEW p
  PROVE  [Free EXCEPT !.by = p, !.at = "inside"]
           = [by |-> p, at |-> "inside", old |-> {}, new |-> {}, previous |-> {}]
<1> DEFINE f == [Free EXCEPT !.by = p]
<1>1. f = [by |-> p, at |-> "free", old |-> {}, new |-> {}, previous |-> {}]
  BY DEF Free
<1>2. [Free EXCEPT !.by = p, !.at = "inside"] = [f EXCEPT !.at = "inside"]
  OBVIOUS
<1> HIDE DEF f
<1> QED
  BY <1>1, <1>2

(* A sign-in moves the lock as an actor does, and holds it while it is inside.      *)
LEMMA SignBoundary ==
  ASSUME SignOK, HoldInv, NEW p \in Signers, SignIn(p)
  PROVE  BoundaryStep(p) /\ (sign'[p].at \in Inside => bound'.by = p)
<1>1. CASE plex_sign_in_endpoint(p) \/ fetch_resources(p) \/ Decide(p)
  BY <1>1, SignStages DEF plex_sign_in_endpoint, fetch_resources, Decide, secretFrame, logVars,
     BoundaryStep, Inside
<1>2. CASE SignEnters(p)
  <2>1. bound.by = None /\ bound' = [Free EXCEPT !.by = p, !.at = "inside"] /\ UNCHANGED <<rec, gone>>
    BY <1>2 DEF SignEnters, Enter, secretFrame, logVars
  <2> QED
    BY <2>1, Entered DEF BoundaryStep
<1>3. CASE _recompute_access_in_lock(p)
  BY <1>3, SignStages DEF _recompute_access_in_lock, HoldInv, Inside, BoundaryStep, logVars
<1>4. CASE SignBegins(p)
  <2>1. bound.by = p /\ UNCHANGED <<rec, gone>>
    BY <1>4 DEF SignBegins, begin_secret_rotation
  <2>2. \E old, new, previous : bound' = [bound EXCEPT !.at = "begun", !.old = old, !.new = new,
                                                       !.previous = previous]
    BY <1>4 DEF SignBegins, begin_secret_rotation
  <2>3. bound'.by = bound.by
    BY <2>2
  <2> QED
    BY <2>1, <2>2, <2>3 DEF BoundaryStep
<1>5. CASE SignCommits(p)
  <2>1. bound.by = p /\ bound' = [bound EXCEPT !.at = "committed"] /\ UNCHANGED gone
        /\ rec' = [i \in Records |-> _rewrite_before_secret_replacement(rec[i])]
    BY <1>5 DEF SignCommits, _commit
  <2> QED
    BY <2>1 DEF BoundaryStep
<1>6. CASE SignEnds(p)
  <2>1. bound.by = p /\ bound' = Free
    BY <1>6 DEF SignEnds, complete_secret_rotation, abort_secret_rotation
  <2>2. \/ UNCHANGED <<rec, gone>>
        \/ /\ bound.at = "committed" /\ rec' = [i \in Records |-> Swept(rec[i])]
           /\ gone' = (gone \cup bound.old) \ secrets
    BY <1>6 DEF SignEnds, complete_secret_rotation, abort_secret_rotation
  <2>3. sign'[p].at \notin Inside
    BY <1>6, SignStages DEF Inside
  <2> QED
    BY <2>1, <2>2, <2>3 DEF BoundaryStep
<1>7. CASE SignRechecks(p)
  <2>1. UNCHANGED <<rec, gone>> /\ bound.by = None
    BY <1>7 DEF SignRechecks, secretFrame, logVars
  <2>2. bound' = bound \/ bound' = [Free EXCEPT !.by = p]
    BY <1>7 DEF SignRechecks
  <2>3. [Free EXCEPT !.by = p] = [by |-> p, at |-> "free", old |-> {}, new |-> {}, previous |-> {}]
    BY DEF Free
  <2>4. sign'[p].at \in Inside => bound'.by = p
    BY <1>7, SignStages DEF Inside
  <2> QED
    BY <2>1, <2>2, <2>3, <2>4 DEF BoundaryStep
<1>8. CASE _upsert_user(p)
  BY <1>8, SignStages DEF _upsert_user, BoundaryStep, logVars, Inside
<1>9. CASE _claim_or_resume_setup(p)
  BY <1>9, SignStages DEF _claim_or_resume_setup, BoundaryStep, logVars, Inside
<1> QED
  BY <1>1, <1>2, <1>3, <1>4, <1>5, <1>6, <1>7, <1>8, <1>9 DEF SignIn

(* So does the settings update.                                                     *)
LEMMA PutBoundary ==
  ASSUME PutOK, HoldInv, PutSettings
  PROVE  BoundaryStep("put") /\ PutOK' /\ (put'.at \in {"inside", "begun", "committed"} => bound'.by = "put")
<1>1. CASE _verify_plex_repoint \/ ChangeSecret \/ _backfill_missing_plex_anchor \/ Backfill
  <2>1. UNCHANGED <<bound, rec, gone>>
    BY <1>1 DEF _verify_plex_repoint, ChangeSecret, _backfill_missing_plex_anchor, Backfill, secretFrame,
       logVars
  <2>2. put' = Idle \/ \E at, kind, url, machine : at \in {"boundary", "backfill"} /\
          put' = [at |-> at, kind |-> kind, url |-> url, machine |-> machine]
    BY <1>1 DEF _verify_plex_repoint, ChangeSecret, _backfill_missing_plex_anchor, Backfill
  <2> QED
    BY <2>1, <2>2 DEF BoundaryStep, PutOK, Idle
<1>2. CASE PutEnters
  <2>1. bound.by = None /\ bound' = [Free EXCEPT !.by = "put", !.at = "inside"] /\ UNCHANGED <<rec, gone>>
    BY <1>2 DEF PutEnters, Enter, secretFrame, logVars
  <2>2. PutOK'
    BY <1>2 DEF PutEnters, PutOK, Idle
  <2> QED
    BY <2>1, <2>2, Entered DEF BoundaryStep
<1>3. CASE PutBegins
  <2>1. bound.by = "put" /\ UNCHANGED <<rec, gone>>
    BY <1>3 DEF PutBegins, begin_secret_rotation
  <2>2. \E old, new, previous : bound' = [bound EXCEPT !.at = "begun", !.old = old, !.new = new,
                                                       !.previous = previous]
    <3>1. PICK old, new : begin_secret_rotation("put", old, new)
      BY <1>3 DEF PutBegins
    <3> QED
      BY <3>1 DEF begin_secret_rotation
  <2>3. bound'.by = bound.by
    BY <2>2
  <2>4. PutOK'
    BY <1>3 DEF PutBegins, PutOK, Idle
  <2> QED
    BY <2>1, <2>2, <2>3, <2>4 DEF BoundaryStep
<1>4. CASE write_settings
  <2>1. bound.by = "put" /\ bound' = [bound EXCEPT !.at = "committed"] /\ UNCHANGED gone
        /\ rec' = [i \in Records |-> _rewrite_before_secret_replacement(rec[i])]
    BY <1>4 DEF write_settings, _commit
  <2>2. PutOK'
    <3>1. put = [at |-> put.at, kind |-> put.kind, url |-> put.url, machine |-> put.machine]
      BY <1>4 DEF write_settings, PutOK, Idle
    <3>2. \/ put' = [put EXCEPT !.at = "committed"]
          \/ put' = [put EXCEPT !.at = "committed", !.kind = "relocated"]
      BY <1>4 DEF write_settings
    <3> QED
      BY <3>1, <3>2 DEF PutOK
  <2> QED
    BY <2>1, <2>2 DEF BoundaryStep
<1>5. CASE _post_commit_invalidations
  <2>1. bound.by = "put" /\ bound' = Free
    BY <1>5 DEF _post_commit_invalidations, complete_secret_rotation, abort_secret_rotation
  <2>2. \/ UNCHANGED <<rec, gone>>
        \/ /\ bound.at = "committed" /\ rec' = [i \in Records |-> Swept(rec[i])]
           /\ gone' = (gone \cup bound.old) \ secrets
    BY <1>5 DEF _post_commit_invalidations, complete_secret_rotation, abort_secret_rotation
  <2>3. put' = Idle
    BY <1>5 DEF _post_commit_invalidations
  <2> QED
    BY <2>1, <2>2, <2>3 DEF BoundaryStep, Idle, PutOK
<1> QED
  BY <1>1, <1>2, <1>3, <1>4, <1>5 DEF PutSettings

(* So do rotations of the recovery key, which hold their own lock as long.          *)
LEMMA KeyBoundary ==
  ASSUME BoundOK, HoldInv, KeyNext
  PROVE  \E p \in Holders \cup {None} :
           /\ BoundaryStep(p) /\ (p = None => UNCHANGED <<bound, rec, gone>>)
           /\ bound'.by \in Holders => rotating' = bound'.by
<1>1. CASE \E p \in Holders : RotateEnters(p)
  <2>1. PICK p \in Holders : RotateEnters(p)
    BY <1>1
  <2>2. bound.by = None /\ bound' = [Free EXCEPT !.by = p, !.at = "inside"] /\ UNCHANGED <<rec, gone>>
        /\ rotating' = p
    BY <2>1 DEF RotateEnters, Enter, logVars, keyVars
  <2>3. bound'.by = p /\ p # None
    BY <2>2, HoldersAssumption DEF Free
  <2> QED
    BY <2>2, <2>3, Entered DEF BoundaryStep
<1>2. CASE \E p \in Holders : RotateBegins(p)
  <2>1. PICK p \in Holders : RotateBegins(p)
    BY <1>2
  <2>2. bound.by = p /\ UNCHANGED <<rec, gone>> /\ rotating' = rotating /\ p # None
    BY <2>1, HoldersAssumption DEF RotateBegins, begin_secret_rotation, keyVars
  <2>3. \E old, new, previous : bound' = [bound EXCEPT !.at = "begun", !.old = old, !.new = new,
                                                       !.previous = previous]
    BY <2>1 DEF RotateBegins, begin_secret_rotation
  <2>4. bound'.by = bound.by
    BY <2>3
  <2> QED
    BY <2>2, <2>3, <2>4 DEF BoundaryStep, HoldInv
<1>3. CASE \E p \in Holders : RotateCommits(p)
  <2>1. PICK p \in Holders : RotateCommits(p)
    BY <1>3
  <2>2. bound.by = p /\ bound' = [bound EXCEPT !.at = "committed"] /\ UNCHANGED gone
        /\ rec' = [i \in Records |-> _rewrite_before_secret_replacement(rec[i])]
        /\ rotating' = rotating /\ p # None
    BY <2>1, HoldersAssumption DEF RotateCommits, _commit
  <2>3. bound'.by = bound.by
    BY <2>2
  <2> QED
    BY <2>2, <2>3 DEF BoundaryStep, HoldInv
<1>4. CASE \E p \in Holders : RotateEnds(p)
  <2>1. PICK p \in Holders : RotateEnds(p)
    BY <1>4
  <2>2. bound.by = p /\ bound' = Free /\ p # None
    BY <2>1, HoldersAssumption DEF RotateEnds, complete_secret_rotation, abort_secret_rotation
  <2>3. \/ UNCHANGED <<rec, gone>>
        \/ /\ bound.at = "committed" /\ rec' = [i \in Records |-> Swept(rec[i])]
           /\ gone' = (gone \cup bound.old) \ secrets
    BY <2>1 DEF RotateEnds, complete_secret_rotation, abort_secret_rotation
  <2>4. bound'.by \notin Holders
    BY <2>2, HoldersAssumption DEF Free
  <2> QED
    BY <2>2, <2>3, <2>4 DEF BoundaryStep
<1>5. CASE \/ \E p \in Holders : Authenticate(p) \/ _observed_app_key(p) \/ rotate_app_key_endpoint(p)
           \/ \E e \in Exchangers : exchange_api_key_endpoint(e) \/ _issue_browser_session(e)
           \/ \E r \in DOMAIN recov : logout_endpoint(r)
  <2>1. UNCHANGED <<bound, rec, gone>>
    BY <1>5 DEF Authenticate, _observed_app_key, rotate_app_key_endpoint, exchange_api_key_endpoint,
       _issue_browser_session, logout_endpoint, held, logVars
  <2>2. bound'.by \in Holders => rotating' = bound'.by
    BY <1>5, <2>1, HoldersAssumption DEF HoldInv, Authenticate, _observed_app_key,
       rotate_app_key_endpoint, exchange_api_key_endpoint, _issue_browser_session, logout_endpoint, None
  <2> QED
    BY <2>1, <2>2 DEF BoundaryStep
<1> QED
  BY <1>1, <1>2, <1>3, <1>4, <1>5 DEF KeyNext

(* An actor moves the lock only from nobody to itself, within its rotation, and back.         *)
LEMMA BoundaryBy ==
  ASSUME BoundOK, NEW p \in Actors, BoundaryStep(p)
  PROVE  /\ BoundOK'
         /\ bound.by \notin {None, p} => bound' = bound
         /\ bound' = bound \/ bound'.by = p \/ bound'.by = None
<1>0. p \notin {None, "drain"}
  BY HoldersAssumption, SignersAssumption DEF Actors, None
<1>1. CASE UNCHANGED <<bound, rec, gone>>
  BY <1>1 DEF BoundOK
<1>2. CASE bound.by = None /\ \E at \in {"free", "inside"} :
             bound' = [by |-> p, at |-> at, old |-> {}, new |-> {}, previous |-> {}]
  BY <1>0, <1>2 DEF BoundOK
<1>3. CASE bound.by = p /\ (\E old, new, previous : bound' = [bound EXCEPT !.at = "begun", !.old = old,
                                                          !.new = new, !.previous = previous])
  <2>1. PICK old, new, previous : bound' = [bound EXCEPT !.at = "begun", !.old = old,
                                                          !.new = new, !.previous = previous]
    BY <1>3
  <2>2. bound' = [by |-> p, at |-> "begun", old |-> old, new |-> new, previous |-> previous]
    BY <1>3, <2>1 DEF BoundOK
  <2> QED
    BY <1>0, <1>3, <2>2 DEF BoundOK
<1>4. CASE bound.by = p /\ bound' = [bound EXCEPT !.at = "committed"]
  BY <1>0, <1>4 DEF BoundOK
<1>5. CASE bound.by = p /\ bound' = Free
  BY <1>0, <1>5 DEF BoundOK, Free
<1> QED
  BY <1>1, <1>2, <1>3, <1>4, <1>5 DEF BoundaryStep

(* The rotation's rewrite and its sweep only ever mask.                               *)
LEMMA Masking ==
  ASSUME RecOK, NEW i \in Records
  PROVE  /\ LET r == _rewrite_before_secret_replacement(rec[i]) IN
              /\ RecShape(r) /\ r.at = rec[i].at /\ r.val = rec[i].val /\ r.ring = rec[i].ring
              /\ r.late = rec[i].late /\ r.during = rec[i].during
              /\ r.masked = (rec[i].masked \/ (rec[i].at = "stored" /\ rec[i].val \in bound.old))
         /\ LET r == Swept(rec[i]) IN
              /\ RecShape(r) /\ r.at = rec[i].at /\ r.val = rec[i].val /\ r.late = rec[i].late
              /\ r.during = rec[i].during
              /\ r.masked \in BOOLEAN
              /\ rec[i].masked => r.masked
              /\ rec[i].at = "queued" /\ rec[i].val \in bound.old => r.masked
              /\ rec[i].ring # "clear" => r.ring = rec[i].ring
              /\ rec[i].val \in bound.old => r.ring # "clear"
<1> DEFINE s == rec[i]
<1>0. /\ s = [at |-> s.at, val |-> s.val, masked |-> s.masked, ring |-> s.ring, during |-> s.during, late |-> s.late]
      /\ s.masked \in BOOLEAN
  BY DEF RecOK, RecShape
<1>1. LET r == _rewrite_before_secret_replacement(rec[i]) IN
              /\ RecShape(r) /\ r.at = rec[i].at /\ r.val = rec[i].val /\ r.ring = rec[i].ring
              /\ r.late = rec[i].late /\ r.during = rec[i].during
              /\ r.masked = (rec[i].masked \/ (rec[i].at = "stored" /\ rec[i].val \in bound.old))
  <2> DEFINE m == s.masked \/ (s.at = "stored" /\ s.val \in bound.old)
             r == _rewrite_before_secret_replacement(s)
  <2>1. r = [s EXCEPT !.masked = m]
    BY DEF _rewrite_before_secret_replacement
  <2> HIDE DEF m, r, s
  <2>2. r = [at |-> s.at, val |-> s.val, masked |-> m, ring |-> s.ring, during |-> s.during, late |-> s.late]
    BY <2>1, <1>0
  <2>3. r.masked = m
    BY <2>2
  <2>4. RecShape(r) /\ r.at = s.at /\ r.val = s.val /\ r.ring = s.ring /\ r.late = s.late /\ r.during = s.during
    BY <2>2 DEF RecShape
  <2> QED
    BY <2>3, <2>4 DEF m, r, s
<1>2. LET r == Swept(rec[i]) IN
              /\ RecShape(r) /\ r.at = rec[i].at /\ r.val = rec[i].val /\ r.late = rec[i].late
              /\ r.during = rec[i].during
              /\ r.masked \in BOOLEAN
              /\ rec[i].masked => r.masked
              /\ rec[i].at = "queued" /\ rec[i].val \in bound.old => r.masked
              /\ rec[i].ring # "clear" => r.ring = rec[i].ring
              /\ rec[i].val \in bound.old => r.ring # "clear"
  <2> DEFINE hit == redact_retired_log_message(s.val, bound.old, bound.previous \cup secrets \cup bound.old)
             m == s.masked \/ (s.at = "queued" /\ hit)
             g == IF s.ring = "clear" /\ hit THEN "masked" ELSE s.ring
             r == Swept(s)
  <2>1. r = [s EXCEPT !.masked = m, !.ring = g]
    BY DEF Swept
  <2>2. s.val \in bound.old => hit
    BY DEF redact_retired_log_message
  <2> HIDE DEF hit
  <2>3. /\ m \in BOOLEAN /\ (s.masked => m)
        /\ (s.at = "queued" /\ s.val \in bound.old => m)
    BY <1>0, <2>2
  <2>4. /\ s.ring # "clear" => g = s.ring
        /\ s.val \in bound.old => g # "clear"
    BY <2>2
  <2> HIDE DEF m, g, r, s
  <2>5. r = [at |-> s.at, val |-> s.val, masked |-> m, ring |-> g, during |-> s.during, late |-> s.late]
    BY <2>1, <1>0
  <2>6. r.masked = m /\ r.ring = g
    BY <2>5
  <2>7. RecShape(r) /\ r.at = s.at /\ r.val = s.val /\ r.late = s.late /\ r.during = s.during
    BY <2>5 DEF RecShape
  <2> QED
    BY <2>3, <2>4, <2>6, <2>7 DEF r, s
<1> QED
  BY <1>1, <1>2

(* A record comes to the queue, the batch or the table only from one of them.           *)
Onward(from, to) ==
  to \in {"queued", "batch", "stored"} => from \in {"queued", "batch", "stored"}

LogSafe == RecOK /\ LogInv /\ SweepErases

(* What an actor does at the boundary leaves no retired value readable: the batch is out of     *)
(* the drain's hands, the rows were rewritten with the commit, the rest is swept.              *)
LEMMA BoundaryLog ==
  ASSUME BoundOK, LogSafe, NEW p \in Actors, BoundaryStep(p)
  PROVE  LogSafe'
<1>0. p \notin {None, "drain"}
  BY HoldersAssumption, SignersAssumption DEF Actors, None
<1>a. RecOK /\ LogInv /\ SweepErases
  BY DEF LogSafe
<1>1. CASE UNCHANGED <<bound, rec, gone>>
  BY <1>1 DEF LogSafe, RecOK, LogInv, SweepErases
<1>2. CASE bound.by \in {None, p} /\ bound'.at # "committed" /\ UNCHANGED <<rec, gone>>
  <2>1. RecOK' /\ SweepErases'
    BY <1>2, <1>a DEF RecOK, SweepErases
  <2>2. \A i \in Records : rec[i].at # "batch"
    BY <1>0, <1>2, <1>a DEF LogInv, None
  <2> QED
    BY <1>2, <2>1, <2>2 DEF LogSafe, LogInv
<1>3. CASE bound.by = p /\ bound' = [bound EXCEPT !.at = "committed"] /\ UNCHANGED gone
           /\ rec' = [i \in Records |-> _rewrite_before_secret_replacement(rec[i])]
  <2>1. bound'.old = bound.old
    BY <1>3
  <2>2. ASSUME NEW i \in Records
        PROVE  /\ RecShape(rec'[i]) /\ rec'[i].at = rec[i].at /\ rec'[i].val = rec[i].val
               /\ rec'[i].ring = rec[i].ring /\ rec'[i].late = rec[i].late
               /\ rec'[i].masked = (rec[i].masked \/ (rec[i].at = "stored" /\ rec[i].val \in bound.old))
    BY <1>3, <1>a, Masking
  <2>3. bound'.by = p
    BY <1>3
  <2>4. RecOK'
    BY <1>3, <1>a, <2>2, <2>3 DEF RecOK
  <2>5. LogInv'
    <3>1. \A i \in Records : rec[i].at # "batch"
      BY <1>0, <1>3, <1>a DEF LogInv
    <3> QED
      BY <2>1, <2>2, <3>1 DEF LogInv
  <2>6. SweepErases'
    BY <1>3, <1>a, <2>2, <2>3, ZenonT(60) DEF SweepErases
  <2> QED
    BY <2>4, <2>5, <2>6 DEF LogSafe
<1>4. CASE /\ bound.by = p /\ bound.at = "committed" /\ bound' = Free
           /\ rec' = [i \in Records |-> Swept(rec[i])]
           /\ gone' = (gone \cup bound.old) \ secrets
  <2>1. bound'.at = "free"
    BY <1>4 DEF Free
  <2>2. ASSUME NEW i \in Records
        PROVE  /\ RecShape(rec'[i]) /\ rec'[i].at = rec[i].at /\ rec'[i].val = rec[i].val
               /\ rec'[i].late = rec[i].late
               /\ rec'[i].masked \in BOOLEAN
               /\ rec[i].masked => rec'[i].masked
               /\ rec[i].at = "queued" /\ rec[i].val \in bound.old => rec'[i].masked
               /\ rec[i].ring # "clear" => rec'[i].ring = rec[i].ring
               /\ rec[i].val \in bound.old => rec'[i].ring # "clear"
    BY <1>4, <1>a, Masking
  <2>4. RecOK'
    BY <1>4, <1>a, <2>2 DEF RecOK
  <2>5. \A i \in Records : rec[i].at # "batch"
    BY <1>0, <1>4, <1>a DEF LogInv
  <2>6. LogInv'
    BY <2>1, <2>2, <2>5 DEF LogInv
  <2>7. SweepErases'
    <3> SUFFICES ASSUME NEW i \in Records, rec'[i].val \in gone' /\ ~rec'[i].late
                 PROVE  /\ rec'[i].ring # "clear"
                        /\ rec'[i].at \in {"queued", "batch", "stored"} => rec'[i].masked
      BY DEF SweepErases
    <3>1. rec[i].val \in gone \cup bound.old /\ ~rec[i].late
      BY <1>4, <2>2
    <3>2. CASE rec[i].val \in bound.old
      BY <3>2, <1>4, <1>a, <2>2, <2>5 DEF LogInv
    <3>3. CASE rec[i].val \in gone
      BY <3>1, <3>3, <1>a, <2>2 DEF SweepErases
    <3> QED
      BY <3>1, <3>2, <3>3
  <2> QED
    BY <2>4, <2>6, <2>7 DEF LogSafe
<1>5. ASSUME bound.by = None, NEW at \in {"free", "inside"},
             bound' = [by |-> p, at |-> at, old |-> {}, new |-> {}, previous |-> {}]
      PROVE  bound'.at # "committed"
  BY <1>5
<1>6. ASSUME bound.by = p, NEW old, NEW new, NEW previous,
             bound' = [bound EXCEPT !.at = "begun", !.old = old, !.new = new, !.previous = previous]
      PROVE  bound'.at # "committed"
  BY <1>6 DEF BoundOK
<1>7. ASSUME bound' = Free PROVE bound'.at # "committed"
  BY <1>7 DEF Free
<1> QED
  BY <1>1, <1>2, <1>3, <1>4, <1>5, <1>6, <1>7 DEF BoundaryStep

(* Neither does a thread that logs, nor the drain, which works while no rotation runs.          *)
LEMMA LogKeeps ==
  ASSUME BoundOK, LogSafe, LogNext
  PROVE  /\ LogSafe' /\ BoundOK'
         /\ bound.by \notin {None, "drain"} => bound' = bound
         /\ bound' = bound \/ bound'.by \in {None, "drain"}
<1>a. RecOK /\ LogInv /\ SweepErases
  BY DEF LogSafe
<1>b. ASSUME NEW i \in Records
      PROVE /\ RecShape(rec[i])
            /\ rec[i].masked \in BOOLEAN /\ rec[i].late \in BOOLEAN
  BY <1>a DEF RecOK
<1>1. ASSUME NEW i \in Records, NEW r, rec' = [rec EXCEPT ![i] = r], UNCHANGED <<bound, gone>>,
             RecShape(r), r.masked \in BOOLEAN, r.late \in BOOLEAN, r.at \notin {"batch", "stored"},
             r.val \in gone => r.late
      PROVE  LogSafe'
  <2>1. /\ rec' = [j \in Records |-> rec'[j]]
        /\ rec'[i] = r /\ \A j \in Records \ {i} : rec'[j] = rec[j]
    BY <1>1, <1>a DEF RecOK
  <2>2. RecOK'
    BY <1>1, <1>a, <2>1 DEF RecOK
  <2>3. LogInv'
    BY <1>1, <1>a, <2>1 DEF LogInv
  <2>4. SweepErases'
    BY <1>1, <1>a, <2>1 DEF SweepErases
  <2> QED
    BY <2>2, <2>3, <2>4 DEF LogSafe
<1>2. ASSUME NEW i \in Records, NEW v, _capture(i, v)
      PROVE  LogSafe' /\ bound' = bound
  <2> DEFINE m == redact_retired_log_message(v, handler.retiring, handler.values)
             l == v \in gone
             d == Retires(v)
             r == [at |-> "captured", val |-> v, ring |-> "no", during |-> d, late |-> l, masked |-> m]
  <2>1. rec' = [rec EXCEPT ![i] = r] /\ UNCHANGED <<bound, gone>>
    BY <1>2 DEF _capture, Captures
  <2>2. m \in BOOLEAN /\ l \in BOOLEAN /\ (v \in gone => l)
    BY DEF redact_retired_log_message, redact_log_message
  <2> HIDE DEF m, l, d
  <2>3. RecShape(r) /\ r.masked = m /\ r.late = l /\ r.at = "captured" /\ r.val = v
    BY DEF RecShape
  <2> HIDE DEF r
  <2> QED
    BY <1>1, <2>1, <2>2, <2>3
<1>3. ASSUME NEW i \in Records, NEW at, NEW ring, at \notin {"batch", "stored"},
             rec' = [rec EXCEPT ![i] = Arrive(rec[i], at, ring)], UNCHANGED <<bound, gone>>
      PROVE  LogSafe'
  <2> DEFINE s == rec[i]
             l == s.late \/ s.val \in gone
             r == Arrive(s, at, ring)
  <2>1. r = [s EXCEPT !.at = at, !.ring = ring, !.late = l]
    BY DEF Arrive
  <2>2. l \in BOOLEAN /\ (s.val \in gone => l)
    OBVIOUS
  <2>s. RecShape(s) /\ s.masked \in BOOLEAN
    BY <1>b
  <2>5. rec' = [rec EXCEPT ![i] = r]
    BY <1>3
  <2> HIDE DEF l, r, s
  <2>3. r = [at |-> at, val |-> s.val, masked |-> s.masked, ring |-> ring, during |-> s.during, late |-> l]
    BY <2>1, <2>s DEF RecShape
  <2>4. RecShape(r) /\ r.masked = s.masked /\ r.late = l /\ r.at = at /\ r.val = s.val
    BY <2>3 DEF RecShape
  <2> QED
    BY <1>1, <1>3, <2>2, <2>4, <2>5, <2>s
<1>4. ASSUME NEW i \in Records, emit(i)
      PROVE  LogSafe' /\ bound' = bound
  <2>1. PICK at \in {"pending", "debug"} : \E ring :
          rec' = [rec EXCEPT ![i] = Arrive(rec[i], at, ring)]
    BY <1>4 DEF emit
  <2> QED
    BY <1>3, <1>4, <2>1 DEF emit
<1>5. ASSUME NEW i \in Records, _enqueue(i)
      PROVE  LogSafe' /\ bound' = bound
  <2>1. PICK at \in {"queued", "dropped"} : \E ring :
          rec' = [rec EXCEPT ![i] = Arrive(rec[i], at, ring)]
    BY <1>5 DEF _enqueue
  <2> QED
    BY <1>3, <1>5, <2>1 DEF _enqueue
<1>6. ASSUME UNCHANGED gone, NEW move,
             rec' = [i \in Records |-> [rec[i] EXCEPT !.at = move[i]]],
             \A i \in Records : Onward(rec[i].at, move[i])
      PROVE  RecOK' /\ SweepErases' /\ \A i \in Records : rec'[i].at = move[i]
  <2>2. ASSUME NEW i \in Records
        PROVE  /\ RecShape(rec'[i]) /\ rec'[i].at = move[i]
               /\ rec'[i].val = rec[i].val /\ rec'[i].masked = rec[i].masked
               /\ rec'[i].ring = rec[i].ring /\ rec'[i].late = rec[i].late
    <3>1. rec'[i] = [rec[i] EXCEPT !.at = move[i]]
      BY <1>6
    <3>2. RecShape(rec[i])
      BY <1>b
    <3> QED
      BY <3>1, <3>2 DEF RecShape
  <2>3. RecOK'
    BY <1>6, <1>b, <2>2 DEF RecOK
  <2>4. SweepErases'
    BY <1>6, <1>a, <2>2 DEF SweepErases, Onward
  <2> QED
    BY <2>2, <2>3, <2>4
<1>7. CASE drain_once
  <2> DEFINE move == [i \in Records |-> IF rec[i].at = "queued" THEN "batch" ELSE rec[i].at]
  <2>1. /\ UNCHANGED gone /\ bound.by = None /\ bound' = [bound EXCEPT !.by = "drain"]
        /\ rec' = [i \in Records |-> [rec[i] EXCEPT !.at = move[i]]]
    BY <1>7 DEF drain_once
  <2>2. \A i \in Records : Onward(rec[i].at, move[i])
    BY DEF Onward
  <2> HIDE DEF move
  <2>3. RecOK' /\ SweepErases'
    BY <1>6, <2>1, <2>2
  <2>4. BoundOK' /\ bound'.by = "drain" /\ bound'.at = "free"
    BY <2>1 DEF BoundOK
  <2>5. LogInv'
    BY <2>4 DEF LogInv
  <2> QED
    BY <2>1, <2>3, <2>4, <2>5 DEF LogSafe
<1>8. CASE _log_drain_loop
  <2>1. UNCHANGED gone /\ bound.by = "drain" /\ bound' = [bound EXCEPT !.by = None]
    BY <1>8 DEF _log_drain_loop
  <2>2. \E move : /\ rec' = [i \in Records |-> [rec[i] EXCEPT !.at = move[i]]]
                  /\ \A i \in Records : Onward(rec[i].at, move[i]) /\ move[i] # "batch"
    <3>1. CASE \E n \in Records \cup {0} :
             rec' = [i \in Records |->
               [rec[i] EXCEPT !.at = prune_once(n, i, IF @ = "batch" THEN "stored" ELSE @)]]
      <4>1. PICK n \in Records \cup {0} :
             rec' = [i \in Records |->
               [rec[i] EXCEPT !.at = prune_once(n, i, IF @ = "batch" THEN "stored" ELSE @)]]
        BY <3>1
      <4> DEFINE move == [i \in Records |-> prune_once(n, i, IF rec[i].at = "batch" THEN "stored" ELSE rec[i].at)]
      <4>2. rec' = [i \in Records |-> [rec[i] EXCEPT !.at = move[i]]]
        BY <4>1
      <4>3. \A i \in Records : Onward(rec[i].at, move[i]) /\ move[i] # "batch"
        BY DEF prune_once, Onward
      <4> HIDE DEF move
      <4> QED
        BY <4>2, <4>3
    <3>2. CASE rec' = [i \in Records |-> [rec[i] EXCEPT !.at = IF @ = "batch" THEN "dropped" ELSE @]]
      <4> DEFINE move == [i \in Records |-> IF rec[i].at = "batch" THEN "dropped" ELSE rec[i].at]
      <4>2. rec' = [i \in Records |-> [rec[i] EXCEPT !.at = move[i]]]
        BY <3>2
      <4>3. \A i \in Records : Onward(rec[i].at, move[i]) /\ move[i] # "batch"
        BY DEF Onward
      <4> HIDE DEF move
      <4> QED
        BY <4>2, <4>3
    <3> QED
      BY <1>8, <3>1, <3>2 DEF _log_drain_loop
  <2>3. PICK move : /\ rec' = [i \in Records |-> [rec[i] EXCEPT !.at = move[i]]]
                    /\ \A i \in Records : Onward(rec[i].at, move[i]) /\ move[i] # "batch"
    BY <2>2
  <2>4. RecOK' /\ SweepErases' /\ \A i \in Records : rec'[i].at = move[i]
    BY <1>6, <2>1, <2>3
  <2>5. BoundOK' /\ bound'.by = None /\ bound'.at = "free"
    BY <2>1 DEF BoundOK
  <2>6. LogInv'
    BY <2>3, <2>4, <2>5 DEF LogInv
  <2> QED
    BY <2>1, <2>4, <2>5, <2>6 DEF LogSafe
<1>9. bound' = bound => BoundOK'
  BY DEF BoundOK
<1> QED
  BY <1>2, <1>4, <1>5, <1>7, <1>8, <1>9 DEF LogNext

(* Who is inside the boundary holds the lock, and a rotation of the recovery key its own too.     *)
LockInv == SignOK /\ PutOK /\ BoundOK /\ HoldInv /\ LogSafe

(* Nobody holds the lock at the start, and every record is what its thread made it. *)
LEMMA LockInit == Init => LockInv
<1> SUFFICES ASSUME Init PROVE LockInv
  OBVIOUS
<1>1. PICK others : SecretsInit(others)
  BY DEF Init
<1>2. SignOK /\ PutOK
  BY DEF Init, SignOK, PutOK, Idle
<1>3. bound = Free /\ rec = [i \in Records |-> Unborn] /\ gone = {}
  BY <1>1 DEF SecretsInit
<1>4. BoundOK
  BY <1>3 DEF BoundOK, Free
<1>5. HoldInv
  BY <1>3, HoldersAssumption DEF HoldInv, Init, Idle, Free, Inside
<1>6. RecShape(Unborn) /\ Unborn.masked = FALSE /\ Unborn.late = FALSE /\ Unborn.at = "unborn"
  BY DEF Unborn, RecShape
<1>7. LogSafe
  BY <1>3, <1>6 DEF LogSafe, RecOK, LogInv, SweepErases
<1> QED
  BY <1>2, <1>4, <1>5, <1>7 DEF LockInv

(* Each action keeps the lock's invariant.                                          *)
LEMMA LockNext == LockInv /\ [Next]_vars => LockInv'
<1> SUFFICES ASSUME LockInv, [Next]_vars PROVE LockInv'
  OBVIOUS
<1>0. SignOK /\ PutOK /\ BoundOK /\ HoldInv /\ LogSafe
  BY DEF LockInv
<1>s. ASSUME UNCHANGED <<sign, put, gen, rotating, bound, rec, gone>> PROVE LockInv'
  BY <1>s, <1>0 DEF LockInv, SignOK, PutOK, BoundOK, HoldInv, LogSafe, RecOK, LogInv, SweepErases
<1>1. CASE LogNext /\ UNCHANGED accessVars
  <2>1. UNCHANGED <<sign, put, gen, rotating>>
    BY <1>1, LogFrame DEF keyVars
  <2>2. LogSafe' /\ BoundOK' /\ (bound.by \notin {None, "drain"} => bound' = bound)
        /\ (bound' = bound \/ bound'.by \in {None, "drain"})
    BY <1>0, <1>1, LogKeeps
  <2>3. SignOK' /\ PutOK'
    BY <1>0, <2>1 DEF SignOK, PutOK
  <2>4. \A p \in Signers \cup Holders \cup {"put"} : p \notin {None, "drain"}
    BY HoldersAssumption, SignersAssumption DEF None
  <2>5. HoldInv'
    BY <1>0, <2>1, <2>2, <2>4 DEF HoldInv
  <2> QED
    BY <2>2, <2>3, <2>5 DEF LockInv
<1>2. CASE KeyNext /\ UNCHANGED accessVars
  <2>1. UNCHANGED <<sign, put, gen>>
    BY <1>2, KeyFrame
  <2>2. PICK p \in Holders \cup {None} :
           /\ BoundaryStep(p) /\ (p = None => UNCHANGED <<bound, rec, gone>>)
           /\ bound'.by \in Holders => rotating' = bound'.by
    BY <1>0, <1>2, KeyBoundary
  <2>3. CASE p = None
    BY <1>0, <2>1, <2>2, <2>3 DEF LockInv, SignOK, PutOK, BoundOK, HoldInv, LogSafe, RecOK, LogInv,
       SweepErases
  <2>4. CASE p \in Holders
    <3>1. p \in Actors
      BY <2>4 DEF Actors
    <3>2. BoundOK' /\ (bound.by \notin {None, p} => bound' = bound)
      BY <1>0, <2>2, <3>1, BoundaryBy
    <3>3. LogSafe'
      BY <1>0, <2>2, <3>1, BoundaryLog
    <3>4. SignOK' /\ PutOK'
      BY <1>0, <2>1 DEF SignOK, PutOK
    <3>5. "put" \notin {None, p} /\ \A q \in Signers : q \notin {None, p}
      BY <2>4, SignersAssumption DEF None
    <3>6. HoldInv'
      BY <1>0, <2>1, <2>2, <3>2, <3>5 DEF HoldInv
    <3> QED
      BY <3>2, <3>3, <3>4, <3>6 DEF LockInv
  <2> QED
    BY <2>3, <2>4
<1>3. CASE \E p \in Signers : SignIn(p)
  <2>1. PICK p \in Signers : SignIn(p)
    BY <1>3
  <2>2. UNCHANGED <<put, gen, rotating>>
    BY <2>1, SignFrame DEF keyVars
  <2>3. SignOK' /\ \A q \in Signers \ {p} : sign'[q] = sign[q]
    BY <1>0, <2>1, SignProgress
  <2>4. BoundaryStep(p) /\ (sign'[p].at \in Inside => bound'.by = p)
    BY <1>0, <2>1, SignBoundary
  <2>5. p \in Actors
    BY DEF Actors
  <2>6. /\ BoundOK' /\ (bound.by \notin {None, p} => bound' = bound)
        /\ bound' = bound \/ bound'.by = p \/ bound'.by = None
    BY <1>0, <2>4, <2>5, BoundaryBy
  <2>7. LogSafe'
    BY <1>0, <2>4, <2>5, BoundaryLog
  <2>8. PutOK'
    BY <1>0, <2>2 DEF PutOK
  <2>9. "put" \notin {None, p} /\ \A q \in Signers \cup Holders : q # None
    BY SignersAssumption, HoldersAssumption DEF None
  <2>10. p \notin Holders
    BY SignersAssumption
  <2>11. HoldInv'
    BY <1>0, <2>2, <2>3, <2>4, <2>6, <2>9, <2>10 DEF HoldInv
  <2> QED
    BY <2>3, <2>6, <2>7, <2>8, <2>11 DEF LockInv
<1>4. CASE PutSettings
  <2>1. UNCHANGED <<sign, rotating>>
    BY <1>4, PutFrame
  <2>2. BoundaryStep("put") /\ PutOK' /\ (put'.at \in {"inside", "begun", "committed"} => bound'.by = "put")
    BY <1>0, <1>4, PutBoundary
  <2>3. "put" \in Actors
    BY DEF Actors
  <2>4. /\ BoundOK' /\ (bound.by \notin {None, "put"} => bound' = bound)
        /\ bound' = bound \/ bound'.by = "put" \/ bound'.by = None
    BY <1>0, <2>2, <2>3, BoundaryBy
  <2>5. LogSafe'
    BY <1>0, <2>2, <2>3, BoundaryLog
  <2>6. gen' \in Nat
    BY <1>0, <1>4 DEF SignOK, PutSettings, _verify_plex_repoint, ChangeSecret,
       _backfill_missing_plex_anchor, Backfill, PutEnters, PutBegins, write_settings,
       _post_commit_invalidations
  <2>7. SignOK'
    BY <1>0, <2>1, <2>6 DEF SignOK
  <2>8. "put" \notin Holders /\ \A q \in Signers : q \notin {None, "put"}
    BY SignersAssumption
  <2>9. None \notin Holders
    BY HoldersAssumption
  <2>10. HoldInv'
    BY <1>0, <2>1, <2>2, <2>4, <2>8, <2>9 DEF HoldInv
  <2> QED
    BY <2>2, <2>4, <2>5, <2>7, <2>10 DEF LockInv
<1>5. CASE \E p \in Signers : Capture(p)
  BY <1>5, <1>s, CaptureFrame DEF logVars, keyVars
<1>6. CASE SweepShares
  BY <1>6, <1>s, SweepFrame DEF logVars, keyVars
<1>7. CASE Watchlist
  BY <1>7, <1>s, WatchFrame DEF logVars, keyVars
<1>8. CASE World \/ Second
  BY <1>8, <1>s, WorldFrame DEF logVars, keyVars
<1>9. CASE UNCHANGED vars
  BY <1>9, <1>s DEF vars, secretVars, accessVars, logVars, keyVars
<1> QED
  BY <1>1, <1>2, <1>3, <1>4, <1>5, <1>6, <1>7, <1>8, <1>9 DEF Next

(* The lock and the log records, in every state.                                    *)
LEMMA LockInvariant == Spec => []LockInv
BY LockInit, LockNext, PTL DEF Spec

(* A rotation that begins publishes what it retires; one that commits, or ends either way. *)
LEMMA BeginHandler ==
  ASSUME BoundOK, HandlerOK, NEW p, NEW old, NEW new, begin_secret_rotation(p, old, new)
  PROVE  HandlerOK'
<1> DEFINE values == handler.values \cup secrets \cup old \cup new
<1>1. bound' = [by |-> bound.by, at |-> "begun", old |-> old, new |-> new, previous |-> handler.values]
  BY DEF begin_secret_rotation, BoundOK
<1>2. bound'.old = old
  BY <1>1
<1>3. CASE old \cup new = {}
  <2>1. handler' = handler /\ old = {}
    BY <1>3 DEF begin_secret_rotation
  <2> QED
    BY <1>2, <2>1 DEF HandlerOK
<1>4. CASE old \cup new # {}
  <2>1. handler' = [values |-> values, retiring |-> old]
    BY <1>4 DEF begin_secret_rotation
  <2> HIDE DEF values
  <2> QED
    BY <1>2, <2>1 DEF HandlerOK
<1> QED
  BY <1>3, <1>4

LEMMA CommitHandler ==
  ASSUME BoundOK, HandlerOK, NEW p, _commit(p), handler' = handler
  PROVE  HandlerOK'
<1>1. bound' = [by |-> bound.by, at |-> "committed", old |-> bound.old, new |-> bound.new,
                previous |-> bound.previous]
  BY DEF _commit, BoundOK
<1>2. bound'.old = bound.old /\ bound.at = "begun"
  BY <1>1 DEF _commit
<1> QED
  BY <1>2 DEF HandlerOK

LEMMA EndHandler ==
  ASSUME HandlerOK, NEW p, complete_secret_rotation(p) \/ abort_secret_rotation(p)
  PROVE  HandlerOK'
<1>1. bound'.at \notin {"begun", "committed"}
  BY DEF complete_secret_rotation, abort_secret_rotation, Free
<1>2. \/ handler' = handler
      \/ handler' = [values |-> secrets, retiring |-> {}]
      \/ handler' = [values |-> bound.previous, retiring |-> {}]
      \/ handler' = [values |-> secrets', retiring |-> {}]
  BY DEF complete_secret_rotation, abort_secret_rotation
<1> QED
  BY <1>1, <1>2 DEF HandlerOK

(* No rotation is under way after an entry. *)
LEMMA EnterHandler ==
  ASSUME HandlerOK, NEW p, handler' = handler,
         bound' = bound \/ Enter(p) \/ bound' = [Free EXCEPT !.by = p]
  PROVE  HandlerOK'
<1>1. [Free EXCEPT !.by = p].at \notin {"begun", "committed"}
  BY DEF Free
<1>2. [Free EXCEPT !.by = p, !.at = "inside"].at \notin {"begun", "committed"}
  BY Entered
<1> QED
  BY <1>1, <1>2 DEF HandlerOK, Enter

(* Every step leaves the snapshot fit for the rotation under way. *)
LEMMA HandlerKeeps ==
  ASSUME LockInv, HandlerOK, [Next]_vars
  PROVE  HandlerOK'
<1>0. BoundOK
  BY DEF LockInv
<1>s. ASSUME UNCHANGED <<bound, handler>> PROVE HandlerOK'
  BY <1>s DEF HandlerOK
<1>1. CASE LogNext
  <2>1. CASE drain_once
    <3>1. bound.at = "free" /\ bound'.at = "free"
      BY <1>0, <2>1 DEF drain_once, BoundOK
    <3>2. handler' = [handler EXCEPT !.values = secrets]
      BY <2>1 DEF drain_once
    <3>3. handler' = [values |-> secrets, retiring |-> handler.retiring]
      BY <3>2 DEF HandlerOK
    <3> QED
      BY <3>1, <3>3 DEF HandlerOK
  <2>2. CASE _log_drain_loop
    <3>1. bound'.at = "free" /\ handler' = handler
      BY <1>0, <2>2 DEF _log_drain_loop, BoundOK
    <3> QED
      BY <3>1 DEF HandlerOK
  <2>3. CASE \E i \in Records : (\E v \in Logged : _capture(i, v)) \/ emit(i) \/ _enqueue(i)
    BY <1>s, <2>3 DEF _capture, Captures, emit, _enqueue
  <2> QED
    BY <1>1, <2>1, <2>2, <2>3 DEF LogNext
<1>2. CASE KeyNext
  <2>1. ASSUME NEW p \in Holders, RotateEnters(p) PROVE HandlerOK'
    BY <2>1, EnterHandler DEF RotateEnters, logVars
  <2>2. ASSUME NEW p \in Holders, RotateBegins(p) PROVE HandlerOK'
    BY <1>0, <2>2, BeginHandler DEF RotateBegins
  <2>3. ASSUME NEW p \in Holders, RotateCommits(p) PROVE HandlerOK'
    BY <1>0, <2>3, CommitHandler DEF RotateCommits
  <2>4. ASSUME NEW p \in Holders, RotateEnds(p) PROVE HandlerOK'
    BY <2>4, EndHandler DEF RotateEnds
  <2>5. CASE \/ \E p \in Holders : Authenticate(p) \/ _observed_app_key(p) \/ rotate_app_key_endpoint(p)
             \/ \E e \in Exchangers : exchange_api_key_endpoint(e) \/ _issue_browser_session(e)
             \/ \E r \in DOMAIN recov : logout_endpoint(r)
    BY <1>s, <2>5 DEF Authenticate, _observed_app_key, rotate_app_key_endpoint,
       exchange_api_key_endpoint, _issue_browser_session, logout_endpoint, held, logVars
  <2> QED
    BY <1>2, <2>1, <2>2, <2>3, <2>4, <2>5 DEF KeyNext
<1>3. ASSUME NEW p \in Signers, SignIn(p) PROVE HandlerOK'
  <2>1. CASE plex_sign_in_endpoint(p) \/ fetch_resources(p) \/ Decide(p)
    BY <1>s, <2>1 DEF plex_sign_in_endpoint, fetch_resources, Decide, secretFrame, logVars
  <2>2. CASE SignEnters(p)
    BY <2>2, EnterHandler DEF SignEnters, secretFrame, logVars
  <2>3. CASE _recompute_access_in_lock(p) \/ _upsert_user(p) \/ _claim_or_resume_setup(p)
    <3>1. handler' = handler /\ (bound' = bound \/ bound' = Free)
      BY <2>3 DEF _recompute_access_in_lock, _upsert_user, _claim_or_resume_setup, logVars
    <3> QED
      BY <3>1 DEF HandlerOK, Free
  <2>4. CASE SignBegins(p)
    BY <1>0, <2>4, BeginHandler DEF SignBegins
  <2>5. CASE SignCommits(p)
    BY <1>0, <2>5, CommitHandler DEF SignCommits
  <2>6. CASE SignEnds(p)
    BY <2>6, EndHandler DEF SignEnds
  <2>7. CASE SignRechecks(p)
    BY <2>7, EnterHandler DEF SignRechecks, secretFrame, logVars
  <2> QED
    BY <1>3, <2>1, <2>2, <2>3, <2>4, <2>5, <2>6, <2>7 DEF SignIn
<1>4. CASE PutSettings
  <2>1. CASE _verify_plex_repoint \/ ChangeSecret \/ _backfill_missing_plex_anchor \/ Backfill
    BY <1>s, <2>1 DEF _verify_plex_repoint, ChangeSecret, _backfill_missing_plex_anchor, Backfill,
       secretFrame, logVars
  <2>2. CASE PutEnters
    BY <2>2, EnterHandler DEF PutEnters, secretFrame, logVars
  <2>3. CASE PutBegins
    BY <1>0, <2>3, BeginHandler DEF PutBegins
  <2>4. CASE write_settings
    BY <1>0, <2>4, CommitHandler DEF write_settings
  <2>5. CASE _post_commit_invalidations
    BY <2>5, EndHandler DEF _post_commit_invalidations
  <2> QED
    BY <1>4, <2>1, <2>2, <2>3, <2>4, <2>5 DEF PutSettings
<1>5. CASE \E p \in Signers : Capture(p)
  BY <1>5, <1>s, CaptureFrame DEF logVars
<1>6. CASE SweepShares
  BY <1>6, <1>s, SweepFrame DEF logVars
<1>7. CASE Watchlist
  BY <1>7, <1>s, WatchFrame DEF logVars
<1>8. CASE World \/ Second
  BY <1>8, <1>s, WorldFrame DEF logVars
<1>9. CASE UNCHANGED vars
  BY <1>9, <1>s DEF vars, secretVars, logVars
<1> QED
  BY <1>1, <1>2, <1>3, <1>4, <1>5, <1>6, <1>7, <1>8, <1>9 DEF Next

(* What was caught stays masked, whatever an actor does at the boundary. *)
LEMMA BoundaryCatches ==
  ASSUME RecOK, Caught, NEW p, BoundaryStep(p)
  PROVE  Caught'
<1>1. CASE UNCHANGED rec
  BY <1>1 DEF Caught
<1>2. ASSUME \A i \in Records : /\ (rec'[i].during => rec[i].during) /\ (rec[i].masked => rec'[i].masked)
                                /\ (rec[i].ring # "clear" => rec'[i].ring = rec[i].ring)
      PROVE  Caught'
  <2>1. ASSUME NEW i \in Records, rec'[i].during
        PROVE  rec'[i].masked /\ rec'[i].ring # "clear"
    <3>1. rec[i].during /\ rec[i].masked /\ rec[i].ring # "clear"
      BY <1>2, <2>1 DEF Caught
    <3> QED
      BY <1>2, <3>1
  <2> QED
    BY <2>1 DEF Caught
<1>3. CASE rec' = [i \in Records |-> _rewrite_before_secret_replacement(rec[i])]
  BY <1>2, <1>3, Masking
<1>4. CASE rec' = [i \in Records |-> Swept(rec[i])]
  BY <1>2, <1>4, Masking
<1> QED
  BY <1>1, <1>3, <1>4 DEF BoundaryStep

(* A capture masks what is being retired; on its way a record is not unmasked.            *)
LEMMA LogCatches ==
  ASSUME RecOK, HandlerOK, Caught, LogNext
  PROVE  Caught'
<1>1. ASSUME NEW i \in Records, NEW r, rec' = [rec EXCEPT ![i] = r],
             r.during => r.masked /\ r.ring # "clear"
      PROVE  Caught'
  <2>1. rec'[i] = r /\ \A j \in Records \ {i} : rec'[j] = rec[j]
    BY <1>1 DEF RecOK
  <2> QED
    BY <1>1, <2>1 DEF Caught
<1>2. ASSUME NEW i \in Records, NEW v, _capture(i, v)
      PROVE  Caught'
  <2> DEFINE m == redact_retired_log_message(v, handler.retiring, handler.values)
             l == v \in gone
             d == Retires(v)
             r == [at |-> "captured", val |-> v, ring |-> "no", during |-> d, late |-> l, masked |-> m]
  <2>1. rec' = [rec EXCEPT ![i] = r]
    BY <1>2 DEF _capture, Captures
  <2>2. d => m
    BY DEF Retires, HandlerOK, redact_retired_log_message
  <2> HIDE DEF m, l, d
  <2>3. r.masked = m /\ r.during = d /\ r.ring = "no"
    OBVIOUS
  <2> HIDE DEF r
  <2> QED
    BY <1>1, <2>1, <2>2, <2>3
<1>3. ASSUME NEW i \in Records, NEW at, NEW ring, rec' = [rec EXCEPT ![i] = Arrive(rec[i], at, ring)],
             rec[i].during => ring # "clear"
      PROVE  Caught'
  <2> DEFINE s == rec[i]
             l == s.late \/ s.val \in gone
             r == Arrive(s, at, ring)
  <2>1. r = [s EXCEPT !.at = at, !.ring = ring, !.late = l]
    BY DEF Arrive
  <2>2. RecShape(s) /\ (s.during => s.masked)
    BY DEF RecOK, Caught
  <2>3. rec' = [rec EXCEPT ![i] = r] /\ (s.during => ring # "clear")
    BY <1>3
  <2> HIDE DEF l, r, s
  <2>4. r = [at |-> at, val |-> s.val, masked |-> s.masked, ring |-> ring, during |-> s.during, late |-> l]
    BY <2>1, <2>2 DEF RecShape
  <2>5. r.during = s.during /\ r.masked = s.masked /\ r.ring = ring
    BY <2>4
  <2> QED
    BY <1>1, <2>2, <2>3, <2>5
<1>4. ASSUME NEW i \in Records, emit(i) PROVE Caught'
  <2>1. PICK at \in {"pending", "debug"} :
          rec' = [rec EXCEPT ![i] = Arrive(rec[i], at, IF rec[i].masked THEN "masked" ELSE "clear")]
    BY <1>4 DEF emit
  <2> DEFINE ring == IF rec[i].masked THEN "masked" ELSE "clear"
  <2>2. rec[i].during => ring # "clear"
    BY DEF Caught
  <2>3. rec' = [rec EXCEPT ![i] = Arrive(rec[i], at, ring)]
    BY <2>1
  <2> HIDE DEF ring
  <2> QED
    BY <1>3, <2>2, <2>3
<1>5. ASSUME NEW i \in Records, _enqueue(i) PROVE Caught'
  <2>1. PICK at \in {"queued", "dropped"} : rec' = [rec EXCEPT ![i] = Arrive(rec[i], at, rec[i].ring)]
    BY <1>5 DEF _enqueue
  <2>2. rec[i].during => rec[i].ring # "clear"
    BY DEF Caught
  <2> QED
    BY <1>3, <2>1, <2>2
<1>6. ASSUME NEW move, rec' = [i \in Records |-> [rec[i] EXCEPT !.at = move[i]]]
      PROVE  Caught'
  <2>1. ASSUME NEW i \in Records
        PROVE  rec'[i].during = rec[i].during /\ rec'[i].masked = rec[i].masked /\ rec'[i].ring = rec[i].ring
    <3>1. rec'[i] = [rec[i] EXCEPT !.at = move[i]]
      BY <1>6
    <3>2. RecShape(rec[i])
      BY DEF RecOK
    <3> QED
      BY <3>1, <3>2 DEF RecShape
  <2> QED
    BY <2>1 DEF Caught
<1>7. CASE drain_once
  <2> DEFINE move == [i \in Records |-> IF rec[i].at = "queued" THEN "batch" ELSE rec[i].at]
  <2>1. rec' = [i \in Records |-> [rec[i] EXCEPT !.at = move[i]]]
    BY <1>7 DEF drain_once
  <2> HIDE DEF move
  <2> QED
    BY <1>6, <2>1
<1>8. CASE _log_drain_loop
  <2>1. CASE \E n \in Records \cup {0} :
           rec' = [i \in Records |->
             [rec[i] EXCEPT !.at = prune_once(n, i, IF @ = "batch" THEN "stored" ELSE @)]]
    <3>1. PICK n \in Records \cup {0} :
           rec' = [i \in Records |->
             [rec[i] EXCEPT !.at = prune_once(n, i, IF @ = "batch" THEN "stored" ELSE @)]]
      BY <2>1
    <3> DEFINE move == [i \in Records |-> prune_once(n, i, IF rec[i].at = "batch" THEN "stored" ELSE rec[i].at)]
    <3>2. rec' = [i \in Records |-> [rec[i] EXCEPT !.at = move[i]]]
      BY <3>1
    <3> HIDE DEF move
    <3> QED
      BY <1>6, <3>2
  <2>2. CASE rec' = [i \in Records |-> [rec[i] EXCEPT !.at = IF @ = "batch" THEN "dropped" ELSE @]]
    <3> DEFINE move == [i \in Records |-> IF rec[i].at = "batch" THEN "dropped" ELSE rec[i].at]
    <3>1. rec' = [i \in Records |-> [rec[i] EXCEPT !.at = move[i]]]
      BY <2>2
    <3> HIDE DEF move
    <3> QED
      BY <1>6, <3>1
  <2> QED
    BY <1>8, <2>1, <2>2 DEF _log_drain_loop
<1> QED
  BY <1>2, <1>4, <1>5, <1>7, <1>8 DEF LogNext

LEMMA CaughtKeeps ==
  ASSUME LockInv, HandlerOK, Caught, [Next]_vars
  PROVE  Caught'
<1>0. SignOK /\ PutOK /\ BoundOK /\ HoldInv /\ RecOK
  BY DEF LockInv, LogSafe
<1>s. ASSUME UNCHANGED rec PROVE Caught'
  BY <1>s DEF Caught
<1>1. CASE LogNext
  BY <1>0, <1>1, LogCatches
<1>2. CASE KeyNext
  BY <1>0, <1>2, KeyBoundary, BoundaryCatches
<1>3. CASE \E p \in Signers : SignIn(p)
  BY <1>0, <1>3, SignBoundary, BoundaryCatches
<1>4. CASE PutSettings
  BY <1>0, <1>4, PutBoundary, BoundaryCatches
<1>5. CASE \E p \in Signers : Capture(p)
  BY <1>5, <1>s, CaptureFrame DEF logVars
<1>6. CASE SweepShares
  BY <1>6, <1>s, SweepFrame DEF logVars
<1>7. CASE Watchlist
  BY <1>7, <1>s, WatchFrame DEF logVars
<1>8. CASE World \/ Second
  BY <1>8, <1>s, WorldFrame DEF logVars
<1>9. CASE UNCHANGED vars
  BY <1>9, <1>s DEF vars, secretVars, logVars
<1> QED
  BY <1>1, <1>2, <1>3, <1>4, <1>5, <1>6, <1>7, <1>8, <1>9 DEF Next

(* At the start no rotation runs and nothing is captured. *)
LEMMA CaughtInit == Init => HandlerOK /\ Caught
<1> SUFFICES ASSUME Init PROVE HandlerOK /\ Caught
  OBVIOUS
<1>1. PICK others : SecretsInit(others)
  BY DEF Init
<1>2. bound = Free /\ rec = [i \in Records |-> Unborn]
      /\ \E values : handler = [values |-> values, retiring |-> {}]
  BY <1>1 DEF SecretsInit
<1>3. Free.at = "free" /\ Unborn.during = FALSE
  BY DEF Free, Unborn
<1> QED
  BY <1>2, <1>3 DEF HandlerOK, Caught

(* In every state, whoever is at work: once a rotated credential is retired         *)
(* (complete_secret_rotation), neither a record delivered by then nor one captured while    *)
(* the rotation ran shows it, in the ring, the queue, a batch or the table.  For the first the  *)
(* sweep is not enough: a record stored between the commit and the sweep must have been    *)
(* masked by _rewrite_before_secret_replacement, and the drain shut out meanwhile.  For the  *)
(* second, which may arrive after the sweep, it is the capture that must mask.            *)
THEOREM RetiredErased == Spec => []RetiredIsErased
<1>1. LockInv /\ Caught => RetiredIsErased
  BY DEF LockInv, LogSafe, SweepErases, Caught, RetiredIsErased
<1>2. LockInv /\ HandlerOK /\ Caught /\ [Next]_vars => HandlerOK' /\ Caught'
  BY HandlerKeeps, CaughtKeeps
<1> QED
  BY <1>1, <1>2, CaughtInit, LockInvariant, PTL DEF Spec

(***************************************************************************)
(* The recovery sessions                                                    *)
(***************************************************************************)

(* The recovery sessions and the exchanges under way.                               *)
KeySafe == RecovOK /\ KeyInv /\ RecoveryFollowsKey

(* The session there may be at the start came from the key on file.                 *)
LEMMA KeyInit == Init => KeySafe
<1> SUFFICES ASSUME Init PROVE KeySafe
  OBVIOUS
<1>1. PICK others : SecretsInit(others)
  BY DEF Init
<1>2. /\ recov = [r \in {"r0"} \cup Exchangers |-> [key |-> AppKeys[1], live |-> r = "r0"]]
      /\ exch = [e \in Exchangers |-> "idle"]
      /\ appkey = [now |-> AppKeys[1], made |-> 1]
  BY <1>1 DEF SecretsInit
<1>3. RecovOK /\ KeyInv
  BY <1>2 DEF RecovOK, KeyInv
<1>4. RecoveryFollowsKey
  BY <1>2 DEF RecoveryFollowsKey
<1> QED
  BY <1>3, <1>4 DEF KeySafe

(* Cutting sessions keeps those that are left.                                      *)
LEMMA Cut ==
  ASSUME RecovOK, NEW keep,
         recov' = [r \in DOMAIN recov |-> [recov[r] EXCEPT !.live = @ /\ r \in keep]]
  PROVE  RecovOK' /\ \A r \in DOMAIN recov' : r \in DOMAIN recov /\ recov'[r].key = recov[r].key
                                /\ (recov'[r].live => recov[r].live /\ r \in keep)
<1>1. DOMAIN recov = {"r0"} \cup Exchangers
  BY DEF RecovOK
<1>2. ASSUME NEW r \in {"r0"} \cup Exchangers
      PROVE  /\ recov'[r] = [key |-> recov[r].key, live |-> recov'[r].live]
             /\ recov'[r].live \in BOOLEAN /\ recov'[r].key = recov[r].key
             /\ recov'[r].live => recov[r].live /\ r \in keep
  <2> DEFINE l == recov[r].live /\ r \in keep
  <2>1. recov'[r] = [recov[r] EXCEPT !.live = l] /\ l \in BOOLEAN /\ (l => recov[r].live /\ r \in keep)
    BY <1>1
  <2>2. recov[r] = [key |-> recov[r].key, live |-> recov[r].live]
    BY DEF RecovOK
  <2> HIDE DEF l
  <2>3. recov'[r] = [key |-> recov[r].key, live |-> l]
    BY <2>1, <2>2
  <2> QED
    BY <2>1, <2>3
<1>3. DOMAIN recov' = {"r0"} \cup Exchangers /\ recov' = [r \in {"r0"} \cup Exchangers |-> recov'[r]]
  BY <1>1
<1>4. RecovOK'
  BY <1>2, <1>3 DEF RecovOK
<1> QED
  BY <1>1, <1>2, <1>3, <1>4

(* Each request about the key keeps the sessions with it.                           *)
LEMMA KeyStep ==
  ASSUME KeySafe, HoldInv, KeyNext
  PROVE  KeySafe'
<1>0. RecovOK /\ KeyInv /\ RecoveryFollowsKey
  BY DEF KeySafe
<1>s. ASSUME UNCHANGED <<appkey, rotating, recov, keeper, exch>> PROVE KeySafe'
  BY <1>s, <1>0 DEF KeySafe, RecovOK, KeyInv, RecoveryFollowsKey
<1>c. ASSUME NEW keep, _revoke_recovery_sessions(keep), keeper' = keep
      PROVE  RecovOK' /\ RecoveryFollowsKey'
  <2>1. recov' = [r \in DOMAIN recov |-> [recov[r] EXCEPT !.live = @ /\ r \in {keep}]]
    BY <1>c DEF _revoke_recovery_sessions
  <2>2. RecovOK' /\ \A r \in DOMAIN recov' : recov'[r].live => r \in {keep}
    BY <1>0, <2>1, Cut
  <2> QED
    BY <1>c, <2>2 DEF RecoveryFollowsKey
<1>1. ASSUME NEW p \in Holders, Authenticate(p) \/ _observed_app_key(p) PROVE KeySafe'
  BY <1>1, <1>s DEF Authenticate, _observed_app_key
<1>2. ASSUME NEW p \in Holders, rotate_app_key_endpoint(p) PROVE KeySafe'
  <2>1. rotating = None /\ UNCHANGED <<appkey, exch>>
    BY <1>2 DEF rotate_app_key_endpoint
  <2>2. KeyInv'
    BY <1>0, <2>1, HoldersAssumption DEF KeyInv, None
  <2>3. \/ UNCHANGED <<recov, keeper>>
        \/ _revoke_recovery_sessions(None) /\ keeper' = None
    BY <1>2 DEF rotate_app_key_endpoint
  <2>4. RecovOK' /\ RecoveryFollowsKey'
    BY <1>0, <1>c, <2>1, <2>3 DEF RecovOK, RecoveryFollowsKey
  <2> QED
    BY <2>2, <2>4 DEF KeySafe
<1>3. ASSUME NEW p \in Holders, RotateEnters(p) \/ RotateBegins(p) PROVE KeySafe'
  BY <1>3, <1>s DEF RotateEnters, RotateBegins, keyVars
<1>4. ASSUME NEW p \in Holders, RotateCommits(p) PROVE KeySafe'
  <2>1. bound.by = p /\ UNCHANGED <<rotating, exch>>
    BY <1>4 DEF RotateCommits, _commit
  <2>2. rotating = p /\ p \notin Exchangers
    BY <2>1, HoldersAssumption DEF HoldInv
  <2>3. KeyInv'
    BY <1>0, <2>1, <2>2 DEF KeyInv
  <2>4. PICK exempt : _revoke_recovery_sessions(exempt) /\ keeper' = exempt
    BY <1>4 DEF RotateCommits
  <2> QED
    BY <1>c, <2>3, <2>4 DEF KeySafe
<1>5. ASSUME NEW p \in Holders, RotateEnds(p) PROVE KeySafe'
  <2>1. bound.by = p /\ UNCHANGED <<appkey, recov, keeper, exch>>
    BY <1>5 DEF RotateEnds, complete_secret_rotation, abort_secret_rotation
  <2>2. rotating = p /\ p \notin Exchangers
    BY <2>1, HoldersAssumption DEF HoldInv
  <2>3. KeyInv'
    BY <1>0, <2>1, <2>2 DEF KeyInv
  <2> QED
    BY <1>0, <2>1, <2>3 DEF KeySafe, RecovOK, RecoveryFollowsKey
<1>6. ASSUME NEW e \in Exchangers, exchange_api_key_endpoint(e) PROVE KeySafe'
  <2>1. rotating = None /\ UNCHANGED <<appkey, recov, keeper>>
    BY <1>6 DEF exchange_api_key_endpoint
  <2>2. \/ exch' = [exch EXCEPT ![e] = "refused"] /\ UNCHANGED rotating
        \/ rotating' = e /\ exch' = [exch EXCEPT ![e] = appkey.now]
    BY <1>6 DEF exchange_api_key_endpoint
  <2>3. \A x \in Exchangers : exch[x] \in {"idle", "refused", "done"}
    BY <1>0, <2>1, HoldersAssumption DEF KeyInv, None
  <2>4. KeyInv'
    BY <1>0, <2>1, <2>2, <2>3 DEF KeyInv
  <2> QED
    BY <1>0, <2>1, <2>4 DEF KeySafe, RecovOK, RecoveryFollowsKey
<1>7. ASSUME NEW e \in Exchangers, _issue_browser_session(e) PROVE KeySafe'
  <2>1. /\ exch[e] \notin {"idle", "refused", "done"} /\ UNCHANGED <<appkey, keeper>>
        /\ recov' = [recov EXCEPT ![e] = [key |-> exch[e], live |-> TRUE]]
        /\ exch' = [exch EXCEPT ![e] = "done"]
    BY <1>7 DEF _issue_browser_session
  <2>2. exch[e] = appkey.now /\ \A x \in Exchangers \ {e} : exch[x] \in {"idle", "refused", "done"}
    BY <1>0, <2>1 DEF KeyInv
  <2>3. KeyInv'
    BY <1>0, <2>1, <2>2 DEF KeyInv
  <2>4. /\ DOMAIN recov' = DOMAIN recov
        /\ recov'[e] = [key |-> exch[e], live |-> TRUE]
        /\ \A r \in ({"r0"} \cup Exchangers) \ {e} : recov'[r] = recov[r]
    BY <1>0, <2>1 DEF RecovOK
  <2>5. RecovOK'
    BY <1>0, <2>1, <2>4 DEF RecovOK
  <2>6. RecoveryFollowsKey'
    BY <1>0, <2>1, <2>2, <2>4 DEF RecovOK, RecoveryFollowsKey
  <2> QED
    BY <2>3, <2>5, <2>6 DEF KeySafe
<1>8. ASSUME NEW r \in DOMAIN recov, logout_endpoint(r) PROVE KeySafe'
  <2>1. recov' = [recov EXCEPT ![r].live = FALSE] /\ UNCHANGED <<appkey, rotating, keeper, exch>>
    BY <1>8 DEF logout_endpoint
  <2>2. KeyInv'
    BY <1>0, <2>1 DEF KeyInv
  <2>3. r \in {"r0"} \cup Exchangers
    BY <1>0 DEF RecovOK
  <2>4. /\ DOMAIN recov' = DOMAIN recov
        /\ recov'[r] = [key |-> recov[r].key, live |-> FALSE]
        /\ \A x \in ({"r0"} \cup Exchangers) \ {r} : recov'[x] = recov[x]
    <3>1. recov[r] = [key |-> recov[r].key, live |-> recov[r].live] /\ DOMAIN recov = {"r0"} \cup Exchangers
      BY <1>0, <2>3 DEF RecovOK
    <3>2. recov'[r] = [recov[r] EXCEPT !.live = FALSE]
      BY <2>1
    <3>3. recov'[r] = [key |-> recov[r].key, live |-> FALSE]
      BY <3>1, <3>2
    <3> QED
      BY <2>1, <3>1, <3>3
  <2>5. RecovOK'
    BY <1>0, <2>1, <2>4, ZenonT(60) DEF RecovOK
  <2>6. RecoveryFollowsKey'
    BY <1>0, <2>1, <2>4 DEF RecovOK, RecoveryFollowsKey
  <2> QED
    BY <2>2, <2>5, <2>6 DEF KeySafe
<1> QED
  BY <1>1, <1>2, <1>3, <1>4, <1>5, <1>6, <1>7, <1>8 DEF KeyNext

(* Nobody else touches key or sessions, but a sign-in that cuts one.                *)
LEMMA KeyNextStep == KeySafe /\ LockInv /\ [Next]_vars => KeySafe'
<1> SUFFICES ASSUME KeySafe, LockInv, [Next]_vars PROVE KeySafe'
  OBVIOUS
<1>0. RecovOK /\ KeyInv /\ RecoveryFollowsKey /\ HoldInv
  BY DEF KeySafe, LockInv
<1>s. ASSUME UNCHANGED keyVars PROVE KeySafe'
  BY <1>s, <1>0 DEF KeySafe, RecovOK, KeyInv, RecoveryFollowsKey, keyVars
<1>1. CASE LogNext /\ UNCHANGED accessVars
  BY <1>1, <1>s, LogFrame
<1>2. CASE KeyNext /\ UNCHANGED accessVars
  BY <1>0, <1>2, KeyStep
<1>3. CASE \E p \in Signers : SignIn(p) \/ Capture(p)
  BY <1>3, <1>s, SignFrame, CaptureFrame
<1>4. CASE PutSettings
  <2>1. UNCHANGED <<appkey, rotating, keeper, hold, exch>>
    BY <1>4, PutFrame
  <2>2. CASE UNCHANGED recov
    BY <1>s, <2>1, <2>2 DEF keyVars
  <2>3. CASE SignEveryoneOut
    <3> DEFINE keep == {}
    <3>1. recov' = [r \in DOMAIN recov |-> [recov[r] EXCEPT !.live = @ /\ r \in keep]]
      BY <2>3 DEF SignEveryoneOut
    <3> HIDE DEF keep
    <3>2. RecovOK' /\ RecoveryFollowsKey'
      <4>1. RecovOK' /\ \A r \in DOMAIN recov' : recov'[r].live => r \in keep
        BY <1>0, <3>1, Cut
      <4> QED
        BY <4>1 DEF RecoveryFollowsKey, keep
    <3> QED
      BY <1>0, <2>1, <3>2 DEF KeySafe, KeyInv
  <2> QED
    BY <1>4, <2>2, <2>3 DEF PutSettings, _verify_plex_repoint, ChangeSecret,
       _backfill_missing_plex_anchor, Backfill, PutEnters, PutBegins, write_settings,
       _post_commit_invalidations, secretFrame, keyVars
<1>5. CASE SweepShares \/ Watchlist \/ World \/ Second
  BY <1>5, <1>s, SweepFrame, WatchFrame, WorldFrame
<1>6. CASE UNCHANGED vars
  BY <1>6, <1>s DEF vars, secretVars
<1> QED
  BY <1>1, <1>2, <1>3, <1>4, <1>5, <1>6 DEF Next

(* A recovery session ... *)
LEMMA RecoveryFollows == Spec => []RecoveryFollowsKey
<1>1. KeySafe => RecoveryFollowsKey
  BY DEF KeySafe
<1> QED
  BY <1>1, KeyInit, KeyNextStep, LockInvariant, PTL DEF Spec

(***************************************************************************)
(* The Plex sessions                                                        *)
(***************************************************************************)

(* The grants, with all they rest on.                                               *)
GrantSafe == ConfOK /\ WorldOK /\ SessOK /\ ConfInv /\ PutInv /\ GrantInv /\ cast \in Casts

(* The session there may be at the start is one of server A, which is on file.      *)
LEMMA GrantInit == Init => GrantSafe
<1> SUFFICES ASSUME Init PROVE GrantSafe
  OBVIOUS
<1>1. PICK known \in BOOLEAN :
        sess = [s \in Sessions |-> [live |-> s = "s0" /\ known, who |-> "a", server |-> "A",
                                      token |-> "t1", born |-> 0]]
  BY DEF Init
<1>2. SessOK /\ \A s \in Sessions : sess[s].server = "A"
  <2>1. ASSUME NEW s \in Sessions
        PROVE  /\ sess[s] = [live |-> sess[s].live, who |-> sess[s].who, server |-> sess[s].server,
                     token |-> sess[s].token, born |-> sess[s].born]
               /\ sess[s].live \in BOOLEAN /\ sess[s].server = "A"
    <3> DEFINE l == s = "s0" /\ known
    <3>1. sess[s] = [live |-> l, who |-> "a", server |-> "A", token |-> "t1", born |-> 0] /\ l \in BOOLEAN
      BY <1>1
    <3> HIDE DEF l
    <3> QED
      BY <3>1
  <2> QED
    BY <1>1, <2>1 DEF SessOK
<1>3. PICK b \in Servers : \E reach :
        world = [live |-> [uA |-> "A", uB |-> b], reach |-> reach, dead |-> {}]
  BY DEF Init, Servers
<1>4. WorldOK /\ Answers("uA") = "A"
  <2>1. world.live = [uA |-> "A", uB |-> b]
    BY <1>3
  <2>2. world.live["uA"] = "A" /\ world.live["uB"] = b
    BY <2>1
  <2>3. world.live = [u \in Urls |-> world.live[u]]
    BY <2>1 DEF Urls
  <2> QED
    BY <1>3, <2>2, <2>3 DEF WorldOK, Urls, Servers, Answers
<1>5. /\ conf.anchor = IF Act("legacy") \/ ~init THEN None ELSE "A"
      /\ conf.url = IF init THEN "uA" ELSE None
      /\ ConfOK
  BY DEF Init, ConfOK
<1>6. ConfInv
  BY <1>5 DEF ConfInv, Servers, Urls, None
<1>7. PutInv
  BY DEF Init, PutInv, Idle
<1>8. Configured # None => Configured = "A"
  BY <1>4, <1>5 DEF Configured, None
<1>9. GrantInv
  BY <1>2, <1>8 DEF Init, GrantInv, Idle
<1> QED
  BY <1>2, <1>4, <1>5, <1>6, <1>7, <1>9 DEF GrantSafe, Init

(* The configured server depends on the settings and on Plex alone.                 *)
LEMMA ConfiguredStays == ASSUME UNCHANGED <<conf, world>> PROVE Configured' = Configured
BY DEF Configured, Answers

(* Whatever cuts sessions leaves the others as they were granted.                        *)
SessionsShrink ==
  SessOK' /\ \A s \in Sessions : sess'[s].live => sess[s].live /\ sess'[s].server = sess[s].server

(* Sessions cut by a condition are cut, and nothing else.                           *)
LEMMA CutSessions ==
  ASSUME SessOK, NEW keep, sess' = [s \in Sessions |-> [sess[s] EXCEPT !.live = @ /\ ~keep[s]]]
  PROVE  SessionsShrink
<1>1. ASSUME NEW s \in Sessions
      PROVE  /\ sess'[s] = [live |-> sess'[s].live, who |-> sess'[s].who, server |-> sess'[s].server,
                     token |-> sess'[s].token, born |-> sess'[s].born]
             /\ sess'[s].live \in BOOLEAN
             /\ sess'[s].live => sess[s].live
             /\ sess'[s].server = sess[s].server
  <2> DEFINE l == sess[s].live /\ ~keep[s]
             r == sess[s]
             q == sess'[s]
  <2>1. q = [r EXCEPT !.live = l] /\ l \in BOOLEAN /\ (l => r.live)
    OBVIOUS
  <2>2. r = [live |-> r.live, who |-> r.who, server |-> r.server, token |-> r.token, born |-> r.born]
    BY DEF SessOK
  <2> HIDE DEF l, r, q
  <2>3. q = [live |-> l, who |-> r.who, server |-> r.server, token |-> r.token, born |-> r.born]
    BY <2>1, <2>2
  <2>4. /\ q = [live |-> q.live, who |-> q.who, server |-> q.server, token |-> q.token, born |-> q.born]
        /\ q.live = l /\ q.server = r.server
    BY <2>3
  <2> QED
    BY <2>1, <2>4 DEF q, r
<1> QED
  BY <1>1 DEF SessionsShrink, SessOK

(* The session a sign-in stages is for the server it decided on.                          *)
LEMMA SignSession ==
  ASSUME SessOK, NEW p \in Signers, SignIn(p)
  PROVE  \/ sess' = sess
         \/ /\ ~init \/ sign[p].at \in {"begun", "staged"}
            /\ SessOK' /\ sess'[p].server = sign[p].server
            /\ \A s \in Sessions \ {p} : sess'[s] = sess[s]
<1>1. ASSUME _stage_browser_session(p)
      PROVE  /\ SessOK' /\ sess'[p].server = sign[p].server
             /\ \A s \in Sessions \ {p} : sess'[s] = sess[s]
  <2>0. p \in Sessions
    BY DEF Sessions
  <2> DEFINE r == [live |-> TRUE, who |-> Owner(p), server |-> sign[p].server,
                   token |-> sign[p].token, born |-> tally.clock]
  <2>1. sess' = [sess EXCEPT ![p] = r]
    BY <1>1 DEF _stage_browser_session
  <2>2. /\ r = [live |-> r.live, who |-> r.who, server |-> r.server, token |-> r.token, born |-> r.born]
        /\ r.live = TRUE /\ r.server = sign[p].server
    OBVIOUS
  <2> HIDE DEF r
  <2>3. sess'[p] = r /\ (\A s \in Sessions \ {p} : sess'[s] = sess[s])
        /\ sess' = [s \in Sessions |-> sess'[s]]
    BY <2>0, <2>1 DEF SessOK
  <2>4. SessOK'
    BY <2>0, <2>2, <2>3 DEF SessOK
  <2> QED
    BY <2>2, <2>3, <2>4
<1>2. CASE SignCommits(p)
  BY <1>1, <1>2 DEF SignCommits
<1>3. CASE _upsert_user(p)
  BY <1>1, <1>3 DEF _upsert_user
<1>4. CASE _claim_or_resume_setup(p)
  BY <1>1, <1>4 DEF _claim_or_resume_setup
<1>5. CASE ~SignCommits(p) /\ ~_upsert_user(p) /\ ~_claim_or_resume_setup(p)
  BY <1>5 DEF SignIn, plex_sign_in_endpoint, fetch_resources, Decide, SignEnters,
     _recompute_access_in_lock, SignBegins, SignEnds, SignRechecks
<1> QED
  BY <1>2, <1>3, <1>4, <1>5

(* Replacing the server signs everybody out.                                      *)
LEMMA EveryoneOut ==
  ASSUME SessOK, SignEveryoneOut
  PROVE  SessOK' /\ \A s \in Sessions : sess'[s].live = FALSE
<1>1. ASSUME NEW s \in Sessions
      PROVE  /\ sess'[s] = [live |-> sess'[s].live, who |-> sess'[s].who, server |-> sess'[s].server,
                           token |-> sess'[s].token, born |-> sess'[s].born]
             /\ sess'[s].live = FALSE
  <2> DEFINE r == sess[s]
             q == sess'[s]
  <2>1. r = [live |-> r.live, who |-> r.who, server |-> r.server, token |-> r.token, born |-> r.born]
    BY DEF SessOK
  <2>2. q = [r EXCEPT !.live = FALSE]
    BY DEF SignEveryoneOut
  <2> HIDE DEF r, q
  <2>3. q = [live |-> FALSE, who |-> r.who, server |-> r.server, token |-> r.token, born |-> r.born]
    BY <2>1, <2>2
  <2>4. /\ q = [live |-> q.live, who |-> q.who, server |-> q.server, token |-> q.token, born |-> q.born]
        /\ q.live = FALSE
    BY <2>3
  <2> QED
    BY <2>4 DEF q
<1> QED
  BY <1>1 DEF SessOK, SignEveryoneOut

(* A step that writes neither settings nor sign-ins, and grants no session.         *)
LEMMA GrantQuiet ==
  ASSUME GrantSafe, UNCHANGED <<cast, init, conf, gen, sign, put, world>>,
         sess' = sess \/ SessionsShrink
  PROVE  GrantSafe'
<1>0. ConfOK /\ WorldOK /\ SessOK /\ ConfInv /\ PutInv /\ GrantInv /\ cast \in Casts
  BY DEF GrantSafe
<1>1. Configured' = Configured
  BY ConfiguredStays
<1>2. ConfOK' /\ WorldOK' /\ ConfInv'
  BY <1>0 DEF ConfOK, WorldOK, ConfInv, Act
<1>3. PutInv'
  BY <1>0 DEF PutInv, Act, Answers
<1>4. SessOK' /\ \A s \in Sessions : sess'[s].live => sess[s].live /\ sess'[s].server = sess[s].server
  BY <1>0 DEF SessionsShrink, SessOK
<1>5. GrantInv'
  BY <1>0, <1>1, <1>4 DEF GrantInv
<1> QED
  BY <1>0, <1>2, <1>3, <1>4, <1>5 DEF GrantSafe

(* A sign-in's session is for the server configured when it is stored: the lock that the      *)
(* decision was repeated under, or the generation, vouches for it.                          *)
LEMMA GrantSign ==
  ASSUME GrantSafe, LockInv, NEW p \in Signers, SignIn(p)
  PROVE  GrantSafe'
<1>0. ConfOK /\ WorldOK /\ SessOK /\ ConfInv /\ PutInv /\ GrantInv /\ cast \in Casts /\ SignOK /\ HoldInv
  BY DEF GrantSafe, LockInv
<1>1. UNCHANGED <<cast, init, conf, gen, put, world>>
  BY SignFrame
<1>2. Configured' = Configured
  BY <1>1, ConfiguredStays
<1>3. ConfOK' /\ WorldOK' /\ ConfInv'
  BY <1>0, <1>1 DEF ConfOK, WorldOK, ConfInv, Act
<1>4. PutInv'
  BY <1>0, <1>1 DEF PutInv, Act, Answers
<1>5. \/ sess' = sess
      \/ /\ ~init \/ sign[p].at \in {"begun", "staged"}
         /\ SessOK' /\ sess'[p].server = sign[p].server
         /\ \A s \in Sessions \ {p} : sess'[s] = sess[s]
  BY <1>0, SignSession
<1>6. SessOK'
  BY <1>0, <1>5 DEF SessOK
<1>7. init /\ Configured # None => \A s \in Sessions : sess'[s].live => sess'[s].server = Configured
  BY <1>0, <1>5 DEF GrantInv
<1>8. /\ SignOK' /\ sign'[p].at # "idle"
      /\ \A q \in Signers \ {p} : sign'[q] = sign[q]
      /\ sign[p].at # "idle" => sign[p] # Idle
      /\ sign[p].at # "idle" => sign'[p].gen = sign[p].gen
      /\ sign[p].at = "idle" => sign'[p].gen = gen /\ sign'[p].at = "stamped"
  BY <1>0, SignProgress
<1>9. sign'[p].gen <= gen
  <2>1. CASE sign[p].at = "idle"
    BY <1>0, <1>8, <2>1 DEF GrantInv
  <2>2. CASE sign[p].at # "idle"
    BY <1>0, <1>8, <2>2 DEF GrantInv
  <2> QED
    BY <2>1, <2>2
<1>10. init => /\ sign'[p].at \in {"again", "begun", "staged"} => sign'[p].server = Configured
               /\ sign'[p].at = "ordinary" => sign'[p].server = Configured
  <2> SUFFICES ASSUME init
               PROVE  sign'[p].at \in {"again", "begun", "staged", "ordinary"} => sign'[p].server = Configured
    OBVIOUS
  <2>1. CASE plex_sign_in_endpoint(p) \/ fetch_resources(p) \/ SignEnters(p) \/ SignCommits(p)
             \/ SignEnds(p) \/ _upsert_user(p) \/ _claim_or_resume_setup(p)
    BY <1>0, <2>1, SignStages
  <2>2. CASE Decide(p) \/ _recompute_access_in_lock(p)
    BY <1>0, <2>2, SignStages
  <2>3. CASE SignBegins(p)
    <3>1. sign[p].at = "again" /\ sign'[p].server = sign[p].server
      BY <1>0, <2>3, SignStages DEF SignBegins
    <3> QED
      BY <1>0, <3>1 DEF GrantInv
  <2>4. CASE SignRechecks(p)
    <3>1. sign[p].at = "ordinary" /\ bound.by = None
      BY <2>4 DEF SignRechecks
    <3>2. put.at # "committed"
      BY <1>0, <3>1 DEF HoldInv, None
    <3>3. ~Moved(p) => sign[p].server = Configured
      BY <1>0, <3>1, <3>2 DEF GrantInv, Moved
    <3>4. \/ sign'[p].at \in {"boundary", "exhausted", "denied"}
          \/ /\ sign'[p].at = "staged"
             /\ sign'[p].server = IF Moved(p) THEN Configured ELSE sign[p].server
      BY <1>0, <2>4, SignStages
    <3> QED
      BY <3>3, <3>4
  <2> QED
    BY <2>1, <2>2, <2>3, <2>4 DEF SignIn
<1>11. GrantInv'
  <2>1. gen' \in Nat /\ (init' /\ Configured' # None =>
           \A s \in Sessions : sess'[s].live => sess'[s].server = Configured')
    BY <1>0, <1>1, <1>2, <1>7 DEF GrantInv
  <2>2. ASSUME NEW q \in Signers
        PROVE  /\ sign'[q] # Idle => sign'[q].gen <= gen'
               /\ init' /\ sign'[q].at \in {"again", "begun", "staged"} => sign'[q].server = Configured'
               /\ init' /\ sign'[q].at = "ordinary" /\ sign'[q].gen = gen' =>
                    sign'[q].server = Configured' \/ (put'.at = "committed" /\ put'.kind \in {"point", "clear"})
    <3>1. CASE q = p
      BY <3>1, <1>1, <1>2, <1>9, <1>10
    <3>2. CASE q # p
      BY <3>2, <1>0, <1>1, <1>2, <1>8 DEF GrantInv
    <3> QED
      BY <3>1, <3>2
  <2> QED
    BY <2>1, <2>2 DEF GrantInv
<1> QED
  BY <1>0, <1>1, <1>3, <1>4, <1>6, <1>11 DEF GrantSafe

(* Plex changes on its own: at most the server behind uA, from A to B.              *)
LEMMA WorldLive ==
  ASSUME WorldOK, World
  PROVE  /\ WorldOK'
         /\ \/ world'.live = world.live
            \/ world.live["uA"] = "A" /\ world'.live["uA"] = "B" /\ world'.live["uB"] = world.live["uB"]
<1>0. /\ world = [live |-> world.live, reach |-> world.reach, dead |-> world.dead]
      /\ world.live = [u \in Urls |-> world.live[u]]
      /\ \A u \in Urls : world.live[u] \in Servers
  BY DEF WorldOK
<1>1. CASE \E to \in {"no", "share"} \ {world.reach["a"]["A"]} : world' = [world EXCEPT !.reach["a"]["A"] = to]
  <2>1. PICK to : world' = [world EXCEPT !.reach["a"]["A"] = to]
    BY <1>1
  <2> DEFINE r == [world.reach EXCEPT !["a"]["A"] = to]
  <2>2. world' = [world EXCEPT !.reach = r]
    BY <2>1, <1>0
  <2> HIDE DEF r
  <2>3. world' = [live |-> world.live, reach |-> r, dead |-> world.dead]
    BY <2>2, <1>0
  <2>4. world'.live = world.live /\ world' = [live |-> world'.live, reach |-> world'.reach, dead |-> world'.dead]
    BY <2>3
  <2> QED
    BY <2>4, <1>0 DEF WorldOK
<1>2. CASE world.live["uA"] = "A" /\ world' = [world EXCEPT !.live["uA"] = "B"]
  <2> DEFINE l == [world.live EXCEPT !["uA"] = "B"]
  <2>1. world' = [world EXCEPT !.live = l]
    BY <1>2, <1>0
  <2>2. /\ l = [u \in Urls |-> l[u]] /\ (\A u \in Urls : l[u] \in Servers)
        /\ l["uA"] = "B" /\ l["uB"] = world.live["uB"]
    BY <1>0 DEF Urls, Servers
  <2> HIDE DEF l
  <2>3. world' = [live |-> l, reach |-> world.reach, dead |-> world.dead]
    BY <2>1, <1>0
  <2>4. world'.live = l /\ world' = [live |-> world'.live, reach |-> world'.reach, dead |-> world'.dead]
    BY <2>3
  <2> QED
    BY <1>2, <2>2, <2>4 DEF WorldOK
<1>3. CASE \E t \in TokensOf("a") \ world.dead : world' = [world EXCEPT !.dead = @ \cup {t}]
  <2>1. PICK t : world' = [world EXCEPT !.dead = @ \cup {t}]
    BY <1>3
  <2>2. world' = [live |-> world.live, reach |-> world.reach, dead |-> world.dead \cup {t}]
    BY <2>1, <1>0
  <2>3. world'.live = world.live /\ world' = [live |-> world'.live, reach |-> world'.reach, dead |-> world'.dead]
    BY <2>2
  <2> QED
    BY <2>3, <1>0 DEF WorldOK
<1> QED
  BY <1>1, <1>2, <1>3 DEF World

(* Grants are about the anchor, which no change at Plex touches, if a legacy        *)
(* installation has been settled by then.                                           *)
LEMMA GrantWorld ==
  ASSUME LegacyIsSettled, GrantSafe, World \/ Second
  PROVE  GrantSafe'
<1>0. ConfOK /\ WorldOK /\ SessOK /\ ConfInv /\ PutInv /\ GrantInv /\ cast \in Casts
  BY DEF GrantSafe
<1>1. UNCHANGED <<cast, init, conf, gen, sign, put, sess>>
  BY WorldFrame
<1>2. CASE Second
  BY <1>1, <1>2, GrantQuiet DEF Second
<1>3. CASE World
  <2>1. WorldOK'
    BY <1>0, <1>3, WorldLive
  <2>2. ~Act("legacy")
    BY <1>0, <1>3 DEF World, Act, LegacyIsSettled
  <2>3. Configured' = Configured
    BY <1>0, <1>1, <2>2 DEF Configured, ConfInv
  <2>4. ConfOK' /\ ConfInv' /\ SessOK'
    BY <1>0, <1>1 DEF ConfOK, ConfInv, SessOK, Act
  <2>5. PutInv'
    BY <1>0, <1>1, <2>2 DEF PutInv, Act
  <2>6. GrantInv'
    BY <1>0, <1>1, <2>3 DEF GrantInv
  <2> QED
    BY <1>0, <1>1, <2>1, <2>4, <2>5, <2>6 DEF GrantSafe
<1> QED
  BY <1>2, <1>3

(* The revalidation only ever cuts sessions.                                        *)
LEMMA SweepSessions ==
  ASSUME SessOK, SweepShares
  PROVE  sess' = sess \/ SessionsShrink
<1>1. CASE apply_share_verdict
  <2>1. CASE revoke_user_sessions
    <3> DEFINE keep == [s \in Sessions |-> /\ sess[s].who = "a" /\ sess[s].born <= sweep.guard
                                           /\ user["a"].cipher = sweep.seen]
    <3>1. sess' = [s \in Sessions |-> [sess[s] EXCEPT !.live = @ /\ ~keep[s]]]
      BY <2>1 DEF revoke_user_sessions
    <3> HIDE DEF keep
    <3> QED
      BY <3>1, CutSessions
  <2> QED
    BY <1>1, <2>1 DEF apply_share_verdict
<1>2. CASE ~apply_share_verdict
  BY <1>2 DEF SweepShares, _select_due_candidates, check_share, ConfirmLoss, GuardVerdict,
     _due_predicate, try_entitlement_capture_slot, _attempt_capture, _capture_in_slot, StoreSwept
<1> QED
  BY <1>1, <1>2

(* Only a write of the settings changes the server, and it does so under the lock: sessions       *)
(* are cut with it, and a sign-in that decided before finds the generation moved.               *)
LEMMA GrantPut ==
  ASSUME GrantSafe, LockInv, PutSettings
  PROVE  GrantSafe'
<1>0. /\ ConfOK /\ WorldOK /\ SessOK /\ ConfInv /\ PutInv /\ GrantInv /\ cast \in Casts
      /\ SignOK /\ HoldInv /\ PutOK
  BY DEF GrantSafe, LockInv
<1>1. UNCHANGED <<cast, init, sign, world>>
  BY PutFrame
<1>2. WorldOK'
  BY <1>0, <1>1 DEF WorldOK
<1>3. ASSUME UNCHANGED <<conf, gen, sess>>, PutInv',
             put.at # "committed" \/ put.kind \notin {"point", "clear"}
      PROVE  GrantSafe'
  <2>1. Configured' = Configured
    BY <1>1, <1>3, ConfiguredStays
  <2>2. ConfOK' /\ ConfInv' /\ SessOK'
    BY <1>0, <1>1, <1>3 DEF ConfOK, ConfInv, SessOK, Act
  <2>3. GrantInv'
    BY <1>0, <1>1, <1>3, <2>1 DEF GrantInv
  <2> QED
    BY <1>0, <1>1, <1>2, <1>3, <2>2, <2>3 DEF GrantSafe
<1>4. CASE _verify_plex_repoint
  <2>1. put.at = "idle" /\ UNCHANGED <<conf, gen, sess>>
    BY <1>4 DEF _verify_plex_repoint
  <2>2. CASE \E u \in Urls \ {conf.url} :
          put' = [at |-> "boundary", kind |-> "point", url |-> u, machine |-> Answers(u)]
    <3>1. PICK u \in Urls : put' = [at |-> "boundary", kind |-> "point", url |-> u, machine |-> Answers(u)]
      BY <2>2
    <3>2. Answers(u) \in Servers
      BY <1>0 DEF WorldOK, Answers
    <3> HIDE DEF Answers
    <3>3. put'.at = "boundary" /\ put'.kind = "point" /\ put'.url = u /\ put'.machine = Answers(u)
      BY <3>1
    <3>4. PutInv'
      BY <3>2, <3>3 DEF PutInv
    <3> QED
      BY <2>1, <3>4, <1>3
  <2>3. CASE put' = [at |-> "boundary", kind |-> "clear", url |-> None, machine |-> None]
    <3>1. PutInv'
      BY <2>3 DEF PutInv
    <3> QED
      BY <2>1, <3>1, <1>3
  <2> QED
    BY <1>4, <2>2, <2>3 DEF _verify_plex_repoint
<1>5. CASE ChangeSecret
  <2>1. put.at = "idle" /\ UNCHANGED <<conf, gen, sess>>
        /\ put' = [at |-> "boundary", kind |-> "secret", url |-> None, machine |-> None]
    BY <1>5 DEF ChangeSecret
  <2>2. PutInv'
    BY <2>1 DEF PutInv
  <2> QED
    BY <2>1, <2>2, <1>3
<1>6. CASE _backfill_missing_plex_anchor
  <2>1. put.at = "idle" /\ UNCHANGED <<conf, gen, sess>> /\ conf.anchor = None /\ conf.url # None
        /\ put' = [at |-> "backfill", kind |-> "backfill", url |-> conf.url, machine |-> Answers(conf.url)]
    BY <1>6 DEF _backfill_missing_plex_anchor
  <2>2. Act("legacy") /\ conf.url \in Urls
    BY <1>0, <2>1 DEF ConfInv
  <2>3. put'.at = "backfill" /\ put'.machine = Answers(conf.url)
    BY <2>1
  <2>4. PutInv'
    BY <1>1, <2>1, <2>2, <2>3 DEF PutInv, Act, Answers
  <2> QED
    BY <2>1, <2>4, <1>3
<1>7. CASE Backfill
  <2>1. put.at = "backfill" /\ conf' = [conf EXCEPT !.anchor = put.machine] /\ put' = Idle
        /\ UNCHANGED <<gen, sess>>
    BY <1>7 DEF Backfill
  <2>2. conf.anchor = None /\ conf.url \in Urls /\ put.machine = Answers(conf.url) /\ Act("legacy")
    BY <1>0, <2>1 DEF PutInv
  <2>3. conf' = [anchor |-> put.machine, url |-> conf.url]
    BY <1>0, <2>1 DEF ConfOK
  <2>4. conf'.anchor = put.machine /\ conf'.url = conf.url /\ put.machine \in Servers
    BY <1>0, <2>2, <2>3 DEF WorldOK, Answers
  <2>5. Configured' = Configured
    BY <2>2, <2>4 DEF Configured, Servers, Urls, None
  <2>6. ConfOK' /\ ConfInv' /\ SessOK'
    BY <1>0, <1>1, <2>1, <2>2, <2>3, <2>4 DEF ConfOK, ConfInv, SessOK, Act, Urls, None
  <2>7. PutInv'
    BY <2>1 DEF PutInv, Idle
  <2>8. GrantInv'
    BY <1>0, <1>1, <2>1, <2>5 DEF GrantInv
  <2> QED
    BY <1>0, <1>1, <1>2, <2>6, <2>7, <2>8 DEF GrantSafe
<1>8. CASE PutEnters \/ PutBegins
  <2>1. UNCHANGED <<conf, gen, sess>>
    BY <1>8 DEF PutEnters, PutBegins
  <2>2. /\ put.at \in {"boundary", "inside"} /\ put'.at \in {"inside", "begun"}
        /\ put'.kind = put.kind /\ put'.url = put.url /\ put'.machine = put.machine
    BY <1>0, <1>8 DEF PutEnters, PutBegins, PutOK, Idle
  <2>3. PutInv'
    BY <1>0, <2>2 DEF PutInv
  <2> QED
    BY <2>1, <2>2, <2>3, <1>3
<1>9. CASE write_settings
  <2>1. put.at = "begun" /\ bound.by = "put" /\ UNCHANGED gen
    BY <1>9 DEF write_settings, _commit
  <2>2. put = [at |-> put.at, kind |-> put.kind, url |-> put.url, machine |-> put.machine]
    BY <1>0, <2>1 DEF PutOK, Idle
  <2>3. \A p \in Signers : sign[p].at \notin {"again", "begun", "staged"}
    BY <1>0, <2>1, SignersAssumption DEF HoldInv, Inside
  <2>4. \/ put.kind = "secret"
        \/ put.kind = "point" /\ put.url \in Urls /\ put.machine \in Servers
        \/ put.kind = "clear" /\ put.url = None /\ put.machine = None
    BY <1>0, <2>1 DEF PutInv
  <2>5. CASE put.kind = "secret"
    <3>1. UNCHANGED <<conf, sess>> /\ put' = [put EXCEPT !.at = "committed"]
      BY <1>9, <2>5 DEF write_settings
    <3>2. put'.at = "committed"
      BY <2>2, <3>1
    <3>3. PutInv'
      BY <3>2 DEF PutInv
    <3> QED
      BY <2>1, <3>1, <3>3, <1>3
  <2>6. CASE put.kind # "secret"
    <3>1. /\ conf' = [url |-> put.url, anchor |-> put.machine]
          /\ \/ put.machine = None /\ UNCHANGED sess /\ put' = [put EXCEPT !.at = "committed"]
             \/ put.machine # None /\ Relocates /\ UNCHANGED sess
             \/ put.machine # None /\ SignEveryoneOut /\ put' = [put EXCEPT !.at = "committed"]
      BY <1>9, <2>6 DEF write_settings
    <3>2. put'.at = "committed"
      BY <1>9, <2>2 DEF write_settings
    <3>3. put' = [put EXCEPT !.at = "committed"] => put'.kind = put.kind
      BY <2>2
    <3>4. conf'.url = put.url /\ conf'.anchor = put.machine /\ ConfOK'
      BY <3>1 DEF ConfOK
    <3>5. ConfInv' /\ PutInv'
      BY <1>1, <2>4, <2>6, <3>2, <3>4 DEF ConfInv, PutInv, Act, Servers, Urls, None
    <3>6. CASE put.machine = None /\ UNCHANGED sess /\ put' = [put EXCEPT !.at = "committed"]
      <4>1. Configured' = None /\ put'.kind = "clear"
        BY <2>4, <2>6, <3>3, <3>4, <3>6 DEF Configured, Servers, None
      <4>2. GrantInv' /\ SessOK'
        BY <1>0, <1>1, <2>1, <2>3, <3>2, <3>6, <4>1 DEF GrantInv, SessOK
      <4> QED
        BY <1>0, <1>1, <1>2, <3>4, <3>5, <4>2 DEF GrantSafe
    <3>7. CASE put.machine # None /\ Relocates /\ UNCHANGED sess
      <4>1. Configured' = Configured
        BY <3>4, <3>7 DEF Configured, Relocates
      <4>2. GrantInv' /\ SessOK'
        BY <1>0, <1>1, <2>1, <3>7, <4>1 DEF GrantInv, SessOK
      <4> QED
        BY <1>0, <1>1, <1>2, <3>4, <3>5, <4>2 DEF GrantSafe
    <3>8. CASE put.machine # None /\ SignEveryoneOut /\ put' = [put EXCEPT !.at = "committed"]
      <4>1. put'.kind = "point"
        BY <2>4, <2>6, <3>3, <3>8
      <4>2. SessOK' /\ \A s \in Sessions : sess'[s].live = FALSE
        BY <1>0, <3>8, EveryoneOut
      <4>3. GrantInv'
        BY <1>0, <1>1, <2>1, <2>3, <3>2, <4>1, <4>2 DEF GrantInv
      <4> QED
        BY <1>0, <1>1, <1>2, <3>4, <3>5, <4>2, <4>3 DEF GrantSafe
    <3> QED
      BY <3>1, <3>6, <3>7, <3>8
  <2> QED
    BY <2>5, <2>6
<1>10. CASE _post_commit_invalidations
  <2>1. put' = Idle /\ UNCHANGED <<conf, sess>>
    BY <1>10 DEF _post_commit_invalidations
  <2>2. PutInv'
    BY <2>1 DEF PutInv, Idle
  <2>3. CASE gen' = gen /\ (put.at # "committed" \/ put.kind \notin {"point", "clear"})
    BY <2>1, <2>2, <2>3, <1>3
  <2>4. CASE gen' = gen + 1
    <3>1. Configured' = Configured
      BY <1>1, <2>1, ConfiguredStays
    <3>2. ConfOK' /\ ConfInv' /\ SessOK'
      BY <1>0, <1>1, <2>1 DEF ConfOK, ConfInv, SessOK, Act
    <3>3. ASSUME NEW p \in Signers
          PROVE  /\ sign'[p] # Idle => sign'[p].gen <= gen'
                 /\ init' /\ sign'[p].at \in {"again", "begun", "staged"} => sign'[p].server = Configured'
                 /\ sign'[p].at = "ordinary" => sign'[p].gen # gen'
      <4>1. sign[p] # Idle => sign[p].gen \in Nat /\ sign[p].gen <= gen
        BY <1>0 DEF SignOK, GrantInv
      <4>2. sign[p].at = "ordinary" => sign[p] # Idle
        BY DEF Idle
      <4>3. gen \in Nat
        BY <1>0 DEF SignOK
      <4> QED
        BY <1>0, <1>1, <2>4, <3>1, <4>1, <4>2, <4>3 DEF GrantInv
    <3>4. GrantInv'
      BY <1>0, <1>1, <2>1, <2>4, <3>1, <3>3 DEF GrantInv
    <3> QED
      BY <1>0, <1>1, <1>2, <2>2, <3>2, <3>4 DEF GrantSafe
  <2> QED
    BY <1>10, <2>3, <2>4 DEF _post_commit_invalidations
<1> QED
  BY <1>4, <1>5, <1>6, <1>7, <1>8, <1>9, <1>10 DEF PutSettings

(* Each action keeps the grants current.                                            *)
LEMMA GrantNext == ASSUME LegacyIsSettled PROVE GrantSafe /\ LockInv /\ [Next]_vars => GrantSafe'
<1> SUFFICES ASSUME GrantSafe, LockInv, [Next]_vars PROVE GrantSafe'
  OBVIOUS
<1>0. SessOK
  BY DEF GrantSafe
<1>1. CASE (LogNext \/ KeyNext) /\ UNCHANGED accessVars
  BY <1>1, LogFrame, KeyFrame, GrantQuiet
<1>2. CASE \E p \in Signers : SignIn(p)
  BY <1>2, GrantSign
<1>3. CASE \E p \in Signers : Capture(p)
  BY <1>3, CaptureFrame, GrantQuiet
<1>4. CASE PutSettings
  BY <1>4, GrantPut
<1>5. CASE SweepShares
  BY <1>0, <1>5, SweepFrame, SweepSessions, GrantQuiet
<1>6. CASE Watchlist
  BY <1>6, WatchFrame, GrantQuiet
<1>7. CASE World \/ Second
  BY <1>7, GrantWorld
<1>8. CASE UNCHANGED vars
  BY <1>8, GrantQuiet DEF vars, secretVars, accessVars
<1> QED
  BY <1>1, <1>2, <1>3, <1>4, <1>5, <1>6, <1>7, <1>8 DEF Next

(* In every state every live session was granted against the server on file, and every *)
(* live recovery session by the key on file or by the rotation that put it there.  For a *)
(* sign-in the code rests on plex_identity_generation: stamped before plex.tv is asked, *)
(* checked in the boundary and again after the ordinary commit, and raised by every repoint *)
(* after its own commit, which also cuts all sessions.  LegacyIsSettled is needed: before an *)
(* anchor is on file the address alone says which server it is.                     *)
THEOREM SessionsCurrent == ASSUME LegacyIsSettled PROVE Spec => []SessionsAreCurrent
<1>1. GrantSafe => GrantsMatchServer
  BY DEF GrantSafe, GrantInv, GrantsMatchServer, Configured
<1>2. Spec => []GrantSafe
  BY GrantInit, GrantNext, LockInvariant, PTL DEF Spec
<1>3. GrantsMatchServer /\ RecoveryFollowsKey => SessionsAreCurrent
  BY DEF SessionsAreCurrent
<1> QED
  BY <1>1, <1>2, <1>3, RecoveryFollows, PTL

(***************************************************************************)
(* The watchlists                                                           *)
(***************************************************************************)
LEMMA WatchNext == WatchOK /\ [Next]_vars =>
  /\ WatchOK'
  /\ watch.rows /\ ~watch'.rows =>
       ~watch.on \/ (conf.url = None /\ conf.anchor = None) \/ watch.at \in {"forget", "sync"}
<1> SUFFICES ASSUME WatchOK, [Next]_vars
             PROVE  /\ WatchOK'
                    /\ watch.rows /\ ~watch'.rows =>
                         \/ ~watch.on
                         \/ conf.url = None /\ conf.anchor = None
                         \/ watch.at \in {"forget", "sync"}
  OBVIOUS
<1> DEFINE w == watch
           Goal == /\ WatchOK'
                   /\ watch.rows /\ ~watch'.rows =>
                         \/ ~watch.on
                         \/ conf.url = None /\ conf.anchor = None
                         \/ watch.at \in {"forget", "sync"}
<1>0. w = [at |-> w.at, on |-> w.on, rows |-> w.rows, machine |-> w.machine, token |-> w.token]
  BY DEF WatchOK
<1>s. ASSUME watch' = watch PROVE Goal
  BY <1>s DEF WatchOK
<1>k. ASSUME NEW at, NEW machine, NEW token,
             watch' = [at |-> at, on |-> w.on, rows |-> w.rows, machine |-> machine, token |-> token]
      PROVE  Goal
  BY <1>k DEF WatchOK
<1>r. ASSUME NEW rows, watch' = Rest(rows),
             w.rows /\ ~rows => \/ ~watch.on
                                \/ conf.url = None /\ conf.anchor = None
                                \/ watch.at \in {"forget", "sync"}
      PROVE  Goal
  <2>1. watch' = [at |-> "idle", on |-> w.on, rows |-> rows, machine |-> w.machine, token |-> w.token]
    BY <1>0, <1>r DEF Rest
  <2> QED
    BY <1>r, <2>1 DEF WatchOK
<1>t. ASSUME NEW at, watch' = [watch EXCEPT !.at = at] PROVE Goal
  <2>1. watch' = [at |-> at, on |-> w.on, rows |-> w.rows, machine |-> w.machine, token |-> w.token]
    BY <1>0, <1>t
  <2> QED
    BY <2>1, <1>k
<1>u. ASSUME watch' = Rest(watch.rows) PROVE Goal
  BY <1>u, <1>r
<1>1. CASE _watchlist_sync_once
  <2>1. CASE watch' = [watch EXCEPT !.at = IF Configured = None THEN "absent" ELSE "resolved",
                                    !.machine = Configured]
    <3> DEFINE at == IF Configured = None THEN "absent" ELSE "resolved"
    <3>1. watch' = [at |-> at, on |-> w.on, rows |-> w.rows, machine |-> Configured, token |-> w.token]
      <4>1. watch' = [watch EXCEPT !.at = at, !.machine = Configured]
        BY <2>1
      <4> HIDE DEF at
      <4> QED
        BY <4>1, <1>0
    <3> HIDE DEF at
    <3> QED
      BY <3>1, <1>k
  <2>2. CASE ~watch.on /\ watch' = Rest(FALSE)
    BY <2>2, <1>r
  <2> QED
    BY <1>1, <1>s, <2>1, <2>2 DEF _watchlist_sync_once
<1>2. CASE Reconfirm
  BY <1>2, <1>t DEF Reconfirm
<1>3. CASE clear_snapshots_unless_settings_present
  <2> DEFINE rows == watch.rows /\ (conf.anchor # None \/ conf.url # None)
  <2>1. watch' = Rest(rows)
    BY <1>3 DEF clear_snapshots_unless_settings_present
  <2>2. watch.rows /\ ~rows => conf.url = None /\ conf.anchor = None
    OBVIOUS
  <2> HIDE DEF rows
  <2> QED
    BY <2>1, <2>2, <1>r
<1>4. CASE list_sync_users
  <2>1. CASE watch' = [watch EXCEPT !.at = "listed", !.token = user["a"].token]
    <3>1. watch' = [at |-> "listed", on |-> w.on, rows |-> w.rows, machine |-> w.machine,
                    token |-> user["a"].token]
      BY <2>1, <1>0
    <3> QED
      BY <3>1, <1>k
  <2> QED
    BY <1>4, <1>u, <2>1 DEF list_sync_users
<1>5. CASE revalidate_sync_user
  BY <1>5, <1>t, <1>u DEF revalidate_sync_user
<1>6. CASE _resolve_watchlist_server_identity
  <2>1. watch' = [watch EXCEPT !.at = "forget"] \/ watch' = [watch EXCEPT !.at = "sync"]
        \/ watch' = Rest(watch.rows)
    BY <1>6 DEF _resolve_watchlist_server_identity, StillConfigured
  <2> QED
    BY <2>1, <1>t, <1>u
<1>7. CASE clear_user_snapshot
  BY <1>7, <1>r DEF clear_user_snapshot
<1>8. CASE sync_user
  BY <1>8, <1>r, <1>u DEF sync_user
<1>9. CASE ~Watchlist
  BY <1>9, <1>s, LogFrame, KeyFrame, SignFrame, CaptureFrame, PutFrame, SweepFrame, WorldFrame
     DEF Next, vars, accessVars
<1> QED
  BY <1>1, <1>2, <1>3, <1>4, <1>5, <1>6, <1>7, <1>8, <1>9 DEF Watchlist

(* No step takes the rows of a watchlist but the sync switched off, no server on file at *)
(* that moment (the condition clear_snapshots_unless_settings_present re-reads in its own *)
(* statement), or plex.tv's refusal of the account in this very tick.               *)
THEOREM WatchlistSafe == Spec => WatchlistSurvives
<1>1. Init => WatchOK
  <2>1. ASSUME NEW on, watch = [at |-> "idle", on |-> on, rows |-> Act("watch"), machine |-> None, token |-> None]
        PROVE  WatchOK
    <3> DEFINE rows == Act("watch")
    <3>1. watch = [at |-> "idle", on |-> on, rows |-> rows, machine |-> None, token |-> None]
      BY <2>1
    <3> HIDE DEF rows
    <3> QED
      BY <3>1 DEF WatchOK
  <2> QED
    BY <2>1 DEF Init
<1>2. WatchOK /\ [Next]_vars => WatchOK'
  BY WatchNext
<1>3. WatchOK /\ [Next]_vars =>
        [(watch.rows /\ ~watch'.rows) =>
           \/ ~watch.on
           \/ conf.url = None /\ conf.anchor = None
           \/ watch.at \in {"forget", "sync"}]_vars
  BY WatchNext
<1> QED
  BY <1>1, <1>2, <1>3, PTL DEF Spec, WatchlistSurvives

(***************************************************************************)
(* The rows of the accounts, and those who read them                          *)
(***************************************************************************)
(* The ciphertext of a row moves with its token, and only then.                          *)
CredentialStep ==
  \A a \in Accounts : user[a].cipher <= user'[a].cipher
                      /\ (user'[a].cipher = user[a].cipher => user'[a].token = user[a].token)

(* The snapshots stay; the tokens and their ciphertexts stay.                       *)
EntsStay == \A a \in Accounts : user'[a].ent = user[a].ent
CredentialsStay == \A a \in Accounts : user'[a].token = user[a].token /\ user'[a].cipher = user[a].cipher

(* Every sign-in is for an account.                                                 *)
LEMMA Owned == ASSUME NEW p PROVE Owner(p) \in Accounts
BY AccountsAssumption DEF Owner

(* One row changes.                                                                 *)
LEMMA UserSet ==
  ASSUME UserOK, NEW a \in Accounts, NEW r, user' = [user EXCEPT ![a] = r],
         UserShape(r), r.ent.at \in Nat, user[a].cipher <= r.cipher,
         r.cipher = user[a].cipher => r.token = user[a].token
  PROVE  UserOK' /\ CredentialStep /\ user'[a] = r /\ \A b \in Accounts \ {a} : user'[b] = user[b]
<1>1. user' = [b \in Accounts |-> user'[b]] /\ user'[a] = r /\ \A b \in Accounts \ {a} : user'[b] = user[b]
  BY DEF UserOK
<1>2. UserOK'
  BY <1>1 DEF UserOK
<1>3. \A b \in Accounts : user[b].cipher \in Nat
  BY DEF UserOK, UserShape
<1>4. CredentialStep
  BY <1>1, <1>3 DEF CredentialStep
<1> QED
  BY <1>1, <1>2, <1>4

(* No row changes.                                                                  *)
LEMMA UserSame == ASSUME UserOK, user' = user PROVE UserOK' /\ CredentialStep /\ CredentialsStay /\ EntsStay
<1>1. \A b \in Accounts : user[b].cipher \in Nat
  BY DEF UserOK, UserShape
<1> QED
  BY <1>1 DEF UserOK, CredentialStep, CredentialsStay, EntsStay

(* A sign-in stores the token it came with.                                          *)
LEMMA SignUser ==
  ASSUME UserOK, NEW p \in Signers, SignIn(p)
  PROVE  /\ UserOK' /\ CredentialStep /\ EntsStay
         /\ \/ user' = user
            \/ /\ user'[Owner(p)].token = sign[p].token
               /\ \A b \in Accounts \ {Owner(p)} : user'[b] = user[b]
               /\ \/ sign[p].at \in {"begun", "staged"} /\ bound.by = p
                  \/ user[Owner(p)].token \in {None, sign[p].token}
         /\ SignCommits(p) => user'[Owner(p)].token = sign[p].token
<1>1. ASSUME NEW admin, _apply_signin_fields(p, admin)
      PROVE  /\ UserOK' /\ CredentialStep /\ EntsStay
             /\ user'[Owner(p)].token = sign[p].token
             /\ \A b \in Accounts \ {Owner(p)} : user'[b] = user[b]
  <2> DEFINE u == user[Owner(p)]
             t == sign[p].token
             c == IF u.token = t THEN u.cipher ELSE u.cipher + 1
             r == [u EXCEPT !.row = TRUE, !.admin = admin, !.token = t, !.cipher = c]
  <2>1. Owner(p) \in Accounts
    BY Owned
  <2>2. user' = [user EXCEPT ![Owner(p)] = r]
    BY <1>1 DEF _apply_signin_fields
  <2>3. UserShape(u) /\ u.ent.at \in Nat
    BY <2>1 DEF UserOK
  <2>4. c \in Nat /\ u.cipher <= c /\ (c = u.cipher => t = u.token)
    BY <2>3 DEF UserShape
  <2>5. r = [u EXCEPT !.row = TRUE, !.admin = admin, !.token = t, !.cipher = c]
    OBVIOUS
  <2> HIDE DEF c, t, r
  <2>6. r = [row |-> TRUE, token |-> t, cipher |-> c, admin |-> admin, ent |-> u.ent, due |-> u.due,
             state |-> u.state]
    BY <2>3, <2>5 DEF UserShape
  <2>7. r.cipher = c /\ r.token = t /\ r.ent = u.ent /\ UserShape(r)
    BY <2>4, <2>6 DEF UserShape
  <2>8. UserOK' /\ CredentialStep /\ user'[Owner(p)] = r /\ \A b \in Accounts \ {Owner(p)} : user'[b] = user[b]
    BY <2>1, <2>2, <2>3, <2>4, <2>7, UserSet
  <2>9. EntsStay
    BY <2>7, <2>8 DEF EntsStay
  <2> QED
    BY <2>7, <2>8, <2>9 DEF t
<1>2. CASE SignCommits(p)
  <2>1. \E admin : _apply_signin_fields(p, admin)
    BY <1>2 DEF SignCommits
  <2>2. sign[p].at = "begun" /\ bound.by = p
    BY <1>2 DEF SignCommits, _commit
  <2> QED
    BY <1>1, <2>1, <2>2
<1>3. CASE _upsert_user(p)
  <2>1. user' = user \/ \E admin : _apply_signin_fields(p, admin)
    BY <1>3 DEF _upsert_user
  <2>2. sign[p].at = "staged" /\ bound.by = p /\ ~SignCommits(p)
    BY <1>3 DEF _upsert_user, SignCommits
  <2> QED
    BY <1>1, <2>1, <2>2, UserSame
<1>4. CASE _claim_or_resume_setup(p)
  <2>1. \/ user' = user
        \/ /\ \E admin : _apply_signin_fields(p, admin)
           /\ user[Owner(p)].token \in {None, sign[p].token}
    BY <1>4 DEF _claim_or_resume_setup, Shape
  <2>2. ~SignCommits(p)
    BY <1>4 DEF _claim_or_resume_setup, SignCommits
  <2> QED
    BY <1>1, <2>1, <2>2, UserSame
<1>5. CASE ~SignCommits(p) /\ ~_upsert_user(p) /\ ~_claim_or_resume_setup(p)
  <2>1. user' = user
    BY <1>5 DEF SignIn, plex_sign_in_endpoint, fetch_resources, Decide, SignEnters,
       _recompute_access_in_lock, SignBegins, SignEnds, SignRechecks
  <2> QED
    BY <1>5, <2>1, UserSame
<1> QED
  BY <1>2, <1>3, <1>4, <1>5

(* A snapshot is stored as it was read, by who held the row's ciphertext when it began.        *)
Stored(a, server, saw, token, cipher, when) ==
  /\ conf.anchor = server /\ user[a].cipher = cipher /\ user[a].ent.at <= when
  /\ user'[a].ent = [server |-> server, saw |-> saw, token |-> token, at |-> when]
  /\ \A b \in Accounts \ {a} : user'[b].ent = user[b].ent

(* store_entitlements writes a snapshot and no credential.                          *)
LEMMA StoreUser ==
  ASSUME UserOK, NEW a \in Accounts, NEW server, NEW saw, NEW token, NEW cipher, NEW when \in Nat,
         store_entitlements(a, server, saw, token, cipher, when)
  PROVE  /\ UserOK' /\ CredentialStep /\ CredentialsStay
         /\ user' = user \/ Stored(a, server, saw, token, cipher, when)
<1>1. CASE user' = user
  BY <1>1, UserSame
<1>2. CASE /\ Supersedes(a, server, cipher, when)
           /\ user' = [user EXCEPT ![a].ent = [server |-> server, saw |-> saw, token |-> token, at |-> when]]
  <2> DEFINE e == [server |-> server, saw |-> saw, token |-> token, at |-> when]
             u == user[a]
             r == [u EXCEPT !.ent = e]
  <2>1. user' = [user EXCEPT ![a] = r] /\ e.at = when
    BY <1>2 DEF UserOK
  <2>2. UserShape(u)
    BY DEF UserOK
  <2>3. r = [u EXCEPT !.ent = e]
    OBVIOUS
  <2> HIDE DEF e, r
  <2>4. UserShape(r) /\ r.ent = e /\ r.cipher = u.cipher /\ r.token = u.token /\ u.cipher \in Nat
    BY <2>2, <2>3 DEF UserShape
  <2>5. UserOK' /\ CredentialStep /\ user'[a] = r /\ \A b \in Accounts \ {a} : user'[b] = user[b]
    <3>1. r.ent.at \in Nat /\ u.cipher <= r.cipher /\ (r.cipher = u.cipher => r.token = u.token)
      BY <2>1, <2>4
    <3> QED
      BY <2>1, <2>4, <3>1, UserSet
  <2>6. Stored(a, server, saw, token, cipher, when)
    BY <1>2, <2>4, <2>5 DEF Stored, Supersedes, e
  <2>7. CredentialsStay
    BY <2>4, <2>5 DEF CredentialsStay
  <2> QED
    BY <2>5, <2>6, <2>7
<1> QED
  BY <1>1, <1>2 DEF store_entitlements

(* The revalidation leaves the credentials alone.  It stores a snapshot, or removes one.          *)
LEMMA SweepUser ==
  ASSUME UserOK, SweepShares, StoreSwept => sweep.when \in Nat
  PROVE  /\ UserOK' /\ CredentialStep /\ CredentialsStay
         /\ \/ EntsStay
            \/ /\ sweep.at = "sure" /\ sweep' = Idle
               /\ Stored("a", sweep.machine, sweep.saw, sweep.token, sweep.cipher, sweep.when)
            \/ /\ user'["a"].ent = NoEnt /\ sweep'.at \notin Pending
               /\ \A b \in Accounts \ {"a"} : user'[b].ent = user[b].ent
<1>a. "a" \in Accounts
  BY AccountsAssumption
<1> DEFINE u == user["a"]
<1>u. UserShape(u) /\ u.ent.at \in Nat /\ u.cipher \in Nat
  BY <1>a DEF UserOK, UserShape
<1>1. CASE StoreSwept
  <2>1. sweep.at = "sure" /\ sweep' = Idle
        /\ store_entitlements("a", sweep.machine, sweep.saw, sweep.token, sweep.cipher, sweep.when)
    BY <1>1 DEF StoreSwept
  <2>2. sweep.when \in Nat
    BY <1>1
  <2>3. /\ UserOK' /\ CredentialStep /\ CredentialsStay
        /\ user' = user \/ Stored("a", sweep.machine, sweep.saw, sweep.token, sweep.cipher, sweep.when)
    BY <1>a, <2>1, <2>2, StoreUser
  <2> QED
    BY <2>1, <2>3, UserSame
<1>2. CASE _due_predicate
  <2> DEFINE r == [u EXCEPT !.due = TRUE]
  <2>1. user' = [user EXCEPT !["a"] = r]
    BY <1>2, <1>a DEF _due_predicate, UserOK
  <2>2. r = [u EXCEPT !.due = TRUE]
    OBVIOUS
  <2> HIDE DEF r
  <2>3. UserShape(r) /\ r.ent = u.ent /\ r.cipher = u.cipher /\ r.token = u.token
    BY <1>u, <2>2 DEF UserShape
  <2>4. UserOK' /\ CredentialStep /\ user'["a"] = r /\ \A b \in Accounts \ {"a"} : user'[b] = user[b]
    <3>1. r.ent.at \in Nat /\ u.cipher <= r.cipher /\ (r.cipher = u.cipher => r.token = u.token)
      BY <1>u, <2>3
    <3> QED
      BY <1>a, <2>1, <2>3, <3>1, UserSet
  <2> QED
    BY <2>3, <2>4 DEF EntsStay, CredentialsStay
<1>3. CASE apply_share_verdict
  <2>1. CASE user' = user
    BY <2>1, UserSame
  <2>2. CASE sweep.verdict # "unknown"
    <3> DEFINE e == IF sweep.verdict = "share_revoked" THEN NoEnt ELSE u.ent
               r == [u EXCEPT !.due = FALSE, !.state = sweep.verdict, !.ent = e]
    <3>1. user' = [user EXCEPT !["a"] = r]
      BY <1>3, <2>2, <1>a DEF apply_share_verdict, UserOK
    <3>2. r = [u EXCEPT !.due = FALSE, !.state = sweep.verdict, !.ent = e]
      OBVIOUS
    <3>3. e \in {NoEnt, u.ent} /\ e.at \in Nat
      BY <1>u DEF NoEnt
    <3> HIDE DEF e, r
    <3>4. UserShape(r) /\ r.ent = e /\ r.cipher = u.cipher /\ r.token = u.token
      BY <1>u, <3>2 DEF UserShape
    <3>5. UserOK' /\ CredentialStep /\ user'["a"] = r /\ \A b \in Accounts \ {"a"} : user'[b] = user[b]
      <4>1. r.ent.at \in Nat /\ u.cipher <= r.cipher /\ (r.cipher = u.cipher => r.token = u.token)
        BY <1>u, <3>3, <3>4
      <4> QED
        BY <1>a, <3>1, <3>4, <4>1, UserSet
    <3>6. e = u.ent => EntsStay
      BY <3>4, <3>5 DEF EntsStay
    <3>7. sweep'.at \notin Pending
      <4>1. CASE sweep' = [sweep EXCEPT !.at = "authorized"]
        <5>1. sweep'.at \in {"authorized", sweep.at}
          BY <4>1
        <5>2. sweep.at = "guarded"
          BY <1>3 DEF apply_share_verdict
        <5> QED
          BY <5>1, <5>2 DEF Pending
      <4>2. CASE sweep' = Idle
        BY <4>2 DEF Pending, Idle
      <4> QED
        BY <1>3, <4>1, <4>2 DEF apply_share_verdict
    <3>8. CredentialsStay
      BY <3>4, <3>5 DEF CredentialsStay
    <3> QED
      BY <1>a, <3>3, <3>4, <3>5, <3>6, <3>7, <3>8
  <2> QED
    BY <1>3, <2>1, <2>2 DEF apply_share_verdict
<1>4. CASE ~StoreSwept /\ ~_due_predicate /\ ~apply_share_verdict
  <2>1. user' = user
    BY <1>4 DEF SweepShares, _select_due_candidates, check_share, ConfirmLoss, GuardVerdict,
       try_entitlement_capture_slot, _attempt_capture, _capture_in_slot
  <2> QED
    BY <2>1, UserSame
<1> QED
  BY <1>1, <1>2, <1>3, <1>4

(* From its selection on, a revalidation keeps what it selected.                         *)
SweepKeeps ==
  /\ sweep # Idle
  /\ sweep'.token = sweep.token /\ sweep'.cipher = sweep.cipher /\ sweep'.machine = sweep.machine
  /\ sweep'.url = sweep.url /\ sweep'.wired = sweep.wired

SweepSelects ==
  /\ sweep'.at = "selected" /\ sweep'.token = user["a"].token /\ sweep'.cipher = user["a"].cipher
  /\ sweep'.machine = Configured /\ sweep'.url = conf.url /\ sweep'.wired = (conf.anchor # None)
  /\ Configured # None /\ Act("sweep") /\ user' = user

SweepAdvances ==
  \/ sweep'.at \in {"checked", "confirmed"}
  \/ /\ sweep'.at = "guarded" /\ user' = user
     /\ user["a"].token = sweep.token /\ sweep'.seen = user["a"].cipher
  \/ sweep.at = "guarded" /\ sweep'.at = "authorized" /\ sweep.wired
  \/ sweep.at = "authorized" /\ sweep'.at = "slot"
  \/ /\ sweep.at = "slot" /\ sweep'.at = "read" /\ user' = user
     /\ sweep'.saw = Answers(sweep.url) /\ sweep'.when = tally.reads + 1
     /\ tally'.reads = tally.reads + 1
  \/ /\ sweep.at = "read" /\ sweep'.at = "sure" /\ Answers(conf.url) = sweep.machine
     /\ sweep'.saw = sweep.saw /\ sweep'.when = sweep.when

(* Every step of the revalidation: it begins, goes on by one stage, or ends.        *)
LEMMA SweepMoves ==
  ASSUME SweepOK, UserOK, TallyOK, SweepShares
  PROVE  /\ SweepOK' /\ TallyOK'
         /\ tally'.reads = tally.reads \/ (sweep'.at = "read" /\ sweep'.when = tally.reads + 1
                                           /\ tally'.reads = tally.reads + 1)
         /\ \/ sweep' = Idle
            \/ SweepSelects
            \/ SweepKeeps /\ SweepAdvances
            \/ sweep' = sweep /\ EntsStay /\ tally' = tally
<1> DEFINE s == sweep
           u == user["a"]
           Goal == /\ SweepOK'
                   /\ \/ sweep' = Idle
                      \/ SweepSelects
                      \/ SweepKeeps /\ SweepAdvances
                      \/ sweep' = sweep /\ EntsStay /\ tally' = tally
<1>u. u.cipher \in Nat
  BY AccountsAssumption DEF UserOK, UserShape
<1>s. s.at # "idle" => s # Idle /\ SweepShape(s) /\ s.cipher \in Nat /\ s.seen \in Nat
  BY DEF SweepOK, Idle
<1>n. SweepShares => (TallyOK' /\ (tally'.reads = tally.reads \/ (sweep.at = "slot" /\ tally' = [tally EXCEPT !.reads = @ + 1]
                      /\ sweep' = [sweep EXCEPT !.at = "read", !.saw = Answers(sweep.url), !.when = tally.reads + 1])))
  <2>1. CASE tally' = tally
    BY <2>1 DEF TallyOK
  <2>2. CASE tally' = [tally EXCEPT !.sweeps = @ + 1]
    BY <2>2 DEF TallyOK
  <2>3. CASE tally' = [tally EXCEPT !.reads = @ + 1]
    <3>1. TallyOK'
      BY <2>3 DEF TallyOK
    <3>2. tally' # tally /\ tally' # [tally EXCEPT !.sweeps = @ + 1]
      BY <2>3 DEF TallyOK
    <3> QED
      BY <2>3, <3>1, <3>2 DEF SweepShares, _select_due_candidates, check_share, ConfirmLoss, GuardVerdict,
         apply_share_verdict, _due_predicate, try_entitlement_capture_slot, _attempt_capture,
         _capture_in_slot, StoreSwept
  <2> QED
    BY <2>1, <2>2, <2>3 DEF SweepShares, _select_due_candidates, check_share, ConfirmLoss, GuardVerdict,
       apply_share_verdict, _due_predicate, try_entitlement_capture_slot, _attempt_capture,
       _capture_in_slot, StoreSwept
<1>i. ASSUME sweep' = Idle PROVE Goal
  BY <1>i DEF SweepOK, Idle
<1>k. ASSUME NEW r, s.at # "idle", sweep' = r, SweepShape(r), r.token = s.token, r.cipher = s.cipher,
             r.machine = s.machine, r.url = s.url, r.wired = s.wired, r.seen \in Nat
      PROVE  SweepOK' /\ SweepKeeps
  BY <1>s, <1>k DEF SweepOK, SweepKeeps
<1>t. ASSUME NEW at, s.at # "idle", sweep' = [sweep EXCEPT !.at = at]
      PROVE  SweepOK' /\ SweepKeeps /\ sweep'.at = at /\ sweep'.saw = s.saw /\ sweep'.when = s.when
  <2> DEFINE r == [s EXCEPT !.at = at]
  <2>1. r = [s EXCEPT !.at = at]
    OBVIOUS
  <2>2. sweep' = r
    BY <1>t
  <2> HIDE DEF r
  <2>3. /\ SweepShape(r) /\ r.token = s.token /\ r.cipher = s.cipher /\ r.machine = s.machine
        /\ r.url = s.url /\ r.wired = s.wired /\ r.seen = s.seen /\ r.at = at /\ r.saw = s.saw /\ r.when = s.when
    BY <2>1, <1>s, <1>t DEF SweepShape
  <2> QED
    BY <1>k, <1>s, <1>t, <2>2, <2>3
<1>1. ASSUME _select_due_candidates PROVE Goal
  <2> DEFINE w == conf.anchor # None
             r == [at |-> "selected", token |-> u.token, cipher |-> u.cipher,
               machine |-> Configured, url |-> conf.url, wired |-> w,
               verdict |-> None, guard |-> 0, seen |-> 0, admin |-> FALSE,
               saw |-> None, when |-> 0]
  <2>1. sweep' = r /\ Configured # None /\ Act("sweep") /\ user' = user
    BY <1>1 DEF _select_due_candidates
  <2> HIDE DEF w
  <2>2. /\ SweepShape(r) /\ r.at = "selected" /\ r.token = u.token /\ r.cipher = u.cipher
        /\ r.machine = Configured /\ r.url = conf.url /\ r.wired = w /\ r.seen = 0
    BY DEF SweepShape
  <2> HIDE DEF r
  <2>3. SweepOK'
    BY <1>u, <2>1, <2>2 DEF SweepOK
  <2>4. SweepSelects
    BY <2>1, <2>2 DEF SweepSelects, w
  <2> QED
    BY <2>3, <2>4
<1>2. ASSUME check_share PROVE Goal
  <2>1. sweep.at = "selected"
    BY <1>2 DEF check_share
  <2>2. \/ sweep' = Idle
        \/ \E v : sweep' = [sweep EXCEPT !.at = "checked", !.verdict = v]
    BY <1>2 DEF check_share
  <2>3. ASSUME NEW v, sweep' = [sweep EXCEPT !.at = "checked", !.verdict = v]
        PROVE  Goal
    <3> DEFINE r == [s EXCEPT !.at = "checked", !.verdict = v]
    <3>1. r = [s EXCEPT !.at = "checked", !.verdict = v] /\ sweep' = r
      BY <2>3
    <3> HIDE DEF r
    <3>2. /\ SweepShape(r) /\ r.token = s.token /\ r.cipher = s.cipher /\ r.machine = s.machine
          /\ r.url = s.url /\ r.wired = s.wired /\ r.seen = s.seen /\ r.at = "checked"
      BY <3>1, <1>s, <2>1 DEF SweepShape
    <3>3. SweepOK' /\ SweepKeeps
      BY <1>k, <1>s, <2>1, <3>1, <3>2
    <3>4. SweepAdvances
      BY <3>1, <3>2 DEF SweepAdvances
    <3> QED
      BY <3>3, <3>4
  <2> QED
    BY <1>i, <2>2, <2>3
<1>3. ASSUME ConfirmLoss PROVE Goal
  <2>1. sweep.at = "checked" /\ (sweep' = Idle \/ sweep' = [sweep EXCEPT !.at = "confirmed"])
    BY <1>3 DEF ConfirmLoss, _anchor_confirmed
  <2> QED
    BY <1>i, <1>t, <2>1 DEF SweepAdvances
<1>4. ASSUME GuardVerdict PROVE Goal
  <2>1. sweep.at # "idle" /\ user' = user
    BY <1>4 DEF GuardVerdict
  <2>2. CASE u.token = s.token
    <3> DEFINE g == tally.clock
               a == u.admin
               r == [s EXCEPT !.at = "guarded", !.guard = g, !.seen = u.cipher, !.admin = a]
    <3>1. r = [s EXCEPT !.at = "guarded", !.guard = g, !.seen = u.cipher, !.admin = a] /\ sweep' = r
      BY <1>4, <2>2 DEF GuardVerdict
    <3> HIDE DEF r, g, a
    <3>2. /\ SweepShape(r) /\ r.token = s.token /\ r.cipher = s.cipher /\ r.machine = s.machine
          /\ r.url = s.url /\ r.wired = s.wired /\ r.seen = u.cipher /\ r.at = "guarded"
      BY <3>1, <1>s, <2>1 DEF SweepShape
    <3>3. SweepOK' /\ SweepKeeps
      BY <1>k, <1>u, <2>1, <3>1, <3>2
    <3>4. SweepAdvances
      BY <2>1, <2>2, <3>1, <3>2 DEF SweepAdvances
    <3> QED
      BY <3>3, <3>4
  <2>3. CASE u.token # s.token
    BY <1>4, <1>i, <2>3 DEF GuardVerdict
  <2> QED
    BY <2>2, <2>3
<1>5. ASSUME apply_share_verdict PROVE Goal
  <2>1. sweep.at = "guarded" /\ (sweep' = Idle \/ (sweep.wired /\ sweep' = [sweep EXCEPT !.at = "authorized"]))
    BY <1>5 DEF apply_share_verdict
  <2> QED
    BY <1>i, <1>t, <2>1 DEF SweepAdvances
<1>6. ASSUME _due_predicate PROVE Goal
  <2>1. sweep' = sweep /\ tally' = tally /\ user' = [user EXCEPT !["a"].due = TRUE]
    BY <1>6 DEF _due_predicate
  <2>2. SweepOK'
    BY <2>1 DEF SweepOK
  <2>3. EntsStay
    <3>1. "a" \in Accounts /\ UserShape(u)
      BY AccountsAssumption DEF UserOK
    <3>2. user'["a"] = [u EXCEPT !.due = TRUE] /\ \A b \in Accounts \ {"a"} : user'[b] = user[b]
      BY <2>1, <3>1 DEF UserOK
    <3>3. [u EXCEPT !.due = TRUE].ent = u.ent
      BY <3>1 DEF UserShape
    <3> QED
      BY <3>2, <3>3 DEF EntsStay
  <2> QED
    BY <2>1, <2>2, <2>3
<1>7. ASSUME try_entitlement_capture_slot PROVE Goal
  <2>1. sweep.at = "authorized" /\ (sweep' = Idle \/ sweep' = [sweep EXCEPT !.at = "slot"])
    BY <1>7 DEF try_entitlement_capture_slot, _anchor_confirmed
  <2> QED
    BY <1>i, <1>t, <2>1 DEF SweepAdvances
<1>8. ASSUME _attempt_capture PROVE Goal
  <2>1. sweep.at = "slot" /\ user' = user
    BY <1>8 DEF _attempt_capture
  <2>2. CASE sweep' = [sweep EXCEPT !.at = "read", !.saw = Answers(sweep.url), !.when = tally.reads + 1]
             /\ tally' = [tally EXCEPT !.reads = @ + 1]
    <3> DEFINE x == Answers(s.url)
               y == tally.reads + 1
               r == [s EXCEPT !.at = "read", !.saw = x, !.when = y]
    <3>1. r = [s EXCEPT !.at = "read", !.saw = x, !.when = y] /\ sweep' = r
      BY <2>2
    <3> HIDE DEF r, x, y
    <3>2. /\ SweepShape(r) /\ r.token = s.token /\ r.cipher = s.cipher /\ r.machine = s.machine
          /\ r.url = s.url /\ r.wired = s.wired /\ r.seen = s.seen /\ r.at = "read" /\ r.saw = x /\ r.when = y
      BY <3>1, <1>s, <2>1 DEF SweepShape
    <3>3. SweepOK' /\ SweepKeeps
      BY <1>k, <1>s, <2>1, <3>1, <3>2
    <3>4. tally'.reads = y
      BY <2>2 DEF TallyOK, y
    <3>5. SweepAdvances
      BY <2>1, <3>1, <3>2, <3>4 DEF SweepAdvances, x, y
    <3> QED
      BY <3>3, <3>5
  <2> QED
    BY <1>8, <1>i, <2>2 DEF _attempt_capture
<1>9. ASSUME _capture_in_slot PROVE Goal
  <2>1. /\ sweep.at = "read"
        /\ sweep' = Idle \/ (_confirm_share_anchor /\ sweep' = [sweep EXCEPT !.at = "sure"])
    BY <1>9 DEF _capture_in_slot, _anchor_confirmed
  <2> QED
    BY <1>i, <1>t, <2>1 DEF SweepAdvances, _confirm_share_anchor
<1>10. ASSUME StoreSwept PROVE Goal
  BY <1>10, <1>i DEF StoreSwept
<1>11. Goal
  BY <1>1, <1>2, <1>3, <1>4, <1>5, <1>6, <1>7, <1>8, <1>9, <1>10 DEF SweepShares
<1>12. sweep.at = "slot" /\ sweep' = [sweep EXCEPT !.at = "read", !.saw = Answers(sweep.url), !.when = tally.reads + 1]
       => sweep'.at = "read" /\ sweep'.when = tally.reads + 1
  <2> SUFFICES ASSUME sweep.at = "slot",
                 sweep' = [sweep EXCEPT !.at = "read", !.saw = Answers(sweep.url), !.when = tally.reads + 1]
               PROVE  sweep'.at = "read" /\ sweep'.when = tally.reads + 1
    OBVIOUS
  <2> DEFINE x == Answers(s.url)
             y == tally.reads + 1
  <2>1. sweep' = [s EXCEPT !.at = "read", !.saw = x, !.when = y]
    OBVIOUS
  <2> HIDE DEF x, y
  <2>2. sweep'.at = "read" /\ sweep'.when = y
    BY <2>1, <1>s DEF SweepShape
  <2> QED
    BY <2>2 DEF y
<1>13. tally' = [tally EXCEPT !.reads = @ + 1] => tally'.reads = tally.reads + 1
  BY DEF TallyOK
<1> QED
  BY <1>n, <1>11, <1>12, <1>13

(* A detached capture keeps the credential it was spawned with.                            *)
CapKeeps(p) == cap'[p].token = cap[p].token /\ cap'[p].cipher = cap[p].cipher

CapAdvances(p) ==
  \/ cap'[p].at = "done"
  \/ cap'[p].at = "anchor" /\ cap'[p].server = conf.anchor /\ Act("capture")
  \/ /\ cap[p].at = "anchor" /\ cap'[p].at = "ready" /\ cap'[p].url = conf.url /\ conf.url # None
     /\ cap'[p].server = cap[p].server /\ cap[p].server # None
  \/ /\ cap[p].at \in {"ready", "waiting"} /\ cap'[p].at \in {"waiting", "slot"}
     /\ cap'[p].server = cap[p].server /\ cap'[p].url = cap[p].url
  \/ /\ cap[p].at = "slot" /\ cap'[p].at = "read"
     /\ cap'[p].server = cap[p].server /\ cap'[p].url = cap[p].url
     /\ cap'[p].saw = Answers(cap[p].url) /\ cap'[p].when = tally.reads + 1
     /\ tally'.reads = tally.reads + 1
  \/ /\ cap[p].at = "read" /\ cap'[p].at = "sure" /\ Answers(cap[p].url) = cap[p].server
     /\ cap'[p].server = cap[p].server /\ cap'[p].url = cap[p].url
     /\ cap'[p].saw = cap[p].saw /\ cap'[p].when = cap[p].when

(* Every step of a capture: it goes on by one stage, or ends.                       *)
LEMMA CapMoves ==
  ASSUME CapOK, TallyOK, NEW p \in Signers, Capture(p)
  PROVE  /\ CapOK' /\ TallyOK' /\ (\A q \in Signers \ {p} : cap'[q] = cap[q])
         /\ cap[p] # Idle /\ CapKeeps(p) /\ CapAdvances(p)
         /\ tally'.reads = tally.reads \/ (cap'[p].at = "read" /\ tally'.reads = tally.reads + 1)
<1> DEFINE s == cap[p]
           Goal == /\ CapOK' /\ TallyOK' /\ (\A q \in Signers \ {p} : cap'[q] = cap[q])
                   /\ cap[p] # Idle /\ CapKeeps(p) /\ CapAdvances(p)
                   /\ tally'.reads = tally.reads \/ (cap'[p].at = "read" /\ tally'.reads = tally.reads + 1)
<1>s. s.at # "idle" => s # Idle /\ CapShape(s) /\ s.cipher \in Nat
  BY DEF CapOK, Idle
<1>n. tally' = tally => TallyOK' /\ tally'.reads = tally.reads
  BY DEF TallyOK
<1>k. ASSUME NEW r, s.at # "idle", cap' = [cap EXCEPT ![p] = r], CapShape(r),
             r.token = s.token, r.cipher = s.cipher
      PROVE  /\ CapOK' /\ (\A q \in Signers \ {p} : cap'[q] = cap[q])
             /\ cap[p] # Idle /\ CapKeeps(p) /\ cap'[p] = r
  <2>1. cap' = [q \in Signers |-> cap'[q]] /\ cap'[p] = r /\ \A q \in Signers \ {p} : cap'[q] = cap[q]
    BY <1>k DEF CapOK
  <2>2. CapOK'
    BY <1>s, <1>k, <2>1 DEF CapOK
  <2> QED
    BY <1>s, <1>k, <2>1, <2>2 DEF CapKeeps
<1>t. ASSUME NEW at, s.at # "idle", cap' = [cap EXCEPT ![p].at = at]
      PROVE  /\ CapOK' /\ (\A q \in Signers \ {p} : cap'[q] = cap[q])
             /\ cap[p] # Idle /\ CapKeeps(p) /\ cap'[p].at = at
             /\ cap'[p].server = s.server /\ cap'[p].url = s.url /\ cap'[p].saw = s.saw
             /\ cap'[p].when = s.when
  <2> DEFINE r == [s EXCEPT !.at = at]
  <2>1. r = [s EXCEPT !.at = at] /\ cap' = [cap EXCEPT ![p] = r]
    BY <1>t DEF CapOK
  <2> HIDE DEF r
  <2>2. /\ CapShape(r) /\ r.token = s.token /\ r.cipher = s.cipher /\ r.at = at
        /\ r.server = s.server /\ r.url = s.url /\ r.saw = s.saw /\ r.when = s.when
    BY <2>1, <1>s, <1>t DEF CapShape
  <2>3. /\ CapOK' /\ (\A q \in Signers \ {p} : cap'[q] = cap[q])
        /\ cap[p] # Idle /\ CapKeeps(p) /\ cap'[p] = r
    BY <1>k, <1>t, <2>1, <2>2
  <2> QED
    BY <2>2, <2>3
<1>1. ASSUME _capture_entitlements_after_sign_in(p) PROVE Goal
  <2>0. TallyOK' /\ tally'.reads = tally.reads
    BY <1>1, <1>n DEF _capture_entitlements_after_sign_in
  <2>1. CASE /\ s.at = "spawned" /\ Act("capture")
             /\ cap' = [cap EXCEPT ![p].at = "anchor", ![p].server = conf.anchor]
    <3> DEFINE x == conf.anchor
               r == [s EXCEPT !.at = "anchor", !.server = x]
    <3>1. r = [s EXCEPT !.at = "anchor", !.server = x] /\ cap' = [cap EXCEPT ![p] = r]
      BY <2>1 DEF CapOK
    <3> HIDE DEF r, x
    <3>2. /\ CapShape(r) /\ r.token = s.token /\ r.cipher = s.cipher /\ r.at = "anchor" /\ r.server = x
      BY <3>1, <1>s, <2>1 DEF CapShape
    <3>3. /\ CapOK' /\ (\A q \in Signers \ {p} : cap'[q] = cap[q])
          /\ cap[p] # Idle /\ CapKeeps(p) /\ cap'[p] = r
      BY <1>k, <2>1, <3>1, <3>2
    <3>4. CapAdvances(p)
      BY <2>1, <3>2, <3>3 DEF CapAdvances, x
    <3> QED
      BY <2>0, <3>3, <3>4
  <2>2. CASE /\ s.at = "anchor"
             /\ cap' = [cap EXCEPT ![p].url = conf.url,
                  ![p].at = IF cap[p].server = None \/ conf.url = None THEN "done" ELSE "ready"]
    <3> DEFINE x == conf.url
               at == IF s.server = None \/ x = None THEN "done" ELSE "ready"
               r == [s EXCEPT !.url = x, !.at = at]
    <3>1. r = [s EXCEPT !.url = x, !.at = at] /\ cap' = [cap EXCEPT ![p] = r]
      BY <2>2 DEF CapOK
    <3>2. at = "done" \/ (at = "ready" /\ s.server # None /\ x # None)
      OBVIOUS
    <3> HIDE DEF r, x, at
    <3>3. /\ CapShape(r) /\ r.token = s.token /\ r.cipher = s.cipher /\ r.at = at /\ r.url = x
          /\ r.server = s.server
      BY <3>1, <1>s, <2>2 DEF CapShape
    <3>4. /\ CapOK' /\ (\A q \in Signers \ {p} : cap'[q] = cap[q])
          /\ cap[p] # Idle /\ CapKeeps(p) /\ cap'[p] = r
      BY <1>k, <2>2, <3>1, <3>3
    <3>5. CapAdvances(p)
      BY <2>2, <3>2, <3>3, <3>4 DEF CapAdvances, x
    <3> QED
      BY <2>0, <3>4, <3>5
  <2> QED
    BY <1>1, <2>1, <2>2 DEF _capture_entitlements_after_sign_in
<1>2. ASSUME entitlement_capture_slot(p) PROVE Goal
  <2>0. TallyOK' /\ tally'.reads = tally.reads
    BY <1>2, <1>n DEF entitlement_capture_slot
  <2>1. \/ s.at = "ready" /\ cap' = [cap EXCEPT ![p].at = "waiting"]
        \/ s.at = "waiting" /\ cap' = [cap EXCEPT ![p].at = "slot"]
    BY <1>2 DEF entitlement_capture_slot
  <2> QED
    BY <1>t, <2>0, <2>1 DEF CapAdvances
<1>3. ASSUME capture_entitlements(p) PROVE Goal
  <2>0. s.at = "slot"
    BY <1>3 DEF capture_entitlements
  <2>1. CASE /\ cap' = [cap EXCEPT ![p].at = "read", ![p].saw = Answers(cap[p].url),
                                   ![p].when = tally.reads + 1]
             /\ tally' = [tally EXCEPT !.reads = @ + 1]
    <3> DEFINE x == Answers(s.url)
               y == tally.reads + 1
               r == [s EXCEPT !.at = "read", !.saw = x, !.when = y]
    <3>1. r = [s EXCEPT !.at = "read", !.saw = x, !.when = y] /\ cap' = [cap EXCEPT ![p] = r]
      BY <2>1 DEF CapOK
    <3> HIDE DEF r, x, y
    <3>2. /\ CapShape(r) /\ r.token = s.token /\ r.cipher = s.cipher /\ r.at = "read" /\ r.url = s.url
          /\ r.server = s.server /\ r.saw = x /\ r.when = y
      BY <3>1, <1>s, <2>0 DEF CapShape
    <3>3. /\ CapOK' /\ (\A q \in Signers \ {p} : cap'[q] = cap[q])
          /\ cap[p] # Idle /\ CapKeeps(p) /\ cap'[p] = r
      BY <1>k, <2>0, <3>1, <3>2
    <3>4. TallyOK' /\ tally'.reads = y
      BY <2>1 DEF TallyOK, y
    <3>5. CapAdvances(p)
      BY <2>0, <3>2, <3>3, <3>4 DEF CapAdvances, x, y
    <3> QED
      BY <3>2, <3>3, <3>4, <3>5 DEF y
  <2>2. CASE cap' = [cap EXCEPT ![p].at = "done"] /\ tally' = tally
    BY <1>t, <1>n, <2>0, <2>2 DEF CapAdvances
  <2> QED
    BY <1>3, <2>1, <2>2 DEF capture_entitlements
<1>4. ASSUME fetch_server_identity(p) PROVE Goal
  <2>0. s.at = "read" /\ TallyOK' /\ tally'.reads = tally.reads
    BY <1>4, <1>n DEF fetch_server_identity
  <2>1. CASE Answers(s.url) = s.server
    BY <1>4, <1>t, <2>0, <2>1 DEF fetch_server_identity, CapAdvances
  <2>2. CASE Answers(s.url) # s.server
    BY <1>4, <1>t, <2>0, <2>2 DEF fetch_server_identity, CapAdvances
  <2> QED
    BY <2>1, <2>2
<1>5. ASSUME StoreSigned(p) PROVE Goal
  <2>0. s.at = "sure" /\ TallyOK' /\ tally'.reads = tally.reads /\ cap' = [cap EXCEPT ![p].at = "done"]
    BY <1>5, <1>n DEF StoreSigned
  <2> QED
    BY <1>t, <2>0 DEF CapAdvances
<1> QED
  BY <1>1, <1>2, <1>3, <1>4, <1>5 DEF Capture

(* A capture writes its owner's snapshot, with the time of its read.                *)
LEMMA CapUser ==
  ASSUME UserOK, NEW p \in Signers, Capture(p), StoreSigned(p) => cap[p].when \in Nat
  PROVE  /\ UserOK' /\ CredentialStep /\ CredentialsStay
         /\ \/ EntsStay
            \/ /\ cap[p].at = "sure" /\ cap'[p].at # "read" /\ UNCHANGED tally
               /\ Stored(Owner(p), cap[p].server, cap[p].saw, cap[p].token, cap[p].cipher, cap[p].when)
<1>1. CASE StoreSigned(p)
  <2>1. /\ cap[p].at = "sure" /\ cap' = [cap EXCEPT ![p].at = "done"] /\ UNCHANGED tally
        /\ store_entitlements(Owner(p), cap[p].server, cap[p].saw, cap[p].token, cap[p].cipher, cap[p].when)
    BY <1>1 DEF StoreSigned
  <2>2. cap[p].when \in Nat /\ Owner(p) \in Accounts
    BY <1>1, Owned
  <2>3. /\ UserOK' /\ CredentialStep /\ CredentialsStay
        /\ user' = user \/ Stored(Owner(p), cap[p].server, cap[p].saw, cap[p].token, cap[p].cipher, cap[p].when)
    BY <2>1, <2>2, StoreUser
  <2>4. cap'[p].at \in {"done", cap[p].at}
    BY <2>1
  <2> QED
    BY <2>1, <2>3, <2>4, UserSame
<1>2. CASE ~StoreSigned(p)
  <2>1. user' = user
    BY <1>2 DEF Capture, _capture_entitlements_after_sign_in, entitlement_capture_slot, capture_entitlements,
       fetch_server_identity
  <2> QED
    BY <2>1, UserSame
<1> QED
  BY <1>1, <1>2

(***************************************************************************)
(* Nobody acts for a credential that is no longer on file, nor on an old reading          *)
(***************************************************************************)

(* Rows and readers; nobody reads with a token the row never had.                   *)
ReadersOK == UserOK /\ SweepOK /\ CapOK /\ TallyOK
TokenSafe == ReadersOK /\ GuardInv /\ TokenInv

(* A reader behind a row stays behind it, whatever the row becomes.                 *)
LEMMA StillBehind ==
  ASSUME UserOK, UserOK', CredentialStep, NEW a \in Accounts, NEW r, r.cipher \in Nat, Behind(r, a)
  PROVE  /\ r.cipher <= user'[a].cipher
         /\ r.cipher = user'[a].cipher => r.token = user'[a].token
<1>1. user[a].cipher \in Nat /\ user'[a].cipher \in Nat
  BY DEF UserOK, UserShape
<1> QED
  BY <1>1 DEF CredentialStep, Behind

(* A second look stays good for as long as the ciphertext it saw.                   *)
LEMMA GuardStays ==
  ASSUME UserOK, UserOK', CredentialStep, SweepOK, GuardInv, sweep' = sweep
  PROVE  GuardInv'
<1>1. "a" \in Accounts /\ user["a"].cipher \in Nat /\ user'["a"].cipher \in Nat
  BY AccountsAssumption DEF UserOK, UserShape
<1>2. sweep.at = "guarded" => sweep.seen \in Nat
  BY DEF SweepOK, Idle
<1> QED
  BY <1>1, <1>2 DEF GuardInv, CredentialStep

(* Whose sign-in it is does not change.                                             *)
LEMMA OwnerStays == ASSUME UNCHANGED <<init, cast>>, NEW p PROVE Owner(p)' = Owner(p)
BY DEF Owner, Act

(* A step that touches no reader.                                               *)
LEMMA TokenQuiet ==
  ASSUME TokenSafe, UserOK', CredentialStep, TallyOK', UNCHANGED <<sweep, cap, sign, init, cast>>,
         \A p \in Signers : sign[p].at = "committed" => user'[Owner(p)].token = user[Owner(p)].token
  PROVE  TokenSafe'
<1>0. UserOK /\ SweepOK /\ CapOK /\ TallyOK /\ GuardInv /\ TokenInv
  BY DEF TokenSafe, ReadersOK
<1>1. SweepOK' /\ CapOK'
  BY <1>0 DEF SweepOK, CapOK
<1>2. GuardInv'
  BY <1>0, GuardStays
<1>3. sweep' # Idle => Behind(sweep, "a")'
  <2> SUFFICES ASSUME sweep # Idle PROVE Behind(sweep, "a")'
    OBVIOUS
  <2>1. "a" \in Accounts /\ sweep.cipher \in Nat /\ Behind(sweep, "a")
    BY <1>0, AccountsAssumption DEF SweepOK, TokenInv
  <2>2. /\ sweep.cipher <= user'["a"].cipher
        /\ sweep.cipher = user'["a"].cipher => sweep.token = user'["a"].token
    BY <1>0, <2>1, StillBehind
  <2> QED
    BY <2>2 DEF Behind
<1>4. ASSUME NEW p \in Signers
      PROVE  /\ cap'[p] # Idle => Behind(cap[p], Owner(p))'
             /\ sign'[p].at = "committed" => user'[Owner(p)'].token = sign'[p].token
  <2>1. Owner(p)' = Owner(p) /\ Owner(p) \in Accounts
    BY OwnerStays, Owned
  <2>2. cap[p] # Idle => /\ cap[p].cipher <= user'[Owner(p)].cipher
                         /\ cap[p].cipher = user'[Owner(p)].cipher => cap[p].token = user'[Owner(p)].token
    <3>1. cap[p] # Idle => cap[p].cipher \in Nat /\ Behind(cap[p], Owner(p))
      BY <1>0 DEF CapOK, TokenInv
    <3> QED
      BY <1>0, <2>1, <3>1, StillBehind
  <2> QED
    BY <1>0, <2>1, <2>2 DEF Behind, TokenInv
<1> QED
  BY <1>0, <1>1, <1>2, <1>3, <1>4 DEF TokenSafe, ReadersOK, TokenInv

(* A capture is spawned with the token its sign-in stored and the ciphertext of that row.        *)
LEMMA SignCap ==
  ASSUME TokenSafe, NEW p \in Signers, SignIn(p)
  PROVE  \/ cap' = cap
         \/ /\ CapOK' /\ (\A q \in Signers \ {p} : cap'[q] = cap[q])
            /\ cap'[p].at = "spawned" /\ cap'[p].cipher = user'[Owner(p)].cipher
            /\ cap'[p].token = user'[Owner(p)].token
<1>0. UserOK /\ CapOK /\ TokenInv
  BY DEF TokenSafe, ReadersOK
<1>u. UserOK'
  BY <1>0, SignUser
<1>1. ASSUME NEW c, Spawn(p, c), c = user'[Owner(p)].cipher, sign[p].token = user'[Owner(p)].token
      PROVE  /\ CapOK' /\ (\A q \in Signers \ {p} : cap'[q] = cap[q])
             /\ cap'[p].at = "spawned" /\ cap'[p].cipher = user'[Owner(p)].cipher
             /\ cap'[p].token = user'[Owner(p)].token
  <2>0. c \in Nat
    BY <1>u, <1>1, Owned DEF UserOK, UserShape
  <2> DEFINE t == sign[p].token
             r == [at |-> "spawned", token |-> t, cipher |-> c, server |-> None, url |-> None,
                   saw |-> None, when |-> 0]
  <2>1. cap' = [cap EXCEPT ![p] = r]
    BY <1>1 DEF Spawn
  <2>2. CapShape(r) /\ r.at = "spawned" /\ r.cipher = c /\ r.token = t
    BY DEF CapShape
  <2> HIDE DEF r
  <2>3. cap' = [q \in Signers |-> cap'[q]] /\ cap'[p] = r /\ \A q \in Signers \ {p} : cap'[q] = cap[q]
    BY <1>0, <2>1 DEF CapOK
  <2>4. CapOK'
    BY <1>0, <2>0, <2>2, <2>3 DEF CapOK
  <2> QED
    BY <1>1, <2>2, <2>3, <2>4
<1>2. ASSUME NEW admin, _apply_signin_fields(p, admin)
      PROVE  user'[Owner(p)].token = sign[p].token
  <2> DEFINE u == user[Owner(p)]
             c == IF u.token = sign[p].token THEN u.cipher ELSE u.cipher + 1
             t == sign[p].token
             r == [u EXCEPT !.row = TRUE, !.admin = admin, !.token = t, !.cipher = c]
  <2>1. Owner(p) \in Accounts /\ UserShape(u)
    BY <1>0, Owned DEF UserOK
  <2>2. user'[Owner(p)] = r
    BY <1>0, <1>2, <2>1 DEF _apply_signin_fields, UserOK
  <2>3. r = [u EXCEPT !.row = TRUE, !.admin = admin, !.token = t, !.cipher = c]
    OBVIOUS
  <2> HIDE DEF r, c, t
  <2>4. r.token = t
    BY <2>1, <2>3 DEF UserShape
  <2> QED
    BY <2>2, <2>4 DEF t
<1>3. CASE SignEnds(p)
  <2>1. cap' = cap \/ (sign[p].at = "committed" /\ Spawn(p, user[Owner(p)].cipher) /\ user' = user)
    BY <1>3 DEF SignEnds
  <2>2. sign[p].at = "committed" => user[Owner(p)].token = sign[p].token
    BY <1>0 DEF TokenInv
  <2> QED
    BY <1>1, <2>1, <2>2
<1>4. CASE _upsert_user(p)
  BY <1>1, <1>2, <1>4 DEF _upsert_user
<1>5. CASE _claim_or_resume_setup(p)
  BY <1>1, <1>2, <1>5 DEF _claim_or_resume_setup
<1>6. CASE ~SignEnds(p) /\ ~_upsert_user(p) /\ ~_claim_or_resume_setup(p)
  BY <1>6 DEF SignIn, plex_sign_in_endpoint, fetch_resources, Decide, SignEnters,
     _recompute_access_in_lock, SignBegins, SignCommits, SignRechecks
<1> QED
  BY <1>3, <1>4, <1>5, <1>6

(* A sign-in that stores a token turns every reader of the old one into a late one. *)
LEMMA TokenSign ==
  ASSUME TokenSafe, LockInv, NEW p \in Signers, SignIn(p)
  PROVE  TokenSafe'
<1>0. UserOK /\ SweepOK /\ CapOK /\ TallyOK /\ GuardInv /\ TokenInv /\ SignOK /\ HoldInv
  BY DEF TokenSafe, ReadersOK, LockInv
<1>1. UNCHANGED <<sweep, tally, init, cast>>
  BY SignFrame
<1>2. /\ UserOK' /\ CredentialStep
      /\ \/ user' = user
         \/ /\ user'[Owner(p)].token = sign[p].token
            /\ \A b \in Accounts \ {Owner(p)} : user'[b] = user[b]
            /\ \/ sign[p].at \in {"begun", "staged"} /\ bound.by = p
               \/ user[Owner(p)].token \in {None, sign[p].token}
      /\ SignCommits(p) => user'[Owner(p)].token = sign[p].token
  BY <1>0, SignUser
<1>3. SweepOK' /\ TallyOK' /\ GuardInv'
  BY <1>0, <1>1, <1>2, GuardStays DEF SweepOK, TallyOK
<1>4. \/ cap' = cap
      \/ /\ CapOK' /\ (\A q \in Signers \ {p} : cap'[q] = cap[q])
         /\ cap'[p].at = "spawned" /\ cap'[p].cipher = user'[Owner(p)].cipher
         /\ cap'[p].token = user'[Owner(p)].token
  BY SignCap
<1>5. CapOK'
  BY <1>0, <1>4 DEF CapOK
<1>6. sweep' # Idle => Behind(sweep, "a")'
  <2> SUFFICES ASSUME sweep # Idle PROVE Behind(sweep, "a")'
    BY <1>1
  <2>1. "a" \in Accounts /\ sweep.cipher \in Nat /\ Behind(sweep, "a")
    BY <1>0, AccountsAssumption DEF SweepOK, TokenInv
  <2>2. /\ sweep.cipher <= user'["a"].cipher
        /\ sweep.cipher = user'["a"].cipher => sweep.token = user'["a"].token
    BY <1>0, <1>2, <2>1, StillBehind
  <2> QED
    BY <1>1, <2>2 DEF Behind
<1>7. ASSUME NEW q \in Signers
      PROVE  cap'[q] # Idle => Behind(cap[q], Owner(q))'
  <2>1. Owner(q)' = Owner(q) /\ Owner(q) \in Accounts
    BY <1>1, OwnerStays, Owned
  <2>2. CASE cap'[q] = cap[q]
    <3>1. cap[q] # Idle => cap[q].cipher \in Nat /\ Behind(cap[q], Owner(q))
      BY <1>0 DEF CapOK, TokenInv
    <3>2. cap[q] # Idle => /\ cap[q].cipher <= user'[Owner(q)].cipher
                           /\ cap[q].cipher = user'[Owner(q)].cipher => cap[q].token = user'[Owner(q)].token
      BY <1>0, <1>2, <2>1, <3>1, StillBehind
    <3> QED
      BY <2>1, <2>2, <3>2 DEF Behind
  <2>3. CASE cap'[q] # cap[q]
    <3>1. q = p /\ cap'[p].cipher = user'[Owner(p)].cipher /\ cap'[p].token = user'[Owner(p)].token
      BY <1>4, <2>3
    <3>2. user'[Owner(p)].cipher \in Nat
      BY <1>2, <2>1, <3>1 DEF UserOK, UserShape
    <3> QED
      BY <2>1, <3>1, <3>2 DEF Behind
  <2> QED
    BY <2>2, <2>3
<1>8. ASSUME NEW q \in Signers
      PROVE  sign'[q].at = "committed" => user'[Owner(q)'].token = sign'[q].token
  <2>1. Owner(q)' = Owner(q) /\ Owner(q) \in Accounts
    BY <1>1, OwnerStays, Owned
  <2>2. CASE q = p
    <3>1. sign'[p].at = "committed" => SignCommits(p)
      BY <1>0, SignStages DEF SignIn
    <3>2. SignCommits(p) => sign'[p].token = sign[p].token
      <4>1. SignCommits(p) => sign[p].at # "idle"
        BY DEF SignCommits
      <4> QED
        BY <1>0, <4>1, SignProgress
    <3> QED
      BY <1>2, <2>1, <2>2, <3>1, <3>2
  <2>3. CASE q # p
    <3>1. sign'[q] = sign[q]
      BY <1>0, <2>3, SignProgress
    <3>2. sign[q].at = "committed" =>
            user[Owner(q)].token = sign[q].token /\ sign[q].token \in Tokens /\ bound.by = q
      BY <1>0 DEF TokenInv, SignOK, HoldInv, Inside, Idle
    <3>3. None \notin Tokens
      BY DEF None, Tokens
    <3>4. CASE Owner(q) = Owner(p)
      BY <1>2, <2>1, <2>3, <3>1, <3>2, <3>3, <3>4
    <3>5. CASE Owner(q) # Owner(p)
      BY <1>2, <2>1, <3>1, <3>2, <3>5
    <3> QED
      BY <3>4, <3>5
  <2> QED
    BY <2>2, <2>3
<1> QED
  BY <1>2, <1>3, <1>5, <1>6, <1>7, <1>8 DEF TokenSafe, ReadersOK, TokenInv

(* A revalidation acts for the row it selected; what it looks at again it holds to.           *)
LEMMA TokenSweep ==
  ASSUME TokenSafe, WhenInv, SweepShares
  PROVE  TokenSafe'
<1>0. UserOK /\ SweepOK /\ CapOK /\ TallyOK /\ GuardInv /\ TokenInv
  BY DEF TokenSafe, ReadersOK
<1>1. UNCHANGED <<sign, cap, init, cast>>
  BY SweepFrame
<1>2. StoreSwept => sweep.when \in Nat
  BY DEF StoreSwept, WhenInv, Pending
<1>3. UserOK' /\ CredentialStep /\ CredentialsStay
  BY <1>0, <1>2, SweepUser
<1>4. /\ SweepOK' /\ TallyOK'
      /\ \/ sweep' = Idle
         \/ SweepSelects
         \/ SweepKeeps /\ SweepAdvances
         \/ sweep' = sweep /\ EntsStay /\ tally' = tally
  BY <1>0, SweepMoves
<1>a. "a" \in Accounts /\ user["a"].cipher \in Nat
      /\ user'["a"].cipher = user["a"].cipher /\ user'["a"].token = user["a"].token
  BY <1>0, <1>3, AccountsAssumption DEF UserOK, UserShape, CredentialsStay
<1>5. CapOK'
  BY <1>0, <1>1 DEF CapOK
<1>6. \A p \in Signers :
        /\ cap'[p] # Idle => Behind(cap[p], Owner(p))'
        /\ sign'[p].at = "committed" => user'[Owner(p)'].token = sign'[p].token
  <2> SUFFICES ASSUME NEW p \in Signers
               PROVE  /\ cap'[p] # Idle => Behind(cap[p], Owner(p))'
                      /\ sign'[p].at = "committed" => user'[Owner(p)'].token = sign'[p].token
    OBVIOUS
  <2>1. Owner(p)' = Owner(p) /\ Owner(p) \in Accounts
    BY <1>1, OwnerStays, Owned
  <2>2. /\ user'[Owner(p)].cipher = user[Owner(p)].cipher
        /\ user'[Owner(p)].token = user[Owner(p)].token
    BY <1>3, <2>1 DEF CredentialsStay
  <2> QED
    BY <1>0, <1>1, <2>1, <2>2 DEF TokenInv, Behind
<1>7. (sweep' # Idle => Behind(sweep, "a")') /\ GuardInv'
  <2>1. CASE sweep' = Idle
    BY <2>1 DEF GuardInv, Idle
  <2>2. CASE SweepSelects
    <3>1. Behind(sweep, "a")'
      BY <1>a, <2>2 DEF SweepSelects, Behind
    <3> QED
      BY <2>2, <3>1 DEF SweepSelects, GuardInv
  <2>3. CASE SweepKeeps /\ SweepAdvances
    <3>1. Behind(sweep, "a")'
      BY <1>0, <1>a, <2>3 DEF SweepKeeps, Behind, TokenInv
    <3>2. sweep'.at = "guarded" => sweep'.seen = user["a"].cipher /\ user["a"].token = sweep.token
      BY <2>3 DEF SweepAdvances
    <3>3. GuardInv'
      BY <1>a, <2>3, <3>2 DEF GuardInv, SweepKeeps
    <3> QED
      BY <3>1, <3>3
  <2>4. CASE sweep' = sweep
    <3>1. GuardInv'
      BY <1>0, <1>3, <2>4, GuardStays
    <3>2. sweep' # Idle => Behind(sweep, "a")'
      BY <1>0, <1>a, <2>4 DEF Behind, TokenInv
    <3> QED
      BY <3>1, <3>2
  <2> QED
    BY <1>4, <2>1, <2>2, <2>3, <2>4
<1> QED
  BY <1>3, <1>4, <1>5, <1>6, <1>7 DEF TokenSafe, ReadersOK, TokenInv

(* A capture stores under the ciphertext it was spawned with, or not at all.                *)
LEMMA TokenCapture ==
  ASSUME TokenSafe, WhenInv, NEW p \in Signers, Capture(p)
  PROVE  TokenSafe'
<1>0. UserOK /\ SweepOK /\ CapOK /\ TallyOK /\ GuardInv /\ TokenInv
  BY DEF TokenSafe, ReadersOK
<1>1. UNCHANGED <<sign, sweep, init, cast>>
  BY CaptureFrame
<1>2. StoreSigned(p) => cap[p].when \in Nat
  BY DEF StoreSigned, WhenInv, Pending
<1>3. UserOK' /\ CredentialStep /\ CredentialsStay
  BY <1>0, <1>2, CapUser
<1>4. /\ CapOK' /\ TallyOK' /\ (\A q \in Signers \ {p} : cap'[q] = cap[q])
      /\ cap[p] # Idle /\ CapKeeps(p)
  BY <1>0, CapMoves
<1>5. SweepOK' /\ GuardInv'
  BY <1>0, <1>1, <1>3, GuardStays DEF SweepOK
<1>6. sweep' # Idle => Behind(sweep, "a")'
  <2>1. user'["a"].cipher = user["a"].cipher /\ user'["a"].token = user["a"].token
    BY <1>3, AccountsAssumption DEF CredentialsStay
  <2> QED
    BY <1>0, <1>1, <2>1 DEF Behind, TokenInv
<1>7. \A q \in Signers :
        /\ cap'[q] # Idle => Behind(cap[q], Owner(q))'
        /\ sign'[q].at = "committed" => user'[Owner(q)'].token = sign'[q].token
  <2> SUFFICES ASSUME NEW q \in Signers
               PROVE  /\ cap'[q] # Idle => Behind(cap[q], Owner(q))'
                      /\ sign'[q].at = "committed" => user'[Owner(q)'].token = sign'[q].token
    OBVIOUS
  <2>1. Owner(q)' = Owner(q) /\ Owner(q) \in Accounts
    BY <1>1, OwnerStays, Owned
  <2>2. /\ user'[Owner(q)].cipher = user[Owner(q)].cipher
        /\ user'[Owner(q)].token = user[Owner(q)].token
    BY <1>3, <2>1 DEF CredentialsStay
  <2>3. cap'[q] # Idle => cap[q] # Idle /\ cap'[q].token = cap[q].token /\ cap'[q].cipher = cap[q].cipher
    BY <1>4 DEF CapKeeps
  <2> QED
    BY <1>0, <1>1, <2>1, <2>2, <2>3 DEF TokenInv, Behind
<1> QED
  BY <1>3, <1>4, <1>5, <1>6, <1>7 DEF TokenSafe, ReadersOK, TokenInv

(* Nobody starts to read: what is stored meanwhile bears the time of a reader that is done.      *)
PendingShrinks ==
  /\ sweep'.at \in Pending => sweep.at \in Pending /\ sweep'.when = sweep.when
  /\ \A p \in Signers : cap'[p].at \in Pending => cap[p].at \in Pending /\ cap'[p].when = cap[p].when

(* What a finished reader stores is no later than the last read, and nobody else's time. *)
LEMMA WhenShrinks ==
  ASSUME WhenInv, tally'.reads = tally.reads, PendingShrinks, NEW w \in Nat, w <= tally.reads,
         \A a \in Accounts : user'[a].ent.at \in {user[a].ent.at, w},
         sweep'.at \in Pending => sweep'.when # w,
         \A p \in Signers : cap'[p].at \in Pending => cap'[p].when # w
  PROVE  WhenInv'
<1>1. \A a \in Accounts : user'[a].ent.at <= tally'.reads
  BY DEF WhenInv
<1>2. sweep'.at \in Pending =>
        /\ sweep'.when \in Nat /\ 0 < sweep'.when /\ sweep'.when <= tally'.reads
        /\ \A a \in Accounts : user'[a].ent.at # sweep'.when
        /\ \A p \in Signers : cap'[p].at \in Pending => cap'[p].when # sweep'.when
  BY DEF WhenInv, PendingShrinks
<1>3. ASSUME NEW p \in Signers, cap'[p].at \in Pending
      PROVE  /\ cap'[p].when \in Nat /\ 0 < cap'[p].when /\ cap'[p].when <= tally'.reads
             /\ \A a \in Accounts : user'[a].ent.at # cap'[p].when
             /\ \A q \in Signers \ {p} : cap'[q].at \in Pending => cap'[p].when # cap'[q].when
  BY <1>3 DEF WhenInv, PendingShrinks
<1> QED
  BY <1>1, <1>2, <1>3 DEF WhenInv

(* A step that is no reader's.                                                   *)
LEMMA WhenQuiet ==
  ASSUME WhenInv, TallyOK, tally'.reads = tally.reads, EntsStay, sweep' = sweep,
         cap' = cap \/ \E p \in Signers : /\ cap'[p].at \notin Pending
                                          /\ \A q \in Signers \ {p} : cap'[q] = cap[q]
  PROVE  WhenInv'
<1>1. PendingShrinks
  BY DEF PendingShrinks
<1>2. /\ 0 \in Nat /\ 0 <= tally.reads
      /\ \A a \in Accounts : user'[a].ent.at \in {user[a].ent.at, 0}
      /\ sweep'.at \in Pending => sweep'.when # 0
      /\ \A p \in Signers : cap'[p].at \in Pending => cap'[p].when # 0
  BY <1>1 DEF WhenInv, TallyOK, EntsStay, PendingShrinks
<1> QED
  BY <1>1, <1>2, WhenShrinks

(* The revalidation reads, or stores what it read, or removes a snapshot.                    *)
LEMMA WhenSweep ==
  ASSUME TokenSafe, WhenInv, SweepShares
  PROVE  WhenInv'
<1>0. UserOK /\ SweepOK /\ CapOK /\ TallyOK
  BY DEF TokenSafe, ReadersOK
<1>1. cap' = cap
  BY SweepFrame
<1>2. StoreSwept => sweep.when \in Nat
  BY DEF StoreSwept, WhenInv, Pending
<1>3. /\ UserOK'
      /\ \/ EntsStay
         \/ /\ sweep.at = "sure" /\ sweep' = Idle
            /\ Stored("a", sweep.machine, sweep.saw, sweep.token, sweep.cipher, sweep.when)
         \/ /\ user'["a"].ent = NoEnt /\ sweep'.at \notin Pending
            /\ \A b \in Accounts \ {"a"} : user'[b].ent = user[b].ent
  BY <1>0, <1>2, SweepUser
<1>4. /\ TallyOK'
      /\ tally'.reads = tally.reads \/ (sweep'.at = "read" /\ sweep'.when = tally.reads + 1
                                        /\ tally'.reads = tally.reads + 1)
      /\ \/ sweep' = Idle
         \/ SweepSelects
         \/ SweepKeeps /\ SweepAdvances
         \/ sweep' = sweep /\ EntsStay /\ tally' = tally
  BY <1>0, SweepMoves
<1>5. tally.reads \in Nat /\ (\A a \in Accounts : user[a].ent.at \in Nat /\ user'[a].ent.at \in Nat)
  BY <1>0, <1>3 DEF TallyOK, UserOK
<1>6. CASE sweep'.at = "read" /\ sweep'.when = tally.reads + 1 /\ tally'.reads = tally.reads + 1
  <2>1. EntsStay
    BY <1>3, <1>6 DEF Idle, Pending
  <2>2. /\ \A a \in Accounts : user'[a].ent.at <= tally'.reads /\ user'[a].ent.at # sweep'.when
        /\ sweep'.when \in Nat /\ 0 < sweep'.when /\ sweep'.when <= tally'.reads
    BY <1>5, <1>6, <2>1 DEF WhenInv, EntsStay
  <2>3. ASSUME NEW p \in Signers, cap'[p].at \in Pending
        PROVE  /\ cap'[p].when \in Nat /\ 0 < cap'[p].when /\ cap'[p].when <= tally'.reads
               /\ cap'[p].when # sweep'.when
               /\ \A a \in Accounts : user'[a].ent.at # cap'[p].when
               /\ \A q \in Signers \ {p} : cap'[q].at \in Pending => cap'[p].when # cap'[q].when
    BY <1>1, <1>5, <1>6, <2>1, <2>3 DEF WhenInv, EntsStay
  <2> QED
    BY <2>2, <2>3 DEF WhenInv
<1>7. CASE tally'.reads = tally.reads
  <2>1. PendingShrinks
    <3>1. sweep'.at \in Pending => sweep.at \in Pending /\ sweep'.when = sweep.when
      BY <1>4, <1>5, <1>7 DEF SweepSelects, SweepAdvances, Pending, Idle
    <3> QED
      BY <1>1, <3>1 DEF PendingShrinks
  <2>2. CASE EntsStay
    <3>1. /\ 0 \in Nat /\ 0 <= tally.reads
          /\ \A a \in Accounts : user'[a].ent.at \in {user[a].ent.at, 0}
          /\ sweep'.at \in Pending => sweep'.when # 0
          /\ \A p \in Signers : cap'[p].at \in Pending => cap'[p].when # 0
      BY <1>5, <2>1, <2>2 DEF WhenInv, EntsStay, PendingShrinks
    <3> QED
      BY <1>7, <2>1, <3>1, WhenShrinks
  <2>3. CASE user'["a"].ent = NoEnt /\ (\A b \in Accounts \ {"a"} : user'[b].ent = user[b].ent)
    <3>1. /\ 0 \in Nat /\ 0 <= tally.reads
          /\ \A a \in Accounts : user'[a].ent.at \in {user[a].ent.at, 0}
          /\ sweep'.at \in Pending => sweep'.when # 0
          /\ \A p \in Signers : cap'[p].at \in Pending => cap'[p].when # 0
      BY <1>5, <2>1, <2>3 DEF WhenInv, PendingShrinks, NoEnt
    <3> QED
      BY <1>7, <2>1, <3>1, WhenShrinks
  <2>4. CASE /\ sweep.at = "sure" /\ sweep' = Idle
             /\ Stored("a", sweep.machine, sweep.saw, sweep.token, sweep.cipher, sweep.when)
    <3> DEFINE w == sweep.when
    <3>1. /\ w \in Nat /\ w <= tally.reads
          /\ \A p \in Signers : cap[p].at \in Pending => cap[p].when # w
      BY <2>4 DEF WhenInv, Pending
    <3>2. sweep'.at \notin Pending
      BY <2>4 DEF Idle, Pending
    <3>3. user'["a"].ent.at = w
      BY <2>4 DEF Stored
    <3>4. \A a \in Accounts : user'[a].ent.at \in {user[a].ent.at, w}
      BY <2>4, <3>3 DEF Stored
    <3> HIDE DEF w
    <3> QED
      BY <1>1, <1>7, <2>1, <3>1, <3>2, <3>4, WhenShrinks
  <2> QED
    BY <1>3, <2>2, <2>3, <2>4
<1> QED
  BY <1>4, <1>6, <1>7

(* A capture does the same.                                                     *)
LEMMA WhenCapture ==
  ASSUME TokenSafe, WhenInv, NEW p \in Signers, Capture(p)
  PROVE  WhenInv'
<1>0. UserOK /\ SweepOK /\ CapOK /\ TallyOK
  BY DEF TokenSafe, ReadersOK
<1>1. sweep' = sweep
  BY CaptureFrame
<1>2. StoreSigned(p) => cap[p].when \in Nat
  BY DEF StoreSigned, WhenInv, Pending
<1>3. /\ UserOK'
      /\ \/ EntsStay
         \/ /\ cap[p].at = "sure" /\ cap'[p].at # "read" /\ UNCHANGED tally
            /\ Stored(Owner(p), cap[p].server, cap[p].saw, cap[p].token, cap[p].cipher, cap[p].when)
  BY <1>0, <1>2, CapUser
<1>4. /\ (\A q \in Signers \ {p} : cap'[q] = cap[q]) /\ CapAdvances(p)
      /\ tally'.reads = tally.reads \/ (cap'[p].at = "read" /\ tally'.reads = tally.reads + 1)
  BY <1>0, CapMoves
<1>5. tally.reads \in Nat /\ (\A a \in Accounts : user[a].ent.at \in Nat /\ user'[a].ent.at \in Nat)
  BY <1>0, <1>3 DEF TallyOK, UserOK
<1>6. CASE cap'[p].at = "read"
  <2>1. EntsStay /\ cap'[p].when = tally.reads + 1 /\ tally'.reads = tally.reads + 1
    BY <1>3, <1>4, <1>6 DEF CapAdvances
  <2>2. /\ \A a \in Accounts : user'[a].ent.at <= tally'.reads /\ user'[a].ent.at # cap'[p].when
        /\ cap'[p].when \in Nat /\ 0 < cap'[p].when /\ cap'[p].when <= tally'.reads
    BY <1>5, <2>1 DEF WhenInv, EntsStay
  <2>3. sweep'.at \in Pending =>
          /\ sweep'.when \in Nat /\ 0 < sweep'.when /\ sweep'.when <= tally'.reads
          /\ \A a \in Accounts : user'[a].ent.at # sweep'.when
          /\ \A q \in Signers : cap'[q].at \in Pending => cap'[q].when # sweep'.when
    BY <1>1, <1>4, <1>5, <2>1 DEF WhenInv, EntsStay
  <2>4. ASSUME NEW r \in Signers, cap'[r].at \in Pending
        PROVE  /\ cap'[r].when \in Nat /\ 0 < cap'[r].when /\ cap'[r].when <= tally'.reads
               /\ \A a \in Accounts : user'[a].ent.at # cap'[r].when
               /\ \A q \in Signers \ {r} : cap'[q].at \in Pending => cap'[r].when # cap'[q].when
    BY <1>4, <1>5, <2>1, <2>2, <2>4 DEF WhenInv, EntsStay
  <2> QED
    BY <2>2, <2>3, <2>4 DEF WhenInv
<1>7. CASE cap'[p].at # "read"
  <2>1. PendingShrinks
    <3>1. cap'[p].at \in Pending => cap[p].at \in Pending /\ cap'[p].when = cap[p].when
      BY <1>4, <1>7 DEF CapAdvances, Pending
    <3> QED
      BY <1>1, <1>4, <3>1 DEF PendingShrinks
  <2>2. CASE EntsStay
    <3>1. /\ 0 \in Nat /\ 0 <= tally.reads
          /\ \A a \in Accounts : user'[a].ent.at \in {user[a].ent.at, 0}
          /\ sweep'.at \in Pending => sweep'.when # 0
          /\ \A q \in Signers : cap'[q].at \in Pending => cap'[q].when # 0
      BY <1>5, <2>1, <2>2 DEF WhenInv, EntsStay, PendingShrinks
    <3> QED
      BY <1>4, <1>7, <2>1, <3>1, WhenShrinks
  <2>3. CASE /\ cap[p].at = "sure" /\ UNCHANGED tally
             /\ Stored(Owner(p), cap[p].server, cap[p].saw, cap[p].token, cap[p].cipher, cap[p].when)
    <3> DEFINE w == cap[p].when
    <3>1. /\ w \in Nat /\ w <= tally.reads
          /\ \A q \in Signers \ {p} : cap[q].at \in Pending => cap[q].when # w
          /\ sweep.at \in Pending => sweep.when # w
      BY <2>3 DEF WhenInv, Pending
    <3>2. cap'[p].at \notin Pending
      BY <1>4, <2>3 DEF CapAdvances, Pending
    <3>3. Owner(p) \in Accounts /\ user'[Owner(p)].ent.at = w
      BY <2>3, Owned DEF Stored
    <3>4. \A a \in Accounts : user'[a].ent.at \in {user[a].ent.at, w}
      BY <2>3, <3>3 DEF Stored
    <3> HIDE DEF w
    <3>5. /\ sweep'.at \in Pending => sweep'.when # w
          /\ \A q \in Signers : cap'[q].at \in Pending => cap'[q].when # w
      BY <1>1, <1>4, <3>1, <3>2
    <3> QED
      BY <2>3, <2>1, <3>1, <3>4, <3>5, WhenShrinks
  <2> QED
    BY <1>3, <2>2, <2>3
<1> QED
  BY <1>6, <1>7

(* Readers, their tokens and their times.                                           *)
ReaderSafe == TokenSafe /\ WhenInv

(* Nobody reads at the start.                                                       *)
LEMMA ReaderInit == Init => ReaderSafe
<1> SUFFICES ASSUME Init PROVE ReaderSafe
  OBVIOUS
<1>1. PICK known \in BOOLEAN :
        user = [a \in Accounts |->
            IF a = "a" /\ known THEN [NewUser EXCEPT !.row = TRUE, !.token = "t1", !.cipher = 1]
            ELSE NewUser]
  BY DEF Init
<1>2. ASSUME NEW a \in Accounts
      PROVE  UserShape(user[a]) /\ user[a].ent = NoEnt
  <2>1. CASE user[a] = NewUser
    BY <2>1 DEF NewUser, UserShape
  <2>2. CASE user[a] = [NewUser EXCEPT !.row = TRUE, !.token = "t1", !.cipher = 1]
    <3>1. user[a] = [row |-> TRUE, token |-> "t1", cipher |-> 1, admin |-> FALSE, ent |-> NoEnt,
                     due |-> TRUE, state |-> None]
      BY <2>2 DEF NewUser
    <3> QED
      BY <3>1 DEF UserShape
  <2> QED
    BY <1>1, <2>1, <2>2
<1>3. UserOK
  BY <1>1, <1>2 DEF UserOK, NoEnt
<1>4. SweepOK /\ CapOK /\ TallyOK
  BY DEF Init, SweepOK, CapOK, TallyOK
<1>5. GuardInv /\ TokenInv
  BY DEF Init, GuardInv, TokenInv, Idle
<1>6. WhenInv
  BY <1>2 DEF Init, WhenInv, Idle, Pending, NoEnt
<1> QED
  BY <1>3, <1>4, <1>5, <1>6 DEF ReaderSafe, TokenSafe, ReadersOK

(* Each action keeps the readers behind their rows and their times apart.           *)
LEMMA ReaderNext == ReaderSafe /\ LockInv /\ [Next]_vars => ReaderSafe'
<1> SUFFICES ASSUME ReaderSafe, LockInv, [Next]_vars PROVE ReaderSafe'
  OBVIOUS
<1>0. TokenSafe /\ WhenInv /\ UserOK /\ CapOK /\ TallyOK
  BY DEF ReaderSafe, TokenSafe, ReadersOK
<1>q. ASSUME UNCHANGED <<sweep, cap, sign, init, cast, user>>, TallyOK', tally'.reads = tally.reads
      PROVE  ReaderSafe'
  <2>1. UserOK' /\ CredentialStep /\ EntsStay
    BY <1>0, <1>q, UserSame
  <2>2. \A p \in Signers : sign[p].at = "committed" => user'[Owner(p)].token = user[Owner(p)].token
    BY <1>q
  <2>3. TokenSafe'
    BY <1>0, <1>q, <2>1, <2>2, TokenQuiet
  <2>4. WhenInv'
    BY <1>0, <1>q, <2>1, WhenQuiet
  <2> QED
    BY <2>3, <2>4 DEF ReaderSafe
<1>t. tally' = tally => TallyOK' /\ tally'.reads = tally.reads
  BY <1>0 DEF TallyOK
<1>1. CASE (LogNext \/ KeyNext) /\ UNCHANGED accessVars
  BY <1>1, <1>q, <1>t, LogFrame, KeyFrame
<1>2. CASE \E p \in Signers : SignIn(p)
  <2>1. PICK p \in Signers : SignIn(p)
    BY <1>2
  <2>2. UNCHANGED <<sweep, tally>>
    BY <2>1, SignFrame
  <2>3. EntsStay
    BY <1>0, <2>1, SignUser
  <2>4. cap' = cap \/ (cap'[p].at = "spawned" /\ \A q \in Signers \ {p} : cap'[q] = cap[q])
    BY <1>0, <2>1, SignCap
  <2>5. cap' = cap \/ \E q \in Signers : /\ cap'[q].at \notin Pending
                                         /\ \A r \in Signers \ {q} : cap'[r] = cap[r]
    BY <2>4 DEF Pending
  <2>6. WhenInv'
    BY <1>0, <1>t, <2>2, <2>3, <2>5, WhenQuiet
  <2>7. TokenSafe'
    BY <1>0, <2>1, TokenSign
  <2> QED
    BY <2>6, <2>7 DEF ReaderSafe
<1>3. CASE \E p \in Signers : Capture(p)
  BY <1>0, <1>3, TokenCapture, WhenCapture DEF ReaderSafe
<1>4. CASE PutSettings
  <2>1. TallyOK' /\ tally'.reads = tally.reads
    <3>1. tally' = tally \/ tally' = [tally EXCEPT !.puts = @ + 1]
      BY <1>4 DEF PutSettings, _verify_plex_repoint, ChangeSecret, _backfill_missing_plex_anchor, Backfill,
         PutEnters, PutBegins, write_settings, _post_commit_invalidations
    <3> QED
      BY <1>0, <3>1 DEF TallyOK
  <2> QED
    BY <1>4, <1>q, <2>1, PutFrame
<1>5. CASE SweepShares
  BY <1>0, <1>5, TokenSweep, WhenSweep DEF ReaderSafe
<1>6. CASE Watchlist
  BY <1>6, <1>q, <1>t, WatchFrame
<1>7. CASE World \/ Second
  <2>1. TallyOK' /\ tally'.reads = tally.reads
    <3>1. tally' = [tally EXCEPT !.events = @ + 1] \/ tally' = [tally EXCEPT !.clock = @ + 1]
      BY <1>7 DEF World, Second
    <3> QED
      BY <1>0, <3>1 DEF TallyOK
  <2> QED
    BY <1>7, <1>q, <2>1, WorldFrame
<1>8. CASE UNCHANGED vars
  BY <1>8, <1>q, <1>t DEF vars, secretVars, accessVars
<1> QED
  BY <1>1, <1>2, <1>3, <1>4, <1>5, <1>6, <1>7, <1>8 DEF Next

(* The readers, in every state.                                                     *)
LEMMA ReaderInvariant == Spec => []ReaderSafe
BY ReaderInit, ReaderNext, LockInvariant, PTL DEF Spec

(* The sessions are written whole, whoever writes them.                               *)
LEMMA SessInvariant == Spec => []SessOK
<1>1. Init => SessOK
  BY GrantInit DEF GrantSafe
<1>2. SessOK /\ LockInv /\ [Next]_vars => SessOK'
  <2> SUFFICES ASSUME SessOK, LockInv, [Next]_vars PROVE SessOK'
    OBVIOUS
  <2>1. CASE \E p \in Signers : SignIn(p)
    BY <2>1, SignSession DEF SessOK
  <2>2. CASE PutSettings
    <3>1. sess' = sess \/ SignEveryoneOut
      BY <2>2 DEF PutSettings, _verify_plex_repoint, ChangeSecret, _backfill_missing_plex_anchor, Backfill,
         PutEnters, PutBegins, write_settings, _post_commit_invalidations
    <3> QED
      BY <3>1, EveryoneOut DEF SessOK
  <2>3. CASE SweepShares
    BY <2>3, SweepSessions DEF SessionsShrink, SessOK
  <2>4. CASE sess' = sess
    BY <2>4 DEF SessOK
  <2> QED
    BY <2>1, <2>2, <2>3, <2>4, LogFrame, KeyFrame, CaptureFrame, WatchFrame, WorldFrame
       DEF Next, vars, accessVars
<1> QED
  BY <1>1, <1>2, LockInvariant, PTL DEF Spec

(* Between the second look and the verdict the row may have moved: then its ciphertext has, and      *)
(* the statement that signs out is conditioned on it.                                     *)
THEOREM VerdictSafe == Spec => VerdictSparesOthers
<1>1. ReaderSafe /\ SessOK /\ [Next]_vars =>
        [(sweep.at = "guarded" /\ sweep' # sweep) => \A s \in Sessions :
           (sess[s].live /\ ~sess'[s].live)
             => user["a"].token = sweep.token /\ sess[s].born <= sweep.guard]_vars
  <2> SUFFICES ASSUME ReaderSafe, SessOK, [Next]_vars, sweep.at = "guarded", sweep' # sweep,
                      NEW s \in Sessions, sess[s].live, ~sess'[s].live
               PROVE  user["a"].token = sweep.token /\ sess[s].born <= sweep.guard
    OBVIOUS
  <2>1. SweepShares
    BY LogFrame, KeyFrame, SignFrame, CaptureFrame, PutFrame, WatchFrame, WorldFrame DEF Next, vars, accessVars
  <2>2. apply_share_verdict
    BY <2>1 DEF SweepShares, _select_due_candidates, check_share, ConfirmLoss, GuardVerdict,
       _due_predicate, try_entitlement_capture_slot, _attempt_capture, _capture_in_slot, StoreSwept
  <2>3. revoke_user_sessions
    BY <2>2 DEF apply_share_verdict
  <2> DEFINE r == sess[s]
             l == r.live /\ ~(r.who = "a" /\ r.born <= sweep.guard /\ user["a"].cipher = sweep.seen)
  <2>4. sess'[s] = [r EXCEPT !.live = l]
    BY <2>3 DEF revoke_user_sessions
  <2>5. r = [live |-> r.live, who |-> r.who, server |-> r.server, token |-> r.token, born |-> r.born]
    BY DEF SessOK
  <2>6. sess'[s].live = l
    <3> HIDE DEF l, r
    <3> QED
      BY <2>4, <2>5
  <2>7. r.born <= sweep.guard /\ user["a"].cipher = sweep.seen
    BY <2>6
  <2>8. user["a"].token = sweep.token
    BY <2>7 DEF ReaderSafe, TokenSafe, GuardInv
  <2> QED
    BY <2>7, <2>8
<1> QED
  BY <1>1, ReaderInvariant, SessInvariant, PTL DEF Spec, VerdictSparesOthers

(***************************************************************************)
(* Whose libraries a reader has read                                        *)
(***************************************************************************)

(* Readers and the server they read, on the two kinds of scene.                     *)
ReadSafe == ConfOK /\ WorldOK /\ ReadInv /\ StaticInv /\ FixedInv /\ cast \in Casts

(* At the start A is on file and answers.                                           *)
LEMMA ReadInit == Init => ReadSafe
<1> SUFFICES ASSUME Init PROVE ReadSafe
  OBVIOUS
<1>1. ConfOK /\ WorldOK /\ cast \in Casts
  BY GrantInit DEF GrantSafe
<1>2. put = Idle /\ sweep = Idle /\ (\A p \in Signers : cap[p] = Idle) /\ Idle.at = "idle"
  BY DEF Init, Idle
<1>3. /\ conf.anchor = IF Act("legacy") \/ ~init THEN None ELSE "A"
      /\ conf.url = IF init THEN "uA" ELSE None
  BY DEF Init
<1>4. Answers("uA") = "A"
  <2>1. PICK b, reach : world = [live |-> [uA |-> "A", uB |-> b], reach |-> reach, dead |-> {}]
    BY DEF Init
  <2> QED
    BY <2>1 DEF Answers
<1>5. ReadInv
  BY <1>2 DEF ReadInv, Reading
<1>6. StaticInv
  BY <1>2, <1>3, <1>4 DEF StaticInv, Pending
<1>7. FixedInv
  BY <1>2, <1>3 DEF FixedInv, Reading, None
<1> QED
  BY <1>1, <1>5, <1>6, <1>7 DEF ReadSafe

(* A step that reads nothing and changes nothing of the server.                         *)
LEMMA ReadQuiet ==
  ASSUME ReadSafe, UNCHANGED <<cast, conf, put, sweep, world>>,
         cap' = cap \/ \E p \in Signers : /\ cap'[p].at = "spawned"
                                          /\ \A q \in Signers \ {p} : cap'[q] = cap[q]
  PROVE  ReadSafe'
<1>0. ConfOK /\ WorldOK /\ ReadInv /\ StaticInv /\ FixedInv /\ cast \in Casts
  BY DEF ReadSafe
<1>1. ConfOK' /\ WorldOK' /\ cast' \in Casts
  BY <1>0 DEF ConfOK, WorldOK
<1>2. \A p \in Signers : cap'[p] = cap[p] \/ cap'[p].at = "spawned"
  OBVIOUS
<1>3. ReadInv'
  BY <1>0, <1>2 DEF ReadInv, Reading, Act
<1>4. StaticInv'
  BY <1>0, <1>2 DEF StaticInv, Answers, Act
<1>5. FixedInv'
  BY <1>0, <1>2 DEF FixedInv, Reading, Act
<1> QED
  BY <1>1, <1>3, <1>4, <1>5 DEF ReadSafe

(* The revalidation reads from the address it selected, and asks again who answers there.      *)
LEMMA ReadSweep ==
  ASSUME ReadSafe, ReaderSafe, SweepShares
  PROVE  ReadSafe'
<1>0. /\ ConfOK /\ WorldOK /\ ReadInv /\ StaticInv /\ FixedInv /\ cast \in Casts
      /\ UserOK /\ SweepOK /\ TallyOK
  BY DEF ReadSafe, ReaderSafe, TokenSafe, ReadersOK
<1>1. UNCHANGED <<cast, conf, put, cap, world>>
  BY SweepFrame
<1>2. ConfOK' /\ WorldOK' /\ cast' \in Casts
  BY <1>0, <1>1 DEF ConfOK, WorldOK
<1>3. \/ sweep' = Idle
      \/ SweepSelects
      \/ SweepKeeps /\ SweepAdvances
      \/ sweep' = sweep
  BY <1>0, SweepMoves
<1>i. sweep' = Idle => sweep'.at = "idle"
  BY DEF Idle
<1>4. ReadInv'
  <2>1. sweep'.at \in {"authorized", "slot", "read", "sure"} => sweep'.wired
    BY <1>0, <1>3, <1>i DEF SweepSelects, SweepKeeps, SweepAdvances, ReadInv
  <2>2. sweep' # Idle => Act("sweep")
    BY <1>0, <1>3 DEF SweepSelects, SweepKeeps, ReadInv
  <2> QED
    BY <1>0, <1>1, <2>1, <2>2 DEF ReadInv, Act
<1>5. StaticInv'
  <2> SUFFICES ASSUME ~Act("world")
               PROVE  /\ sweep' # Idle /\ sweep'.wired => Answers(sweep'.url) = sweep'.machine
                      /\ sweep'.at \in Pending => sweep'.saw = sweep'.machine
    BY <1>0, <1>1 DEF StaticInv, Answers, Act
  <2>1. sweep' # Idle /\ sweep'.wired => Answers(sweep'.url) = sweep'.machine
    BY <1>0, <1>3 DEF SweepSelects, SweepKeeps, StaticInv, Configured
  <2>2. sweep'.at \in Pending => sweep'.saw = sweep'.machine
    <3>1. CASE SweepKeeps /\ SweepAdvances
      <4> HIDE DEF Answers
      <4>1. sweep.at = "slot" => Answers(sweep.url) = sweep.machine
        BY <1>0, <3>1 DEF StaticInv, ReadInv, SweepKeeps
      <4> QED
        BY <1>0, <3>1, <4>1 DEF SweepKeeps, SweepAdvances, Pending, StaticInv
    <3>2. CASE SweepSelects \/ sweep' = sweep \/ sweep' = Idle
      BY <1>0, <1>i, <3>2 DEF SweepSelects, StaticInv, Pending
    <3> QED
      BY <1>3, <3>1, <3>2
  <2> QED
    BY <2>1, <2>2
<1>6. FixedInv'
  <2> SUFFICES ASSUME ~Act("put")
               PROVE  /\ sweep' # Idle /\ sweep'.wired => sweep'.machine = "A" /\ sweep'.url = "uA" /\ conf.url = "uA"
                      /\ sweep'.at = "read" => sweep'.saw = "A" \/ world.live["uA"] # "A"
                      /\ sweep'.at = "sure" => sweep'.saw = "A"
    BY <1>0, <1>1 DEF FixedInv, Act
  <2>1. sweep' # Idle /\ sweep'.wired => sweep'.machine = "A" /\ sweep'.url = "uA" /\ conf.url = "uA"
    BY <1>0, <1>3 DEF SweepSelects, SweepKeeps, FixedInv, Configured, None
  <2>2. /\ sweep'.at = "read" => sweep'.saw = "A" \/ world.live["uA"] # "A"
        /\ sweep'.at = "sure" => sweep'.saw = "A"
    <3>1. CASE SweepKeeps /\ SweepAdvances
      <4>1. sweep.at \in {"slot", "read"} => sweep.machine = "A" /\ sweep.url = "uA" /\ conf.url = "uA"
        BY <1>0, <3>1 DEF FixedInv, ReadInv, SweepKeeps
      <4> QED
        BY <1>0, <3>1, <4>1 DEF SweepAdvances, FixedInv, Answers
    <3>2. CASE SweepSelects \/ sweep' = sweep \/ sweep' = Idle
      BY <1>0, <1>i, <3>2 DEF SweepSelects, FixedInv
    <3> QED
      BY <1>3, <3>1, <3>2
  <2> QED
    BY <2>1, <2>2
<1> QED
  BY <1>2, <1>4, <1>5, <1>6 DEF ReadSafe

(* A capture reads from the address it was given, and asks again who answers there.            *)
LEMMA ReadCapture ==
  ASSUME ReadSafe, ReaderSafe, NEW p \in Signers, Capture(p)
  PROVE  ReadSafe'
<1>0. /\ ConfOK /\ WorldOK /\ ReadInv /\ StaticInv /\ FixedInv /\ cast \in Casts
      /\ CapOK /\ TallyOK
  BY DEF ReadSafe, ReaderSafe, TokenSafe, ReadersOK
<1>1. UNCHANGED <<cast, conf, put, sweep, world>>
  BY CaptureFrame
<1>2. ConfOK' /\ WorldOK' /\ cast' \in Casts
  BY <1>0, <1>1 DEF ConfOK, WorldOK
<1>3. (\A q \in Signers \ {p} : cap'[q] = cap[q]) /\ CapAdvances(p)
  BY <1>0, CapMoves
<1>4. ReadInv'
  <2>1. cap'[p].at \in {"anchor"} \cup Reading => Act("capture")
    BY <1>0, <1>3 DEF CapAdvances, ReadInv, Reading
  <2> QED
    BY <1>0, <1>1, <1>3, <2>1 DEF ReadInv, Act
<1>5. StaticInv'
  <2> SUFFICES ASSUME ~Act("world")
               PROVE  /\ cap'[p].at = "read" => cap'[p].saw = Answers(cap'[p].url)
                      /\ cap'[p].at = "sure" => cap'[p].saw = cap'[p].server
    BY <1>0, <1>1, <1>3 DEF StaticInv, Answers, Act
  <2> HIDE DEF Answers
  <2> QED
    BY <1>0, <1>3 DEF CapAdvances, StaticInv
<1>6. FixedInv'
  <2> SUFFICES ASSUME ~Act("put")
               PROVE  /\ cap'[p].at = "anchor" => cap'[p].server \in {"A", None}
                      /\ cap'[p].at \in Reading => cap'[p].server = "A" /\ cap'[p].url = "uA"
                      /\ cap'[p].at = "read" => cap'[p].saw = "A" \/ world.live["uA"] # "A"
                      /\ cap'[p].at = "sure" => cap'[p].saw = "A"
    BY <1>0, <1>1, <1>3 DEF FixedInv, Act
  <2>1. cap'[p].at = "anchor" => cap'[p].server \in {"A", None}
    BY <1>0, <1>3 DEF CapAdvances, FixedInv
  <2>2. cap'[p].at \in Reading => cap'[p].server = "A" /\ cap'[p].url = "uA"
    BY <1>0, <1>3 DEF CapAdvances, FixedInv, Reading
  <2>3. /\ cap'[p].at = "read" => cap'[p].saw = "A" \/ world.live["uA"] # "A"
        /\ cap'[p].at = "sure" => cap'[p].saw = "A"
    BY <1>0, <1>3, <2>2 DEF CapAdvances, FixedInv, Reading, Answers
  <2> QED
    BY <2>1, <2>2, <2>3
<1> QED
  BY <1>2, <1>4, <1>5, <1>6 DEF ReadSafe

(* The settings name a server by what answers at the address they are given.                  *)
LEMMA ReadPut ==
  ASSUME ReadSafe, LockInv, PutSettings
  PROVE  ReadSafe'
<1>0. ConfOK /\ WorldOK /\ ReadInv /\ StaticInv /\ FixedInv /\ cast \in Casts /\ PutOK
  BY DEF ReadSafe, LockInv
<1>1. UNCHANGED <<cast, sweep, cap, world>>
  BY PutFrame
<1>2. WorldOK' /\ cast' \in Casts /\ ReadInv'
  BY <1>0, <1>1 DEF WorldOK, ReadInv, Act
<1>s. ASSUME ConfOK',
             ~Act("world") =>
               /\ conf'.anchor # None => Answers(conf'.url) = conf'.anchor
               /\ put'.at \in {"boundary", "inside", "begun"} =>
                    put'.kind = "secret" \/ put'.machine = None \/ put'.machine = Answers(put'.url)
               /\ put'.at = "backfill" => put'.machine = Answers(conf'.url),
             ~Act("put") => (put' = Idle \/ (put'.kind = "secret" /\ put'.at # "backfill")) /\ conf' = conf
      PROVE  ReadSafe'
  <2>1. StaticInv'
    BY <1>0, <1>1, <1>s DEF StaticInv, Answers, Act
  <2>2. FixedInv'
    BY <1>0, <1>1, <1>s DEF FixedInv, Act
  <2> QED
    BY <1>2, <1>s, <2>1, <2>2 DEF ReadSafe
<1>c. conf' = conf => ConfOK' /\ (~Act("world") => (conf'.anchor # None => Answers(conf'.url) = conf'.anchor))
  BY <1>0 DEF ConfOK, StaticInv
<1>3. CASE _verify_plex_repoint \/ _backfill_missing_plex_anchor
  <2>1. conf' = conf /\ Act("put")
    BY <1>3 DEF _verify_plex_repoint, _backfill_missing_plex_anchor
  <2>2. /\ put'.at \in {"boundary", "inside", "begun"} => put'.machine = None \/ put'.machine = Answers(put'.url)
        /\ put'.at = "backfill" => put'.machine = Answers(conf.url)
    BY <1>3 DEF _verify_plex_repoint, _backfill_missing_plex_anchor
  <2> QED
    BY <2>1, <2>2, <1>c, <1>s
<1>4. CASE ChangeSecret
  <2>1. conf' = conf /\ put'.at = "boundary" /\ put'.kind = "secret"
    BY <1>4 DEF ChangeSecret
  <2> QED
    BY <2>1, <1>c, <1>s
<1>5. CASE Backfill
  <2>1. put.at = "backfill" /\ conf' = [conf EXCEPT !.anchor = put.machine] /\ put' = Idle
    BY <1>5 DEF Backfill
  <2>2. conf' = [anchor |-> put.machine, url |-> conf.url]
    BY <1>0, <2>1 DEF ConfOK
  <2>3. conf'.anchor = put.machine /\ conf'.url = conf.url /\ ConfOK' /\ put'.at = "idle"
    BY <2>1, <2>2 DEF ConfOK, Idle
  <2>4. ~Act("put") => FALSE
    BY <1>0, <2>1 DEF FixedInv, Idle
  <2>5. ~Act("world") => put.machine = Answers(conf.url)
    BY <1>0, <2>1 DEF StaticInv
  <2> QED
    BY <2>3, <2>4, <2>5, <1>s
<1>6. CASE PutEnters \/ PutBegins
  <2>1. /\ conf' = conf /\ put.at \in {"boundary", "inside"} /\ put'.at \in {"inside", "begun"}
        /\ put'.kind = put.kind /\ put'.url = put.url /\ put'.machine = put.machine
    BY <1>0, <1>6 DEF PutEnters, PutBegins, PutOK, Idle
  <2>2. ~Act("put") => put.kind = "secret"
    BY <1>0, <2>1 DEF FixedInv, Idle
  <2>3. ~Act("world") => put.kind = "secret" \/ put.machine = None \/ put.machine = Answers(put.url)
    BY <1>0, <2>1 DEF StaticInv
  <2> QED
    BY <2>1, <2>2, <2>3, <1>c, <1>s
<1>7. CASE write_settings
  <2>1. put.at = "begun" /\ put'.at = "committed"
    BY <1>0, <1>7 DEF write_settings, PutOK, Idle
  <2>2. CASE put.kind = "secret"
    <3>1. conf' = conf /\ put' = [put EXCEPT !.at = "committed"]
      BY <1>7, <2>2 DEF write_settings
    <3>2. put'.kind = "secret"
      BY <1>0, <2>1, <2>2, <3>1 DEF PutOK, Idle
    <3> QED
      BY <2>1, <3>1, <3>2, <1>c, <1>s
  <2>3. CASE put.kind # "secret"
    <3>1. conf' = [url |-> put.url, anchor |-> put.machine]
      BY <1>7, <2>3 DEF write_settings
    <3>2. conf'.url = put.url /\ conf'.anchor = put.machine /\ ConfOK'
      BY <3>1 DEF ConfOK
    <3>3. Act("put")
      BY <1>0, <2>1, <2>3 DEF FixedInv, Idle
    <3>4. ~Act("world") => put.machine = None \/ put.machine = Answers(put.url)
      BY <1>0, <2>1, <2>3 DEF StaticInv
    <3> QED
      BY <2>1, <3>2, <3>3, <3>4, <1>s
  <2> QED
    BY <2>2, <2>3
<1>8. CASE _post_commit_invalidations
  <2>1. conf' = conf /\ put' = Idle /\ put'.at = "idle"
    BY <1>8 DEF _post_commit_invalidations, Idle
  <2> QED
    BY <2>1, <1>c, <1>s
<1> QED
  BY <1>3, <1>4, <1>5, <1>6, <1>7, <1>8 DEF PutSettings

(* The server moves away from its address, once: who had read another before is found out.     *)
LEMMA ReadWorld ==
  ASSUME ReadSafe, World
  PROVE  ReadSafe'
<1>0. ConfOK /\ WorldOK /\ ReadInv /\ StaticInv /\ FixedInv /\ cast \in Casts
  BY DEF ReadSafe
<1>1. UNCHANGED <<cast, conf, put, sweep, cap>>
  BY WorldFrame
<1>2. WorldOK' /\ (world'.live["uA"] = world.live["uA"] \/ world'.live["uA"] # "A")
  BY <1>0, WorldLive
<1>3. Act("world")'
  BY <1>1 DEF World, Act
<1>4. ConfOK' /\ ReadInv' /\ StaticInv' /\ cast' \in Casts
  BY <1>0, <1>1, <1>3 DEF ConfOK, ReadInv, StaticInv, Act
<1>5. FixedInv'
  BY <1>0, <1>1, <1>2 DEF FixedInv, Act
<1> QED
  BY <1>2, <1>4, <1>5 DEF ReadSafe

(* Each action keeps what a reader has read with the server on file.                *)
LEMMA ReadNext == ReadSafe /\ ReaderSafe /\ LockInv /\ [Next]_vars => ReadSafe'
<1> SUFFICES ASSUME ReadSafe, ReaderSafe, LockInv, [Next]_vars PROVE ReadSafe'
  OBVIOUS
<1>1. CASE (LogNext \/ KeyNext) /\ UNCHANGED accessVars
  BY <1>1, LogFrame, KeyFrame, ReadQuiet
<1>2. CASE \E p \in Signers : SignIn(p)
  <2>1. PICK p \in Signers : SignIn(p)
    BY <1>2
  <2>2. cap' = cap \/ (cap'[p].at = "spawned" /\ \A q \in Signers \ {p} : cap'[q] = cap[q])
    BY <2>1, SignCap DEF ReaderSafe
  <2> QED
    BY <2>1, <2>2, SignFrame, ReadQuiet
<1>3. CASE \E p \in Signers : Capture(p)
  BY <1>3, ReadCapture
<1>4. CASE PutSettings
  BY <1>4, ReadPut
<1>5. CASE SweepShares
  BY <1>5, ReadSweep
<1>6. CASE Watchlist
  BY <1>6, WatchFrame, ReadQuiet
<1>7. CASE World
  BY <1>7, ReadWorld
<1>8. CASE Second
  BY <1>8, WorldFrame, ReadQuiet DEF Second
<1>9. CASE UNCHANGED vars
  BY <1>9, ReadQuiet DEF vars, secretVars, accessVars
<1> QED
  BY <1>1, <1>2, <1>3, <1>4, <1>5, <1>6, <1>7, <1>8, <1>9 DEF Next

(* No step writes a snapshot of an account's libraries that was not read from the server *)
(* on file, with the token on file, later than the one it replaces: the supersede condition *)
(* of store_entitlements compares ciphertext, anchor and the time of the read in its own *)
(* statement.  OneEndMoves is needed: the identity a capture confirms and the libraries it *)
(* reads are two answers, and both ends moving between them is not seen.            *)
THEOREM SnapshotTrue == ASSUME OneEndMoves PROVE Spec => SnapshotIsTrue
<1>1. ReadSafe /\ ReaderSafe /\ [Next]_vars =>
        [\A a \in Accounts :
          LET old == user[a].ent  new == user'[a].ent IN
          (new # old /\ new # NoEnt) => /\ new.saw = conf.anchor /\ new.token = user[a].token
                                        /\ old.at < new.at]_vars
  <2> SUFFICES ASSUME ReadSafe, ReaderSafe, [Next]_vars, NEW a \in Accounts,
                      user'[a].ent # user[a].ent, user'[a].ent # NoEnt
               PROVE  /\ user'[a].ent.saw = conf.anchor /\ user'[a].ent.token = user[a].token
                      /\ user[a].ent.at < user'[a].ent.at
    OBVIOUS
  <2>0. /\ UserOK /\ SweepOK /\ CapOK /\ TallyOK /\ TokenInv /\ WhenInv
        /\ ReadInv /\ StaticInv /\ FixedInv /\ cast \in Casts
    BY DEF ReadSafe, ReaderSafe, TokenSafe, ReadersOK
  <2>1. ASSUME NEW server, NEW saw, NEW token, NEW cipher, NEW when \in Nat,
               Stored(a, server, saw, token, cipher, when), saw = server,
               cipher = user[a].cipher => token = user[a].token, user[a].ent.at # when
        PROVE  /\ user'[a].ent.saw = conf.anchor /\ user'[a].ent.token = user[a].token
               /\ user[a].ent.at < user'[a].ent.at
    <3>1. user[a].ent.at \in Nat
      BY <2>0 DEF UserOK
    <3> QED
      BY <2>1, <3>1 DEF Stored
  <2>2. CASE SweepShares
    <3>1. StoreSwept => sweep.when \in Nat
      BY <2>0 DEF StoreSwept, WhenInv, Pending
    <3>2. /\ sweep.at = "sure" /\ a = "a"
          /\ Stored(a, sweep.machine, sweep.saw, sweep.token, sweep.cipher, sweep.when)
      BY <2>0, <2>2, <3>1, SweepUser DEF EntsStay, Stored
    <3>3. sweep # Idle /\ Act("sweep") /\ sweep.wired
      BY <2>0, <3>2 DEF ReadInv, Idle
    <3>4. ~Act("world") \/ ~Act("put")
      BY <2>0, <3>3 DEF OneEndMoves, Act
    <3>5. sweep.saw = sweep.machine
      BY <2>0, <3>2, <3>3, <3>4 DEF StaticInv, FixedInv, Pending
    <3>6. sweep.when \in Nat /\ user[a].ent.at # sweep.when
      BY <2>0, <3>2 DEF WhenInv, Pending
    <3>7. sweep.cipher = user[a].cipher => sweep.token = user[a].token
      BY <2>0, <3>2, <3>3 DEF TokenInv, Behind
    <3> QED
      BY <2>1, <3>2, <3>5, <3>6, <3>7
  <2>3. CASE \E p \in Signers : Capture(p)
    <3>1. PICK p \in Signers : Capture(p)
      BY <2>3
    <3>2. StoreSigned(p) => cap[p].when \in Nat
      BY <2>0 DEF StoreSigned, WhenInv, Pending
    <3>3. /\ cap[p].at = "sure" /\ a = Owner(p)
          /\ Stored(a, cap[p].server, cap[p].saw, cap[p].token, cap[p].cipher, cap[p].when)
      BY <2>0, <3>1, <3>2, CapUser DEF EntsStay, Stored
    <3>4. cap[p] # Idle /\ Act("capture")
      BY <2>0, <3>3 DEF ReadInv, Idle, Reading
    <3>5. ~Act("world") \/ ~Act("put")
      BY <2>0, <3>4 DEF OneEndMoves, Act
    <3>6. cap[p].saw = cap[p].server
      BY <2>0, <3>3, <3>4, <3>5 DEF StaticInv, FixedInv, Reading
    <3>7. cap[p].when \in Nat /\ user[a].ent.at # cap[p].when
      BY <2>0, <3>3 DEF WhenInv, Pending
    <3>8. cap[p].cipher = user[a].cipher => cap[p].token = user[a].token
      BY <2>0, <3>3, <3>4 DEF TokenInv, Behind
    <3> QED
      BY <2>1, <3>3, <3>6, <3>7, <3>8
  <2>4. CASE ~SweepShares /\ ~(\E p \in Signers : Capture(p))
    <3>1. user' = user \/ EntsStay
      BY <2>0, <2>4, LogFrame, KeyFrame, SignUser, PutFrame, WatchFrame, WorldFrame
         DEF Next, vars, accessVars
    <3> QED
      BY <3>1 DEF EntsStay
  <2> QED
    BY <2>2, <2>3, <2>4
<1>2. Spec => []ReadSafe
  BY ReadInit, ReadNext, ReaderInvariant, LockInvariant, PTL DEF Spec
<1> QED
  BY <1>1, <1>2, ReaderInvariant, PTL DEF Spec, SnapshotIsTrue
=============================================================================
