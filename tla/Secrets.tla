------------------------------ MODULE Secrets ------------------------------
(***************************************************************************)
(* The credentials the application keeps, and the log lines that may show     *)
(* them (web/routers/settings.py, services/log_capture_service.py).           *)
(*                                                                         *)
(* Replacing a credential is a transaction inside a boundary: one lock, a       *)
(* redaction set widened before the old value goes, history rewritten with the    *)
(* commit, queue and ring swept after it.  Threads log all the while, and the     *)
(* drain moves records from the queue to the database under the same lock.       *)
(* The recovery key is one such credential; the browser sessions exchanged for     *)
(* it are to die with it.                                                   *)
(***************************************************************************)
EXTENDS Naturals, FiniteSets, Sequences

CONSTANTS
  Records,        \* log records the threads will write, numbered in their order
  Logged,         \* the credentials a record may quote
  Short,          \* the credentials below the length a live value is masked from
  AppKeys,        \* the recovery keys, in the order they are generated
  Holders,        \* requests that rotate or revoke the recovery key
  Exchangers,     \* requests that exchange the recovery key for a session
  QUEUE_MAXSIZE,
  MaxFaults       \* bound: cancellations, failed commits, sweeps and inserts

VARIABLES
  cast,     \* the actors of this behaviour
  bound,    \* secret_rotation_lock and the rotation that is under way
  secrets,  \* the credentials on file
  handler,  \* the capture handler's redaction snapshot
  rec,      \* the records
  gone,     \* credentials whose rotation ended with its sweep
  appkey,   \* the recovery key on file, and how many were generated
  rotating, \* app_key_rotate_lock
  recov,    \* the recovery sessions
  keeper,   \* the session the last rotation spared
  hold,     \* the Holders
  exch,     \* the Exchangers
  faults

logVars == <<handler, rec, gone>>
keyVars == <<appkey, rotating, recov, keeper, hold, exch>>
secretVars == <<cast, bound, secrets, faults, logVars, keyVars>>

None == "none"

(* Requests of different kinds are different requests, and none is the drain.         *)
ASSUME HoldersAssumption ==
  /\ Holders \cap Exchangers = {}
  /\ {None, "drain"} \cap (Holders \cup Exchangers) = {}

Act(p) == p \in cast
Fault == faults < MaxFaults /\ faults' = faults + 1

(***************************************************************************)
(* The log records: captured on any thread, handed to the event loop, queued    *)
(***************************************************************************)
(* during and late are history: the record was captured while the rotation that     *)
(* retires its credential ran; it reached its place after the sweep of one.        *)
Unborn == [at |-> "unborn", val |-> None, masked |-> FALSE, ring |-> "no",
           during |-> FALSE, late |-> FALSE]
At(stage) == {i \in Records : rec[i].at = stage}

redact_log_message(v, values) == v \in values \ Short
redact_retired_log_message(v, retired, current) ==
  v \in retired \/ redact_log_message(v, current)

Retires(v) == bound.at \in {"begun", "committed"} /\ v \in bound.old

(* The first steps of emit: the snapshot is read once, the record is formatted.    *)
Captures(i, v, masked) ==
  /\ Act("threads") /\ rec[i].at = "unborn" /\ v \in secrets \cup gone
  /\ \A j \in Records : j < i => rec[j].at # "unborn"
  /\ rec' = [rec EXCEPT ![i] =
       [at |-> "captured", val |-> v, ring |-> "no", during |-> Retires(v), late |-> v \in gone,
        masked |-> masked]]
  /\ UNCHANGED <<cast, bound, secrets, faults, handler, gone>> /\ UNCHANGED keyVars

(* Mutant: the capture masks by length, also what is being retired.             *)
Floored_capture(i, v) == Captures(i, v, redact_log_message(v, handler.values))
_capture(i, v) ==
  Captures(i, v, redact_retired_log_message(v, handler.retiring, handler.values))

(* A record that reaches its place after the sweep escapes it: what shows in it then   *)
(* is what its capture left.                                                 *)
Arrive(r, at, ring) == [r EXCEPT !.at = at, !.ring = ring, !.late = @ \/ r.val \in gone]

(* The rest of emit: the ring, and for INFO and above a call on the loop.          *)
emit(i) ==
  /\ rec[i].at = "captured"
  /\ \E at \in {"pending", "debug"} :
       rec' = [rec EXCEPT ![i] =
         Arrive(rec[i], at, IF rec[i].masked THEN "masked" ELSE "clear")]
  /\ UNCHANGED <<cast, bound, secrets, faults, handler, gone>> /\ UNCHANGED keyVars

_enqueue(i) ==
  /\ rec[i].at = "pending"
  /\ rec' = [rec EXCEPT ![i] =
       Arrive(rec[i], IF Cardinality(At("queued")) < QUEUE_MAXSIZE THEN "queued" ELSE "dropped",
              rec[i].ring)]
  /\ UNCHANGED <<cast, bound, secrets, faults, handler, gone>> /\ UNCHANGED keyVars

(* A tick of _log_drain_loop: the values are refreshed and the queue emptied...      *)
drain_once ==
  /\ Act("drain") /\ bound.by = None
  /\ bound' = [bound EXCEPT !.by = "drain"]
  /\ handler' = [handler EXCEPT !.values = secrets]
  /\ rec' = [i \in Records |-> [rec[i] EXCEPT !.at = IF @ = "queued" THEN "batch" ELSE @]]
  /\ UNCHANGED <<cast, secrets, faults, gone>> /\ UNCHANGED keyVars

(* The oldest rows go, past an age or a number.                                 *)
prune_once(n, i, at) == IF at = "stored" /\ i <= n THEN "pruned" ELSE at

(* ...and the batch stored; it is lost, and counted, when the insert or its         *)
(* commit fails.  Now and then the same tick prunes.                              *)
_log_drain_loop ==
  /\ bound.by = "drain"
  /\ bound' = [bound EXCEPT !.by = None]
  /\ \/ /\ \E n \in Records \cup {0} :
             rec' = [i \in Records |->
               [rec[i] EXCEPT !.at = prune_once(n, i, IF @ = "batch" THEN "stored" ELSE @)]]
        /\ UNCHANGED faults
     \/ /\ Fault /\ At("batch") # {}
        /\ rec' = [i \in Records |-> [rec[i] EXCEPT !.at = IF @ = "batch" THEN "dropped" ELSE @]]
  /\ UNCHANGED <<cast, secrets, handler, gone>> /\ UNCHANGED keyVars

(***************************************************************************)
(* The boundary.  Its user supplies the retiring and the incoming values, what   *)
(* the transaction writes besides, and what runs after the commit.             *)
(***************************************************************************)
Free == [by |-> None, at |-> "free", old |-> {}, new |-> {}, previous |-> {}]

Enter(p) == bound.by = None /\ bound' = [Free EXCEPT !.by = p, !.at = "inside"]

begin_secret_rotation(p, old, new) ==
  /\ bound.by = p /\ bound.at = "inside"
  /\ bound' = [bound EXCEPT !.at = "begun", !.old = old, !.new = new, !.previous = handler.values]
  /\ handler' = IF old \cup new = {} THEN handler
                ELSE [values |-> handler.values \cup secrets \cup old \cup new, retiring |-> old]

Redacting == bound.old \cup bound.new # {}

(* A cancellation, an exception in the body or a commit that fails.               *)
abort_secret_rotation(p) ==
  /\ bound.by = p /\ bound.at = "begun" /\ Fault
  /\ bound' = Free
  /\ handler' = IF Redacting THEN [values |-> bound.previous, retiring |-> {}] ELSE handler

(* The rows' rewrite and the new value are one transaction.                     *)
_rewrite_before_secret_replacement(r) ==
  [r EXCEPT !.masked = @ \/ (r.at = "stored" /\ r.val \in bound.old)]

_commit(p) ==
  /\ bound.by = p /\ bound.at = "begun"
  /\ bound' = [bound EXCEPT !.at = "committed"]
  /\ secrets' = (secrets \ bound.old) \cup bound.new
  /\ rec' = [i \in Records |-> _rewrite_before_secret_replacement(rec[i])]

Swept(r) ==
  LET hit == redact_retired_log_message(r.val, bound.old, bound.previous \cup secrets \cup bound.old)
  IN [r EXCEPT !.masked = @ \/ (r.at = "queued" /\ hit),
               !.ring = IF @ = "clear" /\ hit THEN "masked" ELSE @]

(* After the commit: the sweep of queue and ring, then the callback, then the lock.    *)
(* A sweep that fails leaves the widened snapshot in force.                        *)
complete_secret_rotation(p) ==
  /\ bound.by = p /\ bound.at = "committed"
  /\ bound' = Free
  /\ \/ /\ handler' = IF Redacting THEN [values |-> secrets, retiring |-> {}] ELSE handler
        /\ rec' = [i \in Records |-> Swept(rec[i])]
        /\ gone' = (gone \cup bound.old) \ secrets
        /\ UNCHANGED faults
     \/ /\ Fault /\ Redacting
        /\ UNCHANGED <<handler, rec, gone>>

(***************************************************************************)
(* The recovery key                                                        *)
(***************************************************************************)
AtHome == [at |-> "idle", op |-> None, via |-> None, seen |-> None, session |-> None]
Live(r) == recov[r].live

Ready(p) == Act(p) /\ hold[p].at = "idle"
held == <<cast, bound, secrets, faults>>

(* An administrator's request, authenticated by the key itself, by a recovery        *)
(* session or by a Plex session...                                             *)
Authenticate(p) ==
  /\ Ready(p)
  /\ \E op \in {"rotate", "revoke"} :
       \/ appkey.now # None /\ hold' = [hold EXCEPT ![p] =
            [at |-> "admitted", op |-> op, via |-> "header", seen |-> appkey.now, session |-> None]]
       \/ \E r \in DOMAIN recov : Live(r) /\ hold' = [hold EXCEPT ![p] =
            [at |-> "admitted", op |-> op, via |-> "cookie", seen |-> None, session |-> r]]
       \/ hold' = [hold EXCEPT ![p] =
            [at |-> "admitted", op |-> op, via |-> "plex", seen |-> None, session |-> None]]
  /\ UNCHANGED <<appkey, rotating, recov, keeper, exch>>
  /\ UNCHANGED held /\ UNCHANGED logVars

(* ...reads the row, and so observes a key, unless its header names one...            *)
_observed_app_key(p) ==
  /\ hold[p].at = "admitted"
  /\ hold' = [hold EXCEPT ![p].at = "loaded",
                          ![p].seen = IF hold[p].via = "header" THEN @ ELSE appkey.now]
  /\ UNCHANGED <<appkey, rotating, recov, keeper, exch>>
  /\ UNCHANGED held /\ UNCHANGED logVars

_revoke_recovery_sessions(exempt) ==
  recov' = [r \in DOMAIN recov |-> [recov[r] EXCEPT !.live = @ /\ r = exempt]]

(* ...and under the key's lock goes on only if that is the key on file.  Revoking      *)
(* where there is none signs the sessions out in a transaction of its own.           *)
rotate_app_key_endpoint(p) ==
  /\ hold[p].at = "loaded" /\ rotating = None
  /\ \/ /\ hold[p].op = "rotate" \/ appkey.now # None
        /\ hold[p].seen # appkey.now
        /\ hold' = [hold EXCEPT ![p].at = "conflict"] /\ UNCHANGED <<rotating, recov, keeper>>
     \/ /\ hold[p].op = "revoke" /\ appkey.now = None
        /\ _revoke_recovery_sessions(None) /\ keeper' = None
        /\ hold' = [hold EXCEPT ![p].at = "done"] /\ UNCHANGED rotating
     \/ /\ hold[p].seen = appkey.now /\ (hold[p].op = "revoke" => appkey.now # None)
        /\ rotating' = p /\ hold' = [hold EXCEPT ![p].at = "boundary"]
        /\ UNCHANGED <<recov, keeper>>
  /\ UNCHANGED <<appkey, exch>> /\ UNCHANGED held /\ UNCHANGED logVars

NextKey(p) == IF hold[p].op = "rotate" THEN {AppKeys[appkey.made + 1]} ELSE {}

RotateEnters(p) ==
  /\ hold[p].at = "boundary" /\ rotating = p /\ Enter(p)
  /\ (hold[p].op = "rotate" => appkey.made < Len(AppKeys))
  /\ UNCHANGED <<cast, secrets, faults>> /\ UNCHANGED logVars /\ UNCHANGED keyVars

RotateBegins(p) ==
  /\ begin_secret_rotation(p, {appkey.now} \ {None}, NextKey(p))
  /\ UNCHANGED <<cast, secrets, faults, rec, gone>> /\ UNCHANGED keyVars

_acting_recovery_session_hash(p) == hold[p].session

(* The body: the new key, and every recovery session but the one that asked.          *)
RotateCommits(p) ==
  /\ _commit(p)
  /\ appkey' = IF hold[p].op = "rotate"
               THEN [now |-> AppKeys[appkey.made + 1], made |-> appkey.made + 1]
               ELSE [appkey EXCEPT !.now = None]
  /\ LET exempt == IF hold[p].op = "rotate" THEN _acting_recovery_session_hash(p) ELSE None
     IN _revoke_recovery_sessions(exempt) /\ keeper' = exempt
  /\ UNCHANGED <<cast, faults, handler, gone, rotating, hold, exch>>

RotateEnds(p) ==
  /\ \/ complete_secret_rotation(p) /\ hold' = [hold EXCEPT ![p].at = "done"]
     \/ abort_secret_rotation(p) /\ hold' = [hold EXCEPT ![p].at = "failed"] /\ UNCHANGED <<rec, gone>>
  /\ rotating' = None
  /\ UNCHANGED <<cast, secrets, appkey, recov, keeper, exch>>

(* The exchange holds the key's lock from its check to its commit.                 *)
exchange_api_key_endpoint(e) ==
  /\ Act(e) /\ exch[e] = "idle" /\ rotating = None
  /\ \/ exch' = [exch EXCEPT ![e] = "refused"] /\ UNCHANGED rotating
     \/ appkey.now # None /\ rotating' = e /\ exch' = [exch EXCEPT ![e] = appkey.now]
  /\ UNCHANGED <<appkey, recov, keeper, hold>> /\ UNCHANGED held /\ UNCHANGED logVars

_issue_browser_session(e) ==
  /\ exch[e] \notin {"idle", "refused", "done"}
  /\ recov' = [recov EXCEPT ![e] = [key |-> exch[e], live |-> TRUE]]
  /\ exch' = [exch EXCEPT ![e] = "done"]
  /\ rotating' = IF rotating = e THEN None ELSE rotating
  /\ UNCHANGED <<appkey, keeper, hold>> /\ UNCHANGED held /\ UNCHANGED logVars

logout_endpoint(r) ==
  /\ Act("logout") /\ Live(r)
  /\ recov' = [recov EXCEPT ![r].live = FALSE]
  /\ UNCHANGED <<appkey, rotating, keeper, hold, exch>> /\ UNCHANGED held /\ UNCHANGED logVars

(* The handler knows no value before the drain's first tick.                    *)
SecretsInit(others) ==
  /\ bound = Free /\ faults = 0
  /\ secrets = {AppKeys[1]} \cup others
  /\ \E values \in {{}, IF Act("threads") THEN secrets ELSE {}} : handler = [values |-> values, retiring |-> {}]
  /\ rec = [i \in Records |-> Unborn] /\ gone = {}
  /\ appkey = [now |-> AppKeys[1], made |-> 1] /\ rotating = None /\ keeper = None
  /\ recov = [r \in {"r0"} \cup Exchangers |-> [key |-> AppKeys[1], live |-> r = "r0"]]
  /\ hold = [p \in Holders |-> AtHome] /\ exch = [e \in Exchangers |-> "idle"]

LogNext ==
  \/ \E i \in Records : (\E v \in Logged : _capture(i, v)) \/ emit(i) \/ _enqueue(i)
  \/ drain_once \/ _log_drain_loop

KeyNext ==
  \/ \E p \in Holders :
       \/ Authenticate(p) \/ _observed_app_key(p) \/ rotate_app_key_endpoint(p)
       \/ RotateEnters(p) \/ RotateBegins(p) \/ RotateCommits(p) \/ RotateEnds(p)
  \/ \E e \in Exchangers : exchange_api_key_endpoint(e) \/ _issue_browser_session(e)
  \/ \E r \in DOMAIN recov : logout_endpoint(r)
=============================================================================
