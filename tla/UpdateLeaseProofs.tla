------------------------- MODULE UpdateLeaseProofs -------------------------
(* For every set of workers, every lease length, every policy and every number of    *)
(* crashes: the types of UpdateLease; that a drain once ready excludes critical leases  *)
(* for as long as it is held; that a recorded outcome whose answer was lost is accepted  *)
(* again; that the fences of the coordinator row hold in every step; and, when renewals  *)
(* are prompt, that no stop of the application cuts a critical body.                  *)
EXTENDS UpdateLease, TLAPS

(* What most transactions have in common: the result is a row, it grants no drain and  *)
(* no critical lease that was not there before.                                   *)
Eases(d, e) ==
  /\ e \in RowType
  /\ \A t : Holds(e, t) => Holds(d, t)
  /\ Quiet(d) => Quiet(e)

(* Two such transactions in a row are one. *)
LEMMA EasesTransitive ==
  ASSUME NEW d, NEW e, NEW f, Eases(d, e), Eases(e, f)
  PROVE  Eases(d, f)
BY DEF Eases

(* _cleanup_expired takes leases away and adds none. *)
LEMMA SweepEases ==
  ASSUME NEW d \in RowType
  PROVE  Eases(d, Sweep(d))
<1> DEFINE ended == d.drain.ttl = 0
           reset == ended /\ d.phase \in DrainPhases
           drain == IF ended THEN NoDrain ELSE d.drain
           crit == [w \in Workers |-> IF d.crit[w] = 0 THEN Unset ELSE d.crit[w]]
           phase == IF reset THEN "idle" ELSE d.phase
           anchor == IF reset THEN Unset ELSE d.anchor
<1>1. drain \in Drains
  BY LeaseAssumption DEF RowType, Drains, Token, NoDrain, Unset
<1>2. crit \in [Workers -> Unset .. CritTTL]
  BY LeaseAssumption DEF RowType, Unset
<1>3. phase \in Phases /\ anchor \in Unset .. RecoveryAge
  BY LeaseAssumption DEF RowType, Phases, KNOWN_COORDINATOR_PHASES, Unset
<1>4. Sweep(d) = [d EXCEPT !.drain = drain, !.crit = crit, !.phase = phase, !.anchor = anchor]
  BY DEF Sweep
<1>5. drain = NoDrain \/ drain = d.drain
  OBVIOUS
<1>6. Quiet(d) => \A w \in Workers : crit[w] = Unset
  BY DEF Quiet
<1> HIDE DEF drain, crit, phase, anchor
<1>7. Sweep(d) \in RowType
  BY <1>1, <1>2, <1>3, <1>4 DEF RowType
<1>8. Sweep(d).drain = drain /\ Sweep(d).crit = crit
  BY <1>4 DEF RowType
<1> QED BY <1>5, <1>6, <1>7, <1>8 DEF Eases, Holds, Draining, Quiet

(* A change of the phase and its anchor alone leaves the leases as they are. *)
LEMMA PhaseEases ==
  ASSUME NEW d \in RowType, NEW phase \in Phases, NEW anchor \in Unset .. RecoveryAge
  PROVE  Eases(d, [d EXCEPT !.phase = phase, !.anchor = anchor])
BY DEF Eases, RowType, Holds, Draining, Quiet

(* So does a change of the anchor alone. *)
LEMMA AnchorEases ==
  ASSUME NEW d \in RowType, NEW anchor \in Unset .. RecoveryAge
  PROVE  Eases(d, [d EXCEPT !.anchor = anchor])
BY DEF Eases, RowType, Holds, Draining, Quiet

(* The snapshot every endpoint opens with. *)
LEMMA SnapshotEases ==
  ASSUME NEW d \in RowType
  PROVE  Eases(d, Snapshot(d))
<1> DEFINE s == Sweep(d)
           anchor == IF s.phase \in BUSY_COORDINATOR_PHASES /\ s.anchor = Unset
                       THEN 0 ELSE s.anchor
<1>1. Eases(d, s) /\ s \in RowType
  BY SweepEases DEF Eases
<1>2. Snapshot(d) = [s EXCEPT !.anchor = anchor]
  BY DEF Snapshot, Backfill
<1> HIDE DEF s
<1>3. anchor \in Unset .. RecoveryAge
  BY <1>1, LeaseAssumption DEF RowType, Unset
<1> HIDE DEF anchor
<1>4. Eases(s, Snapshot(d))
  BY <1>1, <1>2, <1>3, AnchorEases
<1> QED BY <1>1, <1>4, EasesTransitive

(* A phase written with its timestamp. *)
LEMMA EnterEases ==
  ASSUME NEW d \in RowType, NEW phase \in Phases
  PROVE  Eases(d, Enter(d, phase))
<1> DEFINE anchor == IF phase \notin BUSY_COORDINATOR_PHASES THEN Unset
                     ELSE IF phase # d.phase THEN 0 ELSE d.anchor
<1>1. anchor \in Unset .. RecoveryAge
  BY LeaseAssumption DEF RowType, Unset
<1>2. Enter(d, phase) = [d EXCEPT !.phase = phase, !.anchor = anchor]
  BY DEF Enter
<1> HIDE DEF anchor
<1> QED BY <1>1, <1>2, PhaseEases

(* mark_busy_work_dispatched. *)
LEMMA HandoutEases ==
  ASSUME NEW d \in RowType, NEW p, NEW act
  PROVE  Eases(d, Handout(d, p, act))
<1> DEFINE anchor == IF dispatch_starts_work(d, p, act) /\ d.phase \in BUSY_COORDINATOR_PHASES
                       THEN 0 ELSE d.anchor
<1>1. anchor \in Unset .. RecoveryAge
  BY LeaseAssumption DEF RowType, Unset
<1>2. Handout(d, p, act) = [d EXCEPT !.anchor = anchor]
  BY DEF Handout
<1> HIDE DEF anchor
<1> QED BY <1>1, <1>2, AnchorEases

(* A result never leads to a busy or an unknown phase. *)
LEMMA ResultPhase ==
  ASSUME NEW res
  PROVE  _phase_for_result(res) \in KNOWN_COORDINATOR_PHASES \ BUSY_COORDINATOR_PHASES
BY DEF _phase_for_result, KNOWN_COORDINATOR_PHASES, BUSY_COORDINATOR_PHASES, DrainPhases

(* The outcome of a check, accepted or refused. *)
LEMMA AckActionEases ==
  ASSUME NEW d \in RowType, NEW gen \in Nat, NEW res \in Results
  PROVE  /\ Eases(d, acknowledge_action(d, gen, res).db)
         /\ acknowledge_action(d, gen, res).ok \in BOOLEAN
<1> DEFINE s == Snapshot(d)
           e == Enter(s, _phase_for_result(res))
           kept == s.action = "install" /\ res = "update_available"
           action == IF kept THEN e.action ELSE "none"
           ack == IF kept THEN e.ack ELSE gen
           avail == res = "update_available"
           f == [e EXCEPT !.avail = avail, !.lastTok = NoToken, !.lastRes = res,
                          !.action = action, !.ack = ack]
<1>1. Eases(d, s) /\ s \in RowType
  BY SnapshotEases DEF Eases
<1>2. Eases(s, e) /\ e \in RowType
  BY <1>1, EnterEases, ResultPhase DEF Eases, Phases
<1>3. \/ acknowledge_action(d, gen, res).db = s
      \/ acknowledge_action(d, gen, res).db = f
  BY DEF acknowledge_action, Refused
<1>0. acknowledge_action(d, gen, res).ok \in BOOLEAN
  BY DEF acknowledge_action, Refused
<1> HIDE DEF s, e
<1>4. action \in Actions /\ ack \in Nat /\ avail \in BOOLEAN /\ NoToken \in Token
  BY <1>2 DEF RowType, Actions, KNOWN_REQUESTED_ACTIONS, Token
<1> HIDE DEF action, ack, avail
<1>5. Eases(e, f)
  BY <1>2, <1>4 DEF Eases, RowType, Holds, Draining, Quiet
<1>6. Eases(d, f)
  BY <1>1, <1>2, <1>5, EasesTransitive
<1> HIDE DEF f
<1> QED BY <1>0, <1>1, <1>3, <1>6

(* The absence of a drain is well typed. *)
LEMMA NoDrainType == NoDrain \in Drains
BY LeaseAssumption DEF NoDrain, Drains, Token, Unset

(* The outcome of an install, accepted, replayed or refused. *)
LEMMA AckOutcomeEases ==
  ASSUME NEW d \in RowType, NEW tok \in Token, NEW gen \in Nat, NEW res \in Results
  PROVE  /\ Eases(d, acknowledge_outcome(d, tok, gen, res).db)
         /\ acknowledge_outcome(d, tok, gen, res).ok \in BOOLEAN
<1> DEFINE s == Snapshot(d)
           e == Enter(s, _phase_for_result(res))
           f == [e EXCEPT !.avail = FALSE, !.lastTok = tok, !.lastRes = res,
                          !.action = "none", !.ack = gen, !.drain = NoDrain]
<1>1. Eases(d, s) /\ s \in RowType
  BY SnapshotEases DEF Eases
<1>2. Eases(s, e) /\ e \in RowType
  BY <1>1, EnterEases, ResultPhase DEF Eases, Phases
<1>3. \/ acknowledge_outcome(d, tok, gen, res).db = s
      \/ acknowledge_outcome(d, tok, gen, res).db = f
  BY DEF acknowledge_outcome, Refused
<1>4. acknowledge_outcome(d, tok, gen, res).ok \in BOOLEAN
  BY DEF acknowledge_outcome, Refused
<1> HIDE DEF s, e
<1>5. Eases(e, f)
  BY <1>2, NoDrainType DEF Eases, RowType, Holds, Draining, Quiet, Actions, KNOWN_REQUESTED_ACTIONS
<1>6. Eases(d, f)
  BY <1>1, <1>2, <1>5, EasesTransitive
<1> HIDE DEF f
<1> QED BY <1>1, <1>3, <1>4, <1>6

(* A renewal of the drain, and what its answer "ready" says of the row it leaves. *)
LEMMA RenewEases ==
  ASSUME NEW d \in RowType, NEW tok, NEW phase \in {"none", "installing", "rollback"}
  PROVE  LET ans == renew_drain_progress(d, tok, phase)
         IN /\ Eases(d, ans.db)
            /\ ans.ok \in BOOLEAN /\ ans.ready \in BOOLEAN
            /\ ans.ready => Quiet(ans.db)
<1> DEFINE s == Snapshot(d)
           e == [s EXCEPT !.drain.ttl = DrainTTL]
           next == IF phase # "none" THEN IF Quiet(s) THEN phase ELSE "draining"
                   ELSE IF s.phase \in DrainPhases THEN s.phase ELSE "draining"
           f == Enter(e, next)
           ans == renew_drain_progress(d, tok, phase)
<1>1. Eases(d, s) /\ s \in RowType
  BY SnapshotEases DEF Eases
<1>2. next \in Phases
  BY DEF Phases, KNOWN_COORDINATOR_PHASES, BUSY_COORDINATOR_PHASES, DrainPhases
<1>3. \/ ans.db = s /\ ans.ok = FALSE /\ ans.ready = FALSE
      \/ ans.db = f /\ ans.ok = TRUE /\ ans.ready = Quiet(s) /\ Holds(s, tok)
  BY DEF renew_drain_progress
<1> HIDE DEF s, next, ans
<1>4. Quiet(s) \in BOOLEAN
  BY DEF Quiet
<1>5. Holds(s, tok) => Eases(s, e)
  BY <1>1, LeaseAssumption DEF Eases, RowType, Drains, Holds, Draining, Quiet, Unset
<1> HIDE DEF e
<1>6. Holds(s, tok) => Eases(e, f)
  BY <1>2, <1>5, EnterEases DEF Eases
<1> HIDE DEF f
<1>7. Holds(s, tok) => Eases(d, f) /\ Eases(s, f)
  BY <1>1, <1>5, <1>6, EasesTransitive
<1>8. Holds(s, tok) /\ Quiet(s) => Quiet(f)
  BY <1>7 DEF Eases
<1>9. Eases(d, ans.db) /\ ans.ok \in BOOLEAN /\ ans.ready \in BOOLEAN /\ (ans.ready => Quiet(ans.db))
  <2>1. CASE ans.db = s /\ ans.ok = FALSE /\ ans.ready = FALSE
    BY <1>1, <2>1
  <2>2. CASE ans.db = f /\ ans.ok = TRUE /\ ans.ready = Quiet(s) /\ Holds(s, tok)
    BY <1>4, <1>7, <1>8, <2>2
  <2> QED BY <1>3, <2>1, <2>2
<1> QED BY <1>9 DEF ans

(* The release of a drain. *)
LEMMA ReleaseEases ==
  ASSUME NEW d \in RowType, NEW tok
  PROVE  Eases(d, release(d, tok))
<1> DEFINE s == Snapshot(d)
           e == Enter(s, "idle")
           f == [e EXCEPT !.drain = NoDrain]
<1>1. Eases(d, s) /\ s \in RowType
  BY SnapshotEases DEF Eases
<1>2. Eases(s, e) /\ e \in RowType
  BY <1>1, EnterEases DEF Eases, Phases, KNOWN_COORDINATOR_PHASES
<1>3. release(d, tok) = s \/ release(d, tok) = f
  BY DEF release
<1> HIDE DEF s, e
<1>4. Eases(e, f)
  BY <1>2, NoDrainType DEF Eases, RowType, Holds, Draining, Quiet
<1> HIDE DEF f
<1> QED BY <1>1, <1>2, <1>3, <1>4, EasesTransitive

(* A step that eases the row, keeps the operation's token and finds no drain ready   *)
(* anew keeps the exclusion.                                                     *)
LEMMA EasingKeeps ==
  ASSUME ReadyExcludesCritical, Eases(db, db'),
         file' = NoFile \/ (file # NoFile /\ file'.tok = file.tok),
         side' = side \/ side'.pc # "ready"
  PROVE  ReadyExcludesCritical'
<1>1. (file # NoFile /\ Holds(db, file.tok) => Quiet(db))'
  BY DEF ReadyExcludesCritical, Eases
<1>2. (side.pc = "ready" /\ Holds(db, side.tok) => Quiet(db))'
  BY DEF ReadyExcludesCritical, Eases
<1> QED BY <1>1, <1>2 DEF ReadyExcludesCritical

(* The sidecar between two iterations. *)
LEMMA RestType == AtRest \in SideType /\ AtRest.pc = "rest"
BY DEF AtRest, SideType, PCs, KNOWN_REQUESTED_ACTIONS, Token

(* The initial states. *)
LEMMA InitHolds == Init => TypeOK /\ ReadyExcludesCritical
<1> SUFFICES ASSUME Init PROVE TypeOK /\ ReadyExcludesCritical
  OBVIOUS
<1>1. PICK r \in Rows : db = [phase |-> r[1], action |-> r[2], gen |-> 0, ack |-> 0,
             anchor |-> Unset, avail |-> FALSE, lastTok |-> NoToken, lastRes |-> "none",
             drain |-> NoDrain, crit |-> [w \in Workers |-> Unset]]
  BY DEF Init
<1>2. r[1] \in Phases /\ r[2] \in Actions
  BY RowsAssumption
<1>3. [w \in Workers |-> Unset] \in [Workers -> Unset .. CritTTL] /\ Unset \in Unset .. RecoveryAge
  BY LeaseAssumption DEF Unset
<1>4. db \in RowType
  BY <1>1, <1>2, <1>3, NoDrainType DEF RowType, Token, Results
<1>5. TypeOK
  BY <1>4, RestType DEF Init, TypeOK, FileType, NoFile, Token
<1>6. ReadyExcludesCritical
  BY RestType DEF Init, ReadyExcludesCritical
<1> QED BY <1>5, <1>6
(* The exclusion needs nothing but the types to be inductive. *)
IndInv == TypeOK /\ ReadyExcludesCritical

(* Critical work is only admitted where no drain is; a renewal only where a lease was. *)
LEMMA CriticalKeeps == IndInv /\ Critical => IndInv'
<1> SUFFICES ASSUME IndInv, NEW w \in Workers,
                    \/ acquire_critical(w) \/ EndCritical(w)
                    \/ RenewCritical(w) \/ RenewCriticalFails(w)
             PROVE  IndInv'
  BY DEF Critical
<1> DEFINE s == Sweep(db)
<1>0. db \in RowType /\ Eases(db, s) /\ s \in RowType /\ Eases(db, db)
  BY SweepEases DEF IndInv, TypeOK, Eases
<1> HIDE DEF s
<1>a. /\ [s EXCEPT !.crit[w] = CritTTL] \in RowType
      /\ [s EXCEPT !.crit[w] = CritTTL].drain = s.drain
  BY <1>0, LeaseAssumption DEF RowType, Unset
<1>b. Eases(s, [s EXCEPT !.crit[w] = Unset])
  BY <1>0, LeaseAssumption DEF RowType, Unset, Eases, Holds, Draining, Quiet
<1>c. Eases(db, [s EXCEPT !.crit[w] = Unset])
  BY <1>0, <1>b, EasesTransitive
<1>1. CASE acquire_critical(w)
  <2>1. CASE Draining(s)
    <3>1. db' = s /\ running' = running
      BY <1>1, <2>1 DEF acquire_critical, s
    <3>2. TypeOK'
      BY <1>0, <1>1, <3>1 DEF acquire_critical, IndInv, TypeOK
    <3> QED BY <1>0, <1>1, <3>1, <3>2, EasingKeeps DEF acquire_critical, IndInv
  <2>2. CASE ~Draining(s)
    <3>1. db' = [s EXCEPT !.crit[w] = CritTTL] /\ running' = running \cup {w}
      BY <1>1, <2>2 DEF acquire_critical, s
    <3>2. TypeOK'
      BY <1>a, <1>1, <3>1 DEF acquire_critical, IndInv, TypeOK
    <3>3. ~Draining(db)'
      BY <1>a, <2>2, <3>1 DEF Draining
    <3>4. ReadyExcludesCritical'
      BY <3>3 DEF ReadyExcludesCritical, Holds
    <3> QED BY <3>2, <3>4 DEF IndInv
  <2> QED BY <2>1, <2>2
<1>2. CASE EndCritical(w)
  <2>1. Eases(db, db')
    BY <1>0, <1>2, <1>c DEF EndCritical, s
  <2>2. TypeOK'
    BY <1>2, <2>1 DEF EndCritical, IndInv, TypeOK, Eases
  <2> QED BY <1>2, <2>1, <2>2, EasingKeeps DEF EndCritical, IndInv
<1>3. CASE RenewCritical(w)
  <2>1. CASE s.crit[w] = Unset
    <3>1. db' = s /\ running' = running \ {w}
      BY <1>3, <2>1 DEF RenewCritical, s
    <3>2. TypeOK'
      BY <1>0, <1>3, <3>1 DEF RenewCritical, IndInv, TypeOK
    <3> QED BY <1>0, <1>3, <3>1, <3>2, EasingKeeps DEF RenewCritical, IndInv
  <2>2. CASE s.crit[w] # Unset
    <3>1. db' = [s EXCEPT !.crit[w] = CritTTL] /\ running' = running
      BY <1>3, <2>2 DEF RenewCritical, s
    <3>2. TypeOK'
      BY <1>a, <1>3, <3>1 DEF RenewCritical, IndInv, TypeOK
    <3>3. ~Quiet(db)
      BY <1>0, <2>2 DEF Eases, Quiet
    <3>4. \A t : Holds(db', t) => Holds(db, t)
      BY <1>a, <1>0, <3>1 DEF Eases, Holds, Draining
    <3>5. file' = file /\ side' = side
      BY <1>3 DEF RenewCritical
    <3>6. ReadyExcludesCritical'
      BY <3>3, <3>4, <3>5 DEF ReadyExcludesCritical, IndInv
    <3> QED BY <3>2, <3>6 DEF IndInv
  <2> QED BY <2>1, <2>2
<1>4. CASE RenewCriticalFails(w)
  <2>1. TypeOK'
    BY <1>4 DEF RenewCriticalFails, IndInv, TypeOK
  <2> QED BY <1>0, <1>4, <2>1, EasingKeeps DEF RenewCriticalFails, IndInv
<1> QED BY <1>1, <1>2, <1>3, <1>4

(* check_now and update_when_ready. *)
LEMMA RequestKeeps ==
  ASSUME IndInv, NEW action \in {"check", "install"}, request_action(action)
  PROVE  IndInv'
<1> DEFINE s == Snapshot(db)
           gen == s.gen + 1
           e == [s EXCEPT !.action = action, !.gen = gen]
<1>1. db \in RowType /\ Eases(db, s) /\ s \in RowType
  BY SnapshotEases DEF IndInv, TypeOK, Eases
<1>2. db' = s \/ db' = e
  BY DEF request_action
<1> HIDE DEF s
<1>3. gen \in Nat /\ action \in Actions
  BY <1>1 DEF RowType, Actions, KNOWN_REQUESTED_ACTIONS
<1> HIDE DEF gen
<1>4. Eases(s, e)
  BY <1>1, <1>3 DEF Eases, RowType, Holds, Draining, Quiet
<1> HIDE DEF e
<1>5. Eases(db, db')
  BY <1>1, <1>2, <1>4, EasesTransitive
<1>6. TypeOK'
  BY <1>3, <1>5 DEF request_action, IndInv, TypeOK, Eases
<1> QED BY <1>5, <1>6, EasingKeeps DEF request_action, IndInv

(* The forced reset. *)
LEMMA ResetKeeps == IndInv /\ force_reset_phase => IndInv'
<1> SUFFICES ASSUME IndInv, force_reset_phase PROVE IndInv'
  OBVIOUS
<1> DEFINE s == Snapshot(db)
           odd == s.action \notin KNOWN_REQUESTED_ACTIONS
           action == IF odd THEN "none" ELSE s.action
           gen == s.gen + 1
           fenced == [s EXCEPT !.gen = gen, !.action = action]
<1>1. db \in RowType /\ Eases(db, s) /\ s \in RowType
  BY SnapshotEases DEF IndInv, TypeOK, Eases
<1>2. \/ db' = s \/ db' = fenced
      \/ db' = Enter(fenced, "idle") \/ db' = Enter(s, "idle")
  BY DEF force_reset_phase
<1>3. action \in Actions /\ gen \in Nat
  BY <1>1 DEF RowType, Actions, KNOWN_REQUESTED_ACTIONS
<1> HIDE DEF s, action, gen
<1>4. Eases(s, fenced)
  BY <1>1, <1>3 DEF Eases, RowType, Holds, Draining, Quiet
<1> HIDE DEF fenced
<1>5. "idle" \in Phases
  BY DEF Phases, KNOWN_COORDINATOR_PHASES
<1>6. Eases(s, Enter(s, "idle")) /\ Eases(fenced, Enter(fenced, "idle"))
  BY <1>1, <1>4, <1>5, EnterEases DEF Eases
<1>7. Eases(db, db')
  BY <1>1, <1>2, <1>4, <1>6, EasesTransitive
<1>8. TypeOK'
  BY <1>7 DEF force_reset_phase, IndInv, TypeOK, Eases
<1> QED BY <1>7, <1>8, EasingKeeps DEF force_reset_phase, IndInv
(* The steps that only renew, report or decide, and the way they are all kept: the row   *)
(* eases, and the sidecar's next state has its type and found nothing ready.          *)
LEMMA EasingStep ==
  ASSUME IndInv, Eases(db, db'), side' \in SideType, side'.pc # "ready" \/ side' = side,
         UNCHANGED <<running, up, file, crashes>>
  PROVE  IndInv'
<1>1. TypeOK'
  BY DEF IndInv, TypeOK, Eases
<1>2. file' = NoFile \/ (file # NoFile /\ file'.tok = file.tok)
  OBVIOUS
<1> QED BY <1>1, <1>2, EasingKeeps DEF IndInv

(* The poll of the sidecar, with or without work for it. *)
LEMMA PollKeeps ==
  ASSUME IndInv, NEW p \in Policies, NEW due \in BOOLEAN, Poll(p, due)
  PROVE  IndInv'
<1> DEFINE s == Snapshot(db)
           act == Eligible(s, p, due)
<1>1. db \in RowType /\ Eases(db, s) /\ s \in RowType
  BY SnapshotEases DEF IndInv, TypeOK, Eases
<1>2. act \in KNOWN_REQUESTED_ACTIONS
  BY DEF Eligible, KNOWN_REQUESTED_ACTIONS
<1>3. /\ db' = Handout(s, p, act)
      /\ \/ side' = [AtRest EXCEPT !.pc = "beat", !.act = act, !.gen = s.gen, !.open = p.open]
         \/ side' = side
      /\ UNCHANGED <<running, up, file, crashes>>
  BY DEF Poll
<1> HIDE DEF s, act
<1>4. Eases(db, db')
  BY <1>1, <1>3, HandoutEases, EasesTransitive
<1>5. p.open \in BOOLEAN /\ s.gen \in Nat
  BY <1>1, PolicyAssumption DEF RowType
<1>6. /\ [AtRest EXCEPT !.pc = "beat", !.act = act, !.gen = s.gen, !.open = p.open] \in SideType
      /\ [AtRest EXCEPT !.pc = "beat", !.act = act, !.gen = s.gen, !.open = p.open].pc = "beat"
  BY <1>2, <1>5 DEF AtRest, SideType, PCs, Token, KNOWN_REQUESTED_ACTIONS
<1>7. side' \in SideType /\ (side'.pc # "ready" \/ side' = side)
  BY <1>3, <1>6 DEF IndInv, TypeOK
<1> QED BY <1>3, <1>4, <1>7, EasingStep

(* The heartbeats of a check. *)
LEMMA HeartbeatKeeps == IndInv /\ Heartbeat => IndInv'
<1> SUFFICES ASSUME IndInv, Heartbeat PROVE IndInv'
  OBVIOUS
<1> DEFINE s == Snapshot(db)
<1>1. db \in RowType /\ Eases(db, s) /\ s \in RowType
  BY SnapshotEases DEF IndInv, TypeOK, Eases
<1>2. /\ db' = Enter(s, "checking") \/ db' = s
      /\ side' = [side EXCEPT !.pc = "check"] \/ side' = AtRest
      /\ UNCHANGED <<running, up, file, crashes>>
  BY DEF Heartbeat
<1> HIDE DEF s
<1>3. Eases(s, Enter(s, "checking"))
  BY <1>1, EnterEases DEF Phases, KNOWN_COORDINATOR_PHASES, BUSY_COORDINATOR_PHASES
<1>4. Eases(db, db')
  BY <1>1, <1>2, <1>3, EasesTransitive
<1>5. [side EXCEPT !.pc = "check"] \in SideType /\ [side EXCEPT !.pc = "check"].pc = "check"
  BY DEF IndInv, TypeOK, SideType, PCs
<1>6. side' \in SideType /\ side'.pc # "ready"
  BY <1>2, <1>5, RestType
<1> QED BY <1>2, <1>4, <1>6, EasingStep

(* The end of a check. *)
LEMMA ReportCheckKeeps ==
  ASSUME IndInv, NEW res \in {"failed", "no_update", "update_available"}, ReportCheck(res)
  PROVE  IndInv'
<1>1. db \in RowType /\ side.gen \in Nat /\ res \in Results
  BY DEF IndInv, TypeOK, SideType, Results
<1>2. /\ db' = acknowledge_action(db, side.gen, res).db
      /\ side' = [side EXCEPT !.pc = "claim"] \/ side' = AtRest
      /\ UNCHANGED <<running, up, file, crashes>>
  BY DEF ReportCheck
<1>3. Eases(db, db')
  BY <1>1, <1>2, AckActionEases
<1>4. [side EXCEPT !.pc = "claim"] \in SideType /\ [side EXCEPT !.pc = "claim"].pc = "claim"
  BY DEF IndInv, TypeOK, SideType, PCs
<1>5. side' \in SideType /\ side'.pc # "ready"
  BY <1>2, <1>4, RestType
<1> QED BY <1>2, <1>3, <1>5, EasingStep

(* A candidate that cannot be described. *)
LEMMA RejectKeeps == IndInv /\ RejectTarget => IndInv'
<1> SUFFICES ASSUME IndInv, RejectTarget PROVE IndInv'
  OBVIOUS
<1>1. db \in RowType /\ side.gen \in Nat /\ "failed" \in Results
  BY DEF IndInv, TypeOK, SideType, Results
<1>2. Eases(db, db')
  BY <1>1, AckActionEases DEF RejectTarget
<1> QED BY <1>2, RestType, EasingStep DEF RejectTarget

(* The first half of a claim. *)
LEMMA ClaimDecideKeeps ==
  ASSUME IndInv, NEW p \in Policies, NEW due \in BOOLEAN, ClaimDecide(p, due)
  PROVE  IndInv'
<1> DEFINE s == Snapshot(db)
           act == Eligible(s, p, due)
           mat == s.action = "none"
           claiming == [side EXCEPT !.pc = "claiming", !.idle = p.idle, !.mat = mat]
<1>1. db \in RowType /\ Eases(db, s) /\ s \in RowType
  BY SnapshotEases DEF IndInv, TypeOK, Eases
<1>2. /\ db' = Handout(s, p, act)
      /\ side' = claiming \/ side' = AtRest
      /\ UNCHANGED <<running, up, file, crashes>>
  BY DEF ClaimDecide
<1>3. mat \in BOOLEAN /\ p.idle \in BOOLEAN
  BY PolicyAssumption
<1> HIDE DEF s, act, mat
<1>4. Eases(db, db')
  BY <1>1, <1>2, HandoutEases, EasesTransitive
<1>5. claiming \in SideType /\ claiming.pc # "ready"
  BY <1>3 DEF IndInv, TypeOK, SideType, PCs
<1> QED BY <1>2, <1>4, <1>5, RestType, EasingStep
(* The token of a new drain is not the one the sidecar's file names. *)
LEMMA NewTokenFresh ==
  ASSUME TypeOK
  PROVE  NewToken \in Tokens /\ NewToken # file.tok
<1>1. file.tok \in Tokens \cup {NoToken} /\ db.lastTok \in Tokens \cup {NoToken}
  BY DEF TypeOK, FileType, RowType, Token
<1>2. \E t \in Tokens : t \notin {file.tok, db.lastTok}
  BY <1>1, TokenAssumption
<1> QED BY <1>2 DEF NewToken

(* The second half of a claim: a new drain is ready only when no critical lease is left. *)
LEMMA ClaimKeeps == IndInv /\ claim_drain => IndInv'
<1> SUFFICES ASSUME IndInv, claim_drain PROVE IndInv'
  OBVIOUS
<1> DEFINE s == Sweep(db)
           gen == IF side.mat THEN s.gen + 1 ELSE s.gen
           tok == NewToken
           grant == [tok |-> tok, gen |-> gen, ttl |-> DrainTTL]
           action == IF side.mat THEN "install" ELSE s.action
           e == [s EXCEPT !.drain = grant, !.gen = gen, !.action = action]
           pc == IF Quiet(s) THEN "ready" ELSE "drain"
           owner == [side EXCEPT !.tok = tok, !.gen = gen, !.pc = pc]
<1>1. db \in RowType /\ s \in RowType
  BY SweepEases DEF IndInv, TypeOK, Eases
<1>2. \/ db' = Enter(e, "draining") /\ side' = owner
      \/ db' = Snapshot(db) /\ side' = AtRest
  BY DEF claim_drain
<1>3. UNCHANGED <<running, up, file, crashes>>
  BY DEF claim_drain
<1>4. gen \in Nat /\ action \in Actions /\ tok \in Token /\ tok # file.tok /\ pc \in PCs
  BY <1>1, NewTokenFresh DEF IndInv, RowType, Actions, KNOWN_REQUESTED_ACTIONS, Token, PCs
<1>5. pc = "ready" => Quiet(s)
  OBVIOUS
<1> HIDE DEF s, gen, tok, action, pc
<1>6. CASE db' = Snapshot(db) /\ side' = AtRest
  BY <1>1, <1>3, <1>6, SnapshotEases, RestType, EasingStep
<1>7. CASE db' = Enter(e, "draining") /\ side' = owner
  <2>1. grant \in Drains
    BY <1>4, LeaseAssumption DEF Drains, Unset
  <2>2. e \in RowType /\ e.drain.tok = tok /\ e.crit = s.crit
    BY <1>1, <1>4, <2>1 DEF RowType
  <2> HIDE DEF e
  <2>3. Eases(e, db')
    BY <1>7, <2>2, EnterEases DEF Phases, KNOWN_COORDINATOR_PHASES, BUSY_COORDINATOR_PHASES, DrainPhases
  <2>4. owner \in SideType /\ owner.pc = pc
    BY <1>4 DEF IndInv, TypeOK, SideType
  <2>5. TypeOK'
    BY <1>3, <1>7, <2>3, <2>4 DEF IndInv, TypeOK, Eases
  <2>6. ~Holds(db', file.tok)
    BY <1>4, <2>2, <2>3 DEF Eases, Holds
  <2>7. pc = "ready" => Quiet(db')
    BY <1>5, <2>2, <2>3 DEF Eases, Quiet
  <2>8. ReadyExcludesCritical'
    BY <1>3, <1>7, <2>4, <2>6, <2>7 DEF ReadyExcludesCritical
  <2> QED BY <2>5, <2>8 DEF IndInv
<1> QED BY <1>2, <1>6, <1>7
(* A step that leaves the row alone. *)
LEMMA SelfEases == IndInv => Eases(db, db)
BY DEF IndInv, TypeOK, Eases

(* A renewal's answer, for the lease of the file or for the one just claimed. *)
LEMMA AwaitKeeps == IndInv /\ AwaitDrain => IndInv'
<1> SUFFICES ASSUME IndInv, AwaitDrain PROVE IndInv'
  OBVIOUS
<1> DEFINE ans == renew_drain_progress(db, side.tok, "none")
<1>1. Eases(db, ans.db) /\ (ans.ready => Quiet(ans.db))
  BY RenewEases DEF IndInv, TypeOK
<1>2. /\ db' = ans.db
      /\ \/ side' = AtRest \/ side' = side
         \/ ans.ready /\ side' = [side EXCEPT !.pc = "ready"]
      /\ UNCHANGED <<running, up, file, crashes>>
  BY DEF AwaitDrain
<1> HIDE DEF ans
<1>3. CASE side' = AtRest \/ side' = side
  BY <1>1, <1>2, <1>3, RestType, EasingStep DEF IndInv, TypeOK
<1>4. CASE ans.ready /\ side' = [side EXCEPT !.pc = "ready"]
  <2>1. side' \in SideType
    BY <1>4 DEF IndInv, TypeOK, SideType, PCs
  <2>2. TypeOK'
    BY <1>1, <1>2, <2>1 DEF IndInv, TypeOK, Eases
  <2>3. Quiet(db')
    BY <1>1, <1>2, <1>4
  <2> QED BY <2>2, <2>3 DEF IndInv, ReadyExcludesCritical
<1> QED BY <1>2, <1>3, <1>4

(* The drain that is given up. *)
LEMMA TimeoutKeeps == IndInv /\ DrainTimeout => IndInv'
<1> SUFFICES ASSUME IndInv, DrainTimeout PROVE IndInv'
  OBVIOUS
<1>1. Eases(db, db')
  BY ReleaseEases DEF DrainTimeout, IndInv, TypeOK
<1> QED BY <1>1, RestType, EasingStep DEF DrainTimeout

(* The token the sidecar writes down is the one under which it was told "ready". *)
LEMMA PrepareKeeps == IndInv /\ Prepare => IndInv'
<1> SUFFICES ASSUME IndInv, Prepare PROVE IndInv'
  OBVIOUS
<1>1. /\ side.pc = "ready"
      /\ UNCHANGED <<db, running, up, crashes>>
  BY DEF Prepare
<1>2. file' \in FileType /\ file'.tok = side.tok
  <2>1. CASE file = NoFile
    <3>1. file' = [stage |-> "prepared", tok |-> side.tok, gen |-> side.gen, told |-> FALSE]
      BY <2>1 DEF Prepare
    <3> QED BY <3>1 DEF IndInv, TypeOK, SideType, FileType, Stages
  <2>2. CASE file # NoFile
    <3>1. file' = [file EXCEPT !.tok = side.tok]
      BY <2>2 DEF Prepare
    <3> QED BY <3>1 DEF IndInv, TypeOK, SideType, FileType
  <2> QED BY <2>1, <2>2
<1>3. side' \in SideType /\ side'.pc # "ready"
  <2>1. side' = [side EXCEPT !.pc = "prepared"] \/ side' = [side EXCEPT !.pc = "recover"]
    BY DEF Prepare
  <2> QED BY <2>1 DEF IndInv, TypeOK, SideType, PCs
<1>4. TypeOK'
  BY <1>1, <1>2, <1>3 DEF IndInv, TypeOK
<1>5. ReadyExcludesCritical'
  BY <1>1, <1>2, <1>3 DEF IndInv, ReadyExcludesCritical
<1> QED BY <1>4, <1>5 DEF IndInv

(* The phase a renewal reports. *)
LEMMA ProgressPhase == _progress_phase \in {"none", "installing", "rollback"}
BY DEF _progress_phase

(* The renewal before the install. *)
LEMMA BeginInstallKeeps == IndInv /\ BeginInstall => IndInv'
<1> SUFFICES ASSUME IndInv, BeginInstall PROVE IndInv'
  OBVIOUS
<1> DEFINE ans == renew_drain_progress(db, file.tok, "installing")
<1>1. Eases(db, ans.db)
  BY RenewEases DEF IndInv, TypeOK
<1>2. /\ db' = ans.db
      /\ side' = AtRest \/ side' = [side EXCEPT !.pc = "install"]
      /\ UNCHANGED <<running, up, file, crashes>>
  BY DEF BeginInstall
<1> HIDE DEF ans
<1>3. [side EXCEPT !.pc = "install"] \in SideType /\ [side EXCEPT !.pc = "install"].pc = "install"
  BY DEF IndInv, TypeOK, SideType, PCs
<1> QED BY <1>1, <1>2, <1>3, RestType, EasingStep

(* The lease keeper, answered. *)
LEMMA KeepLeaseKeeps == IndInv /\ KeepLease => IndInv'
<1> SUFFICES ASSUME IndInv, KeepLease PROVE IndInv'
  OBVIOUS
<1> DEFINE ans == renew_drain_progress(db, file.tok, _progress_phase)
<1>1. Eases(db, ans.db)
  BY RenewEases, ProgressPhase DEF IndInv, TypeOK
<1>2. /\ db' = ans.db
      /\ side' = AtRest \/ side' = side
      /\ UNCHANGED <<running, up, file, crashes>>
  BY DEF KeepLease
<1> HIDE DEF ans
<1> QED BY <1>1, <1>2, RestType, EasingStep DEF IndInv, TypeOK

(* The lease keeper, unanswered. *)
LEMMA GiveUpKeeps == IndInv /\ KeeperGivesUp => IndInv'
BY SelfEases, RestType, EasingStep DEF KeeperGivesUp

(* A step that moves the stage of a pending operation keeps its token. *)
LEMMA StageStep ==
  ASSUME IndInv, Eases(db, db'), file.stage # "none",
         NEW stage \in Stages, file' = [file EXCEPT !.stage = stage],
         side' \in SideType, side'.pc # "ready" \/ side' = side,
         running' \subseteq Workers, up' \in BOOLEAN, UNCHANGED crashes
  PROVE  IndInv'
<1>1. file # NoFile /\ file' \in FileType /\ file'.tok = file.tok
  BY DEF IndInv, TypeOK, FileType, NoFile
<1>2. TypeOK'
  BY <1>1 DEF IndInv, TypeOK, Eases
<1> QED BY <1>1, <1>2, EasingKeeps DEF IndInv
(* The cutover. *)
LEMMA InstallKeeps ==
  IndInv /\ (RequestStop \/ StopOld \/ StartCandidate \/ CandidateHealthy) => IndInv'
<1> SUFFICES ASSUME IndInv, RequestStop \/ StopOld \/ StartCandidate \/ CandidateHealthy
             PROVE  IndInv'
  OBVIOUS
<1>0. side \in SideType /\ running \subseteq Workers /\ up \in BOOLEAN
  BY DEF IndInv, TypeOK
<1>1. CASE RequestStop
  BY <1>0, <1>1, SelfEases, StageStep DEF RequestStop, Stages
<1>2. CASE StopOld
  BY <1>0, <1>2, SelfEases, StageStep DEF StopOld, Stages
<1>3. CASE StartCandidate
  BY <1>0, <1>3, SelfEases, StageStep DEF StartCandidate, Stages
<1>4. CASE CandidateHealthy
  <2>1. side' \in SideType /\ side'.pc # "ready"
    BY <1>0, <1>4 DEF CandidateHealthy, SideType, PCs
  <2> QED BY <1>0, <1>4, <2>1, SelfEases, StageStep DEF CandidateHealthy, Stages
<1> QED BY <1>1, <1>2, <1>3, <1>4

(* The renewal a rollback opens with. *)
LEMMA RollbackRenewsEases ==
  ASSUME IndInv, NEW pc \in {"rollback", "offline"}, RollbackRenews(pc)
  PROVE  Eases(db, db') /\ side' \in SideType /\ side'.pc # "ready"
<1> DEFINE ans == renew_drain_progress(db, file.tok, "rollback")
<1>1. Eases(db, ans.db)
  BY RenewEases DEF IndInv, TypeOK
<1>2. /\ db' = ans.db \/ db' = db
      /\ side' = AtRest \/ side' = [side EXCEPT !.pc = pc]
  BY DEF RollbackRenews
<1> HIDE DEF ans
<1>3. [side EXCEPT !.pc = pc] \in SideType /\ [side EXCEPT !.pc = pc].pc = pc
  BY DEF IndInv, TypeOK, SideType, PCs
<1> QED BY <1>1, <1>2, <1>3, SelfEases, RestType

(* The rollback, with or without a coordinator. *)
LEMMA RollbackKeeps ==
  IndInv /\ (BeginRollback \/ OfflineRollback \/ StopForRollback \/ StartClone \/ CloneHealthy)
    => IndInv'
<1> SUFFICES ASSUME IndInv,
                    BeginRollback \/ OfflineRollback \/ StopForRollback \/ StartClone \/ CloneHealthy
             PROVE  IndInv'
  OBVIOUS
<1>0. side \in SideType /\ running \subseteq Workers /\ up \in BOOLEAN
  BY DEF IndInv, TypeOK
<1>1. CASE BeginRollback
  <2> DEFINE stage == IF file.stage \in {"cloned", "restored"} THEN file.stage ELSE "rolling"
  <2>1. stage \in Stages /\ file.stage # "none" /\ file' = [file EXCEPT !.stage = stage]
    BY <1>1 DEF BeginRollback, Stages
  <2>2. Eases(db, db') /\ side' \in SideType /\ side'.pc # "ready"
    BY <1>1, RollbackRenewsEases DEF BeginRollback
  <2> HIDE DEF stage
  <2> QED BY <1>0, <1>1, <2>1, <2>2, StageStep DEF BeginRollback
<1>2. CASE OfflineRollback
  <2> DEFINE stage == IF file.stage = "cloned" THEN file.stage ELSE "rolling"
  <2>1. stage \in Stages /\ file.stage # "none" /\ file' = [file EXCEPT !.stage = stage]
    BY <1>2 DEF OfflineRollback, Stages
  <2>2. Eases(db, db') /\ side' \in SideType /\ side'.pc # "ready"
    BY <1>2, RollbackRenewsEases DEF OfflineRollback
  <2> HIDE DEF stage
  <2> QED BY <1>0, <1>2, <2>1, <2>2, StageStep DEF OfflineRollback
<1>3. CASE StopForRollback
  BY <1>0, <1>3, SelfEases, StageStep DEF StopForRollback, Stages
<1>4. CASE StartClone
  BY <1>0, <1>4, SelfEases, StageStep DEF StartClone, Stages
<1>5. CASE CloneHealthy
  <2>1. [side EXCEPT !.pc = "report"] \in SideType /\ [side EXCEPT !.pc = "report"].pc = "report"
    BY <1>0 DEF SideType, PCs
  <2>2. side' \in SideType /\ side'.pc # "ready"
    BY <1>5, <2>1, RestType DEF CloneHealthy
  <2> QED BY <1>0, <1>5, <2>2, SelfEases, StageStep DEF CloneHealthy, Stages
<1> QED BY <1>1, <1>2, <1>3, <1>4, <1>5

(* A recovery with nothing to undo. *)
LEMMA RecoverReportKeeps == IndInv /\ RecoverReport => IndInv'
<1> SUFFICES ASSUME IndInv, RecoverReport PROVE IndInv'
  OBVIOUS
<1>1. [side EXCEPT !.pc = "report"] \in SideType /\ [side EXCEPT !.pc = "report"].pc = "report"
  BY DEF IndInv, TypeOK, SideType, PCs
<1> QED BY <1>1, SelfEases, EasingStep DEF RecoverReport

(* The outcome, heard, lost or refused. *)
LEMMA ReportKeeps ==
  ASSUME IndInv, NEW heard \in BOOLEAN, Report(heard)
  PROVE  IndInv'
<1> DEFINE ans == acknowledge_outcome(db, file.tok, file.gen, OutcomeOf(file.stage))
           told == [file EXCEPT !.told = TRUE]
           relet == [side EXCEPT !.pc = "relet"]
<1>1. OutcomeOf(file.stage) \in Results
  BY DEF OutcomeOf, Results
<1>2. Eases(db, ans.db)
  BY <1>1, AckOutcomeEases DEF IndInv, TypeOK, FileType
<1>3. /\ db' = ans.db
      /\ file' = NoFile \/ file' = told \/ file' = file
      /\ side' = AtRest \/ side' = relet
      /\ file.stage \in Reportable
      /\ UNCHANGED <<running, up, crashes>>
  BY DEF Report
<1> HIDE DEF ans
<1>4. file # NoFile
  BY <1>3 DEF NoFile, Reportable
<1>5. told \in FileType /\ told.tok = file.tok /\ NoFile \in FileType
  BY DEF IndInv, TypeOK, FileType, NoFile, Token
<1>6. relet \in SideType /\ relet.pc = "relet"
  BY DEF IndInv, TypeOK, SideType, PCs
<1> HIDE DEF told, relet
<1>7. side' \in SideType /\ side'.pc # "ready" /\ file' \in FileType
  BY <1>3, <1>5, <1>6, RestType DEF IndInv, TypeOK
<1>8. TypeOK'
  BY <1>2, <1>3, <1>7 DEF IndInv, TypeOK, Eases
<1> QED BY <1>2, <1>3, <1>4, <1>5, <1>7, <1>8, EasingKeeps DEF IndInv

(* The lease of a recovery, renewed. *)
LEMMA RecoverLeaseKeeps == IndInv /\ RecoverLease => IndInv'
<1> SUFFICES ASSUME IndInv, RecoverLease PROVE IndInv'
  OBVIOUS
<1> DEFINE ans == renew_drain_progress(db, file.tok, _progress_phase)
           reclaim == [side EXCEPT !.pc = "reclaim"]
           recover == [side EXCEPT !.pc = "recover", !.tok = file.tok, !.gen = file.gen]
<1>1. Eases(db, ans.db)
  BY RenewEases, ProgressPhase DEF IndInv, TypeOK
<1>2. /\ db' = ans.db
      /\ side' = reclaim \/ side' = recover \/ side' = AtRest
      /\ UNCHANGED <<running, up, file, crashes>>
  BY DEF RecoverLease
<1> HIDE DEF ans
<1>3. /\ reclaim \in SideType /\ reclaim.pc = "reclaim"
      /\ recover \in SideType /\ recover.pc = "recover"
  BY DEF IndInv, TypeOK, SideType, FileType, PCs
<1> HIDE DEF reclaim, recover
<1> QED BY <1>1, <1>2, <1>3, RestType, EasingStep

(* The lease of a recovery, claimed again. *)
LEMMA RecoverClaimKeeps ==
  ASSUME IndInv, NEW p \in Policies, RecoverClaim(p)
  PROVE  IndInv'
<1> DEFINE s == Snapshot(db)
           claiming == [AtRest EXCEPT !.pc = "claiming", !.gen = s.gen, !.idle = p.idle]
<1>1. Eases(db, s) /\ s.gen \in Nat /\ p.idle \in BOOLEAN
  BY SnapshotEases, PolicyAssumption DEF IndInv, TypeOK, Eases, RowType
<1>2. /\ db' = s
      /\ side' = claiming \/ side' = AtRest
      /\ UNCHANGED <<running, up, file, crashes>>
  BY DEF RecoverClaim
<1> HIDE DEF s
<1>3. claiming \in SideType /\ claiming.pc = "claiming"
  BY <1>1 DEF AtRest, SideType, PCs, KNOWN_REQUESTED_ACTIONS, Token
<1> HIDE DEF claiming
<1> QED BY <1>1, <1>2, <1>3, RestType, EasingStep

(* A crash of the sidecar. *)
LEMMA CrashKeeps == IndInv /\ SidecarCrash => IndInv'
<1> SUFFICES ASSUME IndInv, SidecarCrash PROVE IndInv'
  OBVIOUS
<1>1. TypeOK'
  BY RestType DEF SidecarCrash, IndInv, TypeOK
<1> QED BY <1>1, RestType, SelfEases, EasingKeeps DEF SidecarCrash, IndInv

(* The clock: leases run out, none appears. *)
LEMMA TickKeeps == IndInv /\ Tick => IndInv'
<1> SUFFICES ASSUME IndInv, Tick PROVE IndInv'
  OBVIOUS
<1> DEFINE crit == [w \in Workers |-> Left(db.crit[w])]
           ttl == Left(db.drain.ttl)
           drain == [db.drain EXCEPT !.ttl = ttl]
           anchor == IF db.anchor = Unset \/ db.anchor = RecoveryAge THEN db.anchor ELSE db.anchor + 1
<1>1. db \in RowType /\ db.drain \in Drains
  BY DEF IndInv, TypeOK, RowType
<1>2. crit \in [Workers -> Unset .. CritTTL] /\ (Quiet(db) => \A w \in Workers : crit[w] = Unset)
  BY <1>1, LeaseAssumption DEF RowType, Left, Unset, Quiet
<1>3. ttl \in Unset .. DrainTTL /\ (db.drain.ttl = Unset => ttl = Unset)
  BY <1>1, LeaseAssumption DEF Drains, Left, Unset
<1>4. anchor \in Unset .. RecoveryAge
  BY <1>1, LeaseAssumption DEF RowType, Unset
<1>5. db' = [db EXCEPT !.crit = crit, !.drain = drain, !.anchor = anchor]
  BY <1>1 DEF Tick, RowType
<1> HIDE DEF crit, ttl, anchor
<1>6. drain \in Drains /\ drain.tok = db.drain.tok /\ (db.drain = NoDrain => drain = NoDrain)
  BY <1>1, <1>3 DEF Drains, NoDrain
<1> HIDE DEF drain
<1>7. db' \in RowType /\ db'.crit = crit /\ db'.drain = drain
  BY <1>1, <1>2, <1>4, <1>5, <1>6 DEF RowType
<1>8. Eases(db, db')
  BY <1>2, <1>6, <1>7 DEF Eases, Holds, Draining, Quiet
<1>9. side' = side /\ side \in SideType
  BY DEF Tick, IndInv, TypeOK
<1> QED BY <1>8, <1>9, EasingStep DEF Tick

(* Every step keeps the types and the exclusion. *)
LEMMA NextKeeps == IndInv /\ [Next]_vars => IndInv'
<1> SUFFICES ASSUME IndInv, [Next]_vars PROVE IndInv'
  OBVIOUS
<1>1. CASE Critical
  BY <1>1, CriticalKeeps
<1>2. CASE OperatorStep
  BY <1>2, ResetKeeps, RequestKeeps DEF OperatorStep
<1>3. CASE CheckStep
  BY <1>3, HeartbeatKeeps, ReportCheckKeeps DEF CheckStep
<1>4. CASE ClaimStep
  BY <1>4, RejectKeeps, ClaimKeeps, AwaitKeeps, TimeoutKeeps, ClaimDecideKeeps DEF ClaimStep
<1>5. CASE InstallStep
  BY <1>5, PrepareKeeps, BeginInstallKeeps, InstallKeeps, RollbackKeeps DEF InstallStep
<1>6. CASE RecoverStep
  BY <1>6, RollbackKeeps, RecoverReportKeeps, RecoverLeaseKeeps, RecoverClaimKeeps DEF RecoverStep
<1>7. CASE \E p \in Policies, due \in BOOLEAN : Poll(p, due)
  BY <1>7, PollKeeps
<1>8. CASE \E heard \in BOOLEAN : Report(heard)
  BY <1>8, ReportKeeps
<1>9. CASE KeepLease \/ KeeperGivesUp \/ SidecarCrash \/ Tick
  BY <1>9, KeepLeaseKeeps, GiveUpKeeps, CrashKeeps, TickKeeps
<1>10. CASE UNCHANGED vars
  BY <1>10 DEF vars, IndInv, TypeOK, ReadyExcludesCritical
<1> QED BY <1>1, <1>2, <1>3, <1>4, <1>5, <1>6, <1>7, <1>8, <1>9, <1>10 DEF Next

(* The coordinator row, the leases, the sidecar and its file keep their types. *)
THEOREM LeaseTypeCorrect == Spec => []TypeOK
<1>1. Init => IndInv
  BY InitHolds DEF IndInv
<1>2. IndInv => TypeOK
  BY DEF IndInv
<1> QED BY <1>1, <1>2, NextKeeps, PTL DEF Spec

(* Whatever the lease lengths, the number of workers and the crashes, and whether or not  *)
(* renewals are prompt: a drain the sidecar was told is ready excludes critical leases.    *)
THEOREM ReadyIsExclusive == Spec => []ReadyExcludesCritical
<1>1. Init => IndInv
  BY InitHolds DEF IndInv
<1>2. IndInv => ReadyExcludesCritical
  BY DEF IndInv
<1> QED BY <1>1, <1>2, NextKeeps, PTL DEF Spec

----------------------------------------------------------------------------
(* What the transactions leave alone.  An ordinary one changes neither the queued     *)
(* action and its generation nor the outcome recorded last, does not touch a row in a   *)
(* phase it does not know, and grants no drain; nor does it end a drain or a critical   *)
(* lease that has time left.                                                       *)
Untouched(d, e) ==
  /\ e.action = d.action /\ e.gen = d.gen /\ e.ack = d.ack /\ e.avail = d.avail
  /\ e.lastTok = d.lastTok /\ e.lastRes = d.lastRes
  /\ d.phase = "unknown" => e.phase = d.phase /\ e.anchor = d.anchor
  /\ Known(d) => Known(e)
  /\ d.drain = NoDrain => e.drain = NoDrain
KeepsCritical(d, e) == \A w \in Workers : d.crit[w] >= 1 => e.crit[w] >= 1
KeepsDrain(d, e) ==
  Draining(d) /\ d.drain.ttl >= 1 => Draining(e) /\ e.drain.tok = d.drain.tok /\ e.drain.ttl >= 1
Ordinary(d, e) == e \in RowType /\ Untouched(d, e) /\ KeepsCritical(d, e) /\ KeepsDrain(d, e)

(* Two ordinary transactions in a row are one. *)
LEMMA OrdinaryTransitive ==
  ASSUME NEW d, NEW e, NEW f, Ordinary(d, e), Ordinary(e, f)
  PROVE  Ordinary(d, f)
<1>1. Untouched(d, f)
  BY DEF Ordinary, Untouched
<1>2. KeepsCritical(d, f) /\ KeepsDrain(d, f)
  BY DEF Ordinary, KeepsCritical, KeepsDrain
<1> QED BY <1>1, <1>2 DEF Ordinary

(* None is one too. *)
LEMMA SelfOrdinary == \A d \in RowType : Ordinary(d, d)
BY DEF Ordinary, Untouched, KeepsCritical, KeepsDrain

(* A change of the anchor of a known phase. *)
LEMMA AnchorOrdinary ==
  ASSUME NEW d \in RowType, NEW anchor \in Unset .. RecoveryAge,
         d.phase = "unknown" => anchor = d.anchor
  PROVE  Ordinary(d, [d EXCEPT !.anchor = anchor])
<1> DEFINE e == [d EXCEPT !.anchor = anchor]
<1>1. /\ e.action = d.action /\ e.gen = d.gen /\ e.ack = d.ack /\ e.avail = d.avail
      /\ e.lastTok = d.lastTok /\ e.lastRes = d.lastRes /\ e.phase = d.phase /\ e.anchor = anchor
      /\ e.drain = d.drain /\ e.crit = d.crit
  BY DEF RowType
<1>2. e \in RowType
  BY DEF RowType
<1> HIDE DEF e
<1>3. Ordinary(d, e)
  BY <1>1, <1>2 DEF Ordinary, Untouched, KeepsCritical, KeepsDrain, Known, Draining
<1> QED BY <1>3 DEF e

(* _cleanup_expired ends only what has no time left. *)
LEMMA SweepOrdinary ==
  ASSUME NEW d \in RowType
  PROVE  Ordinary(d, Sweep(d))
<1> DEFINE ended == d.drain.ttl = 0
           reset == ended /\ d.phase \in DrainPhases
           drain == IF ended THEN NoDrain ELSE d.drain
           crit == [w \in Workers |-> IF d.crit[w] = 0 THEN Unset ELSE d.crit[w]]
           phase == IF reset THEN "idle" ELSE d.phase
           anchor == IF reset THEN Unset ELSE d.anchor
           e == Sweep(d)
<1>1. e = [d EXCEPT !.drain = drain, !.crit = crit, !.phase = phase, !.anchor = anchor]
  BY DEF Sweep
<1>2. /\ d.phase = "unknown" => phase = d.phase /\ anchor = d.anchor
      /\ d.phase \in KNOWN_COORDINATOR_PHASES => phase \in KNOWN_COORDINATOR_PHASES
  BY DEF DrainPhases, KNOWN_COORDINATOR_PHASES
<1>3. (d.drain = NoDrain => drain = NoDrain) /\ (d.drain.ttl >= 1 => drain = d.drain)
  OBVIOUS
<1>4. \A w \in Workers : d.crit[w] >= 1 => crit[w] >= 1
  BY DEF Unset
<1>5. e \in RowType
  BY SweepEases DEF Eases
<1> HIDE DEF drain, crit, phase, anchor
<1>6. /\ e.action = d.action /\ e.gen = d.gen /\ e.ack = d.ack /\ e.avail = d.avail
      /\ e.lastTok = d.lastTok /\ e.lastRes = d.lastRes /\ e.phase = phase /\ e.anchor = anchor
      /\ e.drain = drain /\ e.crit = crit
  BY <1>1 DEF RowType
<1> HIDE DEF e
<1>7. Untouched(d, e)
  BY <1>2, <1>3, <1>6 DEF Untouched, Known
<1>8. KeepsCritical(d, e) /\ KeepsDrain(d, e)
  BY <1>3, <1>4, <1>6 DEF KeepsCritical, KeepsDrain, Draining
<1> QED BY <1>5, <1>7, <1>8 DEF Ordinary, e

(* The snapshot every endpoint opens with. *)
LEMMA SnapshotOrdinary ==
  ASSUME NEW d \in RowType
  PROVE  Ordinary(d, Snapshot(d))
<1> DEFINE s == Sweep(d)
           anchor == IF s.phase \in BUSY_COORDINATOR_PHASES /\ s.anchor = Unset
                       THEN 0 ELSE s.anchor
<1>1. Ordinary(d, s) /\ s \in RowType
  BY SweepOrdinary DEF Ordinary
<1>2. Snapshot(d) = [s EXCEPT !.anchor = anchor]
  BY DEF Snapshot, Backfill
<1> HIDE DEF s
<1>3. anchor \in Unset .. RecoveryAge /\ (s.phase = "unknown" => anchor = s.anchor)
  BY <1>1, LeaseAssumption DEF RowType, Unset, BUSY_COORDINATOR_PHASES, DrainPhases
<1> HIDE DEF anchor
<1>4. Ordinary(s, Snapshot(d))
  BY <1>1, <1>2, <1>3, AnchorOrdinary
<1> QED BY <1>1, <1>4, OrdinaryTransitive

(* A phase written over a known one. *)
LEMMA EnterOrdinary ==
  ASSUME NEW d \in RowType, NEW phase \in KNOWN_COORDINATOR_PHASES, Known(d)
  PROVE  Ordinary(d, Enter(d, phase))
<1> DEFINE anchor == IF phase \notin BUSY_COORDINATOR_PHASES THEN Unset
                     ELSE IF phase # d.phase THEN 0 ELSE d.anchor
           e == Enter(d, phase)
<1>1. e = [d EXCEPT !.phase = phase, !.anchor = anchor]
  BY DEF Enter
<1>2. e \in RowType
  BY EnterEases DEF Eases, Phases
<1> HIDE DEF anchor
<1>3. /\ e.action = d.action /\ e.gen = d.gen /\ e.ack = d.ack /\ e.avail = d.avail
      /\ e.lastTok = d.lastTok /\ e.lastRes = d.lastRes /\ e.phase = phase
      /\ e.drain = d.drain /\ e.crit = d.crit
  BY <1>1 DEF RowType
<1>4. d.phase # "unknown"
  BY DEF Known, KNOWN_COORDINATOR_PHASES, BUSY_COORDINATOR_PHASES, DrainPhases
<1> HIDE DEF e
<1>5. Ordinary(d, e)
  BY <1>2, <1>3, <1>4 DEF Ordinary, Untouched, KeepsCritical, KeepsDrain, Known, Draining
<1> QED BY <1>5 DEF e

(* mark_busy_work_dispatched. *)
LEMMA HandoutOrdinary ==
  ASSUME NEW d \in RowType, NEW p, NEW act
  PROVE  Ordinary(d, Handout(d, p, act))
<1> DEFINE anchor == IF dispatch_starts_work(d, p, act) /\ d.phase \in BUSY_COORDINATOR_PHASES
                       THEN 0 ELSE d.anchor
<1>1. anchor \in Unset .. RecoveryAge /\ (d.phase = "unknown" => anchor = d.anchor)
  BY LeaseAssumption DEF RowType, Unset, BUSY_COORDINATOR_PHASES, DrainPhases
<1>2. Handout(d, p, act) = [d EXCEPT !.anchor = anchor]
  BY DEF Handout
<1> HIDE DEF anchor
<1> QED BY <1>1, <1>2, AnchorOrdinary

(* A renewal is ordinary; it goes through only for the holder of the drain, which has   *)
(* its full time again.                                                            *)
LEMMA RenewOrdinary ==
  ASSUME NEW d \in RowType, NEW tok, NEW phase \in {"none", "installing", "rollback"}
  PROVE  LET ans == renew_drain_progress(d, tok, phase)
         IN /\ Ordinary(d, ans.db)
            /\ ans.ok \in BOOLEAN /\ ans.ready \in BOOLEAN
            /\ ans.ok => Draining(d)
            /\ ans.ready => ans.ok /\ Holds(ans.db, tok) /\ ans.db.drain.ttl >= 1
<1> DEFINE s == Snapshot(d)
           drain == [s.drain EXCEPT !.ttl = DrainTTL]
           e == [s EXCEPT !.drain = drain]
           next == IF phase # "none" THEN IF Quiet(s) THEN phase ELSE "draining"
                   ELSE IF s.phase \in DrainPhases THEN s.phase ELSE "draining"
           f == Enter(e, next)
           ans == renew_drain_progress(d, tok, phase)
<1>1. Ordinary(d, s) /\ s \in RowType
  BY SnapshotOrdinary DEF Ordinary
<1>2. next \in KNOWN_COORDINATOR_PHASES
  BY DEF KNOWN_COORDINATOR_PHASES, BUSY_COORDINATOR_PHASES, DrainPhases
<1>3. \/ ans.db = s /\ ans.ok = FALSE /\ ans.ready = FALSE
      \/ ans.db = f /\ ans.ok = TRUE /\ ans.ready \in BOOLEAN /\ Holds(s, tok) /\ Known(s)
  BY DEF renew_drain_progress, Quiet
<1> HIDE DEF s, next, ans
<1>4. s.drain \in Drains
  BY <1>1 DEF RowType
<1>5. drain \in Drains /\ drain.tok = s.drain.tok /\ drain.ttl = DrainTTL
  BY <1>4, LeaseAssumption DEF Drains, Unset
<1>6. drain.ttl >= 1 /\ drain # NoDrain
  BY <1>5, LeaseAssumption DEF NoDrain, Unset
<1> HIDE DEF drain
<1>7. /\ e.action = s.action /\ e.gen = s.gen /\ e.ack = s.ack /\ e.avail = s.avail
      /\ e.lastTok = s.lastTok /\ e.lastRes = s.lastRes /\ e.phase = s.phase /\ e.anchor = s.anchor
      /\ e.drain = drain /\ e.crit = s.crit /\ e \in RowType
  BY <1>1, <1>5 DEF RowType
<1> HIDE DEF e
<1>8. Holds(s, tok) => Ordinary(s, e)
  BY <1>5, <1>6, <1>7 DEF Ordinary, Untouched, KeepsCritical, KeepsDrain, Known, Draining, Holds
<1>9. Known(s) => Ordinary(e, f) /\ f.drain = drain
  <2>1. Known(s) => Ordinary(e, f)
    BY <1>2, <1>7, EnterOrdinary DEF Known
  <2>2. f.drain = e.drain
    BY <1>7 DEF Enter, RowType
  <2> QED BY <1>7, <2>1, <2>2
<1> HIDE DEF f
<1>10. Holds(s, tok) /\ Known(s) => Ordinary(d, f) /\ Holds(f, tok) /\ f.drain.ttl >= 1
  <2>1. Holds(s, tok) /\ Known(s) => Ordinary(d, f)
    BY <1>1, <1>8, <1>9, OrdinaryTransitive
  <2>2. Holds(s, tok) /\ Known(s) => Holds(f, tok) /\ f.drain.ttl >= 1
    BY <1>5, <1>6, <1>9 DEF Holds, Draining
  <2> QED BY <2>1, <2>2
<1>11. Holds(s, tok) => Draining(d)
  BY <1>1 DEF Ordinary, Untouched, Holds, Draining
<1>12. /\ Ordinary(d, ans.db) /\ ans.ok \in BOOLEAN /\ ans.ready \in BOOLEAN
       /\ ans.ok => Draining(d)
       /\ ans.ready => ans.ok /\ Holds(ans.db, tok) /\ ans.db.drain.ttl >= 1
  <2>1. CASE ans.db = s /\ ans.ok = FALSE /\ ans.ready = FALSE
    BY <1>1, <2>1
  <2>2. CASE ans.db = f /\ ans.ok = TRUE /\ ans.ready \in BOOLEAN /\ Holds(s, tok) /\ Known(s)
    BY <1>10, <1>11, <2>2
  <2> QED BY <1>3, <2>1, <2>2
<1> QED BY <1>12 DEF ans

(* A release ends the drain of its holder and is ordinary otherwise. *)
LEMMA ReleaseUntouched ==
  ASSUME NEW d \in RowType, NEW tok
  PROVE  Untouched(d, release(d, tok)) /\ KeepsCritical(d, release(d, tok))
<1> DEFINE s == Snapshot(d)
           e == Enter(s, "idle")
           f == [e EXCEPT !.drain = NoDrain]
<1>1. Ordinary(d, s) /\ s \in RowType
  BY SnapshotOrdinary DEF Ordinary
<1>2. release(d, tok) = s \/ (release(d, tok) = f /\ Known(s))
  BY DEF release
<1> HIDE DEF s
<1>3. Known(s) => Ordinary(s, e) /\ e \in RowType
  BY <1>1, EnterOrdinary DEF Ordinary, KNOWN_COORDINATOR_PHASES
<1> HIDE DEF e
<1>4. Known(s) => Ordinary(d, e) /\ e \in RowType
  BY <1>1, <1>3, OrdinaryTransitive
<1>5. e \in RowType =>
        /\ f.action = e.action /\ f.gen = e.gen /\ f.ack = e.ack /\ f.avail = e.avail
        /\ f.lastTok = e.lastTok /\ f.lastRes = e.lastRes /\ f.phase = e.phase
        /\ f.anchor = e.anchor /\ f.drain = NoDrain /\ f.crit = e.crit
  BY DEF RowType
<1> HIDE DEF f
<1>6. Known(s) => Untouched(d, f) /\ KeepsCritical(d, f)
  BY <1>4, <1>5 DEF Ordinary, Untouched, KeepsCritical, Known
<1> QED BY <1>1, <1>2, <1>6 DEF Ordinary

(* What an outcome may write: it is refused, replayed, or settles the generation of now. *)
Settled(d, e, res) ==
  /\ d.phase # "unknown" /\ Known(e)
  /\ e.lastRes = res /\ e.gen = d.gen /\ KeepsCritical(d, e)

(* The outcome of a check. *)
LEMMA AckActionSettles ==
  ASSUME NEW d \in RowType, NEW gen \in Nat, NEW res \in Results
  PROVE  LET e == acknowledge_action(d, gen, res).db
         IN \/ Ordinary(d, e)
            \/ /\ Settled(d, e, res) /\ e.lastTok = NoToken
               /\ e.ack = d.ack \/ (e.ack = d.gen /\ e.action = "none")
<1> DEFINE s == Snapshot(d)
           e == Enter(s, _phase_for_result(res))
           kept == s.action = "install" /\ res = "update_available"
           action == IF kept THEN e.action ELSE "none"
           ack == IF kept THEN e.ack ELSE gen
           avail == res = "update_available"
           f == [e EXCEPT !.avail = avail, !.lastTok = NoToken, !.lastRes = res,
                          !.action = action, !.ack = ack]
           new == acknowledge_action(d, gen, res).db
<1>1. Ordinary(d, s) /\ s \in RowType
  BY SnapshotOrdinary DEF Ordinary
<1>2. new = s \/ (new = f /\ Known(s) /\ s.gen = gen)
  BY DEF acknowledge_action, Refused
<1> HIDE DEF s, new
<1>3. ASSUME Known(s) PROVE Ordinary(d, e) /\ e \in RowType /\ Known(e)
  <2>1. Ordinary(s, e)
    BY <1>1, <1>3, EnterOrdinary, ResultPhase
  <2>2. Ordinary(d, e) /\ e \in RowType
    BY <1>1, <2>1, OrdinaryTransitive DEF Ordinary
  <2>3. Known(e)
    BY <1>3, <2>1 DEF Ordinary, Untouched
  <2> QED BY <2>2, <2>3
<1>4. kept \in BOOLEAN /\ (~kept => action = "none" /\ ack = gen) /\ (kept => ack = e.ack)
  OBVIOUS
<1> HIDE DEF e, kept, action, ack, avail
<1>5. ASSUME new = f, Known(s), s.gen = gen
      PROVE  /\ Settled(d, new, res) /\ new.lastTok = NoToken
             /\ new.ack = d.ack \/ (new.ack = d.gen /\ new.action = "none")
  <2>1. Ordinary(d, e) /\ e \in RowType /\ Known(e)
    BY <1>3, <1>5
  <2>2. /\ f.action = action /\ f.gen = e.gen /\ f.ack = ack /\ f.lastTok = NoToken
        /\ f.lastRes = res /\ f.phase = e.phase /\ f.crit = e.crit
    BY <2>1 DEF RowType
  <2> HIDE DEF f
  <2>3. d.phase # "unknown"
    BY <1>1, <1>5 DEF Ordinary, Untouched, Known, KNOWN_COORDINATOR_PHASES,
       BUSY_COORDINATOR_PHASES, DrainPhases
  <2>4. Settled(d, new, res) /\ new.lastTok = NoToken
    BY <1>5, <2>1, <2>2, <2>3 DEF Settled, Known, Ordinary, Untouched, KeepsCritical
  <2>5. new.ack = d.ack \/ (new.ack = d.gen /\ new.action = "none")
    BY <1>1, <1>4, <1>5, <2>1, <2>2 DEF Ordinary, Untouched
  <2> QED BY <2>4, <2>5
<1>6. \/ Ordinary(d, new)
      \/ /\ Settled(d, new, res) /\ new.lastTok = NoToken
         /\ new.ack = d.ack \/ (new.ack = d.gen /\ new.action = "none")
  BY <1>1, <1>2, <1>5
<1> QED BY <1>6 DEF new

(* The outcome of an install. *)
LEMMA AckOutcomeSettles ==
  ASSUME NEW d \in RowType, NEW tok \in Token, NEW gen \in Nat, NEW res \in Results
  PROVE  LET ans == acknowledge_outcome(d, tok, gen, res)
         IN \/ /\ Ordinary(d, ans.db)
               /\ ans.ok => d.ack = gen /\ d.lastTok = tok /\ d.lastRes = res /\ Known(d)
            \/ /\ Settled(d, ans.db, res) /\ d.gen = gen
               /\ ans.db.ack = gen /\ ans.db.lastTok = tok /\ ans.db.action = "none"
               /\ ans.db.drain = NoDrain
<1> DEFINE s == Snapshot(d)
           e == Enter(s, _phase_for_result(res))
           f == [e EXCEPT !.avail = FALSE, !.lastTok = tok, !.lastRes = res,
                          !.action = "none", !.ack = gen, !.drain = NoDrain]
           ans == acknowledge_outcome(d, tok, gen, res)
<1>1. Ordinary(d, s) /\ s \in RowType
  BY SnapshotOrdinary DEF Ordinary
<1>2. \/ ans.db = s /\ (ans.ok => s.ack = gen /\ s.lastTok = tok /\ s.lastRes = res /\ Known(s))
      \/ ans.db = f /\ Known(s) /\ s.gen = gen
  BY DEF acknowledge_outcome, Refused
<1> HIDE DEF s, ans
<1>3. CASE ans.db = s /\ (ans.ok => s.ack = gen /\ s.lastTok = tok /\ s.lastRes = res /\ Known(s))
  <2>1. Known(s) => Known(d)
    BY <1>1 DEF Ordinary, Untouched, Known, KNOWN_COORDINATOR_PHASES, BUSY_COORDINATOR_PHASES,
       DrainPhases, RowType, Phases
  <2>2. Ordinary(d, ans.db) /\ (ans.ok => d.ack = gen /\ d.lastTok = tok /\ d.lastRes = res /\ Known(d))
    BY <1>1, <1>3, <2>1 DEF Ordinary, Untouched
  <2> QED BY <2>2 DEF ans
<1>4. CASE ans.db = f /\ Known(s) /\ s.gen = gen
  <2>1. Ordinary(s, e)
    BY <1>1, <1>4, EnterOrdinary, ResultPhase
  <2>2. Ordinary(d, e) /\ e \in RowType /\ Known(e)
    BY <1>1, <1>4, <2>1, OrdinaryTransitive DEF Ordinary, Untouched
  <2> HIDE DEF e
  <2>3. /\ f.action = "none" /\ f.gen = e.gen /\ f.ack = gen /\ f.lastTok = tok
        /\ f.lastRes = res /\ f.phase = e.phase /\ f.crit = e.crit /\ f.drain = NoDrain
    BY <2>2 DEF RowType
  <2> HIDE DEF f
  <2>4. d.phase # "unknown" /\ d.gen = gen
    BY <1>1, <1>4 DEF Ordinary, Untouched, Known, KNOWN_COORDINATOR_PHASES,
       BUSY_COORDINATOR_PHASES, DrainPhases
  <2>5. Settled(d, ans.db, res)
    BY <1>4, <2>2, <2>3, <2>4 DEF Settled, Known, Ordinary, Untouched, KeepsCritical
  <2>6. /\ Settled(d, ans.db, res) /\ d.gen = gen
        /\ ans.db.ack = gen /\ ans.db.lastTok = tok /\ ans.db.action = "none"
        /\ ans.db.drain = NoDrain
    BY <1>4, <2>3, <2>4, <2>5
  <2> QED BY <2>6 DEF ans
<1> QED BY <1>2, <1>3, <1>4

----------------------------------------------------------------------------
(* The fences and the replay.  A phase this release does not know has no anchor; a     *)
(* check runs only beside no pending operation; a token that was granted and not yet    *)
(* reported under is not the one remembered; and an outcome that was recorded unheard   *)
(* stays the one remembered, its generation settled, with nobody draining.            *)
UnknownUnanchored == db.phase = "unknown" => db.anchor = Unset
SideFits(k) ==
  /\ k.pc \in {"beat", "check", "claim"} => file = NoFile
  /\ k.pc \in {"drain", "ready"} => k.tok # db.lastTok
  /\ file.told => k.pc \in {"rest", "reclaim"}
Replayable ==
  /\ file.stage \in Reportable /\ Known(db) /\ db.drain = NoDrain
  /\ db.ack = file.gen /\ db.lastTok = file.tok /\ db.lastRes = OutcomeOf(file.stage)
  /\ db.gen >= file.gen /\ (db.gen = file.gen => db.action = "none")
FileFits ==
  /\ file # NoFile /\ ~file.told => db.lastTok # file.tok
  /\ file.told => Replayable
OutcomeInv == UnknownUnanchored /\ SideFits(side) /\ FileFits

(* The stop.  A body that runs has a lease with time left, the sidecar that is about    *)
(* to stop the application has the drain with time left, and an offline rollback has      *)
(* nothing left to stop.                                                          *)
LeaseHeld == Holds(db, file.tok) /\ db.drain.ttl >= 1
StopInv ==
  /\ \A w \in running : db.crit[w] >= 1
  /\ ~up => running = {}
  /\ side.pc = "install" /\ file.stage \in {"prepared", "stopping"} => up /\ LeaseHeld
  /\ side.pc = "rollback" /\ up /\ file.stage \in {"rolling", "restored"} => LeaseHeld
  /\ side.pc = "offline" /\ up => file.stage = "cloned"

(* The initial states. *)
LEMMA OutcomeInit == Init => OutcomeInv /\ StopInv
BY DEF Init, OutcomeInv, StopInv, UnknownUnanchored, SideFits, FileFits, AtRest, NoFile

(* A sidecar at rest always fits. *)
LEMMA RestFits == SideFits(AtRest)
BY RestType DEF SideFits

(* A step whose transaction leaves the row untouched, with the file as it is. *)
LEMMA UntouchedStep ==
  ASSUME TypeOK, OutcomeInv, Untouched(db, db'), file' = file, SideFits(side')
  PROVE  OutcomeInv' /\ Fenced
<1>1. Fenced
  BY DEF Untouched, Fenced, Coordinator
<1>2. UnknownUnanchored'
  BY DEF OutcomeInv, UnknownUnanchored, Untouched, TypeOK, RowType, Phases, Known,
         KNOWN_COORDINATOR_PHASES, BUSY_COORDINATOR_PHASES, DrainPhases
<1>3. SideFits(side)' /\ FileFits'
  BY DEF OutcomeInv, SideFits, FileFits, Replayable, Untouched, Known
<1> QED BY <1>1, <1>2, <1>3 DEF OutcomeInv

(* A step that moves the stage of an operation still to be reported. *)
LEMMA StageMoves ==
  ASSUME TypeOK, OutcomeInv, Untouched(db, db'), file # NoFile, ~file.told,
         NEW stage \in Stages, file' = [file EXCEPT !.stage = stage],
         side'.pc \notin {"beat", "check", "claim", "drain", "ready"}
  PROVE  OutcomeInv' /\ Fenced
<1>1. file'.tok = file.tok /\ file'.told = file.told
  BY DEF TypeOK, FileType
<1>2. Fenced
  BY DEF Untouched, Fenced, Coordinator
<1>3. UnknownUnanchored'
  BY DEF OutcomeInv, UnknownUnanchored, Untouched, TypeOK, RowType, Phases, Known,
         KNOWN_COORDINATOR_PHASES, BUSY_COORDINATOR_PHASES, DrainPhases
<1>4. SideFits(side)' /\ FileFits'
  BY <1>1 DEF OutcomeInv, SideFits, FileFits, Untouched
<1> QED BY <1>2, <1>3, <1>4 DEF OutcomeInv

(* A step that leaves the row alone. *)
LEMMA SelfUntouched == ASSUME TypeOK PROVE Untouched(db, db)
BY SelfOrdinary DEF TypeOK, Ordinary

(* Critical work. *)
LEMMA CriticalReplays ==
  ASSUME TypeOK, OutcomeInv, Critical
  PROVE  OutcomeInv' /\ Fenced
<1>1. PICK w \in Workers : \/ acquire_critical(w) \/ EndCritical(w)
                           \/ RenewCritical(w) \/ RenewCriticalFails(w)
  BY DEF Critical
<1> DEFINE s == Sweep(db)
<1>2. Untouched(db, s) /\ s \in RowType
  BY SweepOrdinary DEF TypeOK, Ordinary
<1> HIDE DEF s
<1>3. ASSUME NEW n PROVE Untouched(db, [s EXCEPT !.crit[w] = n])
  <2> DEFINE e == [s EXCEPT !.crit[w] = n]
  <2>1. /\ e.action = s.action /\ e.gen = s.gen /\ e.ack = s.ack /\ e.avail = s.avail
        /\ e.lastTok = s.lastTok /\ e.lastRes = s.lastRes /\ e.phase = s.phase
        /\ e.anchor = s.anchor /\ e.drain = s.drain
    BY <1>2 DEF RowType
  <2> HIDE DEF e
  <2>2. Untouched(db, e)
    BY <1>2, <2>1 DEF Untouched, Known
  <2> QED BY <2>2 DEF e
<1>4. /\ file' = file /\ side' = side
      /\ \/ db' = s \/ db' = [s EXCEPT !.crit[w] = CritTTL]
         \/ db' = [s EXCEPT !.crit[w] = Unset] \/ db' = db
  BY <1>1 DEF acquire_critical, EndCritical, RenewCritical, RenewCriticalFails, s
<1>5. Untouched(db, db')
  BY <1>2, <1>3, <1>4, SelfUntouched
<1>6. SideFits(side')
  BY <1>4 DEF OutcomeInv
<1> QED BY <1>4, <1>5, <1>6, UntouchedStep

(* The buttons of the operator: a request gets a generation of its own, a reset fences  *)
(* off the one that is settled.                                                     *)
LEMMA OperatorReplays ==
  ASSUME TypeOK, OutcomeInv, OperatorStep
  PROVE  OutcomeInv' /\ Fenced
<1> DEFINE s == Snapshot(db)
<1>1. Untouched(db, s) /\ s \in RowType
  BY SnapshotOrdinary DEF TypeOK, Ordinary
<1>2. file' = file /\ side' = side /\ SideFits(side)
  BY DEF OperatorStep, request_action, force_reset_phase, OutcomeInv
<1>3. CASE db' = s
  BY <1>1, <1>2, <1>3, UntouchedStep
<1>4. ASSUME NEW e \in RowType,
             e.ack = s.ack /\ e.lastTok = s.lastTok /\ e.lastRes = s.lastRes /\ e.drain = s.drain,
             e.gen >= s.gen, e.gen = s.gen => e.action = s.action,
             db' = e, Known(e) \/ (e.phase = s.phase /\ e.anchor = s.anchor),
             force_reset_phase \/ Known(s)
      PROVE  OutcomeInv' /\ Fenced
  <2> HIDE DEF s
  <2>0. s.gen \in Nat /\ e.gen \in Nat /\ file.gen \in Nat
    BY <1>1, <1>4 DEF RowType, TypeOK, FileType
  <2>1. Fenced
    <3>1. db.phase = "unknown" => ~Known(s)
      BY <1>1 DEF Untouched, Known, KNOWN_COORDINATOR_PHASES, BUSY_COORDINATOR_PHASES, DrainPhases
    <3> QED BY <1>1, <1>4, <3>1 DEF Fenced, Untouched
  <2>2. UnknownUnanchored'
    BY <1>1, <1>4 DEF OutcomeInv, UnknownUnanchored, Untouched, TypeOK, RowType, Phases, Known,
       KNOWN_COORDINATOR_PHASES, BUSY_COORDINATOR_PHASES, DrainPhases
  <2>3. SideFits(side)'
    BY <1>1, <1>2, <1>4 DEF SideFits, Untouched
  <2>4. FileFits'
    BY <1>1, <1>2, <1>4, <2>0 DEF OutcomeInv, FileFits, Replayable, Untouched, Known
  <2> QED BY <2>1, <2>2, <2>3, <2>4 DEF OutcomeInv
<1>5. ASSUME NEW action \in {"check", "install"}, request_action(action), db' # s
      PROVE  OutcomeInv' /\ Fenced
  <2> DEFINE gen == s.gen + 1
             e == [s EXCEPT !.action = action, !.gen = gen]
  <2>1. db' = e /\ Known(s)
    BY <1>5 DEF request_action
  <2> HIDE DEF s
  <2>a. s.gen \in Nat /\ gen \in Nat /\ gen > s.gen
    BY <1>1 DEF RowType
  <2> HIDE DEF gen
  <2>2. /\ e \in RowType /\ e.ack = s.ack /\ e.lastTok = s.lastTok /\ e.lastRes = s.lastRes
        /\ e.drain = s.drain /\ e.gen = gen /\ e.phase = s.phase /\ e.anchor = s.anchor
    BY <1>1, <2>a DEF RowType, Actions, KNOWN_REQUESTED_ACTIONS
  <2> HIDE DEF e
  <2> QED BY <1>4, <2>a, <2>1, <2>2
<1>6. CASE force_reset_phase /\ db' # s
  <2> DEFINE odd == s.action \notin KNOWN_REQUESTED_ACTIONS
             action == IF odd THEN "none" ELSE s.action
             gen == s.gen + 1
             fenced == [s EXCEPT !.gen = gen, !.action = action]
  <2>1. db' = fenced \/ db' = Enter(fenced, "idle") \/ db' = Enter(s, "idle")
    BY <1>6 DEF force_reset_phase
  <2> HIDE DEF s
  <2>a. s.gen \in Nat /\ gen \in Nat /\ gen > s.gen
    BY <1>1 DEF RowType
  <2>2. action \in Actions
    BY <1>1 DEF RowType, Actions, KNOWN_REQUESTED_ACTIONS
  <2> HIDE DEF action, gen
  <2>3. /\ fenced \in RowType /\ fenced.ack = s.ack /\ fenced.lastTok = s.lastTok
        /\ fenced.lastRes = s.lastRes /\ fenced.drain = s.drain /\ fenced.gen = gen
        /\ fenced.phase = s.phase /\ fenced.anchor = s.anchor
    BY <1>1, <2>a, <2>2 DEF RowType
  <2> HIDE DEF fenced
  <2>4. ASSUME NEW d \in RowType
        PROVE  LET e == Enter(d, "idle")
               IN /\ e \in RowType /\ e.ack = d.ack /\ e.lastTok = d.lastTok /\ e.lastRes = d.lastRes
                  /\ e.drain = d.drain /\ e.gen = d.gen /\ e.action = d.action /\ Known(e)
    <3>1. Enter(d, "idle") \in RowType
      BY EnterEases DEF Eases, Phases, KNOWN_COORDINATOR_PHASES
    <3> QED BY <3>1 DEF Enter, RowType, Known, KNOWN_COORDINATOR_PHASES
  <2>5. CASE db' = fenced
    BY <1>4, <1>6, <2>a, <2>3, <2>5
  <2>6. CASE db' = Enter(fenced, "idle")
    <3> DEFINE e == Enter(fenced, "idle")
    <3>1. /\ e \in RowType /\ e.ack = s.ack /\ e.lastTok = s.lastTok /\ e.lastRes = s.lastRes
          /\ e.drain = s.drain /\ e.gen = gen /\ Known(e)
      BY <2>3, <2>4
    <3> HIDE DEF e
    <3>2. db' = e
      BY <2>6 DEF e
    <3> QED BY <1>4, <1>6, <2>a, <2>3, <3>1, <3>2
  <2>7. CASE db' = Enter(s, "idle")
    <3> DEFINE e == Enter(s, "idle")
    <3>1. /\ e \in RowType /\ e.ack = s.ack /\ e.lastTok = s.lastTok /\ e.lastRes = s.lastRes
          /\ e.drain = s.drain /\ e.gen = s.gen /\ e.action = s.action /\ Known(e)
      BY <1>1, <2>4
    <3> HIDE DEF e
    <3>2. db' = e
      BY <2>7 DEF e
    <3> QED BY <1>4, <1>6, <2>a, <2>3, <3>1, <3>2
  <2> QED BY <2>1, <2>5, <2>6, <2>7
<1> QED BY <1>3, <1>5, <1>6 DEF OperatorStep

(* Only a sidecar between two attempts has an outcome that was recorded unheard. *)
LEMMA WorkingUntold ==
  ASSUME OutcomeInv
  PROVE  /\ side.pc \notin {"rest", "reclaim"} => ~file.told
         /\ side.pc \in {"beat", "check", "claim"} => file = NoFile
         /\ file = NoFile => ~file.told
BY DEF OutcomeInv, SideFits, NoFile

(* The poll, the heartbeats and the decision of a claim. *)
LEMMA PollReplays ==
  ASSUME TypeOK, OutcomeInv, NEW p \in Policies, NEW due \in BOOLEAN,
         Poll(p, due) \/ ClaimDecide(p, due)
  PROVE  OutcomeInv' /\ Fenced
<1> DEFINE s == Snapshot(db)
           act == Eligible(s, p, due)
           mat == s.action = "none"
           beat == [AtRest EXCEPT !.pc = "beat", !.act = act, !.gen = s.gen, !.open = p.open]
           claiming == [side EXCEPT !.pc = "claiming", !.idle = p.idle, !.mat = mat]
<1>1. Ordinary(db, s) /\ s \in RowType
  BY SnapshotOrdinary DEF TypeOK, Ordinary
<1>2. /\ db' = Handout(s, p, act) /\ file' = file /\ file = NoFile
      /\ side' \in {beat, side, claiming, AtRest}
  BY WorkingUntold DEF Poll, ClaimDecide
<1> HIDE DEF s, act, mat
<1>3. beat.pc = "beat" /\ claiming.pc = "claiming"
  BY DEF AtRest, TypeOK, SideType
<1> HIDE DEF beat, claiming
<1>4. Untouched(db, db')
  BY <1>1, <1>2, HandoutOrdinary, OrdinaryTransitive DEF Ordinary
<1>5. SideFits(beat) /\ SideFits(claiming) /\ SideFits(side)
  BY <1>2, <1>3, WorkingUntold DEF SideFits, OutcomeInv
<1>6. SideFits(side')
  BY <1>2, <1>5, RestFits
<1> QED BY <1>2, <1>4, <1>6, UntouchedStep

(* The heartbeats of a check. *)
LEMMA HeartbeatReplays ==
  ASSUME TypeOK, OutcomeInv, Heartbeat
  PROVE  OutcomeInv' /\ Fenced
<1> DEFINE s == Snapshot(db)
           check == [side EXCEPT !.pc = "check"]
<1>1. Ordinary(db, s) /\ s \in RowType
  BY SnapshotOrdinary DEF TypeOK, Ordinary
<1>2. /\ db' = s \/ (db' = Enter(s, "checking") /\ Known(s)) 
      /\ file' = file /\ file = NoFile /\ side' \in {check, AtRest}
  BY WorkingUntold DEF Heartbeat
<1> HIDE DEF s
<1>3. Known(s) => Ordinary(s, Enter(s, "checking"))
  BY <1>1, EnterOrdinary DEF KNOWN_COORDINATOR_PHASES, BUSY_COORDINATOR_PHASES
<1>4. Untouched(db, db')
  BY <1>1, <1>2, <1>3, OrdinaryTransitive DEF Ordinary
<1>5. check.pc = "check"
  BY DEF TypeOK, SideType
<1> HIDE DEF check
<1>6. SideFits(check)
  BY <1>2, <1>5, WorkingUntold DEF SideFits
<1>7. SideFits(side')
  BY <1>2, <1>6, RestFits
<1> QED BY <1>2, <1>4, <1>7, UntouchedStep

(* The end of a check: it settles the generation of now, or nothing. *)
LEMMA CheckReplays ==
  ASSUME TypeOK, OutcomeInv,
         RejectTarget \/ \E res \in {"failed", "no_update", "update_available"} : ReportCheck(res)
  PROVE  OutcomeInv' /\ Fenced
<1>1. PICK res \in {"failed", "no_update", "update_available"} :
        /\ db' = acknowledge_action(db, side.gen, res).db
        /\ side' \in {AtRest, [side EXCEPT !.pc = "claim"]}
  BY DEF RejectTarget, ReportCheck
<1>2. file' = file /\ file = NoFile /\ ~file.told
  BY WorkingUntold DEF RejectTarget, ReportCheck
<1>3. db \in RowType /\ side.gen \in Nat /\ res \in Results /\ [side EXCEPT !.pc = "claim"].pc = "claim"
  BY DEF TypeOK, SideType, Results
<1>4. side'.pc \in {"rest", "claim"}
  BY <1>1, <1>3, RestType
<1>5. SideFits(side')
  BY <1>2, <1>4 DEF SideFits
<1>6. \/ Ordinary(db, db')
      \/ /\ Settled(db, db', res) /\ db'.lastTok = NoToken
         /\ db'.ack = db.ack \/ (db'.ack = db.gen /\ db'.action = "none")
  BY <1>1, <1>3, AckActionSettles
<1>7. CASE Ordinary(db, db')
  BY <1>2, <1>5, <1>7, UntouchedStep DEF Ordinary
<1>8. CASE /\ Settled(db, db', res) /\ db'.lastTok = NoToken
           /\ db'.ack = db.ack \/ (db'.ack = db.gen /\ db'.action = "none")
  <2>1. Fenced
    BY <1>8 DEF Settled, Fenced
  <2>2. UnknownUnanchored'
    BY <1>8 DEF Settled, UnknownUnanchored, Known, KNOWN_COORDINATOR_PHASES,
       BUSY_COORDINATOR_PHASES, DrainPhases
  <2>3. SideFits(side)' /\ FileFits'
    BY <1>2, <1>4 DEF SideFits, FileFits
  <2> QED BY <2>1, <2>2, <2>3 DEF OutcomeInv
<1> QED BY <1>6, <1>7, <1>8

(* The grant of a drain, under a token that nothing remembers. *)
LEMMA ClaimReplays ==
  ASSUME TypeOK, OutcomeInv, claim_drain
  PROVE  OutcomeInv' /\ Fenced
<1> DEFINE s == Sweep(db)
           gen == IF side.mat THEN s.gen + 1 ELSE s.gen
           tok == NewToken
           grant == [tok |-> tok, gen |-> gen, ttl |-> DrainTTL]
           action == IF side.mat THEN "install" ELSE s.action
           e == [s EXCEPT !.drain = grant, !.gen = gen, !.action = action]
           pc == IF Quiet(s) THEN "ready" ELSE "drain"
           owner == [side EXCEPT !.tok = tok, !.gen = gen, !.pc = pc]
<1>1. Ordinary(db, s) /\ s \in RowType
  BY SweepOrdinary DEF TypeOK, Ordinary
<1>2. /\ \/ db' = Enter(e, "draining") /\ side' = owner /\ Known(s)
         \/ db' = Snapshot(db) /\ side' = AtRest
      /\ file' = file /\ ~file.told
  BY WorkingUntold DEF claim_drain, Claimable
<1>3. tok # db.lastTok /\ pc \in {"ready", "drain"}
  <2>1. file.tok \in Tokens \cup {NoToken} /\ db.lastTok \in Tokens \cup {NoToken}
    BY DEF TypeOK, FileType, RowType, Token
  <2>2. \E t \in Tokens : t \notin {file.tok, db.lastTok}
    BY <2>1, TokenAssumption
  <2> QED BY <2>2 DEF NewToken
<1> HIDE DEF s, gen, tok, action, pc, grant
<1>4. CASE db' = Snapshot(db) /\ side' = AtRest
  BY <1>2, <1>4, SnapshotOrdinary, RestFits, UntouchedStep DEF TypeOK, Ordinary
<1>5. CASE db' = Enter(e, "draining") /\ side' = owner /\ Known(s)
  <2>1. e.ack = s.ack /\ e.lastTok = s.lastTok
    BY <1>1 DEF RowType
  <2>2. /\ Enter(e, "draining").ack = e.ack /\ Enter(e, "draining").lastTok = e.lastTok
        /\ Enter(e, "draining").phase = "draining"
    BY <1>1 DEF Enter, RowType
  <2>3. owner.tok = tok /\ owner.pc = pc
    BY DEF TypeOK, SideType
  <2> HIDE DEF e, owner
  <2>4. db'.ack = db.ack /\ db'.lastTok = db.lastTok /\ db'.phase = "draining"
    BY <1>1, <1>5, <2>1, <2>2 DEF Ordinary, Untouched
  <2>5. db.phase # "unknown"
    BY <1>1, <1>5 DEF Ordinary, Untouched, Known, KNOWN_COORDINATOR_PHASES,
       BUSY_COORDINATOR_PHASES, DrainPhases
  <2>6. Fenced /\ UnknownUnanchored'
    BY <2>4, <2>5 DEF Fenced, UnknownUnanchored
  <2>7. SideFits(side)' /\ FileFits'
    BY <1>2, <1>3, <1>5, <2>3, <2>4 DEF SideFits, FileFits, OutcomeInv
  <2> QED BY <2>6, <2>7 DEF OutcomeInv
<1> QED BY <1>2, <1>4, <1>5

(* The renewals of the sidecar, and the drain it gives up. *)
LEMMA RenewalReplays ==
  ASSUME TypeOK, OutcomeInv,
         AwaitDrain \/ DrainTimeout \/ BeginInstall \/ KeepLease \/ KeeperGivesUp
  PROVE  OutcomeInv' /\ Fenced
<1>0. db \in RowType /\ side \in SideType /\ _progress_phase \in {"none", "installing", "rollback"}
  BY ProgressPhase DEF TypeOK
<1>1. Untouched(db, db')
  <2>1. CASE AwaitDrain
    BY <1>0, <2>1, RenewOrdinary DEF AwaitDrain, Ordinary
  <2>2. CASE DrainTimeout
    BY <1>0, <2>2, ReleaseUntouched DEF DrainTimeout
  <2>3. CASE BeginInstall
    BY <1>0, <2>3, RenewOrdinary DEF BeginInstall, Ordinary
  <2>4. CASE KeepLease
    BY <1>0, <2>4, RenewOrdinary DEF KeepLease, Ordinary
  <2>5. CASE KeeperGivesUp
    BY <2>5, SelfUntouched DEF KeeperGivesUp
  <2> QED BY <2>1, <2>2, <2>3, <2>4, <2>5
<1>2. /\ file' = file /\ ~file.told
      /\ \/ side' = AtRest \/ side' = side
         \/ side' = [side EXCEPT !.pc = "ready"] /\ side.pc = "drain"
         \/ side' = [side EXCEPT !.pc = "install"]
  BY WorkingUntold DEF AwaitDrain, DrainTimeout, BeginInstall, KeepLease, KeeperGivesUp, Kept
<1>3. /\ [side EXCEPT !.pc = "ready"].pc = "ready" /\ [side EXCEPT !.pc = "ready"].tok = side.tok
      /\ [side EXCEPT !.pc = "install"].pc = "install"
  BY <1>0 DEF SideType
<1>4. SideFits(side')
  BY <1>2, <1>3, RestFits DEF OutcomeInv, SideFits
<1> QED BY <1>1, <1>2, <1>4, UntouchedStep

(* The token of a drain that is ready is written down before it is used. *)
LEMMA PrepareReplays ==
  ASSUME TypeOK, OutcomeInv, Prepare
  PROVE  OutcomeInv' /\ Fenced
<1>1. /\ db' = db /\ ~file.told /\ side.tok # db.lastTok
      /\ side' \in {[side EXCEPT !.pc = "prepared"], [side EXCEPT !.pc = "recover"]}
  BY WorkingUntold DEF Prepare, OutcomeInv, SideFits
<1>2. file'.tok = side.tok /\ file'.told = FALSE
  <2>1. CASE file = NoFile
    BY <2>1 DEF Prepare
  <2>2. CASE file # NoFile
    BY <1>1, <2>2 DEF Prepare, TypeOK, FileType
  <2> QED BY <2>1, <2>2
<1>3. side'.pc \in {"prepared", "recover"}
  BY <1>1 DEF TypeOK, SideType
<1>4. Fenced /\ UnknownUnanchored'
  BY <1>1 DEF Fenced, OutcomeInv, UnknownUnanchored
<1>5. SideFits(side)' /\ FileFits'
  BY <1>1, <1>2, <1>3 DEF SideFits, FileFits
<1> QED BY <1>4, <1>5 DEF OutcomeInv

(* The renewal a rollback opens with. *)
LEMMA RollbackRenewsOrdinary ==
  ASSUME TypeOK, NEW pc \in {"rollback", "offline"}, RollbackRenews(pc)
  PROVE  /\ Ordinary(db, db')
         /\ side' = AtRest \/ (side' = [side EXCEPT !.pc = pc] /\ side'.pc = pc)
         /\ side' # AtRest /\ up => Unreachable \/ (Holds(db', file.tok) /\ db'.drain.ttl >= 1)
<1> DEFINE ans == renew_drain_progress(db, file.tok, "rollback")
<1>0. db \in RowType /\ [side EXCEPT !.pc = pc].pc = pc
  BY DEF TypeOK, SideType
<1>1. Ordinary(db, ans.db) /\ (ans.ready => Holds(ans.db, file.tok) /\ ans.db.drain.ttl >= 1)
  BY <1>0, RenewOrdinary
<1>2. \/ db' = ans.db /\ side' = AtRest
      \/ db' = ans.db /\ side' = [side EXCEPT !.pc = pc] /\ ans.ready
      \/ db' = db /\ side' = [side EXCEPT !.pc = pc] /\ Unreachable
  BY DEF RollbackRenews
<1> HIDE DEF ans
<1> QED BY <1>0, <1>1, <1>2, SelfOrdinary

(* The cutover and the rollback, under way or offline. *)
LEMMA InstallReplays ==
  ASSUME TypeOK, OutcomeInv,
         \/ RequestStop \/ StopOld \/ StartCandidate \/ CandidateHealthy \/ BeginRollback
         \/ OfflineRollback \/ StopForRollback \/ StartClone \/ CloneHealthy
  PROVE  OutcomeInv' /\ Fenced
<1>1. ~file.told /\ file # NoFile
  BY WorkingUntold DEF RequestStop, StopOld, StartCandidate, CandidateHealthy, BeginRollback,
     OfflineRollback, StopForRollback, StartClone, CloneHealthy, NoFile, OutcomeInv, FileFits,
     Replayable, Reportable
<1>2. PICK stage \in Stages : file' = [file EXCEPT !.stage = stage]
  <2>1. CASE BeginRollback \/ OfflineRollback
    <3>1. PICK stage \in {"cloned", "restored", "rolling"} : file' = [file EXCEPT !.stage = stage]
      BY <2>1 DEF BeginRollback, OfflineRollback
    <3> QED BY <3>1 DEF Stages
  <2>2. CASE RequestStop \/ StopOld \/ StartCandidate \/ CandidateHealthy
    BY <2>2 DEF RequestStop, StopOld, StartCandidate, CandidateHealthy, Stages
  <2>3. CASE StopForRollback \/ StartClone \/ CloneHealthy
    BY <2>3 DEF StopForRollback, StartClone, CloneHealthy, Stages
  <2> QED BY <2>1, <2>2, <2>3
<1>3. /\ Untouched(db, db')
      /\ side'.pc \in {"install", "report", "rest", "rollback", "offline"}
  <2>1. CASE BeginRollback
    BY <2>1, RollbackRenewsOrdinary, RestType DEF BeginRollback, Ordinary
  <2>2. CASE OfflineRollback
    BY <2>2, RollbackRenewsOrdinary, RestType DEF OfflineRollback, Ordinary
  <2>3. CASE RequestStop \/ StopOld \/ StartCandidate
    BY <2>3, SelfUntouched DEF RequestStop, StopOld, StartCandidate
  <2>4. CASE StopForRollback \/ StartClone
    BY <2>4, SelfUntouched DEF StopForRollback, StartClone
  <2>5. CASE CandidateHealthy \/ CloneHealthy
    <3>1. [side EXCEPT !.pc = "report"].pc = "report"
      BY DEF TypeOK, SideType
    <3> QED BY <2>5, <3>1, RestType, SelfUntouched DEF CandidateHealthy, CloneHealthy
  <2> QED BY <2>1, <2>2, <2>3, <2>4, <2>5
<1> QED BY <1>1, <1>2, <1>3, StageMoves

(* An outcome that is recorded once is accepted again, and only its own generation is   *)
(* settled by it.                                                                  *)
LEMMA ReplayAccepted ==
  ASSUME TypeOK, FileFits, file.told
  PROVE  acknowledge_outcome(db, file.tok, file.gen, OutcomeOf(file.stage)).ok
<1> DEFINE s == Snapshot(db)
<1>1. Untouched(db, s)
  BY SnapshotOrdinary DEF TypeOK, Ordinary
<1>2. Known(s) /\ ~Holds(s, file.tok)
  BY <1>1 DEF FileFits, Replayable, Untouched, Holds, Draining
<1>3. s.ack = file.gen /\ s.lastTok = file.tok /\ s.lastRes = OutcomeOf(file.stage)
  BY <1>1 DEF FileFits, Replayable, Untouched
<1> QED BY <1>2, <1>3 DEF acknowledge_outcome

LEMMA ReportReplays ==
  ASSUME TypeOK, OutcomeInv, NEW heard \in BOOLEAN, Report(heard)
  PROVE  OutcomeInv' /\ Fenced
<1> DEFINE res == OutcomeOf(file.stage)
           ans == acknowledge_outcome(db, file.tok, file.gen, res)
           told == [file EXCEPT !.told = TRUE]
           relet == [side EXCEPT !.pc = "relet"]
<1>0. db \in RowType /\ file.tok \in Token /\ file.gen \in Nat /\ res \in Results
  BY DEF TypeOK, FileType, OutcomeOf, Results
<1>1. /\ db' = ans.db
      /\ file.stage \in Reportable /\ file # NoFile
      /\ \/ ans.ok /\ side' = AtRest /\ (file' = NoFile \/ file' = told)
         \/ ~ans.ok /\ file' = file /\ side' \in {AtRest, relet}
  BY DEF Report, Reportable, NoFile
<1>2. file.told => ans.ok
  BY ReplayAccepted DEF OutcomeInv
<1>3. \/ /\ Ordinary(db, ans.db)
         /\ ans.ok => db.ack = file.gen /\ db.lastTok = file.tok /\ db.lastRes = res /\ Known(db)
      \/ /\ Settled(db, ans.db, res) /\ db.gen = file.gen
         /\ ans.db.ack = file.gen /\ ans.db.lastTok = file.tok /\ ans.db.action = "none"
         /\ ans.db.drain = NoDrain
  BY <1>0, AckOutcomeSettles
<1>4. relet.pc = "relet" /\ told.told = TRUE /\ told.tok = file.tok /\ told.gen = file.gen
      /\ told.stage = file.stage
  BY DEF TypeOK, SideType, FileType
<1>5. NoFile.told = FALSE
  BY DEF NoFile
<1> HIDE DEF ans, told, relet, res
<1>6. CASE ~ans.ok
  <2>1. SideFits(side')
    BY <1>1, <1>2, <1>4, <1>6, RestFits DEF SideFits
  <2>2. CASE Ordinary(db, ans.db)
    BY <1>1, <1>6, <2>1, <2>2, UntouchedStep DEF Ordinary
  <2>3. CASE /\ Settled(db, ans.db, res) /\ db.gen = file.gen
             /\ ans.db.ack = file.gen /\ ans.db.lastTok = file.tok /\ ans.db.action = "none"
             /\ ans.db.drain = NoDrain
    <3>1. ans.ok
      <4>1. ans.db.drain = NoDrain /\ ans.db.lastTok = file.tok /\ db.lastTok # file.tok
        BY <1>1, <1>2, <1>6, <2>3 DEF OutcomeInv, FileFits
      <4>2. ~ans.ok => ans.db = Snapshot(db)
        BY DEF ans, acknowledge_outcome, Refused
      <4>3. Snapshot(db).lastTok = db.lastTok
        BY <1>0, SnapshotOrdinary DEF Ordinary, Untouched
      <4> QED BY <4>1, <4>2, <4>3
    <3> QED BY <1>6, <3>1
  <2> QED BY <1>3, <2>2, <2>3
<1>7. CASE ans.ok
  <2>1. side' = AtRest /\ (file' = NoFile \/ file' = told)
    BY <1>1, <1>7
  <2>2. SideFits(side)'
    BY <2>1, RestType DEF SideFits
  <2>3. CASE Ordinary(db, ans.db) /\ db.ack = file.gen /\ db.lastTok = file.tok /\ db.lastRes = res
    <3>1. file.told /\ Replayable
      BY <1>1, <2>3 DEF OutcomeInv, FileFits
    <3>2. Fenced
      BY <1>1, <2>3 DEF Ordinary, Untouched, Fenced, Coordinator
    <3>3. UnknownUnanchored'
      BY <1>1, <2>3 DEF OutcomeInv, UnknownUnanchored, Ordinary, Untouched, TypeOK, RowType,
         Phases, Known, KNOWN_COORDINATOR_PHASES, BUSY_COORDINATOR_PHASES, DrainPhases
    <3>4. FileFits'
      <4>1. CASE file' = NoFile
        BY <1>5, <4>1 DEF FileFits
      <4>2. CASE file' = told
        BY <1>1, <1>4, <2>3, <3>1, <4>2 DEF FileFits, Replayable, Ordinary, Untouched, Known
      <4> QED BY <2>1, <4>1, <4>2
    <3> QED BY <2>2, <3>2, <3>3, <3>4 DEF OutcomeInv
  <2>4. CASE /\ Settled(db, ans.db, res) /\ db.gen = file.gen
             /\ ans.db.ack = file.gen /\ ans.db.lastTok = file.tok /\ ans.db.action = "none"
             /\ ans.db.drain = NoDrain
    <3>1. Fenced
      BY <1>1, <2>4 DEF Settled, Fenced
    <3>2. UnknownUnanchored'
      BY <1>1, <2>4 DEF Settled, UnknownUnanchored, Known, KNOWN_COORDINATOR_PHASES,
         BUSY_COORDINATOR_PHASES, DrainPhases
    <3>3. FileFits'
      <4>1. CASE file' = NoFile
        BY <1>5, <4>1 DEF FileFits
      <4>2. CASE file' = told
        <5>1. db'.gen >= file.gen
          BY <1>0, <1>1, <2>4 DEF Settled
        <5> QED BY <1>1, <1>4, <2>4, <4>2, <5>1 DEF FileFits, Replayable, Settled, Known, res
      <4> QED BY <2>1, <4>1, <4>2
    <3> QED BY <2>2, <3>1, <3>2, <3>3 DEF OutcomeInv
  <2> QED BY <1>3, <1>7, <2>3, <2>4
<1> QED BY <1>6, <1>7

(* The lease of a recovery: an outcome recorded unheard finds no drain to renew, and   *)
(* none to claim for a generation that is settled.                                   *)
LEMMA RecoverReplays ==
  ASSUME TypeOK, OutcomeInv,
         RecoverReport \/ RecoverLease \/ \E p \in Policies : RecoverClaim(p)
  PROVE  OutcomeInv' /\ Fenced
<1>1. CASE RecoverReport
  <2>1. [side EXCEPT !.pc = "report"].pc = "report"
    BY DEF TypeOK, SideType
  <2>2. SideFits(side')
    BY <1>1, <2>1, WorkingUntold DEF RecoverReport, SideFits
  <2> QED BY <1>1, <2>2, SelfUntouched, UntouchedStep DEF RecoverReport
<1>2. CASE RecoverLease
  <2> DEFINE ans == renew_drain_progress(db, file.tok, _progress_phase)
             reclaim == [side EXCEPT !.pc = "reclaim"]
             recover == [side EXCEPT !.pc = "recover", !.tok = file.tok, !.gen = file.gen]
  <2>1. Ordinary(db, ans.db) /\ (ans.ok => Draining(db))
    BY RenewOrdinary, ProgressPhase DEF TypeOK
  <2>2. /\ db' = ans.db /\ file' = file
        /\ side' = IF ~ans.ok THEN reclaim ELSE IF ans.ready THEN recover ELSE AtRest
    BY <1>2 DEF RecoverLease
  <2> HIDE DEF ans
  <2>3. reclaim.pc = "reclaim" /\ recover.pc = "recover"
    BY DEF TypeOK, SideType
  <2> HIDE DEF reclaim, recover
  <2>4. file.told => ~ans.ok
    BY <2>1 DEF OutcomeInv, FileFits, Replayable, Draining
  <2>5. SideFits(side')
    BY <2>2, <2>3, <2>4, RestFits DEF SideFits
  <2> QED BY <2>1, <2>2, <2>5, UntouchedStep DEF Ordinary
<1>3. ASSUME NEW p \in Policies, RecoverClaim(p) PROVE OutcomeInv' /\ Fenced
  <2> DEFINE s == Snapshot(db)
             claiming == [AtRest EXCEPT !.pc = "claiming", !.gen = s.gen, !.idle = p.idle]
  <2>1. Untouched(db, s)
    BY SnapshotOrdinary DEF TypeOK, Ordinary
  <2>2. /\ db' = s /\ file' = file
        /\ side' = AtRest \/ (side' = claiming /\ s.action = "install" /\ s.gen = file.gen)
    BY <1>3 DEF RecoverClaim
  <2> HIDE DEF s
  <2>3. claiming.pc = "claiming"
    BY DEF AtRest
  <2> HIDE DEF claiming
  <2>4. file.told => side' = AtRest
    BY <2>1, <2>2 DEF OutcomeInv, FileFits, Replayable, Untouched
  <2>5. SideFits(side')
    BY <2>2, <2>3, <2>4, RestFits DEF SideFits
  <2> QED BY <2>1, <2>2, <2>5, UntouchedStep
<1> QED BY <1>1, <1>2, <1>3

(* The clock, and a crash of the sidecar. *)
LEMMA TickReplays ==
  ASSUME TypeOK, OutcomeInv, Tick \/ SidecarCrash
  PROVE  OutcomeInv' /\ Fenced
<1>1. CASE SidecarCrash
  BY <1>1, SelfUntouched, RestFits, UntouchedStep DEF SidecarCrash
<1>2. CASE Tick
  <2> DEFINE crit == [w \in Workers |-> Left(db.crit[w])]
             drain == [db.drain EXCEPT !.ttl = Left(db.drain.ttl)]
             anchor == IF db.anchor = Unset \/ db.anchor = RecoveryAge THEN db.anchor ELSE db.anchor + 1
  <2>1. db' = [db EXCEPT !.crit = crit, !.drain = drain, !.anchor = anchor]
    BY <1>2 DEF Tick, TypeOK, RowType
  <2>2. db.phase = "unknown" => anchor = db.anchor
    BY DEF OutcomeInv, UnknownUnanchored
  <2>3. db.drain = NoDrain => drain = NoDrain
    BY DEF NoDrain, Left, Unset
  <2> HIDE DEF crit, drain, anchor
  <2>4. /\ db'.action = db.action /\ db'.gen = db.gen /\ db'.ack = db.ack /\ db'.avail = db.avail
        /\ db'.lastTok = db.lastTok /\ db'.lastRes = db.lastRes /\ db'.phase = db.phase
        /\ db'.anchor = anchor /\ db'.drain = drain
    BY <2>1 DEF TypeOK, RowType
  <2>5. Untouched(db, db')
    BY <2>2, <2>3, <2>4 DEF Untouched, Known
  <2>6. SideFits(side')
    BY <1>2 DEF Tick, OutcomeInv
  <2> QED BY <1>2, <2>5, <2>6, UntouchedStep DEF Tick
<1> QED BY <1>1, <1>2

(* Every step. *)
LEMMA OutcomeStep ==
  ASSUME TypeOK, OutcomeInv, [Next]_vars
  PROVE  OutcomeInv' /\ Fenced
<1>1. CASE Critical
  BY <1>1, CriticalReplays
<1>2. CASE OperatorStep
  BY <1>2, OperatorReplays
<1>3. CASE CheckStep
  BY <1>3, HeartbeatReplays, CheckReplays DEF CheckStep
<1>4. CASE ClaimStep
  BY <1>4, CheckReplays, ClaimReplays, RenewalReplays, PollReplays DEF ClaimStep
<1>5. CASE InstallStep
  BY <1>5, PrepareReplays, RenewalReplays, InstallReplays DEF InstallStep
<1>6. CASE RecoverStep
  BY <1>6, InstallReplays, RecoverReplays DEF RecoverStep
<1>7. CASE \E p \in Policies, due \in BOOLEAN : Poll(p, due)
  BY <1>7, PollReplays
<1>8. CASE \E heard \in BOOLEAN : Report(heard)
  BY <1>8, ReportReplays
<1>9. CASE KeepLease \/ KeeperGivesUp \/ SidecarCrash \/ Tick
  BY <1>9, RenewalReplays, TickReplays
<1>10. CASE UNCHANGED vars
  <2>1. db' = db /\ file' = file /\ side' = side
    BY <1>10 DEF vars
  <2> QED BY <2>1, SelfUntouched, UntouchedStep DEF OutcomeInv
<1> QED BY <1>1, <1>2, <1>3, <1>4, <1>5, <1>6, <1>7, <1>8, <1>9, <1>10 DEF Next

LEMMA OutcomeInvariant == Spec => []OutcomeInv
<1>1. TypeOK /\ OutcomeInv /\ [Next]_vars => OutcomeInv'
  BY OutcomeStep
<1>2. Init => OutcomeInv
  BY OutcomeInit
<1> QED BY <1>1, <1>2, LeaseTypeCorrect, PTL DEF Spec

(* Whatever happens between a lost answer and its repetition -- crashes, resets, new      *)
(* requests, expiring leases -- the outcome the coordinator recorded is accepted again.   *)
THEOREM ReplayNeverLost == Spec => []LostAnswerReplays
<1>1. TypeOK /\ OutcomeInv => LostAnswerReplays
  BY ReplayAccepted DEF OutcomeInv, LostAnswerReplays
<1> QED BY <1>1, LeaseTypeCorrect, OutcomeInvariant, PTL

(* A fenced generation is never settled, and a row of an unknown phase is left to the     *)
(* audited reset, for every policy, lease length and number of generations.             *)
THEOREM FencesAlways == Spec => FencesHold
<1>1. TypeOK /\ OutcomeInv /\ [Next]_vars => [Fenced]_vars
  BY OutcomeStep
<1> QED BY <1>1, LeaseTypeCorrect, OutcomeInvariant, PTL DEF Spec, FencesHold

----------------------------------------------------------------------------
(* The stop, in a system that is prompt.  First a step that leaves the bodies, the      *)
(* application and the sidecar's place alone, and one after which the sidecar is       *)
(* nowhere near a stop.                                                            *)
LEMMA StopStays ==
  ASSUME TypeOK, StopInv, KeepsCritical(db, db'), KeepsDrain(db, db'),
         running' = running, up' = up, file' = file, side' = side
  PROVE  StopInv' /\ StopsDrained
<1>1. running' \subseteq Workers /\ \A w \in running' : db'.crit[w] >= 1
  BY DEF TypeOK, StopInv, KeepsCritical
<1>2. LeaseHeld => LeaseHeld'
  BY DEF LeaseHeld, KeepsDrain, Holds
<1> QED BY <1>1, <1>2 DEF StopInv, StopsDrained

LEMMA StopAway ==
  ASSUME TypeOK, StopInv, KeepsCritical(db, db'), running' = running, up' = up,
         side'.pc \notin {"install", "rollback", "offline"}
  PROVE  StopInv' /\ StopsDrained
BY DEF TypeOK, StopInv, StopsDrained, KeepsCritical

(* Critical work: who starts has its full time, who ends runs no more. *)
LEMMA CriticalStops ==
  ASSUME TypeOK, StopInv, Critical
  PROVE  StopInv' /\ StopsDrained
<1>1. PICK w \in Workers : \/ acquire_critical(w) \/ EndCritical(w)
                           \/ RenewCritical(w) \/ RenewCriticalFails(w)
  BY DEF Critical
<1> DEFINE s == Sweep(db)
<1>2. KeepsCritical(db, s) /\ KeepsDrain(db, s) /\ s \in RowType
  BY SweepOrdinary DEF TypeOK, Ordinary
<1>3. /\ file' = file /\ side' = side /\ up' = up
      /\ \/ db' = s /\ running' \subseteq running
         \/ db' = [s EXCEPT !.crit[w] = CritTTL] /\ running' \subseteq running \cup {w} /\ up
         \/ db' = [s EXCEPT !.crit[w] = Unset] /\ running' = running \ {w}
         \/ db' = db /\ running' \subseteq running
  BY <1>1 DEF acquire_critical, EndCritical, RenewCritical, RenewCriticalFails, s, StopInv
<1> HIDE DEF s
<1>4. ASSUME NEW n
      PROVE  LET e == [s EXCEPT !.crit[w] = n]
             IN e.drain = s.drain /\ e.crit = [s.crit EXCEPT ![w] = n]
  BY <1>2 DEF RowType
<1>5. s.crit \in [Workers -> Unset .. CritTTL]
  BY <1>2 DEF RowType
<1>6. running' \subseteq Workers /\ (\A v \in running' : db'.crit[v] >= 1) /\ KeepsDrain(db, db')
  <2>1. CASE db' = s /\ running' \subseteq running
    BY <1>2, <2>1 DEF TypeOK, StopInv, KeepsCritical
  <2>2. CASE db' = [s EXCEPT !.crit[w] = CritTTL] /\ running' \subseteq running \cup {w} /\ up
    <3>1. db'.drain = s.drain /\ db'.crit = [s.crit EXCEPT ![w] = CritTTL]
      BY <1>4, <2>2
    <3>2. \A v \in running' : db'.crit[v] >= 1
      BY <1>2, <1>5, <2>2, <3>1, LeaseAssumption DEF TypeOK, StopInv, KeepsCritical
    <3> QED BY <1>2, <2>2, <3>1, <3>2 DEF TypeOK, KeepsDrain, Draining
  <2>3. CASE db' = [s EXCEPT !.crit[w] = Unset] /\ running' = running \ {w}
    <3>1. db'.drain = s.drain /\ db'.crit = [s.crit EXCEPT ![w] = Unset]
      BY <1>4, <2>3
    <3>2. \A v \in running' : db'.crit[v] >= 1
      BY <1>2, <1>5, <2>3, <3>1 DEF TypeOK, StopInv, KeepsCritical
    <3> QED BY <1>2, <2>3, <3>1, <3>2 DEF TypeOK, KeepsDrain, Draining
  <2>4. CASE db' = db /\ running' \subseteq running
    BY <2>4 DEF TypeOK, StopInv, KeepsDrain
  <2> QED BY <1>3, <2>1, <2>2, <2>3, <2>4
<1>7. LeaseHeld => LeaseHeld'
  BY <1>3, <1>6 DEF LeaseHeld, KeepsDrain, Holds
<1>8. ~up => running' = {}
  BY <1>3, <1>6, <1>1 DEF StopInv, acquire_critical, EndCritical, RenewCritical, RenewCriticalFails
<1> QED BY <1>3, <1>6, <1>7, <1>8 DEF StopInv, StopsDrained

(* The operator's buttons change no lease that has time left. *)
LEMMA OperatorStops ==
  ASSUME TypeOK, StopInv, OperatorStep
  PROVE  StopInv' /\ StopsDrained
<1> DEFINE s == Snapshot(db)
<1>1. Ordinary(db, s) /\ s \in RowType
  BY SnapshotOrdinary DEF TypeOK, Ordinary
<1>2. running' = running /\ up' = up /\ file' = file /\ side' = side
  BY DEF OperatorStep, request_action, force_reset_phase
<1>3. db'.drain = s.drain /\ db'.crit = s.crit
  <2>1. ASSUME NEW gen, NEW action
        PROVE  LET e == [s EXCEPT !.action = action, !.gen = gen]
               IN e.drain = s.drain /\ e.crit = s.crit
    BY <1>1 DEF RowType
  <2>3. Enter(s, "idle").drain = s.drain /\ Enter(s, "idle").crit = s.crit
    BY <1>1 DEF RowType, Enter
  <2>4. ASSUME NEW action \in {"check", "install"}, request_action(action)
        PROVE  db'.drain = s.drain /\ db'.crit = s.crit
    <3>1. db' = s \/ db' = [s EXCEPT !.action = action, !.gen = s.gen + 1]
      BY <2>4 DEF request_action
    <3> HIDE DEF s
    <3> QED BY <2>1, <3>1
  <2>5. CASE force_reset_phase
    <3> DEFINE action == IF s.action \notin KNOWN_REQUESTED_ACTIONS THEN "none" ELSE s.action
               gen == s.gen + 1
               fenced == [s EXCEPT !.gen = gen, !.action = action]
    <3>1. db' = s \/ db' = fenced \/ db' = Enter(fenced, "idle") \/ db' = Enter(s, "idle")
      BY <2>5 DEF force_reset_phase
    <3> HIDE DEF s, action, gen
    <3>2. /\ fenced.drain = s.drain /\ fenced.crit = s.crit
          /\ Enter(fenced, "idle").drain = s.drain /\ Enter(fenced, "idle").crit = s.crit
      BY <1>1 DEF RowType, Enter
    <3> HIDE DEF fenced
    <3> QED BY <2>3, <3>1, <3>2
  <2> QED BY <2>4, <2>5 DEF OperatorStep
<1> HIDE DEF s
<1>4. KeepsCritical(db, db') /\ KeepsDrain(db, db')
  BY <1>1, <1>3 DEF Ordinary, KeepsCritical, KeepsDrain, Draining
<1> QED BY <1>2, <1>4, StopStays

(* Up to the claim the sidecar is nowhere near a stop; nor is it when it reports, or      *)
(* asks for the lease of a recovery.                                                *)
LEMMA ElsewhereStops ==
  ASSUME TypeOK, StopInv,
         \/ CheckStep \/ ClaimStep \/ Prepare \/ CandidateHealthy \/ CloneHealthy
         \/ \E p \in Policies, due \in BOOLEAN : Poll(p, due)
         \/ \E heard \in BOOLEAN : Report(heard)
         \/ RecoverReport \/ RecoverLease \/ \E p \in Policies : RecoverClaim(p)
         \/ KeeperGivesUp \/ SidecarCrash
  PROVE  StopInv' /\ StopsDrained
<1>0. db \in RowType /\ side \in SideType /\ file \in FileType
  BY DEF TypeOK
<1>1. running' = running /\ up' = up
  BY DEF CheckStep, ClaimStep, Prepare, CandidateHealthy, CloneHealthy, Poll, Report, RecoverReport,
     RecoverLease, RecoverClaim, KeeperGivesUp, SidecarCrash, Heartbeat, ReportCheck, RejectTarget,
     claim_drain, AwaitDrain, DrainTimeout, ClaimDecide
<1>2. side'.pc \notin {"install", "rollback", "offline"}
  <2>1. ASSUME NEW pc PROVE [side EXCEPT !.pc = pc].pc = pc
    BY <1>0 DEF SideType
  <2>2. CASE CheckStep
    BY <2>1, <2>2, RestType DEF CheckStep, Heartbeat, ReportCheck
  <2>3. CASE RejectTarget \/ AwaitDrain \/ DrainTimeout
    BY <2>1, <2>3, RestType DEF RejectTarget, AwaitDrain, DrainTimeout
  <2>4. CASE claim_drain
    <3> DEFINE s == Sweep(db)
               gen == IF side.mat THEN s.gen + 1 ELSE s.gen
               tok == NewToken
               pc == IF Quiet(s) THEN "ready" ELSE "drain"
               owner == [side EXCEPT !.tok = tok, !.gen = gen, !.pc = pc]
    <3>1. (side' = AtRest \/ side' = owner) /\ pc \in {"ready", "drain"}
      BY <2>4 DEF claim_drain
    <3> HIDE DEF s, gen, tok, pc
    <3>2. owner.pc = pc
      BY <1>0 DEF SideType
    <3> QED BY <3>1, <3>2, RestType
  <2>5. ASSUME NEW p \in Policies, NEW due \in BOOLEAN, ClaimDecide(p, due)
        PROVE  side'.pc \notin {"install", "rollback", "offline"}
    BY <1>0, <2>5, RestType DEF ClaimDecide, SideType
  <2>6. CASE Prepare \/ CandidateHealthy \/ CloneHealthy \/ RecoverReport \/ KeeperGivesUp \/ SidecarCrash
    BY <2>1, <2>6, RestType DEF Prepare, CandidateHealthy, CloneHealthy, RecoverReport,
       KeeperGivesUp, SidecarCrash
  <2>7. ASSUME NEW p \in Policies, NEW due \in BOOLEAN, Poll(p, due)
        PROVE  side'.pc \notin {"install", "rollback", "offline"}
    BY <2>7, RestType DEF Poll, AtRest
  <2>8. ASSUME NEW heard \in BOOLEAN, Report(heard)
        PROVE  side'.pc \notin {"install", "rollback", "offline"}
    BY <2>1, <2>8, RestType DEF Report
  <2>9. CASE RecoverLease
    BY <1>0, <2>9, RestType DEF RecoverLease, SideType
  <2>10. ASSUME NEW p \in Policies, RecoverClaim(p)
         PROVE  side'.pc \notin {"install", "rollback", "offline"}
    BY <2>10, RestType DEF RecoverClaim, AtRest
  <2> QED BY <2>2, <2>3, <2>4, <2>5, <2>6, <2>7, <2>8, <2>9, <2>10 DEF ClaimStep
<1>3. KeepsCritical(db, db')
  <2>1. KeepsCritical(db, Snapshot(db)) /\ Snapshot(db) \in RowType /\ KeepsCritical(db, db)
    BY <1>0, SnapshotOrdinary, SelfOrdinary DEF Ordinary
  <2>2. CASE Heartbeat
    <3>1. db' = Snapshot(db) \/ db' = Enter(Snapshot(db), "checking")
      BY <2>2 DEF Heartbeat
    <3>2. Enter(Snapshot(db), "checking").crit = Snapshot(db).crit
      BY <2>1 DEF Enter, RowType
    <3> QED BY <2>1, <3>1, <3>2 DEF KeepsCritical
  <2>3. ASSUME NEW res \in {"failed", "no_update", "update_available"},
               db' = acknowledge_action(db, side.gen, res).db
        PROVE  KeepsCritical(db, db')
    BY <1>0, <2>3, AckActionSettles DEF Results, SideType, Ordinary, Settled
  <2>4. CASE RejectTarget \/ \E res \in {"failed", "no_update", "update_available"} : ReportCheck(res)
    BY <2>3, <2>4 DEF RejectTarget, ReportCheck
  <2>5. ASSUME NEW p \in Policies, NEW due \in BOOLEAN, Poll(p, due) \/ ClaimDecide(p, due)
        PROVE  KeepsCritical(db, db')
    <3>1. \E act : db' = Handout(Snapshot(db), p, act)
      BY <2>5 DEF Poll, ClaimDecide
    <3> QED BY <2>1, <3>1, HandoutOrdinary DEF Ordinary, KeepsCritical
  <2>6. CASE claim_drain
    <3> DEFINE s == Sweep(db)
    <3>1. s \in RowType /\ KeepsCritical(db, s)
      BY <1>0, SweepOrdinary DEF Ordinary
    <3> DEFINE gen == IF side.mat THEN s.gen + 1 ELSE s.gen
               grant == [tok |-> NewToken, gen |-> gen, ttl |-> DrainTTL]
               action == IF side.mat THEN "install" ELSE s.action
               e == [s EXCEPT !.drain = grant, !.gen = gen, !.action = action]
    <3>2. db' = Snapshot(db) \/ db' = Enter(e, "draining")
      BY <2>6 DEF claim_drain
    <3> HIDE DEF s, gen, grant, action
    <3>3. Enter(e, "draining").crit = s.crit
      BY <3>1 DEF Enter, RowType
    <3> HIDE DEF e
    <3> QED BY <2>1, <3>1, <3>2, <3>3 DEF KeepsCritical
  <2>7. CASE AwaitDrain
    BY <1>0, <2>7, RenewOrdinary DEF AwaitDrain, Ordinary
  <2>8. CASE DrainTimeout
    BY <1>0, <2>8, ReleaseUntouched DEF DrainTimeout
  <2>9. CASE Prepare \/ CandidateHealthy \/ CloneHealthy \/ RecoverReport \/ KeeperGivesUp \/ SidecarCrash
    BY <2>1, <2>9 DEF Prepare, CandidateHealthy, CloneHealthy, RecoverReport, KeeperGivesUp, SidecarCrash
  <2>10. ASSUME NEW heard \in BOOLEAN, Report(heard) PROVE KeepsCritical(db, db')
    <3>1. file.tok \in Token /\ file.gen \in Nat /\ OutcomeOf(file.stage) \in Results
      BY <1>0 DEF FileType, OutcomeOf, Results
    <3> QED BY <1>0, <2>10, <3>1, AckOutcomeSettles DEF Report, Ordinary, Settled
  <2>11. CASE RecoverLease
    BY <1>0, <2>11, ProgressPhase, RenewOrdinary DEF RecoverLease, Ordinary
  <2>12. ASSUME NEW p \in Policies, RecoverClaim(p) PROVE KeepsCritical(db, db')
    BY <2>1, <2>12 DEF RecoverClaim
  <2> QED BY <2>2, <2>4, <2>5, <2>6, <2>7, <2>8, <2>9, <2>10, <2>11, <2>12 DEF CheckStep, ClaimStep
<1> QED BY <1>1, <1>2, <1>3, StopAway

(* The drain of a sidecar that works on its file has no critical body beside it. *)
LEMMA HeldIsDrained ==
  ASSUME TypeOK, StopInv, ReadyExcludesCritical, file # NoFile, LeaseHeld
  PROVE  running = {}
BY DEF TypeOK, StopInv, ReadyExcludesCritical, LeaseHeld, Quiet, Unset

(* The cutover and the rollback. *)
LEMMA InstallStops ==
  ASSUME Prompt, TypeOK, StopInv, ReadyExcludesCritical,
         \/ RequestStop \/ StopOld \/ StartCandidate \/ BeginRollback
         \/ OfflineRollback \/ StopForRollback \/ StartClone
  PROVE  StopInv' /\ StopsDrained
<1>0. ASSUME NEW stage PROVE LET f == [file EXCEPT !.stage = stage] IN f.stage = stage /\ f.tok = file.tok
  BY DEF TypeOK, FileType
<1>1. CASE RequestStop
  <2>1. file'.stage = "stopping" /\ file'.tok = file.tok
    BY <1>0, <1>1 DEF RequestStop
  <2> QED BY <1>1, <2>1 DEF RequestStop, StopInv, StopsDrained, LeaseHeld
<1>2. CASE StopOld
  <2>1. file'.stage = "stopped" /\ file # NoFile
    BY <1>0, <1>2 DEF StopOld, NoFile
  <2>2. running = {}
    BY <1>2, <2>1, HeldIsDrained DEF StopOld, StopInv
  <2> QED BY <1>2, <2>1, <2>2 DEF StopOld, StopInv, StopsDrained
<1>3. CASE StartCandidate
  <2>1. file'.stage = "started"
    BY <1>0, <1>3 DEF StartCandidate
  <2> QED BY <1>3, <2>1 DEF StartCandidate, StopInv, StopsDrained
<1>4. CASE BeginRollback
  <2>1. file'.tok = file.tok
    BY <1>0, <1>4 DEF BeginRollback
  <2>2. /\ running' = running /\ up' = up /\ KeepsCritical(db, db')
        /\ side'.pc \in {"rest", "rollback"}
        /\ side'.pc = "rollback" /\ up => Holds(db', file.tok) /\ db'.drain.ttl >= 1
    BY <1>4, RollbackRenewsOrdinary, RestType DEF BeginRollback, Ordinary, Unreachable
  <2> QED BY <2>1, <2>2 DEF TypeOK, StopInv, StopsDrained, KeepsCritical, LeaseHeld
<1>5. CASE OfflineRollback
  <2>1. /\ running' = running /\ up' = up /\ ~up /\ KeepsCritical(db, db')
        /\ side'.pc \in {"rest", "offline"}
    BY <1>5, RollbackRenewsOrdinary, RestType DEF OfflineRollback, Ordinary, Unreachable
  <2> QED BY <2>1 DEF TypeOK, StopInv, StopsDrained, KeepsCritical
<1>6. CASE StopForRollback
  <2>1. file'.stage = "rolling" /\ file # NoFile
    BY <1>0, <1>6 DEF StopForRollback, NoFile
  <2>2. running = {}
    BY <1>6, <2>1, HeldIsDrained DEF StopForRollback, StopInv
  <2> QED BY <1>6, <2>1, <2>2 DEF StopForRollback, StopInv, StopsDrained
<1>7. CASE StartClone
  <2>1. file'.stage = "cloned"
    BY <1>0, <1>7 DEF StartClone
  <2> QED BY <1>7, <2>1 DEF StartClone, StopInv, StopsDrained
<1> QED BY <1>1, <1>2, <1>3, <1>4, <1>5, <1>6, <1>7

(* The renewals before and beside the install: "ready" says that the drain is held. *)
LEMMA RenewalStops ==
  ASSUME TypeOK, StopInv, BeginInstall \/ KeepLease
  PROVE  StopInv' /\ StopsDrained
<1>0. db \in RowType /\ _progress_phase \in {"none", "installing", "rollback"}
      /\ [side EXCEPT !.pc = "install"].pc = "install"
  BY ProgressPhase DEF TypeOK, SideType
<1>1. PICK phase \in {"none", "installing", "rollback"} :
        LET ans == renew_drain_progress(db, file.tok, phase)
        IN /\ db' = ans.db
           /\ \/ side' = AtRest
              \/ ans.ready /\ side' = [side EXCEPT !.pc = "install"] /\ up
              \/ side' = side
  BY <1>0 DEF BeginInstall, KeepLease
<1> DEFINE ans == renew_drain_progress(db, file.tok, phase)
<1>2. Ordinary(db, ans.db) /\ (ans.ready => Holds(ans.db, file.tok) /\ ans.db.drain.ttl >= 1)
  BY <1>0, RenewOrdinary
<1> HIDE DEF ans
<1>3. running' = running /\ up' = up /\ file' = file /\ KeepsCritical(db, db') /\ KeepsDrain(db, db')
  BY <1>1, <1>2 DEF BeginInstall, KeepLease, ans, Ordinary
<1>4. CASE side' = AtRest
  BY <1>3, <1>4, RestType, StopAway
<1>5. CASE side' = side
  BY <1>3, <1>5, StopStays
<1>6. CASE ans.ready /\ side' = [side EXCEPT !.pc = "install"] /\ up
  <2>1. side'.pc = "install" /\ LeaseHeld'
    BY <1>0, <1>1, <1>2, <1>3, <1>6 DEF LeaseHeld, ans
  <2> QED BY <1>3, <1>6, <2>1 DEF TypeOK, StopInv, StopsDrained, KeepsCritical
<1> QED BY <1>1, <1>4, <1>5, <1>6 DEF ans

(* The clock of a prompt system does not run over the last tick of a lease in use. *)
LEMMA TickStops ==
  ASSUME Prompt, TypeOK, StopInv, Tick
  PROVE  StopInv' /\ StopsDrained
<1> DEFINE crit == [w \in Workers |-> Left(db.crit[w])]
           drain == [db.drain EXCEPT !.ttl = Left(db.drain.ttl)]
           anchor == IF db.anchor = Unset \/ db.anchor = RecoveryAge THEN db.anchor ELSE db.anchor + 1
<1>1. db' = [db EXCEPT !.crit = crit, !.drain = drain, !.anchor = anchor]
  BY DEF Tick, TypeOK, RowType
<1>2. /\ running' = running /\ up' = up /\ file' = file /\ side' = side
      /\ \A w \in running : db.crit[w] > 1
      /\ side.pc \in Held /\ up => db.drain.ttl # 1
  BY DEF Tick
<1>3. db.crit \in [Workers -> Unset .. CritTTL] /\ db.drain.ttl \in Unset .. DrainTTL
      /\ db.drain \in Drains
  BY DEF TypeOK, RowType, Drains
<1>4. \A w \in running : crit[w] >= 1
  BY <1>2, <1>3, LeaseAssumption DEF TypeOK, Left, Unset
<1>5. drain.tok = db.drain.tok /\ drain.ttl = Left(db.drain.ttl)
  BY <1>3 DEF Drains
<1>6. db.drain.ttl >= 1 /\ db.drain.ttl # 1 => drain.ttl >= 1 /\ drain # NoDrain
  BY <1>3, <1>5, LeaseAssumption DEF Left, Unset, NoDrain
<1> HIDE DEF crit, drain, anchor
<1>7. db'.crit = crit /\ db'.drain = drain
  BY <1>1 DEF TypeOK, RowType
<1>8. side.pc \in {"install", "rollback"} /\ up /\ LeaseHeld => LeaseHeld'
  BY <1>2, <1>5, <1>6, <1>7 DEF LeaseHeld, Holds, Draining, Held, Kept
<1> QED BY <1>2, <1>4, <1>7, <1>8 DEF StopInv, StopsDrained

(* Every step. *)
LEMMA StopStep ==
  ASSUME Prompt, TypeOK, ReadyExcludesCritical, StopInv, [Next]_vars
  PROVE  StopInv' /\ StopsDrained
<1>1. CASE Critical \/ OperatorStep
  BY <1>1, CriticalStops, OperatorStops
<1>2. CASE CheckStep \/ ClaimStep
  BY <1>2, ElsewhereStops
<1>3. CASE InstallStep
  BY <1>3, ElsewhereStops, RenewalStops, InstallStops DEF InstallStep
<1>4. CASE RecoverStep
  BY <1>4, ElsewhereStops, InstallStops DEF RecoverStep
<1>5. CASE \E p \in Policies, due \in BOOLEAN : Poll(p, due)
  BY <1>5, ElsewhereStops
<1>6. CASE \E heard \in BOOLEAN : Report(heard)
  BY <1>6, ElsewhereStops
<1>7. CASE KeepLease \/ KeeperGivesUp \/ SidecarCrash \/ Tick
  BY <1>7, RenewalStops, ElsewhereStops, TickStops
<1>8. CASE UNCHANGED vars
  <2>1. db' = db /\ running' = running /\ up' = up /\ file' = file /\ side' = side
    BY <1>8 DEF vars
  <2> QED BY <2>1, StopStays DEF KeepsCritical, KeepsDrain
<1> QED BY <1>1, <1>2, <1>3, <1>4, <1>5, <1>6, <1>7, <1>8 DEF Next

(* When renewals come in time, a running application answers and a crash loses nothing   *)
(* but the sidecar's memory, then no stop of the application, for a cutover or for a      *)
(* rollback, cuts a critical body: for every number of workers and crashes.             *)
THEOREM StopsAfterDrain ==
  ASSUME Prompt
  PROVE  Spec => DrainedBeforeStop
<1>1. Init => StopInv
  BY OutcomeInit
<1>2. TypeOK /\ ReadyExcludesCritical /\ StopInv /\ [Next]_vars => StopInv' /\ [StopsDrained]_vars
  BY StopStep
<1>3. TypeOK /\ ReadyExcludesCritical /\ StopInv /\ [Next]_vars => StopInv'
  BY <1>2
<1>4. TypeOK /\ ReadyExcludesCritical /\ StopInv /\ [Next]_vars => [StopsDrained]_vars
  BY <1>2
<1> QED BY <1>1, <1>3, <1>4, LeaseTypeCorrect, ReadyIsExclusive, PTL DEF Spec, DrainedBeforeStop
=============================================================================
