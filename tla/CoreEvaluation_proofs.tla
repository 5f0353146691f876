----------------------- MODULE CoreEvaluation_proofs ------------------------
(***************************************************************************)
(* Proofs about the two evaluations that Core runs in the background, which *)
(* share no state: the passes after full syncs (SyncEvaluation), for every  *)
(* set of handlers and every bound, and the rescoring after runtime events  *)
(* (RuntimeRescore), for every set of replicas, every number of goroutines  *)
(* and every bound.                                                         *)
(***************************************************************************)
EXTENDS SyncEvaluation, RuntimeRescore, TLAPS

-----------------------------------------------------------------------------
(* SyncEvaluation: IndInv is part of the specification's module.            *)

LEMMA InitInv == Init => IndInv
  <1> SUFFICES ASSUME Init PROVE IndInv
    OBVIOUS
  <1>1. stored \in 0..MaxSyncs /\ attempted \in 0..MaxSyncs /\ restarts \in 0..MaxRestarts
    BY BoundAssumption DEF Init
  <1>2. TypeOK
    BY <1>1, Zenon DEF Init, TypeOK
  <1>3. (running <=> pass # "none") /\ (pending => running)
    BY Zenon DEF Init
  <1>4. Outstanding
    BY DEF Init, Outstanding
  <1> QED BY <1>2, <1>3, <1>4 DEF IndInv

LEMMA CommitInv == ASSUME IndInv, NEW h \in Handler, SyncCommits(h) PROVE IndInv'
  BY BoundAssumption DEF IndInv, TypeOK, Outstanding, SyncCommits

LEMMA TriggerInv == ASSUME IndInv, NEW h \in Handler, Trigger(h) PROVE IndInv'
  <1>1. TypeOK' /\ (running <=> pass # "none")' /\ (pending => running)'
    BY DEF IndInv, TypeOK, Trigger, StartPass, RequestPass
  <1>2. Outstanding'
    BY DEF IndInv, TypeOK, Trigger, StartPass, RequestPass, Outstanding
  <1> QED BY <1>1, <1>2 DEF IndInv

LEMMA PassInv == ASSUME IndInv, Evaluate \/ PassDone PROVE IndInv'
  <1>1. CASE Evaluate
    BY <1>1 DEF IndInv, TypeOK, Outstanding, Evaluate
  <1>2. CASE PassDone
    <2>1. TypeOK' /\ (running <=> pass # "none")' /\ (pending => running)'
      <3>1. CASE pending /\ AnotherPass
        BY <1>2, <3>1, Zenon DEF IndInv, TypeOK, PassDone, AnotherPass
      <3>2. CASE ~pending /\ EndPass
        BY <1>2, <3>2, Zenon DEF IndInv, TypeOK, PassDone, EndPass
      <3> QED BY <1>2, <3>1, <3>2 DEF PassDone
    <2>2. (Outstanding \/ attempted = stored)'
      BY <1>2 DEF IndInv, TypeOK, PassDone, AnotherPass, EndPass, Outstanding
    <2> QED BY <2>1, <2>2 DEF IndInv
  <1> QED BY <1>1, <1>2

LEMMA ScheduleInv == ASSUME IndInv, ScheduledEvaluation \/ Restart PROVE IndInv'
  <1>1. CASE ScheduledEvaluation
    BY <1>1 DEF IndInv, TypeOK, Outstanding, ScheduledEvaluation
  <1>2. CASE Restart
    <2>1. restarts' \in 0..MaxRestarts
      BY <1>2, BoundAssumption DEF IndInv, TypeOK, Restart
    <2>2. TypeOK'
      BY <1>2, <2>1, Zenon DEF IndInv, TypeOK, Restart
    <2>3. (running <=> pass # "none")' /\ (pending => running)'
      BY <1>2, Zenon DEF Restart
    <2>4. Outstanding'
      BY <1>2 DEF Restart, Outstanding
    <2> QED BY <2>2, <2>3, <2>4 DEF IndInv
  <1> QED BY <1>1, <1>2

LEMMA StepInv == IndInv /\ [Next]_vars => IndInv'
  <1> SUFFICES ASSUME IndInv, [Next]_vars PROVE IndInv'
    OBVIOUS
  <1>1. ASSUME NEW h \in Handler, SyncCommits(h) \/ Trigger(h) PROVE IndInv'
    BY <1>1, CommitInv, TriggerInv
  <1>2. CASE Evaluate \/ PassDone
    BY <1>2, PassInv
  <1>3. CASE ScheduledEvaluation \/ Restart
    BY <1>3, ScheduleInv
  <1>4. CASE UNCHANGED vars
    BY <1>4 DEF IndInv, TypeOK, Outstanding, vars
  <1> QED BY <1>1, <1>2, <1>3, <1>4 DEF Next

LEMMA Inductive == Spec => []IndInv
  BY InitInv, StepInv, PTL DEF Spec

\* Type correctness of the two flags, the goroutine and the counters.
THEOREM TypeCorrect == Spec => []TypeOK
  <1>1. IndInv => TypeOK
    BY DEF IndInv
  <1> QED BY <1>1, Inductive, PTL

\* However many handlers commit and request at once, and whenever Core restarts, no committed
\* inventory is left without a pass begun on it once everything is at rest (coalescedEvaluation's pending flag).
THEOREM NotStrandedTheorem == Spec => []NotStranded
  <1>1. IndInv => NotStranded
    BY DEF IndInv, TypeOK, Outstanding, NotStranded
  <1> QED BY <1>1, Inductive, PTL

-----------------------------------------------------------------------------
(* RuntimeRescore.  The inductive invariant says where the last notified    *)
(* event is while it has not been saved: in an item, or in a goroutine that *)
(* has yet to read the signals or has read enough of them.                  *)

Goroutine == [pc : {"none", "evaluate", "schedule", "calculate", "save"},
              replica : Replica \cup {0}, read : Nat]

RescoreTypeOK ==
    /\ signals \in Nat /\ riskScore \in Nat /\ best \in Nat /\ notified \in Nat /\ excused \in Nat
    /\ rescoreFaults \in Nat
    /\ handlers \in [Replica -> Nat] /\ stray \in [Replica -> Nat] /\ waiting \in [Replica -> Nat]
    /\ item \in [Replica -> {"none", "armed", "fired"}]
    /\ job \in [Job -> Goroutine]

\* The goroutine will save a calculation that has read every notified event.
Carries(j) ==
    \/ job[j].pc \in {"evaluate", "schedule", "calculate"}
    \/ job[j].pc = "save" /\ job[j].read >= notified

OnItsWay == (\E r \in Replica : item[r] # "none") \/ (\E j \in Job : Carries(j))

RescoreInv ==
    /\ RescoreTypeOK
    /\ notified <= signals
    /\ best >= notified \/ notified <= excused \/ OnItsWay

\* Largest is the larger one.
LEMMA LargestIsMax ==
    ASSUME NEW a \in Nat, NEW b \in Nat
    PROVE  Largest(a, b) \in Nat /\ Largest(a, b) >= a /\ Largest(a, b) >= b
  <1>1. \E x \in {a, b} : \A y \in {a, b} : x >= y
    OBVIOUS
  <1> QED BY <1>1 DEF Largest, Max

LEMMA RescoreInitInv == RescoreInit => RescoreInv
  BY DEF RescoreInit, RescoreInv, RescoreTypeOK, Goroutine, NoJob

LEMMA RescoreStepInv == RescoreInv /\ [RescoreNext]_rescoreVars => RescoreInv'
  <1> SUFFICES ASSUME RescoreInv, [RescoreNext]_rescoreVars PROVE RescoreInv'
    OBVIOUS
  <1> USE DEF RescoreInv, RescoreTypeOK, OnItsWay, Carries, Goroutine
  <1>1. ASSUME NEW r \in Replica, IngestSignal(r) PROVE RescoreInv'
    BY <1>1 DEF IngestSignal
  <1>2. ASSUME NEW r \in Replica, Notify(r) PROVE RescoreInv'
    BY <1>2 DEF Notify
  <1>3. ASSUME NEW r \in Replica, TimerFires(r) PROVE RescoreInv'
    BY <1>3 DEF TimerFires
  <1>4. ASSUME NEW r \in Replica, Flush(r) PROVE RescoreInv'
    <2>1. waiting' \in [Replica -> Nat] /\ stray' \in [Replica -> Nat]
          /\ item' \in [Replica -> {"none", "armed", "fired"}]
      BY <1>4 DEF Flush
    <2>2. CASE item[r] = "none"
      BY <1>4, <2>1, <2>2 DEF Flush
    <2>3. CASE item[r] # "none"
      <3> DEFINE new == [NoJob EXCEPT !.pc = "evaluate", !.replica = r]
      <3>1. new.pc = "evaluate" /\ new \in Goroutine
        BY DEF NoJob, Goroutine
      <3> HIDE DEF new
      <3>2. PICK j \in Job : job' = [job EXCEPT ![j] = new]
        BY <1>4, <2>3 DEF Flush, new
      <3>3. Carries(j)' /\ RescoreTypeOK'
        BY <1>4, <2>1, <3>1, <3>2 DEF Flush, Goroutine
      <3> QED BY <1>4, <3>3 DEF Flush
    <2> QED BY <2>2, <2>3
  <1>5. ASSUME NEW r \in Replica, RestartReplica(r) PROVE RescoreInv'
    BY <1>5 DEF RestartReplica, RescoreFault, NoJob
  <1>6. ASSUME NEW j \in Job, EvaluateRules(j) PROVE RescoreInv'
    BY <1>6 DEF EvaluateRules, NoJob
  <1>7. ASSUME NEW j \in Job, ScheduleUnifiedScoreCalculation(j) PROVE RescoreInv'
    BY <1>7 DEF ScheduleUnifiedScoreCalculation
  <1>8. ASSUME NEW j \in Job, CalculateScoreV3(j) PROVE RescoreInv'
    BY <1>8 DEF CalculateScoreV3
  <1>9. ASSUME NEW j \in Job, SaveScoreV3(j) PROVE RescoreInv'
    <2>1. best' \in Nat /\ best' >= best /\ best' >= job[j].read
      BY <1>9, LargestIsMax DEF SaveScoreV3
    <2>2. RescoreTypeOK' /\ (notified <= signals)'
      BY <1>9, <2>1 DEF SaveScoreV3, NoJob
    <2>3. (best >= notified \/ notified <= excused \/ OnItsWay)'
      BY <1>9, <2>1 DEF SaveScoreV3, NoJob
    <2> QED BY <2>2, <2>3
  <1>10. ASSUME NEW j \in Job, CalculationFails(j) PROVE RescoreInv'
    BY <1>10 DEF CalculationFails, RescoreFault, NoJob
  <1>11. CASE UNCHANGED rescoreVars
    BY <1>11 DEF rescoreVars
  <1> QED BY <1>1, <1>2, <1>3, <1>4, <1>5, <1>6, <1>7, <1>8, <1>9, <1>10, <1>11 DEF RescoreNext

\* However the timers of a Pod are put back, fire and find another's item, and however many
\* replicas rescore it at once, no notified event is forgotten (Notify, flush and
\* scheduleUnifiedScoreCalculation): every calculation that begins after it reads it.
THEOREM NoSignalForgottenTheorem == RescoreSpec => []NoSignalForgotten
  <1>1. RescoreInv => NoSignalForgotten
    BY DEF RescoreInv, RescoreTypeOK, OnItsWay, Carries, Goroutine, NoSignalForgotten, NoJob
  <1> QED BY <1>1, RescoreInitInv, RescoreStepInv, PTL DEF RescoreSpec
=============================================================================
