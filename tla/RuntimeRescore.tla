--------------------------- MODULE RuntimeRescore ---------------------------
(***************************************************************************)
(* The rescoring of a Pod under attack (core/pkg/riskengine/                *)
(* runtime_attack_rescore_manager.go and insight_manager_identity.go,       *)
(* core/pkg/risk/unified_scorer_identity.go).  Each Core replica debounces  *)
(* the events it has ingested with one timer per Pod; goroutines evaluate   *)
(* the rules and calculate the score.  Pods do not interfere, so there is   *)
(* one; only events that pass shouldTrigger are counted.                    *)
(***************************************************************************)
EXTENDS Integers, FiniteSetsExt

CONSTANTS
    Replica,
    Job,               \* bound: goroutines at work at one time
    MaxSignals,        \* bound: events
    MaxRescoreFaults   \* bound: restarts and failed calculations

ASSUME RescoreAssumption == MaxSignals \in Nat /\ MaxRescoreFaults \in Nat

VARIABLES
    signals,    \* runtime_signals of the Pod
    handlers,   \* handlers of a replica between the commit of an event and Notify
    item,       \* m.items: none, or its timer is armed or has fired
    stray,      \* armed timers whose item has been flushed
    waiting,    \* timer callbacks before the mutex
    job,        \* goroutines
    riskScore,  \* risk_scores: the signals that the stored calculation has read
    best,       \* history: the most signals that a saved calculation has read
    notified,   \* history: signals when Notify was last called
    excused,    \* history: signals when a replica restarted or a calculation failed
    rescoreFaults
rescoreVars == <<signals, handlers, item, stray, waiting, job, riskScore, best, notified,
                 excused, rescoreFaults>>

NoJob == [pc |-> "none", replica |-> 0, read |-> 0]

RescoreInit ==
    /\ signals = 0
    /\ handlers = [r \in Replica |-> 0] /\ item = [r \in Replica |-> "none"]
    /\ stray = [r \in Replica |-> 0] /\ waiting = [r \in Replica |-> 0]
    /\ job = [j \in Job |-> NoJob]
    /\ riskScore = 0 /\ best = 0 /\ notified = 0 /\ excused = 0 /\ rescoreFaults = 0

RescoreFault == rescoreFaults < MaxRescoreFaults /\ rescoreFaults' = rescoreFaults + 1
Largest(a, b) == Max({a, b})
-----------------------------------------------------------------------------
\* An event is committed; its handler goes on to Notify.
IngestSignal(r) ==
    /\ signals < MaxSignals /\ signals' = signals + 1
    /\ handlers' = [handlers EXCEPT ![r] = @ + 1]
    /\ UNCHANGED <<item, stray, waiting, job, riskScore, best, notified, excused, rescoreFaults>>

\* The item is made, or its timer is put back, even one that has fired and waits.
Notify(r) ==
    /\ handlers[r] > 0 /\ handlers' = [handlers EXCEPT ![r] = @ - 1]
    /\ item' = [item EXCEPT ![r] = "armed"]
    /\ notified' = signals
    /\ UNCHANGED <<signals, stray, waiting, job, riskScore, best, excused, rescoreFaults>>

TimerFires(r) ==
    /\ \/ item[r] = "armed" /\ item' = [item EXCEPT ![r] = "fired"] /\ UNCHANGED stray
       \/ stray[r] > 0 /\ stray' = [stray EXCEPT ![r] = @ - 1] /\ UNCHANGED item
    /\ waiting' = [waiting EXCEPT ![r] = @ + 1]
    /\ UNCHANGED <<signals, handlers, job, riskScore, best, notified, excused, rescoreFaults>>

\* flush takes the item whose key it has, whether or not that item's timer has fired.
Flush(r) ==
    /\ waiting[r] > 0 /\ waiting' = [waiting EXCEPT ![r] = @ - 1]
    /\ item' = [item EXCEPT ![r] = "none"]
    /\ stray' = IF item[r] = "armed" THEN [stray EXCEPT ![r] = @ + 1] ELSE stray
    /\ IF item[r] = "none" THEN UNCHANGED job
       ELSE \E j \in Job : job[j] = NoJob
                /\ job' = [job EXCEPT ![j] = [NoJob EXCEPT !.pc = "evaluate", !.replica = r]]
    /\ UNCHANGED <<signals, handlers, riskScore, best, notified, excused, rescoreFaults>>

\* evaluateAndUpsertRuntimeInsights: findings are stored, and a calculation begins for them;
\* or there are none, or it fails.
EvaluateRules(j) ==
    /\ job[j].pc = "evaluate"
    /\ \/ job' = [job EXCEPT ![j].pc = "schedule"]
       \/ \E i \in Job : job[i] = NoJob
            /\ job' = [job EXCEPT ![j].pc = "schedule", ![i] = [job[j] EXCEPT !.pc = "calculate"]]
    /\ UNCHANGED <<signals, handlers, item, stray, waiting, riskScore, best, notified, excused,
                   rescoreFaults>>

Calculating(j) == job[j].pc \in {"calculate", "save"}
ScheduleOnce(j) ==                                                     \* mutant
    /\ job[j].pc = "schedule"
    /\ job' = [job EXCEPT ![j] = IF \E i \in Job : Calculating(i) THEN NoJob
                                 ELSE [@ EXCEPT !.pc = "calculate"]]
    /\ UNCHANGED <<signals, handlers, item, stray, waiting, riskScore, best, notified, excused,
                   rescoreFaults>>
ScheduleUnifiedScoreCalculation(j) ==
    /\ job[j].pc = "schedule"
    /\ job' = [job EXCEPT ![j].pc = "calculate"]
    /\ UNCHANGED <<signals, handlers, item, stray, waiting, riskScore, best, notified, excused,
                   rescoreFaults>>

CalculateScoreV3(j) ==
    /\ job[j].pc = "calculate"
    /\ job' = [job EXCEPT ![j].pc = "save", ![j].read = signals]
    /\ UNCHANGED <<signals, handlers, item, stray, waiting, riskScore, best, notified, excused,
                   rescoreFaults>>

\* An upsert: the calculation that is saved last stays.
SaveScoreV3(j) ==
    /\ job[j].pc = "save"
    /\ riskScore' = job[j].read /\ best' = Largest(best, job[j].read)
    /\ job' = [job EXCEPT ![j] = NoJob]
    /\ UNCHANGED <<signals, handlers, item, stray, waiting, notified, excused, rescoreFaults>>

\* A calculation or its save fails: it is logged.
CalculationFails(j) ==
    /\ Calculating(j) /\ RescoreFault
    /\ job' = [job EXCEPT ![j] = NoJob] /\ excused' = signals
    /\ UNCHANGED <<signals, handlers, item, stray, waiting, riskScore, best, notified>>

\* The debounced items of a replica are in memory only.
RestartReplica(r) ==
    /\ RescoreFault
    /\ handlers' = [handlers EXCEPT ![r] = 0] /\ item' = [item EXCEPT ![r] = "none"]
    /\ stray' = [stray EXCEPT ![r] = 0] /\ waiting' = [waiting EXCEPT ![r] = 0]
    /\ job' = [j \in Job |-> IF job[j].replica = r THEN NoJob ELSE job[j]]
    /\ excused' = signals
    /\ UNCHANGED <<signals, riskScore, best, notified>>

RescoreNext ==
    \/ \E r \in Replica : IngestSignal(r) \/ Notify(r) \/ TimerFires(r) \/ Flush(r) \/ RestartReplica(r)
    \/ \E j \in Job : \/ EvaluateRules(j) \/ ScheduleUnifiedScoreCalculation(j)
                      \/ CalculateScoreV3(j) \/ SaveScoreV3(j) \/ CalculationFails(j)
RescoreSpec == RescoreInit /\ [][RescoreNext]_rescoreVars
-----------------------------------------------------------------------------
(* When no timer and no goroutine is left, a calculation that had read      *)
(* every notified event has been saved, although timers are put back while  *)
(* they fire, an item is flushed by the timer of another and replicas work  *)
(* on the same Pod; only a restart or a failed calculation loses events.    *)
(* (The row may then still hold an older calculation that was saved later.) *)
NoSignalForgotten ==
    (\A r \in Replica : item[r] = "none") /\ (\A j \in Job : job[j] = NoJob) =>
        best >= notified \/ notified <= excused
=============================================================================
