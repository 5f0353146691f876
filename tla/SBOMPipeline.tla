---------------------------- MODULE SBOMPipeline ----------------------------
(***************************************************************************)
(* The SBOM pipeline as a whole: the Agent's workers call Core's handlers  *)
(* (processor.go, SendSBOMFinding) over a connection that fails, times out *)
(* and outlives neither process; Core matches what was stored.             *)
(***************************************************************************)
EXTENDS SBOMQueue, SBOMMatching

CONSTANTS
    Budgets    \* bounds: which Pods and extractions, and how often each thing may happen

ASSUME PipelineAssumption ==
    /\ Keys = UNION {ToSet(Containers[p]) : p \in Pods}
    /\ Budgets \subseteq [who : SUBSET Pods, kinds : SUBSET Extractions, seen : Nat, calls : Nat,
                          faults : Nat, deliveries : Nat, ticks : Nat, gens : Nat, pods : Nat,
                          sweeps : Nat]

VARIABLES left       \* what is left of the budget

vars == <<queueVars, storeVars, matchVars, left>>

Spend(what) == left[what] > 0 /\ left' = [left EXCEPT ![what] = @ - 1]

Init ==
    /\ NewWorkQueue /\ StoreInit /\ MatchInit
    /\ left \in Budgets

OnlyQueue == UNCHANGED <<storeVars, matchVars>>
OnlyStore == UNCHANGED <<queueVars, matchVars>>
OnlyWorker == UNCHANGED <<queue, active, retryCount, failedPods, succeeded, timers, toRetry>>

(* processContainer: whatever the extraction yields, failure included, is  *)
(* sent to Core; the worker waits for the answer.                          *)
SendSBOMFinding(w) ==
    /\ worker[w].pc = "processing" /\ worker[w].todo # <<>> /\ worker[w].call = 0
    /\ Spend("calls")
    /\ \E h \in Handlers, x \in left.kinds :
         /\ \A g \in Handlers : g < h => handler[g].pc # "free"
         /\ Receive(h, Head(worker[w].todo), x)
         /\ CallCore(w, h)
    /\ OnlyWorker /\ UNCHANGED matchVars

CallReturns(w) ==
    LET h == worker[w].call IN
    /\ h # 0 /\ handler[h].pc = "reply"
    /\ CallEnds(w, handler[h].reply)
    /\ Done(h)
    /\ OnlyWorker /\ UNCHANGED <<matchVars, left>>

(* Core is unreachable, or the deadline passes while its handler goes on. *)
CallFails(w) ==
    /\ worker[w].pc = "processing" /\ worker[w].todo # <<>>
    /\ Spend("faults")
    /\ CallEnds(w, "transient")
    /\ OnlyWorker /\ OnlyQueue

(* Nobody waits for this answer any more. *)
AnswerLost(h) ==
    /\ \A w \in Workers : worker[w].call # h
    /\ Done(h)
    /\ OnlyStore /\ UNCHANGED left

Handle(h) ==
    /\ OnlyStore
    /\ \/ (ReadExisting(h) \/ StoreSBOM(h)) /\ UNCHANGED left
       \/ (StoreFails(h) \/ \E err \in {"transient", "fatal"} : Refuse(h, err)) /\ Spend("faults")

Publish(h) ==
    /\ \/ publishSBOMCreatedWithRetry(h, "stored") /\ UNCHANGED left
       \/ \E o \in {"doubted", "dead", "lost"} :
             publishSBOMCreatedWithRetry(h, o) /\ Spend("faults")
    /\ UNCHANGED queueVars

CoreDies ==
    /\ Spend("faults")
    /\ CoreRestart
    /\ worker' = [w \in Workers |->
                    IF worker[w].call = 0 THEN worker[w]
                    ELSE [worker[w] EXCEPT !.call = 0, !.todo = Tail(@), !.errs = @ \cup {"transient"}]]
    /\ OnlyWorker /\ UNCHANGED duplicates

AgentDies == Spend("faults") /\ AgentRestart /\ OnlyQueue

QueueStep ==
    /\ \/ \E w \in Workers : TakePod(w) \/ ProcessedPod(w) \/ LeaveActive(w)
       \/ \E p \in Pods : RetryTimer(p)
       \/ reconcileFailedPods
       \/ ReconcileEnqueue
    /\ OnlyQueue /\ UNCHANGED left

MatchStep ==
    /\ \/ \E d \in dlq : SBOMDLQWorker(d, TRUE)
       \/ \E m \in Matchers :
             \/ GetMirrorVersion(m)
             \/ ClaimSBOMEvent(m)
             \/ EnsureMatchRun(m)
             \/ MatchSBOMFindings(m)
             \/ persistMatches(m, TRUE)
             \/ CompleteMatchRun(m, TRUE)
       \/ \E r \in Replicas : CheckOnce(r) \/ Claim(r) \/ ListSBOMs(r) \/ queueRematch(r)
    /\ UNCHANGED <<queueVars, left>>

Delivery ==
    /\ \E m \in Matchers, ev \in stream : Deliver(m, ev)
    /\ Spend("deliveries")
    /\ UNCHANGED queueVars

MatchFault ==
    /\ \/ \E d \in dlq : SBOMDLQWorker(d, FALSE)
       \/ \E m \in Matchers : MatchFails(m) \/ persistMatches(m, FALSE) \/ CompleteMatchRun(m, FALSE)
       \/ \E r \in Replicas : ReleaseClaim(r)
    /\ Spend("faults")
    /\ UNCHANGED queueVars

CleanUp ==
    /\ \/ SweepRows /\ Spend("sweeps")
       \/ (SweepPods \/ \E kept \in SUBSET sweep.seen : SweepDelete(kept)) /\ UNCHANGED left
       \/ \E k \in UNION {ToSet(Containers[p]) : p \in left.who}, s \in {"live", "deleted", "missing"} :
             PodTableChanges(k, s) /\ Spend("pods")
    /\ UNCHANGED queueVars

Next ==
    \/ \E p \in left.who : PodSeen(p) /\ Spend("seen") /\ OnlyQueue
    \/ QueueStep
    \/ \E w \in Workers : SendSBOMFinding(w) \/ CallReturns(w) \/ CallFails(w)
    \/ \E h \in Handlers : AnswerLost(h) \/ Handle(h) \/ Publish(h)
    \/ Delivery \/ MatchStep \/ MatchFault
    \/ NewGeneration /\ Spend("gens") /\ UNCHANGED queueVars
    \/ Tick /\ Spend("ticks") /\ UNCHANGED queueVars
    \/ CleanUp
    \/ CoreDies \/ AgentDies

Spec == Init /\ [][Next]_vars

----------------------------------------------------------------------------

TypeOK == QueueTypeOK /\ StoreTypeOK /\ MatchTypeOK

(* A Pod that the Agent counts as done has an SBOM row for each of its     *)
(* containers in Core, but for those of which Core itself answered with a  *)
(* "duplicate key" error, which the Agent takes for stored although the    *)
(* transaction was rolled back: no other error, lost answer, half-done Pod *)
(* or restart on either side ends in "succeeded" without a row. (The row   *)
(* may have been cleaned up since.)                                        *)
SucceededIsStored ==
    \A p \in succeeded : \A k \in ToSet(Containers[p]) \ duplicates :
        \E i \in DOMAIN rows : rows[i].key = k
=============================================================================
