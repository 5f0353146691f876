----------------------------- MODULE SBOMQueue -----------------------------
(***************************************************************************)
(* The Agent's SBOM work queue (agent/internal/sbom/queue.go): a bounded   *)
(* channel of Pods, a pool of workers, a timer for every Pod that waits to *)
(* be sent again, and a loop that queues again the Pods that were given up.*)
(* What becomes of a container's SBOM in Core is SBOMStore's; a worker     *)
(* here only collects the errors of its Pod's containers.                  *)
(***************************************************************************)
EXTENDS Naturals, Sequences, FiniteSets, SequencesExt

CONSTANTS
    Pods, Workers,
    Containers,        \* the containers of each Pod, in the order of its spec
    QueueCap,          \* capacity of the channel (30 in the code)
    MaxSendRetries     \* maxSendRetries (3 in the code)

ASSUME QueueAssumption ==
    /\ Containers \in [Pods -> Seq(UNION {ToSet(Containers[p]) : p \in Pods})]
    /\ QueueCap \in Nat \ {0} /\ MaxSendRetries \in Nat
    /\ IsFiniteSet(Workers)

VARIABLES
    queue, active, retryCount, failedPods, succeeded,   \* the fields of WorkQueue
    worker,      \* what each worker is doing
    timers,      \* goroutines that wait to queue a Pod again
    toRetry,     \* the reconciliation's copy of failedPods
    duplicates   \* history: containers for which Core answered "duplicate key"

queueVars == <<queue, active, retryCount, failedPods, succeeded, worker, timers, toRetry,
               duplicates>>

(* todo: containers left; errs: the kinds of error met so far; call: the   *)
(* handler in Core that the worker waits for, 0 for none.                  *)
Idle == [pc |-> "idle", pod |-> "none", todo |-> <<>>, errs |-> {}, call |-> 0]

NewWorkQueue ==
    /\ queue = <<>> /\ active = {} /\ failedPods = {} /\ succeeded = {} /\ toRetry = {}
    /\ duplicates = {}
    /\ retryCount = [p \in Pods |-> 0]
    /\ timers = [p \in Pods |-> 0]
    /\ worker = [w \in Workers |-> Idle]

(* Enqueue is one critical section: refused when the Pod is active, dropped *)
(* when the channel is full.                                               *)
Enqueue(p) ==
    IF p \in active \/ Len(queue) >= QueueCap
    THEN UNCHANGED <<queue, active>>
    ELSE /\ queue' = Append(queue, p)
         /\ active' = active \cup {p}

(* The informer's Add and Update handlers, its start-up scan and           *)
(* ListCurrentPods all end in Enqueue for a running Pod with containers.   *)
PodSeen(p) ==
    /\ Containers[p] # <<>>
    /\ Enqueue(p)
    /\ UNCHANGED <<retryCount, failedPods, succeeded, worker, timers, toRetry, duplicates>>

TakePod(w) ==
    /\ worker[w].pc = "idle" /\ queue # <<>>
    /\ LET p == Head(queue) IN
         /\ queue' = Tail(queue)
         /\ active' = active \cup {p}
         /\ worker' = [worker EXCEPT ![w] =
                         [Idle EXCEPT !.pc = "processing", !.pod = p, !.todo = Containers[p]]]
    /\ UNCHANGED <<retryCount, failedPods, succeeded, timers, toRetry, duplicates>>

(* ProcessPod: one call after the other, the errors joined. *)
CallCore(w, h) == worker' = [worker EXCEPT ![w].call = h] /\ UNCHANGED duplicates

(* The errors of the containers are logged only. *)
CallEndsNil(w, err) ==
    /\ worker' = [worker EXCEPT ![w].call = 0, ![w].todo = Tail(@)]
    /\ UNCHANGED duplicates

(* processContainer: an error whose text has "duplicate key" counts as     *)
(* stored already.                                                         *)
CallEnds(w, err) ==
    /\ worker' = [worker EXCEPT ![w].call = 0, ![w].todo = Tail(@),
                                ![w].errs = IF err \in {"nil", "duplicate"} THEN @ ELSE @ \cup {err}]
    /\ duplicates' = IF err = "duplicate" THEN duplicates \cup {Head(worker[w].todo)} ELSE duplicates

(* isTransientSendError of the joined error: one transient part suffices. *)
isTransientSendError(errs) == "transient" \in errs

(* The worker that must retry a Pod leaves active as after any other outcome. *)
ProcessedPodLeaves(w) ==
    LET p == worker[w].pod IN
    /\ worker[w].pc = "processing" /\ worker[w].todo = <<>>
    /\ worker' = [worker EXCEPT ![w].pc = "leaving"]
    /\ IF isTransientSendError(worker[w].errs) /\ retryCount[p] < MaxSendRetries
       THEN /\ timers' = [timers EXCEPT ![p] = @ + 1]
            /\ retryCount' = [retryCount EXCEPT ![p] = @ + 1]
       ELSE UNCHANGED <<timers, retryCount>>
    /\ UNCHANGED <<queue, active, failedPods, succeeded, toRetry, duplicates>>

ProcessedPod(w) ==
    LET p == worker[w].pod
        n == retryCount[p] + 1
    IN
    /\ worker[w].pc = "processing" /\ worker[w].todo = <<>>
    /\ IF worker[w].errs = {}
       THEN /\ retryCount' = [retryCount EXCEPT ![p] = 0]
            /\ failedPods' = failedPods \ {p}
            /\ succeeded' = succeeded \cup {p}
            /\ worker' = [worker EXCEPT ![w].pc = "leaving"]
            /\ UNCHANGED timers
       ELSE /\ UNCHANGED succeeded
            /\ IF isTransientSendError(worker[w].errs)
               THEN IF n <= MaxSendRetries
                    THEN /\ retryCount' = [retryCount EXCEPT ![p] = n]
                         /\ timers' = [timers EXCEPT ![p] = @ + 1]
                         /\ worker' = [worker EXCEPT ![w] = Idle]
                         /\ UNCHANGED failedPods
                    ELSE /\ retryCount' = [retryCount EXCEPT ![p] = 0]
                         /\ failedPods' = failedPods \cup {p}
                         /\ worker' = [worker EXCEPT ![w].pc = "leaving"]
                         /\ UNCHANGED timers
               ELSE /\ worker' = [worker EXCEPT ![w].pc = "leaving"]
                    /\ UNCHANGED <<retryCount, failedPods, timers>>
    /\ UNCHANGED <<queue, active, toRetry, duplicates>>

(* A critical section of its own, after the one that recorded the outcome. *)
LeaveActive(w) ==
    /\ worker[w].pc = "leaving"
    /\ active' = active \ {worker[w].pod}
    /\ worker' = [worker EXCEPT ![w] = Idle]
    /\ UNCHANGED <<queue, retryCount, failedPods, succeeded, timers, toRetry, duplicates>>

RetryTimer(p) ==
    /\ timers[p] > 0
    /\ timers' = [timers EXCEPT ![p] = @ - 1]
    /\ IF Len(queue) < QueueCap
       THEN queue' = Append(queue, p) /\ UNCHANGED <<active, retryCount>>
       ELSE /\ retryCount' = [retryCount EXCEPT ![p] = 0]
            /\ active' = active \ {p}
            /\ UNCHANGED queue
    /\ UNCHANGED <<failedPods, succeeded, worker, toRetry, duplicates>>

reconcileFailedPods ==
    /\ toRetry = {} /\ failedPods # {}
    /\ toRetry' = failedPods
    /\ failedPods' = {}
    /\ retryCount' = [p \in Pods |-> IF p \in failedPods THEN 0 ELSE retryCount[p]]
    /\ UNCHANGED <<queue, active, succeeded, worker, timers, duplicates>>

ReconcileEnqueue ==
    /\ \E p \in toRetry : Enqueue(p) /\ toRetry' = toRetry \ {p}
    /\ UNCHANGED <<retryCount, failedPods, succeeded, worker, timers, duplicates>>

(* Stop, or a crash: nothing of the queue survives the process. *)
AgentRestart ==
    /\ queue' = <<>> /\ active' = {} /\ failedPods' = {} /\ succeeded' = {} /\ toRetry' = {}
    /\ duplicates' = {}
    /\ retryCount' = [p \in Pods |-> 0]
    /\ timers' = [p \in Pods |-> 0]
    /\ worker' = [w \in Workers |-> Idle]

----------------------------------------------------------------------------

QueueTypeOK ==
    /\ queue \in Seq(Pods) /\ Len(queue) <= QueueCap
    /\ active \subseteq Pods /\ failedPods \subseteq Pods
    /\ succeeded \subseteq Pods /\ toRetry \subseteq Pods
    /\ retryCount \in [Pods -> 0 .. MaxSendRetries]
    /\ timers \in [Pods -> Nat]
    /\ \A w \in Workers :
         /\ worker[w].pc \in {"idle", "processing", "leaving"}
         /\ worker[w].pc # "idle" => worker[w].pod \in Pods
         /\ worker[w].errs \subseteq {"transient", "fatal"}
    /\ duplicates \subseteq UNION {ToSet(Containers[p]) : p \in Pods}

Holders(p) ==
    Cardinality({n \in DOMAIN queue : queue[n] = p})
        + Cardinality({w \in Workers : worker[w].pc # "idle" /\ worker[w].pod = p})
        + timers[p]

(* A Pod is in `active` exactly while one holder will process it: one slot *)
(* of the channel, one worker or one retry timer. Two holders would extract *)
(* and send the same Pod twice at once; none would make Enqueue refuse the *)
(* Pod for as long as the Agent runs.                                      *)
ActiveIsExact == \A p \in Pods : Holders(p) = IF p \in active THEN 1 ELSE 0
=============================================================================
