----------------------------- MODULE PodEvents -----------------------------
(***************************************************************************)
(* The Agent's collector of Kubernetes Events                               *)
(* (agent/internal/poddetail/events_collector.go) and Core's ingest of them *)
(* (agent_pod_ownership.go, pod_detail_services_handlers.go).  A flush      *)
(* detaches the queue and, when it is due, the quarantine; it posts them    *)
(* without the mutex, while the informer goes on, and merges what is left   *)
(* with what has arrived.  An event is its UID and a version, the count.    *)
(***************************************************************************)
EXTENDS Integers, Sequences, FiniteSetsExt

CONSTANTS
    EventUID,
    EventsBatchMax,        \* eventsBatchMax
    EventsQuarantineMax,   \* eventsQuarantineMax, of the queue and of the quarantine
    PostLimit,             \* DeliveryRequestLimit
    MaxVersion,            \* bound: versions of an event
    MaxPostFaults          \* bound: posts that fail, Agent restarts

ASSUME EventsAssumption ==
    /\ EventsBatchMax \in Nat \ {0} /\ EventsQuarantineMax \in Nat \ {0}
    /\ PostLimit \in Nat \ {0} /\ MaxVersion \in Nat /\ MaxPostFaults \in Nat

VARIABLES
    occurred,    \* Kubernetes: the version of each event, 0 before it exists
    owned,       \* events that are not of a Pod, or of a Pod that Core's inventory holds
    queue, quarantine,
    backoff,     \* nextDeliveryAttempt is in the future
    flush,       \* the flush in progress
    k8sEvents,   \* Core: the version of each event that is stored, 0 when there is none
    seen,        \* history: the newest version the informer has reported
    accepted,    \* history: the newest version that a post of this process delivered
    overflowed,  \* history: events dropped from a full queue
    postFaults
eventVars == <<occurred, owned, queue, quarantine, backoff, flush, k8sEvents, seen, accepted,
               overflowed, postFaults>>

Never == [u \in EventUID |-> 0]
NoFlush == [pc |-> "idle", todo |-> <<>>, left |-> 0, blocked |-> FALSE,
            retry |-> <<>>, denied |-> <<>>, deferred |-> <<>>]
UIDs(s) == {s[i].uid : i \in DOMAIN s}

EventsInit ==
    /\ occurred = Never /\ owned \in SUBSET EventUID
    /\ queue = <<>> /\ quarantine = <<>> /\ backoff = FALSE /\ flush = NoFlush
    /\ k8sEvents = Never /\ seen = Never /\ accepted = Never
    /\ overflowed = {} /\ postFaults = 0
-----------------------------------------------------------------------------
(* Kubernetes and the inventory *)

EventOccurs(u) ==
    /\ occurred[u] < MaxVersion
    /\ occurred' = [occurred EXCEPT ![u] = @ + 1]
    /\ UNCHANGED <<owned, queue, quarantine, backoff, flush, k8sEvents, seen, accepted,
                   overflowed, postFaults>>

PodSynced(u) ==
    /\ owned' = owned \cup {u} /\ u \notin owned
    /\ UNCHANGED <<occurred, queue, quarantine, backoff, flush, k8sEvents, seen, accepted,
                   overflowed, postFaults>>
-----------------------------------------------------------------------------
(* enqueue *)

\* A later version takes the place of an earlier one.
Put(s, e) ==
    IF e.uid \in UIDs(s) THEN [i \in DOMAIN s |-> IF s[i].uid = e.uid THEN e ELSE s[i]]
                         ELSE Append(s, e)

\* s after the events of es, one by one, as far as their UIDs are in uids.
Merged(s, es, uids) ==
    LET m[i \in 0 .. Len(es)] ==
            IF i = 0 THEN s
            ELSE IF es[i].uid \in uids THEN Put(m[i - 1], es[i]) ELSE m[i - 1]
    IN  m[Len(es)]

Newest(s) == SubSeq(s, Len(s) - EventsQuarantineMax + 1, Len(s))
Trim(s) == IF Len(s) > EventsQuarantineMax THEN Newest(s) ELSE s
Overflow(s) == UIDs(s) \ UIDs(Trim(s))

\* The informer reports an event, when it changes and again at every resync.
Enqueue(u) ==
    /\ occurred[u] > 0
    /\ seen' = [seen EXCEPT ![u] = occurred[u]]
    /\ \E e \in {[uid |-> u, ver |-> occurred[u]]} :
         IF u \in UIDs(quarantine) /\ u \notin UIDs(queue)
         THEN quarantine' = Put(quarantine, e) /\ UNCHANGED <<queue, overflowed>>
         ELSE \E q \in {Put(queue, e)} :
                /\ queue' = Trim(q) /\ overflowed' = overflowed \cup Overflow(q)
                /\ UNCHANGED quarantine
    /\ UNCHANGED <<occurred, owned, backoff, flush, k8sEvents, accepted, postFaults>>
-----------------------------------------------------------------------------
(* flush *)

Chunks(s, stage) ==
    [i \in 1 .. ((Len(s) + EventsBatchMax - 1) \div EventsBatchMax) |->
        [stage |-> stage,
         events |-> SubSeq(s, (i - 1) * EventsBatchMax + 1,
                           IF i * EventsBatchMax < Len(s) THEN i * EventsBatchMax ELSE Len(s))]]

\* due: eventsQuarantineRetry has passed since the last retry.
StartFlush(due) ==
    /\ flush.pc = "idle" /\ ~backoff /\ (due => quarantine # <<>>)
    /\ flush' = [NoFlush EXCEPT !.pc = "post", !.left = PostLimit,
                    !.todo = Chunks(queue, "queue") \o (IF due THEN Chunks(quarantine, "quarantine") ELSE <<>>)]
    /\ queue' = <<>> /\ quarantine' = IF due THEN <<>> ELSE quarantine
    /\ UNCHANGED <<occurred, owned, backoff, k8sEvents, seen, accepted, overflowed, postFaults>>

Batch == Head(flush.todo).events
Done == [flush EXCEPT !.todo = Tail(@)]
\* What DeliverIsolated returns as Retry stays in the class it came from.
Unsent == IF Head(flush.todo).stage = "queue" THEN [Done EXCEPT !.retry = @ \o Batch]
                                              ELSE [Done EXCEPT !.deferred = @ \o Batch]
Halved == LET mid == Len(Batch) \div 2
              half(es) == [Head(flush.todo) EXCEPT !.events = es]
          IN  [flush EXCEPT !.todo = <<half(SubSeq(Batch, 1, mid)), half(SubSeq(Batch, mid + 1, Len(Batch)))>>
                                      \o Tail(@)]
CanPost == flush.pc = "post" /\ flush.todo # <<>> /\ ~flush.blocked /\ flush.left > 0

\* IngestPodEventsPayload: an event that is stored stays as it is.
Stored == [u \in EventUID |-> IF k8sEvents[u] = 0 /\ u \in UIDs(Batch)
                              THEN Batch[CHOOSE i \in DOMAIN Batch : Batch[i].uid = u].ver
                              ELSE k8sEvents[u]]
Delivered == [u \in EventUID |-> IF u \in UIDs(Batch)
                                 THEN Batch[CHOOSE i \in DOMAIN Batch : Batch[i].uid = u].ver
                                 ELSE accepted[u]]

\* requireScopedPodEvidenceOwnership: one event of an unknown Pod refuses the batch, which is
\* then split; alone, the event is set aside.
Post ==
    LET one == [flush EXCEPT !.left = @ - 1]
        refused == ~(UIDs(Batch) \subseteq owned)
    IN  /\ CanPost
        /\ flush' = [(CASE ~refused                    -> Done
                       [] refused /\ Len(Batch) > 1    -> Halved
                       [] refused /\ Len(Batch) = 1    -> [Done EXCEPT !.denied = @ \o Batch])
                     EXCEPT !.left = one.left]
        /\ k8sEvents' = IF refused THEN k8sEvents ELSE Stored
        /\ accepted' = IF refused THEN accepted ELSE Delivered
        /\ UNCHANGED <<occurred, owned, queue, quarantine, backoff, seen, overflowed, postFaults>>

\* Any other answer, or none, in which case Core may have stored the batch: nothing more is
\* posted in this flush.
PostFails ==
    /\ CanPost /\ postFaults < MaxPostFaults /\ postFaults' = postFaults + 1
    /\ flush' = [Unsent EXCEPT !.blocked = TRUE, !.left = flush.left - 1]
    /\ k8sEvents' \in {k8sEvents} \cup (IF UIDs(Batch) \subseteq owned THEN {Stored} ELSE {})
    /\ UNCHANGED <<occurred, owned, queue, quarantine, backoff, seen, accepted, overflowed>>

KeepUnsentEvents ==
    /\ flush.pc = "post" /\ flush.todo # <<>> /\ (flush.blocked \/ flush.left = 0)
    /\ flush' = Unsent
    /\ UNCHANGED <<occurred, owned, queue, quarantine, backoff, k8sEvents, seen, accepted,
                   overflowed, postFaults>>

\* Deferred evidence has the next turn before what was refused in this flush.
RefusedFirst == flush.denied \o flush.deferred                          \* mutant
SetAside == flush.deferred \o flush.denied
\* What comes back, older versions first.
NewestFirst == queue \o flush.retry                                     \* mutant
ComesBack == flush.retry \o queue

EndFlush ==
    /\ flush.pc = "post" /\ flush.todo = <<>>
    /\ \E q \in {Merged(quarantine, SetAside, EventUID)} :
       \E hot \in {Merged(<<>>, ComesBack, EventUID \ UIDs(q))},
          cold \in {Merged(q, ComesBack, UIDs(q))} :
          /\ queue' = Trim(hot) /\ quarantine' = Trim(cold)
          /\ overflowed' = overflowed \cup Overflow(hot) \cup Overflow(cold)
    /\ backoff' = flush.blocked
    /\ flush' = NoFlush
    /\ UNCHANGED <<occurred, owned, k8sEvents, seen, accepted, postFaults>>

BackoffEnds ==
    /\ backoff /\ backoff' = FALSE
    /\ UNCHANGED <<occurred, owned, queue, quarantine, flush, k8sEvents, seen, accepted,
                   overflowed, postFaults>>

\* The Agent restarts.  The flush of a shutdown posts nothing: its context is cancelled.
AgentRestart ==
    /\ postFaults < MaxPostFaults /\ postFaults' = postFaults + 1
    /\ queue' = <<>> /\ quarantine' = <<>> /\ backoff' = FALSE /\ flush' = NoFlush
    /\ seen' = Never /\ accepted' = Never /\ overflowed' = {}
    /\ UNCHANGED <<occurred, owned, k8sEvents>>
-----------------------------------------------------------------------------
FlushStep == StartFlush(FALSE) \/ Post \/ KeepUnsentEvents \/ EndFlush

EventsNext ==
    \/ \E u \in EventUID : EventOccurs(u) \/ PodSynced(u) \/ Enqueue(u)
    \/ \E due \in BOOLEAN : StartFlush(due)
    \/ Post \/ PostFails \/ KeepUnsentEvents \/ EndFlush \/ BackoffEnds \/ AgentRestart

\* The informer resyncs, the ticker flushes, time passes.
EventsFairness ==
    /\ WF_eventVars(FlushStep) /\ WF_eventVars(BackoffEnds) /\ SF_eventVars(StartFlush(TRUE))
    /\ \A u \in EventUID : WF_eventVars(Enqueue(u))
EventsSpec == EventsInit /\ [][EventsNext]_eventVars /\ EventsFairness
-----------------------------------------------------------------------------
(* Properties *)

Holds(s, e) == \E i \in DOMAIN s : s[i] = e
HeldByFlush(e) ==
    \/ Holds(flush.retry, e) \/ Holds(flush.denied, e) \/ Holds(flush.deferred, e)
    \/ \E i \in DOMAIN flush.todo : Holds(flush.todo[i].events, e)

(* The newest version of an event that the informer has reported is held    *)
(* by the collector until a post delivers it, although versions arrive      *)
(* while both queues are detached, posts fail half-way and events are       *)
(* refused; and between two flushes no event is in the two queues at once,  *)
(* so that a resync does not send a refused event again at once.  Only a    *)
(* full queue loses events.                                                 *)
NewestIsKept ==
    /\ \A u \in EventUID \ overflowed : seen[u] # accepted[u] =>
          LET e == [uid |-> u, ver |-> seen[u]]
          IN  Holds(queue, e) \/ Holds(quarantine, e) \/ HeldByFlush(e)
    /\ LET s == queue \o quarantine
       IN  flush.pc = "idle" => \A i, j \in DOMAIN s : s[i].uid = s[j].uid => i = j

(* An event whose Pod Core knows is stored in the end, although events that *)
(* will never be accepted are tried before it within the same budget of     *)
(* requests.                                                                *)
EventsReachCore ==
    \A u \in EventUID :
        (u \in owned /\ occurred[u] > 0) ~> (k8sEvents[u] > 0 \/ u \in overflowed)
=============================================================================
