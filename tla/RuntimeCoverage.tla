-------------------------- MODULE RuntimeCoverage --------------------------
(***************************************************************************)
(* What Core knows of the time in which an Agent really watched: producer  *)
(* manifests (runtime_producer_handlers.go), coverage windows              *)
(* (runtime_coverage_handlers.go) and the sensor's signed health reports   *)
(* (runtime_source_health_handlers.go), as sent by the Agent's reporters   *)
(* (agent/internal/runtime/coverage.go, lifecycle.go, source_health.go).   *)
(* One Agent, one producer.                                                *)
(*                                                                         *)
(* Moments are numbered; slot t is the time between moment t and t + 1.    *)
(* A session of the Agent, or of the sensor, is named by the moment it     *)
(* began; 0 is the zero time.  A coverage ID is named by its window.       *)
(***************************************************************************)
EXTENDS Integers, FiniteSets

CONSTANTS
    LeaseMaxAge,     \* RuntimeProducerLeaseMaxAge
    HealthMaxAge,    \* RuntimeSourceHealthMaxAge
    CoverageMaxAge,  \* RuntimeCoverageMaxAge
    MaxClock,        \* bound: moments
    MaxBad,          \* bound: slots with a loss or a failure of the sensor
    MaxStarts,       \* bound: starts of the Agent
    MaxRestarts,     \* bound: restarts of the sensor
    MaxNet           \* bound: requests on their way

ASSUME AgeAssumption == /\ LeaseMaxAge \in Nat /\ HealthMaxAge \in Nat \ {0}
                        /\ CoverageMaxAge \in Nat

VARIABLES
    clock,
    agent,      \* the reporters' memory
    sensor,     \* the event source that signs health reports
    net,        \* requests on their way to Core; any may be late, repeated or lost
    producer,   \* row of runtime_producer_states
    coverage,   \* row of runtime_coverages
    receipts,   \* rows of runtime_coverage_receipts
    healths,    \* rows of runtime_source_health_receipts
    truth,      \* history: what happened in each slot so far
    starts      \* starts of the Agent and of the sensor so far

vars == <<clock, agent, sensor, net, producer, coverage, receipts, healths, truth, starts>>
core == <<producer, coverage, receipts, healths>>

NoWindow == [start |-> 0, end |-> 0, failed |-> FALSE]
NoAgent == [session |-> 0, up |-> FALSE, enabled |-> FALSE, stopping |-> FALSE, from |-> 0,
            next |-> 0, pending |-> NoWindow, backlog |-> NoWindow]
NoProducer == [session |-> 0, enabled |-> FALSE, authoritative |-> FALSE, state |-> "none",
               manifest |-> 0, heartbeat |-> 0, covered |-> 0, gap |-> 0,
               source |-> 0, since |-> 0, end |-> 0, received |-> 0, sequence |-> 0, expires |-> 0]
NoCoverage == [session |-> 0, source |-> 0, status |-> "none", start |-> 0, end |-> 0,
               since |-> 0]

Init ==
    /\ clock = 1
    /\ agent = NoAgent
    /\ sensor = [session |-> 1, next |-> 1, sequence |-> 0]
    /\ net = {}
    /\ producer = NoProducer
    /\ coverage = NoCoverage
    /\ receipts = {}
    /\ healths = {}
    /\ truth = << >>
    /\ starts = [agent |-> 0, sensor |-> 0]

-----------------------------------------------------------------------------
(* Time, and what happens in it. *)

Slots == DOMAIN truth
Bad == {t \in Slots : truth[t].agent # 0 /\ (truth[t].lost \/ truth[t].sick)}

Tick(lost, sick) ==
    /\ clock < MaxClock
    /\ (lost \/ sick) => agent.up /\ Cardinality(Bad) < MaxBad
    /\ clock' = clock + 1
    /\ truth' = [t \in 1 .. clock |->
                    IF t < clock THEN truth[t]
                    ELSE [lost |-> lost, sick |-> sick, sensor |-> sensor.session,
                          agent |-> IF agent.up THEN agent.session ELSE 0]]
    /\ UNCHANGED <<agent, sensor, net, core, starts>>

StartAgent(enabled) ==
    /\ ~agent.up /\ clock > agent.session
    /\ starts.agent < MaxStarts
    /\ agent' = [NoAgent EXCEPT !.session = clock, !.up = TRUE, !.enabled = enabled,
                                !.from = clock, !.next = clock]
    /\ starts' = [starts EXCEPT !.agent = @ + 1]
    /\ UNCHANGED <<clock, sensor, net, core, truth>>

(* The process ends, in order or not: what the reporters hold is gone. *)
EndAgent ==
    /\ agent.up
    /\ agent' = [NoAgent EXCEPT !.session = agent.session]
    /\ UNCHANGED <<clock, sensor, net, core, truth, starts>>

RestartSensor ==
    /\ clock > sensor.session
    /\ starts.sensor < MaxRestarts
    /\ sensor' = [session |-> clock, next |-> clock, sequence |-> 0]
    /\ starts' = [starts EXCEPT !.sensor = @ + 1]
    /\ UNCHANGED <<clock, agent, net, core, truth>>

-----------------------------------------------------------------------------
(* The Agent's reporters. *)

Larger(a, b) == IF a > b THEN a ELSE b

Lossy(start, end) == \E t \in start .. end - 1 : truth[t].lost

(* Mutant: the newest window decides the status of the backlog. *)
MergeBacklogNewest(w) ==
    IF agent.backlog = NoWindow THEN w
    ELSE [start |-> agent.backlog.start, end |-> w.end, failed |-> w.failed]

mergeBacklog(w) ==
    IF agent.backlog = NoWindow THEN w
    ELSE [start |-> agent.backlog.start, end |-> w.end, failed |-> agent.backlog.failed \/ w.failed]

(* Observe, up to the delivery of what is queued. *)
Observe ==
    /\ agent.up /\ agent.enabled
    /\ clock > agent.next
    /\ agent' = [agent EXCEPT !.next = clock,
                    !.backlog = mergeBacklog([start |-> agent.next, end |-> clock,
                                              failed |-> Lossy(agent.next, clock)])]
    /\ UNCHANGED <<clock, sensor, net, core, truth, starts>>

(* Reset: a reader that opens its file for the first time in the session   *)
(* skips what was in it before; by then windows may have been reported.    *)
Reset ==
    /\ agent.up /\ agent.from = agent.session /\ clock > agent.next
    /\ agent.pending = NoWindow /\ agent.backlog = NoWindow
    /\ agent' = [agent EXCEPT !.next = clock, !.from = clock]
    /\ UNCHANGED <<clock, sensor, net, core, truth, starts>>

Message(w) == [type |-> "coverage", session |-> agent.session, start |-> w.start, end |-> w.end,
               status |-> IF w.failed THEN "failed" ELSE "complete"]

(* Requests on their way may be lost; one that is not may come any time.   *)
Send(m) == \E late \in SUBSET net : Cardinality(late) < MaxNet /\ net' = late \cup {m}

(* flushLocked: the report that was not acknowledged goes first, unchanged; *)
(* the backlog becomes a report when it failed, is long enough or is forced.*)
PostCoverage ==
    LET w == IF agent.pending = NoWindow THEN agent.backlog ELSE agent.pending
    IN  /\ agent.up /\ w # NoWindow
        /\ agent' = [agent EXCEPT !.pending = w,
                        !.backlog = IF agent.pending = NoWindow THEN NoWindow ELSE @]
        /\ Send(Message(w))
        /\ UNCHANGED <<clock, sensor, core, truth, starts>>

(* Mutant: a report counts as delivered once it is sent. *)
AcknowledgedAnyway(m, ok) ==
    IF agent.up /\ agent.pending # NoWindow /\ m = Message(agent.pending)
    THEN {[agent EXCEPT !.pending = NoWindow], agent} ELSE {agent}

(* post: a 2xx takes the report off the queue, if the answer is heard. *)
Acknowledged(m, ok) ==
    IF ok /\ agent.up /\ agent.pending # NoWindow /\ m = Message(agent.pending)
    THEN {[agent EXCEPT !.pending = NoWindow], agent} ELSE {agent}

(* Report: a heartbeat, or the last word of an Agent that shuts down. *)
Report(stopping) ==
    /\ agent.up
    /\ agent.stopping => stopping
    /\ agent' = [agent EXCEPT !.stopping = stopping]
    /\ Send([type |-> "manifest", session |-> agent.session, reported |-> clock,
             stopping |-> stopping, enabled |-> agent.enabled /\ ~stopping])
    /\ UNCHANGED <<clock, sensor, core, truth, starts>>

(* The sensor signs a report for the Agent's session, and the relay posts  *)
(* it: healthy means that nothing was wrong in the window.                 *)
PostHealth ==
    LET start == Larger(sensor.next, agent.session)
        well == \A t \in start .. clock - 1 : ~truth[t].sick
    IN  /\ agent.up /\ start < clock /\ clock - start <= HealthMaxAge
        /\ Send([type |-> "health", session |-> agent.session, source |-> sensor.session,
                 sequence |-> sensor.sequence + 1, start |-> start, end |-> clock,
                 expires |-> clock + HealthMaxAge, healthy |-> well])
        /\ sensor' = [sensor EXCEPT !.next = clock, !.sequence = @ + 1]
        /\ UNCHANGED <<clock, agent, core, truth, starts>>

-----------------------------------------------------------------------------
(* RuntimeProducerState and RuntimeCoverage: the questions asked of rows.  *)

SourceHealthCovers(p, start, end) ==
    /\ p.authoritative /\ p.source # 0 /\ p.since # 0
    /\ clock < p.expires
    /\ start # 0 /\ start <= end
    /\ p.since <= start /\ end <= p.end
    /\ clock - p.end <= HealthMaxAge /\ clock - p.received <= HealthMaxAge

LeaseFresh(p) == p.heartbeat # 0 /\ clock - p.heartbeat <= LeaseMaxAge

ProducerStatus(p) ==
    CASE p.session = 0 -> "unknown"
      [] p.session # 0 /\ ~LeaseFresh(p) -> "stale"
      [] OTHER ->
         IF ~p.enabled THEN (IF p.state = "stopped" THEN "stopped" ELSE "disabled")
         ELSE IF p.state # "active" THEN p.state
         ELSE IF p.covered = 0 \/ clock - p.covered > LeaseMaxAge THEN "stale"
         ELSE IF SourceHealthCovers(p, p.covered, p.covered) THEN "active" ELSE "non_authoritative"

EffectiveStatus(c, p) ==
    CASE p.session # c.session -> "unknown"
      [] p.session = c.session /\ ProducerStatus(p) # "active" -> ProducerStatus(p)
      [] OTHER ->
         IF c.status # "complete" THEN c.status
         ELSE IF c.since = 0 THEN "unknown"
         ELSE IF c.source # p.source \/ ~SourceHealthCovers(p, c.since, c.end) THEN "non_authoritative"
         ELSE IF clock - c.end > CoverageMaxAge THEN "stale" ELSE "complete"

CoversInterval(c, p, start, end) ==
    /\ start # 0 /\ start <= end
    /\ EffectiveStatus(c, p) = "complete"
    /\ SourceHealthCovers(p, start, end)
    /\ c.since # 0 /\ c.since <= start /\ end <= c.end

-----------------------------------------------------------------------------
(* PostRuntimeProducerManifest *)

InvalidateSourceHealth(p) == [p EXCEPT !.authoritative = FALSE, !.since = 0]

FirstState(m) == IF m.stopping THEN "stopped" ELSE IF m.enabled THEN "starting" ELSE "disabled"

(* runtimeProducerManifestState, for a producer Core has not seen. *)
Declared(m) == [NoProducer EXCEPT !.session = m.session, !.enabled = m.enabled, !.state = FirstState(m),
                                  !.manifest = m.reported, !.heartbeat = clock, !.gap = m.session]

Silent(p) == p.state = "active" /\ (p.covered = 0 \/ clock - p.covered > LeaseMaxAge)

Earlier(a, b) == IF a < b THEN a ELSE b

(* The next lifecycle state of a producer in the session Core knows. *)
Renewed(p, m) ==
    CASE m.stopping ->
           [p EXCEPT !.state = "stopped", !.gap = IF p.state # "stopped" \/ @ = 0 THEN m.reported ELSE @]
      [] ~m.stopping /\ ~m.enabled ->
           [p EXCEPT !.state = "disabled",
                     !.gap = IF p.enabled \/ p.state # "disabled" THEN m.reported ELSE @]
      [] OTHER ->
           IF ~p.enabled \/ p.state \in {"disabled", "stopped"}
             THEN [p EXCEPT !.state = "starting", !.gap = m.reported]
           ELSE IF ~LeaseFresh(p)
             THEN [p EXCEPT !.state = "starting", !.gap = Earlier(p.heartbeat + LeaseMaxAge, clock)]
           ELSE IF Silent(p)
             THEN [p EXCEPT !.state = "starting", !.gap = Earlier(p.covered + LeaseMaxAge, clock)]
           ELSE p

Restarted(p, m) ==
    [p EXCEPT !.session = m.session, !.state = FirstState(m), !.covered = 0,
              !.gap = IF p.covered # 0 /\ p.covered < m.session THEN p.covered ELSE m.session]

(* The row as it is stored: whatever changed state loses the sensor's      *)
(* word, and so does a word that no longer holds.                          *)
Stamped(p, q, m) ==
    LET r == [q EXCEPT !.enabled = m.enabled, !.manifest = m.reported, !.heartbeat = clock]
    IN  IF \/ r.session # p.session \/ r.state # p.state \/ ~r.enabled
           \/ r.authoritative /\ ~SourceHealthCovers(r, r.end, r.end)
        THEN InvalidateSourceHealth(r) ELSE r

ManifestTaken(m) ==
    /\ clock - m.reported <= 2 * LeaseMaxAge
    /\ \/ producer.session = 0
       \/ producer.session # m.session /\ m.session > producer.session
       \/ producer.session = m.session /\ m.reported >= producer.manifest

PostRuntimeProducerManifest(m) ==
    /\ producer' = IF ~ManifestTaken(m) THEN producer
                   ELSE IF producer.session = 0 THEN Declared(m)
                   ELSE Stamped(producer, IF producer.session = m.session THEN Renewed(producer, m)
                                                                          ELSE Restarted(producer, m), m)
    /\ UNCHANGED <<coverage, receipts, healths>>

-----------------------------------------------------------------------------
(* PostRuntimeCoverage *)

Admitted(m) ==
    /\ producer.session = m.session /\ m.start >= m.session
    /\ LeaseFresh(producer) /\ producer.enabled /\ producer.state \notin {"disabled", "stopped"}

Stored(m) == {r \in receipts : r.session = m.session /\ r.start = m.start /\ r.end = m.end}

runtimeCoverageReceiptMatches(r, m) == r.status = m.status /\ r.source = producer.source

(* The window continues the one before it. *)
Extends(c, m) ==
    /\ producer.state = "active" /\ c.source = producer.source
    /\ c.status = "complete" /\ c.since # 0
    /\ m.start = c.end
    /\ SourceHealthCovers(producer, c.since, m.end)

ContinuousSince(m) ==
    IF m.status = "complete" /\ SourceHealthCovers(producer, m.start, m.end)
    THEN IF coverage.session = m.session /\ Extends(coverage, m) THEN coverage.since ELSE m.start
    ELSE 0

InOrder(m) == coverage.session = m.session => m.end > coverage.end /\ m.start >= coverage.end

Received(m) == [session |-> m.session, source |-> producer.source, status |-> m.status,
                start |-> m.start, end |-> m.end, since |-> ContinuousSince(m)]

(* The producer row after a new window: gap is where doubt begins. *)
Covered(p, c) ==
    LET doubt == IF p.covered # 0 /\ p.covered <= c.start THEN p.covered ELSE c.start
    IN  IF c.status = "complete"
        THEN [p EXCEPT !.covered = c.end, !.state = "active",
                 !.gap = IF c.since # 0 /\ SourceHealthCovers(p, c.since, c.end) THEN 0
                         ELSE IF @ = 0 THEN c.start ELSE @]
        ELSE [p EXCEPT !.covered = c.end, !.state = "degraded", !.gap = IF @ = 0 THEN doubt ELSE @]

(* The answer is 2xx? *)
CoverageAccepted(m) ==
    /\ Admitted(m)
    /\ IF Stored(m) # {} THEN \A r \in Stored(m) : runtimeCoverageReceiptMatches(r, m)
                         ELSE InOrder(m)

PostRuntimeCoverage(m) ==
    /\ IF CoverageAccepted(m) /\ Stored(m) = {}
       THEN /\ coverage' = Received(m)
            /\ receipts' = receipts \cup {Received(m)}
            /\ producer' = Covered(producer, Received(m))
       ELSE UNCHANGED <<coverage, receipts, producer>>
    /\ UNCHANGED healths

-----------------------------------------------------------------------------
(* PostRuntimeSourceHealth *)

SameSource(m) == producer.source = m.source

ValidHealth(m) == clock - m.end <= HealthMaxAge /\ clock < m.expires

HealthTaken(m) ==
    /\ ValidHealth(m)
    /\ Admitted(m)
    /\ <<m.session, m.source, m.sequence>> \notin healths
    /\ IF SameSource(m) THEN m.sequence > producer.sequence /\ m.start >= producer.end
                        ELSE m.source > producer.source

(* Mutant: reports that follow one another join although one is missing. *)
HealthSinceAnySequence(m) ==
    IF ~m.healthy THEN 0
    ELSE IF SameSource(m) /\ producer.since # 0 THEN producer.since ELSE m.start

HealthSince(m) ==
    IF ~m.healthy THEN 0
    ELSE IF /\ SameSource(m) /\ m.sequence = producer.sequence + 1
            /\ producer.since # 0 /\ m.start = producer.end
            /\ SourceHealthCovers(producer, producer.end, producer.end)
         THEN producer.since ELSE m.start

PostRuntimeSourceHealth(m) ==
    LET broken == ~SameSource(m) \/ ~m.healthy
    IN  /\ IF HealthTaken(m)
           THEN /\ producer' = [producer EXCEPT !.source = m.source, !.since = HealthSince(m),
                                  !.end = m.end, !.received = clock, !.sequence = m.sequence,
                                  !.expires = m.expires, !.authoritative = m.healthy,
                                  !.gap = IF broken THEN m.start ELSE @]
                /\ coverage' = IF broken THEN [coverage EXCEPT !.since = 0] ELSE coverage
                /\ healths' = healths \cup {<<m.session, m.source, m.sequence>>}
           ELSE UNCHANGED <<producer, coverage, healths>>
        /\ UNCHANGED receipts

-----------------------------------------------------------------------------
(* A request is handled in one transaction.  One whose transaction fails,  *)
(* or that is lost, is one that never arrives; one whose answer is lost is *)
(* posted again, and may arrive again at any time.                         *)
Handle(m) ==
    /\ CASE m.type = "manifest" -> PostRuntimeProducerManifest(m) /\ UNCHANGED agent
         [] m.type = "health" -> PostRuntimeSourceHealth(m) /\ UNCHANGED agent
         [] m.type = "coverage" -> /\ PostRuntimeCoverage(m)
                                   /\ agent' \in Acknowledged(m, CoverageAccepted(m))
    /\ net' \in {net, net \ {m}}
    /\ UNCHANGED <<clock, sensor, truth, starts>>

Next ==
    \/ \E lost, sick \in BOOLEAN : Tick(lost, sick)
    \/ \E enabled \in BOOLEAN : StartAgent(enabled)
    \/ EndAgent \/ RestartSensor
    \/ Observe \/ Reset \/ PostCoverage \/ PostHealth
    \/ \E stopping \in BOOLEAN : Report(stopping)
    \/ \E m \in net : Handle(m)

Spec == Init /\ [][Next]_vars

-----------------------------------------------------------------------------
(* Absence may be concluded only from what was really watched: in every    *)
(* slot of an interval that CoversInterval vouches for, the Agent ran in   *)
(* the session of the row and lost nothing, and the sensor was healthy in  *)
(* the session that signed for it, whatever was late, lost or repeated.    *)
CoverageIsTrue ==
    EffectiveStatus(coverage, producer) = "complete" =>
      \A start, end \in 1 .. clock :
        CoversInterval(coverage, producer, start, end) =>
            \A t \in start .. end - 1 :
                /\ truth[t].agent = coverage.session /\ ~truth[t].lost
                /\ truth[t].sensor = producer.source /\ ~truth[t].sick

(* Receipts of one session never overlap, and one that is complete tells   *)
(* of no loss: the history adds up to the time that was watched.           *)
ReceiptsAddUp ==
    /\ \A r, s \in receipts :
          r # s /\ r.session = s.session => r.end <= s.start \/ s.end <= r.start
    /\ \A r \in receipts : r.status = "complete" =>
          \A t \in r.start .. r.end - 1 : truth[t].agent = r.session /\ ~truth[t].lost

(* Every slot that a running reporter has observed is on its way to Core   *)
(* or accepted: in the backlog, in the pending report, or in a receipt.    *)
ObservedIsAccounted ==
    agent.up /\ agent.enabled =>
        \A t \in agent.from .. agent.next - 1 :
            \/ \E w \in {agent.pending, agent.backlog} : w.start <= t /\ t < w.end
            \/ \E r \in receipts : r.session = agent.session /\ r.start <= t /\ t < r.end
=============================================================================
