----------------------- MODULE RuntimeCoverage_proofs -----------------------
(***************************************************************************)
(* Proofs about RuntimeCoverage, for every lease and age and every bound.   *)
(* The invariant follows a claim about the past from where it is true to    *)
(* where it is believed: the Agent's windows and the sensor's reports are   *)
(* true when they are made, a request carries the claim whenever it comes,  *)
(* and a row joins two claims only where one ends and the other begins.     *)
(***************************************************************************)
EXTENDS RuntimeCoverage, TLAPS

States == {"none", "starting", "active", "degraded", "disabled", "stopped"}
Slot == [lost : BOOLEAN, sick : BOOLEAN, sensor : Nat, agent : Nat]
Window == [start : Nat, end : Nat, failed : BOOLEAN]
AgentState == [session : Nat, up : BOOLEAN, enabled : BOOLEAN, stopping : BOOLEAN, from : Nat,
               next : Nat, pending : Window, backlog : Window]
ProducerRow == [session : Nat, enabled : BOOLEAN, authoritative : BOOLEAN, state : States,
                manifest : Nat, heartbeat : Nat, covered : Nat, gap : Nat, source : Nat,
                since : Nat, end : Nat, received : Nat, sequence : Nat, expires : Nat]
CoverageRow == [session : Nat, source : Nat, status : {"none", "complete", "failed"}, start : Nat,
                end : Nat, since : Nat]
CoverageMsg == [type : {"coverage"}, session : Nat, start : Nat, end : Nat, status : {"complete", "failed"}]
ManifestMsg == [type : {"manifest"}, session : Nat, reported : Nat, stopping : BOOLEAN,
                enabled : BOOLEAN]
HealthMsg == [type : {"health"}, session : Nat, source : Nat, sequence : Nat, start : Nat,
              end : Nat, expires : Nat, healthy : BOOLEAN]

\* In the slots from i to j the Agent ran in session a, and lost nothing.
Quiet(a, i, j) == \A t \in i .. j - 1 : truth[t].agent = a /\ ~truth[t].lost
\* In the slots from i to j the sensor ran in session s, and was healthy.
Sound(s, i, j) == \A t \in i .. j - 1 : truth[t].sensor = s /\ ~truth[t].sick

TruthInv == clock \in Nat \ {0} /\ truth \in [1 .. clock - 1 -> Slot]

WindowInv(w) ==
    w # NoWindow => /\ agent.session <= w.start /\ w.start < w.end /\ w.end <= agent.next
                    /\ ~w.failed => Quiet(agent.session, w.start, w.end)

AgentInv ==
    /\ agent \in AgentState
    /\ agent.up => /\ 1 <= agent.session /\ agent.session <= agent.from
                   /\ agent.from <= agent.next /\ agent.next <= clock
                   /\ \A t \in agent.session .. clock - 1 : truth[t].agent = agent.session
                   /\ WindowInv(agent.pending) /\ WindowInv(agent.backlog)
                   /\ agent.backlog # NoWindow => agent.backlog.end = agent.next

SensorInv ==
    /\ sensor \in [session : Nat, next : Nat, sequence : Nat]
    /\ 1 <= sensor.session /\ sensor.session <= sensor.next /\ sensor.next <= clock
    /\ \A t \in sensor.session .. clock - 1 : truth[t].sensor = sensor.session

CoverageMsgInv(m) ==
    /\ m \in CoverageMsg
    /\ 1 <= m.start /\ m.start < m.end /\ m.end <= clock
    /\ m.status = "complete" => Quiet(m.session, m.start, m.end)
HealthMsgInv(m) ==
    /\ m \in HealthMsg
    /\ 1 <= m.start /\ m.start < m.end /\ m.end <= clock
    /\ m.healthy => Sound(m.source, m.start, m.end)
MsgInv(m) == CoverageMsgInv(m) \/ m \in ManifestMsg \/ HealthMsgInv(m)
NetInv == \A m \in net : MsgInv(m)

ProducerInv ==
    /\ producer \in ProducerRow
    /\ producer.end <= clock
    /\ producer.since # 0 => Sound(producer.source, producer.since, producer.end)

CoverageInv ==
    /\ coverage \in CoverageRow
    /\ coverage.session <= producer.session
    /\ coverage.end <= clock
    /\ coverage.since # 0 => Quiet(coverage.session, coverage.since, coverage.end)

ReceiptInv(r) ==
    /\ r \in CoverageRow
    /\ 1 <= r.start /\ r.start < r.end /\ r.end <= clock
    /\ r.session <= coverage.session
    /\ r.session = coverage.session => r.end <= coverage.end
    /\ r.status = "complete" => Quiet(r.session, r.start, r.end)

Disjoint == \A r, s \in receipts :
    r # s /\ r.session = s.session => r.end <= s.start \/ s.end <= r.start

CoreInv ==
    /\ ProducerInv /\ CoverageInv
    /\ \A r \in receipts : ReceiptInv(r)
    /\ Disjoint

IndInv ==
    /\ TruthInv /\ AgentInv /\ SensorInv /\ NetInv /\ CoreInv /\ ObservedIsAccounted

-----------------------------------------------------------------------------

LEMMA InitInv == Init => IndInv
  <1> SUFFICES ASSUME Init PROVE IndInv
    OBVIOUS
  <1>1. TruthInv
    <2>1. truth \in [1 .. 0 -> Slot]
      BY DEF Init
    <2> QED BY <2>1 DEF Init, TruthInv
  <1>2. AgentInv
    BY DEF Init, AgentInv, NoAgent, AgentState, NoWindow, Window
  <1>3. SensorInv
    BY DEF Init, SensorInv
  <1>4. NetInv
    BY DEF Init, NetInv
  <1>5. CoreInv
    <2>1. ProducerInv
      BY DEF Init, ProducerInv, NoProducer, ProducerRow, States
    <2>2. CoverageInv
      BY DEF Init, CoverageInv, NoProducer, NoCoverage, CoverageRow
    <2> QED BY <2>1, <2>2 DEF Init, CoreInv, Disjoint
  <1>6. ObservedIsAccounted
    BY DEF Init, ObservedIsAccounted, NoAgent
  <1> QED BY <1>1, <1>2, <1>3, <1>4, <1>5, <1>6 DEF IndInv

-----------------------------------------------------------------------------
(* Time passes: the slots so far stay as they are. *)

LEMMA TickInv ==
    ASSUME IndInv, NEW lost \in BOOLEAN, NEW sick \in BOOLEAN, Tick(lost, sick)
    PROVE  IndInv'
  <1>1. /\ clock' = clock + 1 /\ clock \in Nat \ {0}
        /\ UNCHANGED <<agent, sensor, net, core, starts>>
    BY DEF Tick, IndInv, TruthInv
  <1>2. \A t \in 1 .. clock - 1 : truth'[t] = truth[t]
    BY <1>1 DEF Tick
  <1>3. truth'[clock] = [lost |-> lost, sick |-> sick, sensor |-> sensor.session,
                         agent |-> IF agent.up THEN agent.session ELSE 0]
    BY <1>1 DEF Tick
  <1>4. TruthInv'
    <2>1. \A t \in 1 .. clock : truth'[t] \in Slot
      <3>1. truth'[clock] \in Slot
        <4>1. agent.session \in Nat /\ sensor.session \in Nat
          BY DEF IndInv, AgentInv, AgentState, SensorInv
        <4> DEFINE a == IF agent.up THEN agent.session ELSE 0
        <4>2. a \in Nat
          BY <4>1
        <4>3. truth'[clock] = [lost |-> lost, sick |-> sick, sensor |-> sensor.session, agent |-> a]
          BY <1>3
        <4> HIDE DEF a
        <4> QED BY <4>1, <4>2, <4>3 DEF Slot
      <3>2. \A t \in 1 .. clock - 1 : truth'[t] \in Slot
        BY <1>2 DEF IndInv, TruthInv
      <3> QED BY <1>1, <3>1, <3>2
    <2>2. truth' \in [1 .. clock -> Slot]
      BY <2>1 DEF Tick
    <2> QED BY <1>1, <2>2 DEF TruthInv
  <1>5. ASSUME NEW a, NEW i \in Nat \ {0}, NEW j \in Nat, j <= clock
        PROVE  Quiet(a, i, j)' <=> Quiet(a, i, j)
    BY <1>1, <1>2, <1>5 DEF Quiet
  <1>6. ASSUME NEW s, NEW i \in Nat \ {0}, NEW j \in Nat, j <= clock
        PROVE  Sound(s, i, j)' <=> Sound(s, i, j)
    BY <1>1, <1>2, <1>6 DEF Sound
  <1>7. AgentInv'
    <2>1. ASSUME agent.up, NEW w \in Window, WindowInv(w) PROVE WindowInv(w)'
      BY <1>1, <1>5, <2>1 DEF IndInv, AgentInv, AgentState, WindowInv, Window
    <2>2. agent.up => \A t \in agent.session .. clock : truth'[t].agent = agent.session
      BY <1>1, <1>2, <1>3 DEF IndInv, AgentInv, AgentState
    <2> QED BY <1>1, <2>1, <2>2 DEF IndInv, AgentInv, AgentState
  <1>8. SensorInv'
    BY <1>1, <1>2, <1>3 DEF IndInv, SensorInv
  <1>9. NetInv'
    <2> SUFFICES ASSUME NEW m \in net PROVE MsgInv(m)'
      BY <1>1 DEF NetInv
    <2>1. CASE CoverageMsgInv(m)
      BY <1>1, <1>5, <2>1 DEF MsgInv, CoverageMsgInv, CoverageMsg
    <2>2. CASE m \in ManifestMsg
      BY <2>2 DEF MsgInv
    <2>3. CASE HealthMsgInv(m)
      BY <1>1, <1>6, <2>3 DEF MsgInv, HealthMsgInv, HealthMsg
    <2> QED BY <2>1, <2>2, <2>3 DEF IndInv, NetInv, MsgInv
  <1>10. CoreInv'
    <2>1. ProducerInv'
      BY <1>1, <1>6 DEF IndInv, CoreInv, ProducerInv, ProducerRow, core
    <2>2. CoverageInv'
      BY <1>1, <1>5 DEF IndInv, CoreInv, ProducerInv, ProducerRow, CoverageInv, CoverageRow, core
    <2>3. ASSUME NEW r \in receipts PROVE ReceiptInv(r)'
      BY <1>1, <1>5 DEF IndInv, CoreInv, ReceiptInv, CoverageRow, core
    <2> QED BY <1>1, <2>1, <2>2, <2>3 DEF IndInv, CoreInv, Disjoint, core
  <1>11. ObservedIsAccounted'
    BY <1>1 DEF IndInv, ObservedIsAccounted, core
  <1> QED BY <1>4, <1>7, <1>8, <1>9, <1>10, <1>11 DEF IndInv

-----------------------------------------------------------------------------
(* The Agent and the sensor.  Nothing of Core changes, nor the past. *)

LEMMA CoreKept ==
    ASSUME IndInv, UNCHANGED <<clock, truth, core>>
    PROVE  TruthInv' /\ CoreInv'
  <1>1. ProducerInv' /\ CoverageInv'
    BY DEF IndInv, CoreInv, ProducerInv, CoverageInv, Sound, Quiet, core
  <1>2. \A r \in receipts : ReceiptInv(r)'
    BY DEF IndInv, CoreInv, ReceiptInv, Quiet, core
  <1> QED BY <1>1, <1>2 DEF IndInv, TruthInv, CoreInv, Disjoint, core

LEMMA MsgKept ==
    ASSUME NEW m, MsgInv(m), UNCHANGED <<clock, truth>>
    PROVE  MsgInv(m)'
  BY DEF MsgInv, CoverageMsgInv, HealthMsgInv, Quiet, Sound

LEMMA SensorKept ==
    ASSUME SensorInv, UNCHANGED <<clock, truth, sensor>>
    PROVE  SensorInv'
  BY DEF SensorInv

LEMMA AgentKept ==
    ASSUME AgentInv, UNCHANGED <<clock, truth, agent>>
    PROVE  AgentInv'
  BY DEF AgentInv, WindowInv, Quiet

LEMMA AccountedKept ==
    ASSUME ObservedIsAccounted, UNCHANGED <<agent, receipts>>
    PROVE  ObservedIsAccounted'
  BY DEF ObservedIsAccounted

LEMMA SendInv ==
    ASSUME IndInv, NEW m, MsgInv(m), Send(m), UNCHANGED <<clock, truth>>
    PROVE  NetInv'
  BY MsgKept DEF IndInv, NetInv, Send

LEMMA NetKept ==
    ASSUME IndInv, UNCHANGED <<clock, truth, net>>
    PROVE  NetInv'
  BY MsgKept DEF IndInv, NetInv

LEMMA StartAgentInv ==
    ASSUME IndInv, NEW enabled \in BOOLEAN, StartAgent(enabled)
    PROVE  IndInv'
  <1>1. UNCHANGED <<clock, sensor, net, core, truth>>
    BY DEF StartAgent
  <1>2. agent' = [session |-> clock, up |-> TRUE, enabled |-> enabled, stopping |-> FALSE,
                  from |-> clock, next |-> clock, pending |-> NoWindow, backlog |-> NoWindow]
    BY DEF StartAgent, NoAgent
  <1>3. AgentInv'
    <2>1. agent' \in AgentState
      BY <1>2 DEF AgentState, Window, NoWindow, IndInv, TruthInv
    <2> QED BY <1>1, <1>2, <2>1 DEF IndInv, TruthInv, AgentInv, WindowInv
  <1>4. ObservedIsAccounted'
    BY <1>1, <1>2 DEF ObservedIsAccounted, IndInv, TruthInv
  <1> QED BY <1>1, <1>3, <1>4, CoreKept, NetKept, SensorKept DEF IndInv

LEMMA EndAgentInv == ASSUME IndInv, EndAgent PROVE IndInv'
  <1>1. UNCHANGED <<clock, sensor, net, core, truth>>
    BY DEF EndAgent
  <1>2. agent' = [session |-> agent.session, up |-> FALSE, enabled |-> FALSE, stopping |-> FALSE,
                  from |-> 0, next |-> 0, pending |-> NoWindow, backlog |-> NoWindow]
    BY DEF EndAgent, NoAgent
  <1>3. AgentInv'
    <2>1. agent' \in AgentState
      BY <1>2 DEF AgentState, Window, NoWindow, IndInv, AgentInv
    <2> QED BY <1>2, <2>1 DEF AgentInv
  <1>4. ObservedIsAccounted'
    BY <1>2 DEF ObservedIsAccounted
  <1> QED BY <1>1, <1>3, <1>4, CoreKept, NetKept, SensorKept DEF IndInv

LEMMA RestartSensorInv == ASSUME IndInv, RestartSensor PROVE IndInv'
  <1>1. UNCHANGED <<clock, agent, net, core, truth>>
    BY DEF RestartSensor
  <1>2. SensorInv'
    BY <1>1 DEF RestartSensor, SensorInv, IndInv, TruthInv
  <1> QED BY <1>1, <1>2, CoreKept, NetKept, AgentKept, AccountedKept DEF IndInv, core

LEMMA ObserveInv == ASSUME IndInv, Observe PROVE IndInv'
  <1>1. UNCHANGED <<clock, sensor, net, core, truth>>
    BY DEF Observe
  <1> DEFINE w == [start |-> agent.next, end |-> clock, failed |-> Lossy(agent.next, clock)]
             b == mergeBacklog(w)
  <1>2. agent' = [agent EXCEPT !.next = clock, !.backlog = b] /\ agent.up /\ clock > agent.next
    BY DEF Observe
  <1>3. /\ b \in Window /\ b # NoWindow /\ b.end = clock
        /\ b.start = IF agent.backlog = NoWindow THEN agent.next ELSE agent.backlog.start
        /\ ~b.failed => (agent.backlog = NoWindow \/ ~agent.backlog.failed) /\ ~Lossy(agent.next, clock)
    <2>1. w \in Window /\ w # NoWindow
      BY <1>2 DEF Window, NoWindow, Lossy, IndInv, TruthInv, AgentInv, AgentState
    <2>2. CASE agent.backlog = NoWindow
      BY <2>1, <2>2 DEF mergeBacklog
    <2>3. CASE agent.backlog # NoWindow
      <3>1. b = [start |-> agent.backlog.start, end |-> clock,
                 failed |-> agent.backlog.failed \/ Lossy(agent.next, clock)]
        BY <2>3 DEF mergeBacklog
      <3>2. (agent.backlog.failed \/ Lossy(agent.next, clock)) \in BOOLEAN
        BY DEF IndInv, AgentInv, AgentState, Window
      <3>3. agent.backlog.start \in Nat /\ clock \in Nat \ {0}
        BY DEF IndInv, TruthInv, AgentInv, AgentState, Window
      <3> DEFINE f == agent.backlog.failed \/ Lossy(agent.next, clock)
      <3>4. b.start = agent.backlog.start /\ b.end = clock /\ b.failed = f
        BY <3>1
      <3>5. b \in Window
        <4>1. f \in BOOLEAN /\ b = [start |-> agent.backlog.start, end |-> clock, failed |-> f]
          BY <3>1, <3>2
        <4> HIDE DEF f, b
        <4> QED BY <3>3, <4>1 DEF Window
      <3>6. b # NoWindow
        BY <3>3, <3>4 DEF NoWindow
      <3> HIDE DEF b
      <3> QED BY <2>3, <3>3, <3>4, <3>5, <3>6
    <2> QED BY <2>2, <2>3
  <1> HIDE DEF b
  <1>4. /\ agent' \in AgentState
        /\ agent'.session = agent.session /\ agent'.up /\ agent'.from = agent.from
        /\ agent'.next = clock /\ agent'.pending = agent.pending /\ agent'.backlog = b
        /\ agent'.enabled = agent.enabled
    BY <1>2, <1>3 DEF IndInv, TruthInv, AgentInv, AgentState
  <1>5. agent.backlog # NoWindow => agent.backlog.end = agent.next
    BY <1>2 DEF IndInv, AgentInv
  <1>6. agent.session <= b.start /\ b.start < clock
    BY <1>2, <1>3 DEF IndInv, TruthInv, AgentInv, AgentState, WindowInv, Window
  <1>7. AgentInv'
    <2>1. ~b.failed => Quiet(agent.session, b.start, clock)
      BY <1>2, <1>3, <1>5, <1>6 DEF IndInv, TruthInv, AgentInv, AgentState, WindowInv, Window, Quiet, Lossy
    <2>2. WindowInv(agent.backlog)'
      <3>1. /\ agent'.backlog.start = b.start /\ agent'.backlog.end = clock
            /\ agent'.backlog.failed = b.failed
        BY <1>3, <1>4
      <3> QED BY <1>1, <1>4, <1>6, <2>1, <3>1 DEF WindowInv, Quiet, IndInv, TruthInv
    <2>3. WindowInv(agent.pending)'
      BY <1>1, <1>2, <1>4 DEF IndInv, TruthInv, AgentInv, AgentState, Window, WindowInv, Quiet
    <2> QED BY <1>1, <1>2, <1>3, <1>4, <2>2, <2>3 DEF IndInv, TruthInv, AgentInv, AgentState
  <1>8. ObservedIsAccounted'
    <2> SUFFICES ASSUME agent.enabled, NEW t \in agent.from .. clock - 1
                 PROVE  \/ \E x \in {agent.pending, b} : x.start <= t /\ t < x.end
                        \/ \E r \in receipts : r.session = agent.session /\ r.start <= t /\ t < r.end
      BY <1>1, <1>4 DEF ObservedIsAccounted, core
    <2>1. CASE t < agent.next
      BY <1>2, <1>3, <1>5, <2>1 DEF IndInv, TruthInv, AgentInv, AgentState, NoWindow, Window,
                                    ObservedIsAccounted
    <2>2. CASE t >= agent.next
      BY <1>2, <1>3, <2>2 DEF IndInv, TruthInv, AgentInv, AgentState, Window, WindowInv
    <2> QED BY <2>1, <2>2 DEF IndInv, TruthInv, AgentInv, AgentState
  <1> QED BY <1>1, <1>7, <1>8, CoreKept, NetKept, SensorKept DEF IndInv

LEMMA ResetInv == ASSUME IndInv, Reset PROVE IndInv'
  <1>1. UNCHANGED <<clock, sensor, net, core, truth>>
    BY DEF Reset
  <1>2. /\ agent' \in AgentState
        /\ agent'.session = agent.session /\ agent'.up /\ agent'.from = clock
        /\ agent'.next = clock /\ agent'.pending = NoWindow /\ agent'.backlog = NoWindow
    BY DEF Reset, IndInv, TruthInv, AgentInv, AgentState
  <1>3. AgentInv'
    BY <1>1, <1>2 DEF Reset, IndInv, TruthInv, AgentInv, AgentState, WindowInv
  <1>4. ObservedIsAccounted'
    BY <1>1, <1>2 DEF ObservedIsAccounted, IndInv, TruthInv
  <1> QED BY <1>1, <1>3, <1>4, CoreKept, NetKept, SensorKept DEF IndInv

LEMMA PostCoverageInv == ASSUME IndInv, PostCoverage PROVE IndInv'
  <1> DEFINE w == IF agent.pending = NoWindow THEN agent.backlog ELSE agent.pending
             b == IF agent.pending = NoWindow THEN NoWindow ELSE agent.backlog
  <1>1. UNCHANGED <<clock, sensor, core, truth>> /\ Send(Message(w)) /\ agent.up /\ w # NoWindow
    BY DEF PostCoverage
  <1>2. w \in Window /\ b \in Window
    BY DEF IndInv, AgentInv, AgentState, Window, NoWindow
  <1>3. agent' = [agent EXCEPT !.pending = w, !.backlog = b]
    BY DEF PostCoverage, IndInv, AgentInv, AgentState
  <1>4. WindowInv(w) /\ WindowInv(b)
    BY <1>1 DEF IndInv, AgentInv, WindowInv
  <1>5. /\ agent' \in AgentState
        /\ agent'.session = agent.session /\ agent'.up /\ agent'.from = agent.from
        /\ agent'.next = agent.next /\ agent'.pending = w /\ agent'.backlog = b
        /\ agent'.enabled = agent.enabled
    <2> HIDE DEF w, b
    <2> QED BY <1>1, <1>2, <1>3 DEF IndInv, AgentInv, AgentState
  <1>6. b # NoWindow => b.end = agent.next
    BY <1>1 DEF IndInv, AgentInv
  <1>7. AgentInv'
    <2> HIDE DEF w, b
    <2>1. WindowInv(agent.pending)' /\ WindowInv(agent.backlog)'
      BY <1>1, <1>4, <1>5 DEF WindowInv, Quiet
    <2> QED BY <1>1, <1>5, <1>6, <2>1 DEF IndInv, AgentInv
  <1>8. MsgInv(Message(w))
    <2> HIDE DEF w, b
    <2>1. Message(w) \in CoverageMsg
      BY <1>2 DEF Message, CoverageMsg, Window, IndInv, AgentInv, AgentState
    <2>2. /\ Message(w).start = w.start /\ Message(w).end = w.end
          /\ Message(w).session = agent.session
          /\ Message(w).status = "complete" => ~w.failed
      BY <1>2 DEF Message, Window
    <2> QED BY <1>1, <1>2, <1>4, <2>1, <2>2 DEF MsgInv, CoverageMsgInv, WindowInv, Window, IndInv,
                                                TruthInv, AgentInv, AgentState
  <1>9. ObservedIsAccounted'
    BY <1>1, <1>5 DEF IndInv, ObservedIsAccounted, NoWindow, core
  <1> QED BY <1>1, <1>7, <1>8, <1>9, CoreKept, SendInv, SensorKept DEF IndInv

LEMMA ReportInv ==
    ASSUME IndInv, NEW stopping \in BOOLEAN, Report(stopping)
    PROVE  IndInv'
  <1> DEFINE m == [type |-> "manifest", session |-> agent.session, reported |-> clock,
                   stopping |-> stopping, enabled |-> agent.enabled /\ ~stopping]
  <1>1. UNCHANGED <<clock, sensor, core, truth>> /\ Send(m)
    BY DEF Report
  <1>2. MsgInv(m)
    BY DEF MsgInv, ManifestMsg, IndInv, TruthInv, AgentInv, AgentState
  <1>3. /\ agent' \in AgentState
        /\ agent'.session = agent.session /\ agent'.up = agent.up /\ agent'.from = agent.from
        /\ agent'.next = agent.next /\ agent'.pending = agent.pending
        /\ agent'.backlog = agent.backlog /\ agent'.enabled = agent.enabled
    BY DEF Report, IndInv, AgentInv, AgentState
  <1>4. AgentInv'
    BY <1>1, <1>3 DEF IndInv, AgentInv, WindowInv, Quiet
  <1>5. ObservedIsAccounted'
    BY <1>1, <1>3 DEF IndInv, ObservedIsAccounted, core
  <1> HIDE DEF m
  <1> QED BY <1>1, <1>2, <1>4, <1>5, CoreKept, SendInv, SensorKept DEF IndInv

LEMMA PostHealthInv == ASSUME IndInv, PostHealth PROVE IndInv'
  <1> DEFINE start == Larger(sensor.next, agent.session)
             well == \A t \in start .. clock - 1 : ~truth[t].sick
             m == [type |-> "health", session |-> agent.session, source |-> sensor.session,
                   sequence |-> sensor.sequence + 1, start |-> start, end |-> clock,
                   expires |-> clock + HealthMaxAge, healthy |-> well]
  <1>1. UNCHANGED <<clock, agent, core, truth>> /\ Send(m) /\ start < clock
    BY DEF PostHealth
  <1>2. start \in Nat /\ start >= sensor.next
    BY DEF Larger, IndInv, AgentInv, AgentState, SensorInv
  <1>3. MsgInv(m)
    <2>1. Sound(sensor.session, start, clock) \/ ~well
      BY <1>2 DEF Sound, IndInv, TruthInv, SensorInv
    <2> HIDE DEF start, well
    <2>2. m \in HealthMsg
      <3>1. well \in BOOLEAN
        BY DEF well
      <3> QED BY <1>2, <3>1, AgeAssumption DEF HealthMsg, IndInv, TruthInv, AgentInv, AgentState, SensorInv
    <2> QED BY <1>1, <1>2, <2>1, <2>2 DEF MsgInv, HealthMsgInv, IndInv, TruthInv, SensorInv
  <1>4. SensorInv'
    <2>1. sensor' = [sensor EXCEPT !.next = clock, !.sequence = @ + 1]
      BY DEF PostHealth
    <2>2. /\ sensor' \in [session : Nat, next : Nat, sequence : Nat]
          /\ sensor'.session = sensor.session /\ sensor'.next = clock
      <3>1. sensor \in [session : Nat, next : Nat, sequence : Nat] /\ clock \in Nat
        BY DEF IndInv, TruthInv, SensorInv
      <3> DEFINE one == [sensor EXCEPT !.next = clock]
      <3>2. /\ one \in [session : Nat, next : Nat, sequence : Nat]
            /\ one.session = sensor.session /\ one.next = clock
        BY <3>1
      <3>3. sensor' = [one EXCEPT !.sequence = sensor.sequence + 1]
        BY <2>1, <3>1
      <3> HIDE DEF one
      <3> QED BY <3>1, <3>2, <3>3
    <2> QED BY <1>1, <2>2 DEF IndInv, TruthInv, SensorInv
  <1> HIDE DEF m, start, well
  <1> QED BY <1>1, <1>3, <1>4, CoreKept, SendInv, AgentKept, AccountedKept DEF IndInv, core

-----------------------------------------------------------------------------
(* A manifest: the sensor's word stays as it is, or is withdrawn. *)

\* q is the row p with its lifecycle changed.
SameWord(p, q) == q \in ProducerRow /\ q.source = p.source /\ q.since = p.since /\ q.end = p.end

LEMMA LifecycleRow ==
    ASSUME NEW p \in ProducerRow, NEW st \in States, NEW g \in Nat
    PROVE  /\ SameWord(p, [p EXCEPT !.state = st, !.gap = g])
           /\ [p EXCEPT !.state = st, !.gap = g].session = p.session
           /\ SameWord(p, [p EXCEPT !.covered = 0, !.gap = g])
           /\ [p EXCEPT !.covered = 0, !.gap = g].session = p.session
  BY DEF SameWord, ProducerRow

LEMMA RenewedRow ==
    ASSUME clock \in Nat, NEW p \in ProducerRow, NEW m \in ManifestMsg
    PROVE  SameWord(p, Renewed(p, m)) /\ Renewed(p, m).session = p.session
  <1>1. SameWord(p, p) /\ m.reported \in Nat /\ p.gap \in Nat /\ p.heartbeat \in Nat /\ p.covered \in Nat
    BY DEF SameWord, ProducerRow, ManifestMsg
  <1>2. {"stopped", "disabled", "starting"} \subseteq States
    BY DEF States
  <1> DEFINE Turn(st, g) == Renewed(p, m) = [p EXCEPT !.state = st, !.gap = g]
  <1>3. \/ Renewed(p, m) = p
        \/ \E st \in {"stopped", "disabled", "starting"}, g \in Nat : Turn(st, g)
    <2> DEFINE g1 == Earlier(p.heartbeat + LeaseMaxAge, clock)
               g2 == Earlier(p.covered + LeaseMaxAge, clock)
    <2>1. g1 \in Nat /\ g2 \in Nat
      BY <1>1, AgeAssumption DEF Earlier
    <2>2. CASE m.stopping
      BY <1>1, <2>2, Zenon DEF Renewed
    <2>3. CASE ~m.stopping /\ ~m.enabled
      BY <1>1, <2>3, Zenon DEF Renewed
    <2>4. CASE ~m.stopping /\ m.enabled
      <3>1. Renewed(p, m) = p \/ Turn("starting", m.reported) \/ Turn("starting", g1) \/ Turn("starting", g2)
        BY <2>4, Zenon DEF Renewed
      <3> HIDE DEF Turn, g1, g2
      <3> QED BY <1>1, <2>1, <3>1
    <2> QED BY <2>2, <2>3, <2>4
  <1>4. ASSUME NEW st \in {"stopped", "disabled", "starting"}, NEW g \in Nat, Turn(st, g)
        PROVE  SameWord(p, Renewed(p, m)) /\ Renewed(p, m).session = p.session
    <2>1. st \in States
      BY <1>2
    <2>2. SameWord(p, [p EXCEPT !.state = st, !.gap = g]) /\ [p EXCEPT !.state = st, !.gap = g].session = p.session
      BY <2>1, LifecycleRow
    <2> QED BY <1>4, <2>2, Zenon
  <1> HIDE DEF Turn
  <1> QED BY <1>1, <1>3, <1>4

LEMMA RestartedRow ==
    ASSUME NEW p \in ProducerRow, NEW m \in ManifestMsg
    PROVE  SameWord(p, Restarted(p, m)) /\ Restarted(p, m).session = m.session
  <1> DEFINE g == IF p.covered # 0 /\ p.covered < m.session THEN p.covered ELSE m.session
  <1>1. Restarted(p, m) = [p EXCEPT !.session = m.session, !.state = FirstState(m), !.covered = 0,
                                    !.gap = g]
    BY DEF Restarted
  <1>2. g \in Nat
    BY DEF ProducerRow, ManifestMsg
  <1>3. FirstState(m) \in States
    BY DEF FirstState, States
  <1>4. m.session \in Nat
    BY DEF ManifestMsg
  <1> HIDE DEF g
  <1> DEFINE a == [p EXCEPT !.session = m.session, !.state = FirstState(m)]
  <1>5. SameWord(p, a) /\ a.session = m.session
    BY <1>3, <1>4 DEF SameWord, ProducerRow
  <1>6. Restarted(p, m) = [a EXCEPT !.covered = 0, !.gap = g]
    BY <1>1
  <1> HIDE DEF a
  <1>7. SameWord(a, Restarted(p, m)) /\ Restarted(p, m).session = a.session
    <2>1. a \in ProducerRow /\ FirstState(m) \in States
      BY <1>3, <1>5 DEF SameWord
    <2>2. SameWord(a, [a EXCEPT !.covered = 0, !.gap = g]) /\ [a EXCEPT !.covered = 0, !.gap = g].session = a.session
      BY <1>2, <2>1, LifecycleRow
    <2> QED BY <1>6, <2>2, Zenon
  <1> QED BY <1>5, <1>7 DEF SameWord

LEMMA InvalidatedRow ==
    ASSUME NEW p \in ProducerRow
    PROVE  LET r == InvalidateSourceHealth(p)
           IN  /\ r \in ProducerRow /\ r.session = p.session /\ r.end = p.end
               /\ r.source = p.source /\ r.since = 0
  BY DEF InvalidateSourceHealth, ProducerRow

LEMMA StampedRow ==
    ASSUME clock \in Nat, NEW p \in ProducerRow, NEW q, SameWord(p, q), NEW m \in ManifestMsg
    PROVE  LET r == Stamped(p, q, m)
           IN  /\ r \in ProducerRow /\ r.session = q.session /\ r.end = p.end
               /\ r.source = p.source /\ (r.since = p.since \/ r.since = 0)
  <1> DEFINE r == [q EXCEPT !.enabled = m.enabled, !.manifest = m.reported, !.heartbeat = clock]
  <1>1. SameWord(p, r) /\ r.session = q.session
    BY DEF SameWord, ProducerRow, ManifestMsg
  <1>2. Stamped(p, q, m) = r \/ Stamped(p, q, m) = InvalidateSourceHealth(r)
    BY DEF Stamped
  <1> HIDE DEF r
  <1> QED BY <1>1, <1>2, InvalidatedRow DEF SameWord

LEMMA ManifestInv ==
    ASSUME IndInv, NEW m \in ManifestMsg, PostRuntimeProducerManifest(m), UNCHANGED <<clock, truth>>
    PROVE  CoreInv' /\ receipts' = receipts
  <1>1. UNCHANGED <<coverage, receipts, healths>>
    BY DEF PostRuntimeProducerManifest
  <1>2. clock \in Nat /\ producer \in ProducerRow
    BY DEF IndInv, TruthInv, CoreInv, ProducerInv
  <1>3. /\ producer' \in ProducerRow
        /\ producer'.session >= producer.session
        /\ \/ /\ producer'.source = producer.source /\ producer'.end = producer.end
              /\ producer'.since = producer.since
           \/ producer'.since = 0 /\ producer'.end <= clock
    <2>1. CASE ~ManifestTaken(m)
      BY <1>2, <2>1 DEF PostRuntimeProducerManifest, ProducerRow
    <2>2. CASE ManifestTaken(m) /\ producer.session = 0
      <3>1. producer' = Declared(m)
        BY <2>2 DEF PostRuntimeProducerManifest
      <3>2. FirstState(m) \in States
        BY DEF FirstState, States
      <3> DEFINE a == [NoProducer EXCEPT !.session = m.session, !.enabled = m.enabled,
                                         !.state = FirstState(m)]
      <3>3. a \in ProducerRow /\ a.session = m.session /\ a.since = 0 /\ a.end = 0
        BY <3>2 DEF NoProducer, ProducerRow, ManifestMsg, States
      <3>4. Declared(m) = [a EXCEPT !.manifest = m.reported, !.heartbeat = clock, !.gap = m.session]
        BY DEF Declared
      <3> HIDE DEF a
      <3>5. Declared(m) \in ProducerRow /\ Declared(m).since = 0 /\ Declared(m).end = 0
            /\ Declared(m).session = m.session
        BY <1>2, <3>3, <3>4 DEF ProducerRow, ManifestMsg
      <3> QED BY <1>2, <2>2, <3>1, <3>5 DEF ManifestMsg
    <2>3. CASE ManifestTaken(m) /\ producer.session # 0
      <3> DEFINE q == IF producer.session = m.session THEN Renewed(producer, m) ELSE Restarted(producer, m)
      <3>1. producer' = Stamped(producer, q, m)
        BY <2>3 DEF PostRuntimeProducerManifest
      <3>2. SameWord(producer, q) /\ q.session >= producer.session
        BY <1>2, <2>3, RenewedRow, RestartedRow DEF ManifestTaken, ProducerRow, ManifestMsg
      <3> HIDE DEF q
      <3>3. /\ producer' \in ProducerRow /\ producer'.session = q.session
            /\ producer'.end = producer.end /\ producer'.source = producer.source
            /\ (producer'.since = producer.since \/ producer'.since = 0)
        BY <1>2, <3>1, <3>2, StampedRow
      <3> QED BY <3>2, <3>3 DEF IndInv, CoreInv, ProducerInv
    <2> QED BY <2>1, <2>2, <2>3
  <1>4. ProducerInv'
    BY <1>3 DEF IndInv, CoreInv, ProducerInv, Sound
  <1>5. CoverageInv'
    BY <1>1, <1>2, <1>3 DEF IndInv, CoreInv, CoverageInv, CoverageRow, ProducerRow, Quiet
  <1>6. \A r \in receipts : ReceiptInv(r)'
    BY <1>1 DEF IndInv, CoreInv, ReceiptInv, Quiet
  <1> QED BY <1>1, <1>4, <1>5, <1>6 DEF IndInv, CoreInv, Disjoint

-----------------------------------------------------------------------------
(* A coverage window. *)

LEMMA ReceivedRow ==
    ASSUME IndInv, NEW m, CoverageMsgInv(m)
    PROVE  /\ Received(m) \in CoverageRow
           /\ Received(m).session = m.session /\ Received(m).status = m.status
           /\ Received(m).start = m.start /\ Received(m).end = m.end
           /\ Received(m).since # 0 => Quiet(m.session, Received(m).since, m.end)
  <1>1. ContinuousSince(m) \in Nat
    BY DEF ContinuousSince, IndInv, CoreInv, CoverageInv, CoverageRow, CoverageMsgInv, CoverageMsg
  <1>2. ContinuousSince(m) # 0 => Quiet(m.session, ContinuousSince(m), m.end)
    BY DEF ContinuousSince, Extends, Quiet, IndInv, CoreInv, CoverageInv, CoverageRow, CoverageMsgInv,
           CoverageMsg
  <1> QED BY <1>1, <1>2 DEF Received, CoverageRow, IndInv, CoreInv, ProducerInv, ProducerRow,
                            CoverageMsgInv, CoverageMsg

LEMMA CoveredRow ==
    ASSUME NEW p \in ProducerRow, NEW c \in CoverageRow
    PROVE  SameWord(p, Covered(p, c)) /\ Covered(p, c).session = p.session
  <1> DEFINE doubt == IF p.covered # 0 /\ p.covered <= c.start THEN p.covered ELSE c.start
             g1 == IF c.since # 0 /\ SourceHealthCovers(p, c.since, c.end) THEN 0
                   ELSE IF p.gap = 0 THEN c.start ELSE p.gap
             g2 == IF p.gap = 0 THEN doubt ELSE p.gap
  <1>1. g1 \in Nat /\ g2 \in Nat /\ c.end \in Nat
    BY DEF ProducerRow, CoverageRow
  <1>2. \/ Covered(p, c) = [p EXCEPT !.covered = c.end, !.state = "active", !.gap = g1]
        \/ Covered(p, c) = [p EXCEPT !.covered = c.end, !.state = "degraded", !.gap = g2]
    BY Zenon DEF Covered
  <1> HIDE DEF g1, g2
  <1>3. ASSUME NEW st \in {"active", "degraded"}, NEW g \in Nat
        PROVE  LET q == [p EXCEPT !.covered = c.end, !.state = st, !.gap = g]
               IN  SameWord(p, q) /\ q.session = p.session
    <2> DEFINE a == [p EXCEPT !.covered = c.end]
    <2>1. SameWord(p, a) /\ a.session = p.session
      BY <1>1 DEF SameWord, ProducerRow
    <2>2. st \in States
      BY DEF States
    <2> HIDE DEF a
    <2>3. SameWord(a, [a EXCEPT !.state = st, !.gap = g]) /\ [a EXCEPT !.state = st, !.gap = g].session = a.session
      BY <2>1, <2>2, LifecycleRow DEF SameWord
    <2> QED BY <2>1, <2>3 DEF a, SameWord
  <1>4. CASE Covered(p, c) = [p EXCEPT !.covered = c.end, !.state = "active", !.gap = g1]
    <2>1. LET q == [p EXCEPT !.covered = c.end, !.state = "active", !.gap = g1]
          IN  SameWord(p, q) /\ q.session = p.session
      BY <1>1, <1>3
    <2> QED BY <1>4, <2>1, Zenon
  <1>5. CASE Covered(p, c) = [p EXCEPT !.covered = c.end, !.state = "degraded", !.gap = g2]
    <2>1. LET q == [p EXCEPT !.covered = c.end, !.state = "degraded", !.gap = g2]
          IN  SameWord(p, q) /\ q.session = p.session
      BY <1>1, <1>3
    <2> QED BY <1>5, <2>1, Zenon
  <1> QED BY <1>2, <1>4, <1>5

LEMMA CoverageInvStep ==
    ASSUME IndInv, NEW m, CoverageMsgInv(m), PostRuntimeCoverage(m), UNCHANGED <<clock, truth>>
    PROVE  /\ CoreInv' /\ receipts \subseteq receipts'
           /\ CoverageAccepted(m) => \E r \in receipts' : r.session = m.session /\ r.start = m.start
                                                         /\ r.end = m.end
  <1>1. CASE CoverageAccepted(m) /\ Stored(m) = {}
    <2> DEFINE c == Received(m)
    <2>1. coverage' = c /\ receipts' = receipts \cup {c} /\ producer' = Covered(producer, c)
      BY <1>1 DEF PostRuntimeCoverage
    <2>2. /\ c \in CoverageRow /\ c.session = m.session /\ c.status = m.status
          /\ c.start = m.start /\ c.end = m.end
          /\ c.since # 0 => Quiet(m.session, c.since, m.end)
      BY ReceivedRow
    <2> HIDE DEF c
    <2>3. producer.session = m.session /\ InOrder(m)
      BY <1>1 DEF CoverageAccepted, Admitted
    <2>4. /\ producer' \in ProducerRow /\ producer'.session = m.session
          /\ producer'.source = producer.source /\ producer'.since = producer.since
          /\ producer'.end = producer.end
      BY <2>1, <2>2, <2>3, CoveredRow DEF SameWord, IndInv, CoreInv, ProducerInv
    <2>5. ProducerInv'
      BY <2>4 DEF IndInv, CoreInv, ProducerInv, Sound
    <2>6. CoverageInv'
      BY <2>1, <2>2, <2>4 DEF CoverageInv, CoverageMsgInv, CoverageMsg, Quiet
    <2>7. \A r \in receipts : r.session = m.session => r.end <= m.start
      <3> SUFFICES ASSUME NEW r \in receipts, r.session = m.session PROVE r.end <= m.start
        OBVIOUS
      <3>1. ReceiptInv(r) /\ coverage.session <= m.session /\ coverage \in CoverageRow
        BY <2>3 DEF IndInv, CoreInv, CoverageInv
      <3>2. coverage.session = m.session /\ r.end <= coverage.end
        BY <3>1 DEF ReceiptInv, CoverageRow, CoverageMsgInv, CoverageMsg
      <3> QED BY <2>3, <3>1, <3>2 DEF InOrder, ReceiptInv, CoverageRow, CoverageMsgInv, CoverageMsg
    <2>8. ASSUME NEW r \in receipts' PROVE ReceiptInv(r)'
      <3>1. CASE r = c
        BY <2>1, <2>2, <3>1 DEF ReceiptInv, CoverageMsgInv, CoverageMsg, Quiet
      <3>2. CASE r \in receipts
        <4>1. ReceiptInv(r) /\ coverage.session <= m.session /\ coverage \in CoverageRow
          BY <2>3, <3>2 DEF IndInv, CoreInv, CoverageInv
        <4> QED BY <2>1, <2>2, <2>7, <3>2, <4>1 DEF ReceiptInv, CoverageRow, CoverageMsgInv,
                                                   CoverageMsg, Quiet
      <3> QED BY <2>1, <3>1, <3>2
    <2>9. Disjoint'
      BY <2>1, <2>2, <2>7 DEF Disjoint, IndInv, CoreInv
    <2> QED BY <2>1, <2>2, <2>5, <2>6, <2>8, <2>9 DEF CoreInv
  <1>2. CASE ~(CoverageAccepted(m) /\ Stored(m) = {})
    <2>1. UNCHANGED core
      BY <1>2 DEF PostRuntimeCoverage, core
    <2>2. CoverageAccepted(m) => \E r \in receipts : r.session = m.session /\ r.start = m.start
                                                       /\ r.end = m.end
      BY <1>2 DEF Stored
    <2> QED BY <2>1, <2>2, CoreKept DEF core
  <1> QED BY <1>1, <1>2

-----------------------------------------------------------------------------
(* A health report of the sensor. *)

LEMMA HealthInvStep ==
    ASSUME IndInv, NEW m, HealthMsgInv(m), PostRuntimeSourceHealth(m), UNCHANGED <<clock, truth>>
    PROVE  CoreInv' /\ receipts' = receipts
  <1>1. CASE ~HealthTaken(m)
    BY <1>1, CoreKept DEF PostRuntimeSourceHealth, core
  <1>2. CASE HealthTaken(m)
    <2> DEFINE s == HealthSince(m)
               g == IF ~SameSource(m) \/ ~m.healthy THEN m.start ELSE producer.gap
               a == [producer EXCEPT !.source = m.source, !.since = s, !.end = m.end]
               b == [a EXCEPT !.received = clock, !.sequence = m.sequence, !.expires = m.expires]
    <2>1. s \in Nat /\ (s # 0 => Sound(m.source, s, m.end))
      BY DEF HealthSince, SameSource, Sound, IndInv, CoreInv, ProducerInv, ProducerRow, HealthMsgInv,
             HealthMsg
    <2>2. g \in Nat /\ producer \in ProducerRow /\ m \in HealthMsg /\ clock \in Nat
      BY DEF IndInv, TruthInv, CoreInv, ProducerInv, ProducerRow, HealthMsgInv, HealthMsg
    <2>3. producer' = [b EXCEPT !.authoritative = m.healthy, !.gap = g]
      BY <1>2, <2>2 DEF PostRuntimeSourceHealth, ProducerRow
    <2> HIDE DEF s, g
    <2>4. a \in ProducerRow /\ a.session = producer.session /\ a.source = m.source /\ a.since = s
          /\ a.end = m.end
      BY <2>1, <2>2 DEF ProducerRow, HealthMsg
    <2> HIDE DEF a
    <2>5. SameWord(a, b) /\ b.session = a.session
      BY <2>2, <2>4 DEF SameWord, ProducerRow, HealthMsg
    <2> HIDE DEF b
    <2>6. SameWord(b, producer') /\ producer'.session = b.session
      BY <2>2, <2>3, <2>5 DEF SameWord, ProducerRow, HealthMsg
    <2>7. /\ producer' \in ProducerRow /\ producer'.session = producer.session
          /\ producer'.source = m.source /\ producer'.since = s /\ producer'.end = m.end
      BY <2>4, <2>5, <2>6 DEF SameWord
    <2>8. ProducerInv'
      BY <2>1, <2>7 DEF ProducerInv, HealthMsgInv, Sound
    <2>9. receipts' = receipts /\ (coverage' = coverage \/ coverage' = [coverage EXCEPT !.since = 0])
      BY <1>2 DEF PostRuntimeSourceHealth
    <2>10. /\ coverage' \in CoverageRow /\ coverage'.session = coverage.session
           /\ coverage'.end = coverage.end
           /\ coverage'.since = coverage.since \/ coverage'.since = 0
      BY <2>9 DEF CoverageRow, IndInv, CoreInv, CoverageInv
    <2>11. CoverageInv'
      BY <2>7, <2>10 DEF IndInv, CoreInv, CoverageInv, Quiet
    <2>12. \A r \in receipts : ReceiptInv(r)'
      BY <2>10 DEF IndInv, CoreInv, ReceiptInv, Quiet
    <2> QED BY <2>8, <2>9, <2>11, <2>12 DEF IndInv, CoreInv, Disjoint
  <1> QED BY <1>1, <1>2

-----------------------------------------------------------------------------
(* A request is handled, and its answer is heard or not. *)

LEMMA HandleInv == ASSUME IndInv, NEW m \in net, Handle(m) PROVE IndInv'
  <1>1. UNCHANGED <<clock, sensor, truth>> /\ net' \subseteq net
    BY DEF Handle
  <1>2. NetInv'
    BY <1>1, MsgKept DEF IndInv, NetInv
  <1>3. TruthInv' /\ SensorInv'
    BY <1>1, SensorKept DEF IndInv, TruthInv
  <1>4. MsgInv(m)
    BY DEF IndInv, NetInv
  <1>5. CASE m \in ManifestMsg
    <2>1. PostRuntimeProducerManifest(m) /\ UNCHANGED agent
      BY <1>5 DEF Handle, ManifestMsg
    <2> QED BY <1>1, <1>2, <1>3, <1>5, <2>1, ManifestInv, AgentKept, AccountedKept DEF IndInv
  <1>6. CASE HealthMsgInv(m)
    <2>1. PostRuntimeSourceHealth(m) /\ UNCHANGED agent
      BY <1>6 DEF Handle, HealthMsgInv, HealthMsg
    <2> QED BY <1>1, <1>2, <1>3, <1>6, <2>1, HealthInvStep, AgentKept, AccountedKept DEF IndInv
  <1>7. CASE CoverageMsgInv(m)
    <2>1. PostRuntimeCoverage(m) /\ agent' \in Acknowledged(m, CoverageAccepted(m))
      BY <1>7 DEF Handle, CoverageMsgInv, CoverageMsg
    <2>2. /\ CoreInv' /\ receipts \subseteq receipts'
          /\ CoverageAccepted(m) => \E r \in receipts' : r.session = m.session /\ r.start = m.start
                                                        /\ r.end = m.end
      BY <1>1, <1>7, <2>1, CoverageInvStep
    <2>3. CASE agent' = agent
      <3>1. ObservedIsAccounted'
        BY <2>2, <2>3 DEF IndInv, ObservedIsAccounted
      <3> QED BY <1>1, <1>2, <1>3, <2>2, <2>3, <3>1, AgentKept DEF IndInv
    <2>4. CASE agent' # agent
      <3>1. /\ CoverageAccepted(m) /\ agent.up /\ agent.pending # NoWindow
            /\ m = Message(agent.pending) /\ agent' = [agent EXCEPT !.pending = NoWindow]
        BY <2>1, <2>4 DEF Acknowledged
      <3>2. m.session = agent.session /\ m.start = agent.pending.start /\ m.end = agent.pending.end
        BY <3>1 DEF Message
      <3>3. /\ agent' \in AgentState
            /\ agent'.session = agent.session /\ agent'.up = agent.up /\ agent'.from = agent.from
            /\ agent'.next = agent.next /\ agent'.pending = NoWindow
            /\ agent'.backlog = agent.backlog /\ agent'.enabled = agent.enabled
        BY <3>1 DEF IndInv, AgentInv, AgentState, Window, NoWindow
      <3>4. AgentInv'
        BY <1>1, <3>3 DEF IndInv, AgentInv, WindowInv, Quiet
      <3>5. ObservedIsAccounted'
        BY <2>2, <3>1, <3>2, <3>3 DEF IndInv, ObservedIsAccounted
      <3> QED BY <1>2, <1>3, <2>2, <3>4, <3>5 DEF IndInv
    <2> QED BY <2>3, <2>4
  <1> QED BY <1>4, <1>5, <1>6, <1>7 DEF MsgInv

LEMMA StepInv == IndInv /\ [Next]_vars => IndInv'
  <1> SUFFICES ASSUME IndInv, [Next]_vars PROVE IndInv'
    OBVIOUS
  <1>1. CASE UNCHANGED vars
    BY <1>1, CoreKept, NetKept, SensorKept, AgentKept, AccountedKept DEF vars, core, IndInv
  <1> QED BY <1>1, TickInv, StartAgentInv, EndAgentInv, RestartSensorInv, ObserveInv, ResetInv,
             PostCoverageInv, PostHealthInv, ReportInv, HandleInv DEF Next

LEMMA Inductive == Spec => []IndInv
  BY InitInv, StepInv, PTL DEF Spec

-----------------------------------------------------------------------------

\* Whatever is late, lost or repeated, and whoever restarts, an interval that CoversInterval
\* vouches for was watched by that Agent session without a loss and by that sensor session in
\* health (PostRuntimeCoverage, PostRuntimeSourceHealth, PostRuntimeProducerManifest).
THEOREM CoverageIsTrueTheorem == Spec => []CoverageIsTrue
  <1>1. IndInv => CoverageIsTrue
    <2> SUFFICES ASSUME IndInv, NEW start \in 1 .. clock, NEW end \in 1 .. clock,
                        CoversInterval(coverage, producer, start, end), NEW t \in start .. end - 1
                 PROVE  /\ truth[t].agent = coverage.session /\ ~truth[t].lost
                        /\ truth[t].sensor = producer.source /\ ~truth[t].sick
      BY DEF CoverageIsTrue
    <2>1. /\ producer.since # 0 /\ producer.since <= start /\ end <= producer.end
          /\ coverage.since # 0 /\ coverage.since <= start /\ end <= coverage.end
      BY Zenon DEF CoversInterval, SourceHealthCovers
    <2>2. /\ Sound(producer.source, producer.since, producer.end)
          /\ Quiet(coverage.session, coverage.since, coverage.end)
          /\ producer \in ProducerRow /\ coverage \in CoverageRow /\ clock \in Nat
      BY <2>1 DEF IndInv, TruthInv, CoreInv, ProducerInv, CoverageInv
    <2>3. t \in producer.since .. producer.end - 1 /\ t \in coverage.since .. coverage.end - 1
      BY <2>1, <2>2 DEF ProducerRow, CoverageRow
    <2> QED BY <2>2, <2>3 DEF Sound, Quiet
  <1> QED BY <1>1, Inductive, PTL

\* Receipts of one session never overlap and a complete one hides no loss, for any number of
\* restarts and any order of delivery (the unique window and the order check of PostRuntimeCoverage).
THEOREM ReceiptsAddUpTheorem == Spec => []ReceiptsAddUp
  <1>1. IndInv => ReceiptsAddUp
    BY DEF IndInv, CoreInv, ReceiptInv, Disjoint, Quiet, ReceiptsAddUp
  <1> QED BY <1>1, Inductive, PTL

\* Nothing that a reporter has observed gets lost between Observe, the backlog, the pending
\* report and Core's receipts, however often a report is sent or its answer is missed.
THEOREM ObservedTheorem == Spec => []ObservedIsAccounted
  <1>1. IndInv => ObservedIsAccounted
    BY DEF IndInv
  <1> QED BY <1>1, Inductive, PTL
=============================================================================
