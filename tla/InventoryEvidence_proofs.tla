---------------------- MODULE InventoryEvidence_proofs ----------------------
(***************************************************************************)
(* Proofs about InventoryEvidence, for every set of Agents, evaluators,     *)
(* updaters and operators and every bound.  IndInv ties what Core stores to *)
(* what the cluster was: a List that shows the Role without the risk is a   *)
(* lower bound on lastClean wherever its answer has got to (ListInv), and   *)
(* what an updater has read is still true while the versions it compares    *)
(* are unchanged (UpdaterInv).                                              *)
(***************************************************************************)
EXTENDS InventoryEvidence, TLAPS

\* Attempts under way have an ID, evaluations are of a Role that is there.
Shape ==
    /\ \A a \in Agent : agent[a].pc # "idle" => agent[a].id # 0
    /\ \A e \in Evaluator : ev[e].pc # "idle" => ev[e].snap.uid # 0

\* Nothing is dated in the future, and the stored Role is no newer than the receipt.
TimeInv ==
    /\ receipt.started <= clock
    /\ basis <= receipt.started
    /\ \A m \in net \cup failing : m.started <= clock
    /\ \A a \in Agent : agent[a].started <= clock /\ agent[a].listAt <= clock
    /\ \A u \in Uid : lastClean[u] <= clock
    /\ kube.live /\ kube.rules = "clean" => lastClean[kube.uid] = clock

\* What a List that began at time t may have answered.
Seen(c, t) ==
    /\ c.uid = 0 => c.rules = "clean"
    /\ c.uid # 0 /\ c.rules = "clean" => t <= lastClean[c.uid]

ListInv ==
    /\ \A m \in net \cup failing : Seen(m.content, m.listAt)
    /\ \A a \in Agent : agent[a].pc = "listed" => Seen(agent[a].content, agent[a].listAt)
    /\ Seen(receipt.content, receipt.listAt)
    /\ row.uid = 0 => row.rules = "clean"

UpdaterInv ==
    \A p \in Updater :
      /\ up[p].version <= row.version
      /\ up[p].pc \in {"clean", "committing"} /\ SameVersion(p) => row.rules = "clean"
      /\ up[p].pc = "committing" /\ SameVersion(p) => up[p].snap = Stored
      /\ up[p].ins.updated <= insight[up[p].uid].updated
      /\ up[p].pc # "idle" /\ up[p].ins.updated = insight[up[p].uid].updated =>
           up[p].ins = insight[up[p].uid]

IndInv == TypeOK /\ Shape /\ TimeInv /\ ListInv /\ ReceiptMatchesInventory /\ UpdaterInv
-----------------------------------------------------------------------------
(* Type correctness. *)

LEMMA DefaultsTyped ==
    /\ NoRole \in Content /\ NoInsight \in Insight
    /\ Idle \in Attempt /\ EvIdle \in Evaluation /\ UpIdle \in Update /\ OpIdle \in Request
    /\ 0 \in Time
  <1>1. 0 \in Time /\ 1 \in Uid /\ 0 \in 0..MaxUid /\ 0 \in 0..MaxSyncs /\ 0 \in 0..MaxWrites /\ 0 \in 0..MaxVersions
    BY LimitAssumption DEF Time, Uid
  <1>2. NoRole \in Content /\ NoInsight \in Insight
    BY <1>1 DEF NoRole, Content, Rules, NoInsight, Insight
  <1>3. Idle \in Attempt /\ EvIdle \in Evaluation
    BY <1>1, <1>2 DEF Idle, Attempt, EvIdle, Evaluation
  <1>4. UpIdle \in Update /\ OpIdle \in Request
    BY <1>1, <1>2 DEF UpIdle, Update, OpIdle, Request
  <1> QED BY <1>1, <1>2, <1>3, <1>4

LEMMA DefaultFields ==
    /\ Idle.pc = "idle" /\ Idle.id = 0 /\ Idle.started = 0 /\ Idle.listAt = 0
    /\ EvIdle.pc = "idle"
    /\ UpIdle.pc = "idle" /\ UpIdle.version = 0 /\ UpIdle.ins.updated = 0
    /\ NoRole.uid = 0 /\ NoRole.rules = "clean"
  BY DEF Idle, EvIdle, UpIdle, NoInsight, NoRole

LEMMA InitTyped == Init => TypeOK /\ Shape
  <1> SUFFICES ASSUME Init PROVE TypeOK /\ Shape
    OBVIOUS
  <1>1. /\ clock \in Time \ {0} /\ edits \in 0..MaxEdits /\ attempts \in 0..MaxSyncs
        /\ faults \in 0..MaxFaults /\ basis \in Time
    <2>1. clock = 1 /\ edits = 0 /\ attempts = 0 /\ faults = 0 /\ basis = 0
      BY DEF Init
    <2> QED BY <2>1, LimitAssumption DEF Time
  <1>2. kube \in Role
    <2>1. 1 \in Uid
      BY LimitAssumption DEF Uid
    <2>2. kube \in [uid : {1}, live : {TRUE}, rules : Rules]
      BY DEF Init
    <2> QED BY <2>1, <2>2 DEF Role
  <1>3. lastClean \in [Uid -> Time]
    BY LimitAssumption DEF Init, Time
  <1>4. agent \in [Agent -> Attempt] /\ ev \in [Evaluator -> Evaluation]
    BY DefaultsTyped DEF Init
  <1>5. up \in [Updater -> Update] /\ op \in [Operator -> Request] /\ insight \in [Uid -> Insight]
    BY DefaultsTyped DEF Init
  <1>6. receipt \in Receipt
    BY DefaultsTyped, LimitAssumption DEF Init, Receipt
  <1>7. row \in Row
    BY LimitAssumption DEF Init, Row, Rules
  <1>8. net \subseteq Collection /\ failing \subseteq Collection
    BY DEF Init
  <1>9. Shape
    BY DefaultFields DEF Init, Shape
  <1> QED BY <1>1, <1>2, <1>3, <1>4, <1>5, <1>6, <1>7, <1>8, <1>9 DEF TypeOK

LEMMA CollectTyped ==
    ASSUME TypeOK, Shape, NEW a \in Agent
    PROVE  /\ SyncOnce(a) \/ StartList(a) \/ ListRoles(a) => TypeOK' /\ Shape'
           /\ \A s \in {"complete", "failed"} : Post(a, s) => TypeOK' /\ Shape'
  <1>0. agent[a] \in Attempt /\ clock \in Time /\ attempts \in 0..MaxSyncs
    BY DEF TypeOK
  <1>1. ASSUME SyncOnce(a) PROVE TypeOK' /\ Shape'
    <2>1. attempts + 1 \in 0..MaxSyncs /\ attempts + 1 # 0
      BY <1>0, <1>1, LimitAssumption DEF SyncOnce
    <2> DEFINE new == [Idle EXCEPT !.pc = "begun", !.id = attempts + 1, !.started = clock]
    <2>2. new \in Attempt /\ new.id # 0
      BY <1>0, <2>1, DefaultsTyped DEF Attempt
    <2>3. agent' = [agent EXCEPT ![a] = new] /\ attempts' = attempts + 1
      BY <1>1 DEF SyncOnce
    <2> HIDE DEF new
    <2>4. agent' \in [Agent -> Attempt] /\ attempts' \in 0..MaxSyncs
      BY <2>1, <2>2, <2>3 DEF TypeOK
    <2>5. TypeOK'
      BY <1>1, <2>4, Zenon DEF TypeOK, SyncOnce, cluster, inventory
    <2>6. Shape'
      BY <1>1, <2>2, <2>3 DEF TypeOK, Shape, SyncOnce
    <2> QED BY <2>5, <2>6
  <1>2. ASSUME StartList(a) PROVE TypeOK' /\ Shape'
    <2>1. agent' \in [Agent -> Attempt]
      BY <1>0, <1>2 DEF TypeOK, StartList, Attempt
    <2>2. TypeOK'
      BY <1>2, <2>1, Zenon DEF TypeOK, StartList, cluster, inventory
    <2>3. Shape'
      BY <1>2 DEF TypeOK, Shape, StartList, Attempt
    <2> QED BY <2>2, <2>3
  <1>3. ASSUME ListRoles(a) PROVE TypeOK' /\ Shape'
    <2> DEFINE c == IF kube.live /\ a \in Covering THEN [uid |-> kube.uid, rules |-> kube.rules] ELSE NoRole
    <2>1. c \in Content
      <3>1. kube.uid \in 0..MaxUid /\ kube.rules \in Rules
        BY DEF TypeOK, Role, Uid
      <3> QED BY <3>1, DefaultsTyped DEF Content
    <2>2. agent' = [agent EXCEPT ![a].pc = "listed", ![a].content = c]
      BY <1>3 DEF ListRoles
    <2> HIDE DEF c
    <2>3. agent' \in [Agent -> Attempt]
      BY <1>0, <2>1, <2>2 DEF TypeOK, Attempt
    <2>4. TypeOK'
      BY <1>3, <2>3, Zenon DEF TypeOK, ListRoles, cluster, inventory
    <2>5. Shape'
      BY <1>3 DEF TypeOK, Shape, ListRoles, Attempt
    <2> QED BY <2>4, <2>5
  <1>4. ASSUME NEW s \in {"complete", "failed"}, Post(a, s) PROVE TypeOK' /\ Shape'
    <2>1. agent[a].id \in 1..MaxSyncs
      <3>1. agent[a].id \in 0..MaxSyncs /\ agent[a].id # 0
        BY <1>0, <1>4 DEF Post, Shape, Attempt
      <3> QED BY <3>1, LimitAssumption
    <2>2. Posted(a, s) \in Collection
      BY <1>0, <2>1, DefaultsTyped DEF Posted, Collection, Attempt
    <2>3. net' \subseteq Collection /\ agent' \in [Agent -> Attempt]
      BY <1>4, <2>2, DefaultsTyped DEF TypeOK, Post
    <2>4. faults' \in 0..MaxFaults
      BY <1>4, LimitAssumption DEF TypeOK, Post, Fault
    <2>5. TypeOK'
      BY <1>4, <2>3, <2>4, Zenon DEF TypeOK, Post, cluster, inventory
    <2>6. Shape'
      BY <1>4, DefaultFields DEF TypeOK, Shape, Post
    <2> QED BY <2>5, <2>6
  <1> QED BY <1>1, <1>2, <1>3, <1>4

LEMMA CollectionFields ==
    ASSUME NEW m \in Collection
    PROVE  /\ m.agent \in Agent /\ m.id \in 1..MaxSyncs /\ m.status \in {"complete", "failed"}
           /\ m.started \in Time /\ m.listAt \in Time /\ m.observed \in Time
           /\ m.content \in Content
           /\ m.content.uid \in 0..MaxUid /\ m.content.rules \in Rules
  BY DEF Collection, Content

\* What processSyncedRoles makes of the row.
LEMMA SyncedCases ==
    ASSUME NEW m
    PROVE  \/ Synced(m) = row /\ (~Says(m) \/ m.content = Stored)
           \/ /\ Says(m) /\ m.content.uid # 0
              /\ Synced(m) = [uid |-> m.content.uid, rules |-> m.content.rules, version |-> row.version + 1]
           \/ /\ Says(m) /\ m.content.uid = 0
              /\ Synced(m) = [row EXCEPT !.uid = 0, !.rules = "clean"]
  <1>1. CASE ~Says(m) \/ m.content = Stored
    BY <1>1 DEF Synced
  <1>2. CASE Says(m) /\ m.content # Stored /\ m.content.uid # 0
    BY <1>2 DEF Synced
  <1>3. CASE Says(m) /\ m.content # Stored /\ m.content.uid = 0
    BY <1>3 DEF Synced
  <1> QED BY <1>1, <1>2, <1>3

LEMMA SyncedTyped ==
    ASSUME TypeOK, NEW m \in Collection, Synced(m).version <= MaxVersions
    PROVE  Synced(m) \in Row
  <1>1. row \in Row /\ row.version \in 0..MaxVersions /\ MaxVersions \in Nat
    BY LimitAssumption DEF TypeOK, Row
  <1>2. CASE Synced(m) = row
    BY <1>1, <1>2
  <1>3. CASE Synced(m) = [uid |-> m.content.uid, rules |-> m.content.rules, version |-> row.version + 1]
    <2>1. row.version + 1 \in 0..MaxVersions
      BY <1>1, <1>3
    <2> QED BY <1>3, <2>1, CollectionFields DEF Row
  <1>4. CASE Synced(m) = [row EXCEPT !.uid = 0, !.rules = "clean"]
    <2>1. 0 \in 0..MaxUid
      BY LimitAssumption
    <2> QED BY <1>1, <1>4, <2>1 DEF Row, Rules
  <1> QED BY <1>2, <1>3, <1>4, SyncedCases

LEMMA VerifiedTyped ==
    ASSUME NEW m \in Collection
    PROVE  /\ Verified(m) \in Receipt
           /\ [Verified(m) EXCEPT !.status = "failed"] \in Receipt
           /\ Verified(m).status = m.status /\ Verified(m).started = m.started
           /\ Verified(m).content = m.content /\ Verified(m).listAt = m.listAt
           /\ Verified(m).agent = m.agent
  <1>1. m.id \in 0..MaxSyncs
    BY CollectionFields, LimitAssumption
  <1>2. Verified(m) \in Receipt
    BY <1>1, CollectionFields DEF Verified, Receipt
  <1>3. [Verified(m) EXCEPT !.status = "failed"] \in Receipt
    BY <1>2 DEF Receipt
  <1> QED BY <1>2, <1>3 DEF Verified

LEMMA FaultTyped == ASSUME TypeOK, Fault PROVE faults' \in 0..MaxFaults
  BY LimitAssumption DEF TypeOK, Fault

LEMMA SyncTyped ==
    ASSUME TypeOK, Shape, NEW m \in net \cup failing,
           \/ m \in net /\ (SyncObservedData(m) \/ SyncUnapplied(m) \/ SyncRollsBack(m) \/ SyncUnverifiedData(m))
           \/ m \in failing /\ (RecordFailure(m) \/ FailureUnrecorded(m))
    PROVE  TypeOK' /\ Shape'
  <1>0. m \in Collection /\ m.started \in Time /\ basis \in Time /\ failing \subseteq Collection
    BY CollectionFields DEF TypeOK
  <1>s. ASSUME UNCHANGED <<agent, ev>> PROVE Shape'
    BY <1>s DEF Shape
  <1>b. BasisAfter(m) \in Time
    BY <1>0 DEF BasisAfter
  <1>1. CASE SyncObservedData(m)
    <2>1. receipt' \in Receipt
      BY <1>0, <1>1, VerifiedTyped DEF SyncObservedData
    <2>2. row' \in Row /\ basis' \in Time
      BY <1>0, <1>1, <1>b, SyncedTyped DEF SyncObservedData, TypeOK
    <2>3. faults' \in 0..MaxFaults /\ failing' \subseteq Collection
      BY <1>0, <1>1, FaultTyped DEF SyncObservedData, TypeOK, Fails
    <2>4. TypeOK'
      BY <1>1, <2>1, <2>2, <2>3, Zenon DEF TypeOK, SyncObservedData, cluster
    <2> QED BY <1>1, <1>s, <2>4 DEF SyncObservedData
  <1>2. CASE SyncUnapplied(m)
    <2>1. TypeOK'
      BY <1>2, Zenon DEF TypeOK, SyncUnapplied, vars, cluster, inventory
    <2> QED BY <1>2, <1>s, <2>1 DEF SyncUnapplied, vars
  <1>3. CASE SyncRollsBack(m)
    <2>1. faults' \in 0..MaxFaults /\ failing' \subseteq Collection
      BY <1>0, <1>3, FaultTyped DEF SyncRollsBack, Fails
    <2>2. TypeOK'
      BY <1>3, <2>1, Zenon DEF TypeOK, SyncRollsBack, cluster, inventory
    <2> QED BY <1>3, <1>s, <2>2 DEF SyncRollsBack
  <1>4. CASE SyncUnverifiedData(m)
    <2>1. receipt' \in Receipt
      <3>1. clock \in Time /\ 0 \in 0..MaxSyncs
        BY LimitAssumption DEF TypeOK
      <3> QED BY <1>4, <3>1, DefaultsTyped DEF SyncUnverifiedData, Unverified, Receipt
    <2>2. row' \in Row /\ basis' \in Time
      BY <1>0, <1>4, <1>b, SyncedTyped DEF SyncUnverifiedData, TypeOK
    <2>3. TypeOK'
      BY <1>4, <2>1, <2>2, Zenon DEF TypeOK, SyncUnverifiedData, cluster
    <2> QED BY <1>4, <1>s, <2>3 DEF SyncUnverifiedData
  <1>5. CASE RecordFailure(m)
    <2>1. receipt' \in Receipt /\ failing' \subseteq Collection
      BY <1>0, <1>5, VerifiedTyped DEF RecordFailure, TypeOK
    <2>2. TypeOK'
      BY <1>5, <2>1, Zenon DEF TypeOK, RecordFailure, cluster
    <2> QED BY <1>5, <1>s, <2>2 DEF RecordFailure
  <1>6. CASE FailureUnrecorded(m)
    <2>1. failing' \subseteq Collection
      BY <1>0, <1>6 DEF FailureUnrecorded
    <2>2. TypeOK'
      BY <1>6, <2>1, Zenon DEF TypeOK, FailureUnrecorded, cluster, inventory
    <2> QED BY <1>6, <1>s, <2>2 DEF FailureUnrecorded
  <1> QED BY <1>1, <1>2, <1>3, <1>4, <1>5, <1>6

LEMMA StoredTyped == TypeOK => Stored \in Content /\ Stored.uid = row.uid /\ Stored.rules = row.rules
  BY DEF TypeOK, Row, Stored, Content

\* A finding is rewritten under the next version number.
LEMMA InsightTyped ==
    ASSUME TypeOK, NEW u \in Uid, insight[u].updated < MaxWrites
    PROVE  /\ insight[u].updated + 1 \in 0..MaxWrites
           /\ insight[u].status \in {"none"} \cup Open \cup Closed
           /\ insight[u].detected \in Time
  <1>1. insight[u] \in Insight
    BY DEF TypeOK
  <1>2. insight[u].updated \in 0..MaxWrites
    BY <1>1 DEF Insight
  <1>3. insight[u].updated + 1 \in 0..MaxWrites
    BY <1>2, LimitAssumption
  <1> QED BY <1>1, <1>3 DEF Insight

LEMMA ReopenedTyped ==
    ASSUME TypeOK, NEW u \in Uid, insight[u].updated < MaxWrites
    PROVE  Reopened(insight[u]) \in Insight /\ Reopened(insight[u]).updated = insight[u].updated + 1
  <1>1. clock \in Time
    BY DEF TypeOK
  <1> QED BY <1>1, InsightTyped DEF Reopened, Insight, Open

LEMMA EvaluateTyped ==
    ASSUME TypeOK, Shape, NEW e \in Evaluator, FetchRoles(e) \/ Evaluate(e) \/ CreateOrUpdateInsight(e)
    PROVE  TypeOK' /\ Shape'
  <1>0. ev[e] \in Evaluation /\ clock \in Time /\ ev \in [Evaluator -> Evaluation]
    BY DEF TypeOK
  <1>1. CASE FetchRoles(e)
    <2> DEFINE new == [EvIdle EXCEPT !.pc = "read", !.snap = Stored]
    <2>1. new \in Evaluation /\ new.snap.uid # 0
      BY <1>1, StoredTyped, DefaultsTyped DEF FetchRoles, Evaluation
    <2>2. ev' = [ev EXCEPT ![e] = new]
      BY <1>1 DEF FetchRoles
    <2> HIDE DEF new
    <2>3. ev' \in [Evaluator -> Evaluation]
      BY <1>0, <2>1, <2>2
    <2>4. TypeOK'
      BY <1>1, <2>3, Zenon DEF TypeOK, FetchRoles, Busy, cluster, inventory
    <2>5. Shape'
      BY <1>0, <1>1, <2>1, <2>2 DEF Shape, FetchRoles, Busy
    <2> QED BY <2>4, <2>5
  <1>2. CASE Evaluate(e)
    <2> DEFINE new == IF ev[e].snap.rules = "risky" THEN [ev[e] EXCEPT !.pc = "found", !.detected = clock]
                                                    ELSE EvIdle
    <2>1. new \in Evaluation /\ (new.pc # "idle" => new.snap.uid # 0)
      BY <1>0, <1>2, DefaultsTyped, DefaultFields DEF Evaluate, Evaluation, Shape
    <2>2. ev' = [ev EXCEPT ![e] = new]
      BY <1>2 DEF Evaluate
    <2> HIDE DEF new
    <2>3. ev' \in [Evaluator -> Evaluation]
      BY <1>0, <2>1, <2>2
    <2>4. TypeOK'
      BY <1>2, <2>3, Zenon DEF TypeOK, Evaluate, Busy, cluster, inventory
    <2>5. Shape'
      BY <1>0, <1>2, <2>1, <2>2 DEF Shape, Evaluate, Busy
    <2> QED BY <2>4, <2>5
  <1>3. CASE CreateOrUpdateInsight(e)
    <2> DEFINE u == ev[e].snap.uid
    <2>1. u \in Uid
      <3>1. u \in 0..MaxUid /\ u # 0
        BY <1>0, <1>3 DEF CreateOrUpdateInsight, Shape, Evaluation, Content
      <3> QED BY <3>1, LimitAssumption DEF Uid
    <2>2. ev[e].detected \in Time /\ insight \in [Uid -> Insight]
      BY <1>0 DEF TypeOK, Evaluation
    <2>3. insight' \in [Uid -> Insight]
      <3>1. insight[u].updated < MaxWrites
        BY <1>3 DEF CreateOrUpdateInsight
      <3>2. [status |-> "active", detected |-> ev[e].detected, updated |-> insight[u].updated + 1] \in Insight
        BY <2>1, <2>2, <3>1, InsightTyped DEF Insight, Open
      <3>3. Reopened(insight[u]) \in Insight
        BY <2>1, <3>1, ReopenedTyped
      <3> QED BY <1>3, <2>1, <2>2, <3>2, <3>3 DEF CreateOrUpdateInsight
    <2>4. ev' = [ev EXCEPT ![e] = EvIdle]
      BY <1>3 DEF CreateOrUpdateInsight
    <2>5. ev' \in [Evaluator -> Evaluation]
      BY <1>0, <2>4, DefaultsTyped
    <2>6. TypeOK'
      BY <1>3, <2>3, <2>5, Zenon DEF TypeOK, CreateOrUpdateInsight, Busy, cluster, inventory
    <2>7. Shape'
      BY <1>0, <1>3, <2>4, DefaultFields DEF Shape, CreateOrUpdateInsight, Busy
    <2> QED BY <2>6, <2>7
  <1> QED BY <1>1, <1>2, <1>3

LEMMA UpdateTyped ==
    ASSUME TypeOK, Shape, NEW p \in Updater,
           \/ \E u \in Uid : PickInsight(p, u)
           \/ SnapshotVersion(p) \/ ReadSnapshot(p) \/ CheckEvidence(p) \/ CheckRisk(p) \/ Resolve(p)
    PROVE  TypeOK' /\ Shape'
  <1>0. up[p] \in Update /\ up \in [Updater -> Update] /\ up[p].uid \in Uid
    BY DEF TypeOK, Update
  <1>s. ASSUME UNCHANGED <<Busy, ev>> PROVE Shape'
    BY <1>s DEF Shape, Busy
  <1>t. ASSUME UNCHANGED <<Busy, ev, op>>, up' \in [Updater -> Update], insight' \in [Uid -> Insight] PROVE TypeOK'
    BY <1>t, Zenon DEF TypeOK, Busy, cluster, inventory
  <1>i. insight \in [Uid -> Insight]
    BY DEF TypeOK
  <1>1. ASSUME NEW u \in Uid, PickInsight(p, u) PROVE TypeOK' /\ Shape'
    <2>1. [UpIdle EXCEPT !.pc = "picked", !.uid = u, !.ins = insight[u]] \in Update
      BY <1>i, DefaultsTyped DEF Update
    <2>2. up' \in [Updater -> Update] /\ insight' = insight
      BY <1>0, <1>1, <2>1 DEF PickInsight
    <2> QED BY <1>1, <1>i, <1>s, <1>t, <2>2 DEF PickInsight
  <1>2. CASE SnapshotVersion(p)
    <2>1. [up[p] EXCEPT !.pc = "versioned", !.version = row.version] \in Update
      <3>1. row.version \in 0..MaxVersions
        BY DEF TypeOK, Row
      <3> QED BY <1>0, <3>1 DEF Update
    <2>2. up' \in [Updater -> Update] /\ insight' = insight
      BY <1>0, <1>2, <2>1, DefaultsTyped DEF SnapshotVersion
    <2> QED BY <1>2, <1>i, <1>s, <1>t, <2>2 DEF SnapshotVersion
  <1>3. CASE ReadSnapshot(p)
    <2> DEFINE pc == IF up[p].pc = "versioned" THEN "checking" ELSE "committing"
               new == [up[p] EXCEPT !.pc = pc, !.snap = Stored, !.now = clock]
    <2>1. new \in Update
      BY <1>0, StoredTyped DEF Update, TypeOK
    <2>2. up' = [up EXCEPT ![p] = IF row.uid = up[p].uid THEN new ELSE UpIdle] /\ insight' = insight
      BY <1>0, <1>3 DEF ReadSnapshot
    <2> HIDE DEF new
    <2>3. up' \in [Updater -> Update]
      BY <1>0, <2>1, <2>2, DefaultsTyped
    <2> QED BY <1>3, <1>i, <1>s, <1>t, <2>2, <2>3 DEF ReadSnapshot
  <1>4. CASE CheckEvidence(p)
    <2>1. [up[p] EXCEPT !.pc = "checked"] \in Update
      BY <1>0 DEF Update
    <2>2. up' \in [Updater -> Update] /\ insight' = insight
      BY <1>0, <1>4, <2>1, DefaultsTyped DEF CheckEvidence
    <2> QED BY <1>4, <1>i, <1>s, <1>t, <2>2 DEF CheckEvidence
  <1>5. CASE CheckRisk(p)
    <2>1. [up[p] EXCEPT !.pc = "clean"] \in Update
      BY <1>0 DEF Update
    <2>2. up' \in [Updater -> Update] /\ insight' = insight
      BY <1>0, <1>5, <2>1, DefaultsTyped DEF CheckRisk
    <2> QED BY <1>5, <1>i, <1>s, <1>t, <2>2 DEF CheckRisk
  <1>6. CASE Resolve(p)
    <2> DEFINE u == up[p].uid
    <2>1. up' \in [Updater -> Update]
      BY <1>0, <1>6, DefaultsTyped DEF Resolve
    <2>2. \/ insight' = insight
          \/ /\ insight[u].updated < MaxWrites
             /\ insight' = [insight EXCEPT ![u].status = "resolved", ![u].updated = @ + 1]
      BY <1>6 DEF Resolve
    <2>3. insight' \in [Uid -> Insight]
      <3>1. CASE insight' = insight
        BY <1>i, <3>1
      <3>2. CASE insight[u].updated < MaxWrites /\ insight' = [insight EXCEPT ![u].status = "resolved", ![u].updated = @ + 1]
        <4>1. [insight[u] EXCEPT !.status = "resolved", !.updated = @ + 1] \in Insight
          <5>1. insight[u] \in Insight /\ insight[u].updated + 1 \in 0..MaxWrites
            BY <1>0, <1>i, <3>2, InsightTyped
          <5> QED BY <5>1 DEF Insight, Closed
        <4> QED BY <1>0, <1>i, <3>2, <4>1
      <3> QED BY <2>2, <3>1, <3>2
    <2> QED BY <1>6, <1>s, <1>t, <2>1, <2>3 DEF Resolve
  <1> QED BY <1>1, <1>2, <1>3, <1>4, <1>5, <1>6

LEMMA OperateTyped ==
    ASSUME TypeOK, Shape, NEW o \in Operator,
           (\E act \in Act, u \in Uid : OperatorReads(o, act, u)) \/ OperatorWrites(o)
    PROVE  TypeOK' /\ Shape'
  <1>0. op[o] \in Request /\ op \in [Operator -> Request] /\ op[o].uid \in Uid /\ insight \in [Uid -> Insight]
    BY DEF TypeOK, Request
  <1>s. ASSUME UNCHANGED <<Busy, ev>> PROVE Shape'
    BY <1>s DEF Shape, Busy
  <1>t. ASSUME UNCHANGED <<Busy, ev, up>>, op' \in [Operator -> Request], insight' \in [Uid -> Insight] PROVE TypeOK'
    BY <1>t, Zenon DEF TypeOK, Busy, cluster, inventory
  <1>1. ASSUME NEW act \in Act, NEW u \in Uid, OperatorReads(o, act, u) PROVE TypeOK' /\ Shape'
    <2>1. [act |-> act, uid |-> u, ins |-> insight[u]] \in Request
      BY <1>0 DEF Request
    <2>2. op' \in [Operator -> Request] /\ insight' = insight
      BY <1>0, <1>1, <2>1 DEF OperatorReads
    <2> QED BY <1>0, <1>1, <1>s, <1>t, <2>2 DEF OperatorReads
  <1>2. CASE OperatorWrites(o)
    <2> DEFINE u == op[o].uid
               d == IF op[o].act \in {"resolve", "dismiss"} THEN op[o].ins.detected ELSE insight[u].detected
               new == [status |-> StatusAfter[op[o].act], detected |-> d, updated |-> insight[u].updated + 1]
    <2>1. insight[u].updated + 1 \in 0..MaxWrites /\ insight[u].detected \in Time
      BY <1>0, <1>2, InsightTyped DEF OperatorWrites
    <2>2. StatusAfter[op[o].act] \in Open \cup Closed
      <3>1. op[o].act \in {"acknowledge", "resolve", "dismiss", "patchResolve", "reopen"}
        BY <1>0, <1>2, ActAssumption DEF OperatorWrites, Request
      <3> QED BY <3>1 DEF StatusAfter, Open, Closed
    <2>3. op[o].ins.detected \in Time
      BY <1>0 DEF Request, Insight
    <2>4. new \in Insight
      BY <2>1, <2>2, <2>3 DEF Insight
    <2>5. insight' = [insight EXCEPT ![u] = new]
      BY <1>2 DEF OperatorWrites
    <2> HIDE DEF new
    <2>6. insight' \in [Uid -> Insight] /\ op' \in [Operator -> Request]
      BY <1>0, <1>2, <2>4, <2>5, DefaultsTyped DEF OperatorWrites
    <2> QED BY <1>2, <1>s, <1>t, <2>6 DEF OperatorWrites
  <1> QED BY <1>1, <1>2

LEMMA SurroundTyped ==
    ASSUME TypeOK, Shape, Tick \/ \E k \in Role : RoleChanges(k)
    PROVE  TypeOK' /\ Shape'
  <1>0. clock \in Time /\ clock \in Nat /\ MaxClock \in Nat /\ lastClean \in [Uid -> Time] /\ kube \in Role
    BY LimitAssumption DEF TypeOK, Time
  <1>1. ASSUME NEW k \in Role, NEW t \in Time PROVE Stands(k, t) \in [Uid -> Time]
    BY <1>0 DEF Stands
  <1>2. CASE Tick
    <2>1. clock' \in Time \ {0}
      BY <1>0, <1>2 DEF Tick, Time
    <2>2. lastClean' \in [Uid -> Time]
      BY <1>0, <1>1, <1>2, <2>1 DEF Tick
    <2>3. TypeOK'
      BY <1>2, <2>1, <2>2, Zenon DEF TypeOK, Tick, inventory
    <2> QED BY <1>2, <2>3 DEF Shape, Tick
  <1>3. ASSUME NEW k \in Role, RoleChanges(k) PROVE TypeOK' /\ Shape'
    <2>1. edits' \in 0..MaxEdits
      BY <1>3, LimitAssumption DEF TypeOK, RoleChanges
    <2>2. lastClean' \in [Uid -> Time] /\ kube' \in Role
      BY <1>0, <1>1, <1>3 DEF RoleChanges
    <2>3. TypeOK'
      BY <1>3, <2>1, <2>2, Zenon DEF TypeOK, RoleChanges, inventory
    <2> QED BY <1>3, <2>3 DEF Shape, RoleChanges
  <1> QED BY <1>2, <1>3

LEMMA NextTyped == TypeOK /\ Shape /\ [Next]_vars => TypeOK' /\ Shape'
  <1> SUFFICES ASSUME TypeOK, Shape, [Next]_vars PROVE TypeOK' /\ Shape'
    OBVIOUS
  <1>1. CASE Collecting
    BY <1>1, CollectTyped DEF Collecting
  <1>2. CASE Syncing
    BY <1>2, SyncTyped DEF Syncing
  <1>3. CASE Evaluating
    BY <1>3, EvaluateTyped DEF Evaluating
  <1>4. CASE Updating
    BY <1>4, UpdateTyped DEF Updating
  <1>5. CASE Operating
    BY <1>5, OperateTyped DEF Operating
  <1>6. CASE Surroundings
    BY <1>6, SurroundTyped DEF Surroundings
  <1>7. CASE UNCHANGED vars
    BY <1>7, Zenon DEF TypeOK, Shape, vars, cluster, inventory
  <1> QED BY <1>1, <1>2, <1>3, <1>4, <1>5, <1>6, <1>7 DEF Next

\* Type correctness of receipts, rows, findings and of everybody's local state, for every set
\* of Agents, evaluators, updaters and operators; attempts under way have an ID and evaluations
\* are of a Role that was stored.
THEOREM TypeCorrect == Spec => [](TypeOK /\ Shape)
  BY InitTyped, NextTyped, PTL DEF Spec
-----------------------------------------------------------------------------
(* What a step may do to the inventory, to findings and to time. *)

LEMMA BusySteps ==
    ASSUME [Next]_vars
    PROVE  Collecting \/ Syncing \/ Surroundings \/ UNCHANGED Busy
  <1>1. CASE Evaluating
    BY <1>1 DEF Evaluating, FetchRoles, Evaluate, CreateOrUpdateInsight
  <1>2. CASE Updating
    BY <1>2 DEF Updating, PickInsight, SnapshotVersion, ReadSnapshot, CheckEvidence, CheckRisk, Resolve
  <1>3. CASE Operating
    BY <1>3 DEF Operating, OperatorReads, OperatorWrites
  <1>4. CASE UNCHANGED vars
    BY <1>4 DEF vars, Busy
  <1> QED BY <1>1, <1>2, <1>3, <1>4 DEF Next

\* The stored Role stays, is deleted, or gets its next version.
LEMMA RowSteps ==
    ASSUME TypeOK, [Next]_vars
    PROVE  \/ row' = row
           \/ row'.uid = 0 /\ row'.rules = "clean" /\ row'.version = row.version
           \/ row'.uid # 0 /\ row'.version = row.version + 1
  <1>1. ASSUME NEW m, row' = Synced(m)
        PROVE  \/ row' = row
               \/ row'.uid = 0 /\ row'.rules = "clean" /\ row'.version = row.version
               \/ row'.uid # 0 /\ row'.version = row.version + 1
    <2>1. row \in Row
      BY DEF TypeOK
    <2>2. CASE row' = row
      BY <2>2
    <2>3. CASE m.content.uid # 0 /\ row' = [uid |-> m.content.uid, rules |-> m.content.rules, version |-> row.version + 1]
      BY <2>3
    <2>4. CASE row' = [row EXCEPT !.uid = 0, !.rules = "clean"]
      BY <2>1, <2>4 DEF Row
    <2> QED BY <1>1, <2>2, <2>3, <2>4, SyncedCases
  <1>2. CASE Collecting
    BY <1>2 DEF Collecting, SyncOnce, StartList, ListRoles, Post, inventory
  <1>3. CASE Syncing
    BY <1>1, <1>3 DEF Syncing, SyncObservedData, SyncUnapplied, SyncRollsBack, SyncUnverifiedData,
                      RecordFailure, FailureUnrecorded, inventory, vars
  <1>4. CASE Surroundings
    BY <1>4 DEF Surroundings, Tick, RoleChanges, inventory
  <1>5. CASE UNCHANGED Busy
    BY <1>5 DEF Busy, inventory
  <1> QED BY <1>2, <1>3, <1>4, <1>5, BusySteps

\* A finding stays as it is or gets its next version.
LEMMA InsightSteps ==
    ASSUME TypeOK, Shape, [Next]_vars, NEW u \in Uid
    PROVE  insight'[u] = insight[u] \/ insight'[u].updated = insight[u].updated + 1
  <1>0. insight \in [Uid -> Insight]
    BY DEF TypeOK
  <1>1. ASSUME NEW v, NEW i, insight' = [insight EXCEPT ![v] = i], i.updated = insight[v].updated + 1
        PROVE  insight'[u] = insight[u] \/ insight'[u].updated = insight[u].updated + 1
    BY <1>0, <1>1
  <1>2. CASE Evaluating
    <2> SUFFICES ASSUME NEW e \in Evaluator, CreateOrUpdateInsight(e)
                 PROVE  insight'[u] = insight[u] \/ insight'[u].updated = insight[u].updated + 1
      BY <1>2 DEF Evaluating, FetchRoles, Evaluate
    <2> DEFINE v == ev[e].snap.uid
               new == [status |-> "active", detected |-> ev[e].detected, updated |-> insight[v].updated + 1]
    <2>1. \/ insight' = [insight EXCEPT ![v] = new]
          \/ insight' = [insight EXCEPT ![v] = Reopened(insight[v])]
          \/ insight' = insight
      BY DEF CreateOrUpdateInsight
    <2>2. new.updated = insight[v].updated + 1 /\ Reopened(insight[v]).updated = insight[v].updated + 1
      BY DEF Reopened
    <2> HIDE DEF new
    <2> QED BY <1>1, <2>1, <2>2
  <1>3. CASE Updating
    <2> SUFFICES ASSUME NEW p \in Updater, Resolve(p)
                 PROVE  insight'[u] = insight[u] \/ insight'[u].updated = insight[u].updated + 1
      BY <1>3 DEF Updating, PickInsight, SnapshotVersion, ReadSnapshot, CheckEvidence, CheckRisk
    <2> DEFINE v == up[p].uid
               new == [insight[v] EXCEPT !.status = "resolved", !.updated = @ + 1]
    <2>0. v \in Uid /\ insight[v] \in Insight
      BY DEF TypeOK, Update
    <2>1. insight' = insight \/ insight' = [insight EXCEPT ![v] = new]
      BY <1>0, <2>0 DEF Resolve
    <2>2. new.updated = insight[v].updated + 1
      BY <2>0 DEF Insight
    <2> HIDE DEF new
    <2> QED BY <1>1, <2>1, <2>2
  <1>4. CASE Operating
    <2> SUFFICES ASSUME NEW o \in Operator, OperatorWrites(o)
                 PROVE  insight'[u] = insight[u] \/ insight'[u].updated = insight[u].updated + 1
      BY <1>4 DEF Operating, OperatorReads
    <2> DEFINE v == op[o].uid
               d == IF op[o].act \in {"resolve", "dismiss"} THEN op[o].ins.detected ELSE insight[v].detected
               new == [status |-> StatusAfter[op[o].act], detected |-> d, updated |-> insight[v].updated + 1]
    <2>1. insight' = [insight EXCEPT ![v] = new]
      BY DEF OperatorWrites
    <2>2. new.updated = insight[v].updated + 1
      OBVIOUS
    <2> HIDE DEF new
    <2> QED BY <1>1, <2>1, <2>2
  <1>5. CASE Collecting
    BY <1>5 DEF Collecting, SyncOnce, StartList, ListRoles, Post
  <1>6. CASE Syncing
    BY <1>6 DEF Syncing, SyncObservedData, SyncUnapplied, SyncRollsBack, SyncUnverifiedData,
                RecordFailure, FailureUnrecorded, vars
  <1>7. CASE Surroundings
    BY <1>7 DEF Surroundings, Tick, RoleChanges
  <1>8. CASE UNCHANGED vars
    BY <1>8 DEF vars
  <1> QED BY <1>2, <1>3, <1>4, <1>5, <1>6, <1>7, <1>8 DEF Next

LEMMA Numbers ==
    ASSUME TypeOK
    PROVE  /\ clock \in Nat /\ basis \in Nat
           /\ receipt.started \in Nat /\ receipt.listAt \in Nat
           /\ \A m \in net \cup failing : m.started \in Nat /\ m.listAt \in Nat
           /\ \A a \in Agent : agent[a].started \in Nat /\ agent[a].listAt \in Nat
           /\ \A u \in Uid : lastClean[u] \in Nat /\ insight[u].updated \in Nat /\ insight[u].detected \in Nat
           /\ row.version \in Nat
           /\ \A p \in Updater : up[p].version \in Nat /\ up[p].ins.updated \in Nat /\ up[p].ins.detected \in Nat
  <1>1. Time \subseteq Nat /\ 0..MaxVersions \subseteq Nat /\ 0..MaxWrites \subseteq Nat
    BY LimitAssumption DEF Time
  <1>2. clock \in Nat /\ basis \in Nat
    BY <1>1 DEF TypeOK
  <1>3. receipt.started \in Nat /\ receipt.listAt \in Nat
    BY <1>1 DEF TypeOK, Receipt
  <1>4. \A m \in net \cup failing : m.started \in Nat /\ m.listAt \in Nat
    BY <1>1 DEF TypeOK, Collection
  <1>5. \A a \in Agent : agent[a].started \in Nat /\ agent[a].listAt \in Nat
    BY <1>1 DEF TypeOK, Attempt
  <1>6. \A u \in Uid : lastClean[u] \in Nat
    BY <1>1 DEF TypeOK
  <1>7. \A u \in Uid : insight[u].updated \in Nat /\ insight[u].detected \in Nat
    BY <1>1 DEF TypeOK, Insight
  <1>8. row.version \in Nat
    BY <1>1 DEF TypeOK, Row
  <1>9. \A p \in Updater : up[p].version \in Nat /\ up[p].ins.updated \in Nat /\ up[p].ins.detected \in Nat
    BY <1>1 DEF TypeOK, Update, Insight
  <1> QED BY <1>2, <1>3, <1>4, <1>5, <1>6, <1>7, <1>8, <1>9

\* The clock and lastClean only go forward.
LEMMA TimeSteps ==
    ASSUME TypeOK, TimeInv, [Next]_vars
    PROVE  /\ clock <= clock'
           /\ \A u \in Uid : lastClean[u] <= lastClean'[u]
  <1>1. CASE Tick
    <2>1. clock' = clock + 1 /\ lastClean' = [lastClean EXCEPT ![kube.uid] = IF kube.live /\ kube.rules = "clean" THEN clock' ELSE @]
      BY <1>1 DEF Tick, Stands
    <2>2. \A u \in Uid : lastClean'[u] = lastClean[u] \/ lastClean'[u] = clock'
      BY <2>1 DEF TypeOK
    <2> QED BY <2>1, <2>2, Numbers DEF TimeInv
  <1>2. ASSUME NEW k \in Role, RoleChanges(k)
        PROVE  /\ clock <= clock'
               /\ \A u \in Uid : lastClean[u] <= lastClean'[u]
    <2>1. clock' = clock /\ lastClean' = [lastClean EXCEPT ![k.uid] = IF k.live /\ k.rules = "clean" THEN clock ELSE @]
      BY <1>2 DEF RoleChanges, Stands
    <2>2. \A u \in Uid : lastClean'[u] = lastClean[u] \/ lastClean'[u] = clock
      BY <2>1 DEF TypeOK
    <2> QED BY <2>1, <2>2, Numbers DEF TimeInv
  <1>3. ASSUME UNCHANGED <<clock, lastClean>>
        PROVE  /\ clock <= clock'
               /\ \A u \in Uid : lastClean[u] <= lastClean'[u]
    BY <1>3, Numbers
  <1>4. CASE Collecting
    BY <1>3, <1>4 DEF Collecting, SyncOnce, StartList, ListRoles, Post, cluster
  <1>5. CASE Syncing
    BY <1>3, <1>5 DEF Syncing, SyncObservedData, SyncUnapplied, SyncRollsBack, SyncUnverifiedData,
                RecordFailure, FailureUnrecorded, vars, cluster
  <1>6. CASE UNCHANGED Busy
    BY <1>3, <1>6 DEF Busy, cluster
  <1> QED BY <1>1, <1>2, <1>4, <1>5, <1>6, BusySteps DEF Surroundings
-----------------------------------------------------------------------------
(* Nothing is dated in the future. *)

\* The attempts Agents are making, and what they post.
LEMMA AttemptSteps ==
    ASSUME TypeOK, [Next]_vars, NEW a \in Agent
    PROVE  /\ agent'[a].started \in {agent[a].started, clock, 0}
           /\ agent'[a].listAt \in {agent[a].listAt, clock, 0}
           /\ agent'[a].pc = "listed" =>
                \/ agent'[a] = agent[a]
                \/ /\ agent'[a].listAt = agent[a].listAt
                   /\ agent'[a].content = IF kube.live /\ a \in Covering
                                          THEN [uid |-> kube.uid, rules |-> kube.rules] ELSE NoRole
  <1> DEFINE Good == /\ agent'[a].started \in {agent[a].started, clock, 0}
                     /\ agent'[a].listAt \in {agent[a].listAt, clock, 0}
                     /\ agent'[a].pc = "listed" =>
                          \/ agent'[a] = agent[a]
                          \/ /\ agent'[a].listAt = agent[a].listAt
                             /\ agent'[a].content = IF kube.live /\ a \in Covering
                                                    THEN [uid |-> kube.uid, rules |-> kube.rules] ELSE NoRole
  <1>0. agent \in [Agent -> Attempt] /\ agent[a] \in Attempt
    BY DEF TypeOK
  <1>1. ASSUME agent' = agent PROVE Good
    BY <1>1
  <1>2. ASSUME NEW b \in Agent, SyncOnce(b) PROVE Good
    BY <1>0, <1>2, DefaultsTyped DEF SyncOnce, Attempt, Idle
  <1>3. ASSUME NEW b \in Agent, StartList(b) PROVE Good
    BY <1>0, <1>3 DEF StartList, Attempt
  <1>4. ASSUME NEW b \in Agent, ListRoles(b) PROVE Good
    BY <1>0, <1>4 DEF ListRoles, Attempt
  <1>5. ASSUME NEW b \in Agent, NEW s \in {"complete", "failed"}, Post(b, s) PROVE Good
    <2>1. agent' = [agent EXCEPT ![b] = Idle]
      BY <1>5 DEF Post
    <2> QED BY <1>0, <2>1, DefaultFields
  <1>6. CASE Collecting
    BY <1>2, <1>3, <1>4, <1>5, <1>6 DEF Collecting
  <1>7. CASE Syncing
    BY <1>1, <1>7 DEF Syncing, SyncObservedData, SyncUnapplied, SyncRollsBack, SyncUnverifiedData,
                RecordFailure, FailureUnrecorded, vars
  <1>8. CASE Surroundings
    BY <1>1, <1>8 DEF Surroundings, Tick, RoleChanges
  <1>9. CASE UNCHANGED Busy
    BY <1>1, <1>9 DEF Busy
  <1> QED BY <1>6, <1>7, <1>8, <1>9, BusySteps

LEMMA MessageSteps ==
    ASSUME [Next]_vars, NEW m \in net' \cup failing'
    PROVE  \/ m \in net \cup failing
           \/ \E a \in Agent, s \in {"complete", "failed"} : Post(a, s) /\ m = Posted(a, s)
  <1>1. CASE Collecting
    BY <1>1 DEF Collecting, SyncOnce, StartList, ListRoles, Post
  <1>2. CASE Syncing
    BY <1>2 DEF Syncing, SyncObservedData, SyncUnapplied, SyncRollsBack, SyncUnverifiedData,
                RecordFailure, FailureUnrecorded, Fails, vars
  <1>3. CASE Surroundings
    BY <1>3 DEF Surroundings, Tick, RoleChanges
  <1>4. CASE UNCHANGED Busy
    BY <1>4 DEF Busy
  <1> QED BY <1>1, <1>2, <1>3, <1>4, BusySteps

\* What may become of the receipt, and of the Role with it.
Observes(m) == /\ receipt' = Verified(m) /\ Newer(m)
               /\ m.status = "complete" => row' = Synced(m) /\ basis' = BasisAfter(m)
               /\ m.status # "complete" => UNCHANGED <<row, basis>>
Outdates(m) == /\ receipt' = [Verified(m) EXCEPT !.status = "failed"] /\ receipt.started < m.started
               /\ UNCHANGED <<row, basis>>
Unverifies(m) == /\ receipt' = Unverified
                 /\ \/ row' = Synced(m) /\ basis' = BasisAfter(m)
                    \/ UNCHANGED <<row, basis>>

LEMMA ReceiptSteps ==
    ASSUME [Next]_vars
    PROVE  \/ UNCHANGED <<receipt, row, basis>>
           \/ \E m \in net : Observes(m) \/ Unverifies(m)
           \/ \E m \in failing : Outdates(m)
  <1>1. CASE Collecting
    BY <1>1 DEF Collecting, SyncOnce, StartList, ListRoles, Post, inventory
  <1>2. CASE Syncing
    <2>1. ASSUME NEW m \in net, SyncObservedData(m) PROVE Observes(m)
      BY <2>1 DEF SyncObservedData, Observes
    <2>2. ASSUME NEW m \in net, SyncUnverifiedData(m) PROVE Unverifies(m)
      BY <2>2 DEF SyncUnverifiedData, Unverifies
    <2>3. ASSUME NEW m \in net, SyncUnapplied(m) \/ SyncRollsBack(m) PROVE UNCHANGED <<receipt, row, basis>>
      BY <2>3 DEF SyncUnapplied, SyncRollsBack, vars, inventory
    <2>4. ASSUME NEW m \in failing, RecordFailure(m) PROVE UNCHANGED <<receipt, row, basis>> \/ Outdates(m)
      BY <2>4 DEF RecordFailure, Outdates, Supersedes
    <2>5. ASSUME NEW m \in failing, FailureUnrecorded(m) PROVE UNCHANGED <<receipt, row, basis>>
      BY <2>5 DEF FailureUnrecorded, inventory
    <2> QED BY <1>2, <2>1, <2>2, <2>3, <2>4, <2>5 DEF Syncing
  <1>3. CASE Surroundings
    BY <1>3 DEF Surroundings, Tick, RoleChanges, inventory
  <1>4. CASE UNCHANGED Busy
    BY <1>4 DEF Busy, inventory
  <1> QED BY <1>1, <1>2, <1>3, <1>4, BusySteps

\* Messages keep their dates.
LEMMA NextTimeInv == TypeOK /\ Shape /\ TimeInv /\ [Next]_vars => TimeInv'
  <1> SUFFICES ASSUME TypeOK, Shape, TimeInv, [Next]_vars PROVE TimeInv'
    OBVIOUS
  <1>0. clock <= clock' /\ clock \in Nat /\ clock' \in Nat
    BY TimeSteps, NextTyped, Numbers, NextTyped DEF TypeOK, Time
  <1>1. \A m \in net \cup failing : m.started <= clock
    BY DEF TimeInv
  <1>2. ASSUME NEW m \in net' \cup failing' PROVE m.started <= clock'
    <2>1. CASE m \in net \cup failing
      BY <1>0, <1>1, <2>1, Numbers
    <2>2. ASSUME NEW a \in Agent, NEW s \in {"complete", "failed"}, m = Posted(a, s) PROVE m.started <= clock'
      <3>1. m.started = agent[a].started
        BY <2>2 DEF Posted
      <3> QED BY <1>0, <3>1, Numbers DEF TimeInv
    <2> QED BY <2>1, <2>2, MessageSteps
  <1>3. ASSUME NEW a \in Agent PROVE agent'[a].started <= clock' /\ agent'[a].listAt <= clock'
    BY <1>0, AttemptSteps, Numbers DEF TimeInv
  <1>4. /\ \A u \in Uid : lastClean'[u] <= clock'
        /\ kube'.live /\ kube'.rules = "clean" => lastClean'[kube'.uid] = clock'
    <2>0. lastClean \in [Uid -> Time] /\ kube.uid \in Uid
      BY DEF TypeOK, Role
    <2>1. CASE Tick
      <3>1. kube' = kube /\ lastClean' = [lastClean EXCEPT ![kube.uid] = IF kube.live /\ kube.rules = "clean" THEN clock' ELSE @]
        BY <2>1 DEF Tick, Stands
      <3>2. \A u \in Uid : lastClean'[u] = lastClean[u] \/ lastClean'[u] = clock'
        BY <2>0, <3>1
      <3>3. kube.live /\ kube.rules = "clean" => lastClean'[kube.uid] = clock'
        BY <2>0, <3>1
      <3> QED BY <1>0, <3>1, <3>2, <3>3, Numbers DEF TimeInv
    <2>2. ASSUME NEW k \in Role, RoleChanges(k)
          PROVE  /\ \A u \in Uid : lastClean'[u] <= clock'
                 /\ kube'.live /\ kube'.rules = "clean" => lastClean'[kube'.uid] = clock'
      <3>1. kube' = k /\ k.uid \in Uid /\ clock' = clock
            /\ lastClean' = [lastClean EXCEPT ![k.uid] = IF k.live /\ k.rules = "clean" THEN clock ELSE @]
        BY <2>2 DEF RoleChanges, Stands
      <3>2. \A u \in Uid : lastClean'[u] = lastClean[u] \/ lastClean'[u] = clock
        BY <2>0, <3>1
      <3>3. k.live /\ k.rules = "clean" => lastClean'[k.uid] = clock
        BY <2>0, <3>1
      <3> QED BY <1>0, <3>1, <3>2, <3>3, Numbers DEF TimeInv
    <2>3. ASSUME UNCHANGED <<clock, kube, lastClean>>
          PROVE  /\ \A u \in Uid : lastClean'[u] <= clock'
                 /\ kube'.live /\ kube'.rules = "clean" => lastClean'[kube'.uid] = clock'
      BY <2>3 DEF TimeInv
    <2>4. CASE Collecting
      BY <2>3, <2>4 DEF Collecting, SyncOnce, StartList, ListRoles, Post, cluster
    <2>5. CASE Syncing
      BY <2>3, <2>5 DEF Syncing, SyncObservedData, SyncUnapplied, SyncRollsBack, SyncUnverifiedData,
                  RecordFailure, FailureUnrecorded, vars, cluster
    <2>6. CASE UNCHANGED Busy
      BY <2>3, <2>6 DEF Busy, cluster
    <2> QED BY <2>1, <2>2, <2>4, <2>5, <2>6, BusySteps DEF Surroundings
  <1>5. receipt'.started <= clock' /\ basis' <= receipt'.started
    <2>0. /\ receipt.started <= clock /\ basis <= receipt.started
          /\ receipt.started \in Nat /\ basis \in Nat
      BY Numbers DEF TimeInv
    <2>1. CASE UNCHANGED <<receipt, row, basis>>
      BY <1>0, <2>0, <2>1
    <2>2. ASSUME NEW m \in net, Observes(m)
          PROVE  receipt'.started <= clock' /\ basis' <= receipt'.started
      <3>1. receipt'.started = m.started /\ m.started <= clock /\ m.started \in Nat
        BY <1>1, <2>2, Numbers DEF Observes, Verified
      <3>2. receipt.started = 0 \/ m.started > receipt.started
        BY <2>2 DEF Observes, Newer
      <3>3. basis' = m.started \/ basis' = basis
        BY <2>2 DEF Observes, BasisAfter
      <3> QED BY <1>0, <2>0, <3>1, <3>2, <3>3
    <2>3. ASSUME NEW m \in failing, Outdates(m)
          PROVE  receipt'.started <= clock' /\ basis' <= receipt'.started
      <3>1. receipt'.started = m.started /\ m.started <= clock /\ m.started \in Nat
        BY <1>1, <2>3, Numbers DEF Verified, Outdates
      <3>2. receipt.started < m.started /\ basis' = basis
        BY <2>3 DEF Outdates
      <3> QED BY <1>0, <2>0, <3>1, <3>2
    <2>4. ASSUME NEW m \in net, Unverifies(m)
          PROVE  receipt'.started <= clock' /\ basis' <= receipt'.started
      <3>1. receipt'.started = clock
        BY <2>4 DEF Unverifies, Unverified
      <3>2. (basis' = m.started /\ m.started <= clock) \/ basis' = basis
        BY <1>1, <2>4 DEF Unverifies, BasisAfter
      <3> QED BY <1>0, <2>0, <3>1, <3>2
    <2> QED BY <2>1, <2>2, <2>3, <2>4, ReceiptSteps
  <1> QED BY <1>2, <1>3, <1>4, <1>5 DEF TimeInv
-----------------------------------------------------------------------------
(* What was listed, and what is stored of it. *)

\* What a List answered stays a bound on lastClean.
LEMMA SeenStays ==
    ASSUME TypeOK, TimeInv, [Next]_vars, NEW c \in Content, NEW t \in Nat, Shape, Seen(c, t)
    PROVE  Seen(c, t)'
  <1>1. c.uid \in 0..MaxUid
    BY DEF Content
  <1>2. CASE c.uid = 0
    BY <1>2 DEF Seen
  <1>3. CASE c.uid # 0
    <2>1. c.uid \in Uid
      BY <1>1, <1>3, LimitAssumption DEF Uid
    <2>2. lastClean[c.uid] <= lastClean'[c.uid]
      BY <2>1, TimeSteps
    <2>3. lastClean[c.uid] \in Nat /\ lastClean'[c.uid] \in Nat
      BY <2>1, Numbers, NextTyped, LimitAssumption DEF TypeOK, Time
    <2> QED BY <1>3, <2>2, <2>3 DEF Seen
  <1> QED BY <1>2, <1>3

LEMMA NothingSeen == ASSUME NEW t PROVE Seen(NoRole, t)
  BY DefaultFields DEF Seen

LEMMA NextListInv == TypeOK /\ Shape /\ TimeInv /\ ListInv /\ [Next]_vars => ListInv'
  <1> SUFFICES ASSUME TypeOK, Shape, TimeInv, ListInv, [Next]_vars PROVE ListInv'
    OBVIOUS
  <1>a. ASSUME NEW a \in Agent PROVE agent[a].content \in Content /\ agent[a].listAt \in Nat
    BY Numbers DEF TypeOK, Attempt
  <1>m. ASSUME NEW m \in net \cup failing
        PROVE  m \in Collection /\ m.content \in Content /\ m.listAt \in Nat /\ Seen(m.content, m.listAt)
    BY Numbers, CollectionFields DEF TypeOK, ListInv
  <1>1. ASSUME NEW m \in net' \cup failing' PROVE Seen(m.content, m.listAt)'
    <2>1. CASE m \in net \cup failing
      BY <1>m, <2>1, SeenStays
    <2>2. ASSUME NEW a \in Agent, NEW s \in {"complete", "failed"}, Post(a, s), m = Posted(a, s)
          PROVE  Seen(m.content, m.listAt)'
      <3>1. CASE s = "complete"
        <4>1. agent[a].pc = "listed" /\ m.content = agent[a].content /\ m.listAt = agent[a].listAt
          BY <2>2, <3>1 DEF Post, Posted
        <4>2. Seen(agent[a].content, agent[a].listAt)
          BY <4>1 DEF ListInv
        <4> QED BY <1>a, <4>1, <4>2, SeenStays
      <3>2. CASE s # "complete"
        <4>1. m.content = NoRole
          BY <2>2, <3>2 DEF Posted
        <4> QED BY <4>1, DefaultFields DEF Seen
      <3> QED BY <3>1, <3>2
    <2> QED BY <2>1, <2>2, MessageSteps
  <1>2. ASSUME NEW a \in Agent, agent'[a].pc = "listed" PROVE Seen(agent[a].content, agent[a].listAt)'
    <2>1. CASE agent'[a] = agent[a]
      <3>1. Seen(agent[a].content, agent[a].listAt)
        BY <1>2, <2>1 DEF ListInv
      <3> QED BY <1>a, <2>1, <3>1, SeenStays DEF Seen
    <2>2. CASE /\ agent'[a].listAt = agent[a].listAt
               /\ agent'[a].content = IF kube.live /\ a \in Covering
                                      THEN [uid |-> kube.uid, rules |-> kube.rules] ELSE NoRole
      <3> DEFINE c == IF kube.live /\ a \in Covering THEN [uid |-> kube.uid, rules |-> kube.rules] ELSE NoRole
      <3>1. kube.uid \in Uid /\ kube.uid # 0 /\ kube.rules \in Rules /\ Uid \subseteq 0..MaxUid
        BY LimitAssumption DEF TypeOK, Role, Uid
      <3>2. c \in Content
        BY <3>1, DefaultsTyped DEF Content
      <3>3. agent[a].listAt <= lastClean[kube.uid] \/ ~(kube.live /\ kube.rules = "clean")
        BY DEF TimeInv
      <3>4. Seen(c, agent[a].listAt)
        BY <3>1, <3>3, DefaultFields DEF Seen
      <3>5. agent'[a].content = c
        BY <2>2
      <3> HIDE DEF c
      <3> QED BY <1>a, <2>2, <3>2, <3>4, <3>5, SeenStays DEF Seen
    <2> QED BY <1>2, <2>1, <2>2, AttemptSteps
  <1>3. Seen(receipt.content, receipt.listAt)'
    <2>1. CASE UNCHANGED <<receipt, row, basis>>
      <3>1. receipt.content \in Content /\ receipt.listAt \in Nat /\ Seen(receipt.content, receipt.listAt)
        BY Numbers DEF TypeOK, Receipt, ListInv
      <3> QED BY <2>1, <3>1, SeenStays DEF Seen
    <2>2. ASSUME NEW m \in net \cup failing, Observes(m) \/ Outdates(m) PROVE Seen(receipt.content, receipt.listAt)'
      <3>1. receipt'.content = m.content /\ receipt'.listAt = m.listAt
        BY <2>2 DEF Observes, Outdates, Verified
      <3> QED BY <1>m, <3>1, SeenStays DEF Seen
    <2>3. ASSUME NEW m \in net, Unverifies(m) PROVE Seen(receipt.content, receipt.listAt)'
      <3>1. receipt'.content = NoRole
        BY <2>3 DEF Unverifies, Unverified
      <3> QED BY <3>1, DefaultFields DEF Seen
    <2> QED BY <2>1, <2>2, <2>3, ReceiptSteps
  <1>4. row'.uid = 0 => row'.rules = "clean"
    BY RowSteps DEF ListInv
  <1> QED BY <1>1, <1>2, <1>3, <1>4 DEF ListInv

LEMMA NextReceiptMatches ==
    TypeOK /\ ListInv /\ ReceiptMatchesInventory /\ [Next]_vars => ReceiptMatchesInventory'
  <1> SUFFICES ASSUME TypeOK, ListInv, ReceiptMatchesInventory, [Next]_vars PROVE ReceiptMatchesInventory'
    OBVIOUS
  <1>1. CASE UNCHANGED <<receipt, row, basis>>
    BY <1>1 DEF ReceiptMatchesInventory, Stored
  <1>2. ASSUME NEW m \in net, Observes(m) PROVE ReceiptMatchesInventory'
    <2>1. m \in Collection /\ m.content \in Content /\ Seen(m.content, m.listAt) /\ row \in Row
      BY CollectionFields DEF TypeOK, ListInv
    <2>2. receipt'.status = m.status /\ receipt'.agent = m.agent /\ receipt'.content = m.content
      BY <1>2 DEF Observes, Verified
    <2>3. CASE m.status # "complete"
      BY <2>2, <2>3 DEF ReceiptMatchesInventory
    <2>4. CASE m.status = "complete" /\ Says(m)
      <3>1. row' = Synced(m)
        BY <1>2, <2>4 DEF Observes
      <3>2. CASE row' = row /\ m.content = Stored
        BY <2>2, <3>2 DEF ReceiptMatchesInventory, Stored
      <3>3. CASE row' = [uid |-> m.content.uid, rules |-> m.content.rules, version |-> row.version + 1]
        <4>1. Stored' = m.content
          BY <2>1, <3>3 DEF Stored, Content
        <4> QED BY <2>2, <4>1 DEF ReceiptMatchesInventory
      <3>4. CASE m.content.uid = 0 /\ row' = [row EXCEPT !.uid = 0, !.rules = "clean"]
        <4>1. row'.uid = 0 /\ row'.rules = "clean"
          BY <2>1, <3>4 DEF Row
        <4>2. Stored' = m.content
          BY <2>1, <3>4, <4>1 DEF Stored, Content, Seen
        <4> QED BY <2>2, <4>2 DEF ReceiptMatchesInventory
      <3> QED BY <2>4, <3>1, <3>2, <3>3, <3>4, SyncedCases
    <2>5. CASE ~Says(m)
      BY <2>2, <2>5 DEF Says, ReceiptMatchesInventory
    <2> QED BY <2>3, <2>4, <2>5
  <1>3. ASSUME NEW m \in net \cup failing, Outdates(m) \/ Unverifies(m) PROVE ReceiptMatchesInventory'
    <2>1. receipt'.status # "complete"
      BY <1>3 DEF Outdates, Unverifies, Verified, Unverified
    <2> QED BY <2>1 DEF ReceiptMatchesInventory
  <1> QED BY <1>1, <1>2, <1>3, ReceiptSteps
-----------------------------------------------------------------------------
(* What updaters have read. *)

\* What is true of one updater's reads.
Reads(w) ==
    /\ w.version <= row.version
    /\ w.pc \in {"clean", "committing"} /\ row.uid = w.uid /\ row.version = w.version => row.rules = "clean"
    /\ w.pc = "committing" /\ row.uid = w.uid /\ row.version = w.version => w.snap = Stored
    /\ w.ins.updated <= insight[w.uid].updated
    /\ w.pc # "idle" /\ w.ins.updated = insight[w.uid].updated => w.ins = insight[w.uid]

LEMMA UpdaterReads == UpdaterInv <=> \A p \in Updater : Reads(up[p])
  BY DEF UpdaterInv, Reads, SameVersion

LEMMA IdleReads == ASSUME TypeOK PROVE Reads(UpIdle)
  <1>1. row.version \in Nat /\ insight[UpIdle.uid].updated \in Nat
    <2>1. UpIdle.uid \in Uid
      BY DefaultsTyped DEF Update
    <2> QED BY <2>1, Numbers
  <1> QED BY <1>1, DefaultFields DEF Reads

\* The steps of an updater keep its reads in order ...
LEMMA UpdaterSteps ==
    ASSUME TypeOK, UpdaterInv, NEW p \in Updater,
           \/ \E u \in Uid : PickInsight(p, u)
           \/ SnapshotVersion(p) \/ ReadSnapshot(p) \/ CheckEvidence(p) \/ CheckRisk(p) \/ Resolve(p)
    PROVE  \E w \in Update : up' = [up EXCEPT ![p] = w] /\ Reads(w)
  <1>0. up[p] \in Update /\ Reads(up[p]) /\ row \in Row /\ row.version \in Nat /\ UpIdle \in Update /\ Reads(UpIdle)
    BY UpdaterReads, IdleReads, Numbers, DefaultsTyped DEF TypeOK
  <1>i. ASSUME up' = [up EXCEPT ![p] = UpIdle]
        PROVE  \E w \in Update : up' = [up EXCEPT ![p] = w] /\ Reads(w)
    BY <1>0, <1>i
  <1>1. ASSUME NEW u \in Uid, PickInsight(p, u)
        PROVE  \E w \in Update : up' = [up EXCEPT ![p] = w] /\ Reads(w)
    <2> DEFINE w == [UpIdle EXCEPT !.pc = "picked", !.uid = u, !.ins = insight[u]]
    <2>1. insight[u] \in Insight /\ insight[u].updated \in Nat
      BY Numbers DEF TypeOK
    <2>2. w \in Update
      BY <2>1, DefaultsTyped DEF Update
    <2>3. w.pc = "picked" /\ w.uid = u /\ w.ins = insight[u] /\ w.version = 0
      BY DefaultsTyped, DefaultFields DEF Update
    <2>4. up' = [up EXCEPT ![p] = w]
      BY <1>1 DEF PickInsight
    <2> HIDE DEF w
    <2>5. Reads(w)
      BY <1>0, <2>1, <2>3 DEF Reads
    <2> QED BY <2>2, <2>4, <2>5
  <1>2. CASE SnapshotVersion(p)
    <2>1. CASE row.uid # up[p].uid
      BY <1>2, <1>i, <2>1 DEF SnapshotVersion
    <2>2. CASE row.uid = up[p].uid
      <3> DEFINE w == [up[p] EXCEPT !.pc = "versioned", !.version = row.version]
      <3>1. row.version \in 0..MaxVersions
        BY <1>0 DEF Row
      <3>2. w \in Update
        BY <1>0, <3>1 DEF Update
      <3>3. w.pc = "versioned" /\ w.uid = up[p].uid /\ w.ins = up[p].ins /\ w.version = row.version /\ up[p].pc = "picked"
        BY <1>0, <1>2 DEF Update, SnapshotVersion
      <3>4. up' = [up EXCEPT ![p] = w]
        BY <1>2, <2>2 DEF SnapshotVersion
      <3> HIDE DEF w
      <3>5. Reads(w)
        BY <1>0, <3>3 DEF Reads
      <3> QED BY <3>2, <3>4, <3>5
    <2> QED BY <2>1, <2>2
  <1>3. CASE ReadSnapshot(p)
    <2>1. CASE row.uid # up[p].uid
      BY <1>3, <1>i, <2>1 DEF ReadSnapshot
    <2>2. CASE row.uid = up[p].uid
      <3> DEFINE pc == IF up[p].pc = "versioned" THEN "checking" ELSE "committing"
                 w == [up[p] EXCEPT !.pc = pc, !.snap = Stored, !.now = clock]
      <3>1. w \in Update
        BY <1>0, StoredTyped DEF Update, TypeOK
      <3>2. /\ w.pc = pc /\ w.uid = up[p].uid /\ w.ins = up[p].ins /\ w.version = up[p].version
            /\ w.snap = Stored /\ up[p].pc \in {"versioned", "clean"}
        BY <1>0, <1>3 DEF Update, ReadSnapshot
      <3>3. up' = [up EXCEPT ![p] = w]
        BY <1>3, <2>2 DEF ReadSnapshot
      <3> HIDE DEF w
      <3>4. Reads(w)
        BY <1>0, <3>2 DEF Reads
      <3> QED BY <3>1, <3>3, <3>4
    <2> QED BY <2>1, <2>2
  <1>4. CASE CheckEvidence(p)
    <2>1. CASE ~Evidence(up[p].ins, up[p].snap, up[p].now)
      BY <1>4, <1>i, <2>1 DEF CheckEvidence
    <2>2. CASE Evidence(up[p].ins, up[p].snap, up[p].now)
      <3> DEFINE w == [up[p] EXCEPT !.pc = "checked"]
      <3>1. w \in Update
        BY <1>0 DEF Update
      <3>2. w.pc = "checked" /\ w.uid = up[p].uid /\ w.ins = up[p].ins /\ w.version = up[p].version /\ up[p].pc = "checking"
        BY <1>0, <1>4 DEF Update, CheckEvidence
      <3>3. up' = [up EXCEPT ![p] = w]
        BY <1>4, <2>2 DEF CheckEvidence
      <3> HIDE DEF w
      <3>4. Reads(w)
        BY <1>0, <3>2 DEF Reads
      <3> QED BY <3>1, <3>3, <3>4
    <2> QED BY <2>1, <2>2
  <1>5. CASE CheckRisk(p)
    <2>1. CASE ~(row.uid = up[p].uid /\ row.rules = "clean")
      BY <1>5, <1>i, <2>1 DEF CheckRisk
    <2>2. CASE row.uid = up[p].uid /\ row.rules = "clean"
      <3> DEFINE w == [up[p] EXCEPT !.pc = "clean"]
      <3>1. w \in Update
        BY <1>0 DEF Update
      <3>2. w.pc = "clean" /\ w.uid = up[p].uid /\ w.ins = up[p].ins /\ w.version = up[p].version /\ up[p].pc = "checked"
        BY <1>0, <1>5 DEF Update, CheckRisk
      <3>3. up' = [up EXCEPT ![p] = w]
        BY <1>5, <2>2 DEF CheckRisk
      <3> HIDE DEF w
      <3>4. Reads(w)
        BY <1>0, <2>2, <3>2 DEF Reads
      <3> QED BY <3>1, <3>3, <3>4
    <2> QED BY <2>1, <2>2
  <1>6. CASE Resolve(p)
    BY <1>6, <1>i DEF Resolve
  <1> QED BY <1>1, <1>2, <1>3, <1>4, <1>5, <1>6

\* ... and nobody's step takes back what another has read.
LEMMA ReadsStay ==
    ASSUME TypeOK, Shape, [Next]_vars, NEW w \in Update, Reads(w)
    PROVE  Reads(w)'
  <1>0. /\ w.uid \in Uid /\ w.uid # 0 /\ w.version \in Nat /\ row.version \in Nat
        /\ w.ins.updated \in Nat /\ insight[w.uid].updated \in Nat
    <2>1. w.uid \in Uid /\ w.version \in 0..MaxVersions /\ w.ins \in Insight
      BY DEF Update
    <2>2. w.ins.updated \in 0..MaxWrites
      BY <2>1 DEF Insight
    <2> QED BY <2>1, <2>2, LimitAssumption, Numbers DEF Uid
  <1>1. /\ (w.version <= row.version)'
        /\ (w.pc \in {"clean", "committing"} /\ row.uid = w.uid /\ row.version = w.version => row.rules = "clean")'
        /\ (w.pc = "committing" /\ row.uid = w.uid /\ row.version = w.version => w.snap = Stored)'
    <2>1. CASE row' = row
      BY <2>1 DEF Reads, Stored
    <2>2. CASE row'.uid = 0 /\ row'.version = row.version
      BY <1>0, <2>2 DEF Reads
    <2>3. CASE row'.version = row.version + 1
      BY <1>0, <2>3 DEF Reads
    <2> QED BY <2>1, <2>2, <2>3, RowSteps
  <1>2. /\ (w.ins.updated <= insight[w.uid].updated)'
        /\ (w.pc # "idle" /\ w.ins.updated = insight[w.uid].updated => w.ins = insight[w.uid])'
    <2>1. CASE insight'[w.uid] = insight[w.uid]
      BY <2>1 DEF Reads
    <2>2. CASE insight'[w.uid].updated = insight[w.uid].updated + 1
      BY <1>0, <2>2 DEF Reads
    <2> QED BY <1>0, <2>1, <2>2, InsightSteps
  <1> QED BY <1>1, <1>2 DEF Reads

LEMMA OnlyUpdaters == [Next]_vars => Updating \/ up' = up
  BY Zenon DEF Next, Collecting, SyncOnce, StartList, ListRoles, Post,
               Syncing, SyncObservedData, SyncUnapplied, SyncRollsBack, SyncUnverifiedData,
               RecordFailure, FailureUnrecorded,
               Evaluating, FetchRoles, Evaluate, CreateOrUpdateInsight,
               Operating, OperatorReads, OperatorWrites, Surroundings, Tick, RoleChanges, vars

LEMMA NextUpdaterInv == TypeOK /\ Shape /\ UpdaterInv /\ [Next]_vars => UpdaterInv'
  <1> SUFFICES ASSUME TypeOK, Shape, UpdaterInv, [Next]_vars PROVE UpdaterInv'
    OBVIOUS
  <1>0. up \in [Updater -> Update]
    BY DEF TypeOK
  <1>1. ASSUME NEW q \in Updater
        PROVE  \E w \in Update : up'[q] = w /\ Reads(w)
    <2>1. CASE up' = up
      BY <1>0, <2>1, UpdaterReads
    <2>2. ASSUME NEW p \in Updater, NEW w \in Update, up' = [up EXCEPT ![p] = w], Reads(w)
          PROVE  \E x \in Update : up'[q] = x /\ Reads(x)
      BY <1>0, <2>2, UpdaterReads
    <2>3. CASE Updating
      BY <2>2, <2>3, UpdaterSteps DEF Updating
    <2> QED BY <2>1, <2>3, OnlyUpdaters
  <1>2. ASSUME NEW q \in Updater PROVE Reads(up[q])'
    <2>1. PICK w \in Update : up'[q] = w /\ Reads(w)
      BY <1>1
    <2>2. Reads(w)'
      BY <2>1, ReadsStay
    <2> QED BY <2>1, <2>2 DEF Reads
  <1> QED BY <1>2 DEF UpdaterInv, Reads, SameVersion
-----------------------------------------------------------------------------
LEMMA InitInv == Init => IndInv
  <1> SUFFICES ASSUME Init PROVE IndInv
    OBVIOUS
  <1>1. TypeOK /\ Shape
    BY InitTyped
  <1>2. TimeInv
    <2>1. receipt.started = 0 /\ basis = 0 /\ clock = 1 /\ net = {} /\ failing = {}
      BY DEF Init
    <2>2. \A a \in Agent : agent[a].started = 0 /\ agent[a].listAt = 0
      BY DefaultFields DEF Init
    <2>3. /\ \A u \in Uid : lastClean[u] \in {0, 1}
          /\ kube.uid = 1 /\ kube.live /\ (kube.rules = "clean" => lastClean[1] = 1)
      <3>1. 1 \in Uid
        BY LimitAssumption DEF Uid
      <3>2. /\ kube \in [uid : {1}, live : {TRUE}, rules : Rules]
            /\ lastClean = [u \in Uid |-> IF u = 1 /\ kube.rules = "clean" THEN 1 ELSE 0]
        BY DEF Init
      <3> QED BY <3>1, <3>2
    <2> QED BY <2>1, <2>2, <2>3 DEF TimeInv
  <1>3. ListInv
    <2>1. net = {} /\ failing = {} /\ receipt.content = NoRole /\ row.rules = "clean"
      BY DEF Init
    <2>2. \A a \in Agent : agent[a].pc = "idle"
      BY DefaultFields DEF Init
    <2> QED BY <2>1, <2>2, DefaultFields DEF ListInv, Seen
  <1>4. ReceiptMatchesInventory
    BY DEF Init, ReceiptMatchesInventory
  <1>5. UpdaterInv
    <2>1. \A p \in Updater : up[p] = UpIdle
      BY DEF Init
    <2> QED BY <1>1, <2>1, IdleReads, UpdaterReads
  <1> QED BY <1>1, <1>2, <1>3, <1>4, <1>5 DEF IndInv

LEMMA NextInv == IndInv /\ [Next]_vars => IndInv'
  BY NextTyped, NextTimeInv, NextListInv, NextReceiptMatches, NextUpdaterInv DEF IndInv

LEMMA Inductive == Spec => []IndInv
  BY InitInv, NextInv, PTL DEF Spec

\* What Core's compound transactions promise: a complete receipt describes the inventory as it
\* is stored, whatever rolled back, failed to be recorded, was replayed or synced unverified.
THEOREM ReceiptTheorem == Spec => []ReceiptMatchesInventory
  <1>1. IndInv => ReceiptMatchesInventory
    BY DEF IndInv
  <1> QED BY <1>1, Inductive, PTL

\* The receipt's start time never goes back, whichever of the three kinds of transaction
\* writes it.
THEOREM ReceiptForwardTheorem == Spec => ReceiptMovesForward
  <1>1. IndInv /\ [Next]_vars => [receipt'.started >= receipt.started]_vars
    <2> SUFFICES ASSUME IndInv, [Next]_vars PROVE receipt'.started >= receipt.started
      OBVIOUS
    <2>0. receipt.started \in Nat /\ clock \in Nat /\ receipt.started <= clock
      BY Numbers DEF IndInv, TimeInv
    <2>1. CASE UNCHANGED <<receipt, row, basis>>
      BY <2>0, <2>1
    <2>2. ASSUME NEW m \in net \cup failing, Observes(m) \/ Outdates(m) PROVE receipt'.started >= receipt.started
      <3>1. receipt'.started = m.started /\ m.started \in Nat
        BY <2>2, Numbers DEF IndInv, Observes, Outdates, Verified
      <3>2. receipt.started = 0 \/ receipt.started < m.started
        BY <2>2, <2>0, <3>1 DEF Observes, Outdates, Newer
      <3> QED BY <2>0, <3>1, <3>2
    <2>3. ASSUME NEW m \in net, Unverifies(m) PROVE receipt'.started >= receipt.started
      <3>1. receipt'.started = clock
        BY <2>3 DEF Unverifies, Unverified
      <3> QED BY <2>0, <3>1
    <2> QED BY <2>1, <2>2, <2>3, ReceiptSteps
  <1> QED BY <1>1, Inductive, PTL DEF Spec, ReceiptMovesForward

\* A verified collection never puts the stored Role back to what an attempt with an earlier
\* start collected: the stored contents are no newer than the receipt (TimeInv), and the order
\* check of SyncObservedData lets only newer collections in.
THEOREM InventoryForwardTheorem == Spec => InventoryMovesForward
  <1>1. IndInv /\ [Next]_vars => [receipt' # receipt /\ receipt'.status = "complete" => basis' >= basis]_vars
    <2> SUFFICES ASSUME IndInv, [Next]_vars, receipt' # receipt, receipt'.status = "complete" PROVE basis' >= basis
      OBVIOUS
    <2>0. receipt.started \in Nat /\ basis \in Nat /\ basis <= receipt.started
      BY Numbers DEF IndInv, TimeInv
    <2>1. ASSUME NEW m \in failing, Outdates(m) PROVE FALSE
      BY <2>1 DEF Outdates, Verified
    <2>2. ASSUME NEW m \in net, Unverifies(m) PROVE FALSE
      BY <2>2 DEF Unverifies, Unverified
    <2>3. ASSUME NEW m \in net, Observes(m) PROVE basis' >= basis
      <3>1. m.started \in Nat
        BY Numbers DEF IndInv
      <3>2. receipt.started = 0 \/ m.started > receipt.started
        BY <2>3 DEF Observes, Newer
      <3>3. basis' = m.started \/ basis' = basis
        BY <2>3 DEF Observes, BasisAfter
      <3> QED BY <2>0, <3>1, <3>2, <3>3
    <2> QED BY <2>1, <2>2, <2>3, ReceiptSteps
  <1> QED BY <1>1, Inductive, PTL DEF Spec, InventoryMovesForward

\* An automatic resolution is the last step of an updater, with everything it checks.
LEMMA ResolvingStep ==
    ASSUME TypeOK, [Next]_vars, NEW u \in Uid, AutoResolved(u)
    PROVE  \E p \in Updater : /\ up[p].pc = "committing" /\ up[p].uid = u /\ up'[p] # up[p]
                              /\ Evidence(up[p].ins, up[p].snap, up[p].now) /\ SameVersion(p)
                              /\ insight[u].updated = up[p].ins.updated
  <1>0. up' # up /\ insight'[u].status = "resolved" /\ insight[u].status # "resolved"
    BY DEF AutoResolved, Open
  <1>1. Updating
    BY <1>0, OnlyUpdaters
  <1>2. PICK p \in Updater : Resolve(p)
    BY <1>0, <1>1, Zenon DEF Updating, PickInsight, SnapshotVersion, ReadSnapshot, CheckEvidence, CheckRisk
  <1>3. up[p].pc = "committing" /\ insight' # insight
    BY <1>0, <1>2 DEF Resolve
  <1>4. /\ Evidence(up[p].ins, up[p].snap, up[p].now) /\ SameVersion(p)
        /\ Unchanged(insight[up[p].uid], up[p].ins)
        /\ insight' = [insight EXCEPT ![up[p].uid].status = "resolved", ![up[p].uid].updated = @ + 1]
    BY <1>2, <1>3 DEF Resolve
  <1>5. up[p].uid = u
    BY <1>0, <1>4 DEF TypeOK
  <1>6. up'[p] # up[p]
    BY <1>2, <1>3, DefaultFields DEF Resolve, TypeOK
  <1> QED BY <1>3, <1>4, <1>5, <1>6 DEF Unchanged

\* A concurrent sync is never resolved by an older evaluation: the stored Role has the version
\* that was there before the risk was checked (UpdaterInv), hence the rules that were checked.
THEOREM NewestSnapshotTheorem == Spec => NewestSnapshotClean
  <1>1. IndInv /\ [Next]_vars => [\A u \in Uid : AutoResolved(u) => row.uid = u /\ row.rules = "clean"]_vars
    <2> SUFFICES ASSUME IndInv, [Next]_vars, NEW u \in Uid, AutoResolved(u) PROVE row.uid = u /\ row.rules = "clean"
      OBVIOUS
    <2>1. PICK p \in Updater : up[p].pc = "committing" /\ up[p].uid = u /\ SameVersion(p)
      BY ResolvingStep DEF IndInv
    <2> QED BY <2>1 DEF IndInv, UpdaterInv, SameVersion
  <1> QED BY <1>1, Inductive, PTL DEF Spec, NewestSnapshotClean

\* A finding is closed automatically only if the Role with its UID really lacked the risk after
\* the finding was detected and no longer than MaxAge before the updater's last check.  The
\* snapshot that the receipt vouches for is the stored Role, which is clean; its List began no
\* earlier than the detection, and the Role was clean when the List was answered (ListInv).
THEOREM ResolvedTheorem == Spec => ResolvedOnEvidence
  <1>1. IndInv /\ [Next]_vars =>
          [\A u \in Uid : AutoResolved(u) =>
              /\ lastClean[u] >= insight[u].detected
              /\ \E p \in Updater : up'[p] # up[p] /\ up[p].now - lastClean[u] <= MaxAge]_vars
    <2> SUFFICES ASSUME IndInv, [Next]_vars, NEW u \in Uid, AutoResolved(u)
                 PROVE  /\ lastClean[u] >= insight[u].detected
                        /\ \E p \in Updater : up'[p] # up[p] /\ up[p].now - lastClean[u] <= MaxAge
      OBVIOUS
    <2>0. /\ clock \in Nat /\ receipt.listAt \in Nat /\ lastClean[u] \in Nat /\ insight[u].detected \in Nat
          /\ MaxAge \in Nat /\ u # 0
      BY Numbers, LimitAssumption DEF IndInv, Uid
    <2>1. PICK p \in Updater : /\ up[p].pc = "committing" /\ up[p].uid = u /\ up'[p] # up[p]
                               /\ Evidence(up[p].ins, up[p].snap, up[p].now) /\ SameVersion(p)
                               /\ insight[u].updated = up[p].ins.updated
      BY ResolvingStep DEF IndInv
    <2>2. up[p].ins = insight[u]
      BY <2>1 DEF IndInv, UpdaterInv
    <2>3. up[p].snap = Stored /\ row.uid = u /\ row.rules = "clean"
      BY <2>1 DEF IndInv, UpdaterInv, SameVersion
    <2>4. receipt.content.uid = u /\ receipt.content.rules = "clean"
      BY <2>1, <2>3 DEF Evidence, Stored
    <2>5. receipt.listAt <= lastClean[u]
      BY <2>0, <2>4 DEF IndInv, ListInv, Seen
    <2>6. receipt.listAt >= insight[u].detected /\ up[p].now - receipt.listAt <= MaxAge
      BY <2>1, <2>2 DEF Evidence, Fresh
    <2>7. up[p].now \in Nat
      BY LimitAssumption DEF IndInv, TypeOK, Update, Time
    <2> QED BY <2>0, <2>1, <2>5, <2>6, <2>7
  <1> QED BY <1>1, Inductive, PTL DEF Spec, ResolvedOnEvidence
=============================================================================
