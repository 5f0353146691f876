-------------------------- MODULE InventoryEvidence --------------------------
(***************************************************************************)
(* How Core comes to close a Role finding by itself.  Agents list the       *)
(* cluster and post inventory collections; Core applies each collection     *)
(* together with a receipt of it; evaluators read the stored Role and open  *)
(* findings; an updater closes a finding whose risk is gone, on the         *)
(* strength of a fresh, verified receipt; operators act on findings too.    *)
(*                                                                          *)
(* One cluster, one Role name (whose Role may be deleted and recreated with *)
(* a new UID) and one detector are modelled.  Order between times matters   *)
(* and so does the age limit of evidence: clock is the synchronised wall    *)
(* clock of Agents and Core.  updated_at columns are only ever compared for *)
(* equality: they are version numbers here.                                 *)
(***************************************************************************)
EXTENDS Integers, FiniteSets

CONSTANTS
    Agent,        \* Agents of the cluster (a DaemonSet)
    Scoped,       \* those with a scoped credential; the others sync unverified
    Covering,     \* those whose WATCH_NAMESPACE covers the Role's namespace
    NoAgent,      \* the agent ID of an unverified receipt
    Evaluator,    \* HistoricalRiskEvaluator passes
    Updater,      \* InsightStatusUpdater passes
    Operator,     \* people acting on findings
    Act,          \* what they may ask for
    OtherRoles,   \* BOOLEAN: the namespace has further Roles, so Role lists are never empty
    MaxAge,       \* collection.MaxAge, in ticks
    MaxUid,       \* bound: Roles that have the name one after the other
    MaxEdits,     \* bound: changes of the Role in Kubernetes
    MaxSyncs,     \* bound: collection attempts
    MaxVersions,  \* bound: versions of the Role's row
    MaxFaults,    \* bound: failed collections and failed transactions
    MaxWrites,    \* bound: versions of one finding
    MaxClock      \* bound: ticks

ASSUME AgentAssumption == /\ Scoped \subseteq Agent /\ Covering \subseteq Agent
                          /\ NoAgent \notin Agent
ASSUME ActAssumption == Act \subseteq {"acknowledge", "resolve", "dismiss", "patchResolve", "reopen"}
ASSUME LimitAssumption == /\ OtherRoles \in BOOLEAN
                          /\ MaxAge \in Nat /\ MaxUid \in Nat \ {0}
                          /\ MaxEdits \in Nat /\ MaxSyncs \in Nat /\ MaxVersions \in Nat
                          /\ MaxFaults \in Nat /\ MaxWrites \in Nat
                          /\ MaxClock \in Nat \ {0}

VARIABLES
    clock,      \* wall clock
    kube,       \* the Role in Kubernetes
    edits,      \* changes made to it so far
    lastClean,  \* history: when the Role of each UID last lacked the risk
    attempts,   \* collection IDs drawn so far
    agent,      \* the collection each Agent is making
    net,        \* collections posted; any may be delivered again, late or never
    faults,     \* failures so far
    failing,    \* collections whose transaction failed, not recorded yet
    receipt,    \* the cluster's row of inventory_collections
    row,        \* the Role's row of the inventory
    basis,      \* history: when the collection began that row's contents come from
    insight,    \* the finding of each Role UID
    ev,         \* what each evaluator is doing
    up,         \* what each updater is doing
    op          \* the request each operator makes

cluster == <<kube, edits, lastClean>>
inventory == <<receipt, row, basis>>
vars == <<clock, cluster, attempts, agent, net, faults, failing, inventory, insight, ev, up, op>>
-----------------------------------------------------------------------------
Time == 0..MaxClock             \* 0: the zero time
Uid == 1..MaxUid
Rules == {"risky", "clean"}     \* does the detector match these rules?
Open == {"active", "acknowledged"}
Closed == {"resolved", "dismissed"}

\* What a List says of the Role: its UID (0: not in the list) and its rules.
Content == [uid : 0..MaxUid, rules : Rules]
NoRole == [uid |-> 0, rules |-> "clean"]

Collection == [agent : Agent, id : 1..MaxSyncs, status : {"complete", "failed"},
               started : Time, listAt : Time, observed : Time, content : Content]

Receipt == [agent : Agent \cup {NoAgent}, id : 0..MaxSyncs,
            status : {"complete", "failed", "unknown"},
            started : Time, listAt : Time, observed : Time, content : Content]

\* A row of insights; status "none": there is none.
Insight == [status : {"none"} \cup Open \cup Closed, detected : Time, updated : 0..MaxWrites]
NoInsight == [status |-> "none", detected |-> 0, updated |-> 0]

\* The Role as Kubernetes has it, and as Core stores it (uid 0: not stored).
Role == [uid : Uid, live : BOOLEAN, rules : Rules]
Row == [uid : 0..MaxUid, rules : Rules, version : 0..MaxVersions]

\* Local state of Agents, evaluators, updaters and operators.
Attempt == [pc : {"idle", "begun", "listing", "listed"}, id : 0..MaxSyncs,
            started : Time, listAt : Time, content : Content]
Evaluation == [pc : {"idle", "read", "found"}, snap : Content, detected : Time]
Update == [pc : {"idle", "picked", "versioned", "checking", "checked", "clean", "committing"},
           uid : Uid, ins : Insight, version : 0..MaxVersions, snap : Content, now : Time]
Request == [act : {"none"} \cup Act, uid : Uid, ins : Insight]

Idle == [pc |-> "idle", id |-> 0, started |-> 0, listAt |-> 0, content |-> NoRole]
EvIdle == [pc |-> "idle", snap |-> NoRole, detected |-> 0]
UpIdle == [pc |-> "idle", uid |-> 1, ins |-> NoInsight, version |-> 0, snap |-> NoRole, now |-> 0]
OpIdle == [act |-> "none", uid |-> 1, ins |-> NoInsight]

TypeOK ==
    /\ clock \in Time \ {0}
    /\ kube \in Role
    /\ edits \in 0..MaxEdits
    /\ lastClean \in [Uid -> Time]
    /\ attempts \in 0..MaxSyncs
    /\ agent \in [Agent -> Attempt]
    /\ net \subseteq Collection /\ failing \subseteq Collection
    /\ faults \in 0..MaxFaults
    /\ receipt \in Receipt
    /\ row \in Row
    /\ basis \in Time
    /\ insight \in [Uid -> Insight]
    /\ ev \in [Evaluator -> Evaluation]
    /\ up \in [Updater -> Update]
    /\ op \in [Operator -> Request]

Init ==
    /\ clock = 1
    /\ kube \in [uid : {1}, live : {TRUE}, rules : Rules]
    /\ edits = 0
    /\ lastClean = [u \in Uid |-> IF u = 1 /\ kube.rules = "clean" THEN 1 ELSE 0]
    /\ attempts = 0
    /\ agent = [a \in Agent |-> Idle]
    /\ net = {} /\ failing = {} /\ faults = 0
    /\ receipt = [agent |-> NoAgent, id |-> 0, status |-> "unknown",
                  started |-> 0, listAt |-> 0, observed |-> 0, content |-> NoRole]
    /\ row = [uid |-> 0, rules |-> "clean", version |-> 0]
    /\ basis = 0
    /\ insight = [u \in Uid |-> NoInsight]
    /\ ev = [e \in Evaluator |-> EvIdle]
    /\ up = [p \in Updater |-> UpIdle]
    /\ op = [o \in Operator |-> OpIdle]
-----------------------------------------------------------------------------
(* The cluster and time. *)

\* The Role as the cluster has it at time t.
Stands(k, t) == [lastClean EXCEPT ![k.uid] = IF k.live /\ k.rules = "clean" THEN t ELSE @]

Tick ==
    /\ clock < MaxClock
    /\ clock' = clock + 1
    /\ lastClean' = Stands(kube, clock')
    /\ UNCHANGED <<kube, edits, attempts, agent, net, faults, failing, inventory, insight, ev, up, op>>

\* Somebody edits, deletes or recreates the Role.
Changes(k) ==
    \/ k = [kube EXCEPT !.rules = IF @ = "clean" THEN "risky" ELSE "clean"] /\ kube.live
    \/ k = [kube EXCEPT !.live = FALSE] /\ kube.live
    \/ \E r \in Rules : ~kube.live /\ k = [uid |-> kube.uid + 1, live |-> TRUE, rules |-> r]

RoleChanges(k) ==
    /\ edits < MaxEdits
    /\ k.uid \in Uid
    /\ Changes(k)
    /\ kube' = k
    /\ edits' = edits + 1
    /\ lastClean' = Stands(k, clock)
    /\ UNCHANGED <<clock, attempts, agent, net, faults, failing, inventory, insight, ev, up, op>>
-----------------------------------------------------------------------------
(* An Agent's Syncer. *)

\* SyncOnce: the attempt's ID and start time come before anything is listed.
SyncOnce(a) ==
    /\ agent[a].pc = "idle"
    /\ attempts < MaxSyncs
    /\ attempts' = attempts + 1
    /\ agent' = [agent EXCEPT ![a] = [Idle EXCEPT !.pc = "begun", !.id = attempts + 1, !.started = clock]]
    /\ UNCHANGED <<clock, cluster, net, faults, failing, inventory, insight, ev, up, op>>

\* buildPayload notes the time right before it lists the Roles ...
StartList(a) ==
    /\ agent[a].pc = "begun"
    /\ agent' = [agent EXCEPT ![a].pc = "listing", ![a].listAt = clock]
    /\ UNCHANGED <<clock, cluster, attempts, net, faults, failing, inventory, insight, ev, up, op>>

\* ... and the API server answers some time later.
ListRoles(a) ==
    /\ agent[a].pc = "listing"
    /\ agent' = [agent EXCEPT ![a].pc = "listed",
                              ![a].content = IF kube.live /\ a \in Covering
                                             THEN [uid |-> kube.uid, rules |-> kube.rules]
                                             ELSE NoRole]
    /\ UNCHANGED <<clock, cluster, attempts, net, faults, failing, inventory, insight, ev, up, op>>

\* One of the failures the bound allows.
Fault == faults < MaxFaults /\ faults' = faults + 1

Posted(a, status) ==
    [agent |-> a, id |-> agent[a].id, status |-> status, started |-> agent[a].started,
     listAt |-> IF status = "complete" THEN agent[a].listAt ELSE 0, observed |-> clock,
     content |-> IF status = "complete" THEN agent[a].content ELSE NoRole]

\* A failed attempt reports no lists and no List times.  The Agent forgets an attempt
\* once the post ended, however it ended: the next cycle draws a new ID.
Post(a, status) ==
    /\ IF status = "complete" THEN agent[a].pc = "listed" /\ UNCHANGED faults
                              ELSE agent[a].pc # "idle" /\ Fault
    /\ net' = net \cup {Posted(a, status)}
    /\ agent' = [agent EXCEPT ![a] = Idle]
    /\ UNCHANGED <<clock, cluster, attempts, failing, inventory, insight, ev, up, op>>
-----------------------------------------------------------------------------
(* Core's inventory transactions.  Each holds the receipt row's lock, so    *)
(* they are atomic.                                                         *)

\* Inventory.Validate, which both the handler and the service call.
Valid(m) == clock - m.started <= MaxAge

Stored == [uid |-> row.uid, rules |-> row.rules]

\* A collection says something of the Role when its namespace covers the Role's and
\* the list of Roles is not empty.
Says(m) == m.agent \in Covering /\ (m.content.uid # 0 \/ OtherRoles)

\* processSyncedRoles.  An empty list prunes nothing; a Role of the same name
\* under another UID takes over the row.
Synced(m) ==
    CASE ~Says(m) \/ m.content = Stored -> row
      [] Says(m) /\ m.content # Stored /\ m.content.uid # 0 ->
            [uid |-> m.content.uid, rules |-> m.content.rules, version |-> row.version + 1]
      [] Says(m) /\ m.content # Stored /\ m.content.uid = 0 -> [row EXCEPT !.uid = 0, !.rules = "clean"]

BasisAfter(m) == IF Says(m) THEN m.started ELSE basis

Verified(m) == [agent |-> m.agent, id |-> m.id, status |-> m.status, started |-> m.started,
                listAt |-> m.listAt, observed |-> m.observed, content |-> m.content]

\* The order check of SyncObservedData, once the collection ID is known to be new.
Newer(m) == m.id # receipt.id /\ (receipt.started = 0 \/ m.started > receipt.started)

Fails(m) == Fault /\ failing' = failing \cup {m}

\* SyncObservedData.  The commit may succeed although its answer is lost; the code then
\* takes it for a failure.
SyncObservedData(m) ==
    /\ m.agent \in Scoped /\ Valid(m) /\ Newer(m)
    /\ receipt' = Verified(m)
    /\ Synced(m).version <= MaxVersions
    /\ IF m.status = "complete" THEN row' = Synced(m) /\ basis' = BasisAfter(m)
                                ELSE UNCHANGED <<row, basis>>
    /\ UNCHANGED <<faults, failing>> \/ Fails(m)
    /\ UNCHANGED <<clock, cluster, attempts, agent, net, insight, ev, up, op>>

\* A stale or older collection is refused, an exact replay answered from the receipt.
SyncUnapplied(m) ==
    /\ Valid(m) => m.agent \in Scoped /\ ~Newer(m)
    /\ UNCHANGED vars

\* The transaction rolls back.
SyncRollsBack(m) ==
    /\ m.agent \in Scoped /\ Valid(m) /\ m \notin failing
    /\ Fails(m)
    /\ UNCHANGED <<clock, cluster, attempts, agent, net, inventory, insight, ev, up, op>>

SupersedesAlways(m) == m \in failing                                  \* mutant
Supersedes(m) == receipt.started < m.started

\* The failure receipt, in a transaction of its own.
RecordFailure(m) ==
    /\ failing' = failing \ {m}
    /\ receipt' = IF Supersedes(m) THEN [Verified(m) EXCEPT !.status = "failed"] ELSE receipt
    /\ UNCHANGED <<clock, cluster, attempts, agent, net, faults, row, basis, insight, ev, up, op>>

\* Core dies, or the database is away, before the failure is recorded.
FailureUnrecorded(m) ==
    /\ failing' = failing \ {m}
    /\ UNCHANGED <<clock, cluster, attempts, agent, net, faults, inventory, insight, ev, up, op>>

StillVerified == receipt                                              \* mutant
UnverifiedUndated == [agent |-> NoAgent, id |-> 0, status |-> "unknown",   \* mutant
                      started |-> receipt.started, listAt |-> 0, observed |-> 0, content |-> NoRole]
Unverified == [agent |-> NoAgent, id |-> 0, status |-> "unknown",
               started |-> clock, listAt |-> 0, observed |-> 0, content |-> NoRole]

\* SyncUnverifiedData: no order check; whatever was verified no longer is.
SyncUnverifiedData(m) ==
    /\ m.agent \notin Scoped /\ Valid(m)
    /\ Synced(m).version <= MaxVersions
    /\ IF m.status = "complete" THEN row' = Synced(m) /\ basis' = BasisAfter(m)
                                ELSE UNCHANGED <<row, basis>>
    /\ receipt' = Unverified
    /\ UNCHANGED <<clock, cluster, attempts, agent, net, faults, failing, insight, ev, up, op>>
-----------------------------------------------------------------------------
(* Evaluators open findings. *)

Busy == <<clock, cluster, attempts, agent, net, faults, failing, inventory>>

\* evaluateRoles fetches the stored Roles ...
FetchRoles(e) ==
    /\ ev[e].pc = "idle" /\ row.uid # 0
    /\ ev' = [ev EXCEPT ![e] = [EvIdle EXCEPT !.pc = "read", !.snap = Stored]]
    /\ UNCHANGED <<Busy, insight, up, op>>

\* ... the engine evaluates them, dating what it finds ...
Evaluate(e) ==
    /\ ev[e].pc = "read"
    /\ ev' = [ev EXCEPT ![e] = IF ev[e].snap.rules = "risky"
                               THEN [@ EXCEPT !.pc = "found", !.detected = clock]
                               ELSE EvIdle]
    /\ UNCHANGED <<Busy, insight, up, op>>

Reopened(i) == [status |-> IF i.status = "acknowledged" THEN "acknowledged" ELSE "active",
                detected |-> IF i.status \in Closed THEN clock ELSE i.detected,
                updated |-> i.updated + 1]

\* ... and createOrUpdateInsightTx stores the finding, under the row's lock.  An exception
\* policy, which operators set elsewhere, may keep a dismissed finding dismissed.
CreateOrUpdateInsight(e) ==
    LET u == ev[e].snap.uid
        i == insight[u]
    IN  /\ ev[e].pc = "found"
        /\ i.updated < MaxWrites
        /\ \/ /\ i.status = "none"
              /\ insight' = [insight EXCEPT ![u] = [status |-> "active", detected |-> ev[e].detected,
                                                   updated |-> i.updated + 1]]
           \/ i.status # "none" /\ insight' = [insight EXCEPT ![u] = Reopened(i)]
           \/ i.status = "dismissed" /\ insight' = insight
        /\ ev' = [ev EXCEPT ![e] = EvIdle]
        /\ UNCHANGED <<Busy, up, op>>
-----------------------------------------------------------------------------
(* An updater closes findings.  Its reads are transactions of their own until *)
(* the last one, which locks what it reads.                                   *)

\* UpdateStatusForResolvedRisks reads the open findings ...
PickInsight(p, u) ==
    /\ up[p].pc = "idle" /\ insight[u].status \in Open
    /\ up' = [up EXCEPT ![p] = [UpIdle EXCEPT !.pc = "picked", !.uid = u, !.ins = insight[u]]]
    /\ UNCHANGED <<Busy, insight, ev, op>>

\* ... and for each the version of the stored Role; without one the finding stays.
SnapshotVersion(p) ==
    /\ up[p].pc = "picked"
    /\ up' = [up EXCEPT ![p] = IF row.uid = up[p].uid
                               THEN [@ EXCEPT !.pc = "versioned", !.version = row.version]
                               ELSE UpIdle]
    /\ UNCHANGED <<Busy, insight, ev, op>>

\* requireResolutionEvidence first reads the stored Role, and the clock ...
ReadSnapshot(p) ==
    /\ up[p].pc \in {"versioned", "clean"}
    /\ up' = [up EXCEPT ![p] = IF row.uid = up[p].uid
                               THEN [@ EXCEPT !.pc = IF up[p].pc = "versioned" THEN "checking" ELSE "committing",
                                              !.snap = Stored, !.now = clock]
                               ELSE UpIdle]
    /\ UNCHANGED <<Busy, insight, ev, op>>

\* ... and then, maybe after waiting for its lock, the receipt, which must be verified, fresh
\* at that time, no older than the finding and about that very snapshot.
Fresh(t, now) == t # 0 /\ t <= now /\ now - t <= MaxAge

Evidence(i, snap, now) ==
    /\ receipt.agent # NoAgent /\ receipt.status = "complete"
    /\ Fresh(receipt.observed, now) /\ Fresh(receipt.listAt, now)
    /\ receipt.listAt >= receipt.started /\ receipt.listAt <= receipt.observed
    /\ receipt.listAt >= i.detected
    /\ receipt.agent \in Covering
    /\ receipt.content = snap

CheckEvidence(p) ==
    /\ up[p].pc = "checking"
    /\ up' = [up EXCEPT ![p] = IF Evidence(up[p].ins, up[p].snap, up[p].now)
                               THEN [@ EXCEPT !.pc = "checked"] ELSE UpIdle]
    /\ UNCHANGED <<Busy, insight, ev, op>>

\* Mutant: any row of the Role counts as without the risk.
CheckRiskNotRead(p) ==
    /\ up[p].pc = "checked"
    /\ up' = [up EXCEPT ![p] = IF row.uid = up[p].uid THEN [@ EXCEPT !.pc = "clean"] ELSE UpIdle]
    /\ UNCHANGED <<Busy, insight, ev, op>>

\* checkIfRiskStillExists loads the Role once more and evaluates that.
CheckRisk(p) ==
    /\ up[p].pc = "checked"
    /\ up' = [up EXCEPT ![p] = IF row.uid = up[p].uid /\ row.rules = "clean" THEN [@ EXCEPT !.pc = "clean"]
                                                                            ELSE UpIdle]
    /\ UNCHANGED <<Busy, insight, ev, op>>

SameUid(p) == row.uid = up[p].uid                                     \* mutant
\* The version read before the evaluation must still be the stored Role's.
SameVersion(p) == row.uid = up[p].uid /\ row.version = up[p].version

Unchanged(i, j) == i.updated = j.updated /\ i.status \in Open

\* The resolution: the transaction shares the receipt's lock, so no collection is applied
\* between here and its commit; it holds the Role's lock too.
Resolve(p) ==
    LET u == up[p].uid
        resolves == /\ Evidence(up[p].ins, up[p].snap, up[p].now) /\ SameVersion(p)
                    /\ Unchanged(insight[u], up[p].ins)
    IN  /\ up[p].pc = "committing"
        /\ resolves => insight[u].updated < MaxWrites
        /\ insight' = IF resolves THEN [insight EXCEPT ![u].status = "resolved", ![u].updated = @ + 1]
                                  ELSE insight
        /\ up' = [up EXCEPT ![p] = UpIdle]
        /\ UNCHANGED <<Busy, ev, op>>
-----------------------------------------------------------------------------
(* Operator requests: each handler reads the finding, checks it, and writes. *)

Allowed(act, i) ==
    CASE act = "acknowledge" -> i.status \in Open
      [] act = "reopen" -> i.status \in Closed \cup {"acknowledged"}
      [] OTHER -> TRUE

OperatorReads(o, act, u) ==
    /\ op[o].act = "none" /\ insight[u].status # "none"
    /\ Allowed(act, insight[u])
    /\ op' = [op EXCEPT ![o] = [act |-> act, uid |-> u, ins |-> insight[u]]]
    /\ UNCHANGED <<Busy, insight, ev, up>>

StatusAfter == [acknowledge |-> "acknowledged", resolve |-> "resolved", dismiss |-> "dismissed",
                patchResolve |-> "resolved", reopen |-> "active"]

\* ResolveInsight and DismissInsight save the whole row they read, the others the status alone.
OperatorWrites(o) ==
    LET u == op[o].uid
        i == insight[u]
    IN  /\ op[o].act # "none" /\ i.updated < MaxWrites
        /\ insight' = [insight EXCEPT ![u] =
                          [status |-> StatusAfter[op[o].act],
                           detected |-> IF op[o].act \in {"resolve", "dismiss"} THEN op[o].ins.detected ELSE i.detected,
                           updated |-> i.updated + 1]]
        /\ op' = [op EXCEPT ![o] = OpIdle]
        /\ UNCHANGED <<Busy, ev, up>>
-----------------------------------------------------------------------------
Collecting == \E a \in Agent : \/ SyncOnce(a) \/ StartList(a) \/ ListRoles(a)
                               \/ \E s \in {"complete", "failed"} : Post(a, s)
Syncing == \/ \E m \in net : \/ SyncObservedData(m) \/ SyncUnapplied(m)
                              \/ SyncRollsBack(m) \/ SyncUnverifiedData(m)
           \/ \E m \in failing : RecordFailure(m) \/ FailureUnrecorded(m)
Evaluating == \E e \in Evaluator : FetchRoles(e) \/ Evaluate(e) \/ CreateOrUpdateInsight(e)
Updating == \E p \in Updater : \/ \E u \in Uid : PickInsight(p, u)
                               \/ SnapshotVersion(p) \/ ReadSnapshot(p) \/ CheckEvidence(p)
                               \/ CheckRisk(p) \/ Resolve(p)
Operating == \E o \in Operator : \/ \E act \in Act, u \in Uid : OperatorReads(o, act, u)
                                 \/ OperatorWrites(o)
Surroundings == Tick \/ \E k \in Role : RoleChanges(k)

Next == Collecting \/ Syncing \/ Evaluating \/ Updating \/ Operating \/ Surroundings

Spec == Init /\ [][Next]_vars
-----------------------------------------------------------------------------
\* A complete receipt describes the inventory as it is stored: no roll-back, late failure
\* record, unverified sync or sync of another namespace leaves a receipt of something else
\* (SyncObservedData commits both in one transaction, SyncUnverifiedData resets the receipt).
ReceiptMatchesInventory ==
    receipt.status = "complete" /\ receipt.agent \in Covering /\ (receipt.content.uid # 0 \/ OtherRoles)
        => receipt.content = Stored

\* A verified collection never puts the stored Role back to what an attempt with an earlier
\* start collected, although several Agents post concurrently, posts arrive late, twice or out
\* of order, attempts fail in between and unverified syncs interfere: "an older Agent attempt
\* must not roll the receipt or projection backwards" (the order check of SyncObservedData).
InventoryMovesForward == [][receipt' # receipt /\ receipt'.status = "complete" => basis' >= basis]_vars

\* The receipt's start time never goes back: a late failure record does not overwrite a newer
\* observation (the condition of the failure upsert, the order check, the reset to now).
ReceiptMovesForward == [][receipt'.started >= receipt.started]_vars

\* Status updates of updaters: the other writers leave up as it is.
AutoResolved(u) == up' # up /\ insight[u].status \in Open /\ insight'[u].status = "resolved"

\* A finding is closed automatically only if the Role with its UID really lacked the risk at
\* some moment after the finding was detected and no longer than MaxAge before the updater took
\* the time for its last check, whatever syncs, detections and operators did in the meantime
\* (UpdateStatusForResolvedRisks).
ResolvedOnEvidence ==
    [][\A u \in Uid : AutoResolved(u) =>
          /\ lastClean[u] >= insight[u].detected
          /\ \E p \in Updater : up'[p] # up[p] /\ up[p].now - lastClean[u] <= MaxAge]_vars

\* A concurrent sync is never resolved by an older evaluation: what is stored when a finding
\* is closed is a Role of that UID without the risk.
NewestSnapshotClean ==
    [][\A u \in Uid : AutoResolved(u) => row.uid = u /\ row.rules = "clean"]_vars
=============================================================================
