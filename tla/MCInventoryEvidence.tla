------------------------ MODULE MCInventoryEvidence -------------------------
(* Small instances of InventoryEvidence for TLC. *)
EXTENDS InventoryEvidence, TLC

CONSTANTS a1, a2, legacy, a3, e1, o1, o2, u1

-----------------------------------------------------------------------------
(* One run explores the union of four small instances: a behaviour stays  *)
(* in the run as long as it lies in one of them.                           *)

Silent(A) == /\ \A a \in A : agent[a] = Idle
             /\ \A m \in net : m.agent \notin A

NoOperator == /\ \A o \in Operator : op[o] = OpIdle
              /\ \A u \in Uid : insight[u].updated <= 2 /\ insight[u].status # "dismissed"

TwoSyncs == attempts <= 2 /\ row.version <= 2

(* Two scoped Agents and an unverified one; no findings. *)
InventoryInstance ==
    /\ Silent({a2}) /\ NoOperator /\ TwoSyncs /\ edits <= 1
    /\ \A e \in Evaluator : ev[e] = EvIdle

(* One Agent, one Role, edited once; an operator dismisses findings.       *)
OperatorInstance == /\ Silent({a2, a3, legacy}) /\ kube.uid = 1 /\ TwoSyncs
                    /\ faults = 0 /\ edits <= 1 /\ clock <= 2

(* Two Agents, one of which does not see the Role's namespace; the Role    *)
(* may be replaced by a new one of its name, or be listed late.            *)
NamespaceInstance == /\ Silent({a3, legacy}) /\ NoOperator /\ TwoSyncs /\ faults = 0
                     /\ edits = 0 \/ clock <= 2

(* One Agent that syncs three times, at different times, and one Role,      *)
(* edited twice: a sync may come between the updater's evaluation and its   *)
(* resolution.  The evaluator has passed after the first sync.              *)
ThirdSyncInstance == /\ Silent({a2, a3, legacy}) /\ NoOperator
                     /\ kube.uid = 1 /\ kube.live /\ faults = 0
                     /\ attempts <= clock
                     /\ attempts > 1 => \A e \in Evaluator : ev[e] = EvIdle

Instances == InventoryInstance \/ OperatorInstance \/ NamespaceInstance \/ ThirdSyncInstance

(* The run begins with Init, and also with a state that follows it in the  *)
(* instance of the third sync, where a counterexample is then shorter:     *)
(* a1's first sync stored a risky Role, which the evaluator detected; the  *)
(* Role was edited and a1's second sync stored the clean one.              *)
TwiceSynced ==
    LET Sent(id, rules) == [agent |-> a1, id |-> id, status |-> "complete", started |-> id,
                            listAt |-> id, observed |-> 2, content |-> [uid |-> 1, rules |-> rules]]
        found == [status |-> "active", detected |-> 2, updated |-> 1]
    IN  /\ clock = 3 /\ attempts = 2 /\ edits = 1 /\ faults = 0
        /\ kube = [uid |-> 1, live |-> TRUE, rules |-> "clean"]
        /\ lastClean = [u \in Uid |-> IF u = 1 THEN 3 ELSE 0] /\ basis = 2
        /\ agent = [a \in Agent |-> Idle] /\ failing = {}
        /\ net = {Sent(1, "risky"), Sent(2, "clean")} /\ receipt = Sent(2, "clean")
        /\ row = [uid |-> 1, rules |-> "clean", version |-> 2]
        /\ insight = [u \in Uid |-> IF u = 1 THEN found ELSE NoInsight]
        /\ ev = [e \in Evaluator |-> EvIdle]
        /\ up = [u \in Updater |-> UpIdle]
        /\ op = [o \in Operator |-> OpIdle]

MCSpec == (Init \/ TwiceSynced) /\ [][Next]_vars
=============================================================================
