---------------------- MODULE MCServiceAccountMutation ----------------------
(* Small instances of ServiceAccountMutation for TLC. *)
EXTENDS ServiceAccountMutation, TLC

CONSTANTS w1, w2, p1, p2, rb, crb, sec, target, other, r1, r2

WorkerSymmetry == Permutations({w1, w2})

-----------------------------------------------------------------------------
(* One run explores the union of three small instances: a behaviour stays  *)
(* in the run as long as it lies in one of them.                           *)

Empty(names) == \A n \in names : ~Exists(n)
NoDelete == \A u \in DeleteUid : job[DeleteId(u)].status = "none"
Actions(A) == \A id \in PreviewId : {draft[id].action, job[id].action} \subseteq {""} \cup A
OtherRevisions == rev - Len(effects[p1])
(* A new list of the ServiceAccounts, or a crash, stall or lost request.   *)
ListOrFault == listed = {1} \/ faults = 0

(* A binding that only names the target, and a token Secret. *)
RevokeInstance ==
    /\ NoDelete /\ Actions({"revoke"})
    /\ OtherRevisions <= 2 /\ ListOrFault
    /\ \A n \in Binding : other \notin api[n].subjects

(* A binding alone, which other clients edit back and forth. *)
RebindInstance == NoDelete /\ Actions({"revoke"}) /\ Empty(Secret) /\ api[SA].uid = 1

(* The ServiceAccount alone, deleted by request and by preview. *)
DeleteInstance == /\ Actions({"delete"}) /\ Empty(Binding \cup Secret)
                  /\ OtherRevisions <= 2 /\ ListOrFault

Instances == RevokeInstance \/ RebindInstance \/ DeleteInstance
=============================================================================
