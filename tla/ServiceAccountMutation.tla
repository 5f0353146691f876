----------------------- MODULE ServiceAccountMutation -----------------------
(***************************************************************************)
(* Durable ServiceAccount mutations of Core (core/pkg/mutations and the     *)
(* two API handlers in front of it): a preview of a revocation or deletion  *)
(* is persisted, its author queues it, and workers carry it out one         *)
(* Kubernetes step per database lease.                                      *)
(*                                                                          *)
(* Kubernetes is reached through calls that can fail, time out after they   *)
(* took effect, or take effect long after the caller gave up; other clients *)
(* of the API server change the same objects at any time.  One cluster and  *)
(* one ServiceAccount name are modelled: every operation is scoped to them. *)
(***************************************************************************)
EXTENDS Integers, Sequences, FiniteSets

CONSTANTS
    Worker,              \* callers of Process: the ticker of each Core, a DELETE request
    PreviewId,           \* operation IDs drawn by SavePreview
    NoId,                \* no operation: what an idle worker works on
    DeleteUid,           \* UIDs a DELETE request may name
    RoleBinding,         \* names of RoleBindings,
    ClusterRoleBinding,  \* of ClusterRoleBindings and
    Secret,              \* of Secrets in the ServiceAccount's namespace
    Subject,             \* binding subjects ...
    Target,              \* ... and the one that names the ServiceAccount
    Role,                \* role references
    MaxAttempts,         \* the code's retry budget
    ListLimit,           \* page size of the preview's lists (500 in the code)
    MaxRev,              \* bound: revisions other clients of the cluster create
    MaxFaults            \* bound: worker crashes and worker stalls past a lease

ASSUME SubjectAssumption == Target \in Subject
ASSUME BoundAssumption == /\ MaxAttempts \in Nat \ {0}
                          /\ ListLimit \in Nat
                          /\ MaxRev \in Nat
                          /\ MaxFaults \in Nat
                          /\ DeleteUid \subseteq Nat \ {0}

SA == "serviceaccount"
Binding == RoleBinding \cup ClusterRoleBinding
Name == {SA} \cup Binding \cup Secret

ASSUME NameAssumption == /\ SA \notin Binding \cup Secret
                         /\ Binding \cap Secret = {}
                         /\ IsFiniteSet(Binding) /\ IsFiniteSet(Secret)

\* QueueDeletion keys its row by cluster and UID; previews draw a random ID.
DeleteId(u) == <<"delete", u>>
Id == PreviewId \cup {DeleteId(u) : u \in DeleteUid}

ASSUME IdAssumption == /\ NoId \notin Id
                       /\ \A u \in DeleteUid : DeleteId(u) \notin PreviewId

VARIABLES
    api,      \* Kubernetes objects by name; uid 0: no such object
    rev,      \* the API server's latest resource version
    inv,      \* UIDs of the ServiceAccount's live inventory rows
    listed,   \* UIDs of the ServiceAccount in the Agent's last List
    draft,    \* previews being computed by an API handler, by operation
    job,      \* rows of service_account_mutations
    audit,    \* audit log of each operation
    wk,       \* what each worker is doing
    net,      \* write requests on their way to the API server
    faults,   \* crashes and stalls so far
    effects,  \* history: the steps of each operation that changed an object
    clean,    \* history: last revision at which an object did not name Target
    purged    \* history: UIDs whose inventory row a mutation deleted

vars == <<api, rev, inv, listed, draft, job, audit, wk, net, faults, effects, clean, purged>>
db == <<job, audit, inv, listed, purged>>
cluster == <<api, rev, clean, effects>>

Absent == [uid |-> 0, rv |-> 0, subjects |-> {}, role |-> "", owner |-> 0]
Object == [uid : Nat, rv : Nat, subjects : SUBSET Subject,
           role : Role \cup {""}, owner : Nat]

Exists(n) == api[n].uid # 0

Step == [name : Name, uid : Nat, rv : Nat, before : SUBSET Subject, role : Role \cup {""}]

NoRow == [status |-> "none", action |-> "", uid |-> 0, plan |-> <<>>, next |-> 0,
          attempts |-> 0, lease |-> 0, expired |-> FALSE, lastError |-> ""]
Status == {"none", "preview", "queued", "running", "retry", "blocked", "succeeded"}
Terminal == {"blocked", "succeeded"}
Row == [status : Status, action : {"", "revoke", "delete"}, uid : Nat, plan : Seq(Step),
        next : Nat, attempts : Nat, lease : Nat, expired : BOOLEAN,
        lastError : {"", "unavailable", "changed", "exhausted"}]

NoDraft == [stage |-> "none", uid |-> 0, action |-> "", plan |-> <<>>]
Stage == {"none", "rolebindings", "clusterrolebindings", "secrets", "save"}
Draft == [stage : Stage, uid : Nat, action : {"", "revoke", "delete"}, plan : Seq(Step)]

Idle == [pc |-> "idle", id |-> NoId, token |-> 0, next |-> 0, res |-> ""]
WorkerState == [pc : {"idle", "check", "act", "wait", "commit"}, id : Id \cup {NoId},
                token : Nat, next : Nat, res : {"", "ok", "drift", "transient"}]

Request == [id : Id, token : Nat, step : Nat, uid : Nat, rv : Nat]

Entry == [status : Status \cup {"intent"}, steps : Nat]

-----------------------------------------------------------------------------
(* Objects an operation is about. *)

\* removeSubject: the subject is matched by kind, name and namespace, never by UID.
removeSubject(subjects) == subjects \ {Target}

SAStep(u) == [name |-> SA, uid |-> u, rv |-> 0, before |-> {}, role |-> ""]

StepFor(n) == [name |-> n, uid |-> api[n].uid, rv |-> api[n].rv,
               before |-> api[n].subjects, role |-> api[n].role]

\* What a preview of UID u takes from a list of the names S.
Matching(S, u) ==
    {n \in S : /\ Exists(n)
               /\ IF n \in Secret THEN api[n].owner = u
                                  ELSE removeSubject(api[n].subjects) # api[n].subjects}

\* The listed steps, in the API server's order.
Listings(S, u) ==
    LET M == Matching(S, u)
    IN  {[i \in 1..Cardinality(M) |-> StepFor(f[i])] :
            f \in {g \in [1..Cardinality(M) -> M] : \A n \in M : \E i \in DOMAIN g : g[i] = n}}

\* A new object n at revision v: any subjects and role for a binding; a token
\* Secret is annotated with the ServiceAccount's UID u.
Shapes(n, v, u) ==
    [uid : {v}, rv : {v},
     subjects : IF n \in Binding THEN SUBSET Subject ELSE {{}},
     role : IF n \in Binding THEN Role ELSE {""},
     owner : {IF n \in Secret THEN u ELSE 0}]

-----------------------------------------------------------------------------
(* Start of the system, then the preview handler: Preview's reads, one call at a time, then SavePreview. *)

Init ==
    /\ rev = 1
    /\ api \in [Name -> UNION {Shapes(n, 1, 1) : n \in Name} \cup {Absent}]
    /\ \A n \in Name : api[n] \in Shapes(n, 1, 1) \/ (n # SA /\ api[n] = Absent)
    /\ inv = {1} /\ listed = {1}
    /\ draft = [id \in PreviewId |-> NoDraft]
    /\ job = [id \in Id |-> NoRow]
    /\ audit = [id \in Id |-> <<>>]
    /\ wk = [w \in Worker |-> Idle]
    /\ net = {}
    /\ faults = 0
    /\ effects = [id \in Id |-> <<>>]
    /\ clean = [n \in Name |-> IF Exists(n) /\ Target \notin api[n].subjects THEN 1 ELSE 0]
    /\ purged = {}

PreviewRead(id, action) ==
    /\ job[id].status = "none" /\ draft[id].stage = "none"
    /\ Exists(SA) /\ api[SA].uid \in inv
    /\ draft' = [draft EXCEPT ![id] =
          [stage |-> IF action = "delete" THEN "save" ELSE "rolebindings",
           uid |-> api[SA].uid, action |-> action,
           plan |-> IF action = "delete" THEN <<SAStep(api[SA].uid)>> ELSE <<>>]]
    /\ UNCHANGED <<cluster, db, wk, net, faults>>

Listed(stage) == CASE stage = "rolebindings" -> RoleBinding
                   [] stage = "clusterrolebindings" -> ClusterRoleBinding
                   [] OTHER -> Secret
Following(stage) == CASE stage = "rolebindings" -> "clusterrolebindings"
                      [] stage = "clusterrolebindings" -> "secrets"
                      [] OTHER -> "save"

PreviewList(id) ==
    LET d == draft[id]
    IN  /\ d.stage \in {"rolebindings", "clusterrolebindings", "secrets"}
        /\ Cardinality({n \in Listed(d.stage) : Exists(n)}) <= ListLimit
        /\ \E steps \in Listings(Listed(d.stage), d.uid) :
              draft' = [draft EXCEPT ![id].stage = Following(d.stage), ![id].plan = @ \o steps]
        /\ UNCHANGED <<cluster, db, wk, net, faults>>

SavePreview(id) ==
    /\ draft[id].stage = "save"
    /\ job' = [job EXCEPT ![id] = [NoRow EXCEPT !.status = "preview", !.action = draft[id].action,
                                                !.uid = draft[id].uid, !.plan = draft[id].plan]]
    /\ draft' = [draft EXCEPT ![id] = NoDraft]
    /\ UNCHANGED <<cluster, audit, inv, listed, purged, wk, net, faults>>

\* A failed call, a list longer than a page, or a crash: nothing was stored.
PreviewFail(id) ==
    /\ draft[id].stage # "none"
    /\ draft' = [draft EXCEPT ![id] = NoDraft]
    /\ UNCHANGED <<cluster, db, wk, net, faults>>

\* Mutant: the intent is queued without its audit entry.
QueueUnaudited(id) ==
    /\ job[id].status = "preview"
    /\ job' = [job EXCEPT ![id].status = "queued"]
    /\ UNCHANGED <<cluster, audit, inv, listed, purged, draft, wk, net, faults>>

\* Queue: a request with another digest or actor, or after expires_at, changes nothing.
Queue(id) ==
    /\ job[id].status = "preview"
    /\ job' = [job EXCEPT ![id].status = "queued"]
    /\ audit' = [audit EXCEPT ![id] = Append(@, [status |-> "intent", steps |-> 0])]
    /\ UNCHANGED <<cluster, inv, listed, purged, draft, wk, net, faults>>

\* QueueDeletion for an inventory row; an existing row of that UID is left as it is.
QueueDeletion(u) ==
    /\ u \in inv
    /\ job[DeleteId(u)].status = "none"
    /\ job' = [job EXCEPT ![DeleteId(u)] = [NoRow EXCEPT !.status = "queued", !.action = "delete",
                                                         !.uid = u, !.plan = <<SAStep(u)>>]]
    /\ audit' = [audit EXCEPT ![DeleteId(u)] = Append(@, [status |-> "intent", steps |-> 0])]
    /\ UNCHANGED <<cluster, inv, listed, purged, draft, wk, net, faults>>

-----------------------------------------------------------------------------
(* Process: claim, one step of the plan, commit. *)

\* Mutant: a row left running by a dead worker is never taken over.
ClaimableNoTakeover(row) == row.status \in {"queued", "retry"}

Claimable(row) == \/ row.status \in {"queued", "retry"}
                  \/ row.status = "running" /\ row.expired

\* The claim transaction.  The lease token is random in the code; the claim's
\* number is just as fresh.  retry_at passes at any time after a retry was scheduled.
Claim(w, id) ==
    LET row == job[id]
        token == row.attempts + 1
        done == row.next >= Len(row.plan)
    IN  /\ wk[w].pc = "idle"
        /\ Claimable(row)
        /\ job' = [job EXCEPT ![id].status = "running", ![id].lease = token,
                              ![id].expired = FALSE, ![id].attempts = token]
        /\ wk' = [wk EXCEPT ![w] =
              [pc |-> IF done THEN "commit" ELSE IF row.action = "revoke" THEN "check" ELSE "act",
               id |-> id, token |-> token, next |-> row.next,
               res |-> IF done THEN "ok" ELSE ""]]
        /\ UNCHANGED <<cluster, audit, inv, listed, purged, draft, net, faults>>

Plan(w) == job[wk[w].id].plan
StepOf(w) == Plan(w)[wk[w].next + 1]
Finish(w, res) == wk' = [wk EXCEPT ![w].pc = "commit", ![w].res = res]

Send(w, uid, rv) ==
    /\ net' = net \cup {[id |-> wk[w].id, token |-> wk[w].token, step |-> wk[w].next + 1,
                         uid |-> uid, rv |-> rv]}
    /\ wk' = [wk EXCEPT ![w].pc = "wait"]

\* apply's first call, for a revocation: the ServiceAccount must still have its UID.
CheckServiceAccount(w) ==
    /\ wk[w].pc = "check"
    /\ IF api[SA].uid = job[wk[w].id].uid
       THEN wk' = [wk EXCEPT ![w].pc = "act"]
       ELSE Finish(w, "drift")
    /\ UNCHANGED <<cluster, db, draft, net, faults>>

\* Mutant: Secrets are deleted without the resource version precondition.
DeleteObjectAnyVersion(w) ==
    /\ wk[w].pc = "act" /\ StepOf(w).name \notin Binding
    /\ Send(w, StepOf(w).uid, 0)
    /\ UNCHANGED <<cluster, db, draft, faults>>

\* Delete with UID, and for a Secret resource version, preconditions.
DeleteObject(w) ==
    /\ wk[w].pc = "act" /\ StepOf(w).name \notin Binding
    /\ Send(w, StepOf(w).uid, IF StepOf(w).name = SA THEN 0 ELSE StepOf(w).rv)
    /\ UNCHANGED <<cluster, db, draft, faults>>

\* Mutant: a binding whose version moved is taken to be updated already.
VerdictByVersion(b, s) ==
    IF b.uid = 0 THEN "ok"
    ELSE IF b.uid # s.uid \/ b.role # s.role THEN "drift"
    ELSE IF b.rv # s.rv THEN "ok"
    ELSE "update"

\* Mutant: the subjects are rewritten whatever they are.
VerdictUnconditional(b, s) ==
    IF b.uid = 0 THEN "ok"
    ELSE IF b.uid # s.uid \/ b.role # s.role THEN "drift"
    ELSE "update"

\* The verdict of apply on the binding b it read for step s.
Verdict(b, s) ==
    IF b.uid = 0 THEN "ok"
    ELSE IF b.uid # s.uid \/ b.role # s.role THEN "drift"
    ELSE IF b.subjects = removeSubject(s.before) THEN "ok"
    ELSE IF b.rv # s.rv \/ b.subjects # s.before THEN "drift"
    ELSE "update"

\* Mutant: the update carries no resource version (a patch).
UpdateBindingPatch(w) ==
    LET s == StepOf(w)
        b == api[s.name]
        v == Verdict(b, s)
    IN  /\ wk[w].pc = "act" /\ s.name \in Binding
        /\ IF v = "update" THEN Send(w, b.uid, 0) ELSE Finish(w, v) /\ UNCHANGED net
        /\ UNCHANGED <<cluster, db, draft, faults>>

\* Get, compare, then Update of the object as it was read.
UpdateBinding(w) ==
    LET s == StepOf(w)
        b == api[s.name]
        v == Verdict(b, s)
    IN  /\ wk[w].pc = "act" /\ s.name \in Binding
        /\ IF v = "update" THEN Send(w, b.uid, b.rv) ELSE Finish(w, v) /\ UNCHANGED net
        /\ UNCHANGED <<cluster, db, draft, faults>>

\* A call, or the client factory before it, answers with an error: an outage,
\* or a refusal (Forbidden, Unauthorized) which Process treats as drift.
CallFails(w) ==
    /\ wk[w].pc \in {"check", "act"}
    /\ \E res \in {"transient", "drift"} : Finish(w, res)
    /\ UNCHANGED <<cluster, db, draft, net, faults>>

\* The write is refused by the API server's authorizer and never carried out.
WriteRefused(w) ==
    /\ wk[w].pc = "wait"
    /\ net' = {r \in net : r.id # wk[w].id \/ r.token # wk[w].token}
    /\ Finish(w, "drift")
    /\ UNCHANGED <<cluster, db, draft, faults>>

\* The request budget runs out, or the connection breaks: the write may be
\* done already, may still be done later, or never.
TimeOut(w) ==
    /\ wk[w].pc = "wait"
    /\ Finish(w, "transient")
    /\ UNCHANGED <<cluster, db, draft, net, faults>>

\* Mutant: a failed step takes the progress back.
CompletedUndo(w) == IF wk[w].res = "ok" THEN wk[w].next + 1 ELSE wk[w].next - 1

\* NextStep after the claim.
Completed(w) == IF wk[w].res = "ok" /\ wk[w].next < Len(Plan(w)) THEN wk[w].next + 1 ELSE wk[w].next

\* The status Process writes after a claim that ended with res.
Outcome(w) ==
    IF wk[w].res = "ok" THEN (IF Completed(w) = Len(Plan(w)) THEN "succeeded" ELSE "queued")
    ELSE IF wk[w].res = "drift" \/ wk[w].token >= MaxAttempts THEN "blocked"
    ELSE "retry"

Message(w) == IF wk[w].res = "ok" THEN ""
              ELSE IF wk[w].res = "drift" THEN "changed"
              ELSE IF wk[w].token >= MaxAttempts THEN "exhausted" ELSE "unavailable"

\* Mutant: any worker may commit to a running row.
HoldsAnyLease(w) == job[wk[w].id].status = "running"

HoldsLease(w) == job[wk[w].id].status = "running" /\ job[wk[w].id].lease = wk[w].token

\* Mutant: the inventory row goes with every commit of a deletion.
DeletesAlways(w) == job[wk[w].id].action = "delete"

\* The commit of a finished deletion also soft-deletes the inventory row.
Deletes(w) == Outcome(w) = "succeeded" /\ job[wk[w].id].action = "delete"

\* Status, progress, inventory and audit in one transaction, under the lease token.
Commit(w) ==
    LET id == wk[w].id
    IN  /\ wk[w].pc = "commit"
        /\ HoldsLease(w)
        /\ job' = [job EXCEPT ![id].status = Outcome(w), ![id].next = Completed(w),
                              ![id].lease = 0, ![id].expired = FALSE, ![id].lastError = Message(w)]
        /\ audit' = [audit EXCEPT ![id] = Append(@, [status |-> Outcome(w), steps |-> Completed(w)])]
        /\ inv' = IF Deletes(w) THEN inv \ {job[id].uid} ELSE inv
        /\ purged' = IF Deletes(w) THEN purged \cup {job[id].uid} ELSE purged
        /\ wk' = [wk EXCEPT ![w] = Idle]
        /\ UNCHANGED <<cluster, listed, draft, net, faults>>

\* "mutation lease lost": no row matches and the transaction rolls back.
LeaseLost(w) ==
    /\ wk[w].pc = "commit"
    /\ ~HoldsLease(w)
    /\ wk' = [wk EXCEPT ![w] = Idle]
    /\ UNCHANGED <<cluster, db, draft, net, faults>>

\* The process dies, its context is cancelled, or the commit fails: the row stays running.
Crash(w) ==
    /\ wk[w].pc # "idle"
    /\ faults < MaxFaults
    /\ faults' = faults + 1
    /\ wk' = [wk EXCEPT ![w] = Idle]
    /\ UNCHANGED <<cluster, db, draft, net>>

-----------------------------------------------------------------------------
(* Time, Kubernetes and its other clients. *)

Held(id) == \E w \in Worker : wk[w].id = id /\ wk[w].token = job[id].lease

\* lease_until passes; while its holder still works this is a stall of the holder.
LeaseExpires(id) ==
    /\ job[id].status = "running" /\ ~job[id].expired
    /\ IF Held(id) THEN faults < MaxFaults /\ faults' = faults + 1 ELSE faults' = faults
    /\ job' = [job EXCEPT ![id].expired = TRUE]
    /\ UNCHANGED <<cluster, audit, inv, listed, purged, draft, wk, net>>

\* The step a request is for, and whether its preconditions hold on arrival.
StepFrom(r) == job[r.id].plan[r.step]
Hit(r) == LET o == api[StepFrom(r).name]
          IN  o.uid # 0 /\ o.uid = r.uid /\ r.rv \in {0, o.rv}

\* apply's result for the answer: a missing object is success for Delete but an
\* error other than Conflict for Update; a failed precondition is a Conflict.
Answer(r) == IF api[StepFrom(r).name].uid = 0
             THEN (IF StepFrom(r).name \in Binding THEN "transient" ELSE "ok")
             ELSE IF Hit(r) THEN "ok" ELSE "drift"

\* The change a request makes.
Write(r) ==
    LET n == StepFrom(r).name
        updated == [api[n] EXCEPT !.subjects = removeSubject(StepFrom(r).before), !.rv = rev + 1]
    IN  /\ api' = [api EXCEPT ![n] = IF n \in Binding THEN updated ELSE Absent]
        /\ clean' = [clean EXCEPT ![n] = IF n \in Binding THEN rev + 1 ELSE 0]
        /\ rev' = rev + 1
        /\ effects' = [effects EXCEPT ![r.id] = Append(@, r.step)]

\* The API server carries out, or refuses, a request it received; the answer may be lost.
Serve(r) ==
    /\ net' = net \ {r}
    /\ IF Hit(r) THEN Write(r) ELSE UNCHANGED cluster
    /\ \/ UNCHANGED wk
       \/ \E w \in Worker : /\ wk[w].pc = "wait" /\ wk[w].id = r.id /\ wk[w].token = r.token
                            /\ Finish(w, Answer(r))
    /\ UNCHANGED <<db, draft, faults>>

Put(n, o) ==
    /\ rev < MaxRev
    /\ rev' = rev + 1
    /\ api' = [api EXCEPT ![n] = o]
    /\ clean' = [clean EXCEPT ![n] = IF n \in Binding /\ Target \notin o.subjects THEN rev + 1
                                     ELSE IF Exists(n) THEN @ ELSE 0]
    /\ UNCHANGED <<effects, db, draft, wk, net, faults>>

OtherClientCreates(n) ==
    /\ ~Exists(n)
    /\ \E o \in Shapes(n, rev + 1, api[SA].uid) : Put(n, o)

OtherClientEdits(n) ==
    /\ Exists(n) /\ n # SA
    /\ \E subjects \in IF n \in Binding THEN SUBSET Subject ELSE {{}} :
         Put(n, [api[n] EXCEPT !.subjects = subjects, !.rv = rev + 1])

OtherClientDeletes(n) ==
    /\ Exists(n)
    /\ api' = [api EXCEPT ![n] = Absent]
    /\ clean' = [clean EXCEPT ![n] = 0]
    /\ UNCHANGED <<rev, effects, db, draft, wk, net, faults>>

\* The Agent lists the ServiceAccounts; some time later, and maybe twice, Core's full sync
\* leaves exactly the listed UIDs live: one that was purged in between comes back.
ListServiceAccounts ==
    /\ listed' = IF Exists(SA) THEN {api[SA].uid} ELSE {}
    /\ UNCHANGED <<cluster, job, audit, inv, purged, draft, wk, net, faults>>

FullSync ==
    /\ inv' = listed
    /\ UNCHANGED <<cluster, job, audit, listed, purged, draft, wk, net, faults>>

Syncing == ListServiceAccounts \/ FullSync

-----------------------------------------------------------------------------
Previewing == \E id \in PreviewId : \/ \E action \in {"revoke", "delete"} : PreviewRead(id, action)
                                    \/ PreviewList(id) \/ SavePreview(id) \/ PreviewFail(id)
Requests == (\E id \in PreviewId : Queue(id)) \/ (\E u \in DeleteUid : QueueDeletion(u))

Progress(w) == \/ CheckServiceAccount(w) \/ DeleteObject(w) \/ UpdateBinding(w) \/ CallFails(w)
               \/ WriteRefused(w) \/ TimeOut(w) \/ Commit(w) \/ LeaseLost(w)

Working == \E w \in Worker : (\E id \in Id : Claim(w, id)) \/ Progress(w) \/ Crash(w)

Surroundings == \/ \E id \in Id : LeaseExpires(id)
                \/ \E r \in net : Serve(r)
                \/ \E n \in Name : OtherClientCreates(n) \/ OtherClientEdits(n) \/ OtherClientDeletes(n)
                \/ Syncing

Next == Previewing \/ Requests \/ Working \/ Surroundings

Spec == Init /\ [][Next]_vars

(* Every Core runs Start's ticker until it stops, an HTTP call ends within its
   request budget, and time passes.  Nothing obliges users, other clients or
   the API server to act. *)
Fairness == /\ \A w \in Worker : WF_vars(Progress(w))
            /\ \A id \in Id : WF_vars(\E w \in Worker : Claim(w, id))
            /\ \A id \in Id : WF_vars(LeaseExpires(id))

FairSpec == Spec /\ Fairness

-----------------------------------------------------------------------------
(* Properties *)

\* Type correctness of rows, workers, requests and Kubernetes objects.
TypeOK ==
    /\ api \in [Name -> Object]
    /\ rev \in Nat
    /\ inv \subseteq Nat /\ listed \subseteq Nat
    /\ draft \in [PreviewId -> Draft]
    /\ job \in [Id -> Row]
    /\ audit \in [Id -> Seq(Entry)]
    /\ wk \in [Worker -> WorkerState]
    /\ net \subseteq Request
    /\ faults \in Nat
    /\ effects \in [Id -> Seq(Nat)]
    /\ clean \in [Name -> Nat]
    /\ purged \subseteq Nat

\* Step s was carried out: its object is gone or, for a binding, stood without
\* the Target at some revision after the previewed one.
Realised(s) == \/ api[s.name].uid # s.uid
               \/ s.name \in Binding /\ clean[s.name] > s.rv

\* The progress a row reports is true of Kubernetes: every completed step was
\* carried out after the preview, whatever crashed, timed out or was taken over
\* (Process advances next_step only after apply returned nil).
ProgressIsReal ==
    \A id \in Id : \A i \in 1..job[id].next : Realised(job[id].plan[i])

\* No step changes Kubernetes twice and steps take effect in plan order, across
\* retries, lease takeovers and writes that land late.
EffectsOnceInOrder ==
    \A id \in Id : \A i, j \in DOMAIN effects[id] : i < j => effects[id][i] < effects[id][j]

\* The inventory row of a ServiceAccount is deleted by a mutation only when
\* that UID is gone from Kubernetes for good.
PurgedIsGone == \A u \in purged : api[SA].uid # u

\* Every operation that changed Kubernetes, or ended, has its intent in the audit log
\* first and exactly once, and the log's last entry is the row's status and progress.
AuditTellsHistory ==
    \A id \in Id :
      /\ \A i \in DOMAIN audit[id] : audit[id][i].status = "intent" <=> i = 1
      /\ effects[id] # <<>> => audit[id] # <<>>
      /\ job[id].status \in Terminal =>
           audit[id][Len(audit[id])] = [status |-> job[id].status, steps |-> job[id].next]

\* A write of a worker lands only on the very object version the preview showed:
\* UID, resource version, subjects and role for bindings, UID alone for the ServiceAccount.
ExactTarget ==
    [][\A id \in Id : effects'[id] # effects[id] =>
         LET s == job[id].plan[effects'[id][Len(effects'[id])]]
         IN  /\ api[s.name].uid = s.uid
             /\ s.name # SA => api[s.name].rv = s.rv
             /\ s.name \in Binding => api[s.name].subjects = s.before /\ api[s.name].role = s.role]_vars

\* A write that lands, however late, belongs to the first step the row does not
\* report as completed: nothing lands behind or ahead of the durable progress.
EffectIsNextStep ==
    [][\A id \in Id : effects'[id] # effects[id] =>
         effects'[id][Len(effects'[id])] = job[id].next + 1]_vars

\* Durable progress never goes back, the reviewed plan never changes and a
\* finished operation stays as it is, although stale workers still try to commit.
RowsOnlyAdvance ==
    [][\A id \in Id : job[id].status # "none" =>
         /\ job'[id].plan = job[id].plan /\ job'[id].uid = job[id].uid
         /\ job'[id].next \in {job[id].next, job[id].next + 1}
         /\ job[id].status \in Terminal => job'[id] = job[id]]_vars

\* Transient failures are retried "up to 20 attempts": an operation is given up as
\* unavailable only after MaxAttempts - 1 scheduled retries
\* (docs/operations/SERVICEACCOUNT_MUTATIONS.md, MaxAttempts in service_account.go).
RetryBudget ==
    \A id \in Id : job[id].lastError = "exhausted" =>
      Cardinality({i \in DOMAIN audit[id] : audit[id][i].status = "retry"}) >= MaxAttempts - 1

\* A queued operation ends: it succeeds or is blocked.
QueuedEnds == \A id \in Id : job[id].status = "queued" ~> job[id].status \in Terminal
=============================================================================
