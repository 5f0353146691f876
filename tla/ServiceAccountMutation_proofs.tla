-------------------- MODULE ServiceAccountMutation_proofs --------------------
(***************************************************************************)
(* Proofs about ServiceAccountMutation, for every set of workers,           *)
(* operations, objects and every bound.  IndInv is the inductive invariant; *)
(* its core is that a completed step stays carried out (Realised), which    *)
(* rests on UIDs and resource versions never coming back (Behind).          *)
(***************************************************************************)
EXTENDS ServiceAccountMutation, FiniteSetTheorems, TLAPS

\* Drafts, workers and requests refer to rows and steps that are there.
Shape ==
    /\ \A id \in PreviewId : draft[id].stage # "none" => job[id].status = "none"
    /\ \A w \in Worker : wk[w].pc # "idle" =>
         /\ wk[w].id \in Id
         /\ job[wk[w].id].status # "none"
         /\ wk[w].pc # "commit" => wk[w].next < Len(Plan(w))
    /\ \A r \in net : /\ job[r.id].status # "none"
                      /\ r.step \in 1..Len(job[r.id].plan)

\* What holds of the API server's objects.
ClusterInv ==
    /\ inv \subseteq 1..rev /\ listed \subseteq 1..rev
    /\ \A n \in Name :
         /\ api[n].uid <= rev /\ api[n].rv <= rev
         /\ clean[n] <= rev
         /\ api[n].uid # 0 => api[n].rv # 0
         /\ n \in Binding /\ api[n].uid # 0 =>
              /\ clean[n] <= api[n].rv
              /\ Target \notin api[n].subjects => clean[n] = api[n].rv

\* Step s was read from the cluster at or before its present state.
Behind(s) ==
    /\ s.uid \in 1..rev /\ s.rv <= rev
    /\ s.name # SA => s.rv # 0
    /\ s.name \in Binding => Target \in s.before
    /\ api[s.name].uid = s.uid =>
         /\ s.rv <= api[s.name].rv
         /\ s.name \in Binding /\ api[s.name].rv = s.rv =>
              api[s.name].subjects = s.before /\ api[s.name].role = s.role

PlanInv ==
    /\ \A id \in Id : \A i \in DOMAIN job[id].plan : Behind(job[id].plan[i])
    /\ \A id \in PreviewId : \A i \in DOMAIN draft[id].plan : Behind(draft[id].plan[i])

RowInv ==
    /\ \A id \in Id :
         /\ job[id].status = "none" => job[id] = NoRow /\ effects[id] = <<>>
         /\ job[id].next <= Len(job[id].plan)
         /\ job[id].action = "delete" => job[id].plan = <<SAStep(job[id].uid)>>
         /\ job[id].lease <= job[id].attempts
    /\ \A id \in PreviewId :
         draft[id].action = "delete" => draft[id].stage = "save" /\ draft[id].plan = <<SAStep(draft[id].uid)>>

WorkerInv ==
    \A w \in Worker : wk[w].pc # "idle" =>
      /\ wk[w].token \in 1..job[wk[w].id].attempts
      /\ wk[w].next <= job[wk[w].id].next
      /\ wk[w].pc = "commit" /\ wk[w].res = "ok" /\ wk[w].next < Len(Plan(w)) => Realised(StepOf(w))
      /\ job[wk[w].id].lease = wk[w].token => wk[w].next = job[wk[w].id].next

\* A lease token belongs to one claim: one worker, and requests for its step.
LeaseInv ==
    /\ \A v, w \in Worker : wk[v].pc # "idle" /\ wk[w].pc # "idle" /\ wk[v].id = wk[w].id
                              /\ wk[v].token = wk[w].token => v = w
    /\ \A r \in net : /\ r.token <= job[r.id].attempts
                      /\ \A w \in Worker : wk[w].pc # "idle" /\ wk[w].id = r.id /\ wk[w].token = r.token =>
                                              r.step = wk[w].next + 1

NetInv ==
    \A r \in net :
      LET s == job[r.id].plan[r.step]
      IN  /\ r.step <= job[r.id].next + 1
          /\ r.uid = s.uid
          /\ s.name # SA => r.rv = s.rv

EffectInv ==
    \A id \in Id : \A i \in DOMAIN effects[id] :
      /\ effects[id][i] \in 1..Len(job[id].plan)
      /\ effects[id][i] <= job[id].next + 1
      /\ Realised(job[id].plan[effects[id][i]])

IndInv ==
    /\ TypeOK /\ Shape
    /\ ClusterInv /\ PlanInv /\ RowInv /\ WorkerInv /\ LeaseInv /\ NetInv /\ EffectInv
    /\ ProgressIsReal /\ EffectsOnceInOrder
    /\ PurgedIsGone /\ purged \subseteq 1..rev

-----------------------------------------------------------------------------
(* Facts about the operators *)

LEMMA NameFacts ==
    /\ SA \in Name /\ SA \notin Binding /\ SA \notin Secret
    /\ RoleBinding \subseteq Name /\ ClusterRoleBinding \subseteq Name /\ Secret \subseteq Name
    /\ Binding \subseteq Name
    /\ \A u \in DeleteUid : DeleteId(u) \in Id
    /\ PreviewId \subseteq Id
  BY NameAssumption DEF Name, Binding, Id

LEMMA ListedFacts ==
    ASSUME NEW stage
    PROVE  /\ Listed(stage) \subseteq Name \ {SA}
           /\ IsFiniteSet(Listed(stage))
           /\ Following(stage) \in Stage \ {"none"}
  <1>1. Listed(stage) \in {RoleBinding, ClusterRoleBinding, Secret}
    BY DEF Listed
  <1>2. IsFiniteSet(RoleBinding) /\ IsFiniteSet(ClusterRoleBinding) /\ IsFiniteSet(Secret)
    BY NameAssumption, FS_Subset DEF Binding
  <1>3. Listed(stage) \subseteq Name \ {SA}
    BY <1>1, NameAssumption DEF Name, Binding
  <1>4. IsFiniteSet(Listed(stage))
    BY <1>1, <1>2
  <1>5. Following(stage) \in Stage \ {"none"}
    BY DEF Following, Stage
  <1> QED BY <1>3, <1>4, <1>5

\* A list yields steps for matching objects only, each in its present version.
LEMMA ListingFacts ==
    ASSUME TypeOK, NEW stage, NEW u, NEW q \in Listings(Listed(stage), u)
    PROVE  /\ q \in Seq(Step)
           /\ \A i \in DOMAIN q : \E n \in Matching(Listed(stage), u) : q[i] = StepFor(n)
  <1> DEFINE M == Matching(Listed(stage), u)
  <1>1. M \subseteq Listed(stage)
    BY DEF Matching
  <1>2. IsFiniteSet(M)
    BY <1>1, ListedFacts, FS_Subset
  <1>3. Cardinality(M) \in Nat
    BY <1>2, FS_CardinalityType
  <1>4. PICK f \in [1..Cardinality(M) -> M] : q = [i \in 1..Cardinality(M) |-> StepFor(f[i])]
    BY DEF Listings
  <1>5. \A n \in M : StepFor(n) \in Step
    BY <1>1, ListedFacts DEF TypeOK, StepFor, Step, Object
  <1> HIDE DEF M
  <1>6. q \in Seq(Step)
    <2>1. q \in [1..Cardinality(M) -> Step]
      BY <1>4, <1>5
    <2> QED BY <2>1, <1>3
  <1>7. DOMAIN q = 1..Cardinality(M)
    BY <1>4
  <1>8. \A i \in DOMAIN q : \E n \in M : q[i] = StepFor(n)
    BY <1>4, <1>7
  <1> QED BY <1>6, <1>8 DEF M

-----------------------------------------------------------------------------
(* Type correctness *)

LEMMA EmptySeqTyped == ASSUME NEW T PROVE <<>> \in Seq(T)
  OBVIOUS

LEMMA DefaultsTyped ==
    Absent \in Object /\ NoRow \in Row /\ NoDraft \in Draft /\ Idle \in WorkerState
  <1>1. Absent \in Object
    BY DEF Absent, Object
  <1>2. NoRow \in Row
    BY EmptySeqTyped DEF NoRow, Row, Status
  <1>3. NoDraft \in Draft
    BY EmptySeqTyped DEF NoDraft, Draft, Stage
  <1>4. Idle \in WorkerState
    BY DEF Idle, WorkerState
  <1> QED BY <1>1, <1>2, <1>3, <1>4

LEMMA DefaultFields ==
    /\ Absent.uid = 0 /\ Absent.rv = 0
    /\ Idle.pc = "idle"
    /\ NoRow.status = "none" /\ NoRow.plan = <<>> /\ NoRow.next = 0
    /\ NoDraft.stage = "none" /\ NoDraft.plan = <<>> /\ NoDraft.action = ""
  BY DEF Absent, Idle, NoRow, NoDraft

LEMMA ObjectTyped ==
    ASSUME NEW u \in Nat, NEW v \in Nat, NEW S \in SUBSET Subject, NEW r \in Role \cup {""}, NEW o \in Nat
    PROVE  [uid |-> u, rv |-> v, subjects |-> S, role |-> r, owner |-> o] \in Object
  BY DEF Object

LEMMA ShapesTyped ==
    ASSUME NEW n, NEW v \in Nat, NEW u \in Nat, NEW o \in Shapes(n, v, u)
    PROVE  /\ o \in Object
           /\ o.uid = v /\ o.rv = v
  <1>1. o = [uid |-> o.uid, rv |-> o.rv, subjects |-> o.subjects, role |-> o.role, owner |-> o.owner]
    BY DEF Shapes
  <1>2. o.uid = v /\ o.rv = v /\ o.owner \in {u, 0}
    BY DEF Shapes
  <1>3. o.subjects \in SUBSET Subject /\ o.role \in Role \cup {""}
    BY DEF Shapes
  <1>4. o.uid \in Nat /\ o.rv \in Nat /\ o.owner \in Nat
    BY <1>2
  <1>5. [uid |-> o.uid, rv |-> o.rv, subjects |-> o.subjects, role |-> o.role, owner |-> o.owner] \in Object
    BY <1>3, <1>4, ObjectTyped
  <1>6. o \in Object
    BY <1>1, <1>5, Zenon
  <1> QED BY <1>2, <1>6

LEMMA InitTypeOK == Init => TypeOK
  <1> SUFFICES ASSUME Init PROVE TypeOK
    OBVIOUS
  <1>1. \A n \in Name : Shapes(n, 1, 1) \subseteq Object
    BY ShapesTyped
  <1>2. api \in [Name -> Object]
    BY <1>1, DefaultsTyped DEF Init
  <1>3. clean \in [Name -> Nat]
    BY DEF Init
  <1>4. /\ draft \in [PreviewId -> Draft] /\ job \in [Id -> Row] /\ wk \in [Worker -> WorkerState]
        /\ audit \in [Id -> Seq(Entry)] /\ effects \in [Id -> Seq(Nat)]
    BY DefaultsTyped, EmptySeqTyped DEF Init
  <1> QED BY <1>2, <1>3, <1>4 DEF Init, TypeOK

\* A worker's progress within a claim.
LEMMA FinishTyped ==
    ASSUME wk \in [Worker -> WorkerState], NEW w \in Worker,
           NEW res \in {"ok", "drift", "transient"}, Finish(w, res)
    PROVE  wk' \in [Worker -> WorkerState]
  <1>1. [wk[w] EXCEPT !.pc = "commit", !.res = res] \in WorkerState
    BY DEF WorkerState
  <1>2. wk' = [wk EXCEPT ![w] = [wk[w] EXCEPT !.pc = "commit", !.res = res]]
    BY DEF Finish
  <1> QED BY <1>1, <1>2

LEMMA SendTyped ==
    ASSUME wk \in [Worker -> WorkerState], net \subseteq Request, NEW w \in Worker, wk[w].id \in Id,
           NEW uid \in Nat, NEW rv \in Nat, Send(w, uid, rv)
    PROVE  wk' \in [Worker -> WorkerState] /\ net' \subseteq Request
  <1>1. [wk[w] EXCEPT !.pc = "wait"] \in WorkerState
    BY DEF WorkerState
  <1>2. wk' = [wk EXCEPT ![w] = [wk[w] EXCEPT !.pc = "wait"]]
    BY DEF Send
  <1>3. wk[w].token \in Nat /\ wk[w].next \in Nat
    BY DEF WorkerState
  <1>4. wk[w].next + 1 \in Nat
    BY <1>3
  <1>5. [id |-> wk[w].id, token |-> wk[w].token, step |-> wk[w].next + 1, uid |-> uid, rv |-> rv] \in Request
    BY <1>3, <1>4 DEF Request
  <1>6. net' \subseteq Request
    BY <1>5 DEF Send
  <1> QED BY <1>1, <1>2, <1>6

\* The fields of rows, workers, objects and requests, one by one.
LEMMA Fields ==
    ASSUME TypeOK
    PROVE  /\ \A id \in Id : /\ job[id].plan \in Seq(Step) /\ job[id].next \in Nat
                             /\ job[id].attempts \in Nat /\ job[id].lease \in Nat /\ job[id].uid \in Nat
           /\ \A w \in Worker : wk[w].next \in Nat /\ wk[w].token \in Nat
           /\ \A n \in Name : api[n].uid \in Nat /\ api[n].rv \in Nat /\ clean[n] \in Nat
           /\ \A r \in net : r.id \in Id /\ r.token \in Nat /\ r.step \in Nat /\ r.uid \in Nat /\ r.rv \in Nat
           /\ \A id \in PreviewId : draft[id].plan \in Seq(Step) /\ draft[id].uid \in Nat
           /\ rev \in Nat
           /\ \A s \in Step : s.name \in Name /\ s.uid \in Nat /\ s.rv \in Nat
  <1>1. \A id \in Id : /\ job[id].plan \in Seq(Step) /\ job[id].next \in Nat
                       /\ job[id].attempts \in Nat /\ job[id].lease \in Nat /\ job[id].uid \in Nat
    BY DEF TypeOK, Row
  <1>2. \A w \in Worker : wk[w].next \in Nat /\ wk[w].token \in Nat
    BY DEF TypeOK, WorkerState
  <1>3. \A n \in Name : api[n].uid \in Nat /\ api[n].rv \in Nat /\ clean[n] \in Nat
    BY DEF TypeOK, Object
  <1>4. \A r \in net : r.id \in Id /\ r.token \in Nat /\ r.step \in Nat /\ r.uid \in Nat /\ r.rv \in Nat
    BY DEF TypeOK, Request
  <1>5. \A id \in PreviewId : draft[id].plan \in Seq(Step) /\ draft[id].uid \in Nat
    BY DEF TypeOK, Draft
  <1>6. \A s \in Step : s.name \in Name /\ s.uid \in Nat /\ s.rv \in Nat
    BY DEF Step
  <1> QED BY <1>1, <1>2, <1>3, <1>4, <1>5, <1>6 DEF TypeOK

\* The step a worker is at, and the step a request is for.
LEMMA StepTyped ==
    ASSUME TypeOK, Shape
    PROVE  /\ \A w \in Worker : wk[w].pc \in {"check", "act", "wait"} =>
                wk[w].id \in Id /\ StepOf(w) \in Step /\ wk[w].next + 1 \in DOMAIN Plan(w)
           /\ \A r \in net : job[r.id].plan[r.step] \in Step
  <1>1. ASSUME NEW w \in Worker, wk[w].pc \in {"check", "act", "wait"}
        PROVE  wk[w].id \in Id /\ StepOf(w) \in Step /\ wk[w].next + 1 \in DOMAIN Plan(w)
    <2>1. wk[w].id \in Id /\ wk[w].next < Len(Plan(w))
      BY <1>1 DEF Shape
    <2>2. Plan(w) \in Seq(Step) /\ wk[w].next \in Nat
      BY <2>1, Fields DEF Plan
    <2>3. wk[w].next + 1 \in 1..Len(Plan(w))
      BY <2>1, <2>2
    <2> QED BY <2>1, <2>2, <2>3 DEF StepOf
  <1>2. ASSUME NEW r \in net PROVE job[r.id].plan[r.step] \in Step
    BY Fields DEF Shape
  <1> QED BY <1>1, <1>2

\* The row a commit writes.
LEMMA CommittedTyped ==
    ASSUME NEW row \in Row, NEW status \in Status, NEW next \in Nat,
           NEW message \in {"", "unavailable", "changed", "exhausted"}
    PROVE  [row EXCEPT !.status = status, !.next = next, !.lease = 0, !.expired = FALSE,
                       !.lastError = message] \in Row
  BY DEF Row

LEMMA NextTypeOK == TypeOK /\ Shape /\ [Next]_vars => TypeOK'
  <1> SUFFICES ASSUME TypeOK, Shape, [Next]_vars PROVE TypeOK'
    OBVIOUS
  <1>t. /\ draft \in [PreviewId -> Draft] /\ job \in [Id -> Row] /\ wk \in [Worker -> WorkerState]
        /\ audit \in [Id -> Seq(Entry)] /\ api \in [Name -> Object] /\ net \subseteq Request
    BY DEF TypeOK
  <1>1. ASSUME NEW id \in PreviewId, NEW action \in {"revoke", "delete"}, PreviewRead(id, action)
        PROVE  TypeOK'
    <2>1. SAStep(api[SA].uid) \in Step /\ api[SA].uid \in Nat
      BY NameFacts DEF SAStep, Step, Object, TypeOK
    <2>2. <<SAStep(api[SA].uid)>> \in Seq(Step) /\ <<>> \in Seq(Step)
      BY <2>1
    <2>3. PICK p \in Seq(Step), st \in Stage :
            draft' = [draft EXCEPT ![id] = [stage |-> st, uid |-> api[SA].uid, action |-> action, plan |-> p]]
      BY <1>1, <2>2 DEF PreviewRead, Stage
    <2>4. [stage |-> st, uid |-> api[SA].uid, action |-> action, plan |-> p] \in Draft
      BY <2>1 DEF Draft
    <2>5. draft' \in [PreviewId -> Draft]
      BY <2>4, <2>3, <1>t
    <2> QED BY <1>1, <2>5 DEF PreviewRead, cluster, db, TypeOK
  <1>2. ASSUME NEW id \in PreviewId, PreviewList(id) PROVE TypeOK'
    <2>1. PICK q \in Listings(Listed(draft[id].stage), draft[id].uid) :
            draft' = [draft EXCEPT ![id].stage = Following(draft[id].stage), ![id].plan = @ \o q]
      BY <1>2 DEF PreviewList
    <2>2. q \in Seq(Step) /\ Following(draft[id].stage) \in Stage
      BY ListingFacts, ListedFacts
    <2>3. draft[id].plan \o q \in Seq(Step)
      BY <2>2, Fields
    <2>4. \A p \in Seq(Step), st \in Stage : [draft[id] EXCEPT !.stage = st, !.plan = p] \in Draft
      BY <1>t DEF Draft
    <2>5. draft' = [draft EXCEPT ![id] = [draft[id] EXCEPT !.stage = Following(draft[id].stage),
                                                           !.plan = draft[id].plan \o q]]
      BY <2>1, <1>t
    <2>6. draft' \in [PreviewId -> Draft]
      BY <2>2, <2>3, <2>4, <2>5, <1>t
    <2> QED BY <1>2, <2>6 DEF PreviewList, cluster, db, TypeOK
  <1>3. ASSUME NEW id \in PreviewId, SavePreview(id) PROVE TypeOK'
    <2>1. draft' \in [PreviewId -> Draft]
      BY <1>3, DefaultsTyped DEF SavePreview, TypeOK
    <2>2. [NoRow EXCEPT !.status = "preview", !.action = draft[id].action,
                        !.uid = draft[id].uid, !.plan = draft[id].plan] \in Row
      BY DefaultsTyped DEF TypeOK, Draft, Row, Status
    <2>3. job' \in [Id -> Row]
      BY <1>3, <2>2, NameFacts DEF SavePreview, TypeOK
    <2> QED BY <1>3, <2>1, <2>3 DEF SavePreview, cluster, TypeOK
  <1>4. ASSUME NEW id \in PreviewId, PreviewFail(id) PROVE TypeOK'
    BY <1>4, DefaultsTyped DEF PreviewFail, cluster, db, TypeOK
  <1>5. ASSUME NEW id \in PreviewId, Queue(id) PROVE TypeOK'
    <2>1. [status |-> "intent", steps |-> 0] \in Entry
      BY DEF Entry
    <2>2. audit' \in [Id -> Seq(Entry)]
      BY <1>5, <2>1, NameFacts DEF Queue, TypeOK
    <2>3. [job[id] EXCEPT !.status = "queued"] \in Row
      <3>1. job[id] \in Row
        BY <1>t, NameFacts
      <3>2. \A r \in Row : [r EXCEPT !.status = "queued"] \in Row
        BY DEF Row, Status
      <3> QED BY <3>1, <3>2
    <2>4. job' \in [Id -> Row]
      BY <1>5, <1>t, <2>3, NameFacts DEF Queue
    <2> QED BY <1>5, <2>2, <2>4 DEF Queue, cluster, TypeOK
  <1>6. ASSUME NEW u \in DeleteUid, QueueDeletion(u) PROVE TypeOK'
    <2>1. [status |-> "intent", steps |-> 0] \in Entry
      BY DEF Entry
    <2>2. u \in Nat /\ SAStep(u) \in Step /\ DeleteId(u) \in Id
      BY BoundAssumption, NameFacts DEF SAStep, Step
    <2>3. <<SAStep(u)>> \in Seq(Step)
      BY <2>2
    <2>4. [NoRow EXCEPT !.status = "queued", !.action = "delete", !.uid = u, !.plan = <<SAStep(u)>>] \in Row
      BY DefaultsTyped, <2>2, <2>3 DEF Row, Status
    <2>5. audit' \in [Id -> Seq(Entry)] /\ job' \in [Id -> Row]
      BY <1>6, <2>1, <2>2, <2>4 DEF QueueDeletion, TypeOK
    <2> QED BY <1>6, <2>5 DEF QueueDeletion, cluster, TypeOK
  <1>7. ASSUME NEW w \in Worker, NEW id \in Id, Claim(w, id) PROVE TypeOK'
    <2> DEFINE token == job[id].attempts + 1
               row == [job[id] EXCEPT !.status = "running", !.lease = token,
                                      !.expired = FALSE, !.attempts = token]
    <2>1. token \in Nat /\ job[id].next \in Nat
      BY Fields
    <2>2. job' = [job EXCEPT ![id] = row]
      BY <1>7, <1>t DEF Claim
    <2>3. PICK pc \in {"commit", "check", "act"}, res \in {"ok", ""} :
            wk' = [wk EXCEPT ![w] = [pc |-> pc, id |-> id, token |-> token,
                                     next |-> job[id].next, res |-> res]]
      BY <1>7 DEF Claim
    <2> HIDE DEF token
    <2>4. row \in Row
      BY <1>t, <2>1, ZenonT(60) DEF Row, Status
    <2>5. [pc |-> pc, id |-> id, token |-> token, next |-> job[id].next, res |-> res] \in WorkerState
      BY <2>1 DEF WorkerState
    <2>6. job' \in [Id -> Row] /\ wk' \in [Worker -> WorkerState]
      BY <1>t, <2>2, <2>3, <2>4, <2>5
    <2> QED BY <1>7, <2>6 DEF Claim, cluster, TypeOK
  <1>8. ASSUME NEW w \in Worker, CheckServiceAccount(w) PROVE TypeOK'
    <2>1. [wk[w] EXCEPT !.pc = "act"] \in WorkerState
      BY <1>t DEF WorkerState
    <2>2. ASSUME wk' = [wk EXCEPT ![w].pc = "act"] PROVE wk' \in [Worker -> WorkerState]
      BY <2>1, <2>2, <1>t
    <2>3. wk' \in [Worker -> WorkerState]
      BY <1>8, <1>t, <2>2, FinishTyped DEF CheckServiceAccount
    <2> QED BY <1>8, <2>3 DEF CheckServiceAccount, cluster, db, TypeOK
  <1>9. ASSUME NEW w \in Worker, DeleteObject(w) PROVE TypeOK'
    <2>1. wk[w].id \in Id /\ StepOf(w).uid \in Nat /\ StepOf(w).rv \in Nat
      BY <1>9, StepTyped, Fields DEF DeleteObject
    <2>2. PICK rv \in Nat : Send(w, StepOf(w).uid, rv)
      BY <1>9, <2>1 DEF DeleteObject
    <2>3. wk' \in [Worker -> WorkerState] /\ net' \subseteq Request
      BY <2>1, <2>2, <1>t, SendTyped
    <2> QED BY <1>9, <2>3 DEF DeleteObject, cluster, db, TypeOK
  <1>10. ASSUME NEW w \in Worker, UpdateBinding(w) PROVE TypeOK'
    <2> DEFINE b == api[StepOf(w).name]
    <2>1. wk[w].id \in Id /\ b.uid \in Nat /\ b.rv \in Nat
      BY <1>10, StepTyped, Fields DEF UpdateBinding
    <2>2. Verdict(b, StepOf(w)) \in {"ok", "drift", "update"}
      BY DEF Verdict
    <2>3. \/ Send(w, b.uid, b.rv)
          \/ UNCHANGED net /\ \E res \in {"ok", "drift"} : Finish(w, res)
      BY <1>10, <2>2 DEF UpdateBinding
    <2>4. wk' \in [Worker -> WorkerState] /\ net' \subseteq Request
      BY <2>1, <2>3, <1>t, SendTyped, FinishTyped
    <2> QED BY <1>10, <2>4 DEF UpdateBinding, cluster, db, TypeOK
  <1>11. ASSUME NEW w \in Worker, CallFails(w) \/ TimeOut(w) PROVE TypeOK'
    <2>1. wk' \in [Worker -> WorkerState]
      BY <1>11, <1>t, FinishTyped DEF CallFails, TimeOut
    <2> QED BY <1>11, <2>1 DEF CallFails, TimeOut, cluster, db, TypeOK
  <1>12. ASSUME NEW w \in Worker, WriteRefused(w) PROVE TypeOK'
    <2>1. wk' \in [Worker -> WorkerState] /\ net' \subseteq Request
      BY <1>12, <1>t, FinishTyped DEF WriteRefused
    <2> QED BY <1>12, <2>1 DEF WriteRefused, cluster, db, TypeOK
  <1>13. ASSUME NEW w \in Worker, Commit(w) PROVE TypeOK'
    <2> DEFINE id == wk[w].id
               row == [job[id] EXCEPT !.status = Outcome(w), !.next = Completed(w), !.lease = 0,
                                      !.expired = FALSE, !.lastError = Message(w)]
    <2>1. id \in Id /\ Completed(w) \in Nat /\ Outcome(w) \in Status
      <3>1. id \in Id /\ wk[w].next \in Nat
        BY <1>13, Fields DEF Commit, Shape
      <3>2. Completed(w) \in {wk[w].next, wk[w].next + 1}
        BY DEF Completed
      <3>3. Completed(w) \in Nat
        BY <3>1, <3>2
      <3> QED BY <3>1, <3>3 DEF Outcome, Status
    <2>2. Message(w) \in {"", "unavailable", "changed", "exhausted"}
      BY DEF Message
    <2>3. job' = [job EXCEPT ![id] = row]
      BY <1>13, <1>t, <2>1 DEF Commit
    <2>4. row \in Row
      <3>1. job[id] \in Row
        BY <1>t, <2>1
      <3> QED BY <2>1, <2>2, <3>1, CommittedTyped, Zenon
    <2>5. [status |-> Outcome(w), steps |-> Completed(w)] \in Entry
      BY <2>1 DEF Entry
    <2>6. audit' \in [Id -> Seq(Entry)]
      BY <1>13, <1>t, <2>1, <2>5 DEF Commit
    <2>7. job' \in [Id -> Row] /\ wk' \in [Worker -> WorkerState]
      BY <1>13, <1>t, <2>1, <2>3, <2>4, DefaultsTyped DEF Commit
    <2>8. inv' \subseteq Nat /\ purged' \subseteq Nat
      BY <1>13, <2>1, Fields DEF Commit, TypeOK
    <2> QED BY <1>13, <2>6, <2>7, <2>8 DEF Commit, cluster, TypeOK
  <1>14. ASSUME NEW w \in Worker, LeaseLost(w) PROVE TypeOK'
    BY <1>14, DefaultsTyped DEF LeaseLost, cluster, db, TypeOK
  <1>15. ASSUME NEW w \in Worker, Crash(w) PROVE TypeOK'
    BY <1>15, DefaultsTyped DEF Crash, cluster, db, TypeOK
  <1>16. ASSUME NEW id \in Id, LeaseExpires(id) PROVE TypeOK'
    <2>1. [job[id] EXCEPT !.expired = TRUE] \in Row
      BY <1>t DEF Row
    <2>2. job' \in [Id -> Row]
      BY <1>16, <1>t, <2>1 DEF LeaseExpires
    <2>3. faults' \in Nat
      BY <1>16 DEF LeaseExpires, TypeOK
    <2> QED BY <1>16, <2>2, <2>3 DEF LeaseExpires, cluster, TypeOK
  <1>17. ASSUME NEW r \in net, Serve(r) PROVE TypeOK'
    <2> DEFINE s == StepFrom(r)
               o == [api[s.name] EXCEPT !.subjects = removeSubject(s.before), !.rv = rev + 1]
    <2>1. r.id \in Id /\ s \in Step /\ s.name \in Name /\ r.step \in Nat /\ rev + 1 \in Nat
      BY StepTyped, Fields DEF StepFrom
    <2>2. removeSubject(s.before) \in SUBSET Subject
      BY <2>1 DEF removeSubject, Step
    <2>3. \A x \in Object : \A S \in SUBSET Subject : \A v \in Nat : [x EXCEPT !.subjects = S, !.rv = v] \in Object
      BY DEF Object
    <2>4. o \in Object
      BY <1>t, <2>1, <2>2, <2>3
    <2>5. ASSUME Write(r)
          PROVE  /\ api' \in [Name -> Object] /\ clean' \in [Name -> Nat] /\ rev' \in Nat
                 /\ effects' \in [Id -> Seq(Nat)]
      <3>1. api' = [api EXCEPT ![s.name] = IF s.name \in Binding THEN o ELSE Absent]
        BY <2>5 DEF Write
      <3>2. (IF s.name \in Binding THEN o ELSE Absent) \in Object
        BY <2>4, DefaultsTyped
      <3>3. api' \in [Name -> Object]
        BY <1>t, <2>1, <3>1, <3>2
      <3>4. rev' \in Nat /\ clean' \in [Name -> Nat]
        BY <2>1, <2>5 DEF Write, TypeOK
      <3>5. effects' \in [Id -> Seq(Nat)]
        BY <2>1, <2>5 DEF Write, TypeOK
      <3> QED BY <3>3, <3>4, <3>5
    <2>6. /\ api' \in [Name -> Object] /\ clean' \in [Name -> Nat] /\ rev' \in Nat
          /\ effects' \in [Id -> Seq(Nat)]
      BY <1>17, <2>5 DEF Serve, cluster, TypeOK
    <2>7. Answer(r) \in {"ok", "drift", "transient"}
      BY DEF Answer
    <2>8. wk' \in [Worker -> WorkerState]
      BY <1>17, <1>t, <2>7, FinishTyped DEF Serve
    <2> QED BY <1>17, <2>6, <2>8 DEF Serve, db, TypeOK
  <1>18. ASSUME NEW n \in Name, NEW o \in Object, Put(n, o) PROVE TypeOK'
    BY <1>18 DEF Put, db, TypeOK
  <1>19. ASSUME NEW n \in Name, OtherClientCreates(n) PROVE TypeOK'
    <2>1. rev + 1 \in Nat /\ api[SA].uid \in Nat
      BY Fields, NameFacts
    <2>2. \E o \in Object : Put(n, o)
      BY <1>19, <2>1, ShapesTyped DEF OtherClientCreates
    <2> QED BY <1>18, <2>2
  <1>20. ASSUME NEW n \in Name, OtherClientEdits(n) PROVE TypeOK'
    <2>1. PICK S \in SUBSET Subject : Put(n, [api[n] EXCEPT !.subjects = S, !.rv = rev + 1])
      BY <1>20 DEF OtherClientEdits
    <2>2. rev + 1 \in Nat
      BY Fields
    <2>3. \A v \in Nat : [api[n] EXCEPT !.subjects = S, !.rv = v] \in Object
      BY <1>t DEF Object
    <2> QED BY <1>18, <2>1, <2>2, <2>3
  <1>21. ASSUME NEW n \in Name, OtherClientDeletes(n) PROVE TypeOK'
    BY <1>21, DefaultsTyped DEF OtherClientDeletes, db, TypeOK
  <1>22. ASSUME Syncing PROVE TypeOK'
    <2>1. inv' \subseteq Nat /\ listed' \subseteq Nat
      BY <1>22, Fields, NameFacts DEF Syncing, ListServiceAccounts, FullSync, TypeOK
    <2> QED BY <1>22, <2>1 DEF Syncing, ListServiceAccounts, FullSync, cluster, TypeOK
  <1>23. CASE UNCHANGED vars
    BY <1>23 DEF vars, TypeOK
  <1> QED
    BY <1>1, <1>2, <1>3, <1>4, <1>5, <1>6, <1>7, <1>8, <1>9, <1>10, <1>11, <1>12, <1>13, <1>14, <1>15,
       <1>16, <1>17, <1>19, <1>20, <1>21, <1>22, <1>23
    DEF Next, Previewing, Requests, Working, Progress, Surroundings
-----------------------------------------------------------------------------
(* The rest of the typing: rows, steps and requests that are referred to exist. *)

LEMMA InitShape == Init => Shape
  <1> SUFFICES ASSUME Init PROVE Shape
    OBVIOUS
  <1>1. \A id \in PreviewId : draft[id].stage = "none"
    BY DEF Init, NoDraft
  <1>2. \A w \in Worker : wk[w].pc = "idle"
    BY DEF Init, Idle
  <1>3. net = {}
    BY DEF Init
  <1> QED BY <1>1, <1>2, <1>3 DEF Shape

\* The steps that write rows.
LEMMA RowSteps ==
    ASSUME [Next]_vars
    PROVE  \/ UNCHANGED job
           \/ \E id \in PreviewId : SavePreview(id) \/ Queue(id)
           \/ \E u \in DeleteUid : QueueDeletion(u)
           \/ \E w \in Worker : Commit(w) \/ \E id \in Id : Claim(w, id)
           \/ \E id \in Id : LeaseExpires(id)
  <1>1. ASSUME NEW id \in PreviewId, PreviewList(id) \/ PreviewFail(id) \/ \E a \in {"revoke", "delete"} : PreviewRead(id, a)
        PROVE  UNCHANGED job
    BY <1>1 DEF PreviewList, PreviewFail, PreviewRead, db
  <1>2. ASSUME NEW w \in Worker,
               \/ CheckServiceAccount(w) \/ DeleteObject(w) \/ UpdateBinding(w) \/ CallFails(w)
               \/ WriteRefused(w) \/ TimeOut(w) \/ LeaseLost(w) \/ Crash(w)
        PROVE  UNCHANGED job
    BY <1>2 DEF CheckServiceAccount, DeleteObject, UpdateBinding, CallFails, WriteRefused, TimeOut, LeaseLost, Crash, db
  <1>3. ASSUME NEW r \in net, Serve(r) PROVE UNCHANGED job
    BY <1>3 DEF Serve, db
  <1>4. ASSUME NEW n \in Name, OtherClientCreates(n) \/ OtherClientEdits(n) \/ OtherClientDeletes(n)
        PROVE  UNCHANGED job
    BY <1>4 DEF OtherClientCreates, OtherClientEdits, OtherClientDeletes, Put, db
  <1>5. Syncing \/ UNCHANGED vars => UNCHANGED job
    BY DEF Syncing, ListServiceAccounts, FullSync, vars
  <1> QED
    BY <1>1, <1>2, <1>3, <1>4, <1>5 DEF Next, Previewing, Requests, Working, Progress, Surroundings

\* What a step may do to a row that exists, and to its worker.
LEMMA RowKept ==
    ASSUME TypeOK, Shape, [Next]_vars, NEW id \in Id, job[id].status # "none"
    PROVE  /\ job'[id].status # "none"
           /\ job'[id].plan = job[id].plan
           /\ job'[id].uid = job[id].uid
           /\ job'[id].action = job[id].action
  <1> DEFINE Kept == /\ job'[id].status # "none" /\ job'[id].plan = job[id].plan
                     /\ job'[id].uid = job[id].uid /\ job'[id].action = job[id].action
  <1>t. job \in [Id -> Row]
    BY DEF TypeOK
  <1>1. ASSUME NEW i \in PreviewId, SavePreview(i) PROVE Kept
    <2>1. i # id
      BY <1>1 DEF SavePreview, Shape
    <2> QED BY <1>1, <1>t, <2>1 DEF SavePreview
  <1>2. ASSUME NEW i \in PreviewId, Queue(i) PROVE Kept
    BY <1>2, <1>t DEF Queue, Row
  <1>3. ASSUME NEW u \in DeleteUid, QueueDeletion(u) PROVE Kept
    <2>1. DeleteId(u) # id
      BY <1>3 DEF QueueDeletion
    <2> QED BY <1>3, <1>t, <2>1 DEF QueueDeletion
  <1>4. ASSUME NEW w \in Worker, NEW i \in Id, Claim(w, i) PROVE Kept
    BY <1>4, <1>t, ZenonT(60) DEF Claim, Row
  <1>5. ASSUME NEW w \in Worker, Commit(w) PROVE Kept
    <2>1. Outcome(w) # "none" /\ wk[w].id \in Id
      BY <1>5 DEF Outcome, Commit, Shape
    <2>2. CASE wk[w].id = id
      <3>1. job'[id] = [job[id] EXCEPT !.status = Outcome(w), !.next = Completed(w), !.lease = 0,
                                       !.expired = FALSE, !.lastError = Message(w)]
        BY <1>5, <1>t, <2>2 DEF Commit
      <3>2. job[id] \in Row
        BY <1>t
      <3> QED BY <2>1, <3>1, <3>2 DEF Row
    <2>3. CASE wk[w].id # id
      BY <1>5, <1>t, <2>1, <2>3 DEF Commit
    <2> QED BY <2>2, <2>3
  <1>6. ASSUME NEW i \in Id, LeaseExpires(i) PROVE Kept
    BY <1>6, <1>t, ZenonT(60) DEF LeaseExpires, Row
  <1>7. ASSUME UNCHANGED job PROVE Kept
    BY <1>7
  <1> HIDE DEF Kept
  <1>8. Kept
    BY <1>1, <1>2, <1>3, <1>4, <1>5, <1>6, <1>7, RowSteps
  <1> QED BY <1>8 DEF Kept

\* The steps that change drafts.
LEMMA DraftSteps ==
    ASSUME [Next]_vars
    PROVE  \/ UNCHANGED draft
           \/ \E id \in PreviewId : \/ PreviewList(id) \/ PreviewFail(id) \/ SavePreview(id)
                                    \/ \E a \in {"revoke", "delete"} : PreviewRead(id, a)
  <1>1. ASSUME NEW id \in PreviewId, Queue(id) PROVE UNCHANGED draft
    BY <1>1 DEF Queue
  <1>2. ASSUME NEW u \in DeleteUid, QueueDeletion(u) PROVE UNCHANGED draft
    BY <1>2 DEF QueueDeletion
  <1>3. ASSUME NEW w \in Worker,
               \/ CheckServiceAccount(w) \/ DeleteObject(w) \/ UpdateBinding(w) \/ CallFails(w)
               \/ WriteRefused(w) \/ TimeOut(w) \/ LeaseLost(w) \/ Crash(w) \/ Commit(w)
               \/ \E id \in Id : Claim(w, id)
        PROVE  UNCHANGED draft
    BY <1>3 DEF CheckServiceAccount, DeleteObject, UpdateBinding, CallFails, WriteRefused, TimeOut,
                LeaseLost, Crash, Commit, Claim
  <1>4. ASSUME NEW r \in net, Serve(r) PROVE UNCHANGED draft
    BY <1>4 DEF Serve
  <1>5. ASSUME NEW n \in Name, OtherClientCreates(n) \/ OtherClientEdits(n) \/ OtherClientDeletes(n)
        PROVE  UNCHANGED draft
    BY <1>5 DEF OtherClientCreates, OtherClientEdits, OtherClientDeletes, Put
  <1>6. ASSUME NEW id \in Id, LeaseExpires(id) PROVE UNCHANGED draft
    BY <1>6 DEF LeaseExpires
  <1>7. Syncing \/ UNCHANGED vars => UNCHANGED draft
    BY DEF Syncing, ListServiceAccounts, FullSync, vars
  <1> QED
    BY <1>1, <1>2, <1>3, <1>4, <1>5, <1>6, <1>7 DEF Next, Previewing, Requests, Working, Progress, Surroundings

\* An ID without a row gets one from SavePreview or QueueDeletion only.
LEMMA NoRowKept ==
    ASSUME TypeOK, Shape, [Next]_vars, NEW id \in Id, job[id].status = "none"
    PROVE  \/ job'[id] = job[id]
           \/ id \in PreviewId /\ SavePreview(id)
           \/ \E u \in DeleteUid : id = DeleteId(u) /\ QueueDeletion(u)
  <1>t. job \in [Id -> Row]
    BY DEF TypeOK
  <1>1. ASSUME NEW i \in PreviewId, SavePreview(i), i # id PROVE job'[id] = job[id]
    BY <1>1, <1>t DEF SavePreview
  <1>2. ASSUME NEW i \in PreviewId, Queue(i) PROVE job'[id] = job[id]
    BY <1>2, <1>t DEF Queue
  <1>3. ASSUME NEW u \in DeleteUid, QueueDeletion(u), id # DeleteId(u) PROVE job'[id] = job[id]
    BY <1>3, <1>t DEF QueueDeletion
  <1>4. ASSUME NEW w \in Worker, NEW i \in Id, Claim(w, i) PROVE job'[id] = job[id]
    BY <1>4, <1>t DEF Claim, Claimable
  <1>5. ASSUME NEW w \in Worker, Commit(w) PROVE job'[id] = job[id]
    BY <1>5, <1>t DEF Commit, HoldsLease
  <1>6. ASSUME NEW i \in Id, LeaseExpires(i) PROVE job'[id] = job[id]
    BY <1>6, <1>t DEF LeaseExpires
  <1> QED BY <1>1, <1>2, <1>3, <1>4, <1>5, <1>6, RowSteps

\* A worker moves on within its claim: same operation, lease token and step.
MovesOn(w) ==
    /\ wk[w].pc \in {"check", "act", "wait"} /\ wk'[w].pc \in {"act", "wait", "commit"}
    /\ wk'[w].id = wk[w].id /\ wk'[w].token = wk[w].token /\ wk'[w].next = wk[w].next

LEMMA WorkerSteps ==
    ASSUME TypeOK, [Next]_vars, NEW w \in Worker
    PROVE  \/ wk'[w] = wk[w]
           \/ wk'[w] = Idle
           \/ \E id \in Id : Claim(w, id)
           \/ MovesOn(w)
  <1> DEFINE Stays == wk'[w] = wk[w] \/ wk'[w] = Idle \/ (\E id \in Id : Claim(w, id)) \/ MovesOn(w)
  <1>t. wk \in [Worker -> WorkerState]
    BY DEF TypeOK
  <1>f. ASSUME NEW v \in Worker, NEW res, wk[v].pc \in {"check", "act", "wait"}, Finish(v, res) PROVE Stays
    <2>1. CASE v = w
      BY <1>f, <1>t, <2>1 DEF Finish, MovesOn, WorkerState
    <2>2. CASE v # w
      BY <1>f, <1>t, <2>2 DEF Finish
    <2> QED BY <2>1, <2>2
  <1>s. ASSUME NEW v \in Worker, wk[v].pc = "act", wk' = [wk EXCEPT ![v].pc = "wait"] PROVE Stays
    <2>1. CASE v = w
      BY <1>s, <1>t, <2>1 DEF MovesOn, WorkerState
    <2>2. CASE v # w
      BY <1>s, <1>t, <2>2
    <2> QED BY <2>1, <2>2
  <1>1. ASSUME NEW v \in Worker, CheckServiceAccount(v) PROVE Stays
    <2>1. CASE wk' = [wk EXCEPT ![v].pc = "act"] /\ v = w
      BY <1>1, <1>t, <2>1 DEF CheckServiceAccount, MovesOn, WorkerState
    <2>2. CASE wk' = [wk EXCEPT ![v].pc = "act"] /\ v # w
      BY <1>t, <2>2
    <2> QED BY <1>1, <1>f, <2>1, <2>2 DEF CheckServiceAccount
  <1>2. ASSUME NEW v \in Worker, DeleteObject(v) PROVE Stays
    BY <1>2, <1>s DEF DeleteObject, Send
  <1>3. ASSUME NEW v \in Worker, UpdateBinding(v) PROVE Stays
    BY <1>3, <1>s, <1>f DEF UpdateBinding, Send
  <1>4. ASSUME NEW v \in Worker, CallFails(v) \/ WriteRefused(v) \/ TimeOut(v) PROVE Stays
    BY <1>4, <1>f DEF CallFails, WriteRefused, TimeOut
  <1>5. ASSUME NEW v \in Worker, Commit(v) \/ LeaseLost(v) \/ Crash(v) PROVE Stays
    BY <1>5, <1>t DEF Commit, LeaseLost, Crash
  <1>6. ASSUME NEW v \in Worker, NEW id \in Id, Claim(v, id) PROVE Stays
    BY <1>6, <1>t DEF Claim
  <1>7. ASSUME NEW r \in net, Serve(r) PROVE Stays
    BY <1>7, <1>f DEF Serve
  <1>8. ASSUME UNCHANGED wk PROVE Stays
    BY <1>8
  <1> HIDE DEF Stays
  <1>9. ASSUME NEW id \in PreviewId,
               \/ PreviewList(id) \/ PreviewFail(id) \/ SavePreview(id) \/ Queue(id)
               \/ \E a \in {"revoke", "delete"} : PreviewRead(id, a)
        PROVE  Stays
    BY <1>8, <1>9 DEF PreviewList, PreviewFail, PreviewRead, SavePreview, Queue
  <1>10. ASSUME NEW u \in DeleteUid, QueueDeletion(u) PROVE Stays
    BY <1>8, <1>10 DEF QueueDeletion
  <1>11. ASSUME NEW n \in Name, OtherClientCreates(n) \/ OtherClientEdits(n) \/ OtherClientDeletes(n)
        PROVE  Stays
    BY <1>8, <1>11 DEF OtherClientCreates, OtherClientEdits, OtherClientDeletes, Put
  <1>12. ASSUME NEW id \in Id, LeaseExpires(id) PROVE Stays
    BY <1>8, <1>12 DEF LeaseExpires
  <1>13. Syncing \/ UNCHANGED vars => Stays
    BY <1>8 DEF Syncing, ListServiceAccounts, FullSync, vars
  <1>14. Stays
    BY <1>1, <1>2, <1>3, <1>4, <1>5, <1>6, <1>7, <1>9, <1>10, <1>11, <1>12, <1>13
    DEF Next, Previewing, Requests, Working, Progress, Surroundings
  <1> QED BY <1>14 DEF Stays

\* A new request is for the step its sender is at, with that step's preconditions.
SentBy(r, w) ==
    /\ wk[w].pc = "act" /\ UNCHANGED job
    /\ r.id = wk[w].id /\ r.token = wk[w].token /\ r.step = wk[w].next + 1
    /\ r.uid = StepOf(w).uid
    /\ StepOf(w).name # SA => r.rv = StepOf(w).rv

LEMMA RequestSteps ==
    ASSUME [Next]_vars, NEW r \in net'
    PROVE  r \in net \/ \E w \in Worker : SentBy(r, w)
  <1> DEFINE Known == r \in net \/ \E w \in Worker : SentBy(r, w)
  <1>1. ASSUME net' \subseteq net PROVE Known
    BY <1>1
  <1>2. ASSUME NEW w \in Worker, DeleteObject(w) PROVE Known
    <2>1. PICK rv : /\ StepOf(w).name # SA => rv = StepOf(w).rv
                    /\ Send(w, StepOf(w).uid, rv)
      BY <1>2 DEF DeleteObject
    <2>2. r \in net \/ r = [id |-> wk[w].id, token |-> wk[w].token, step |-> wk[w].next + 1,
                            uid |-> StepOf(w).uid, rv |-> rv]
      BY <2>1 DEF Send
    <2>3. wk[w].pc = "act" /\ UNCHANGED job
      BY <1>2 DEF DeleteObject, db
    <2> QED BY <2>1, <2>2, <2>3 DEF SentBy
  <1>3. ASSUME NEW w \in Worker, UpdateBinding(w) PROVE Known
    <2> DEFINE b == api[StepOf(w).name]
    <2>1. wk[w].pc = "act" /\ UNCHANGED job
      BY <1>3 DEF UpdateBinding, db
    <2>2. CASE Verdict(b, StepOf(w)) = "update"
      <3>1. b.uid = StepOf(w).uid /\ b.rv = StepOf(w).rv
        BY <2>2 DEF Verdict
      <3>2. Send(w, b.uid, b.rv)
        BY <1>3, <2>2 DEF UpdateBinding
      <3>3. r \in net \/ r = [id |-> wk[w].id, token |-> wk[w].token, step |-> wk[w].next + 1,
                              uid |-> b.uid, rv |-> b.rv]
        BY <3>2 DEF Send
      <3> QED BY <2>1, <3>1, <3>3 DEF SentBy
    <2>3. CASE Verdict(b, StepOf(w)) # "update"
      BY <1>1, <1>3, <2>3 DEF UpdateBinding
    <2> QED BY <2>2, <2>3
  <1> HIDE DEF Known
  <1>4. ASSUME NEW id \in PreviewId,
               \/ PreviewList(id) \/ PreviewFail(id) \/ SavePreview(id) \/ Queue(id)
               \/ \E a \in {"revoke", "delete"} : PreviewRead(id, a)
        PROVE  Known
    BY <1>1, <1>4 DEF PreviewList, PreviewFail, PreviewRead, SavePreview, Queue
  <1>5. ASSUME NEW u \in DeleteUid, QueueDeletion(u) PROVE Known
    BY <1>1, <1>5 DEF QueueDeletion
  <1>6. ASSUME NEW w \in Worker,
               \/ CheckServiceAccount(w) \/ CallFails(w) \/ WriteRefused(w) \/ TimeOut(w)
               \/ LeaseLost(w) \/ Crash(w) \/ Commit(w) \/ \E id \in Id : Claim(w, id)
        PROVE  Known
    BY <1>1, <1>6 DEF CheckServiceAccount, CallFails, WriteRefused, TimeOut, LeaseLost, Crash, Commit, Claim
  <1>7. ASSUME NEW n \in Name, OtherClientCreates(n) \/ OtherClientEdits(n) \/ OtherClientDeletes(n)
        PROVE  Known
    BY <1>1, <1>7 DEF OtherClientCreates, OtherClientEdits, OtherClientDeletes, Put
  <1>8. ASSUME NEW id \in Id, LeaseExpires(id) PROVE Known
    BY <1>1, <1>8 DEF LeaseExpires
  <1>9. ASSUME NEW q \in net, Serve(q) PROVE Known
    BY <1>1, <1>9 DEF Serve
  <1>10. Syncing \/ UNCHANGED vars => Known
    BY <1>1 DEF Syncing, ListServiceAccounts, FullSync, vars
  <1>11. Known
    BY <1>2, <1>3, <1>4, <1>5, <1>6, <1>7, <1>8, <1>9, <1>10
    DEF Next, Previewing, Requests, Working, Progress, Surroundings
  <1> QED BY <1>11 DEF Known

LEMMA NextShape == TypeOK /\ Shape /\ [Next]_vars => Shape'
  <1> SUFFICES ASSUME TypeOK, Shape, [Next]_vars PROVE Shape'
    OBVIOUS
  <1>t. TypeOK'
    BY NextTypeOK
  <1> DEFINE DraftShape(id) == draft[id].stage # "none" => job[id].status = "none"
             WorkerShape(w) == wk[w].pc # "idle" =>
                                 /\ wk[w].id \in Id
                                 /\ job[wk[w].id].status # "none"
                                 /\ wk[w].pc # "commit" => wk[w].next < Len(Plan(w))
             RequestShape(r) == /\ job[r.id].status # "none"
                                /\ r.step \in 1..Len(job[r.id].plan)
  <1>1. ASSUME NEW id \in PreviewId PROVE DraftShape(id)'
    <2>1. DraftShape(id) /\ id \in Id
      BY NameFacts DEF Shape
    <2>2. ASSUME NEW i \in PreviewId, \E a \in {"revoke", "delete"} : PreviewRead(i, a) PROVE DraftShape(id)'
      BY <2>1, <2>2 DEF PreviewRead, TypeOK, db
    <2>3. ASSUME NEW i \in PreviewId, PreviewList(i) PROVE DraftShape(id)'
      BY <2>1, <2>3 DEF PreviewList, TypeOK, db
    <2>4. ASSUME NEW i \in PreviewId, SavePreview(i) PROVE DraftShape(id)'
      BY <2>1, <2>4, NameFacts DEF SavePreview, TypeOK, NoDraft
    <2>5. ASSUME NEW i \in PreviewId, PreviewFail(i) PROVE DraftShape(id)'
      BY <2>1, <2>5 DEF PreviewFail, TypeOK, NoDraft, db
    <2>6. ASSUME UNCHANGED draft, job'[id].status = "none" <=> job[id].status = "none" PROVE DraftShape(id)'
      BY <2>1, <2>6
    <2>7. ASSUME UNCHANGED draft, ~SavePreview(id) PROVE DraftShape(id)'
      <3>1. CASE job[id].status = "none"
        <4>1. \A u \in DeleteUid : id # DeleteId(u)
          BY IdAssumption
        <4>2. job'[id] = job[id]
          BY <2>1, <2>7, <3>1, <4>1, NoRowKept
        <4> QED BY <2>6, <2>7, <4>2
      <3>2. CASE job[id].status # "none"
        BY <2>1, <2>7, <3>2
      <3> QED BY <3>1, <3>2
    <2> QED BY <2>2, <2>3, <2>4, <2>5, <2>7, DraftSteps
  <1>2. ASSUME NEW w \in Worker PROVE WorkerShape(w)'
    <2>1. WorkerShape(w)
      BY DEF Shape
    <2>2. CASE wk'[w] = wk[w] \/ MovesOn(w)
      <3> SUFFICES ASSUME wk'[w].pc # "idle" PROVE WorkerShape(w)'
        OBVIOUS
      <3>1. wk[w].pc # "idle" /\ wk'[w].id = wk[w].id /\ wk'[w].next = wk[w].next
        BY <2>2 DEF MovesOn
      <3>2. wk'[w].pc # "commit" => wk[w].pc # "commit"
        BY <2>2 DEF MovesOn
      <3>3. wk[w].id \in Id /\ job[wk[w].id].status # "none"
        BY <2>1, <3>1
      <3>4. job'[wk[w].id].status # "none" /\ job'[wk[w].id].plan = job[wk[w].id].plan
        BY <3>3, RowKept
      <3> QED BY <2>1, <3>1, <3>2, <3>3, <3>4 DEF Plan
    <2>3. CASE wk'[w] = Idle
      <3>1. wk'[w].pc = "idle"
        BY <2>3, DefaultFields
      <3> QED BY <3>1
    <2>4. ASSUME NEW id \in Id, Claim(w, id) PROVE WorkerShape(w)'
      <3>1. wk'[w].id = id /\ wk'[w].next = job[id].next
        BY <2>4 DEF Claim, TypeOK
      <3>2. job[id].status # "none"
        BY <2>4 DEF Claim, Claimable
      <3>3. job'[id].status # "none" /\ job'[id].plan = job[id].plan
        BY <3>2, RowKept
      <3>4. job[id].next \in Nat /\ Len(job[id].plan) \in Nat
        BY Fields
      <3>5. wk'[w].pc # "commit" => ~(job[id].next >= Len(job[id].plan))
        BY <2>4 DEF Claim, TypeOK
      <3>6. wk'[w].pc # "commit" => job[id].next < Len(job[id].plan)
        BY <3>4, <3>5
      <3> QED BY <3>1, <3>3, <3>6 DEF Plan
    <2> QED BY <2>2, <2>3, <2>4, WorkerSteps
  <1>3. ASSUME NEW r \in net' PROVE RequestShape(r)'
    <2>1. CASE r \in net
      <3>1. RequestShape(r) /\ r.id \in Id
        BY <2>1, Fields DEF Shape
      <3>2. job'[r.id].status # "none" /\ job'[r.id].plan = job[r.id].plan
        BY <3>1, RowKept
      <3> QED BY <3>1, <3>2
    <2>2. ASSUME NEW w \in Worker, SentBy(r, w) PROVE RequestShape(r)'
      <3>1. wk[w].id \in Id /\ job[wk[w].id].status # "none" /\ wk[w].next < Len(Plan(w))
        BY <2>2 DEF SentBy, Shape
      <3>2. wk[w].next \in Nat /\ Len(Plan(w)) \in Nat
        BY <3>1, Fields DEF Plan
      <3>3. wk[w].next + 1 \in 1..Len(Plan(w))
        BY <3>1, <3>2
      <3> QED BY <2>2, <3>1, <3>3 DEF SentBy, Plan
    <2> QED BY <2>1, <2>2, RequestSteps
  <1> QED BY <1>1, <1>2, <1>3 DEF Shape

\* Type correctness: rows keep well-formed plans and statuses, workers and
\* requests refer to rows and plan steps that exist.
THEOREM TypeCorrect == Spec => [](TypeOK /\ Shape)
  <1>1. Init => TypeOK /\ Shape
    BY InitTypeOK, InitShape
  <1>2. TypeOK /\ Shape /\ [Next]_vars => (TypeOK /\ Shape)'
    BY NextTypeOK, NextShape
  <1> QED BY <1>1, <1>2, PTL DEF Spec

-----------------------------------------------------------------------------
(* How objects evolve: a UID or a resource version never comes back. *)

Same(n) == api'[n] = api[n] /\ clean'[n] = clean[n]
Gone(n) == api'[n].uid = 0 /\ api'[n].rv = 0 /\ clean'[n] = 0
Created(n) ==
    /\ rev' = rev + 1
    /\ api'[n].uid = rev + 1 /\ api'[n].rv = rev + 1
    /\ clean'[n] = IF n \in Binding /\ Target \notin api'[n].subjects THEN rev + 1 ELSE 0
Edited(n) ==
    /\ rev' = rev + 1
    /\ api[n].uid # 0 /\ api'[n].uid = api[n].uid /\ api'[n].role = api[n].role
    /\ api'[n].rv = rev + 1
    /\ clean'[n] = IF n \in Binding /\ Target \notin api'[n].subjects THEN rev + 1 ELSE clean[n]

LEMMA ObjectSteps ==
    ASSUME TypeOK, Shape, [Next]_vars, NEW n \in Name
    PROVE  /\ rev' \in {rev, rev + 1}
           /\ Same(n) \/ Gone(n) \/ Created(n) \/ Edited(n)
  <1> DEFINE Evolves == rev' \in {rev, rev + 1} /\ (Same(n) \/ Gone(n) \/ Created(n) \/ Edited(n))
  <1>t. api \in [Name -> Object] /\ clean \in [Name -> Nat] /\ rev \in Nat
    BY DEF TypeOK
  <1>1. ASSUME UNCHANGED cluster PROVE Evolves
    BY <1>1 DEF cluster, Same
  <1>2. ASSUME NEW m \in Name, OtherClientDeletes(m) PROVE Evolves
    <2>1. CASE m = n
      BY <1>2, <1>t, <2>1 DEF OtherClientDeletes, Gone, Absent
    <2>2. CASE m # n
      BY <1>2, <1>t, <2>2 DEF OtherClientDeletes, Same
    <2> QED BY <1>2, <2>1, <2>2 DEF OtherClientDeletes
  <1>3. ASSUME NEW m \in Name, OtherClientCreates(m) PROVE Evolves
    <2>1. PICK o \in Shapes(m, rev + 1, api[SA].uid) : Put(m, o)
      BY <1>3 DEF OtherClientCreates
    <2>2. rev + 1 \in Nat /\ api[SA].uid \in Nat
      BY Fields, NameFacts
    <2>3. o.uid = rev + 1 /\ o.rv = rev + 1
      BY <2>2, ShapesTyped
    <2>4. CASE m = n
      <3>1. api'[n] = o /\ rev' = rev + 1
        BY <1>t, <2>1, <2>4 DEF Put
      <3>2. clean'[n] = IF n \in Binding /\ Target \notin o.subjects THEN rev + 1 ELSE 0
        BY <1>3, <1>t, <2>1, <2>4 DEF Put, OtherClientCreates
      <3> QED BY <2>3, <3>1, <3>2 DEF Created
    <2>5. CASE m # n
      BY <1>t, <2>1, <2>5 DEF Put, Same
    <2> QED BY <2>4, <2>5
  <1>4. ASSUME NEW m \in Name, OtherClientEdits(m) PROVE Evolves
    <2>1. PICK S \in SUBSET Subject : Put(m, [api[m] EXCEPT !.subjects = S, !.rv = rev + 1])
      BY <1>4 DEF OtherClientEdits
    <2>2. CASE m = n
      <3> DEFINE o == [api[n] EXCEPT !.subjects = S, !.rv = rev + 1]
      <3>1. o.uid = api[n].uid /\ o.role = api[n].role /\ o.subjects = S /\ o.rv = rev + 1
        BY <1>t DEF Object
      <3>2. api'[n] = o /\ rev' = rev + 1
        BY <1>t, <2>1, <2>2 DEF Put
      <3>3. Exists(n)
        BY <1>4, <2>2 DEF OtherClientEdits
      <3>4. clean'[n] = IF n \in Binding /\ Target \notin o.subjects THEN rev + 1 ELSE clean[n]
        BY <1>t, <2>1, <2>2, <3>3 DEF Put
      <3> HIDE DEF o
      <3> QED BY <3>1, <3>2, <3>3, <3>4 DEF Edited, Exists
    <2>3. CASE m # n
      BY <1>t, <2>1, <2>3 DEF Put, Same
    <2> QED BY <2>2, <2>3
  <1>5. ASSUME NEW r \in net, Hit(r), Write(r) PROVE Evolves
    <2> DEFINE s == StepFrom(r)
               o == [api[s.name] EXCEPT !.subjects = removeSubject(s.before), !.rv = rev + 1]
    <2>1. s \in Step /\ s.name \in Name
      BY StepTyped, Fields DEF StepFrom
    <2>2. CASE s.name # n
      BY <1>5, <1>t, <2>1, <2>2 DEF Write, Same
    <2>3. CASE s.name = n /\ n \in Binding
      <3>1. o.uid = api[n].uid /\ o.role = api[n].role /\ o.rv = rev + 1
            /\ o.subjects = removeSubject(s.before)
        BY <1>t, <2>3 DEF Object
      <3>2. api'[n] = o /\ rev' = rev + 1 /\ clean'[n] = rev + 1
        BY <1>5, <1>t, <2>1, <2>3 DEF Write
      <3>3. api[n].uid # 0
        BY <1>5, <2>3 DEF Hit
      <3>4. Target \notin o.subjects
        BY <3>1 DEF removeSubject
      <3> HIDE DEF o
      <3> QED BY <2>3, <3>1, <3>2, <3>3, <3>4 DEF Edited
    <2>4. CASE s.name = n /\ n \notin Binding
      <3>1. api'[n] = Absent /\ rev' = rev + 1 /\ clean'[n] = 0
        BY <1>5, <1>t, <2>1, <2>4 DEF Write
      <3> QED BY <3>1, DefaultFields DEF Gone
    <2>5. rev' = rev + 1
      BY <1>5 DEF Write
    <2> QED BY <2>2, <2>3, <2>4, <2>5
  <1> HIDE DEF Evolves
  <1>6. ASSUME NEW r \in net, Serve(r) PROVE Evolves
    BY <1>1, <1>5, <1>6 DEF Serve
  <1>7. ASSUME NEW id \in PreviewId,
               \/ PreviewList(id) \/ PreviewFail(id) \/ SavePreview(id) \/ Queue(id)
               \/ \E a \in {"revoke", "delete"} : PreviewRead(id, a)
        PROVE  Evolves
    BY <1>1, <1>7 DEF PreviewList, PreviewFail, PreviewRead, SavePreview, Queue
  <1>8. ASSUME NEW u \in DeleteUid, QueueDeletion(u) PROVE Evolves
    BY <1>1, <1>8 DEF QueueDeletion
  <1>9. ASSUME NEW w \in Worker,
               \/ CheckServiceAccount(w) \/ DeleteObject(w) \/ UpdateBinding(w) \/ CallFails(w)
               \/ WriteRefused(w) \/ TimeOut(w) \/ LeaseLost(w) \/ Crash(w) \/ Commit(w)
               \/ \E id \in Id : Claim(w, id)
        PROVE  Evolves
    BY <1>1, <1>9 DEF CheckServiceAccount, DeleteObject, UpdateBinding, CallFails, WriteRefused, TimeOut,
                      LeaseLost, Crash, Commit, Claim
  <1>10. ASSUME NEW id \in Id, LeaseExpires(id) PROVE Evolves
    BY <1>1, <1>10 DEF LeaseExpires
  <1>11. Syncing \/ UNCHANGED vars => Evolves
    BY <1>1 DEF Syncing, ListServiceAccounts, FullSync, vars, cluster
  <1>12. Evolves
    BY <1>2, <1>3, <1>4, <1>6, <1>7, <1>8, <1>9, <1>10, <1>11
    DEF Next, Previewing, Requests, Working, Progress, Surroundings
  <1> QED BY <1>12 DEF Evolves

\* Rows of the inventory are added by a full sync only.
LEMMA InventorySteps == ASSUME [Next]_vars PROVE (inv' \subseteq inv /\ listed' = listed) \/ Syncing
  <1> DEFINE Kept == inv' \subseteq inv /\ listed' = listed
  <1>1. ASSUME NEW id \in PreviewId,
               \/ PreviewList(id) \/ PreviewFail(id) \/ SavePreview(id) \/ Queue(id)
               \/ \E a \in {"revoke", "delete"} : PreviewRead(id, a)
        PROVE  Kept
    BY <1>1 DEF PreviewList, PreviewFail, PreviewRead, SavePreview, Queue, db
  <1>2. ASSUME NEW u \in DeleteUid, QueueDeletion(u) PROVE Kept
    BY <1>2 DEF QueueDeletion
  <1>3. ASSUME NEW w \in Worker,
               \/ CheckServiceAccount(w) \/ DeleteObject(w) \/ UpdateBinding(w) \/ CallFails(w)
               \/ WriteRefused(w) \/ TimeOut(w) \/ LeaseLost(w) \/ Crash(w)
               \/ \E id \in Id : Claim(w, id)
        PROVE  Kept
    BY <1>3 DEF CheckServiceAccount, DeleteObject, UpdateBinding, CallFails, WriteRefused, TimeOut,
                LeaseLost, Crash, Claim, db
  <1>4. ASSUME NEW w \in Worker, Commit(w) PROVE Kept
    BY <1>4 DEF Commit
  <1>5. ASSUME NEW r \in net, Serve(r) PROVE Kept
    BY <1>5 DEF Serve, db
  <1>6. ASSUME NEW n \in Name, OtherClientCreates(n) \/ OtherClientEdits(n) \/ OtherClientDeletes(n)
        PROVE  Kept
    BY <1>6 DEF OtherClientCreates, OtherClientEdits, OtherClientDeletes, Put, db
  <1>7. ASSUME NEW id \in Id, LeaseExpires(id) PROVE Kept
    BY <1>7 DEF LeaseExpires
  <1>8. UNCHANGED vars => Kept
    BY DEF vars
  <1> QED
    BY <1>1, <1>2, <1>3, <1>4, <1>5, <1>6, <1>7, <1>8 DEF Next, Previewing, Requests, Working, Progress, Surroundings

LEMMA NextClusterInv == TypeOK /\ Shape /\ ClusterInv /\ [Next]_vars => ClusterInv'
  <1> SUFFICES ASSUME TypeOK, Shape, ClusterInv, [Next]_vars PROVE ClusterInv'
    OBVIOUS
  <1>1. ASSUME NEW n \in Name
        PROVE  /\ api'[n].uid <= rev' /\ api'[n].rv <= rev'
               /\ clean'[n] <= rev'
               /\ api'[n].uid # 0 => api'[n].rv # 0
               /\ n \in Binding /\ api'[n].uid # 0 =>
                    /\ clean'[n] <= api'[n].rv
                    /\ Target \notin api'[n].subjects => clean'[n] = api'[n].rv
    <2>1. /\ api[n].uid \in Nat /\ api[n].rv \in Nat /\ clean[n] \in Nat /\ rev \in Nat
          /\ api[n].uid <= rev /\ api[n].rv <= rev /\ clean[n] <= rev
          /\ api[n].uid # 0 => api[n].rv # 0
          /\ n \in Binding /\ api[n].uid # 0 =>
               /\ clean[n] <= api[n].rv
               /\ Target \notin api[n].subjects => clean[n] = api[n].rv
      BY Fields DEF ClusterInv
    <2>2. rev' \in {rev, rev + 1} /\ (Same(n) \/ Gone(n) \/ Created(n) \/ Edited(n))
      BY ObjectSteps
    <2>3. CASE Same(n)
      BY <2>1, <2>2, <2>3 DEF Same
    <2>4. CASE Gone(n)
      BY <2>1, <2>2, <2>4 DEF Gone
    <2>5. CASE Created(n)
      BY <2>1, <2>5 DEF Created
    <2>6. CASE Edited(n)
      BY <2>1, <2>6 DEF Edited
    <2> QED BY <2>2, <2>3, <2>4, <2>5, <2>6
  <1>2. rev \in Nat /\ rev' \in {rev, rev + 1} /\ inv \subseteq 1..rev /\ listed \subseteq 1..rev
    BY Fields, ObjectSteps, NameFacts DEF ClusterInv
  <1>3. ASSUME inv' \subseteq inv, listed' = listed PROVE inv' \subseteq 1..rev' /\ listed' \subseteq 1..rev'
    BY <1>2, <1>3
  <1>4. ASSUME Syncing PROVE inv' \subseteq 1..rev' /\ listed' \subseteq 1..rev'
    <2>1. api[SA].uid \in Nat /\ api[SA].uid <= rev
      BY Fields, NameFacts DEF ClusterInv
    <2>2. rev' = rev
      BY <1>4 DEF Syncing, ListServiceAccounts, FullSync, cluster
    <2>3. (IF Exists(SA) THEN {api[SA].uid} ELSE {}) \subseteq 1..rev
      <3>1. CASE Exists(SA)
        BY <1>2, <2>1, <3>1 DEF Exists
      <3>2. CASE ~Exists(SA)
        BY <3>2
      <3> QED BY <3>1, <3>2
    <2>4. CASE ListServiceAccounts
      BY <1>2, <2>2, <2>3, <2>4, Zenon DEF ListServiceAccounts
    <2>5. CASE FullSync
      BY <1>2, <2>2, <2>5, Zenon DEF FullSync
    <2> QED BY <1>4, <2>4, <2>5 DEF Syncing
  <1>5. (inv' \subseteq inv /\ listed' = listed) \/ Syncing
    BY InventorySteps
  <1> QED BY <1>1, <1>3, <1>4, <1>5 DEF ClusterInv

\* A previewed step stays behind the cluster, and stays carried out once it was.
LEMMA StepKept ==
    ASSUME TypeOK, Shape, ClusterInv, [Next]_vars, NEW s \in Step, Behind(s)
    PROVE  Behind(s)' /\ (Realised(s) => Realised(s)')
  <1> DEFINE n == s.name
  <1>1. /\ n \in Name /\ s.uid \in Nat /\ s.rv \in Nat
        /\ api[n].uid \in Nat /\ api[n].rv \in Nat /\ clean[n] \in Nat /\ rev \in Nat
    BY Fields
  <1>2. /\ api[n].uid <= rev /\ api[n].rv <= rev /\ clean[n] <= rev
    BY <1>1 DEF ClusterInv
  <1>3. rev' \in {rev, rev + 1} /\ (Same(n) \/ Gone(n) \/ Created(n) \/ Edited(n))
    BY <1>1, ObjectSteps
  <1>4. CASE Same(n)
    BY <1>1, <1>2, <1>3, <1>4 DEF Same, Behind, Realised
  <1>5. CASE Gone(n)
    BY <1>1, <1>2, <1>3, <1>5 DEF Gone, Behind, Realised
  <1>6. CASE Created(n)
    BY <1>1, <1>2, <1>3, <1>6 DEF Created, Behind, Realised
  <1>7. CASE Edited(n)
    BY <1>1, <1>2, <1>3, <1>7 DEF Edited, Behind, Realised
  <1> QED BY <1>3, <1>4, <1>5, <1>6, <1>7

-----------------------------------------------------------------------------
(* Plans stay behind the cluster. *)

LEMMA SAStepBehind ==
    ASSUME TypeOK, NEW u \in 1..rev
    PROVE  SAStep(u) \in Step /\ Behind(SAStep(u))
  <1>1. /\ SAStep(u).name = SA /\ SAStep(u).uid = u /\ SAStep(u).rv = 0
    BY DEF SAStep
  <1>2. rev \in Nat /\ api[SA].rv \in Nat /\ SA \notin Binding
    BY Fields, NameFacts
  <1>3. SAStep(u) \in Step
    BY <1>2, NameFacts DEF SAStep, Step
  <1> QED BY <1>1, <1>2, <1>3 DEF Behind

LEMMA ListedBehind ==
    ASSUME TypeOK, ClusterInv, NEW stage, NEW u, NEW n \in Matching(Listed(stage), u)
    PROVE  StepFor(n) \in Step /\ Behind(StepFor(n))
  <1>1. n \in Name /\ n # SA
    BY ListedFacts DEF Matching
  <1>2. /\ StepFor(n).name = n /\ StepFor(n).uid = api[n].uid /\ StepFor(n).rv = api[n].rv
        /\ StepFor(n).before = api[n].subjects /\ StepFor(n).role = api[n].role
    BY DEF StepFor
  <1>3. StepFor(n) \in Step
    BY <1>1 DEF TypeOK, StepFor, Step, Object
  <1>4. api[n].uid \in Nat /\ api[n].rv \in Nat /\ rev \in Nat
    BY <1>1, Fields
  <1>5. api[n].uid # 0 /\ api[n].uid <= rev /\ api[n].rv <= rev /\ api[n].rv # 0
    BY <1>1 DEF Matching, Exists, ClusterInv
  <1>6. n \in Binding => Target \in api[n].subjects
    BY NameAssumption DEF Matching, removeSubject
  <1> QED BY <1>1, <1>2, <1>3, <1>4, <1>5, <1>6 DEF Behind

LEMMA NextPlanInv == TypeOK /\ Shape /\ ClusterInv /\ PlanInv /\ [Next]_vars => PlanInv'
  <1> SUFFICES ASSUME TypeOK, Shape, ClusterInv, PlanInv, [Next]_vars PROVE PlanInv'
    OBVIOUS
  <1>k. ASSUME NEW s \in Step, Behind(s) PROVE Behind(s)'
    BY <1>k, StepKept
  <1>1. ASSUME NEW id \in PreviewId, NEW i \in DOMAIN draft[id].plan
        PROVE  draft[id].plan[i] \in Step /\ Behind(draft[id].plan[i])
    BY Fields DEF PlanInv
  <1>2. ASSUME NEW id \in Id, NEW i \in DOMAIN job[id].plan
        PROVE  job[id].plan[i] \in Step /\ Behind(job[id].plan[i])
    BY Fields DEF PlanInv
  <1>3. ASSUME NEW id \in Id, NEW i \in DOMAIN job'[id].plan
        PROVE  \E s \in Step : s = job'[id].plan[i] /\ Behind(s)
    <2>1. CASE job'[id].plan = job[id].plan
      BY <1>2, <1>3, <2>1
    <2>2. CASE id \in PreviewId /\ SavePreview(id)
      <3>1. job'[id].plan = draft[id].plan
        BY <2>2, NameFacts, DefaultsTyped DEF SavePreview, TypeOK, Row
      <3> QED BY <1>1, <1>3, <2>2, <3>1
    <2>3. ASSUME NEW u \in DeleteUid, id = DeleteId(u), QueueDeletion(u)
          PROVE  \E s \in Step : s = job'[id].plan[i] /\ Behind(s)
      <3>1. job'[id].plan = <<SAStep(u)>>
        BY <2>3, NameFacts, DefaultsTyped DEF QueueDeletion, TypeOK, Row
      <3>2. u \in 1..rev
        BY <2>3 DEF QueueDeletion, ClusterInv
      <3>3. i = 1
        BY <1>3, <3>1
      <3> QED BY <3>1, <3>2, <3>3, SAStepBehind
    <2> QED BY <2>1, <2>2, <2>3, RowKept, NoRowKept
  <1>4. ASSUME NEW id \in PreviewId, NEW i \in DOMAIN draft'[id].plan
        PROVE  \E s \in Step : s = draft'[id].plan[i] /\ Behind(s)
    <2> DEFINE Found == \E s \in Step : s = draft'[id].plan[i] /\ Behind(s)
    <2>t. draft \in [PreviewId -> Draft]
      BY DEF TypeOK
    <2>1. ASSUME draft'[id].plan = draft[id].plan PROVE Found
      BY <1>1, <1>4, <2>1
    <2>2. ASSUME draft'[id] = NoDraft PROVE Found
      <3>1. draft'[id].plan = <<>>
        BY <2>2, DefaultFields
      <3> QED BY <1>4, <3>1
    <2>3. ASSUME NEW d \in PreviewId, PreviewFail(d) \/ SavePreview(d) PROVE Found
      BY <2>1, <2>2, <2>3, <2>t DEF PreviewFail, SavePreview
    <2>4. ASSUME NEW a \in {"revoke", "delete"}, PreviewRead(id, a) PROVE Found
      <3>1. draft'[id].plan = IF a = "delete" THEN <<SAStep(api[SA].uid)>> ELSE <<>>
        BY <2>4, <2>t DEF PreviewRead
      <3>2. draft'[id].plan = <<SAStep(api[SA].uid)>> /\ i = 1
        BY <1>4, <3>1
      <3>3. api[SA].uid \in 1..rev
        BY <2>4 DEF PreviewRead, ClusterInv
      <3> QED BY <3>2, <3>3, SAStepBehind
    <2>5. ASSUME PreviewList(id) PROVE Found
      <3>1. PICK q \in Listings(Listed(draft[id].stage), draft[id].uid) :
              draft' = [draft EXCEPT ![id].stage = Following(draft[id].stage), ![id].plan = @ \o q]
        BY <2>5 DEF PreviewList
      <3>2. q \in Seq(Step) /\ \A k \in DOMAIN q : \E n \in Matching(Listed(draft[id].stage), draft[id].uid) : q[k] = StepFor(n)
        BY ListingFacts
      <3>3. draft'[id].plan = draft[id].plan \o q
        BY <3>1, <2>t DEF Draft
      <3>4. draft[id].plan \in Seq(Step)
        BY Fields
      <3>5. CASE i \in DOMAIN draft[id].plan
        <4>1. draft'[id].plan[i] = draft[id].plan[i]
          BY <3>2, <3>3, <3>4, <3>5
        <4> QED BY <1>1, <3>5, <4>1
      <3>6. CASE i \notin DOMAIN draft[id].plan
        <4>1. PICK k \in DOMAIN q : draft'[id].plan[i] = q[k]
          <5>1. i - Len(draft[id].plan) \in DOMAIN q /\ draft'[id].plan[i] = q[i - Len(draft[id].plan)]
            BY <1>4, <3>2, <3>3, <3>4, <3>6
          <5> QED BY <5>1
        <4> QED BY <3>2, <4>1, ListedBehind
      <3> QED BY <3>5, <3>6
    <2>6. ASSUME NEW d \in PreviewId, d # id, PreviewList(d) \/ \E a \in {"revoke", "delete"} : PreviewRead(d, a)
          PROVE  Found
      <3>1. draft'[id] = draft[id]
        BY <2>6, <2>t DEF PreviewList, PreviewRead
      <3> QED BY <2>1, <3>1
    <2> HIDE DEF Found
    <2>7. Found
      BY <2>1, <2>3, <2>4, <2>5, <2>6, DraftSteps
    <2> QED BY <2>7 DEF Found
  <1>5. ASSUME NEW id \in Id, NEW i \in DOMAIN job'[id].plan PROVE Behind(job[id].plan[i])'
    <2>1. PICK s \in Step : s = job'[id].plan[i] /\ Behind(s)
      BY <1>3
    <2>2. Behind(s)'
      BY <1>k, <2>1
    <2> QED BY <2>1, <2>2 DEF Behind
  <1>6. ASSUME NEW id \in PreviewId, NEW i \in DOMAIN draft'[id].plan PROVE Behind(draft[id].plan[i])'
    <2>1. PICK s \in Step : s = draft'[id].plan[i] /\ Behind(s)
      BY <1>4
    <2>2. Behind(s)'
      BY <1>k, <2>1
    <2> QED BY <2>1, <2>2 DEF Behind
  <1> QED BY <1>5, <1>6 DEF PlanInv

-----------------------------------------------------------------------------
(* Rows: what a step does to progress, attempts and lease of an existing row. *)

Steady(id) == /\ job'[id].next = job[id].next /\ job'[id].attempts = job[id].attempts
              /\ job'[id].lease = job[id].lease
Claimed(id) == /\ job'[id].next = job[id].next /\ job'[id].attempts = job[id].attempts + 1
               /\ job'[id].lease = job[id].attempts + 1
Committed(id, w) ==
    /\ Commit(w) /\ wk[w].id = id
    /\ job'[id].next = Completed(w) /\ job'[id].attempts = job[id].attempts /\ job'[id].lease = 0

LEMMA RowFields ==
    ASSUME TypeOK, Shape, [Next]_vars, NEW id \in Id, job[id].status # "none"
    PROVE  \/ Steady(id)
           \/ Claimed(id) /\ \E w \in Worker : Claim(w, id)
           \/ \E w \in Worker : Committed(id, w)
  <1> DEFINE Moved == Steady(id) \/ (Claimed(id) /\ \E w \in Worker : Claim(w, id)) \/ \E w \in Worker : Committed(id, w)
  <1>t. job \in [Id -> Row] /\ job[id] \in Row
    BY DEF TypeOK
  <1>1. ASSUME job'[id] = job[id] PROVE Moved
    BY <1>1 DEF Steady
  <1>2. ASSUME NEW i \in PreviewId, SavePreview(i) PROVE Moved
    <2>1. i # id
      BY <1>2 DEF SavePreview, Shape
    <2> QED BY <1>1, <1>2, <1>t, <2>1 DEF SavePreview
  <1>3. ASSUME NEW i \in PreviewId, Queue(i) PROVE Moved
    BY <1>3, <1>t DEF Queue, Row, Steady
  <1>4. ASSUME NEW u \in DeleteUid, QueueDeletion(u) PROVE Moved
    <2>1. DeleteId(u) # id
      BY <1>4 DEF QueueDeletion
    <2> QED BY <1>1, <1>4, <1>t, <2>1 DEF QueueDeletion
  <1>5. ASSUME NEW w \in Worker, NEW i \in Id, Claim(w, i) PROVE Moved
    <2>1. CASE i = id
      <3>1. job'[id] = [job[id] EXCEPT !.status = "running", !.lease = job[id].attempts + 1,
                                       !.expired = FALSE, !.attempts = job[id].attempts + 1]
        BY <1>5, <1>t, <2>1 DEF Claim
      <3>2. Claimed(id)
        BY <1>t, <3>1 DEF Claimed, Row
      <3> QED BY <1>5, <2>1, <3>2
    <2>2. CASE i # id
      BY <1>1, <1>5, <1>t, <2>2 DEF Claim
    <2> QED BY <2>1, <2>2
  <1>6. ASSUME NEW w \in Worker, Commit(w) PROVE Moved
    <2>1. wk[w].id \in Id
      BY <1>6 DEF Commit, Shape
    <2>2. CASE wk[w].id = id
      <3>1. job'[id] = [job[id] EXCEPT !.status = Outcome(w), !.next = Completed(w), !.lease = 0,
                                       !.expired = FALSE, !.lastError = Message(w)]
        BY <1>6, <1>t, <2>2 DEF Commit
      <3>2. job'[id].next = Completed(w) /\ job'[id].attempts = job[id].attempts /\ job'[id].lease = 0
        BY <1>t, <3>1 DEF Row
      <3> QED BY <1>6, <2>2, <3>2 DEF Committed
    <2>3. CASE wk[w].id # id
      BY <1>1, <1>6, <1>t, <2>1, <2>3 DEF Commit
    <2> QED BY <2>2, <2>3
  <1>7. ASSUME NEW i \in Id, LeaseExpires(i) PROVE Moved
    BY <1>7, <1>t DEF LeaseExpires, Row, Steady
  <1>8. UNCHANGED job => Moved
    BY <1>1
  <1> HIDE DEF Moved
  <1>9. Moved
    BY <1>2, <1>3, <1>4, <1>5, <1>6, <1>7, <1>8, RowSteps
  <1> QED BY <1>9 DEF Moved

\* The steps that touch the history of effects: a request that hits its object.
LEMMA EffectSteps ==
    ASSUME TypeOK, Shape, [Next]_vars
    PROVE  \/ UNCHANGED effects
           \/ \E r \in net : Hit(r) /\ Write(r)
  <1>1. ASSUME NEW id \in PreviewId,
               \/ PreviewList(id) \/ PreviewFail(id) \/ SavePreview(id) \/ Queue(id)
               \/ \E a \in {"revoke", "delete"} : PreviewRead(id, a)
        PROVE  UNCHANGED effects
    BY <1>1 DEF PreviewList, PreviewFail, PreviewRead, SavePreview, Queue, cluster
  <1>2. ASSUME NEW u \in DeleteUid, QueueDeletion(u) PROVE UNCHANGED effects
    BY <1>2 DEF QueueDeletion, cluster
  <1>3. ASSUME NEW w \in Worker,
               \/ CheckServiceAccount(w) \/ DeleteObject(w) \/ UpdateBinding(w) \/ CallFails(w)
               \/ WriteRefused(w) \/ TimeOut(w) \/ LeaseLost(w) \/ Crash(w) \/ Commit(w)
               \/ \E id \in Id : Claim(w, id)
        PROVE  UNCHANGED effects
    BY <1>3 DEF CheckServiceAccount, DeleteObject, UpdateBinding, CallFails, WriteRefused, TimeOut,
                LeaseLost, Crash, Commit, Claim, cluster
  <1>4. ASSUME NEW r \in net, Serve(r) PROVE UNCHANGED effects \/ (Hit(r) /\ Write(r))
    BY <1>4 DEF Serve, cluster
  <1>5. ASSUME NEW n \in Name, OtherClientCreates(n) \/ OtherClientEdits(n) \/ OtherClientDeletes(n)
        PROVE  UNCHANGED effects
    BY <1>5 DEF OtherClientCreates, OtherClientEdits, OtherClientDeletes, Put
  <1>6. ASSUME NEW id \in Id, LeaseExpires(id) PROVE UNCHANGED effects
    BY <1>6 DEF LeaseExpires, cluster
  <1>7. Syncing \/ UNCHANGED vars => UNCHANGED effects
    BY DEF Syncing, ListServiceAccounts, FullSync, vars, cluster
  <1> QED
    BY <1>1, <1>2, <1>3, <1>4, <1>5, <1>6, <1>7 DEF Next, Previewing, Requests, Working, Progress, Surroundings

\* Progress is monotone; it advances by the step its committing worker carried out.
LEMMA ProgressSteps ==
    ASSUME TypeOK, Shape, WorkerInv, [Next]_vars, NEW id \in Id, job[id].status # "none",
           job[id].next <= Len(job[id].plan)
    PROVE  /\ job'[id].next \in {job[id].next, job[id].next + 1}
           /\ job'[id].next # job[id].next =>
                /\ job[id].next < Len(job[id].plan)
                /\ Realised(job[id].plan[job[id].next + 1])
                /\ UNCHANGED cluster
  <1>1. job[id].next \in Nat /\ Len(job[id].plan) \in Nat
    BY Fields
  <1>2. ASSUME NEW w \in Worker, Committed(id, w)
        PROVE  /\ Completed(w) \in {job[id].next, job[id].next + 1}
               /\ Completed(w) # job[id].next =>
                    job[id].next < Len(job[id].plan) /\ Realised(job[id].plan[job[id].next + 1])
    <2>1. wk[w].pc = "commit" /\ wk[w].id = id /\ job[id].lease = wk[w].token
      BY <1>2 DEF Committed, Commit, HoldsLease
    <2>2. wk[w].next = job[id].next
      BY <2>1 DEF WorkerInv
    <2>3. CASE wk[w].res = "ok" /\ wk[w].next < Len(Plan(w))
      <3>1. Realised(StepOf(w))
        BY <2>1, <2>3 DEF WorkerInv
      <3>2. StepOf(w) = job[id].plan[job[id].next + 1] /\ Plan(w) = job[id].plan
        BY <2>1, <2>2 DEF StepOf, Plan
      <3>3. Completed(w) = job[id].next + 1
        BY <2>2, <2>3 DEF Completed
      <3> QED BY <2>2, <2>3, <3>1, <3>2, <3>3
    <2>4. CASE ~(wk[w].res = "ok" /\ wk[w].next < Len(Plan(w)))
      BY <2>2, <2>4 DEF Completed
    <2> QED BY <2>3, <2>4
  <1>3. ASSUME NEW w \in Worker, Committed(id, w) PROVE job'[id].next = Completed(w) /\ UNCHANGED cluster
    BY <1>3 DEF Committed, Commit
  <1>4. ASSUME Steady(id) \/ Claimed(id) PROVE job'[id].next = job[id].next
    BY <1>4 DEF Steady, Claimed
  <1> QED BY <1>2, <1>3, <1>4, RowFields

LEMMA NextRowInv == TypeOK /\ Shape /\ RowInv /\ WorkerInv /\ [Next]_vars => RowInv'
  <1> SUFFICES ASSUME TypeOK, Shape, RowInv, WorkerInv, [Next]_vars PROVE RowInv'
    OBVIOUS
  <1> DEFINE Good(id) == /\ job'[id].status = "none" => job'[id] = NoRow /\ effects'[id] = <<>>
                         /\ job'[id].next <= Len(job'[id].plan)
                         /\ job'[id].action = "delete" => job'[id].plan = <<SAStep(job'[id].uid)>>
                         /\ job'[id].lease <= job'[id].attempts
  <1>t. job \in [Id -> Row] /\ draft \in [PreviewId -> Draft] /\ effects \in [Id -> Seq(Nat)]
    BY DEF TypeOK
  <1>1. ASSUME NEW id \in Id, job[id].status # "none" PROVE Good(id)
    <2>1. /\ job'[id].status # "none" /\ job'[id].plan = job[id].plan
          /\ job'[id].uid = job[id].uid /\ job'[id].action = job[id].action
      BY <1>1, RowKept
    <2>2. /\ job[id].next <= Len(job[id].plan)
          /\ job[id].action = "delete" => job[id].plan = <<SAStep(job[id].uid)>>
          /\ job[id].lease <= job[id].attempts
      BY DEF RowInv
    <2>3. job[id].next \in Nat /\ Len(job[id].plan) \in Nat /\ job[id].attempts \in Nat /\ job[id].lease \in Nat
      BY Fields
    <2>4. job'[id].next <= Len(job[id].plan)
      BY <1>1, <2>2, <2>3, ProgressSteps
    <2>5. job'[id].lease <= job'[id].attempts
      BY <1>1, <2>2, <2>3, RowFields DEF Steady, Claimed, Committed
    <2> QED BY <2>1, <2>2, <2>4, <2>5
  <1>2. ASSUME NEW id \in Id, job[id].status = "none" PROVE Good(id)
    <2>1. job[id] = NoRow /\ effects[id] = <<>>
      BY <1>2 DEF RowInv
    <2>2. effects'[id] = <<>>
      <3>1. ASSUME NEW r \in net, Write(r) PROVE effects'[id] = effects[id]
        <4>1. r.id # id /\ r.id \in Id
          BY <1>2, Fields DEF Shape
        <4> QED BY <1>t, <3>1, <4>1 DEF Write
      <3> QED BY <2>1, <3>1, EffectSteps
    <2>3. CASE job'[id] = job[id]
      <3>1. /\ NoRow.next = 0 /\ Len(NoRow.plan) = 0 /\ NoRow.action = ""
            /\ NoRow.lease = 0 /\ NoRow.attempts = 0
        BY DEF NoRow
      <3>2. job'[id] = NoRow
        BY <2>1, <2>3
      <3>3. /\ job'[id].next = 0 /\ Len(job'[id].plan) = 0 /\ job'[id].action = ""
            /\ job'[id].lease = 0 /\ job'[id].attempts = 0
        BY <3>1, <3>2, Zenon
      <3>4. 0 <= 0 /\ "" # "delete"
        OBVIOUS
      <3>5. /\ job'[id].next <= Len(job'[id].plan) /\ job'[id].lease <= job'[id].attempts
            /\ job'[id].action # "delete"
        BY <3>3, <3>4, Zenon
      <3> QED BY <2>2, <3>2, <3>5, Zenon
    <2>4. CASE id \in PreviewId /\ SavePreview(id)
      <3>1. job'[id] = [NoRow EXCEPT !.status = "preview", !.action = draft[id].action,
                                     !.uid = draft[id].uid, !.plan = draft[id].plan]
        BY <1>t, <2>4 DEF SavePreview
      <3>2. /\ job'[id].status = "preview" /\ job'[id].next = 0 /\ job'[id].plan = draft[id].plan
            /\ job'[id].action = draft[id].action /\ job'[id].uid = draft[id].uid
            /\ job'[id].lease = 0 /\ job'[id].attempts = 0
        BY <3>1 DEF NoRow
      <3>3. Len(draft[id].plan) \in Nat
        BY <2>4, Fields
      <3>4. draft[id].action = "delete" => draft[id].plan = <<SAStep(draft[id].uid)>>
        BY <2>4 DEF RowInv
      <3> QED BY <3>2, <3>3, <3>4
    <2>5. ASSUME NEW u \in DeleteUid, id = DeleteId(u), QueueDeletion(u) PROVE Good(id)
      <3>1. job'[id] = [NoRow EXCEPT !.status = "queued", !.action = "delete", !.uid = u, !.plan = <<SAStep(u)>>]
        BY <1>t, <2>5 DEF QueueDeletion
      <3>2. /\ job'[id].status = "queued" /\ job'[id].next = 0 /\ job'[id].plan = <<SAStep(u)>>
            /\ job'[id].uid = u /\ job'[id].lease = 0 /\ job'[id].attempts = 0
        BY <3>1 DEF NoRow
      <3> QED BY <3>2
    <2> HIDE DEF Good
    <2> QED BY <1>2, <2>3, <2>4, <2>5, NoRowKept
  <1>3. ASSUME NEW id \in PreviewId
        PROVE  draft'[id].action = "delete" =>
                 draft'[id].stage = "save" /\ draft'[id].plan = <<SAStep(draft'[id].uid)>>
    <2> DEFINE Kept == draft'[id].action = "delete" =>
                         draft'[id].stage = "save" /\ draft'[id].plan = <<SAStep(draft'[id].uid)>>
    <2>1. ASSUME draft'[id] = draft[id] PROVE Kept
      BY <2>1 DEF RowInv
    <2>2. ASSUME draft'[id] = NoDraft PROVE Kept
      BY <2>2, DefaultFields
    <2>3. ASSUME NEW d \in PreviewId, PreviewFail(d) \/ SavePreview(d) PROVE Kept
      BY <2>1, <2>2, <2>3, <1>t DEF PreviewFail, SavePreview
    <2>4. ASSUME NEW a \in {"revoke", "delete"}, PreviewRead(id, a) PROVE Kept
      BY <2>4, <1>t DEF PreviewRead
    <2>5. ASSUME PreviewList(id) PROVE Kept
      <3>1. draft'[id].action = draft[id].action
        BY <2>5, <1>t DEF PreviewList, Draft
      <3>2. draft[id].stage # "save"
        BY <2>5 DEF PreviewList
      <3> QED BY <3>1, <3>2 DEF RowInv
    <2>6. ASSUME NEW d \in PreviewId, d # id, PreviewList(d) \/ \E a \in {"revoke", "delete"} : PreviewRead(d, a)
          PROVE  Kept
      BY <2>1, <2>6, <1>t DEF PreviewList, PreviewRead
    <2> HIDE DEF Kept
    <2>7. Kept
      BY <2>1, <2>3, <2>4, <2>5, <2>6, DraftSteps
    <2> QED BY <2>7 DEF Kept
  <1> QED BY <1>1, <1>2, <1>3 DEF RowInv

-----------------------------------------------------------------------------
(* Writes *)

\* A request hits its object only before its step was carried out, and carries it out.
LEMMA HitFacts ==
    ASSUME TypeOK, Shape, ClusterInv, PlanInv, NetInv, NEW r \in net, Hit(r),
           NEW s \in Step, s = StepFrom(r)
    PROVE  /\ ~Realised(s)
           /\ Write(r) => Realised(s)'
  <1> DEFINE n == s.name
  <1>1. /\ s \in Step /\ n \in Name /\ s.uid \in Nat /\ s.rv \in Nat
        /\ api[n].uid \in Nat /\ api[n].rv \in Nat /\ clean[n] \in Nat /\ rev \in Nat
    BY StepTyped, Fields DEF StepFrom
  <1>2. Behind(s)
    <2>1. r.id \in Id /\ r.step \in DOMAIN job[r.id].plan
      BY Fields DEF Shape
    <2> QED BY <2>1 DEF PlanInv, StepFrom
  <1>3. r.uid = s.uid /\ (n # SA => r.rv = s.rv)
    BY DEF NetInv, StepFrom
  <1>4. api[n].uid = s.uid /\ s.uid # 0
    BY <1>1, <1>2, <1>3 DEF Hit, Behind
  <1>5. n \in Binding => n # SA /\ s.rv # 0 /\ api[n].rv = s.rv
    BY <1>1, <1>2, <1>3, NameFacts DEF Hit, Behind
  <1>6. n \in Binding => clean[n] <= s.rv
    BY <1>1, <1>4, <1>5 DEF ClusterInv
  <1>7. ~Realised(s)
    BY <1>1, <1>4, <1>6 DEF Realised
  <1>8. ASSUME Write(r) PROVE Realised(s)'
    <2>1. CASE n \in Binding
      <3>1. clean'[n] = rev + 1
        BY <1>1, <1>8, <2>1 DEF Write, TypeOK
      <3>2. s.rv <= rev
        BY <1>2 DEF Behind
      <3>3. clean'[n] > s.rv
        BY <1>1, <3>1, <3>2
      <3> QED BY <2>1, <3>3 DEF Realised
    <2>2. CASE n \notin Binding
      <3>1. api'[n].uid = 0
        BY <1>1, <1>8, <2>2, DefaultFields DEF Write, TypeOK
      <3> QED BY <1>4, <3>1 DEF Realised
    <2> QED BY <2>1, <2>2
  <1> QED BY <1>7, <1>8

\* How a claim ends well: the binding needs no change, or a request was answered.
LEMMA OkSteps ==
    ASSUME TypeOK, [Next]_vars, NEW w \in Worker,
           wk[w].pc \in {"check", "act", "wait"}, wk'[w].pc = "commit", wk'[w].res = "ok"
    PROVE  \/ /\ wk[w].pc = "act" /\ UNCHANGED cluster
              /\ StepOf(w).name \in Binding /\ Verdict(api[StepOf(w).name], StepOf(w)) = "ok"
           \/ \E r \in net : wk[w].id = r.id /\ wk[w].token = r.token /\ Answer(r) = "ok" /\ Serve(r)
  <1> DEFINE Read == /\ wk[w].pc = "act" /\ UNCHANGED cluster
                     /\ StepOf(w).name \in Binding /\ Verdict(api[StepOf(w).name], StepOf(w)) = "ok"
             Answered == \E r \in net : wk[w].id = r.id /\ wk[w].token = r.token /\ Answer(r) = "ok" /\ Serve(r)
  <1>t. wk \in [Worker -> WorkerState]
    BY DEF TypeOK
  <1>0. wk'[w].pc # wk[w].pc
    OBVIOUS
  <1>f. ASSUME NEW v \in Worker, NEW res, Finish(v, res) PROVE v = w /\ res = "ok"
    <2>1. CASE v = w
      BY <1>f, <1>t, <2>1 DEF Finish, WorkerState
    <2>2. CASE v # w
      BY <1>f, <1>t, <1>0, <2>2 DEF Finish
    <2> QED BY <2>1, <2>2
  <1>1. ASSUME NEW v \in Worker, CheckServiceAccount(v) PROVE FALSE
    <2>1. CASE wk' = [wk EXCEPT ![v].pc = "act"]
      BY <1>t, <1>0, <2>1 DEF WorkerState
    <2> QED BY <1>1, <1>f, <2>1 DEF CheckServiceAccount
  <1>2. ASSUME NEW v \in Worker, NEW uid, NEW rv, Send(v, uid, rv) PROVE FALSE
    BY <1>2, <1>t, <1>0 DEF Send, WorkerState
  <1>3. ASSUME NEW v \in Worker, DeleteObject(v) PROVE FALSE
    BY <1>2, <1>3 DEF DeleteObject
  <1>4. ASSUME NEW v \in Worker, UpdateBinding(v) PROVE Read
    <2>1. Finish(v, Verdict(api[StepOf(v).name], StepOf(v)))
      BY <1>2, <1>4 DEF UpdateBinding
    <2>2. v = w /\ Verdict(api[StepOf(v).name], StepOf(v)) = "ok"
      BY <1>f, <2>1
    <2> QED BY <1>4, <2>2 DEF UpdateBinding
  <1>5. ASSUME NEW v \in Worker, CallFails(v) \/ WriteRefused(v) \/ TimeOut(v) PROVE FALSE
    BY <1>5, <1>f DEF CallFails, WriteRefused, TimeOut
  <1>6. ASSUME NEW v \in Worker, Commit(v) \/ LeaseLost(v) \/ Crash(v) PROVE FALSE
    <2>1. wk' = [wk EXCEPT ![v] = Idle]
      BY <1>6 DEF Commit, LeaseLost, Crash
    <2> QED BY <1>t, <1>0, <2>1, DefaultFields
  <1>7. ASSUME NEW v \in Worker, NEW id \in Id, Claim(v, id) PROVE FALSE
    BY <1>7, <1>t, <1>0 DEF Claim
  <1>8. ASSUME NEW r \in net, Serve(r) PROVE Answered
    <2>1. CASE UNCHANGED wk
      BY <1>0, <2>1
    <2>2. ASSUME NEW v \in Worker, wk[v].id = r.id, wk[v].token = r.token, Finish(v, Answer(r)) PROVE Answered
      BY <1>8, <1>f, <2>2
    <2> QED BY <1>8, <2>1, <2>2 DEF Serve
  <1> HIDE DEF Read, Answered
  <1>9. ASSUME NEW id \in PreviewId,
               \/ PreviewList(id) \/ PreviewFail(id) \/ SavePreview(id) \/ Queue(id)
               \/ \E a \in {"revoke", "delete"} : PreviewRead(id, a)
        PROVE  FALSE
    BY <1>0, <1>9 DEF PreviewList, PreviewFail, PreviewRead, SavePreview, Queue
  <1>10. ASSUME NEW u \in DeleteUid, QueueDeletion(u) PROVE FALSE
    BY <1>0, <1>10 DEF QueueDeletion
  <1>11. ASSUME NEW n \in Name, OtherClientCreates(n) \/ OtherClientEdits(n) \/ OtherClientDeletes(n)
        PROVE  FALSE
    BY <1>0, <1>11 DEF OtherClientCreates, OtherClientEdits, OtherClientDeletes, Put
  <1>12. ASSUME NEW id \in Id, LeaseExpires(id) PROVE FALSE
    BY <1>0, <1>12 DEF LeaseExpires
  <1>13. Syncing \/ UNCHANGED vars => FALSE
    BY <1>0 DEF Syncing, ListServiceAccounts, FullSync, vars
  <1>14. Read \/ Answered
    BY <1>1, <1>3, <1>4, <1>5, <1>6, <1>7, <1>8, <1>9, <1>10, <1>11, <1>12, <1>13
    DEF Next, Previewing, Requests, Working, Progress, Surroundings
  <1> QED BY <1>14 DEF Read, Answered

\* A claim that ends well has carried its step out.
LEMMA OkRealised ==
    ASSUME TypeOK, Shape, ClusterInv, PlanInv, LeaseInv, NetInv, [Next]_vars, NEW w \in Worker,
           wk[w].pc \in {"check", "act", "wait"}, wk'[w].pc = "commit", wk'[w].res = "ok",
           NEW s \in Step, s = StepOf(w)
    PROVE  Realised(s)'
  <1> DEFINE n == s.name
  <1>1. /\ n \in Name /\ s.uid \in Nat /\ s.rv \in Nat
        /\ api[n].uid \in Nat /\ api[n].rv \in Nat /\ clean[n] \in Nat /\ rev \in Nat
    BY Fields
  <1>2. Behind(s)
    BY StepTyped DEF PlanInv, StepOf, Plan
  <1>3. s.uid # 0
    BY <1>1, <1>2 DEF Behind
  <1>4. CASE UNCHANGED cluster /\ n \in Binding /\ Verdict(api[n], s) = "ok"
    <2>1. api[n].uid = 0 \/ (api[n].uid = s.uid /\ api[n].subjects = removeSubject(s.before))
      BY <1>4 DEF Verdict
    <2>2. CASE api[n].uid = 0
      BY <1>3, <1>4, <2>2 DEF Realised, cluster
    <2>3. CASE api[n].uid = s.uid /\ api[n].subjects = removeSubject(s.before)
      <3>1. Target \notin api[n].subjects /\ Target \in s.before
        BY <1>2, <1>4, <2>3 DEF removeSubject, Behind
      <3>2. clean[n] = api[n].rv
        BY <1>1, <1>3, <1>4, <2>3, <3>1 DEF ClusterInv
      <3>3. s.rv <= api[n].rv /\ s.rv # api[n].rv
        BY <1>2, <1>4, <2>3, <3>1 DEF Behind
      <3>4. clean[n] > s.rv
        BY <1>1, <3>2, <3>3
      <3> QED BY <1>4, <3>4 DEF Realised, cluster
    <2> QED BY <2>1, <2>2, <2>3
  <1>5. ASSUME NEW r \in net, wk[w].id = r.id, wk[w].token = r.token, Answer(r) = "ok", Serve(r)
        PROVE  Realised(s)'
    <2>1. s = StepFrom(r)
      BY <1>5 DEF LeaseInv, StepOf, StepFrom, Plan
    <2>2. CASE api[n].uid = 0
      <3>1. ~Hit(r)
        BY <2>1, <2>2 DEF Hit
      <3>2. UNCHANGED api
        BY <1>5, <3>1 DEF Serve, cluster
      <3> QED BY <1>3, <2>2, <3>2 DEF Realised
    <2>3. CASE api[n].uid # 0
      <3>1. Hit(r)
        BY <1>5, <2>1, <2>3 DEF Answer
      <3>2. Write(r)
        BY <1>5, <3>1 DEF Serve
      <3> QED BY <2>1, <3>1, <3>2, HitFacts
    <2> QED BY <2>2, <2>3
  <1> QED BY <1>4, <1>5, OkSteps

-----------------------------------------------------------------------------
(* Workers and requests *)

LEMMA NextWorkerInv ==
    TypeOK /\ Shape /\ ClusterInv /\ PlanInv /\ RowInv /\ WorkerInv /\ LeaseInv /\ NetInv /\ [Next]_vars => WorkerInv'
  <1> SUFFICES ASSUME TypeOK, Shape, ClusterInv, PlanInv, RowInv, WorkerInv, LeaseInv, NetInv, [Next]_vars,
                      NEW w \in Worker, wk'[w].pc # "idle"
               PROVE  /\ wk'[w].token \in 1..job'[wk'[w].id].attempts
                      /\ wk'[w].next <= job'[wk'[w].id].next
                      /\ wk'[w].pc = "commit" /\ wk'[w].res = "ok" /\ wk'[w].next < Len(Plan(w))' => Realised(StepOf(w))'
                      /\ job'[wk'[w].id].lease = wk'[w].token => wk'[w].next = job'[wk'[w].id].next
    BY DEF WorkerInv
  <1>t. wk \in [Worker -> WorkerState] /\ job \in [Id -> Row]
    BY DEF TypeOK
  <1>1. ASSUME NEW id \in Id, Claim(w, id)
        PROVE  /\ wk'[w].token \in 1..job'[wk'[w].id].attempts
               /\ wk'[w].next <= job'[wk'[w].id].next
               /\ wk'[w].pc = "commit" => ~(wk'[w].next < Len(Plan(w))')
               /\ wk'[w].next = job'[wk'[w].id].next
    <2>1. /\ wk'[w].id = id /\ wk'[w].next = job[id].next /\ wk'[w].token = job[id].attempts + 1
          /\ wk'[w].pc = "commit" => job[id].next >= Len(job[id].plan)
      BY <1>1, <1>t DEF Claim
    <2>2. job[id].status # "none"
      BY <1>1 DEF Claim, Claimable
    <2>3. job'[id].plan = job[id].plan
      BY <2>2, RowKept
    <2>4. job'[id] = [job[id] EXCEPT !.status = "running", !.lease = job[id].attempts + 1,
                                     !.expired = FALSE, !.attempts = job[id].attempts + 1]
      BY <1>1, <1>t DEF Claim
    <2>5. job'[id].next = job[id].next /\ job'[id].attempts = job[id].attempts + 1
      <3>1. job[id] \in Row
        BY <1>t
      <3> QED BY <2>4, <3>1 DEF Row
    <2>6. job[id].attempts \in Nat /\ job[id].next \in Nat /\ Len(job[id].plan) \in Nat
      BY Fields
    <2>7. Plan(w)' = job[id].plan
      BY <2>1, <2>3 DEF Plan
    <2> QED BY <2>1, <2>5, <2>6, <2>7
  <1>2. ASSUME wk'[w] = wk[w] \/ MovesOn(w)
        PROVE  /\ wk'[w].token \in 1..job'[wk'[w].id].attempts
               /\ wk'[w].next <= job'[wk'[w].id].next
               /\ wk'[w].pc = "commit" /\ wk'[w].res = "ok" /\ wk'[w].next < Len(Plan(w))' => Realised(StepOf(w))'
               /\ job'[wk'[w].id].lease = wk'[w].token => wk'[w].next = job'[wk'[w].id].next
    <2> DEFINE id == wk[w].id
    <2>1. wk[w].pc # "idle" /\ wk'[w].id = id /\ wk'[w].token = wk[w].token /\ wk'[w].next = wk[w].next
      BY <1>2 DEF MovesOn
    <2>2. id \in Id /\ job[id].status # "none"
      BY <2>1 DEF Shape
    <2>3. /\ wk[w].token \in 1..job[id].attempts /\ wk[w].next <= job[id].next
          /\ job[id].lease = wk[w].token => wk[w].next = job[id].next
      BY <2>1 DEF WorkerInv
    <2>4. /\ wk[w].token \in Nat /\ wk[w].next \in Nat /\ job[id].next \in Nat /\ job[id].attempts \in Nat
          /\ job[id].lease \in Nat /\ job[id].plan \in Seq(Step)
      BY <2>2, Fields
    <2>5. job'[id].next \in {job[id].next, job[id].next + 1} /\ job'[id].plan = job[id].plan
      BY <2>2, ProgressSteps, RowKept DEF RowInv
    <2>6. \/ Steady(id) \/ Claimed(id) \/ \E v \in Worker : Committed(id, v)
      BY <2>2, RowFields
    <2>7. job'[id].attempts >= job[id].attempts /\ job'[id].attempts \in Nat
      BY <2>4, <2>6 DEF Steady, Claimed, Committed
    <2>8. job'[id].lease = wk[w].token => job[id].lease = wk[w].token /\ job'[id].next = job[id].next
      BY <2>3, <2>4, <2>6 DEF Steady, Claimed, Committed
    <2>9. ASSUME wk'[w].pc = "commit", wk'[w].res = "ok", wk[w].next < Len(job[id].plan)
          PROVE  Realised(StepOf(w))'
      <3>1. PICK s \in Step : s = job[id].plan[wk[w].next + 1]
        BY <2>4, <2>9
      <3>2. s = StepOf(w) /\ s = StepOf(w)'
        BY <2>1, <2>5, <3>1 DEF StepOf, Plan
      <3>3. Behind(s)
        <4>1. wk[w].next + 1 \in DOMAIN job[id].plan
          BY <2>4, <2>9
        <4> QED BY <2>2, <3>1, <4>1 DEF PlanInv
      <3>4. CASE wk'[w] = wk[w]
        <4>1. Realised(s)
          BY <2>1, <2>9, <3>2, <3>4 DEF WorkerInv, Plan
        <4>2. Realised(s)'
          BY <3>3, <4>1, StepKept
        <4> QED BY <3>2, <4>2 DEF Realised
      <3>5. CASE MovesOn(w)
        <4>1. Realised(s)'
          BY <2>9, <3>2, <3>5, OkRealised DEF MovesOn
        <4> QED BY <3>2, <4>1 DEF Realised
      <3> QED BY <1>2, <3>4, <3>5
    <2>10. Plan(w)' = job[id].plan
      BY <2>1, <2>5 DEF Plan
    <2>11. wk[w].token \in 1..job'[id].attempts /\ wk[w].next <= job'[id].next
      BY <2>3, <2>4, <2>5, <2>7
    <2> HIDE DEF id
    <2> QED BY <2>1, <2>3, <2>8, <2>9, <2>10, <2>11
  <1>3. wk'[w] # Idle
    BY DefaultFields
  <1> QED BY <1>1, <1>2, <1>3, WorkerSteps

\* A claim's token is fresh; a claim that goes on keeps its token, operation and step.
LEMMA TokenSteps ==
    ASSUME TypeOK, Shape, WorkerInv, [Next]_vars, NEW w \in Worker, wk'[w].pc # "idle"
    PROVE  \/ /\ wk[w].pc # "idle" /\ wk'[w].id = wk[w].id
              /\ wk'[w].token = wk[w].token /\ wk'[w].next = wk[w].next
           \/ /\ wk'[w].id \in Id /\ wk'[w].token = job[wk'[w].id].attempts + 1
              /\ \E id \in Id : Claim(w, id)
  <1>1. ASSUME NEW id \in Id, Claim(w, id)
        PROVE  wk'[w].id \in Id /\ wk'[w].token = job[wk'[w].id].attempts + 1
    BY <1>1 DEF Claim, TypeOK
  <1>2. wk'[w] # Idle
    BY DefaultFields
  <1> QED BY <1>1, <1>2, WorkerSteps DEF MovesOn

\* Only one worker claims at a time.
LEMMA OneClaim ==
    ASSUME TypeOK, NEW v \in Worker, NEW w \in Worker, v # w, NEW i \in Id, Claim(w, i)
    PROVE  wk'[v] = wk[v] /\ UNCHANGED net
  BY DEF Claim, TypeOK

LEMMA NextLeaseInv ==
    TypeOK /\ Shape /\ WorkerInv /\ LeaseInv /\ [Next]_vars => LeaseInv'
  <1> SUFFICES ASSUME TypeOK, Shape, WorkerInv, LeaseInv, [Next]_vars PROVE LeaseInv'
    OBVIOUS
  <1> DEFINE Goes(w) == /\ wk[w].pc # "idle" /\ wk'[w].id = wk[w].id
                        /\ wk'[w].token = wk[w].token /\ wk'[w].next = wk[w].next
             Claims(w) == /\ wk'[w].id \in Id /\ wk'[w].token = job[wk'[w].id].attempts + 1
                          /\ \E id \in Id : Claim(w, id)
  <1>s. \A w \in Worker : wk'[w].pc # "idle" => Goes(w) \/ Claims(w)
    BY TokenSteps
  <1>o. ASSUME NEW v \in Worker, NEW w \in Worker, v # w, Claims(w), wk'[v].pc # "idle"
        PROVE  Goes(v) /\ wk'[v].token <= job[wk'[v].id].attempts /\ wk'[v].id \in Id
               /\ wk'[v].token \in Nat
    <2>1. wk'[v] = wk[v]
      BY <1>o, OneClaim
    <2>2. wk[v].id \in Id /\ wk[v].token \in Nat /\ job[wk[v].id].attempts \in Nat
      BY <1>o, <2>1, Fields DEF Shape
    <2>3. wk[v].token \in 1..job[wk[v].id].attempts
      BY <1>o, <2>1 DEF WorkerInv
    <2> QED BY <1>o, <2>1, <2>2, <2>3
  <1>a. \A i \in Id : job[i].attempts \in Nat
    BY Fields
  <1> HIDE DEF Goes, Claims
  <1>1. ASSUME NEW v \in Worker, NEW w \in Worker, wk'[v].pc # "idle", wk'[w].pc # "idle",
               wk'[v].id = wk'[w].id, wk'[v].token = wk'[w].token
        PROVE  v = w
    <2>1. CASE Goes(v) /\ Goes(w)
      BY <1>1, <2>1 DEF Goes, LeaseInv
    <2>2. ASSUME NEW x \in Worker, NEW y \in Worker, x # y, Claims(y), wk'[x].pc # "idle",
                 wk'[x].id = wk'[y].id, wk'[x].token = wk'[y].token
          PROVE  FALSE
      <3>1. wk'[x].token <= job[wk'[x].id].attempts /\ wk'[x].token = job[wk'[x].id].attempts + 1
        BY <1>o, <2>2 DEF Claims
      <3>2. job[wk'[x].id].attempts \in Nat
        BY <1>a, <1>o, <2>2
      <3> QED BY <3>1, <3>2
    <2> QED BY <1>1, <1>s, <2>1, <2>2
  <1>2. ASSUME NEW r \in net'
        PROVE  /\ r.token <= job'[r.id].attempts
               /\ \A w \in Worker : wk'[w].pc # "idle" /\ wk'[w].id = r.id /\ wk'[w].token = r.token =>
                                      r.step = wk'[w].next + 1
    <2>1. CASE r \in net
      <3>1. r.id \in Id /\ r.token \in Nat /\ r.token <= job[r.id].attempts /\ job[r.id].status # "none"
            /\ job[r.id].attempts \in Nat
        BY <2>1, Fields DEF LeaseInv, Shape
      <3>2. job'[r.id].attempts \in {job[r.id].attempts, job[r.id].attempts + 1}
        BY <3>1, RowFields DEF Steady, Claimed, Committed
      <3>3. r.token <= job'[r.id].attempts
        BY <3>1, <3>2
      <3>4. ASSUME NEW w \in Worker, wk'[w].pc # "idle", wk'[w].id = r.id, wk'[w].token = r.token
            PROVE  r.step = wk'[w].next + 1
        <4>1. CASE Goes(w)
          BY <2>1, <3>4, <4>1 DEF Goes, LeaseInv
        <4>2. CASE Claims(w)
          <5>1. r.token = job[r.id].attempts + 1
            BY <3>4, <4>2 DEF Claims
          <5> QED BY <3>1, <5>1
        <4> QED BY <1>s, <3>4, <4>1, <4>2
      <3> QED BY <3>3, <3>4
    <2>2. ASSUME NEW v \in Worker, SentBy(r, v), r \notin net
          PROVE  /\ r.token <= job'[r.id].attempts
                 /\ \A w \in Worker : wk'[w].pc # "idle" /\ wk'[w].id = r.id /\ wk'[w].token = r.token =>
                                        r.step = wk'[w].next + 1
      <3>1. /\ wk[v].pc = "act" /\ UNCHANGED job /\ r.id = wk[v].id /\ r.token = wk[v].token
            /\ r.step = wk[v].next + 1
        BY <2>2 DEF SentBy
      <3>2. r.token <= job'[r.id].attempts
        <4>1. wk[v].id \in Id /\ wk[v].token \in 1..job[wk[v].id].attempts
          BY <3>1 DEF WorkerInv, Shape
        <4>2. wk[v].token \in Nat /\ job[wk[v].id].attempts \in Nat
          BY <4>1, Fields
        <4> QED BY <3>1, <4>1, <4>2
      <3>3. ASSUME NEW w \in Worker, wk'[w].pc # "idle", wk'[w].id = r.id, wk'[w].token = r.token
            PROVE  r.step = wk'[w].next + 1
        <4>1. ~Claims(w)
          <5>1. ASSUME Claims(w) PROVE net' = net
            BY <5>1 DEF Claims, Claim
          <5> QED BY <1>2, <2>2, <5>1
        <4>2. Goes(w)
          BY <1>s, <3>3, <4>1
        <4>3. wk[w].pc # "idle" /\ wk[w].id = wk[v].id /\ wk[w].token = wk[v].token
          BY <3>1, <3>3, <4>2 DEF Goes
        <4>4. w = v
          BY <3>1, <4>3 DEF LeaseInv
        <4> QED BY <3>1, <4>2, <4>4 DEF Goes
      <3> QED BY <3>2, <3>3
    <2> QED BY <1>2, <2>1, <2>2, RequestSteps
  <1> QED BY <1>1, <1>2 DEF LeaseInv

LEMMA NextNetInv ==
    TypeOK /\ Shape /\ RowInv /\ WorkerInv /\ NetInv /\ [Next]_vars => NetInv'
  <1> SUFFICES ASSUME TypeOK, Shape, RowInv, WorkerInv, NetInv, [Next]_vars, NEW r \in net'
               PROVE  /\ r.step <= job'[r.id].next + 1
                      /\ r.uid = job'[r.id].plan[r.step].uid
                      /\ job'[r.id].plan[r.step].name # SA => r.rv = job'[r.id].plan[r.step].rv
    BY DEF NetInv
  <1>1. CASE r \in net
    <2>1. r.id \in Id /\ r.step \in Nat /\ job[r.id].status # "none" /\ job[r.id].next \in Nat
      BY <1>1, Fields DEF Shape
    <2>2. job'[r.id].plan = job[r.id].plan
      BY <2>1, RowKept
    <2>3. job'[r.id].next \in {job[r.id].next, job[r.id].next + 1}
      BY <2>1, ProgressSteps DEF RowInv
    <2>4. /\ r.step <= job[r.id].next + 1
          /\ r.uid = job[r.id].plan[r.step].uid
          /\ job[r.id].plan[r.step].name # SA => r.rv = job[r.id].plan[r.step].rv
      BY <1>1 DEF NetInv
    <2>5. r.step <= job'[r.id].next + 1
      BY <2>1, <2>3, <2>4
    <2> QED BY <2>2, <2>4, <2>5
  <1>2. ASSUME NEW w \in Worker, SentBy(r, w)
        PROVE  /\ r.step <= job'[r.id].next + 1
               /\ r.uid = job'[r.id].plan[r.step].uid
               /\ job'[r.id].plan[r.step].name # SA => r.rv = job'[r.id].plan[r.step].rv
    <2>1. /\ wk[w].pc = "act" /\ UNCHANGED job /\ r.id = wk[w].id /\ r.step = wk[w].next + 1
          /\ r.uid = StepOf(w).uid /\ (StepOf(w).name # SA => r.rv = StepOf(w).rv)
      BY <1>2 DEF SentBy
    <2>2. StepOf(w) = job'[r.id].plan[r.step]
      BY <2>1 DEF StepOf, Plan
    <2>3. wk[w].id \in Id /\ wk[w].next <= job[wk[w].id].next
      BY <2>1 DEF Shape, WorkerInv
    <2>4. wk[w].next \in Nat /\ job[wk[w].id].next \in Nat
      BY <2>3, Fields
    <2>5. r.step <= job'[r.id].next + 1
      BY <2>1, <2>3, <2>4
    <2> QED BY <2>1, <2>2, <2>5
  <1> QED BY <1>1, <1>2, RequestSteps

-----------------------------------------------------------------------------
(* Progress and effects *)

LEMMA NextProgressIsReal ==
    TypeOK /\ Shape /\ ClusterInv /\ PlanInv /\ RowInv /\ WorkerInv /\ ProgressIsReal /\ [Next]_vars
      => ProgressIsReal'
  <1> SUFFICES ASSUME TypeOK, Shape, ClusterInv, PlanInv, RowInv, WorkerInv, ProgressIsReal, [Next]_vars,
                      NEW id \in Id, NEW i \in 1..job'[id].next
               PROVE  Realised(job[id].plan[i])'
    BY DEF ProgressIsReal
  <1>1. CASE job[id].status # "none"
    <2>1. /\ job[id].next \in Nat /\ job[id].plan \in Seq(Step) /\ job[id].next <= Len(job[id].plan)
      BY Fields DEF RowInv
    <2>2. job'[id].plan = job[id].plan
      BY <1>1, RowKept
    <2>3. /\ job'[id].next \in {job[id].next, job[id].next + 1}
          /\ job'[id].next # job[id].next =>
                /\ job[id].next < Len(job[id].plan)
                /\ Realised(job[id].plan[job[id].next + 1])
                /\ UNCHANGED cluster
      BY <1>1, <2>1, ProgressSteps
    <2>4. i \in DOMAIN job[id].plan /\ Realised(job[id].plan[i])
      <3>1. CASE i \in 1..job[id].next
        BY <2>1, <3>1 DEF ProgressIsReal
      <3>2. CASE i \notin 1..job[id].next
        <4>1. i = job[id].next + 1 /\ job'[id].next # job[id].next
          BY <2>1, <2>3, <3>2
        <4>2. i \in DOMAIN job[id].plan
          BY <2>1, <2>3, <4>1
        <4> QED BY <2>3, <4>1, <4>2
      <3> QED BY <3>1, <3>2
    <2>5. PICK s \in Step : s = job[id].plan[i]
      BY <2>1, <2>4
    <2>6. Behind(s) /\ Realised(s)
      BY <2>4, <2>5 DEF PlanInv
    <2>7. Realised(s)'
      BY <2>6, StepKept
    <2> QED BY <2>2, <2>5, <2>7 DEF Realised
  <1>2. CASE job[id].status = "none"
    <2>1. job[id] = NoRow /\ NoRow.next = 0
      BY <1>2, DefaultFields DEF RowInv
    <2>2. CASE job'[id] = job[id]
      <3>1. job'[id].next = 0
        BY <2>1, <2>2, Zenon
      <3> QED BY <3>1
    <2>3. CASE id \in PreviewId /\ SavePreview(id)
      <3>1. job'[id] = [NoRow EXCEPT !.status = "preview", !.action = draft[id].action,
                                     !.uid = draft[id].uid, !.plan = draft[id].plan]
        BY <2>3 DEF SavePreview, TypeOK
      <3>2. job'[id].next = 0
        BY <3>1 DEF NoRow
      <3> QED BY <3>2
    <2>4. ASSUME NEW u \in DeleteUid, id = DeleteId(u), QueueDeletion(u) PROVE FALSE
      <3>1. job'[id] = [NoRow EXCEPT !.status = "queued", !.action = "delete", !.uid = u, !.plan = <<SAStep(u)>>]
        BY <2>4 DEF QueueDeletion, TypeOK
      <3>2. job'[id].next = 0
        BY <3>1 DEF NoRow
      <3> QED BY <3>2
    <2> QED BY <1>2, <2>2, <2>3, <2>4, NoRowKept
  <1> QED BY <1>1, <1>2

\* A request that hits its object is for the first step not yet completed, and
\* for one that has had no effect yet.
LEMMA HitIsNext ==
    ASSUME TypeOK, Shape, ClusterInv, PlanInv, NetInv, EffectInv, ProgressIsReal, NEW r \in net, Hit(r)
    PROVE  /\ r.step = job[r.id].next + 1
           /\ \A i \in DOMAIN effects[r.id] : effects[r.id][i] < r.step
  <1>1. /\ r.id \in Id /\ r.step \in Nat /\ job[r.id].next \in Nat
        /\ r.step \in 1..Len(job[r.id].plan) /\ r.step <= job[r.id].next + 1
    BY Fields DEF Shape, NetInv
  <1>2. PICK s \in Step : s = job[r.id].plan[r.step]
    BY StepTyped
  <1>3. ~Realised(job[r.id].plan[r.step])
    BY <1>2, HitFacts DEF StepFrom
  <1>4. r.step \notin 1..job[r.id].next
    BY <1>1, <1>3 DEF ProgressIsReal
  <1>5. r.step = job[r.id].next + 1
    BY <1>1, <1>4
  <1>6. ASSUME NEW i \in DOMAIN effects[r.id] PROVE effects[r.id][i] < r.step
    <2>1. /\ effects[r.id][i] <= job[r.id].next + 1
          /\ Realised(job[r.id].plan[effects[r.id][i]])
      BY <1>1 DEF EffectInv
    <2>2. effects[r.id][i] # r.step
      BY <1>3, <2>1
    <2>3. effects[r.id][i] \in Nat
      BY <1>1 DEF TypeOK
    <2> QED BY <1>1, <1>5, <2>1, <2>2, <2>3
  <1> QED BY <1>5, <1>6

LEMMA NextEffectInv ==
    /\ TypeOK /\ Shape /\ ClusterInv /\ PlanInv /\ RowInv /\ WorkerInv /\ NetInv /\ EffectInv
    /\ ProgressIsReal /\ EffectsOnceInOrder /\ [Next]_vars
    => EffectInv' /\ EffectsOnceInOrder'
  <1> SUFFICES ASSUME TypeOK, Shape, ClusterInv, PlanInv, RowInv, WorkerInv, NetInv, EffectInv,
                      ProgressIsReal, EffectsOnceInOrder, [Next]_vars, NEW id \in Id
               PROVE  /\ \A i \in DOMAIN effects'[id] :
                           /\ effects'[id][i] \in 1..Len(job'[id].plan)
                           /\ effects'[id][i] <= job'[id].next + 1
                           /\ Realised(job[id].plan[effects[id][i]])'
                      /\ \A i, j \in DOMAIN effects'[id] : i < j => effects'[id][i] < effects'[id][j]
    BY DEF EffectInv, EffectsOnceInOrder
  <1>t. effects \in [Id -> Seq(Nat)] /\ effects[id] \in Seq(Nat)
    BY DEF TypeOK
  <1>r. job[id].next \in Nat /\ job[id].plan \in Seq(Step)
    BY Fields
  \* A past effect keeps what is said of it.
  <1>1. ASSUME NEW i \in DOMAIN effects[id]
        PROVE  /\ effects[id][i] \in 1..Len(job'[id].plan)
               /\ effects[id][i] <= job'[id].next + 1
               /\ \E s \in Step : s = job'[id].plan[effects[id][i]] /\ Realised(s)'
    <2>1. /\ effects[id][i] \in 1..Len(job[id].plan)
          /\ effects[id][i] <= job[id].next + 1
          /\ Realised(job[id].plan[effects[id][i]])
      BY DEF EffectInv
    <2>2. job[id].status # "none"
      <3>1. effects[id] # <<>>
        BY <1>1
      <3> QED BY <3>1 DEF RowInv
    <2>3. job'[id].plan = job[id].plan
      BY <2>2, RowKept
    <2>4. job'[id].next \in {job[id].next, job[id].next + 1}
      BY <2>2, ProgressSteps DEF RowInv
    <2>5. PICK s \in Step : s = job[id].plan[effects[id][i]]
      BY <1>r, <2>1
    <2>6. Behind(s) /\ Realised(s)
      BY <1>r, <2>1, <2>5 DEF PlanInv
    <2>7. Realised(s)'
      BY <2>6, StepKept
    <2>8. effects[id][i] <= job'[id].next + 1
      BY <1>r, <1>t, <2>1, <2>4
    <2> QED BY <2>1, <2>3, <2>5, <2>7, <2>8
  <1>2. CASE effects'[id] = effects[id]
    <2>1. ASSUME NEW i \in DOMAIN effects'[id] PROVE Realised(job[id].plan[effects[id][i]])'
      <3>1. PICK s \in Step : s = job'[id].plan[effects'[id][i]] /\ Realised(s)'
        BY <1>1, <1>2, <2>1
      <3> QED BY <3>1 DEF Realised
    <2>2. \A i \in DOMAIN effects'[id] : effects'[id][i] \in 1..Len(job'[id].plan) /\ effects'[id][i] <= job'[id].next + 1
      BY <1>1, <1>2
    <2>3. \A i, j \in DOMAIN effects'[id] : i < j => effects'[id][i] < effects'[id][j]
      BY <1>2 DEF EffectsOnceInOrder
    <2> QED BY <2>1, <2>2, <2>3
  <1>3. ASSUME NEW r \in net, Hit(r), Write(r), r.id = id, UNCHANGED job
        PROVE  /\ \A i \in DOMAIN effects'[id] :
                    /\ effects'[id][i] \in 1..Len(job'[id].plan)
                    /\ effects'[id][i] <= job'[id].next + 1
                    /\ Realised(job[id].plan[effects[id][i]])'
               /\ \A i, j \in DOMAIN effects'[id] : i < j => effects'[id][i] < effects'[id][j]
    <2>1. effects'[id] = Append(effects[id], r.step)
      BY <1>t, <1>3 DEF Write
    <2>2. r.step \in Nat /\ r.step \in 1..Len(job[id].plan)
      BY <1>3, Fields DEF Shape
    <2>3. /\ r.step = job[id].next + 1
          /\ \A i \in DOMAIN effects[id] : effects[id][i] < r.step
      BY <1>3, HitIsNext
    <2>4. PICK s \in Step : s = job[id].plan[r.step]
      BY <1>3, StepTyped
    <2>5. Realised(s)'
      BY <1>3, <2>4, HitFacts DEF StepFrom
    <2>6. /\ DOMAIN effects'[id] = 1..(Len(effects[id]) + 1)
          /\ \A i \in DOMAIN effects[id] : effects'[id][i] = effects[id][i]
          /\ effects'[id][Len(effects[id]) + 1] = r.step
          /\ DOMAIN effects[id] = 1..Len(effects[id]) /\ Len(effects[id]) \in Nat
      BY <1>t, <2>1, <2>2
    <2>7. ASSUME NEW i \in DOMAIN effects'[id]
          PROVE  /\ effects'[id][i] \in 1..Len(job'[id].plan)
                 /\ effects'[id][i] <= job'[id].next + 1
                 /\ \E x \in Step : x = job'[id].plan[effects'[id][i]] /\ Realised(x)'
      <3>1. CASE i \in DOMAIN effects[id]
        BY <1>1, <2>6, <3>1
      <3>2. CASE i = Len(effects[id]) + 1
        <4>1. effects'[id][i] = r.step
          BY <2>6, <3>2
        <4>2. r.step <= job'[id].next + 1
          BY <1>3, <1>r, <2>3
        <4> QED BY <1>3, <2>2, <2>4, <2>5, <4>1, <4>2
      <3> QED BY <2>6, <2>7, <3>1, <3>2
    <2>8. ASSUME NEW i \in DOMAIN effects'[id] PROVE Realised(job[id].plan[effects[id][i]])'
      <3>1. PICK x \in Step : x = job'[id].plan[effects'[id][i]] /\ Realised(x)'
        BY <2>7, <2>8
      <3> QED BY <3>1 DEF Realised
    <2>9. ASSUME NEW i \in DOMAIN effects'[id], NEW j \in DOMAIN effects'[id], i < j
          PROVE  effects'[id][i] < effects'[id][j]
      <3>1. i \in DOMAIN effects[id]
        BY <2>6, <2>9
      <3>2. CASE j \in DOMAIN effects[id]
        BY <2>6, <2>9, <3>1, <3>2 DEF EffectsOnceInOrder
      <3>3. CASE j = Len(effects[id]) + 1
        <4>1. effects'[id][i] = effects[id][i] /\ effects'[id][j] = r.step
          BY <2>6, <3>1, <3>3
        <4>2. effects[id][i] < r.step
          BY <2>3, <3>1
        <4> QED BY <4>1, <4>2
      <3> QED BY <2>6, <2>9, <3>2, <3>3
    <2> QED BY <2>7, <2>8, <2>9
  <1>4. ASSUME NEW r \in net, Hit(r), Write(r) PROVE UNCHANGED job \/ UNCHANGED effects
    <2>1. rev' = rev + 1 /\ rev \in Nat
      BY <1>4, Fields DEF Write
    <2>2. rev' # rev
      BY <2>1
    <2>3. ~UNCHANGED cluster
      BY <2>2 DEF cluster
    <2>4. ASSUME NEW i \in PreviewId, SavePreview(i) \/ Queue(i) PROVE FALSE
      BY <2>3, <2>4 DEF SavePreview, Queue
    <2>5. ASSUME NEW u \in DeleteUid, QueueDeletion(u) PROVE FALSE
      BY <2>3, <2>5 DEF QueueDeletion
    <2>6. ASSUME NEW w \in Worker, Commit(w) \/ \E i \in Id : Claim(w, i) PROVE FALSE
      BY <2>3, <2>6 DEF Commit, Claim
    <2>7. ASSUME NEW i \in Id, LeaseExpires(i) PROVE FALSE
      BY <2>3, <2>7 DEF LeaseExpires
    <2> QED BY <2>4, <2>5, <2>6, <2>7, RowSteps
  <1>5. ASSUME NEW r \in net, Write(r), r.id # id PROVE effects'[id] = effects[id]
    BY <1>5, <1>t, Fields DEF Write
  <1> QED BY <1>2, <1>3, <1>4, <1>5, EffectSteps

-----------------------------------------------------------------------------
(* Deletions *)

LEMMA PurgeSteps == ASSUME [Next]_vars PROVE UNCHANGED purged \/ \E w \in Worker : Commit(w)
  <1>1. ASSUME NEW id \in PreviewId,
               \/ PreviewList(id) \/ PreviewFail(id) \/ SavePreview(id) \/ Queue(id)
               \/ \E a \in {"revoke", "delete"} : PreviewRead(id, a)
        PROVE  UNCHANGED purged
    BY <1>1 DEF PreviewList, PreviewFail, PreviewRead, SavePreview, Queue, db
  <1>2. ASSUME NEW u \in DeleteUid, QueueDeletion(u) PROVE UNCHANGED purged
    BY <1>2 DEF QueueDeletion
  <1>3. ASSUME NEW w \in Worker,
               \/ CheckServiceAccount(w) \/ DeleteObject(w) \/ UpdateBinding(w) \/ CallFails(w)
               \/ WriteRefused(w) \/ TimeOut(w) \/ LeaseLost(w) \/ Crash(w)
               \/ \E id \in Id : Claim(w, id)
        PROVE  UNCHANGED purged
    BY <1>3 DEF CheckServiceAccount, DeleteObject, UpdateBinding, CallFails, WriteRefused, TimeOut,
                LeaseLost, Crash, Claim, db
  <1>4. ASSUME NEW r \in net, Serve(r) PROVE UNCHANGED purged
    BY <1>4 DEF Serve, db
  <1>5. ASSUME NEW n \in Name, OtherClientCreates(n) \/ OtherClientEdits(n) \/ OtherClientDeletes(n)
        PROVE  UNCHANGED purged
    BY <1>5 DEF OtherClientCreates, OtherClientEdits, OtherClientDeletes, Put, db
  <1>6. ASSUME NEW id \in Id, LeaseExpires(id) PROVE UNCHANGED purged
    BY <1>6 DEF LeaseExpires
  <1>7. Syncing \/ UNCHANGED vars => UNCHANGED purged
    BY DEF Syncing, ListServiceAccounts, FullSync, vars
  <1> QED
    BY <1>1, <1>2, <1>3, <1>4, <1>5, <1>6, <1>7 DEF Next, Previewing, Requests, Working, Progress, Surroundings

\* A UID that is gone does not come back.
LEMMA GoneForGood ==
    ASSUME TypeOK, Shape, ClusterInv, [Next]_vars, NEW u \in 1..rev, api[SA].uid # u
    PROVE  api'[SA].uid # u /\ u \in 1..rev'
  <1>1. rev \in Nat /\ SA \in Name
    BY Fields, NameFacts
  <1>2. rev' \in {rev, rev + 1} /\ (Same(SA) \/ Gone(SA) \/ Created(SA) \/ Edited(SA))
    BY <1>1, ObjectSteps
  <1>3. api'[SA].uid = api[SA].uid \/ api'[SA].uid = 0 \/ api'[SA].uid = rev + 1
    BY <1>2 DEF Same, Gone, Created, Edited
  <1> QED BY <1>1, <1>2, <1>3

LEMMA NextPurgedIsGone ==
    /\ TypeOK /\ Shape /\ ClusterInv /\ PlanInv /\ RowInv /\ WorkerInv /\ ProgressIsReal
    /\ PurgedIsGone /\ purged \subseteq 1..rev /\ [Next]_vars
    => PurgedIsGone' /\ purged' \subseteq 1..rev'
  <1> SUFFICES ASSUME TypeOK, Shape, ClusterInv, PlanInv, RowInv, WorkerInv, ProgressIsReal,
                      PurgedIsGone, purged \subseteq 1..rev, [Next]_vars, NEW u \in purged'
               PROVE  api'[SA].uid # u /\ u \in 1..rev'
    BY DEF PurgedIsGone
  <1>1. CASE u \in purged
    BY <1>1, GoneForGood DEF PurgedIsGone
  <1>2. ASSUME NEW w \in Worker, Commit(w), u \notin purged PROVE u \in 1..rev /\ api[SA].uid # u
    <2> DEFINE id == wk[w].id
    <2>1. Deletes(w) /\ u = job[id].uid
      BY <1>2 DEF Commit
    <2>2. id \in Id /\ job[id].next \in Nat /\ wk[w].next \in Nat
      BY <1>2, Fields DEF Commit, Shape
    <2>3. job[id].plan = <<SAStep(u)>>
      BY <2>1, <2>2 DEF Deletes, RowInv
    <2>4. wk[w].next = job[id].next /\ wk[w].res = "ok" /\ Completed(w) = Len(Plan(w))
      <3>1. wk[w].next = job[id].next
        BY <1>2 DEF Commit, HoldsLease, WorkerInv
      <3> QED BY <2>1, <3>1 DEF Deletes, Outcome
    <2>5. Len(Plan(w)) = 1 /\ Plan(w)[1] = SAStep(u)
      BY <2>3 DEF Plan
    <2>6. Realised(SAStep(u))
      <3>1. CASE wk[w].next < Len(Plan(w))
        <4>1. Realised(StepOf(w))
          BY <1>2, <2>4, <3>1 DEF WorkerInv, Commit
        <4>2. wk[w].next + 1 = 1
          BY <2>2, <2>5, <3>1
        <4> QED BY <2>5, <4>1, <4>2 DEF StepOf
      <3>2. CASE ~(wk[w].next < Len(Plan(w)))
        <4>1. Completed(w) = wk[w].next
          BY <3>2 DEF Completed
        <4>2. job[id].next = 1
          BY <2>4, <2>5, <4>1
        <4>3. Realised(job[id].plan[1])
          BY <2>2, <4>2 DEF ProgressIsReal
        <4> QED BY <2>3, <4>3
      <3> QED BY <3>1, <3>2
    <2>7. Behind(SAStep(u))
      BY <2>2, <2>3 DEF PlanInv
    <2>8. SAStep(u).name = SA /\ SAStep(u).uid = u
      BY DEF SAStep
    <2> QED BY <2>6, <2>7, <2>8, NameFacts DEF Behind, Realised
  <1>3. ASSUME u \notin purged PROVE u \in 1..rev /\ api[SA].uid # u
    BY <1>2, <1>3, PurgeSteps
  <1> QED BY <1>1, <1>3, GoneForGood

-----------------------------------------------------------------------------
(* The invariant and the theorems *)

LEMMA InitIndInv == Init => IndInv
  <1> SUFFICES ASSUME Init PROVE IndInv
    OBVIOUS
  <1>1. TypeOK /\ Shape
    BY InitTypeOK, InitShape
  <1>2. /\ rev = 1 /\ inv = {1} /\ listed = {1} /\ net = {} /\ purged = {}
        /\ \A id \in Id : job[id] = NoRow /\ effects[id] = <<>>
        /\ \A id \in PreviewId : draft[id] = NoDraft
        /\ \A w \in Worker : wk[w] = Idle
    BY DEF Init
  <1>3. ClusterInv
    <2>1. ASSUME NEW n \in Name
          PROVE  (api[n].uid = 1 /\ api[n].rv = 1) \/ (api[n].uid = 0 /\ api[n].rv = 0)
      <3>1. api[n] \in Shapes(n, 1, 1) \/ api[n] = Absent
        BY DEF Init
      <3>2. CASE api[n] \in Shapes(n, 1, 1)
        BY <3>2, ShapesTyped
      <3>3. CASE api[n] = Absent
        BY <3>3, DefaultFields, Zenon
      <3> QED BY <3>1, <3>2, <3>3
    <2>2. \A n \in Name : clean[n] = IF api[n].uid # 0 /\ Target \notin api[n].subjects THEN 1 ELSE 0
      BY DEF Init, Exists
    <2> QED BY <1>2, <2>1, <2>2 DEF ClusterInv
  <1>4. /\ NoRow.plan = <<>> /\ NoRow.next = 0 /\ NoRow.action = "" /\ NoRow.lease = 0 /\ NoRow.attempts = 0
        /\ NoDraft.plan = <<>> /\ NoDraft.action = ""
    BY DEF NoRow, NoDraft
  <1>f. /\ \A id \in Id : /\ job[id].plan = <<>> /\ job[id].next = 0 /\ job[id].action = ""
                          /\ job[id].lease = 0 /\ job[id].attempts = 0
        /\ \A id \in PreviewId : draft[id].plan = <<>> /\ draft[id].action = ""
    BY <1>2, <1>4, Zenon
  <1>e. DOMAIN <<>> = {} /\ 1..0 = {} /\ 0 <= Len(<<>>) /\ 0 <= 0
    OBVIOUS
  <1>g. \A id \in Id : /\ DOMAIN job[id].plan = {} /\ 1..job[id].next = {}
                       /\ job[id].next <= Len(job[id].plan) /\ job[id].lease <= job[id].attempts
    BY <1>e, <1>f, Zenon
  <1>h. \A id \in PreviewId : DOMAIN draft[id].plan = {}
    BY <1>e, <1>f, Zenon
  <1>5. PlanInv
    BY <1>g, <1>h, Zenon DEF PlanInv
  <1>6. RowInv
    <2>2. \A id \in Id : job[id].action # "delete"
      BY <1>f
    <2>3. \A id \in PreviewId : draft[id].action # "delete"
      BY <1>f
    <2> QED BY <1>2, <1>g, <2>2, <2>3, Zenon DEF RowInv
  <1>7. \A w \in Worker : wk[w].pc = "idle"
    BY <1>2, DefaultFields
  <1>8. WorkerInv /\ LeaseInv /\ NetInv
    BY <1>2, <1>7 DEF WorkerInv, LeaseInv, NetInv
  <1>9. EffectInv /\ EffectsOnceInOrder
    BY <1>2 DEF EffectInv, EffectsOnceInOrder
  <1>10. ProgressIsReal
    BY <1>g, Zenon DEF ProgressIsReal
  <1>11. PurgedIsGone /\ purged \subseteq 1..rev
    BY <1>2 DEF PurgedIsGone
  <1> QED BY <1>1, <1>3, <1>5, <1>6, <1>8, <1>9, <1>10, <1>11 DEF IndInv

LEMMA NextIndInv == IndInv /\ [Next]_vars => IndInv'
  BY NextTypeOK, NextShape, NextClusterInv, NextPlanInv, NextRowInv, NextWorkerInv, NextLeaseInv, NextNetInv,
     NextEffectInv, NextProgressIsReal, NextPurgedIsGone
  DEF IndInv

LEMMA Inductive == Spec => []IndInv
  BY InitIndInv, NextIndInv, PTL DEF Spec

\* Whatever crashes, times out or is taken over, the progress a row reports is
\* true of Kubernetes (next_step of Process, apply's verdicts).
THEOREM ProgressTheorem == Spec => []ProgressIsReal
  <1>1. IndInv => ProgressIsReal
    BY DEF IndInv
  <1> QED BY <1>1, Inductive, PTL

\* No step changes Kubernetes twice and steps take effect in plan order, although
\* requests are retried, taken over and served late.
THEOREM EffectsTheorem == Spec => []EffectsOnceInOrder
  <1>1. IndInv => EffectsOnceInOrder
    BY DEF IndInv
  <1> QED BY <1>1, Inductive, PTL

\* An inventory row is deleted by a mutation only when its UID is gone from Kubernetes for good.
THEOREM PurgeTheorem == Spec => []PurgedIsGone
  <1>1. IndInv => PurgedIsGone
    BY DEF IndInv
  <1> QED BY <1>1, Inductive, PTL

\* A write that lands, however late, is for the first step the row does not
\* report as completed.
THEOREM NextStepTheorem == Spec => EffectIsNextStep
  <1> DEFINE Lands == \A id \in Id : effects'[id] # effects[id] =>
                        effects'[id][Len(effects'[id])] = job[id].next + 1
  <1>1. IndInv /\ [Next]_vars => [Lands]_vars
    <2> SUFFICES ASSUME IndInv, [Next]_vars, NEW id \in Id, effects'[id] # effects[id]
                 PROVE  effects'[id][Len(effects'[id])] = job[id].next + 1
      OBVIOUS
    <2>1. effects \in [Id -> Seq(Nat)] /\ effects[id] \in Seq(Nat)
      BY DEF IndInv, TypeOK
    <2>2. PICK r \in net : Hit(r) /\ Write(r)
      BY EffectSteps DEF IndInv
    <2>3. r.id \in Id /\ r.step \in Nat
      BY Fields DEF IndInv
    <2>4. r.id = id /\ effects'[id] = Append(effects[id], r.step)
      BY <2>1, <2>2, <2>3 DEF Write
    <2>5. r.step = job[id].next + 1
      BY <2>2, <2>4, HitIsNext DEF IndInv
    <2>6. effects'[id][Len(effects'[id])] = r.step
      BY <2>1, <2>3, <2>4
    <2> QED BY <2>5, <2>6
  <1> QED BY <1>1, Inductive, PTL DEF Spec, EffectIsNextStep, Lands

\* A write of a worker lands only on the very object version the preview showed
\* (the preconditions of Delete and the resource version of Update in apply).
THEOREM ExactTargetTheorem == Spec => ExactTarget
  <1> DEFINE Meant(s) == /\ api[s.name].uid = s.uid
                         /\ s.name # SA => api[s.name].rv = s.rv
                         /\ s.name \in Binding => api[s.name].subjects = s.before /\ api[s.name].role = s.role
             Lands == \A id \in Id : effects'[id] # effects[id] =>
                        LET s == job[id].plan[effects'[id][Len(effects'[id])]]
                        IN  /\ api[s.name].uid = s.uid
                            /\ s.name # SA => api[s.name].rv = s.rv
                            /\ s.name \in Binding => api[s.name].subjects = s.before /\ api[s.name].role = s.role
  <1>1. IndInv /\ [Next]_vars => [Lands]_vars
    <2> SUFFICES ASSUME IndInv, [Next]_vars, NEW id \in Id, effects'[id] # effects[id]
                 PROVE  Meant(job[id].plan[effects'[id][Len(effects'[id])]])
      OBVIOUS
    <2>1. effects \in [Id -> Seq(Nat)] /\ effects[id] \in Seq(Nat)
      BY DEF IndInv, TypeOK
    <2>2. PICK r \in net : Hit(r) /\ Write(r)
      BY EffectSteps DEF IndInv
    <2>3. r.id \in Id /\ r.step \in Nat /\ r.rv \in Nat
      BY Fields DEF IndInv
    <2>4. r.id = id /\ effects'[id] = Append(effects[id], r.step)
      BY <2>1, <2>2, <2>3 DEF Write
    <2>5. effects'[id][Len(effects'[id])] = r.step
      BY <2>1, <2>3, <2>4
    <2>6. PICK s \in Step : s = job[id].plan[r.step]
      BY <2>4, StepTyped DEF IndInv
    <2>7. Behind(s)
      BY <2>4, <2>6, Fields DEF IndInv, Shape, PlanInv
    <2>8. r.uid = s.uid /\ (s.name # SA => r.rv = s.rv)
      BY <2>4, <2>6 DEF IndInv, NetInv
    <2>9. api[s.name].uid = s.uid /\ (s.name # SA => api[s.name].rv = s.rv)
      BY <2>2, <2>4, <2>6, <2>7, <2>8 DEF Hit, StepFrom, Behind
    <2>10. s.name \in Binding => s.name # SA
      BY NameFacts
    <2>11. Meant(s)
      BY <2>7, <2>9, <2>10 DEF Behind
    <2> QED BY <2>5, <2>6, <2>11
  <1> QED BY <1>1, Inductive, PTL DEF Spec, ExactTarget, Lands

\* Durable progress never goes back, the reviewed plan never changes and a
\* finished operation stays as it is (the lease token in Process's commit).
THEOREM RowsTheorem == Spec => RowsOnlyAdvance
  <1> DEFINE Advances == \A id \in Id : job[id].status # "none" =>
                           /\ job'[id].plan = job[id].plan /\ job'[id].uid = job[id].uid
                           /\ job'[id].next \in {job[id].next, job[id].next + 1}
                           /\ job[id].status \in Terminal => job'[id] = job[id]
  <1>1. IndInv /\ [Next]_vars => [Advances]_vars
    <2> SUFFICES ASSUME IndInv, [Next]_vars, NEW id \in Id, job[id].status # "none"
                 PROVE  /\ job'[id].plan = job[id].plan /\ job'[id].uid = job[id].uid
                        /\ job'[id].next \in {job[id].next, job[id].next + 1}
                        /\ job[id].status \in Terminal => job'[id] = job[id]
      OBVIOUS
    <2>1. job'[id].plan = job[id].plan /\ job'[id].uid = job[id].uid
      BY RowKept DEF IndInv
    <2>2. job'[id].next \in {job[id].next, job[id].next + 1}
      BY ProgressSteps DEF IndInv, RowInv
    <2>3. ASSUME job[id].status \in Terminal PROVE job'[id] = job[id]
      <3>t. job \in [Id -> Row]
        BY DEF IndInv, TypeOK
      <3>1. ASSUME NEW i \in PreviewId, SavePreview(i) PROVE job'[id] = job[id]
        <4>1. i # id
          BY <3>1 DEF SavePreview, IndInv, Shape
        <4> QED BY <3>1, <3>t, <4>1 DEF SavePreview
      <3>2. ASSUME NEW i \in PreviewId, Queue(i) PROVE job'[id] = job[id]
        BY <2>3, <3>2, <3>t DEF Queue, Terminal
      <3>3. ASSUME NEW u \in DeleteUid, QueueDeletion(u) PROVE job'[id] = job[id]
        <4>1. DeleteId(u) # id
          BY <3>3 DEF QueueDeletion
        <4> QED BY <3>3, <3>t, <4>1 DEF QueueDeletion
      <3>4. ASSUME NEW w \in Worker, NEW i \in Id, Claim(w, i) PROVE job'[id] = job[id]
        BY <2>3, <3>4, <3>t DEF Claim, Claimable, Terminal
      <3>5. ASSUME NEW w \in Worker, Commit(w) PROVE job'[id] = job[id]
        BY <2>3, <3>5, <3>t DEF Commit, HoldsLease, Terminal
      <3>6. ASSUME NEW i \in Id, LeaseExpires(i) PROVE job'[id] = job[id]
        BY <2>3, <3>6, <3>t DEF LeaseExpires, Terminal
      <3> QED BY <3>1, <3>2, <3>3, <3>4, <3>5, <3>6, RowSteps
    <2> QED BY <2>1, <2>2, <2>3
  <1> QED BY <1>1, Inductive, PTL DEF Spec, RowsOnlyAdvance, Advances

-----------------------------------------------------------------------------
(* The audit log *)

Unqueued == {"none", "preview"}

\* The log of a row: empty until the row is queued, opened by the one intent,
\* closed by the row's last status.
LogOk(log, row) ==
    /\ log = <<>> <=> row.status \in Unqueued
    /\ \A i \in DOMAIN log : log[i].status = "intent" <=> i = 1
    /\ row.status \in Terminal => log[Len(log)] = [status |-> row.status, steps |-> row.next]

\* Nothing works on a row, or has changed Kubernetes for it, before it is queued.
AuditInv ==
    /\ \A id \in Id : LogOk(audit[id], job[id])
    /\ \A id \in Id : effects[id] # <<>> => job[id].status \notin Unqueued
    /\ \A w \in Worker : wk[w].pc # "idle" => job[wk[w].id].status \notin Unqueued
    /\ \A r \in net : job[r.id].status \notin Unqueued

\* A log that has its intent grows by entries that are none; the first entry is one.
LEMMA LogGrows ==
    ASSUME NEW log \in Seq(Entry), NEW e \in Entry,
           \A i \in DOMAIN log : log[i].status = "intent" <=> i = 1,
           e.status = "intent" <=> log = <<>>
    PROVE  /\ Append(log, e) # <<>>
           /\ \A i \in DOMAIN Append(log, e) : Append(log, e)[i].status = "intent" <=> i = 1
           /\ Append(log, e)[Len(Append(log, e))] = e
  <1>1. PICK n \in Nat : n = Len(log)
    OBVIOUS
  <1>2. PICK l : l = Append(log, e)
    OBVIOUS
  <1>3. /\ Len(l) = n + 1 /\ DOMAIN l = 1 .. n + 1 /\ l[n + 1] = e
        /\ DOMAIN log = 1 .. n /\ \A i \in 1 .. n : l[i] = log[i]
    BY <1>1, <1>2
  <1>4. n = 0 <=> log = <<>>
    BY <1>1
  <1>5. ASSUME NEW i \in 1 .. n + 1 PROVE l[i].status = "intent" <=> i = 1
    <2>1. CASE i \in 1 .. n
      BY <1>3, <2>1
    <2>2. CASE i = n + 1
      BY <1>3, <1>4, <2>2
    <2> QED BY <1>1, <1>5, <2>1, <2>2
  <1> QED BY <1>2, <1>3, <1>5

LEMMA AuditSteps ==
    ASSUME [Next]_vars
    PROVE  \/ UNCHANGED <<job, audit>>
           \/ UNCHANGED audit /\ \E id \in PreviewId : SavePreview(id)
           \/ UNCHANGED audit /\ \E w \in Worker, id \in Id : Claim(w, id)
           \/ UNCHANGED audit /\ \E id \in Id : LeaseExpires(id)
           \/ \E id \in PreviewId : Queue(id)
           \/ \E u \in DeleteUid : QueueDeletion(u)
           \/ \E w \in Worker : Commit(w)
  <1>1. ASSUME NEW id \in PreviewId,
               \/ PreviewList(id) \/ PreviewFail(id) \/ \E a \in {"revoke", "delete"} : PreviewRead(id, a)
        PROVE  UNCHANGED <<job, audit>>
    BY <1>1 DEF PreviewList, PreviewFail, PreviewRead, db
  <1>2. ASSUME NEW w \in Worker,
               \/ CheckServiceAccount(w) \/ DeleteObject(w) \/ UpdateBinding(w) \/ CallFails(w)
               \/ WriteRefused(w) \/ TimeOut(w) \/ LeaseLost(w) \/ Crash(w)
        PROVE  UNCHANGED <<job, audit>>
    BY <1>2 DEF CheckServiceAccount, DeleteObject, UpdateBinding, CallFails, WriteRefused, TimeOut,
                LeaseLost, Crash, db
  <1>3. ASSUME NEW r \in net, Serve(r) PROVE UNCHANGED <<job, audit>>
    BY <1>3 DEF Serve, db
  <1>4. ASSUME NEW n \in Name, OtherClientCreates(n) \/ OtherClientEdits(n) \/ OtherClientDeletes(n)
        PROVE  UNCHANGED <<job, audit>>
    BY <1>4 DEF OtherClientCreates, OtherClientEdits, OtherClientDeletes, Put, db
  <1>5. Syncing \/ UNCHANGED vars => UNCHANGED <<job, audit>>
    BY DEF Syncing, ListServiceAccounts, FullSync, vars
  <1>6. /\ \A id \in PreviewId : SavePreview(id) => UNCHANGED audit
        /\ \A id \in Id : LeaseExpires(id) => UNCHANGED audit
        /\ \A w \in Worker, id \in Id : Claim(w, id) => UNCHANGED audit
    BY DEF SavePreview, LeaseExpires, Claim
  <1> QED
    BY <1>1, <1>2, <1>3, <1>4, <1>5, <1>6 DEF Next, Previewing, Requests, Working, Progress, Surroundings

LEMMA LogKept ==
    ASSUME TypeOK, Shape, RowInv, AuditInv, [Next]_vars, NEW id \in Id
    PROVE  /\ LogOk(audit'[id], job'[id])
           /\ job[id].status \notin Unqueued => job'[id].status \notin Unqueued
  <1> DEFINE Kept == /\ LogOk(audit'[id], job'[id])
                     /\ job[id].status \notin Unqueued => job'[id].status \notin Unqueued
  <1>t. /\ job \in [Id -> Row] /\ job[id] \in Row /\ audit \in [Id -> Seq(Entry)]
        /\ audit[id] \in Seq(Entry) /\ LogOk(audit[id], job[id])
    BY DEF TypeOK, AuditInv
  <1>0. ASSUME job'[id] = job[id], audit'[id] = audit[id] PROVE Kept
    BY <1>0, <1>t
  <1>1. ASSUME NEW i \in PreviewId, SavePreview(i), UNCHANGED audit PROVE Kept
    <2>1. CASE i = id
      <3>1. job[id].status = "none"
        BY <1>1, <2>1 DEF SavePreview, Shape
      <3>2. job'[id].status = "preview"
        BY <1>1, <1>t, <2>1 DEF SavePreview, NoRow
      <3>3. audit'[id] = audit[id] /\ audit[id] = <<>>
        BY <1>1, <1>t, <3>1 DEF LogOk, Unqueued
      <3> QED BY <1>t, <3>1, <3>2, <3>3 DEF LogOk, Unqueued, Terminal
    <2>2. CASE i # id
      BY <1>0, <1>1, <1>t, <2>2 DEF SavePreview
    <2> QED BY <2>1, <2>2
  <1>2. ASSUME NEW i \in PreviewId, Queue(i) PROVE Kept
    <2>1. CASE i = id
      <3>1. job[id].status = "preview" /\ audit[id] = <<>>
        BY <1>2, <1>t, <2>1 DEF Queue, LogOk, Unqueued
      <3>2. job'[id].status = "queued"
        BY <1>2, <1>t, <2>1 DEF Queue, Row
      <3>3. PICK e : e = [status |-> "intent", steps |-> 0]
        OBVIOUS
      <3>4. e \in Entry /\ e.status = "intent"
        BY <3>3 DEF Entry, Status
      <3>5. audit'[id] = Append(audit[id], e)
        BY <1>2, <1>t, <2>1, <3>3 DEF Queue
      <3>6. /\ audit'[id] # <<>>
            /\ \A j \in DOMAIN audit'[id] : audit'[id][j].status = "intent" <=> j = 1
        BY <1>t, <3>1, <3>4, <3>5, LogGrows
      <3> QED BY <3>1, <3>2, <3>6 DEF LogOk, Unqueued, Terminal
    <2>2. CASE i # id
      BY <1>0, <1>2, <1>t, <2>2 DEF Queue
    <2> QED BY <2>1, <2>2
  <1>3. ASSUME NEW u \in DeleteUid, QueueDeletion(u) PROVE Kept
    <2>1. CASE DeleteId(u) = id
      <3>1. job[id].status = "none" /\ audit[id] = <<>>
        BY <1>3, <1>t, <2>1 DEF QueueDeletion, LogOk, Unqueued
      <3>2. job'[id].status = "queued"
        BY <1>3, <1>t, <2>1 DEF QueueDeletion, NoRow
      <3>3. PICK e : e = [status |-> "intent", steps |-> 0]
        OBVIOUS
      <3>4. e \in Entry /\ e.status = "intent"
        BY <3>3 DEF Entry, Status
      <3>5. audit'[id] = Append(audit[id], e)
        BY <1>3, <1>t, <2>1, <3>3 DEF QueueDeletion
      <3>6. /\ audit'[id] # <<>>
            /\ \A j \in DOMAIN audit'[id] : audit'[id][j].status = "intent" <=> j = 1
        BY <1>t, <3>1, <3>4, <3>5, LogGrows
      <3> QED BY <3>1, <3>2, <3>6 DEF LogOk, Unqueued, Terminal
    <2>2. CASE DeleteId(u) # id
      BY <1>0, <1>3, <1>t, <2>2 DEF QueueDeletion
    <2> QED BY <2>1, <2>2
  <1>4. ASSUME NEW w \in Worker, NEW i \in Id, Claim(w, i), UNCHANGED audit PROVE Kept
    <2>1. CASE i = id
      <3>1. job[id].status \in {"queued", "retry", "running"}
        BY <1>4, <2>1 DEF Claim, Claimable
      <3>2. job'[id].status = "running"
        BY <1>4, <1>t, <2>1 DEF Claim, Row
      <3> QED BY <1>4, <1>t, <3>1, <3>2 DEF LogOk, Unqueued, Terminal
    <2>2. CASE i # id
      BY <1>0, <1>4, <1>t, <2>2 DEF Claim
    <2> QED BY <2>1, <2>2
  <1>5. ASSUME NEW w \in Worker, Commit(w) PROVE Kept
    <2>1. wk[w].id \in Id
      BY <1>5 DEF Commit, Shape
    <2>2. CASE wk[w].id = id
      <3>1. job[id].status = "running"
        BY <1>5, <2>2 DEF Commit, HoldsLease
      <3>2. PICK st, nx : st = Outcome(w) /\ nx = Completed(w)
        OBVIOUS
      <3>3. st \in {"succeeded", "queued", "blocked", "retry"}
        BY <3>2 DEF Outcome
      <3>4. nx \in Nat
        BY <3>2, Fields DEF Completed
      <3>5. job'[id] = [job[id] EXCEPT !.status = st, !.next = nx, !.lease = 0,
                                       !.expired = FALSE, !.lastError = Message(w)]
        BY <1>5, <1>t, <2>2, <3>2 DEF Commit
      <3>6. job'[id].status = st /\ job'[id].next = nx
        BY <1>t, <3>5 DEF Row
      <3>7. PICK e : e = [status |-> st, steps |-> nx]
        OBVIOUS
      <3>8. e \in Entry /\ e.status # "intent"
        BY <3>3, <3>4, <3>7 DEF Entry, Status
      <3>9. audit'[id] = Append(audit[id], e)
        BY <1>5, <1>t, <2>2, <3>2, <3>7 DEF Commit
      <3>10. /\ audit[id] # <<>>
             /\ \A j \in DOMAIN audit[id] : audit[id][j].status = "intent" <=> j = 1
        BY <1>t, <3>1 DEF LogOk, Unqueued
      <3>11. /\ audit'[id] # <<>>
             /\ \A j \in DOMAIN audit'[id] : audit'[id][j].status = "intent" <=> j = 1
             /\ audit'[id][Len(audit'[id])] = e
        BY <1>t, <3>8, <3>9, <3>10, LogGrows
      <3> QED BY <3>3, <3>6, <3>7, <3>11 DEF LogOk, Unqueued, Terminal
    <2>3. CASE wk[w].id # id
      BY <1>0, <1>5, <1>t, <2>1, <2>3 DEF Commit
    <2> QED BY <2>2, <2>3
  <1>6. ASSUME NEW i \in Id, LeaseExpires(i), UNCHANGED audit PROVE Kept
    <2>1. job'[id].status = job[id].status /\ job'[id].next = job[id].next
      BY <1>6, <1>t DEF LeaseExpires, Row
    <2> QED BY <1>6, <1>t, <2>1 DEF LogOk
  <1>7. ASSUME UNCHANGED <<job, audit>> PROVE Kept
    BY <1>0, <1>7
  <1> HIDE DEF Kept
  <1>8. Kept
    BY <1>1, <1>2, <1>3, <1>4, <1>5, <1>6, <1>7, AuditSteps
  <1> QED BY <1>8 DEF Kept

LEMMA NextAuditInv ==
    ASSUME TypeOK, Shape, RowInv, AuditInv, [Next]_vars PROVE AuditInv'
  <1>1. \A id \in Id : LogOk(audit[id], job[id])'
    BY LogKept
  <1>2. ASSUME NEW id \in Id, effects'[id] # <<>> PROVE job'[id].status \notin Unqueued
    <2>1. CASE effects[id] # <<>>
      BY <2>1, LogKept DEF AuditInv
    <2>2. CASE effects[id] = <<>>
      <3>1. PICK r \in net : Write(r)
        BY <1>2, <2>2, EffectSteps
      <3>2. r.id = id
        BY <1>2, <2>2, <3>1 DEF Write, TypeOK
      <3> QED BY <3>2, LogKept DEF AuditInv
    <2> QED BY <2>1, <2>2
  <1>3. ASSUME NEW w \in Worker, wk'[w].pc # "idle" PROVE job'[wk'[w].id].status \notin Unqueued
    <2>1. CASE wk'[w] = wk[w] \/ MovesOn(w)
      <3>1. wk[w].pc # "idle" /\ wk'[w].id = wk[w].id
        BY <1>3, <2>1 DEF MovesOn
      <3>2. wk[w].id \in Id /\ job[wk[w].id].status \notin Unqueued
        BY <3>1 DEF Shape, AuditInv
      <3> QED BY <3>1, <3>2, LogKept
    <2>2. ASSUME NEW id \in Id, Claim(w, id) PROVE job'[wk'[w].id].status \notin Unqueued
      <3>1. wk'[w].id = id
        BY <2>2 DEF Claim, TypeOK, WorkerState
      <3>2. job[id].status \notin Unqueued
        BY <2>2 DEF Claim, Claimable, Unqueued
      <3> QED BY <3>1, <3>2, LogKept
    <2>3. wk'[w] # Idle
      BY <1>3, DefaultFields
    <2> QED BY <2>1, <2>2, <2>3, WorkerSteps
  <1>4. ASSUME NEW r \in net' PROVE job'[r.id].status \notin Unqueued
    <2>1. CASE r \in net
      BY <2>1, Fields, LogKept DEF AuditInv
    <2>2. ASSUME NEW w \in Worker, SentBy(r, w) PROVE job'[r.id].status \notin Unqueued
      <3>1. wk[w].pc # "idle" /\ r.id = wk[w].id
        BY <2>2 DEF SentBy
      <3>2. wk[w].id \in Id /\ job[wk[w].id].status \notin Unqueued
        BY <3>1 DEF Shape, AuditInv
      <3> QED BY <3>1, <3>2, LogKept
    <2> QED BY <2>1, <2>2, RequestSteps
  <1> QED BY <1>1, <1>2, <1>3, <1>4 DEF AuditInv

\* The audit log tells the history of every operation: the intent comes first and once, no
\* write reaches Kubernetes before it, and an ended row's last entry is its status and
\* progress (Queue, QueueDeletion and the commit of Process write it with the row).
THEOREM AuditTheorem == Spec => []AuditTellsHistory
  <1>1. ASSUME Init PROVE AuditInv
    <2>1. /\ \A id \in Id : job[id] = NoRow /\ effects[id] = <<>> /\ audit[id] = <<>>
          /\ \A w \in Worker : wk[w] = Idle
          /\ net = {}
      BY <1>1 DEF Init
    <2>2. DOMAIN <<>> = {}
      OBVIOUS
    <2>3. \A id \in Id : job[id].status = "none"
      BY <2>1, DefaultFields, Zenon
    <2>4. \A id \in Id : LogOk(audit[id], job[id])
      BY <2>1, <2>2, <2>3 DEF LogOk, Unqueued, Terminal
    <2> QED BY <2>1, <2>4, DefaultFields DEF AuditInv
  <1>2. IndInv /\ AuditInv /\ [Next]_vars => AuditInv'
    BY NextAuditInv DEF IndInv
  <1>3. ASSUME TypeOK, AuditInv PROVE AuditTellsHistory
    <2> SUFFICES ASSUME NEW id \in Id
                 PROVE  /\ \A i \in DOMAIN audit[id] : audit[id][i].status = "intent" <=> i = 1
                        /\ effects[id] # <<>> => audit[id] # <<>>
                        /\ job[id].status \in Terminal =>
                             audit[id][Len(audit[id])] = [status |-> job[id].status, steps |-> job[id].next]
      BY DEF AuditTellsHistory
    <2>1. LogOk(audit[id], job[id]) /\ (effects[id] # <<>> => job[id].status \notin Unqueued)
      BY <1>3 DEF AuditInv
    <2> QED BY <2>1 DEF LogOk
  <1>4. IndInv => TypeOK
    BY DEF IndInv
  <1> QED BY <1>1, <1>2, <1>3, <1>4, Inductive, PTL DEF Spec
=============================================================================
