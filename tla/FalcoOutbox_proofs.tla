------------------------ MODULE FalcoOutbox_proofs -------------------------
(***************************************************************************)
(* Proofs about FalcoOutbox, for every source, every number of inodes,     *)
(* Pods, requests in Core and events in the outbox, and every bound.       *)
(*                                                                         *)
(* The UID of a Pod named by a line is looked up when the line is parsed,  *)
(* so that a line parsed twice may become two payloads under one event ID, *)
(* which Core answers with a conflict. RecordInv says why this does not    *)
(* happen. A poll parses only lines after the cursor held in memory; the   *)
(* events it finds become durable together with the cursor beyond them,    *)
(* and nothing of them is sent before that. Hence what Core has claimed,   *)
(* or is sent by a request under way, lies before the cursor both in       *)
(* memory and on disk, is not parsed again, and agrees with every copy     *)
(* there is: in memory, on disk, in the poll's work and in the requests.   *)
(***************************************************************************)
EXTENDS FalcoOutbox, WellFoundedInduction, SequenceTheorems, FiniteSetTheorems, TLAPS

-----------------------------------------------------------------------------
(* FlattenSeq, by the least counterexample to what is claimed.              *)

LEMMA NatMin == ASSUME NEW S, \A x \in S : x \in Nat, S # {}
                PROVE  \E x \in S : \A y \in S : x <= y
  <1>1. PICK R : R = OpToRel(<, Nat)
    OBVIOUS
  <1>2. IsWellFoundedOn(R, Nat)
    BY <1>1, NatLessThanWellFounded
  <1>3. \A x, y \in Nat : x < y => <<x, y>> \in R
    BY <1>1 DEF OpToRel
  <1>4. S \subseteq Nat
    OBVIOUS
  <1>5. PICK x \in S : \A y \in S : ~ (<<y, x>> \in R)
    BY <1>2, <1>4, WFMin
  <1>6. \A y \in S : x <= y
    <2> SUFFICES ASSUME NEW y \in S PROVE x <= y
      OBVIOUS
    <2>1. x \in Nat /\ y \in Nat
      BY <1>4
    <2>2. ~ (y < x)
      BY <1>3, <1>5, <2>1
    <2> QED BY <2>1, <2>2
  <1> QED BY <1>6

Flat(f, ss, n) == /\ f = [i \in 1 .. n |-> f[i]]
                  /\ \A i \in 1 .. n : f[i] = IF i = 1 THEN ss[i] ELSE f[i - 1] \o ss[i]

LEMMA FlatTyped ==
    ASSUME NEW S, NEW ss \in Seq(Seq(S)), NEW f, Flat(f, ss, Len(ss))
    PROVE  \A i \in 1 .. Len(ss) : f[i] \in Seq(S)
<1>1. PICK B : B = {i \in 1 .. Len(ss) : f[i] \notin Seq(S)}
  OBVIOUS
<1>2. SUFFICES ASSUME B # {} PROVE FALSE
  BY <1>1
<1>3. \A i \in B : i \in Nat
  BY <1>1
<1>4. PICK i \in B : \A j \in B : i <= j
  BY <1>2, <1>3, NatMin
<1>5. i \in 1 .. Len(ss) /\ f[i] \notin Seq(S) /\ ss[i] \in Seq(S)
  BY <1>1
<1>6. i # 1
  BY <1>5 DEF Flat
<1>7. i - 1 \in 1 .. Len(ss) /\ i - 1 \notin B
  BY <1>4, <1>5, <1>6
<1>8. f[i - 1] \in Seq(S)
  BY <1>1, <1>7
<1>9. f[i] = f[i - 1] \o ss[i]
  BY <1>5, <1>6 DEF Flat
<1> QED
  BY <1>5, <1>8, <1>9

LEMMA FlatExists ==
    ASSUME NEW S, NEW ss \in Seq(Seq(S))
    PROVE  \E f : Flat(f, ss, Len(ss))
<1>1. PICK B : B = {n \in 0 .. Len(ss) : ~ \E f : Flat(f, ss, n)}
  OBVIOUS
<1>2. Len(ss) \in 0 .. Len(ss)
  OBVIOUS
<1>3. SUFFICES ASSUME B # {} PROVE FALSE
  BY <1>1, <1>2, Zenon
<1>4. \A n \in B : n \in Nat
  BY <1>1
<1>5. PICK n \in B : \A j \in B : n <= j
  BY <1>3, <1>4, NatMin
<1>6. n \in 0 .. Len(ss) /\ ~ \E f : Flat(f, ss, n)
  BY <1>1
<1>7. Flat([i \in 1 .. 0 |-> 0], ss, 0)
  BY DEF Flat
<1>8. n # 0
  BY <1>6, <1>7
<1>9. n - 1 \in 0 .. Len(ss) /\ n - 1 \notin B
  BY <1>5, <1>6, <1>8
<1>10. PICK f : Flat(f, ss, n - 1)
  BY <1>1, <1>9
<1>11. PICK g : g = [i \in 1 .. n |-> IF i = 1 THEN ss[i] ELSE f[i - 1] \o ss[i]]
  OBVIOUS
<1>12. g = [i \in 1 .. n |-> g[i]]
  BY <1>11
<1>13. ASSUME NEW i \in 1 .. n PROVE g[i] = IF i = 1 THEN ss[i] ELSE g[i - 1] \o ss[i]
  <2>1. CASE i = 1
    BY <1>11, <2>1
  <2>2. CASE i # 1
    <3>1. i - 1 \in 1 .. n - 1 /\ i - 1 \in 1 .. n
      BY <1>6, <2>2
    <3>2. f[i - 1] = IF i - 1 = 1 THEN ss[i - 1] ELSE f[(i - 1) - 1] \o ss[i - 1]
      BY <3>1, <1>10 DEF Flat
    <3>3. g[i - 1] = f[i - 1]
      BY <1>11, <3>1, <3>2
    <3> QED
      BY <1>11, <2>2, <3>3
  <2> QED
    BY <2>1, <2>2
<1>14. Flat(g, ss, n)
  BY <1>12, <1>13 DEF Flat
<1> QED
  BY <1>6, <1>14

LEMMA FlattenTyped ==
    ASSUME NEW S, NEW ss \in Seq(Seq(S))
    PROVE  FlattenSeq(ss) \in Seq(S)
<1> DEFINE fl == CHOOSE f : f = [i \in 1 .. Len(ss) |-> IF i = 1 THEN ss[i] ELSE f[i - 1] \o ss[i]]
<1>1. PICK g : Flat(g, ss, Len(ss))
  BY FlatExists
<1>2. g = [i \in 1 .. Len(ss) |-> IF i = 1 THEN ss[i] ELSE g[i - 1] \o ss[i]]
  BY <1>1 DEF Flat
<1>3. fl = [i \in 1 .. Len(ss) |-> IF i = 1 THEN ss[i] ELSE fl[i - 1] \o ss[i]]
  BY <1>2
<1>4. Flat(fl, ss, Len(ss))
  <2> HIDE DEF fl
  <2> QED BY <1>3 DEF Flat
<1>5. CASE Len(ss) = 0
  BY <1>5 DEF FlattenSeq
<1>6. CASE Len(ss) # 0
  <2>1. FlattenSeq(ss) = fl[Len(ss)]
    BY <1>6 DEF FlattenSeq
  <2> HIDE DEF fl
  <2> QED BY <2>1, <1>4, <1>6, FlatTyped
<1> QED BY <1>5, <1>6

-----------------------------------------------------------------------------
(* The state.                                                               *)

Inode == Inodes \cup {0, -1}
OutboxFields == {"saved", "inode", "gen", "offset", "pending", "quarantine", "retryAt"}
PollFields == {"pc", "from", "early", "due", "blocked", "left", "stage", "work", "retry",
               "rejected", "next", "err", "dirty", "report", "slot"}
Froms == {"start", "read", "final"}
Asking == {"post", "wait", "save"}

\* The events of an outbox, and the events that Core has been sent.
Ev(o) == Range(o.pending) \cup Range(o.quarantine)
SentOf(rq, cl) ==
    {e \in Events : \/ \E s \in Slots : e \in Range(rq[s].batch)
                    \/ e.id \in DOMAIN cl /\ cl[e.id] = e.pod}
Sent == SentOf(requests, claims)

\* A line of the file that a reader with cursor o has still to read.
Unread(f, o, n) == \E i \in DOMAIN f.lines : /\ f.lines[i] = n
                                             /\ o.gen # f.gen \/ o.offset < i
Passed(f, o, S) == \A e \in S : ~ Unread(f, o, e.id[1])
Agree(S) == \A d, e \in S : d.id = e.id => d = e

OutboxType(o) ==
    /\ DOMAIN o = OutboxFields
    /\ o.inode \in Inode /\ o.gen \in Nat /\ o.offset \in Nat
    /\ o.pending \in Seq(Events) /\ o.quarantine \in Seq(Events)
    /\ o.saved \in BOOLEAN
    /\ ~ o.saved => o.gen = 0 /\ Ev(o) = {}
CursorFits(f, o) ==
    /\ o.gen <= f.gen
    /\ o.gen = f.gen => o.inode = f.inode /\ o.offset <= Len(f.lines)

SourceInv ==
    /\ Lines \in Seq(LineKinds) /\ Lines \in Sources
    /\ written \in 0 .. Len(Lines) /\ podGen \in 1 .. MaxPods
    /\ DOMAIN file = {"inode", "gen", "lines", "partial"}
    /\ file.inode \in Inodes /\ file.gen \in Nat \ {0}
    /\ file.lines \in Seq(1 .. written)
    /\ \A i, j \in DOMAIN file.lines : file.lines[i] = file.lines[j] => i = j

RequestOk(r) == /\ DOMAIN r = {"batch", "next", "status"}
                /\ r.batch \in Seq(Events) /\ r.next \in Nat
                /\ r.status # "conflict"
                /\ r.status \in {"received", "processing"} => r.next > 0

CoreInv ==
    /\ DOMAIN requests = Slots /\ \A s \in Slots : RequestOk(requests[s])
    /\ DOMAIN claims \subseteq EventIds /\ \A id \in DOMAIN claims : claims[id] \in Pods
    /\ DOMAIN effects = EventIds /\ EffectsOnce

ReaderInv ==
    /\ DOMAIN rd = {"init", "inode", "gen", "offset"}
    /\ rd.init \in BOOLEAN /\ rd.inode \in Inode /\ rd.gen \in Nat /\ rd.offset \in Nat
    /\ mem = Unloaded => rd = ColdReader /\ poll = Idle
    /\ mem # Unloaded /\ mem.saved => rd.init
    /\ mem.gen = file.gen => /\ rd.gen = file.gen /\ rd.offset = mem.offset
                             /\ rd.inode \in {0, file.inode}

OutboxInv ==
    /\ OutboxType(mem) /\ CursorFits(file, mem) /\ (mem # Unloaded => mem.inode # -1)
    /\ OutboxType(disk) /\ CursorFits(file, disk) /\ disk.inode # -1
    /\ Valid(mem) /\ Valid(disk)

PollInv ==
    /\ DOMAIN poll = PollFields /\ poll.from \in Froms
    /\ poll.pc \in Asking =>
          /\ mem.saved
          /\ poll.work \in Seq(Seq(Ev(mem))) /\ poll.retry \in Seq(Ev(mem))
          /\ poll.rejected \in Seq(Ev(mem))
          /\ DOMAIN poll.next = OutboxFields /\ poll.next.saved = TRUE
          /\ poll.next.pending \in Seq(Ev(mem)) /\ poll.next.quarantine \in Seq(Ev(mem))
          /\ poll.next.inode = mem.inode /\ poll.next.gen = mem.gen
          /\ poll.next.offset = mem.offset
    /\ poll.pc = "wait" => poll.work # <<>> /\ poll.slot \in Slots
    /\ poll.pc \in {"read", "checkpoint"} => mem.pending = <<>>

\* What is about to be committed: lines that were unread, and a cursor after them.
CheckpointInv ==
    poll.pc = "checkpoint" =>
        /\ OutboxType(poll.next) /\ CursorFits(file, poll.next) /\ poll.next.inode # -1
        /\ poll.next.saved /\ rd.init /\ poll.next.gen = rd.gen /\ poll.next.inode = rd.inode
        /\ poll.next.quarantine = mem.quarantine
        /\ Agree(Range(poll.next.pending))
        /\ \A e \in Range(poll.next.pending) : /\ e.id[1] <= written
                                               /\ \A d \in Sent \cup Ev(mem) : d.id # e.id
        /\ Passed(file, poll.next, Sent \cup Ev(poll.next))

\* One payload for each record, in Core, in its requests, in memory and on disk; and none of
\* it will be read again.
PayloadInv ==
    /\ Agree(Sent \cup Ev(mem) \cup Ev(disk))
    /\ mem # Unloaded => Passed(file, mem, Sent \cup Ev(mem))
    /\ Passed(file, disk, Sent \cup Ev(mem) \cup Ev(disk))
    /\ \A e \in Sent \cup Ev(mem) \cup Ev(disk) : e.id[1] <= written

RecordInv == /\ SourceInv /\ CoreInv /\ ReaderInv /\ OutboxInv /\ PollInv /\ CheckpointInv
             /\ PayloadInv

-----------------------------------------------------------------------------
(* Core: what it holds of the events it was sent only shrinks to claims.    *)

LEMMA SeqAndRange ==
    ASSUME NEW S, NEW s \in Seq(S)
    PROVE  /\ \A x : x \in Range(s) <=> \E i \in 1 .. Len(s) : x = s[i]
           /\ \A x \in Range(s) : x \in S
           /\ s \in Seq(Range(s))
<1>1. DOMAIN s = 1 .. Len(s)
  OBVIOUS
<1>2. \A x : x \in Range(s) <=> \E i \in 1 .. Len(s) : x = s[i]
  BY <1>1 DEF Range
<1>3. s = [i \in 1 .. Len(s) |-> s[i]]
  OBVIOUS
<1>4. s \in Seq(Range(s))
  BY <1>2, <1>3
<1>5. \A x \in Range(s) : x \in S
  BY <1>2
<1> QED BY <1>2, <1>4, <1>5

LEMMA RequestReplaced ==
    ASSUME CoreInv, NEW s \in Slots, NEW r, RequestOk(r), requests' = [requests EXCEPT ![s] = r]
    PROVE  DOMAIN requests' = Slots /\ \A t \in Slots : RequestOk(requests'[t])
<1>1. DOMAIN requests' = Slots
  BY DEF CoreInv
<1>2. ASSUME NEW t \in Slots PROVE RequestOk(requests'[t])
  <2>1. requests'[t] = IF t = s THEN r ELSE requests[t]
    BY DEF CoreInv
  <2>2. CASE t = s
    BY <2>1, <2>2
  <2>3. CASE t # s
    <3>1. requests'[t] = requests[t]
      BY <2>1, <2>3
    <3> QED BY <3>1 DEF CoreInv
  <2> QED BY <2>2, <2>3
<1> QED BY <1>1, <1>2

\* Requests whose batches are as before, or gone.
LEMMA SentShrinks ==
    ASSUME NEW rq, NEW rp, NEW cl, \A s \in Slots : rp[s].batch = rq[s].batch \/ rp[s].batch = <<>>
    PROVE  SentOf(rp, cl) \subseteq SentOf(rq, cl)
<1>1. \A e : e \notin Range(<<>>)
  BY DEF Range
<1> QED
  BY <1>1 DEF SentOf

\* A request is answered or forgotten.
LEMMA Answering ==
    ASSUME CoreInv, NEW s \in Slots, NEW status, status \notin {"conflict", "received"},
           status # "processing" \/ requests[s].next > 0,
           UNCHANGED <<claims, effects>>, Answer(s, status) \/ Drop(s)
    PROVE  CoreInv' /\ Sent' \subseteq Sent
<1>1. PICK q : q = requests[s]
  OBVIOUS
<1>2. RequestOk(q)
  BY <1>1 DEF CoreInv
<1>3. PICK r : r = IF Answer(s, status) THEN [q EXCEPT !.status = status] ELSE NoRequest
  OBVIOUS
<1>4. RequestOk(r) /\ (r.batch = q.batch \/ r.batch = <<>>)
  BY <1>1, <1>2, <1>3 DEF RequestOk, NoRequest
<1>5. requests' = [requests EXCEPT ![s] = r]
  BY <1>1, <1>3 DEF Answer, Drop
<1>6. CoreInv'
  BY <1>4, <1>5, RequestReplaced DEF CoreInv, EffectsOnce
<1>7. \A t \in Slots : requests'[t].batch = requests[t].batch \/ requests'[t].batch = <<>>
  BY <1>1, <1>4, <1>5 DEF CoreInv
<1>8. Sent' = SentOf(requests', claims)
  BY DEF Sent, SentOf
<1> QED BY <1>6, <1>7, <1>8, SentShrinks DEF Sent

LEMMA Ingesting ==
    ASSUME CoreInv, Agree(Sent), NEW s \in Slots, IngestEvent(s)
    PROVE  CoreInv' /\ Sent' \subseteq Sent
<1>1. PICK r : r = requests[s]
  OBVIOUS
<1>2. RequestOk(r) /\ r.next > 0 /\ r.status = "processing" /\ r.next <= Len(r.batch)
  BY <1>1 DEF IngestEvent, CoreInv, RequestOk
<1>3. PICK e : e = r.batch[r.next]
  OBVIOUS
<1>4. e \in Events /\ e \in Range(r.batch)
  BY <1>2, <1>3 DEF Range, RequestOk
<1>5. e \in Sent
  BY <1>1, <1>4 DEF Sent, SentOf
<1>6. e.id \in EventIds /\ e.pod \in Pods
  BY <1>4 DEF Events
<1>7. CASE requests' = [requests EXCEPT ![s].next = @ + 1]
  <2>1. PICK q : q = [r EXCEPT !.next = r.next + 1]
    OBVIOUS
  <2>2. requests' = [requests EXCEPT ![s] = q]
    BY <1>1, <1>7, <2>1
  <2>3. RequestOk(q) /\ q.batch = r.batch
    BY <1>2, <2>1 DEF RequestOk
  <2>4. \A t \in Slots : requests'[t].batch = requests[t].batch
    BY <1>1, <2>2, <2>3 DEF CoreInv
  <2>5. SentOf(requests', claims) \subseteq Sent
    BY <2>4, SentShrinks DEF Sent
  <2>6. DOMAIN requests' = Slots /\ \A t \in Slots : RequestOk(requests'[t])
    BY <2>2, <2>3, RequestReplaced
  <2>7. CASE e.id \in DOMAIN claims
    <3>1. UNCHANGED <<claims, effects>>
      BY <1>1, <1>3, <2>7 DEF IngestEvent
    <3>2. Sent' = SentOf(requests', claims)
      BY <3>1 DEF Sent, SentOf
    <3>3. CoreInv'
      BY <2>6, <3>1 DEF CoreInv, EffectsOnce
    <3> QED BY <2>5, <3>2, <3>3
  <2>8. CASE e.id \notin DOMAIN claims
    <3>1. /\ claims' = [i \in DOMAIN claims \cup {e.id} |-> IF i = e.id THEN e.pod ELSE claims[i]]
          /\ effects' = [effects EXCEPT ![e.id] = @ + 1]
      BY <1>1, <1>3, <2>8 DEF IngestEvent
    <3>2. DOMAIN claims' \subseteq EventIds /\ \A id \in DOMAIN claims' : claims'[id] \in Pods
      BY <1>6, <3>1 DEF CoreInv
    <3>3. DOMAIN effects' = EventIds
      BY <3>1 DEF CoreInv
    <3>4. ASSUME NEW id \in EventIds PROVE effects'[id] = IF id \in DOMAIN claims' THEN 1 ELSE 0
      <4>1. effects[id] = IF id \in DOMAIN claims THEN 1 ELSE 0
        BY DEF CoreInv, EffectsOnce
      <4> QED BY <1>6, <2>8, <3>1, <4>1 DEF CoreInv
    <3>5. CoreInv'
      BY <2>6, <3>2, <3>3, <3>4 DEF CoreInv, EffectsOnce
    <3>6. ASSUME NEW d \in SentOf(requests', claims') PROVE d \in Sent
      <4>1. CASE \E t \in Slots : d \in Range(requests'[t].batch)
        BY <2>5, <4>1 DEF SentOf
      <4>2. CASE d.id \in DOMAIN claims' /\ claims'[d.id] = d.pod
        <5>1. CASE d.id = e.id
          <6>1. d \in Events /\ d.pod = e.pod
            BY <4>2, <5>1, <3>1 DEF SentOf
          <6>2. d = e
            BY <5>1, <6>1, <1>4 DEF Events
          <6> QED BY <1>5, <6>2
        <5>2. CASE d.id # e.id
          BY <4>2, <5>2, <3>1 DEF Sent, SentOf
        <5> QED BY <5>1, <5>2
      <4> QED BY <4>1, <4>2 DEF SentOf
    <3>7. Sent' = SentOf(requests', claims')
      BY DEF Sent, SentOf
    <3> QED BY <3>5, <3>6, <3>7
  <2> QED BY <2>7, <2>8
<1>8. CASE requests' # [requests EXCEPT ![s].next = @ + 1]
  <2>1. e.id \in DOMAIN claims /\ ~ ReplayMatches(e)
    BY <1>1, <1>3, <1>8 DEF IngestEvent
  <2>2. PICK d : d = [id |-> e.id, pod |-> claims[e.id]]
    OBVIOUS
  <2>3. d \in Sent /\ d.id = e.id /\ d.pod = claims[e.id]
    BY <2>1, <2>2 DEF Sent, SentOf, CoreInv, Events
  <2>4. d = e
    BY <1>5, <2>3 DEF Agree
  <2> QED BY <2>1, <2>3, <2>4 DEF ReplayMatches
<1> QED BY <1>7, <1>8

-----------------------------------------------------------------------------
(* Steps that leave most of it alone.                                       *)

LEMMA EventsKnown == ASSUME RecordInv
                     PROVE  Sent \subseteq Events /\ Ev(mem) \subseteq Events /\ Ev(disk) \subseteq Events
  BY SeqAndRange DEF RecordInv, OutboxInv, OutboxType, Ev, Sent, SentOf

\* A step of the poll that keeps the outbox, memory and the cursor.
LEMMA PollFrame ==
    ASSUME RecordInv, UNCHANGED <<sourceVars, disk, mem, rd>>, mem # Unloaded,
           CoreInv', Sent' \subseteq Sent \cup Ev(mem), PollInv', poll'.pc # "checkpoint"
    PROVE  RecordInv'
<1> USE DEF sourceVars
<1>1. SourceInv' /\ OutboxInv' /\ ReaderInv'
  BY DEF RecordInv, SourceInv, OutboxInv, OutboxType, CursorFits, ReaderInv, Ev
<1>2. CheckpointInv'
  BY DEF CheckpointInv
<1>3. Sent' \cup Ev(mem) \cup Ev(disk) \subseteq Sent \cup Ev(mem) \cup Ev(disk)
  OBVIOUS
<1>4. PayloadInv'
  BY <1>3 DEF RecordInv, PayloadInv, Passed, Agree, Unread, Ev
<1> QED BY <1>1, <1>2, <1>4 DEF RecordInv

\* A step of Core: the poll is not touched, and Core knows of no new event.
LEMMA CoreFrame ==
    ASSUME RecordInv, UNCHANGED <<sourceVars, agentVars>>, CoreInv', Sent' \subseteq Sent
    PROVE  RecordInv'
<1> USE DEF sourceVars, agentVars
<1>1. SourceInv' /\ OutboxInv' /\ ReaderInv' /\ PollInv'
  BY DEF RecordInv, SourceInv, OutboxInv, OutboxType, CursorFits, ReaderInv, PollInv, Ev
<1>2. CheckpointInv'
  BY DEF RecordInv, CheckpointInv, OutboxType, CursorFits, Agree, Passed, Unread, Ev
<1>3. Sent' \cup Ev(mem) \cup Ev(disk) \subseteq Sent \cup Ev(mem) \cup Ev(disk)
  OBVIOUS
<1>4. PayloadInv'
  BY <1>3 DEF RecordInv, PayloadInv, Passed, Agree, Unread, Ev
<1> QED BY <1>1, <1>2, <1>4 DEF RecordInv

LEMMA CoreSteps ==
    ASSUME RecordInv, CoreStep \/ CoreFails \/ AnswerUnheard \/ LearnPod \/ ForgetPod
    PROVE  RecordInv'
<1>1. UNCHANGED <<sourceVars, agentVars>>
  BY DEF CoreStep, CoreFails, AnswerUnheard, LearnPod, ForgetPod
<1>2. CASE UNCHANGED <<claims, effects, requests>>
  <2>1. CoreInv' /\ Sent' = Sent
    BY <1>2 DEF RecordInv, CoreInv, EffectsOnce, Sent, SentOf, RequestOk
  <2> QED BY <1>1, <2>1, CoreFrame
<1>3. ASSUME NEW s \in Slots, IngestEvent(s) PROVE RecordInv'
  <2>1. Agree(Sent)
    BY DEF RecordInv, PayloadInv, Agree
  <2>2. CoreInv' /\ Sent' \subseteq Sent
    BY <1>3, <2>1, Ingesting DEF RecordInv
  <2> QED BY <1>1, <2>2, CoreFrame
<1>4. ASSUME NEW s \in Slots, NEW status, status \notin {"conflict", "received"},
             status # "processing" \/ requests[s].next > 0,
             UNCHANGED <<claims, effects>>, Answer(s, status) \/ Drop(s)
      PROVE  RecordInv'
  <2>1. CoreInv' /\ Sent' \subseteq Sent
    BY <1>4, Answering DEF RecordInv
  <2> QED BY <1>1, <2>1, CoreFrame
<1>5. ASSUME NEW s \in Slots, CheckOwnership(s) PROVE RecordInv'
  <2>1. PICK status : /\ status \in {"processing", "ownership"} /\ Answer(s, status)
                      /\ UNCHANGED <<claims, effects>>
    BY <1>5 DEF CheckOwnership
  <2>2. requests[s].next > 0
    BY <1>5 DEF CheckOwnership, RecordInv, CoreInv, RequestOk
  <2> QED BY <2>1, <2>2, <1>4
<1>6. ASSUME NEW s \in Slots, IngestDone(s) \/ IngestFails(s) PROVE RecordInv'
  <2>1. PICK status : /\ status \in {"ok", "unavailable"} /\ Answer(s, status)
                      /\ UNCHANGED <<claims, effects>>
    BY <1>6 DEF IngestDone, IngestFails
  <2> QED BY <2>1, <1>4
<1>7. CASE CoreStep
  BY <1>3, <1>5, <1>6, <1>7 DEF CoreStep, IngestStep
<1>8. CASE CoreFails
  BY <1>6, <1>8 DEF CoreFails
<1>9. CASE AnswerUnheard
  <2>1. PICK s \in Slots : Drop(s) /\ UNCHANGED <<claims, effects>>
    BY <1>9 DEF AnswerUnheard
  <2> QED BY <2>1, <1>4
<1>10. CASE LearnPod \/ ForgetPod
  BY <1>2, <1>10 DEF LearnPod, ForgetPod, PodLearnt, PodForgotten
<1> QED BY <1>7, <1>8, <1>9, <1>10

\* The file as it was, with one more line, or a new one.
LEMMA NextFile ==
    ASSUME NEW f, NEW g, NEW w \in Nat, f.lines \in Seq(1 .. w), f.gen \in Nat,
           \/ /\ g.gen = f.gen /\ g.inode = f.inode
              /\ g.lines = f.lines \/ g.lines = Append(f.lines, w + 1)
           \/ g.gen = f.gen + 1 /\ g.lines = <<>>
    PROVE  /\ \A o : /\ o.gen \in Nat /\ o.offset \in Nat /\ CursorFits(f, o)
                     => CursorFits(g, o) /\ (o.gen = g.gen => o.gen = f.gen /\ g.inode = f.inode)
           /\ \A o, S : Passed(f, o, S) /\ (\A e \in S : e.id[1] <= w) => Passed(g, o, S)
<1>1. ASSUME NEW o, o.gen \in Nat, o.offset \in Nat, CursorFits(f, o)
      PROVE  CursorFits(g, o) /\ (o.gen = g.gen => o.gen = f.gen /\ g.inode = f.inode)
  BY <1>1 DEF CursorFits
<1>2. ASSUME NEW o, NEW S, Passed(f, o, S), \A e \in S : e.id[1] <= w PROVE Passed(g, o, S)
  <2>1. SUFFICES ASSUME NEW e \in S, Unread(g, o, e.id[1]) PROVE FALSE
    BY DEF Passed
  <2>2. PICK i \in DOMAIN g.lines : g.lines[i] = e.id[1] /\ (o.gen # g.gen \/ o.offset < i)
    BY <2>1 DEF Unread
  <2>3. ~ Unread(f, o, e.id[1]) /\ e.id[1] <= w
    BY <1>2, <2>1 DEF Passed
  <2>4. CASE g.gen = f.gen /\ g.lines = f.lines
    BY <2>2, <2>3, <2>4 DEF Unread
  <2>5. CASE g.gen = f.gen /\ g.lines = Append(f.lines, w + 1)
    <3>1. i \in 1 .. Len(f.lines) + 1
      BY <2>2, <2>5
    <3>2. CASE i = Len(f.lines) + 1
      <4>1. g.lines[i] = w + 1
        BY <2>5, <3>2
      <4> QED BY <2>2, <2>3, <4>1
    <3>3. CASE i # Len(f.lines) + 1
      <4>1. g.lines[i] = f.lines[i] /\ i \in DOMAIN f.lines
        BY <2>5, <3>1, <3>3
      <4> QED BY <2>2, <2>3, <2>5, <4>1 DEF Unread
    <3> QED BY <3>2, <3>3
  <2>6. CASE g.lines = <<>>
    BY <2>2, <2>6
  <2> QED BY <2>4, <2>5, <2>6
<1> QED BY <1>1, <1>2

\* Falco, logrotate and Kubernetes: new lines are unread by all.
LEMMA SourceSteps ==
    ASSUME RecordInv, StartLine \/ WriteLine \/ ReplaceFile \/ RecreatePod
    PROVE  RecordInv'
<1>1. UNCHANGED <<ingestVars, agentVars, Lines>>
  BY DEF StartLine, WriteLine, ReplaceFile, RecreatePod
<1>2. CoreInv' /\ Sent' = Sent
  BY <1>1 DEF ingestVars, RecordInv, CoreInv, EffectsOnce, Sent, SentOf, RequestOk
<1>3. PollInv'
  BY <1>1 DEF agentVars, RecordInv, PollInv, Ev
<1>4. \/ /\ file'.gen = file.gen /\ file'.inode = file.inode
         /\ \/ file'.lines = file.lines /\ written' = written
            \/ /\ file'.lines = Append(file.lines, written + 1)
               /\ written < Len(Lines) /\ written' = written + 1
      \/ /\ file'.gen = file.gen + 1 /\ file'.lines = <<>> /\ written' = written
         /\ file'.inode \in Inodes
  <2>1. DOMAIN file = {"inode", "gen", "lines", "partial"}
    BY DEF RecordInv, SourceInv
  <2>2. CASE StartLine
    BY <2>1, <2>2 DEF StartLine
  <2>3. CASE WriteLine
    BY <2>1, <2>3 DEF WriteLine
  <2>4. CASE ReplaceFile
    BY <2>1, <2>4 DEF ReplaceFile
  <2>5. CASE RecreatePod
    BY <2>5 DEF RecreatePod
  <2> QED BY <2>2, <2>3, <2>4, <2>5
<1>5. podGen' \in 1 .. MaxPods /\ DOMAIN file' = DOMAIN file
  <2>1. DOMAIN file = {"inode", "gen", "lines", "partial"} /\ podGen \in 1 .. MaxPods
    BY DEF RecordInv, SourceInv
  <2>2. CASE StartLine
    BY <2>1, <2>2 DEF StartLine
  <2>3. CASE WriteLine
    BY <2>1, <2>3 DEF WriteLine
  <2>4. CASE ReplaceFile
    BY <2>1, <2>4 DEF ReplaceFile
  <2>5. CASE RecreatePod
    BY <2>1, <2>5, LinesAssumption DEF RecreatePod
  <2> QED BY <2>2, <2>3, <2>4, <2>5
<1>6. SourceInv
  BY DEF RecordInv
<1>7. SourceInv'
  <2>1. /\ Lines' \in Seq(LineKinds) /\ Lines' \in Sources /\ written' \in 0 .. Len(Lines')
        /\ file'.inode \in Inodes /\ file'.gen \in Nat \ {0}
    BY <1>1, <1>4, <1>6 DEF SourceInv
  <2>2. /\ file'.lines \in Seq(1 .. written')
        /\ \A i, j \in DOMAIN file'.lines : file'.lines[i] = file'.lines[j] => i = j
    <3>1. CASE file'.lines = file.lines /\ written' = written
      BY <3>1, <1>6 DEF SourceInv
    <3>2. CASE file'.lines = <<>>
      BY <3>2
    <3>3. CASE file'.lines = Append(file.lines, written + 1) /\ written' = written + 1
      <4>1. written \in Nat /\ file.lines \in Seq(1 .. written)
        BY <1>6 DEF SourceInv
      <4>2. file.lines \in Seq(1 .. written + 1)
        BY <4>1
      <4>3. file'.lines \in Seq(1 .. written')
        BY <3>3, <4>1, <4>2
      <4>4. \A i \in DOMAIN file'.lines : /\ i \in 1 .. Len(file.lines) + 1
                                          /\ file'.lines[i] = IF i = Len(file.lines) + 1 THEN written + 1
                                                              ELSE file.lines[i]
        BY <3>3, <4>1
      <4>5. \A i \in 1 .. Len(file.lines) : file.lines[i] # written + 1
        BY <4>1
      <4>6. ASSUME NEW i \in DOMAIN file'.lines, NEW j \in DOMAIN file'.lines,
                   file'.lines[i] = file'.lines[j]
            PROVE  i = j
        <5>1. /\ i \in 1 .. Len(file.lines) + 1 /\ j \in 1 .. Len(file.lines) + 1
              /\ Len(file.lines) \in Nat
          BY <4>1, <4>4
        <5>2. CASE i = Len(file.lines) + 1 /\ j # Len(file.lines) + 1
          BY <4>4, <4>5, <4>6, <5>1, <5>2
        <5>3. CASE i # Len(file.lines) + 1 /\ j = Len(file.lines) + 1
          BY <4>4, <4>5, <4>6, <5>1, <5>3
        <5>4. CASE i # Len(file.lines) + 1 /\ j # Len(file.lines) + 1
          <6>1. file.lines[i] = file.lines[j]
            BY <4>4, <4>6, <5>4
          <6>2. i \in DOMAIN file.lines /\ j \in DOMAIN file.lines
            BY <4>1, <5>1, <5>4
          <6> QED BY <6>1, <6>2, <1>6 DEF SourceInv
        <5> QED BY <5>2, <5>3, <5>4
      <4> QED BY <4>3, <4>6
    <3> QED BY <1>4, <3>1, <3>2, <3>3
  <2> QED BY <1>5, <1>6, <2>1, <2>2 DEF SourceInv
<1>8. PICK f : f = file
  OBVIOUS
<1>9. PICK g : g = file'
  OBVIOUS
<1>10. /\ \A o : /\ o.gen \in Nat /\ o.offset \in Nat /\ CursorFits(f, o)
                 => CursorFits(g, o) /\ (o.gen = g.gen => o.gen = f.gen /\ g.inode = f.inode)
       /\ \A o, S : Passed(f, o, S) /\ (\A e \in S : e.id[1] <= written) => Passed(g, o, S)
  <2>1. written \in Nat /\ f.lines \in Seq(1 .. written) /\ f.gen \in Nat
    BY <1>6, <1>8 DEF SourceInv
  <2> QED BY <1>4, <1>8, <1>9, <2>1, NextFile
<1>11. mem' = mem /\ disk' = disk /\ rd' = rd /\ poll' = poll
  BY <1>1 DEF agentVars
<1>12. OutboxInv'
  BY <1>8, <1>9, <1>10, <1>11 DEF RecordInv, OutboxInv, OutboxType, Ev
<1>13. ReaderInv'
  <2>1. mem.gen \in Nat /\ mem.offset \in Nat /\ CursorFits(f, mem)
    BY <1>8 DEF RecordInv, OutboxInv, OutboxType
  <2>2. mem.gen = g.gen => mem.gen = f.gen /\ g.inode = f.inode
    BY <1>10, <2>1
  <2> QED BY <1>8, <1>9, <1>11, <2>2 DEF RecordInv, ReaderInv
<1>14. written <= written'
  BY <1>4, <1>6 DEF SourceInv
<1>15. \A e \in Events : e.id[1] \in Nat
  BY LinesAssumption DEF Events
<1>16. \A o, S : Passed(file, o, S) /\ (\A e \in S : e.id[1] <= written) => Passed(file', o, S)
  BY <1>8, <1>9, <1>10
<1>17. \A e \in Sent \cup Ev(mem) \cup Ev(disk) : e.id[1] \in Nat /\ e.id[1] <= written
  BY <1>15, EventsKnown DEF RecordInv, PayloadInv
<1>18. CheckpointInv'
  <2>1. SUFFICES ASSUME poll.pc = "checkpoint" PROVE CheckpointInv'
    BY <1>11 DEF CheckpointInv
  <2>2. PICK n : n = poll.next
    OBVIOUS
  <2>3. /\ OutboxType(n) /\ CursorFits(f, n) /\ n.inode # -1
        /\ n.saved /\ rd.init /\ n.gen = rd.gen /\ n.inode = rd.inode
        /\ n.quarantine = mem.quarantine
        /\ Agree(Range(n.pending))
        /\ \A e \in Range(n.pending) : /\ e.id[1] <= written
                                       /\ \A d \in Sent \cup Ev(mem) : d.id # e.id
        /\ Passed(f, n, Sent \cup Ev(n))
    BY <2>1, <2>2, <1>8 DEF RecordInv, CheckpointInv
  <2>4. CursorFits(g, n)
    BY <2>3, <1>10 DEF OutboxType
  <2>5. \A e \in Sent \cup Ev(n) : e.id[1] <= written
    BY <2>3, <1>17 DEF Ev
  <2>6. Passed(g, n, Sent \cup Ev(n))
    BY <2>3, <2>5, <1>10
  <2>7. \A e \in Range(n.pending) : e.id[1] <= written'
    <3>1. \A e \in Range(n.pending) : e.id[1] \in Nat /\ e.id[1] <= written
      BY <2>3, <1>15, SeqAndRange DEF OutboxType
    <3> QED BY <3>1, <1>14, <1>6, <1>7 DEF SourceInv
  <2> QED
    BY <1>2, <1>9, <1>11, <2>1, <2>2, <2>3, <2>4, <2>6, <2>7
       DEF CheckpointInv, OutboxType, CursorFits, Passed, Unread, Agree, Ev
<1>19. PayloadInv'
  <2>1. PICK S, M, D : S = Sent /\ M = Ev(mem) /\ D = Ev(disk)
    OBVIOUS
  <2>2. Sent' = S /\ Ev(mem)' = M /\ Ev(disk)' = D
    BY <1>2, <1>11, <2>1 DEF Ev
  <2>3. Agree(S \cup M \cup D)
    BY <2>1 DEF RecordInv, PayloadInv
  <2>4. mem # Unloaded => Passed(g, mem, S \cup M)
    BY <1>8, <1>10, <1>17, <2>1 DEF RecordInv, PayloadInv
  <2>5. Passed(g, disk, S \cup M \cup D)
    BY <1>8, <1>10, <1>17, <2>1 DEF RecordInv, PayloadInv
  <2>6. \A e \in S \cup M \cup D : e.id[1] <= written'
    BY <1>14, <1>17, <2>1, <1>6, <1>7 DEF SourceInv
  <2> QED
    BY <1>9, <1>11, <2>2, <2>3, <2>4, <2>5, <2>6
       DEF PayloadInv, Passed, Agree, Unread, Unloaded, EmptyOutbox
<1> QED BY <1>2, <1>3, <1>7, <1>12, <1>13, <1>18, <1>19 DEF RecordInv

-----------------------------------------------------------------------------
(* A flush: what it holds are events of the outbox in memory.               *)

LEMMA Busy == ASSUME RecordInv, poll.pc # "idle" PROVE mem # Unloaded
  BY DEF RecordInv, ReaderInv, Idle

\* What a poll holds while it asks Core.
HeldOk(p, E) ==
    /\ DOMAIN p = PollFields /\ p.from \in Froms
    /\ p.work \in Seq(Seq(E)) /\ p.retry \in Seq(E) /\ p.rejected \in Seq(E)
    /\ DOMAIN p.next = OutboxFields /\ p.next.saved = TRUE
    /\ p.next.pending \in Seq(E) /\ p.next.quarantine \in Seq(E)
    /\ p.next.inode = mem.inode /\ p.next.gen = mem.gen /\ p.next.offset = mem.offset

LEMMA HeldInv ==
    ASSUME RecordInv, UNCHANGED mem, poll.pc \in Asking, poll'.pc \in Asking,
           HeldOk(poll', Ev(mem)), poll'.pc = "wait" => poll'.work # <<>> /\ poll'.slot \in Slots
    PROVE  PollInv'
  BY DEF RecordInv, PollInv, HeldOk, Ev, Asking

LEMMA Held == ASSUME RecordInv, poll.pc \in Asking PROVE HeldOk(poll, Ev(mem))
  BY DEF RecordInv, PollInv, HeldOk

LEMMA Answers1 ==
    ASSUME RecordInv, poll.pc = "wait", NEW status, poll' = AfterAnswer(status), UNCHANGED mem
    PROVE  PollInv' /\ poll'.pc = "post"
<1>1. PICK p, E : p = poll /\ E = Ev(mem)
  OBVIOUS
<1>2. HeldOk(p, E) /\ p.work # <<>>
  BY <1>1, Held DEF RecordInv, PollInv, Asking
<1>3. PICK batch : batch = Head(p.work)
  OBVIOUS
<1>4. batch \in Seq(E) /\ Tail(p.work) \in Seq(Seq(E))
  BY <1>2, <1>3 DEF HeldOk
<1>5. PICK r : r = [p EXCEPT !.pc = "post", !.work = Tail(@), !.slot = 0]
  OBVIOUS
<1>6. HeldOk(r, E) /\ r.pc = "post" /\ r.work = Tail(p.work)
  BY <1>2, <1>4, <1>5 DEF HeldOk, PollFields
<1>7. Halves(batch) \in Seq(Seq(E))
  <2>1. PICK mid : mid = Len(batch) \div 2
    OBVIOUS
  <2>2. mid \in Nat /\ mid <= Len(batch)
    BY <1>4, <2>1
  <2>3. SubSeq(batch, 1, mid) \in Seq(E)
    BY <1>4, <2>2
  <2>4. SubSeq(batch, mid + 1, Len(batch)) \in Seq(E)
    BY <1>4, <2>2
  <2>5. Halves(batch) = <<SubSeq(batch, 1, mid), SubSeq(batch, mid + 1, Len(batch))>>
    BY <2>1 DEF Halves
  <2> QED BY <2>3, <2>4, <2>5
<1>8. \/ poll' = r
      \/ poll' = [r EXCEPT !.rejected = @ \o batch]
      \/ poll' = [r EXCEPT !.work = Halves(batch) \o @]
      \/ poll' = [r EXCEPT !.retry = @ \o batch, !.blocked = TRUE, !.err = TRUE]
  BY <1>1, <1>3, <1>5 DEF AfterAnswer
<1>9. HeldOk(poll', E) /\ poll'.pc = "post"
  <2>1. CASE poll' = r
    BY <1>6, <2>1
  <2>2. CASE poll' = [r EXCEPT !.rejected = @ \o batch]
    <3>1. PICK x : x = r.rejected \o batch
      OBVIOUS
    <3>2. x \in Seq(E)
      BY <1>4, <1>6, <3>1 DEF HeldOk
    <3>3. poll' = [r EXCEPT !.rejected = x]
      BY <2>2, <3>1
    <3> QED BY <1>6, <3>2, <3>3 DEF HeldOk, PollFields
  <2>3. CASE poll' = [r EXCEPT !.work = Halves(batch) \o @]
    BY <1>6, <1>7, <2>3 DEF HeldOk, PollFields
  <2>4. CASE poll' = [r EXCEPT !.retry = @ \o batch, !.blocked = TRUE, !.err = TRUE]
    <3>1. PICK x : x = r.retry \o batch
      OBVIOUS
    <3>2. x \in Seq(E)
      BY <1>4, <1>6, <3>1 DEF HeldOk
    <3>3. poll' = [r EXCEPT !.retry = x, !.blocked = TRUE, !.err = TRUE]
      BY <2>4, <3>1
    <3> QED BY <1>6, <3>2, <3>3 DEF HeldOk, PollFields
  <2> QED BY <1>8, <2>1, <2>2, <2>3, <2>4
<1> QED BY <1>1, <1>9, HeldInv DEF Asking

LEMMA EnterFlushStep == ASSUME RecordInv, EnterFlush PROVE RecordInv'
<1>1. /\ UNCHANGED <<sourceVars, disk, mem, rd, ingestVars>> /\ poll.pc = "flush"
      /\ mem # Unloaded /\ DOMAIN poll = PollFields /\ poll.from \in Froms /\ OutboxType(mem)
  BY Busy DEF EnterFlush, RecordInv, PollInv, OutboxInv
<1>2. CoreInv' /\ Sent' = Sent
  BY <1>1 DEF ingestVars, RecordInv, CoreInv, EffectsOnce, Sent, SentOf, RequestOk
<1>3. PICK p : p = poll
  OBVIOUS
<1>4. CASE \E b : poll' = [p EXCEPT !.pc = "flushed", !.err = FALSE, !.blocked = b]
  <2>1. DOMAIN poll' = PollFields /\ poll'.pc = "flushed" /\ poll'.from \in Froms
    BY <1>1, <1>3, <1>4 DEF PollFields
  <2>2. PollInv'
    BY <2>1 DEF PollInv, Asking
  <2> QED BY <1>1, <1>2, <2>1, <2>2, PollFrame
<1>5. CASE /\ mem.pending # <<>> \/ mem.quarantine # <<>>
           /\ poll' = [p EXCEPT !.pc = "post", !.err = FALSE, !.stage = "pending",
                            !.work = IF mem.pending = <<>> THEN <<>> ELSE <<mem.pending>>,
                            !.retry = <<>>, !.rejected = <<>>, !.next = mem]
  <2>1. PICK w, E : w = (IF mem.pending = <<>> THEN <<>> ELSE <<mem.pending>>) /\ E = Ev(mem)
    OBVIOUS
  <2>2. mem.pending \in Seq(E) /\ mem.quarantine \in Seq(E)
    <3>1. \A x \in Range(mem.pending) \cup Range(mem.quarantine) : x \in E
      BY <2>1 DEF Ev
    <3>2. mem.pending \in Seq(Range(mem.pending)) /\ mem.quarantine \in Seq(Range(mem.quarantine))
      BY <1>1, SeqAndRange DEF OutboxType
    <3> QED BY <3>1, <3>2
  <2>3. w \in Seq(Seq(E))
    BY <2>1, <2>2
  <2>4. mem.saved = TRUE
    <3>1. E # {}
      <4>1. ASSUME NEW q, q \in Seq(E), q # <<>> PROVE E # {}
        BY <4>1
      <4> QED BY <4>1, <1>5, <2>2
    <3> QED BY <1>1, <2>1, <3>1 DEF OutboxType
  <2>5. /\ DOMAIN poll' = PollFields /\ poll'.pc = "post" /\ poll'.work = w /\ poll'.retry = <<>>
        /\ poll'.rejected = <<>> /\ poll'.next = mem /\ poll'.from \in Froms
    BY <1>1, <1>3, <1>5, <2>1 DEF PollFields
  <2>6. PollInv'
    BY <1>1, <2>1, <2>2, <2>3, <2>4, <2>5 DEF PollInv, OutboxType, Ev
  <2> QED BY <1>1, <1>2, <2>5, <2>6, PollFrame
<1> QED BY <1>3, <1>4, <1>5 DEF EnterFlush

LEMMA PostStep == ASSUME RecordInv, NEW s \in Slots, Post(s) PROVE RecordInv'
<1>1. /\ UNCHANGED <<sourceVars, disk, mem, rd, claims, effects>> /\ poll.pc = "post"
      /\ mem # Unloaded /\ poll.work # <<>> /\ poll.pc \in Asking
  BY Busy DEF Post, Asking
<1>2. PICK p, E : p = poll /\ E = Ev(mem)
  OBVIOUS
<1>3. HeldOk(p, E)
  BY <1>1, <1>2, Held
<1>4. PICK batch : batch = Head(p.work)
  OBVIOUS
<1>5. batch \in Seq(E) /\ p.work # <<>>
  BY <1>1, <1>2, <1>3, <1>4 DEF HeldOk
<1>6. batch \in Seq(Events)
  <2>1. \A e \in E : e \in Events
    BY <1>2, EventsKnown
  <2> QED BY <1>5, <2>1
<1>7. PICK r : r = [batch |-> batch, next |-> 1, status |-> "received"]
  OBVIOUS
<1>8. RequestOk(r) /\ r.batch = batch
  BY <1>6, <1>7 DEF RequestOk
<1>9. requests' = [requests EXCEPT ![s] = r]
  BY <1>2, <1>4, <1>7 DEF Post, Submitted
<1>10. CoreInv
  BY DEF RecordInv
<1>11. CoreInv'
  BY <1>1, <1>8, <1>9, <1>10, RequestReplaced DEF CoreInv, EffectsOnce
<1>12. Sent' \subseteq Sent \cup Ev(mem)
  <2>1. Sent' = SentOf(requests', claims)
    BY <1>1 DEF Sent, SentOf
  <2>2. \A e \in Range(batch) : e \in E
    BY <1>5, SeqAndRange
  <2>3. \A t \in Slots : requests'[t].batch = IF t = s THEN batch ELSE requests[t].batch
    BY <1>8, <1>9, <1>10 DEF CoreInv
  <2>4. ASSUME NEW e \in SentOf(requests', claims) PROVE e \in Sent \cup E
    <3>1. CASE e.id \in DOMAIN claims /\ claims[e.id] = e.pod
      BY <3>1 DEF Sent, SentOf
    <3>2. CASE \E t \in Slots : e \in Range(requests'[t].batch)
      <4>1. PICK t \in Slots : e \in Range(requests'[t].batch)
        BY <3>2
      <4>2. CASE t = s
        BY <2>2, <2>3, <4>1, <4>2
      <4>3. CASE t # s
        <5>1. e \in Range(requests[t].batch) /\ e \in Events
          BY <2>3, <4>1, <4>3, <2>4 DEF SentOf
        <5> QED BY <5>1 DEF Sent, SentOf
      <4> QED BY <4>2, <4>3
    <3> QED BY <3>1, <3>2 DEF SentOf
  <2> QED BY <1>2, <2>1, <2>4
<1>13. poll' = [p EXCEPT !.pc = "wait", !.slot = s, !.left = @ - 1]
  BY <1>2 DEF Post
<1>14. HeldOk(poll', E) /\ poll'.pc = "wait" /\ poll'.work = p.work /\ poll'.slot = s
  BY <1>3, <1>13 DEF HeldOk, PollFields
<1>15. PollInv'
  BY <1>1, <1>2, <1>5, <1>14, HeldInv DEF Asking
<1> QED BY <1>1, <1>11, <1>12, <1>14, <1>15, PollFrame

LEMMA KeepUnsentStep == ASSUME RecordInv, KeepUnsent PROVE RecordInv'
<1>1. /\ UNCHANGED <<sourceVars, disk, mem, rd, ingestVars>> /\ poll.pc = "post"
      /\ mem # Unloaded /\ poll.work # <<>> /\ poll.pc \in Asking
  BY Busy DEF KeepUnsent, Asking
<1>2. CoreInv' /\ Sent' = Sent
  BY <1>1 DEF ingestVars, RecordInv, CoreInv, EffectsOnce, Sent, SentOf, RequestOk
<1>3. PICK p, E : p = poll /\ E = Ev(mem)
  OBVIOUS
<1>4. HeldOk(p, E)
  BY <1>1, <1>3, Held
<1>5. PICK t, x : t = Tail(p.work) /\ x = p.retry \o Head(p.work)
  OBVIOUS
<1>6. t \in Seq(Seq(E)) /\ x \in Seq(E)
  BY <1>1, <1>3, <1>4, <1>5 DEF HeldOk
<1>7. poll' = [p EXCEPT !.work = t, !.retry = x]
  BY <1>3, <1>5 DEF KeepUnsent
<1>8. HeldOk(poll', E) /\ poll'.pc = p.pc
  BY <1>4, <1>6, <1>7 DEF HeldOk, PollFields
<1>9. PollInv'
  BY <1>1, <1>3, <1>8, HeldInv
<1> QED BY <1>1, <1>2, <1>3, <1>8, <1>9, PollFrame

LEMMA AnsweredStep == ASSUME RecordInv, Answered \/ TimesOut PROVE RecordInv'
<1>1. /\ UNCHANGED <<sourceVars, disk, mem, rd, claims, effects>> /\ poll.pc = "wait"
      /\ mem # Unloaded /\ poll.slot \in Slots
  BY Busy DEF Answered, TimesOut, ingestVars, RecordInv, PollInv
<1>2. PollInv' /\ poll'.pc = "post"
  BY <1>1, Answers1 DEF Answered, TimesOut
<1>3. CoreInv' /\ Sent' \subseteq Sent
  <2>1. CASE Answered
    <3>1. Drop(poll.slot)
      BY <2>1 DEF Answered
    <3> QED BY <1>1, <3>1, Answering DEF RecordInv
  <2>2. CASE TimesOut
    BY <2>2 DEF TimesOut, ingestVars, RecordInv, CoreInv, EffectsOnce, Sent, SentOf, RequestOk
  <2> QED BY <2>1, <2>2
<1> QED BY <1>1, <1>2, <1>3, PollFrame

LEMMA EndStageStep == ASSUME RecordInv, EndStage PROVE RecordInv'
<1>1. /\ UNCHANGED <<sourceVars, disk, mem, rd, ingestVars>> /\ poll.pc = "post"
      /\ mem # Unloaded /\ poll.work = <<>> /\ poll.pc \in Asking
  BY Busy DEF EndStage, Asking
<1>2. CoreInv' /\ Sent' = Sent
  BY <1>1 DEF ingestVars, RecordInv, CoreInv, EffectsOnce, Sent, SentOf, RequestOk
<1>3. PICK p, E : p = poll /\ E = Ev(mem)
  OBVIOUS
<1>4. HeldOk(p, E)
  BY <1>1, <1>3, Held
<1>5. PICK n : n = IF p.stage = "pending"
                   THEN [p.next EXCEPT !.pending = p.retry, !.quarantine = @ \o p.rejected]
                   ELSE [p.next EXCEPT !.quarantine = p.retry \o p.rejected]
  OBVIOUS
<1>6. PICK m : m = p.next
  OBVIOUS
<1>7. /\ DOMAIN m = OutboxFields /\ m.saved = TRUE /\ m.pending \in Seq(E) /\ m.quarantine \in Seq(E)
      /\ m.inode = mem.inode /\ m.gen = mem.gen /\ m.offset = mem.offset
  BY <1>4, <1>6 DEF HeldOk
<1>8. PICK a, b : a = m.quarantine \o p.rejected /\ b = p.retry \o p.rejected
  OBVIOUS
<1>9. a \in Seq(E) /\ b \in Seq(E) /\ p.retry \in Seq(E)
  BY <1>4, <1>7, <1>8 DEF HeldOk
<1>10. n = [m EXCEPT !.pending = p.retry, !.quarantine = a] \/ n = [m EXCEPT !.quarantine = b]
  BY <1>5, <1>6, <1>8
<1>11. /\ DOMAIN n = OutboxFields /\ n.saved = TRUE /\ n.pending \in Seq(E) /\ n.quarantine \in Seq(E)
       /\ n.inode = mem.inode /\ n.gen = mem.gen /\ n.offset = mem.offset
  BY <1>7, <1>9, <1>10 DEF OutboxFields
<1>12. CASE poll' = [p EXCEPT !.stage = "quarantine", !.next = n,
                            !.work = <<n.quarantine>>, !.retry = <<>>, !.rejected = <<>>]
  <2>1. PICK w : w = <<n.quarantine>>
    OBVIOUS
  <2>2. w \in Seq(Seq(E)) /\ <<>> \in Seq(E)
    BY <1>11, <2>1
  <2>3. poll' = [p EXCEPT !.stage = "quarantine", !.next = n, !.work = w, !.retry = <<>>,
                          !.rejected = <<>>]
    BY <1>12, <2>1
  <2>4. /\ DOMAIN poll' = PollFields /\ poll'.pc = p.pc /\ poll'.next = n /\ poll'.work = w
        /\ poll'.retry = <<>> /\ poll'.rejected = <<>> /\ poll'.from \in Froms
    BY <1>4, <2>3 DEF HeldOk, PollFields
  <2>5. HeldOk(poll', E)
    BY <1>11, <2>2, <2>4 DEF HeldOk
  <2>6. PollInv'
    BY <1>1, <1>3, <2>4, <2>5, HeldInv
  <2> QED BY <1>1, <1>2, <1>3, <2>4, <2>6, PollFrame
<1>13. CASE poll' = [p EXCEPT !.pc = "save",
                            !.next = [n EXCEPT !.retryAt = p.blocked, !.saved = TRUE]]
  <2>1. PICK k : k = [n EXCEPT !.retryAt = p.blocked, !.saved = TRUE]
    OBVIOUS
  <2>2. /\ DOMAIN k = OutboxFields /\ k.saved = TRUE /\ k.pending \in Seq(E) /\ k.quarantine \in Seq(E)
        /\ k.inode = mem.inode /\ k.gen = mem.gen /\ k.offset = mem.offset
    BY <1>11, <2>1 DEF OutboxFields
  <2>3. poll' = [p EXCEPT !.pc = "save", !.next = k]
    BY <1>13, <2>1
  <2>4. HeldOk(poll', E) /\ poll'.pc = "save"
    BY <1>4, <2>2, <2>3 DEF HeldOk, PollFields
  <2>5. PollInv'
    BY <1>1, <1>3, <2>4, HeldInv DEF Asking
  <2> QED BY <1>1, <1>2, <2>4, <2>5, PollFrame
<1> QED BY <1>3, <1>5, <1>12, <1>13 DEF EndStage

LEMMA AfterFlushStep == ASSUME RecordInv, AfterFlush \/ ObserveWindow PROVE RecordInv'
<1>1. /\ UNCHANGED <<sourceVars, disk, mem, rd, ingestVars>> /\ poll.pc \in {"flushed", "observe"}
      /\ mem # Unloaded /\ DOMAIN poll = PollFields /\ poll.from \in Froms
  BY Busy DEF AfterFlush, ObserveWindow, RecordInv, PollInv
<1>2. CoreInv' /\ Sent' = Sent
  BY <1>1 DEF ingestVars, RecordInv, CoreInv, EffectsOnce, Sent, SentOf, RequestOk
<1>3. CASE DOMAIN poll' = PollFields /\ poll'.from \in Froms /\ poll'.pc \in {"flush", "observe", "idle"}
  <2>1. PollInv'
    BY <1>3 DEF PollInv, Asking
  <2> QED BY <1>1, <1>2, <1>3, <2>1, PollFrame
<1>4. CASE DOMAIN poll' = PollFields /\ poll'.from \in Froms /\ poll'.pc = "read" /\ mem.pending = <<>>
  <2>1. PollInv'
    BY <1>1, <1>4 DEF PollInv, Asking
  <2> QED BY <1>1, <1>2, <1>4, <2>1, PollFrame
<1>5. CASE ObserveWindow
  <2>1. DOMAIN poll' = PollFields /\ poll'.pc = "idle" /\ poll'.from \in Froms
    BY <1>5 DEF ObserveWindow, Idle, PollFields, Froms
  <2> QED BY <1>3, <2>1
<1>6. CASE AfterFlush
  <2>1. PICK p : p = poll
    OBVIOUS
  <2>2. \/ \E d : poll' = [p EXCEPT !.pc = "flush", !.from = "final", !.dirty = d]
        \/ mem.pending = <<>> /\ poll' = [p EXCEPT !.pc = "read"]
        \/ \E d, r : poll' = [p EXCEPT !.pc = "observe", !.dirty = d, !.report = r]
    BY <1>1, <1>6, <2>1 DEF AfterFlush, Froms
  <2>3. CASE \E d : poll' = [p EXCEPT !.pc = "flush", !.from = "final", !.dirty = d]
    <3>1. DOMAIN poll' = PollFields /\ poll'.pc = "flush" /\ poll'.from = "final"
      BY <1>1, <2>1, <2>3 DEF PollFields
    <3> QED BY <1>3, <3>1 DEF Froms
  <2>4. CASE mem.pending = <<>> /\ poll' = [p EXCEPT !.pc = "read"]
    <3>1. DOMAIN poll' = PollFields /\ poll'.pc = "read" /\ poll'.from = p.from
      BY <1>1, <2>1, <2>4 DEF PollFields
    <3> QED BY <1>1, <1>4, <2>1, <2>4, <3>1
  <2>5. CASE \E d, r : poll' = [p EXCEPT !.pc = "observe", !.dirty = d, !.report = r]
    <3>1. DOMAIN poll' = PollFields /\ poll'.pc = "observe" /\ poll'.from = p.from
      BY <1>1, <2>1, <2>5 DEF PollFields
    <3> QED BY <1>1, <1>3, <2>1, <3>1
  <2> QED BY <2>2, <2>3, <2>4, <2>5
<1> QED BY <1>1, <1>5, <1>6

-----------------------------------------------------------------------------
(* Steps that change the outbox in memory or on disk.                       *)

LEMMA OutboxFrame ==
    ASSUME RecordInv, UNCHANGED <<ingestVars, sourceVars>>, ReaderInv', PollInv', poll'.pc # "checkpoint",
           OutboxType(mem'), CursorFits(file, mem'), OutboxType(disk'), CursorFits(file, disk'),
           disk'.inode # -1, mem' # Unloaded => mem'.inode # -1, Valid(mem'), Valid(disk'),
           Agree(Sent \cup Ev(mem') \cup Ev(disk')),
           mem' # Unloaded => Passed(file, mem', Sent \cup Ev(mem')),
           Passed(file, disk', Sent \cup Ev(mem') \cup Ev(disk')),
           \A e \in Ev(mem') \cup Ev(disk') : e.id[1] <= written
    PROVE  RecordInv'
<1> USE DEF ingestVars, sourceVars
<1>1. SourceInv' /\ CoreInv' /\ Sent' = Sent
  BY DEF RecordInv, SourceInv, CoreInv, EffectsOnce, RequestOk, Sent, SentOf
<1>2. CheckpointInv'
  BY DEF CheckpointInv
<1>3. file' = file /\ written' = written
  OBVIOUS
<1>4. OutboxInv'
  BY <1>3 DEF OutboxInv
<1>5. \A e \in Sent : e.id[1] <= written
  BY DEF RecordInv, PayloadInv
<1>6. PayloadInv'
  BY <1>1, <1>3, <1>5 DEF PayloadInv
<1> QED BY <1>1, <1>2, <1>4, <1>6 DEF RecordInv

LEMMA StartPollStep ==
    ASSUME RecordInv, NEW early, NEW due, StartPoll(early, due)
    PROVE  RecordInv'
<1>1. /\ UNCHANGED <<ingestVars, sourceVars, disk>> /\ poll.pc = "idle"
      /\ poll' = [Idle EXCEPT !.pc = "flush", !.early = early, !.due = due, !.left = RequestLimit]
  BY DEF StartPoll
<1>2. DOMAIN poll' = PollFields /\ poll'.pc = "flush" /\ poll'.from \in Froms
  BY <1>1 DEF Idle, PollFields, Froms
<1>3. PollInv'
  BY <1>2 DEF PollInv, Asking
<1>4. CASE mem # Unloaded
  <2>1. mem' = mem /\ rd' = rd
    BY <1>4 DEF StartPoll, Loaded, RecordInv, ReaderInv
  <2> QED
    BY <1>1, <1>2, <1>3, <1>4, <2>1, PollFrame
       DEF ingestVars, RecordInv, CoreInv, EffectsOnce, Sent, SentOf, RequestOk
<1>5. CASE mem = Unloaded
  <2>1. mem' = disk /\ rd = ColdReader
    BY <1>5 DEF StartPoll, Loaded, RecordInv, ReaderInv
  <2>2. rd' = IF disk.saved THEN [init |-> TRUE, inode |-> 0, gen |-> disk.gen, offset |-> disk.offset]
              ELSE rd
    BY <1>5, <2>1 DEF StartPoll, Loaded, ColdReader
  <2>3. OutboxType(disk) /\ CursorFits(file, disk) /\ disk.inode # -1 /\ file.gen \in Nat \ {0}
    BY DEF RecordInv, OutboxInv, SourceInv
  <2>4. disk # Unloaded
    BY <2>3 DEF Unloaded, EmptyOutbox
  <2>5. ReaderInv'
    <3>1. CASE disk.saved
      BY <1>1, <2>1, <2>2, <2>3, <2>4, <3>1 DEF sourceVars, ReaderInv, OutboxType, Inode
    <3>2. CASE ~ disk.saved
      <4>1. disk.gen # file.gen
        BY <2>3, <3>2 DEF OutboxType
      <4>2. rd' = ColdReader
        BY <2>1, <2>2, <3>2
      <4> QED
        BY <1>1, <2>1, <2>4, <3>2, <4>1, <4>2 DEF sourceVars, ReaderInv, ColdReader, Inode
    <3> QED BY <3>1, <3>2
  <2>6. Ev(mem') = Ev(disk) /\ Ev(disk') = Ev(disk) /\ disk' = disk
    BY <1>1, <2>1
  <2>7. /\ Agree(Sent \cup Ev(disk) \cup Ev(disk)) /\ Passed(file, disk, Sent \cup Ev(disk))
        /\ Passed(file, disk, Sent \cup Ev(disk) \cup Ev(disk))
        /\ \A e \in Ev(disk) \cup Ev(disk) : e.id[1] <= written
    BY DEF RecordInv, PayloadInv, Agree, Passed
  <2>8. Valid(mem') /\ Valid(disk')
    BY <1>1, <2>1 DEF RecordInv, OutboxInv
  <2> QED
    BY <1>1, <1>2, <1>3, <2>1, <2>3, <2>5, <2>6, <2>7, <2>8, OutboxFrame
<1> QED BY <1>4, <1>5

LEMMA CrashStep == ASSUME RecordInv, Crash PROVE RecordInv'
<1>1. /\ UNCHANGED <<ingestVars, sourceVars, disk>> /\ mem' = Unloaded /\ rd' = ColdReader
      /\ poll' = Idle
  BY DEF Crash
<1>2. OutboxType(Unloaded) /\ Ev(Unloaded) = {} /\ Unloaded.gen = 0
  BY DEF OutboxType, Unloaded, EmptyOutbox, Ev, Range, Inode, OutboxFields
<1>3. /\ OutboxType(disk) /\ CursorFits(file, disk) /\ disk.inode # -1 /\ file.gen \in Nat \ {0}
      /\ CursorFits(file, Unloaded)
  BY <1>2 DEF RecordInv, OutboxInv, SourceInv, CursorFits
<1>4. PollInv' /\ poll'.pc = "idle"
  BY <1>1 DEF PollInv, Idle, PollFields, Froms, Asking
<1>5. ReaderInv'
  BY <1>1, <1>2, <1>3 DEF sourceVars, ReaderInv, ColdReader, Inode
<1>6. /\ Agree(Sent \cup Ev(Unloaded) \cup Ev(disk))
      /\ Passed(file, disk, Sent \cup Ev(Unloaded) \cup Ev(disk))
      /\ \A e \in Ev(Unloaded) \cup Ev(disk) : e.id[1] <= written
  BY <1>2 DEF RecordInv, PayloadInv, Agree, Passed
<1>7. mem' = Unloaded /\ disk' = disk
  BY <1>1
<1>8. Valid(mem') /\ Valid(disk')
  <2>1. Unloaded.pending \o Unloaded.quarantine = <<>> /\ Unloaded.offset = 0
    BY DEF Unloaded, EmptyOutbox
  <2>2. Valid(Unloaded)
    BY <2>1, LinesAssumption DEF Valid
  <2> QED BY <1>7, <2>2 DEF RecordInv, OutboxInv
<1> QED
  BY <1>1, <1>2, <1>3, <1>4, <1>5, <1>6, <1>7, <1>8, OutboxFrame

\* A save that is refused, that fails or that is done: the new outbox is on disk, or not, and
\* in memory only when it is on disk.
LEMMA SaveOutcomes ==
    ASSUME SaveDone \/ SaveFailed
    PROVE  \/ SaveDone /\ disk' = poll.next /\ mem' = poll.next /\ Valid(poll.next)
           \/ /\ SaveFailed /\ mem' = mem
              /\ disk' = disk \/ (disk' = poll.next /\ Valid(poll.next))
  BY DEF SaveDone, SaveFailed

LEMMA SaveFlushStep == ASSUME RecordInv, SaveFlush PROVE RecordInv'
<1>1. /\ UNCHANGED <<ingestVars, sourceVars, rd>> /\ poll.pc = "save" /\ poll.pc \in Asking
      /\ mem # Unloaded /\ (SaveDone \/ SaveFailed)
      /\ \E err : poll' = FlushEnds(err)
  BY Busy DEF SaveFlush, Asking
<1>2. PICK n, E : n = poll.next /\ E = Ev(mem)
  OBVIOUS
<1>3. /\ DOMAIN n = OutboxFields /\ n.saved = TRUE /\ n.pending \in Seq(E) /\ n.quarantine \in Seq(E)
      /\ n.inode = mem.inode /\ n.gen = mem.gen /\ n.offset = mem.offset /\ mem.saved
  BY <1>1, <1>2, Held DEF HeldOk, RecordInv, PollInv
<1>4. \A e \in Ev(n) : e \in E
  BY <1>3, SeqAndRange DEF Ev
<1>5. n.pending \in Seq(Events) /\ n.quarantine \in Seq(Events)
  <2>1. \A e \in E : e \in Events
    BY <1>2, EventsKnown
  <2> QED BY <1>3, <2>1
<1>6. /\ OutboxType(mem) /\ CursorFits(file, mem) /\ mem.inode # -1
      /\ OutboxType(disk) /\ CursorFits(file, disk) /\ disk.inode # -1
  BY <1>1 DEF RecordInv, OutboxInv
<1>7. OutboxType(n) /\ CursorFits(file, n) /\ n.inode # -1 /\ n # Unloaded
  BY <1>3, <1>5, <1>6 DEF OutboxType, CursorFits, Unloaded, EmptyOutbox
<1>8. DOMAIN poll' = PollFields /\ poll'.pc = "flushed" /\ poll'.from \in Froms
  BY <1>1 DEF FlushEnds, RecordInv, PollInv, PollFields
<1>9. PollInv'
  BY <1>8 DEF PollInv, Asking
<1>10. ReaderInv' /\ (mem' = mem \/ mem' = n)
  <2>1. mem' = mem \/ mem' = n
    BY <1>1, <1>2, SaveOutcomes
  <2>2. mem'.saved = mem.saved /\ mem'.gen = mem.gen /\ mem'.offset = mem.offset /\ mem' # Unloaded
    BY <2>1, <1>1, <1>3, <1>6, <1>7 DEF OutboxType
  <2> QED BY <1>1, <2>1, <2>2 DEF RecordInv, ReaderInv, sourceVars
<1>11. (disk' = disk /\ mem' = mem) \/ disk' = n
  BY <1>1, <1>2, SaveOutcomes
<1>12. PICK S, D : S = Sent /\ D = Ev(disk)
  OBVIOUS
<1>13. /\ Agree(S \cup E \cup D) /\ Passed(file, mem, S \cup E) /\ Passed(file, disk, S \cup E \cup D)
       /\ \A e \in S \cup E \cup D : e.id[1] <= written
  BY <1>1, <1>2, <1>12 DEF RecordInv, PayloadInv
<1>14. Passed(file, n, S \cup E)
  BY <1>3, <1>13 DEF Passed, Unread
<1>15. Ev(mem') \subseteq E /\ Ev(mem') \cup Ev(disk') \subseteq E \cup D
  <2>1. Ev(n) \subseteq E
    BY <1>4
  <2> QED BY <1>2, <1>10, <1>11, <1>12, <2>1
<1>16. Agree(Sent \cup Ev(mem') \cup Ev(disk'))
  BY <1>12, <1>13, <1>15 DEF Agree
<1>17. Passed(file, mem', Sent \cup Ev(mem'))
  BY <1>10, <1>12, <1>13, <1>14, <1>15 DEF Passed
<1>18. Passed(file, disk', Sent \cup Ev(mem') \cup Ev(disk'))
  <2>1. CASE disk' = disk /\ mem' = mem
    BY <1>2, <1>12, <1>13, <2>1
  <2>2. CASE disk' = n
    <3>1. Ev(disk') \subseteq E
      BY <1>4, <2>2
    <3> QED BY <1>12, <1>14, <1>15, <2>2, <3>1 DEF Passed
  <2> QED BY <1>11, <2>1, <2>2
<1>19. \A e \in Ev(mem') \cup Ev(disk') : e.id[1] <= written
  BY <1>13, <1>15
<1>20. /\ OutboxType(mem') /\ CursorFits(file, mem') /\ mem'.inode # -1
       /\ OutboxType(disk') /\ CursorFits(file, disk') /\ disk'.inode # -1
  BY <1>6, <1>7, <1>10, <1>11
<1>21. Valid(mem') /\ Valid(disk')
  BY <1>1, SaveOutcomes DEF RecordInv, OutboxInv
<1> QED
  BY <1>1, <1>8, <1>9, <1>10, <1>16, <1>17, <1>18, <1>19, <1>20, <1>21, OutboxFrame

LEMMA CheckpointStep == ASSUME RecordInv, Checkpoint PROVE RecordInv'
<1>1. /\ UNCHANGED <<ingestVars, sourceVars>> /\ poll.pc = "checkpoint"
      /\ mem # Unloaded /\ (SaveDone \/ SaveFailed)
  BY Busy DEF Checkpoint
<1>2. PICK n : n = poll.next
  OBVIOUS
<1>3. PICK S, M, D : S = Sent /\ M = Ev(mem) /\ D = Ev(disk)
  OBVIOUS
<1>4. /\ OutboxType(n) /\ CursorFits(file, n) /\ n.inode # -1
      /\ n.saved /\ rd.init /\ n.gen = rd.gen /\ n.inode = rd.inode
      /\ n.quarantine = mem.quarantine /\ mem.pending = <<>>
      /\ Agree(Range(n.pending))
      /\ \A e \in Range(n.pending) : /\ e.id[1] <= written /\ \A d \in S \cup M : d.id # e.id
      /\ Passed(file, n, S \cup Ev(n))
  BY <1>1, <1>2, <1>3 DEF RecordInv, CheckpointInv, PollInv
<1>5. /\ OutboxType(mem) /\ CursorFits(file, mem) /\ mem.inode # -1
      /\ OutboxType(disk) /\ CursorFits(file, disk) /\ disk.inode # -1
  BY <1>1 DEF RecordInv, OutboxInv
<1>6. /\ Agree(S \cup M \cup D) /\ Passed(file, mem, S \cup M) /\ Passed(file, disk, S \cup M \cup D)
      /\ \A e \in S \cup M \cup D : e.id[1] <= written
  BY <1>1, <1>3 DEF RecordInv, PayloadInv
<1>7. M \subseteq Ev(n) /\ \A e \in Ev(n) : e \in M \/ e \in Range(n.pending)
  BY <1>3, <1>4 DEF Ev, Range
<1>8. Agree(S \cup M \cup Ev(n)) /\ Agree(S \cup Ev(n))
  BY <1>4, <1>6, <1>7 DEF Agree
<1>9. Passed(file, n, S \cup M \cup Ev(n))
  BY <1>4, <1>7 DEF Passed
<1>10. \A e \in Ev(n) : e.id[1] <= written
  BY <1>4, <1>6, <1>7
<1>11. n # Unloaded
  BY <1>4 DEF Unloaded, EmptyOutbox
<1>12. DOMAIN poll' = PollFields /\ poll'.pc = "flush" /\ poll'.from \in Froms
  BY <1>1 DEF Checkpoint, RecordInv, PollInv, PollFields, Froms
<1>13. PollInv'
  BY <1>12 DEF PollInv, Asking
<1>14. CASE SaveDone /\ rd' = [rd EXCEPT !.offset = n.offset]
  <2>1. mem' = n /\ disk' = n
    BY <1>2, <1>14 DEF SaveDone
  <2>2. DOMAIN rd = {"init", "inode", "gen", "offset"} /\ rd.inode \in Inode /\ rd.gen \in Nat
    BY DEF RecordInv, ReaderInv
  <2>3. /\ DOMAIN rd' = {"init", "inode", "gen", "offset"} /\ rd'.init = rd.init
        /\ rd'.inode = rd.inode /\ rd'.gen = rd.gen /\ rd'.offset = n.offset
    BY <2>2, <1>14
  <2>4. n.offset \in Nat /\ (n.gen = file.gen => n.inode = file.inode) /\ rd.init \in BOOLEAN
    BY <1>4 DEF OutboxType, CursorFits, RecordInv, ReaderInv
  <2>5. ReaderInv'
    BY <1>1, <1>4, <1>11, <2>1, <2>2, <2>3, <2>4 DEF ReaderInv, sourceVars
  <2>6. Agree(Sent \cup Ev(mem') \cup Ev(disk')) /\ Passed(file, mem', Sent \cup Ev(mem'))
    BY <1>3, <1>4, <1>8, <2>1 DEF Agree
  <2>7. Passed(file, disk', Sent \cup Ev(mem') \cup Ev(disk'))
    BY <1>3, <1>4, <2>1 DEF Passed
  <2>8. \A e \in Ev(mem') \cup Ev(disk') : e.id[1] <= written
    BY <1>10, <2>1
  <2>9. /\ OutboxType(mem') /\ CursorFits(file, mem') /\ mem'.inode # -1
        /\ OutboxType(disk') /\ CursorFits(file, disk') /\ disk'.inode # -1
    BY <1>4, <2>1
  <2>10. Valid(mem') /\ Valid(disk')
    BY <1>14 DEF SaveDone
  <2> QED BY <1>1, <1>12, <1>13, <2>5, <2>6, <2>7, <2>8, <2>9, <2>10, OutboxFrame
<1>15. CASE SaveFailed /\ rd' = rd
  <2>1. mem' = mem /\ (disk' = disk \/ disk' = n)
    BY <1>2, <1>15 DEF SaveFailed
  <2>2. ReaderInv'
    BY <1>1, <1>15, <2>1 DEF RecordInv, ReaderInv, sourceVars
  <2>3. Ev(mem') = M /\ (Ev(disk') = D \/ (disk' = n /\ Ev(disk') = Ev(n)))
    BY <1>3, <2>1
  <2>4. Agree(Sent \cup Ev(mem') \cup Ev(disk')) /\ Passed(file, mem', Sent \cup Ev(mem'))
    BY <1>3, <1>6, <1>8, <2>1
  <2>5. Passed(file, disk', Sent \cup Ev(mem') \cup Ev(disk'))
    BY <1>3, <1>6, <1>9, <2>1
  <2>6. \A e \in Ev(mem') \cup Ev(disk') : e.id[1] <= written
    BY <1>6, <1>10, <2>3
  <2>7. /\ OutboxType(mem') /\ CursorFits(file, mem') /\ mem'.inode # -1
        /\ OutboxType(disk') /\ CursorFits(file, disk') /\ disk'.inode # -1
    BY <1>4, <1>5, <2>1
  <2>8. Valid(mem') /\ Valid(disk')
    BY <1>15, SaveOutcomes DEF RecordInv, OutboxInv, SaveFailed
  <2> QED BY <1>1, <1>12, <1>13, <2>2, <2>4, <2>5, <2>6, <2>7, <2>8, OutboxFrame
<1> QED BY <1>2, <1>14, <1>15 DEF Checkpoint

-----------------------------------------------------------------------------
(* A read: the lines it takes are unread by the outbox in memory.           *)

\* The lines from some position on, and how many of them.
LEMMA Slice ==
    ASSUME NEW S, NEW s \in Seq(S), NEW a \in 0 .. Len(s), NEW b \in 0 .. Len(s)
    PROVE  /\ SubSeq(s, a + 1, b) \in Seq(S)
           /\ Len(SubSeq(s, a + 1, b)) = IF a <= b THEN b - a ELSE 0
           /\ \A i \in 1 .. b - a : SubSeq(s, a + 1, b)[i] = s[a + i]
<1>1. a + 1 \in Int /\ b \in Int /\ \A i \in a + 1 .. b : s[i] \in S
  OBVIOUS
<1>2. PICK m : m = a + 1
  OBVIOUS
<1>3. m \in Int /\ \A i \in m .. b : s[i] \in S
  BY <1>1, <1>2
<1>4. /\ SubSeq(s, m, b) \in Seq(S)
      /\ Len(SubSeq(s, m, b)) = IF m <= b THEN b - m + 1 ELSE 0
      /\ \A i \in 1 .. b - m + 1 : SubSeq(s, m, b)[i] = s[m + i - 1]
  BY <1>1, <1>3, SubSeqProperties
<1>5. \A i \in 1 .. b - a : i \in 1 .. b - m + 1 /\ m + i - 1 = a + i
  BY <1>2
<1> QED BY <1>2, <1>4, <1>5

\* The Pod of the events of a line, when they have one.
PodFor(n, uid) == IF Lines[n] = "named" THEN uid ELSE 1
EventsIn(S, uid) == {e \in Events : /\ e.id[1] \in S /\ e.pod = PodFor(e.id[1], uid)
                                   /\ e.id \in EventSet}

LEMMA EventsOfLine ==
    ASSUME SourceInv, NEW n \in 1 .. written, NEW uid \in 0 .. podGen, NEW S, n \in S
    PROVE  EventsOf(n, uid) \in Seq(EventsIn(S, uid))
<1>1. n \in DOMAIN Lines /\ Lines[n] \in LineKinds
  BY DEF SourceInv
<1>2. <<n, 1>> \in EventIds /\ <<n, 2>> \in EventIds
  BY <1>1, LinesAssumption DEF SourceInv
<1>3. PICK pod : pod = PodFor(n, uid)
  OBVIOUS
<1>4. pod # 0 => pod \in Pods
  <2>1. pod \in 0 .. MaxPods
    BY <1>3, LinesAssumption DEF PodFor, SourceInv
  <2> QED BY <2>1, LinesAssumption
<1>5. PICK a, b : a = [id |-> <<n, 1>>, pod |-> pod] /\ b = [id |-> <<n, 2>>, pod |-> pod]
  OBVIOUS
<1>6. /\ pod # 0 /\ <<n, 1>> \in EventSet => a \in EventsIn(S, uid)
      /\ pod # 0 /\ <<n, 2>> \in EventSet => b \in EventsIn(S, uid)
  BY <1>2, <1>3, <1>4, <1>5 DEF EventsIn, Events
<1>7. \/ EventsOf(n, uid) = <<>>
      \/ pod # 0 /\ EventsOf(n, uid) = <<a, b>> /\ <<n, 1>> \in EventSet /\ <<n, 2>> \in EventSet
      \/ pod # 0 /\ EventsOf(n, uid) = <<a>> /\ <<n, 1>> \in EventSet
  <2>1. CASE Lines[n] \in {"bad", "blank"} \/ pod = 0
    BY <1>3, <2>1 DEF EventsOf, PodFor
  <2>2. CASE pod # 0 /\ Lines[n] = "pair"
    <3>1. EventsOf(n, uid) = <<a, b>>
      BY <1>3, <1>5, <2>2 DEF EventsOf, PodFor
    <3> QED BY <1>1, <2>2, <3>1 DEF EventSet
  <2>3. CASE pod # 0 /\ Lines[n] \in {"uid", "named"}
    <3>1. EventsOf(n, uid) = <<a>>
      BY <1>3, <1>5, <2>3 DEF EventsOf, PodFor
    <3> QED BY <1>1, <2>3, <3>1 DEF EventSet
  <2> QED BY <1>1, <2>1, <2>2, <2>3 DEF LineKinds
<1>8. ASSUME NEW E, NEW x \in E, NEW y \in E PROVE <<x>> \in Seq(E) /\ <<x, y>> \in Seq(E)
  OBVIOUS
<1>9. /\ pod # 0 /\ <<n, 1>> \in EventSet => <<a>> \in Seq(EventsIn(S, uid))
      /\ pod # 0 /\ <<n, 1>> \in EventSet /\ <<n, 2>> \in EventSet => <<a, b>> \in Seq(EventsIn(S, uid))
  BY <1>6, <1>8
<1>10. <<>> \in Seq(EventsIn(S, uid))
  OBVIOUS
<1> QED BY <1>7, <1>9, <1>10, Zenon

LEMMA ParsedEvents ==
    ASSUME SourceInv, NEW lines \in Seq(1 .. written), NEW uid \in 0 .. podGen
    PROVE  Parsed(lines, uid) \in Seq(EventsIn(Range(lines), uid))
<1>1. PICK E : E = EventsIn(Range(lines), uid)
  OBVIOUS
<1>2. PICK ss : ss = [i \in DOMAIN lines |-> EventsOf(lines[i], uid)]
  OBVIOUS
<1>3. ASSUME NEW i \in DOMAIN lines PROVE ss[i] \in Seq(E)
  <2>0. i \in 1 .. Len(lines)
    OBVIOUS
  <2>1. lines[i] \in 1 .. written /\ lines[i] \in Range(lines)
    BY <2>0, SeqAndRange
  <2> QED BY <1>1, <1>2, <2>1, EventsOfLine
<1>4. DOMAIN lines = 1 .. Len(lines) /\ Len(lines) \in Nat
  OBVIOUS
<1>5. ss \in [1 .. Len(lines) -> Seq(E)]
  BY <1>2, <1>3, <1>4
<1>6. ss \in Seq(Seq(E))
  BY <1>4, <1>5
<1> QED BY <1>1, <1>2, <1>6, FlattenTyped DEF Parsed

LEMMA ParsedNothing == ASSUME NEW uid PROVE Parsed(<<>>, uid) = <<>>
<1>1. PICK ss : ss = [i \in DOMAIN <<>> |-> EventsOf(<<>>[i], uid)]
  OBVIOUS
<1>2. ss = <<>>
  BY <1>1
<1> QED BY <1>1, <1>2 DEF Parsed, FlattenSeq

\* The lines taken fit.
LEMMA FitsFits ==
    ASSUME SourceInv, NEW lines \in Seq(1 .. written), NEW uid \in 0 .. podGen, NEW room \in Nat
    PROVE  /\ Fits(lines, uid, room) \in 0 .. Len(lines)
           /\ Len(Parsed(SubSeq(lines, 1, Fits(lines, uid, room)), uid)) <= room
<1> DEFINE L(k) == Len(Parsed(SubSeq(lines, 1, k), uid))
<1>1. \A k \in 0 .. Len(lines) : L(k) \in Nat
  <2>1. SUFFICES ASSUME NEW k \in 0 .. Len(lines) PROVE L(k) \in Nat
    OBVIOUS
  <2>2. PICK W : W = 1 .. written
    OBVIOUS
  <2>3. lines \in Seq(W) /\ 0 \in 0 .. Len(lines)
    BY <2>2
  <2>4. SubSeq(lines, 0 + 1, k) \in Seq(W)
    BY <2>3, Slice
  <2>5. SubSeq(lines, 1, k) \in Seq(1 .. written)
    BY <2>2, <2>4
  <2> QED BY <2>5, ParsedEvents
<1>2. L(0) = 0
  <2>1. SubSeq(lines, 1, 0) = <<>>
    OBVIOUS
  <2>2. Len(<<>>) = 0
    OBVIOUS
  <2> QED BY <2>1, <2>2, ParsedNothing
<1>3. PICK B : B = {Len(lines) - k : k \in {k \in 0 .. Len(lines) : L(k) <= room}}
  OBVIOUS
<1> HIDE DEF L
<1>4. Len(lines) \in B /\ \A x \in B : x \in Nat
  BY <1>2, <1>3
<1>5. PICK x \in B : \A y \in B : x <= y
  BY <1>4, NatMin
<1>6. PICK k \in 0 .. Len(lines) : x = Len(lines) - k /\ L(k) <= room
  BY <1>3
<1>7. ASSUME NEW j \in k + 1 .. Len(lines) PROVE L(j) > room
  <2>1. CASE L(j) <= room
    <3>1. Len(lines) - j \in B
      BY <1>3, <1>6, <2>1
    <3>2. x <= Len(lines) - j
      BY <1>5, <3>1
    <3> QED BY <1>6, <3>2
  <2>2. j \in 0 .. Len(lines)
    BY <1>6
  <2> QED BY <1>1, <2>1, <2>2
<1>8. \E i \in 0 .. Len(lines) : /\ L(i) <= room /\ \A j \in i + 1 .. Len(lines) : L(j) > room
  BY <1>6, <1>7
<1>9. PICK f : f = Fits(lines, uid, room)
  OBVIOUS
<1>10. f = CHOOSE i \in 0 .. Len(lines) : /\ L(i) <= room /\ \A j \in i + 1 .. Len(lines) : L(j) > room
  BY <1>9 DEF Fits, L
<1>11. f \in 0 .. Len(lines) /\ L(f) <= room
  BY <1>8, <1>10
<1> QED BY <1>9, <1>11 DEF L

LEMMA ReadFrame ==
    ASSUME RecordInv, UNCHANGED <<ingestVars, sourceVars, disk, mem>>, ReaderInv', PollInv', CheckpointInv'
    PROVE  RecordInv'
<1> USE DEF ingestVars, sourceVars
<1>1. SourceInv' /\ CoreInv' /\ Sent' = Sent
  BY DEF RecordInv, SourceInv, CoreInv, EffectsOnce, RequestOk, Sent, SentOf
<1>2. file' = file /\ written' = written /\ mem' = mem /\ disk' = disk
  OBVIOUS
<1>3. OutboxInv'
  BY <1>2 DEF RecordInv, OutboxInv, Unloaded
<1>4. PayloadInv'
  BY <1>1, <1>2 DEF RecordInv, PayloadInv, Unloaded
<1> QED BY <1>1, <1>3, <1>4 DEF RecordInv

LEMMA ReadFailsStep == ASSUME RecordInv, ReadFails PROVE RecordInv'
<1>1. /\ UNCHANGED <<ingestVars, sourceVars, disk, mem>> /\ poll.pc = "read" /\ mem # Unloaded
      /\ poll' = [poll EXCEPT !.pc = "flush", !.from = "final", !.dirty = TRUE]
      /\ file.gen \in Nat \ {0} /\ file.inode \in Inodes /\ OutboxType(mem)
  BY Busy DEF ReadFails, RecordInv, SourceInv, OutboxInv
<1>2. DOMAIN poll' = PollFields /\ poll'.pc = "flush" /\ poll'.from \in Froms
  BY <1>1 DEF RecordInv, PollInv, PollFields, Froms
<1>3. PollInv' /\ CheckpointInv'
  BY <1>2 DEF PollInv, CheckpointInv, Asking
<1>4. ReaderInv'
  <2>1. CASE UNCHANGED rd
    BY <1>1, <2>1 DEF RecordInv, ReaderInv, sourceVars
  <2>2. CASE /\ ~ rd.init
             /\ rd' = [init |-> TRUE, inode |-> file.inode, gen |-> file.gen, offset |-> 0]
    <3>1. ~ mem.saved
      BY <1>1, <2>2 DEF RecordInv, ReaderInv
    <3>2. mem.gen # file.gen
      BY <1>1, <3>1 DEF OutboxType
    <3> QED BY <1>1, <2>2, <3>2 DEF ReaderInv, sourceVars, Inode
  <2> QED BY <2>1, <2>2 DEF ReadFails
<1> QED BY <1>1, <1>3, <1>4, ReadFrame

\* A cursor behind every unread line of the outbox in memory.
LEMMA NextPasses ==
    ASSUME RecordInv, mem # Unloaded, NEW n, n.gen = file.gen, n.offset \in Nat,
           mem.gen = file.gen => mem.offset <= n.offset
    PROVE  Passed(file, n, Sent \cup Ev(mem))
<1>1. Passed(file, mem, Sent \cup Ev(mem)) /\ mem.offset \in Nat
  BY DEF RecordInv, PayloadInv, OutboxInv, OutboxType
<1>2. ASSUME NEW x, Unread(file, n, x) PROVE Unread(file, mem, x)
  <2>1. PICK i \in DOMAIN file.lines : file.lines[i] = x /\ n.offset < i
    BY <1>2 DEF Unread
  <2>2. i \in Nat
    BY DEF RecordInv, SourceInv
  <2>3. mem.gen # file.gen \/ mem.offset < i
    BY <1>1, <2>1, <2>2
  <2> QED BY <2>1, <2>3 DEF Unread
<1> QED BY <1>1, <1>2 DEF Passed

LEMMA SkipHistoryStep == ASSUME RecordInv, SkipHistory PROVE RecordInv'
<1>1. /\ UNCHANGED <<ingestVars, sourceVars, disk, mem>> /\ poll.pc = "read" /\ mem # Unloaded
      /\ ~ rd.init /\ DOMAIN poll = PollFields /\ poll.from \in Froms
      /\ rd' = [init |-> TRUE, inode |-> file.inode, gen |-> file.gen, offset |-> Len(file.lines)]
  BY Busy DEF SkipHistory, RecordInv, PollInv
<1>2. /\ file.gen \in Nat \ {0} /\ file.inode \in Inodes /\ OutboxType(mem) /\ Len(file.lines) \in Nat
      /\ mem.pending = <<>> /\ file.inode # -1
  BY <1>1, LinesAssumption DEF RecordInv, SourceInv, OutboxInv, PollInv
<1>3. ~ mem.saved /\ mem.gen = 0 /\ mem.gen # file.gen
  BY <1>1, <1>2 DEF RecordInv, ReaderInv, OutboxType
<1>4. PICK l : l = Len(file.lines)
  OBVIOUS
<1>5. PICK n : n = [mem EXCEPT !.saved = TRUE, !.inode = file.inode, !.gen = file.gen, !.offset = l]
  OBVIOUS
<1>6. /\ DOMAIN n = OutboxFields /\ n.saved = TRUE /\ n.inode = file.inode /\ n.gen = file.gen
      /\ n.offset = l /\ n.pending = mem.pending /\ n.quarantine = mem.quarantine
  BY <1>2, <1>5 DEF OutboxType, OutboxFields
<1>7. poll' = [poll EXCEPT !.pc = "checkpoint", !.report = FALSE, !.next = n]
  BY <1>4, <1>5 DEF SkipHistory
<1>8. DOMAIN poll' = PollFields /\ poll'.pc = "checkpoint" /\ poll'.next = n /\ poll'.from = poll.from
  BY <1>1, <1>7 DEF PollFields
<1>9. PollInv'
  BY <1>1, <1>2, <1>8 DEF PollInv, Asking
<1>10. ReaderInv'
  BY <1>1, <1>2, <1>3 DEF ReaderInv, sourceVars, Inode
<1>11. OutboxType(n) /\ CursorFits(file, n) /\ n.inode # -1
  <2>1. n.inode \in Inode /\ n.gen \in Nat /\ n.offset \in Nat /\ n.inode # -1
    BY <1>2, <1>4, <1>6 DEF Inode
  <2>2. n.pending \in Seq(Events) /\ n.quarantine \in Seq(Events)
    BY <1>2, <1>6 DEF OutboxType
  <2>3. OutboxType(n)
    BY <1>6, <2>1, <2>2 DEF OutboxType
  <2>4. CursorFits(file, n)
    BY <1>2, <1>4, <1>6 DEF CursorFits
  <2> QED BY <2>1, <2>3, <2>4
<1>12. Passed(file, n, Sent \cup Ev(n))
  <2>1. Ev(n) = Ev(mem)
    BY <1>6 DEF Ev
  <2> QED BY <1>1, <1>2, <1>3, <1>4, <1>6, <2>1, NextPasses
<1>13. Range(n.pending) = {}
  BY <1>2, <1>6 DEF Range
<1>14. Sent' = Sent /\ file' = file /\ mem' = mem /\ written' = written
  BY <1>1 DEF ingestVars, sourceVars, Sent, SentOf
<1>15. CheckpointInv'
  BY <1>1, <1>6, <1>8, <1>11, <1>12, <1>13, <1>14 DEF CheckpointInv, Agree
<1> QED BY <1>1, <1>9, <1>10, <1>15, ReadFrame

\* Where a read starts.
StartOf ==
    LET at == IF ~ rd.init THEN Len(file.lines) ELSE rd.offset
        known == (IF ~ rd.init THEN {} ELSE {rd.inode}) \cup {mem.inode}
        reset == (\E i \in known : i \notin {0, file.inode}) \/ at > Len(file.lines)
    IN  IF reset THEN 0 ELSE at

LEMMA StartFits ==
    ASSUME RecordInv, mem # Unloaded
    PROVE  StartOf \in 0 .. Len(file.lines) /\ (mem.gen = file.gen => StartOf = mem.offset)
<1>1. /\ Len(file.lines) \in Nat /\ rd.offset \in Nat /\ rd.init \in BOOLEAN
      /\ OutboxType(mem) /\ CursorFits(file, mem) /\ file.gen \in Nat \ {0}
  BY DEF RecordInv, SourceInv, ReaderInv, OutboxInv
<1>2. StartOf \in 0 .. Len(file.lines)
  BY <1>1 DEF StartOf
<1>3. ASSUME mem.gen = file.gen PROVE StartOf = mem.offset
  <2>1. mem.saved
    BY <1>1, <1>3 DEF OutboxType
  <2>2. /\ rd.init /\ rd.offset = mem.offset /\ rd.inode \in {0, file.inode}
        /\ mem.inode = file.inode /\ mem.offset <= Len(file.lines)
    BY <1>1, <1>3, <2>1 DEF RecordInv, ReaderInv, CursorFits
  <2>3. ~ (rd.offset > Len(file.lines))
    BY <1>1, <2>2
  <2> QED BY <2>2, <2>3 DEF StartOf
<1> QED BY <1>2, <1>3

\* What a read takes: whole lines from there on, as many as fit.
Taken(start, uid) ==
    LET unread == SubSeq(file.lines, start + 1, Len(file.lines))
        chunk == SubSeq(unread, 1, Min({ChunkLines, Len(unread)}))
    IN  SubSeq(chunk, 1, Fits(chunk, uid, MaxEvents - Len(mem.quarantine)))

LEMMA TakenLines ==
    ASSUME RecordInv, NEW start \in 0 .. Len(file.lines), NEW uid \in 0 .. podGen
    PROVE  /\ Taken(start, uid) \in Seq(1 .. written)
           /\ start + Len(Taken(start, uid)) <= Len(file.lines)
           /\ \A i \in 1 .. Len(Taken(start, uid)) : Taken(start, uid)[i] = file.lines[start + i]
           /\ Len(Parsed(Taken(start, uid), uid)) <= MaxEvents - Len(mem.quarantine)
<1>1. PICK W, l : W = 1 .. written /\ l = file.lines
  OBVIOUS
<1>2. l \in Seq(W) /\ Len(l) \in Nat /\ SourceInv
  BY <1>1 DEF RecordInv, SourceInv
<1>3. PICK u : u = SubSeq(l, start + 1, Len(l))
  OBVIOUS
<1>4. u \in Seq(W) /\ Len(u) = Len(l) - start /\ \A i \in 1 .. Len(u) : u[i] = l[start + i]
  <2>1. Len(l) \in 0 .. Len(l) /\ start \in 0 .. Len(l)
    BY <1>1, <1>2
  <2>2. /\ u \in Seq(W) /\ Len(u) = (IF start <= Len(l) THEN Len(l) - start ELSE 0)
        /\ \A i \in 1 .. Len(l) - start : u[i] = l[start + i]
    BY <1>2, <1>3, <2>1, Slice
  <2> QED BY <2>1, <2>2
<1>5. PICK k : k = Min({ChunkLines, Len(u)})
  OBVIOUS
<1>6. k \in 0 .. Len(u)
  <2>1. ChunkLines \in Nat /\ Len(u) \in Nat
    BY <1>4, LinesAssumption
  <2>2. \E x \in {ChunkLines, Len(u)} : \A y \in {ChunkLines, Len(u)} : x <= y
    BY <2>1
  <2>3. k \in {ChunkLines, Len(u)} /\ \A y \in {ChunkLines, Len(u)} : k <= y
    BY <1>5, <2>2 DEF Min
  <2> QED BY <2>1, <2>3
<1>7. PICK c : c = SubSeq(u, 1, k)
  OBVIOUS
<1>8. c \in Seq(W) /\ Len(c) = k /\ \A i \in 1 .. Len(c) : c[i] = u[i]
  <2>1. 0 \in 0 .. Len(u) /\ k \in Nat
    BY <1>4, <1>6
  <2>2. /\ SubSeq(u, 0 + 1, k) \in Seq(W)
        /\ Len(SubSeq(u, 0 + 1, k)) = (IF 0 <= k THEN k - 0 ELSE 0)
        /\ \A i \in 1 .. k - 0 : SubSeq(u, 0 + 1, k)[i] = u[0 + i]
    BY <1>4, <1>6, <2>1, Slice
  <2> QED BY <1>7, <2>1, <2>2
<1>9. PICK room : room = MaxEvents - Len(mem.quarantine)
  OBVIOUS
<1>10. room \in Nat
  <2>1. mem.pending \in Seq(Events) /\ mem.quarantine \in Seq(Events) /\ Valid(mem)
    BY DEF RecordInv, OutboxInv, OutboxType
  <2>2. Len(mem.pending \o mem.quarantine) <= MaxEvents
    BY <2>1 DEF Valid
  <2>3. /\ Len(mem.pending \o mem.quarantine) = Len(mem.pending) + Len(mem.quarantine)
        /\ Len(mem.pending) \in Nat /\ Len(mem.quarantine) \in Nat
    BY <2>1
  <2>4. MaxEvents \in Nat
    BY LinesAssumption
  <2>5. PICK a, b : a = Len(mem.pending) /\ b = Len(mem.quarantine)
    OBVIOUS
  <2>6. a \in Nat /\ b \in Nat /\ a + b <= MaxEvents
    BY <2>2, <2>3, <2>5
  <2>7. room = MaxEvents - b
    BY <1>9, <2>5
  <2> QED BY <2>4, <2>6, <2>7
<1>11. PICK f : f = Fits(c, uid, room)
  OBVIOUS
<1>12. f \in 0 .. Len(c) /\ Len(Parsed(SubSeq(c, 1, f), uid)) <= room
  BY <1>1, <1>2, <1>8, <1>10, <1>11, FitsFits
<1>13. PICK t : t = SubSeq(c, 1, f)
  OBVIOUS
<1>14. t \in Seq(W) /\ Len(t) = f /\ \A i \in 1 .. Len(t) : t[i] = c[i]
  <2>1. 0 \in 0 .. Len(c) /\ f \in Nat
    BY <1>8, <1>12
  <2>2. /\ SubSeq(c, 0 + 1, f) \in Seq(W)
        /\ Len(SubSeq(c, 0 + 1, f)) = (IF 0 <= f THEN f - 0 ELSE 0)
        /\ \A i \in 1 .. f - 0 : SubSeq(c, 0 + 1, f)[i] = c[0 + i]
    BY <1>8, <1>12, <2>1, Slice
  <2> QED BY <1>13, <2>1, <2>2
<1>15. Taken(start, uid) = t
  BY <1>1, <1>3, <1>5, <1>7, <1>9, <1>11, <1>13 DEF Taken
<1>16. start + Len(t) <= Len(l) /\ \A i \in 1 .. Len(t) : t[i] = l[start + i]
  BY <1>2, <1>4, <1>6, <1>8, <1>12, <1>14
<1> QED BY <1>1, <1>9, <1>12, <1>13, <1>14, <1>15, <1>16

LEMMA ReadFileStep == ASSUME RecordInv, NEW uid \in PodUIDs, ReadFile(uid) PROVE RecordInv'
<1>1. /\ UNCHANGED <<ingestVars, sourceVars, disk, mem>> /\ poll.pc = "read" /\ mem # Unloaded
      /\ DOMAIN poll = PollFields /\ poll.from \in Froms /\ uid \in 0 .. podGen
  BY Busy DEF ReadFile, RecordInv, PollInv, PodUIDs
<1>2. /\ file.gen \in Nat \ {0} /\ file.inode \in Inodes /\ OutboxType(mem)
      /\ mem.pending = <<>> /\ file.inode # -1 /\ SourceInv /\ Len(file.lines) \in Nat
  BY <1>1, LinesAssumption DEF RecordInv, SourceInv, OutboxInv, PollInv
<1>3. PICK start : start = StartOf
  OBVIOUS
<1>4. start \in 0 .. Len(file.lines) /\ (mem.gen = file.gen => start = mem.offset)
  BY <1>1, <1>3, StartFits
<1>5. PICK t : t = Taken(start, uid)
  OBVIOUS
<1>6. /\ t \in Seq(1 .. written) /\ start + Len(t) <= Len(file.lines)
      /\ \A i \in 1 .. Len(t) : t[i] = file.lines[start + i]
  BY <1>1, <1>4, <1>5, TakenLines
<1>7. PICK b, o : b = Parsed(t, uid) /\ o = start + Len(t)
  OBVIOUS
<1>8. Len(t) \in Nat /\ o \in Nat /\ o <= Len(file.lines) /\ start <= o
  BY <1>4, <1>6, <1>7
<1>9. PICK n : n = [mem EXCEPT !.saved = TRUE, !.inode = file.inode, !.gen = file.gen, !.offset = o,
                               !.pending = b]
  OBVIOUS
<1>10. /\ DOMAIN n = OutboxFields /\ n.saved = TRUE /\ n.inode = file.inode /\ n.gen = file.gen
       /\ n.offset = o /\ n.pending = b /\ n.quarantine = mem.quarantine
  BY <1>2, <1>9 DEF OutboxType, OutboxFields
<1>11. /\ \E d : poll' = [poll EXCEPT !.pc = "checkpoint", !.dirty = d, !.next = n]
       /\ rd' = [init |-> TRUE, inode |-> file.inode, gen |-> file.gen, offset |-> start]
  <2>1. /\ \E d : poll' = [poll EXCEPT !.pc = "checkpoint", !.dirty = d,
                !.next = [mem EXCEPT !.saved = TRUE, !.inode = file.inode, !.gen = file.gen,
                                     !.offset = StartOf + Len(Taken(StartOf, uid)),
                                     !.pending = Parsed(Taken(StartOf, uid), uid)]]
        /\ rd' = [init |-> TRUE, inode |-> file.inode, gen |-> file.gen, offset |-> StartOf]
    BY Zenon DEF ReadFile, StartOf, Taken
  <2> QED BY <1>3, <1>5, <1>7, <1>9, <2>1, Zenon
<1>12. DOMAIN poll' = PollFields /\ poll'.pc = "checkpoint" /\ poll'.next = n /\ poll'.from = poll.from
  BY <1>1, <1>11 DEF PollFields
<1>13. PollInv'
  BY <1>1, <1>2, <1>12 DEF PollInv, Asking
<1>14. ReaderInv'
  BY <1>1, <1>2, <1>4, <1>11 DEF ReaderInv, sourceVars, Inode
<1>15. \A e \in Range(b) : e \in EventsIn(Range(t), uid)
  BY <1>1, <1>2, <1>6, <1>7, ParsedEvents, SeqAndRange
<1>16. b \in Seq(Events)
  <2>1. b \in Seq(EventsIn(Range(t), uid))
    BY <1>1, <1>2, <1>6, <1>7, ParsedEvents
  <2>2. EventsIn(Range(t), uid) \subseteq Events
    BY DEF EventsIn
  <2> QED BY <2>1, <2>2, SeqMonotonic
<1>17. OutboxType(n) /\ CursorFits(file, n) /\ n.inode # -1
  <2>1. n.inode \in Inode /\ n.gen \in Nat /\ n.offset \in Nat /\ n.inode # -1
    BY <1>2, <1>8, <1>10 DEF Inode
  <2>2. n.pending \in Seq(Events) /\ n.quarantine \in Seq(Events)
    BY <1>2, <1>10, <1>16 DEF OutboxType
  <2>3. OutboxType(n)
    BY <1>10, <2>1, <2>2 DEF OutboxType
  <2>4. CursorFits(file, n)
    BY <1>2, <1>8, <1>10 DEF CursorFits
  <2> QED BY <2>1, <2>3, <2>4
<1>18. \A e \in Range(b) : \E i \in DOMAIN file.lines : start < i /\ i <= o /\ file.lines[i] = e.id[1]
  <2>1. SUFFICES ASSUME NEW e \in Range(b)
                 PROVE  \E i \in DOMAIN file.lines : start < i /\ i <= o /\ file.lines[i] = e.id[1]
    OBVIOUS
  <2>2. e.id[1] \in Range(t)
    BY <1>15 DEF EventsIn
  <2>3. PICK j \in 1 .. Len(t) : e.id[1] = t[j]
    BY <1>6, <2>2, SeqAndRange
  <2>4. start + j \in DOMAIN file.lines /\ start < start + j /\ start + j <= o
    BY <1>2, <1>4, <1>6, <1>7, <1>8 DEF SourceInv
  <2> QED BY <1>6, <2>3, <2>4
<1>19. Agree(Range(b))
  BY <1>15 DEF Agree, EventsIn, Events
<1>20. ASSUME NEW e \in Range(b) PROVE e.id[1] <= written /\ \A d \in Sent \cup Ev(mem) : d.id # e.id
  <2>1. PICK i \in DOMAIN file.lines : start < i /\ i <= o /\ file.lines[i] = e.id[1]
    BY <1>18
  <2>2. file.lines[i] \in 1 .. written /\ i \in Nat
    BY <1>2 DEF SourceInv
  <2>3. mem.gen # file.gen \/ mem.offset < i
    BY <1>4, <2>1
  <2>4. Unread(file, mem, e.id[1])
    BY <2>1, <2>3 DEF Unread
  <2>5. Passed(file, mem, Sent \cup Ev(mem))
    BY <1>1 DEF RecordInv, PayloadInv
  <2> QED BY <1>2, <2>1, <2>2, <2>4, <2>5 DEF Passed, SourceInv
<1>21. Passed(file, n, Sent \cup Ev(n))
  <2>1. Passed(file, n, Sent \cup Ev(mem))
    <3>1. mem.gen = file.gen => mem.offset <= n.offset
      BY <1>4, <1>8, <1>10
    <3> QED BY <1>1, <1>8, <1>10, <3>1, NextPasses
  <2>2. ASSUME NEW e \in Range(b) PROVE ~ Unread(file, n, e.id[1])
    <3>1. SUFFICES ASSUME Unread(file, n, e.id[1]) PROVE FALSE
      OBVIOUS
    <3>2. PICK i \in DOMAIN file.lines : start < i /\ i <= o /\ file.lines[i] = e.id[1]
      BY <1>18
    <3>3. PICK j \in DOMAIN file.lines : file.lines[j] = e.id[1] /\ o < j
      BY <1>10, <3>1 DEF Unread
    <3>4. i = j
      BY <1>2, <3>2, <3>3 DEF SourceInv
    <3>5. i \in Nat
      BY <1>2 DEF SourceInv
    <3> QED BY <1>8, <3>2, <3>3, <3>4, <3>5
  <2>3. \A e \in Ev(n) : e \in Range(b) \/ e \in Ev(mem)
    BY <1>10 DEF Ev
  <2> QED BY <2>1, <2>2, <2>3 DEF Passed
<1>22. Sent' = Sent /\ file' = file /\ mem' = mem /\ written' = written
  BY <1>1 DEF ingestVars, sourceVars, Sent, SentOf
<1>23. rd'.init /\ n.gen = rd'.gen /\ n.inode = rd'.inode
  BY <1>10, <1>11
<1>24. CheckpointInv'
  BY <1>10, <1>12, <1>17, <1>19, <1>20, <1>21, <1>22, <1>23 DEF CheckpointInv
<1> QED BY <1>1, <1>13, <1>14, <1>24, ReadFrame

-----------------------------------------------------------------------------
LEMMA RecordInit == Init => RecordInv
<1>1. SUFFICES ASSUME Init PROVE RecordInv
  OBVIOUS
<1>2. SourceInv
  BY <1>1, LinesAssumption DEF Init, SourceInv
<1>3. CoreInv /\ Sent = {}
  <2>1. /\ claims = <<>> /\ effects = [i \in EventIds |-> 0]
        /\ requests = [s \in Slots |-> NoRequest]
    BY <1>1 DEF Init, IngestInit
  <2>2. RequestOk(NoRequest) /\ NoRequest.batch = <<>> /\ DOMAIN claims = {}
    BY <2>1 DEF RequestOk, NoRequest
  <2>3. \A e : e \notin Range(<<>>)
    BY DEF Range
  <2>4. CoreInv
    BY <2>1, <2>2 DEF CoreInv, EffectsOnce
  <2>5. Sent = {}
    BY <2>1, <2>2, <2>3 DEF Sent, SentOf
  <2> QED BY <2>4, <2>5
<1>4. OutboxType(Unloaded) /\ OutboxType(EmptyOutbox) /\ Ev(Unloaded) = {} /\ Ev(EmptyOutbox) = {}
  BY DEF OutboxType, Unloaded, EmptyOutbox, Ev, Range, Inode, OutboxFields
<1>5. Valid(Unloaded) /\ Valid(EmptyOutbox)
  <2>1. /\ Unloaded.pending \o Unloaded.quarantine = <<>> /\ Unloaded.offset = 0
        /\ EmptyOutbox.pending \o EmptyOutbox.quarantine = <<>> /\ EmptyOutbox.offset = 0
    BY DEF Unloaded, EmptyOutbox
  <2> QED BY <2>1, LinesAssumption DEF Valid
<1>6. OutboxInv
  <2>1. CursorFits(file, Unloaded) /\ CursorFits(file, EmptyOutbox) /\ EmptyOutbox.inode # -1
    BY <1>1 DEF Init, CursorFits, Unloaded, EmptyOutbox
  <2> QED BY <1>1, <1>4, <1>5, <2>1 DEF Init, OutboxInv
<1>7. ReaderInv
  BY <1>1 DEF Init, ReaderInv, ColdReader, Unloaded, EmptyOutbox, Inode
<1>8. PollInv /\ CheckpointInv
  BY <1>1 DEF Init, PollInv, CheckpointInv, Idle, PollFields, Froms, Asking
<1>9. PayloadInv
  BY <1>1, <1>3, <1>4 DEF Init, PayloadInv, Agree, Passed
<1> QED BY <1>2, <1>3, <1>6, <1>7, <1>8, <1>9 DEF RecordInv

LEMMA RecordNext == RecordInv /\ [Next]_vars => RecordInv'
<1>1. SUFFICES ASSUME RecordInv, [Next]_vars PROVE RecordInv'
  OBVIOUS
<1>2. CASE UNCHANGED vars
  BY <1>1, <1>2, CoreFrame DEF vars, sourceVars, agentVars, RecordInv, CoreInv, RequestOk, EffectsOnce,
                               Sent, SentOf
<1>3. CASE StartLine \/ WriteLine \/ ReplaceFile \/ RecreatePod
  BY <1>1, <1>3, SourceSteps
<1>4. CASE \E early, due \in BOOLEAN : StartPoll(early, due)
  BY <1>1, <1>4, StartPollStep
<1>5. CASE Flush
  BY <1>1, <1>5, EnterFlushStep, PostStep, KeepUnsentStep, AnsweredStep, EndStageStep, SaveFlushStep,
     AfterFlushStep DEF Flush
<1>6. CASE Reading
  BY <1>1, <1>6, SkipHistoryStep, ReadFileStep, CheckpointStep DEF Reading
<1>7. CASE ObserveWindow \/ TimesOut \/ ReadFails \/ Crash
  BY <1>1, <1>7, AfterFlushStep, AnsweredStep, ReadFailsStep, CrashStep
<1>8. CASE CoreStep \/ CoreFails \/ AnswerUnheard \/ LearnPod \/ ForgetPod
  BY <1>1, <1>8, CoreSteps
<1> QED BY <1>1, <1>2, <1>3, <1>4, <1>5, <1>6, <1>7, <1>8 DEF Next, Polling

LEMMA RecordAlways == Spec => []RecordInv
<1> QED BY RecordInit, RecordNext, PTL DEF Spec

(* A record reaches Core with one payload only: whatever crashes, failed    *)
(* saves, splits, time-outs, rotations and recreated Pods do, no request    *)
(* ends in a 409 conflict, because what a poll parses is read once.         *)
THEOREM NoConflictTheorem == Spec => []NoConflict
<1>1. RecordInv => NoConflict
  BY DEF RecordInv, CoreInv, RequestOk, NoConflict
<1> QED BY <1>1, RecordAlways, PTL

(* The effects of a record have run exactly once when it is claimed and not *)
(* at all before, for any number of requests that hold it at one time.      *)
THEOREM EffectsOnceTheorem == Spec => []EffectsOnce
<1>1. RecordInv => EffectsOnce
  BY DEF RecordInv, CoreInv
<1> QED BY <1>1, RecordAlways, PTL

-----------------------------------------------------------------------------
(* What a flush or a read hands to save passes validate: the parts of the   *)
(* work hold different records throughout, all of them from memory.         *)

Ids(s) == {s[i].id : i \in 1 .. Len(s)}
Distinct(s) == \A i, j \in 1 .. Len(s) : s[i].id = s[j].id => i = j
WorkIds(w) == UNION {Ids(w[i]) : i \in 1 .. Len(w)}
WorkApart(w) == /\ \A i \in 1 .. Len(w) : Distinct(w[i])
                /\ \A i, j \in 1 .. Len(w) : i # j => Ids(w[i]) \cap Ids(w[j]) = {}

LEMMA Joined ==
    ASSUME NEW S, NEW a \in Seq(S), NEW b \in Seq(S), Distinct(a), Distinct(b), Ids(a) \cap Ids(b) = {}
    PROVE  Distinct(a \o b) /\ Ids(a \o b) = Ids(a) \cup Ids(b)
<1>1. PICK c, m, n : c = a \o b /\ m = Len(a) /\ n = Len(b)
  OBVIOUS
<1>2. /\ m \in Nat /\ n \in Nat /\ Len(c) = m + n
      /\ \A i \in 1 .. m : c[i] = a[i]
      /\ \A i \in 1 .. m + n : i > m => c[i] = b[i - m]
  BY <1>1
<1>3. \A i \in 1 .. m + n : i \in 1 .. m \/ (i > m /\ i - m \in 1 .. n)
  BY <1>2
<1>4. \A i \in 1 .. m + n : IF i \in 1 .. m THEN c[i].id = a[i].id /\ c[i].id \in Ids(a)
                                            ELSE c[i].id = b[i - m].id /\ c[i].id \in Ids(b)
  BY <1>1, <1>2, <1>3 DEF Ids
<1>5. \A i \in 1 .. n : m + i \in 1 .. m + n /\ c[m + i] = b[i]
  <2>1. TAKE i \in 1 .. n
  <2>2. m + i \in 1 .. m + n /\ m + i > m /\ (m + i) - m = i
    BY <1>2
  <2> QED BY <1>2, <2>2
<1>6. ASSUME NEW i \in 1 .. m + n, NEW j \in 1 .. m + n, c[i].id = c[j].id PROVE i = j
  <2>1. CASE i \in 1 .. m /\ j \in 1 .. m
    BY <1>1, <1>4, <1>6, <2>1 DEF Distinct
  <2>2. CASE i \notin 1 .. m /\ j \notin 1 .. m
    <3>1. i - m \in 1 .. n /\ j - m \in 1 .. n /\ b[i - m].id = b[j - m].id
      BY <1>3, <1>4, <1>6, <2>2
    <3>2. i - m = j - m
      BY <1>1, <3>1 DEF Distinct
    <3> QED BY <1>2, <3>2
  <2>3. CASE i \in 1 .. m <=> j \notin 1 .. m
    BY <1>4, <1>6, <2>3
  <2> QED BY <2>1, <2>2, <2>3
<1>7. \A x \in Ids(c) : x \in Ids(a) \cup Ids(b)
  BY <1>2, <1>4 DEF Ids
<1>8. \A x \in Ids(a) : x \in Ids(c)
  BY <1>1, <1>2 DEF Ids
<1>9. \A x \in Ids(b) : x \in Ids(c)
  BY <1>1, <1>2, <1>5 DEF Ids
<1> QED BY <1>1, <1>2, <1>6, <1>7, <1>8, <1>9 DEF Distinct

LEMMA WorkTail ==
    ASSUME NEW S, NEW w \in Seq(Seq(S)), w # <<>>, WorkApart(w)
    PROVE  /\ WorkApart(Tail(w)) /\ Distinct(Head(w))
           /\ Ids(Head(w)) \subseteq WorkIds(w) /\ WorkIds(Tail(w)) \subseteq WorkIds(w)
           /\ Ids(Head(w)) \cap WorkIds(Tail(w)) = {}
           /\ WorkIds(w) = Ids(Head(w)) \cup WorkIds(Tail(w))
<1>1. PICK t, n : t = Tail(w) /\ n = Len(w)
  OBVIOUS
<1>2. n \in Nat \ {0} /\ Len(t) = n - 1 /\ Head(w) = w[1] /\ \A i \in 1 .. n - 1 : t[i] = w[i + 1]
  BY <1>1
<1>3. /\ 1 \in 1 .. Len(w)
      /\ \A i \in 1 .. Len(t) : i + 1 \in 1 .. Len(w) /\ i + 1 # 1 /\ t[i] = w[i + 1]
  BY <1>1, <1>2
<1>4. \A i, j \in 1 .. Len(t) : i # j => i + 1 # j + 1
  BY <1>2
<1>5. WorkApart(t)
  <2>1. \A i \in 1 .. Len(t) : Distinct(t[i])
    BY <1>3 DEF WorkApart
  <2>2. \A i, j \in 1 .. Len(t) : i # j => Ids(t[i]) \cap Ids(t[j]) = {}
    BY <1>3, <1>4 DEF WorkApart
  <2> QED BY <2>1, <2>2 DEF WorkApart
<1>6. Ids(w[1]) \subseteq WorkIds(w) /\ Distinct(w[1])
  BY <1>3 DEF WorkIds, WorkApart
<1>7. \A x \in WorkIds(t) : \E i \in 1 .. Len(t) : x \in Ids(w[i + 1])
  BY <1>3 DEF WorkIds
<1>8. WorkIds(t) \subseteq WorkIds(w)
  BY <1>3, <1>7 DEF WorkIds
<1>9. Ids(w[1]) \cap WorkIds(t) = {}
  BY <1>3, <1>7 DEF WorkApart
<1>10. ASSUME NEW i \in 1 .. Len(w) PROVE Ids(w[i]) \subseteq Ids(w[1]) \cup WorkIds(t)
  <2>1. CASE i = 1
    BY <2>1
  <2>2. CASE i # 1
    <3>1. i - 1 \in 1 .. Len(t) /\ t[i - 1] = w[i]
      BY <1>1, <1>2, <2>2
    <3> QED BY <3>1 DEF WorkIds
  <2> QED BY <2>1, <2>2
<1>11. WorkIds(w) = Ids(w[1]) \cup WorkIds(t)
  <2>1. WorkIds(w) \subseteq Ids(w[1]) \cup WorkIds(t)
    BY <1>10 DEF WorkIds
  <2> QED BY <1>6, <1>8, <2>1
<1> QED BY <1>1, <1>2, <1>5, <1>6, <1>8, <1>9, <1>11

LEMMA WorkHalves ==
    ASSUME NEW S, NEW b \in Seq(S), NEW w \in Seq(Seq(S)), Distinct(b), WorkApart(w),
           Ids(b) \cap WorkIds(w) = {}
    PROVE  WorkApart(Halves(b) \o w) /\ WorkIds(Halves(b) \o w) = Ids(b) \cup WorkIds(w)
<1>1. PICK mid, n : mid = Len(b) \div 2 /\ n = Len(b)
  OBVIOUS
<1>2. n \in Nat /\ mid \in 0 .. n
  BY <1>1
<1>3. PICK l, r : l = SubSeq(b, 1, mid) /\ r = SubSeq(b, mid + 1, n)
  OBVIOUS
<1>4. Len(l) = mid /\ \A i \in 1 .. mid : l[i] = b[i]
  <2>1. 0 \in 0 .. Len(b) /\ mid \in 0 .. Len(b)
    BY <1>1, <1>2
  <2>2. /\ Len(SubSeq(b, 0 + 1, mid)) = (IF 0 <= mid THEN mid - 0 ELSE 0)
        /\ \A i \in 1 .. mid - 0 : SubSeq(b, 0 + 1, mid)[i] = b[0 + i]
    BY <2>1, Slice
  <2> QED BY <1>2, <1>3, <2>2
<1>5. Len(r) = n - mid /\ \A i \in 1 .. n - mid : r[i] = b[mid + i]
  <2>1. mid \in 0 .. Len(b) /\ n \in 0 .. Len(b)
    BY <1>1, <1>2
  <2>2. /\ Len(SubSeq(b, mid + 1, n)) = (IF mid <= n THEN n - mid ELSE 0)
        /\ \A i \in 1 .. n - mid : SubSeq(b, mid + 1, n)[i] = b[mid + i]
    BY <2>1, Slice
  <2> QED BY <1>2, <1>3, <2>2
<1>6. Distinct(l) /\ Ids(l) \subseteq Ids(b)
  BY <1>1, <1>2, <1>4 DEF Distinct, Ids
<1>7. Distinct(r) /\ Ids(r) \subseteq Ids(b)
  <2>1. \A i \in 1 .. n - mid : mid + i \in 1 .. Len(b)
    BY <1>1, <1>2
  <2>2. \A i, j \in 1 .. n - mid : mid + i = mid + j => i = j
    BY <1>2
  <2>3. Distinct(r)
    BY <1>5, <2>1, <2>2 DEF Distinct
  <2>4. Ids(r) \subseteq Ids(b)
    BY <1>5, <2>1 DEF Ids
  <2> QED BY <2>3, <2>4
<1>8. Ids(l) \cap Ids(r) = {}
  <2>1. SUFFICES ASSUME NEW i \in 1 .. mid, NEW j \in 1 .. n - mid, l[i].id = r[j].id PROVE FALSE
    BY <1>4, <1>5 DEF Ids
  <2>2. i \in 1 .. Len(b) /\ mid + j \in 1 .. Len(b) /\ i # mid + j
    BY <1>1, <1>2
  <2>3. b[i].id = b[mid + j].id
    BY <1>4, <1>5, <2>1
  <2> QED BY <2>2, <2>3 DEF Distinct
<1>9. PICK h : h = <<l, r>> \o w
  OBVIOUS
<1>10. Halves(b) \o w = h
  BY <1>1, <1>3, <1>9 DEF Halves
<1>11. PICK m : m = Len(w)
  OBVIOUS
<1>12. /\ m \in Nat /\ Len(h) = m + 2 /\ h[1] = l /\ h[2] = r
       /\ \A i \in 1 .. m + 2 : i > 2 => h[i] = w[i - 2] /\ i - 2 \in 1 .. m
  <2>1. l \in Seq(S) /\ r \in Seq(S)
    <3>1. 0 \in 0 .. Len(b) /\ mid \in 0 .. Len(b) /\ n \in 0 .. Len(b)
      BY <1>1, <1>2
    <3>2. SubSeq(b, 0 + 1, mid) \in Seq(S) /\ SubSeq(b, mid + 1, n) \in Seq(S)
      BY <3>1, Slice
    <3> QED BY <1>3, <3>2
  <2>2. PICK p : p = <<l, r>>
    OBVIOUS
  <2>3. p \in Seq(Seq(S)) /\ Len(p) = 2 /\ p[1] = l /\ p[2] = r
    BY <2>1, <2>2
  <2> QED BY <1>9, <1>11, <2>2, <2>3
<1>13. \A i \in 1 .. m + 2 : i = 1 \/ i = 2 \/ (i > 2 /\ i - 2 \in 1 .. m)
  BY <1>12
<1>14. \A i \in 1 .. m : Ids(w[i]) \subseteq WorkIds(w) /\ Distinct(w[i])
  BY <1>11 DEF WorkIds, WorkApart
<1>15. \A i \in 1 .. m + 2 : Distinct(h[i])
  BY <1>6, <1>7, <1>12, <1>13, <1>14
<1>16. ASSUME NEW i \in 1 .. m + 2, NEW j \in 1 .. m + 2, i # j PROVE Ids(h[i]) \cap Ids(h[j]) = {}
  <2>1. CASE i > 2 /\ j > 2
    <3>1. i - 2 \in 1 .. m /\ j - 2 \in 1 .. m /\ i - 2 # j - 2 /\ h[i] = w[i - 2] /\ h[j] = w[j - 2]
      BY <1>12, <1>16, <2>1
    <3> QED BY <1>11, <3>1 DEF WorkApart
  <2>2. CASE i \in {1, 2} /\ j > 2
    BY <1>6, <1>7, <1>12, <1>14, <2>2
  <2>3. CASE i > 2 /\ j \in {1, 2}
    BY <1>6, <1>7, <1>12, <1>14, <2>3
  <2>4. CASE i \in {1, 2} /\ j \in {1, 2}
    BY <1>8, <1>12, <1>16, <2>4
  <2> QED BY <1>13, <2>1, <2>2, <2>3, <2>4
<1>17. \A i \in 1 .. m + 2 : Ids(h[i]) \subseteq Ids(b) \cup WorkIds(w)
  BY <1>6, <1>7, <1>12, <1>13, <1>14
<1>18. WorkIds(h) \subseteq Ids(b) \cup WorkIds(w)
  BY <1>12, <1>17 DEF WorkIds
<1>19. Ids(b) \subseteq Ids(l) \cup Ids(r)
  <2>1. SUFFICES ASSUME NEW i \in 1 .. n PROVE b[i].id \in Ids(l) \cup Ids(r)
    BY <1>1 DEF Ids
  <2>2. CASE i \in 1 .. mid
    BY <1>4, <2>2 DEF Ids
  <2>3. CASE i \notin 1 .. mid
    <3>1. i - mid \in 1 .. n - mid /\ mid + (i - mid) = i
      BY <1>2, <2>3
    <3>2. r[i - mid] = b[i]
      BY <1>5, <3>1
    <3> QED BY <1>5, <3>1, <3>2 DEF Ids
  <2> QED BY <2>2, <2>3
<1>20. Ids(b) \cup WorkIds(w) \subseteq WorkIds(h)
  <2>1. 1 \in 1 .. m + 2 /\ 2 \in 1 .. m + 2
    BY <1>12
  <2>2. Ids(l) \subseteq WorkIds(h) /\ Ids(r) \subseteq WorkIds(h)
    BY <1>12, <2>1 DEF WorkIds
  <2>3. ASSUME NEW i \in 1 .. m PROVE Ids(w[i]) \subseteq WorkIds(h)
    <3>1. i + 2 \in 1 .. m + 2 /\ i + 2 > 2 /\ (i + 2) - 2 = i
      BY <1>12
    <3>2. h[i + 2] = w[i]
      BY <1>12, <3>1
    <3> QED BY <1>12, <3>1, <3>2 DEF WorkIds
  <2>4. WorkIds(w) \subseteq WorkIds(h)
    BY <1>11, <2>3 DEF WorkIds
  <2> QED BY <1>19, <2>2, <2>4
<1>21. WorkApart(h)
  BY <1>12, <1>15, <1>16 DEF WorkApart
<1> QED BY <1>10, <1>18, <1>20, <1>21

\* A sequence of different records that are all in another one is no longer than it.
LEMMA NoLonger ==
    ASSUME NEW S, NEW s \in Seq(S), NEW t \in Seq(S), Distinct(s),
           \A i \in 1 .. Len(s) : \E j \in 1 .. Len(t) : s[i] = t[j]
    PROVE  Len(s) <= Len(t)
<1>1. PICK m, n : m = Len(s) /\ n = Len(t)
  OBVIOUS
<1>2. m \in Nat /\ n \in Nat
  BY <1>1
<1>3. PICK f : f = [i \in 1 .. m |-> CHOOSE j \in 1 .. n : s[i] = t[j]]
  OBVIOUS
<1>4. \A i \in 1 .. m : f[i] \in 1 .. n /\ s[i] = t[f[i]]
  BY <1>1, <1>3
<1>5. f \in [1 .. m -> 1 .. n]
  BY <1>3, <1>4
<1>6. \A i, j \in 1 .. m : f[i] = f[j] => i = j
  <2>1. \A i, j \in 1 .. m : f[i] = f[j] => s[i] = s[j]
    BY <1>4
  <2> QED BY <1>1, <2>1 DEF Distinct
<1>7. f \in Injection(1 .. m, 1 .. n)
  BY <1>5, <1>6 DEF Injection, IsInjective
<1>8. /\ IsFiniteSet(1 .. n)
      /\ Cardinality(1 .. m) = (IF 1 > m THEN 0 ELSE m - 1 + 1)
      /\ Cardinality(1 .. n) = (IF 1 > n THEN 0 ELSE n - 1 + 1)
  <2>1. 1 \in Int /\ m \in Int /\ n \in Int
    BY <1>2
  <2>2. IsFiniteSet(1 .. n) /\ Cardinality(1 .. n) = (IF 1 > n THEN 0 ELSE n - 1 + 1)
    BY <2>1, FS_Interval
  <2>3. Cardinality(1 .. m) = (IF 1 > m THEN 0 ELSE m - 1 + 1)
    BY <2>1, FS_Interval
  <2> QED BY <2>2, <2>3
<1>9. Cardinality(1 .. m) <= Cardinality(1 .. n)
  BY <1>7, <1>8, FS_Injection
<1> QED BY <1>1, <1>2, <1>8, <1>9

\* The two parts of a valid outbox, and how a valid outbox is put together again.
LEMMA ValidParts ==
    ASSUME NEW o, o.pending \in Seq(Events), o.quarantine \in Seq(Events), Valid(o)
    PROVE  /\ Distinct(o.pending) /\ Distinct(o.quarantine)
           /\ Ids(o.pending) \cap Ids(o.quarantine) = {}
<1>1. PICK a, b, c : a = o.pending /\ b = o.quarantine /\ c = a \o b
  OBVIOUS
<1>2. a \in Seq(Events) /\ b \in Seq(Events) /\ c \in Seq(Events)
  BY <1>1
<1>3. PICK m, n : m = Len(a) /\ n = Len(b)
  OBVIOUS
<1>4. /\ m \in Nat /\ n \in Nat /\ Len(c) = m + n /\ DOMAIN c = 1 .. m + n
      /\ \A i \in 1 .. m : i \in 1 .. m + n /\ c[i] = a[i]
      /\ \A i \in 1 .. n : m + i \in 1 .. m + n /\ c[m + i] = b[i]
  <2>1. m \in Nat /\ n \in Nat /\ Len(c) = m + n /\ DOMAIN c = 1 .. Len(c)
    BY <1>1, <1>2, <1>3
  <2>2. \A i \in 1 .. Len(a) : (a \o b)[i] = a[i]
    BY <1>2
  <2>3. \A i \in 1 .. Len(b) : (a \o b)[Len(a) + i] = b[i]
    BY <1>2
  <2>4. \A i \in 1 .. m : c[i] = a[i]
    BY <1>1, <1>3, <2>2, Zenon
  <2>5. \A i \in 1 .. n : c[m + i] = b[i]
    BY <1>1, <1>3, <2>3, Zenon
  <2>6. m \in Nat /\ n \in Nat
    BY <2>1
  <2>7. /\ \A i \in 1 .. m : i \in 1 .. m + n
        /\ \A i \in 1 .. n : m + i \in 1 .. m + n
    BY <2>6
  <2> QED BY <2>1, <2>4, <2>5, <2>7
<1>5. \A i, j \in 1 .. m + n : c[i].id = c[j].id => i = j
  BY <1>1, <1>4 DEF Valid
<1>6. Distinct(a)
  BY <1>3, <1>4, <1>5 DEF Distinct
<1>7. \A i, j \in 1 .. n : m + i = m + j => i = j
  BY <1>4
<1>8. Distinct(b)
  BY <1>3, <1>4, <1>5, <1>7 DEF Distinct
<1>9. Ids(a) \cap Ids(b) = {}
  <2>1. SUFFICES ASSUME NEW i \in 1 .. m, NEW j \in 1 .. n, a[i].id = b[j].id PROVE FALSE
    BY <1>3 DEF Ids
  <2>2. i # m + j
    BY <1>4
  <2> QED BY <1>4, <1>5, <2>1, <2>2
<1> QED BY <1>1, <1>6, <1>8, <1>9

LEMMA ValidAgain ==
    ASSUME NEW o, o.pending \in Seq(Events), o.quarantine \in Seq(Events),
           Distinct(o.pending), Distinct(o.quarantine), Ids(o.pending) \cap Ids(o.quarantine) = {},
           Len(o.pending) + Len(o.quarantine) <= MaxEvents, o.offset > 0 => o.inode # 0
    PROVE  Valid(o)
<1>1. PICK a, b, c : a = o.pending /\ b = o.quarantine /\ c = a \o b
  OBVIOUS
<1>2. a \in Seq(Events) /\ b \in Seq(Events) /\ c \in Seq(Events) /\ Len(c) = Len(a) + Len(b)
  BY <1>1
<1>3. Distinct(c)
  BY <1>1, <1>2, Joined
<1>4. DOMAIN c = 1 .. Len(c) /\ Len(c) <= MaxEvents
  <2>1. DOMAIN c = 1 .. Len(c)
    BY <1>2
  <2>2. Len(c) <= MaxEvents
    BY <1>1, <1>2
  <2> QED BY <2>1, <2>2
<1>5. \A i, j \in DOMAIN c : c[i].id = c[j].id => i = j
  BY <1>3, <1>4 DEF Distinct
<1> QED BY <1>1, <1>4, <1>5 DEF Valid

LEMMA ValidFromMemory ==
    ASSUME RecordInv, NEW o, o.pending \in Seq(Ev(mem)), o.quarantine \in Seq(Ev(mem)),
           Distinct(o.pending), Distinct(o.quarantine), Ids(o.pending) \cap Ids(o.quarantine) = {},
           o.offset = mem.offset, o.inode = mem.inode
    PROVE  Valid(o)
<1>1. mem.pending \in Seq(Events) /\ mem.quarantine \in Seq(Events) /\ Valid(mem)
  BY DEF RecordInv, OutboxInv, OutboxType
<1>2. PICK E : E = Ev(mem)
  OBVIOUS
<1>3. \A e \in E : e \in Events
  BY <1>1, <1>2, SeqAndRange DEF Ev
<1>4. o.pending \in Seq(Events) /\ o.quarantine \in Seq(Events)
  BY <1>2, <1>3
<1>5. PICK a, b, c : a = o.pending /\ b = o.quarantine /\ c = a \o b
  OBVIOUS
<1>6. PICK t : t = mem.pending \o mem.quarantine
  OBVIOUS
<1>7. c \in Seq(Events) /\ t \in Seq(Events) /\ c \in Seq(E) /\ Len(c) = Len(a) + Len(b)
  BY <1>1, <1>2, <1>4, <1>5, <1>6
<1>8. Distinct(c)
  BY <1>4, <1>5, Joined
<1>9. \A e \in E : \E j \in 1 .. Len(t) : e = t[j]
  <2>1. PICK p, q : p = mem.pending /\ q = mem.quarantine
    OBVIOUS
  <2>2. p \in Seq(Events) /\ q \in Seq(Events) /\ t = p \o q
    BY <1>1, <1>6, <2>1
  <2>3. \A x : x \in Range(p) => \E k \in 1 .. Len(p) : x = p[k]
    BY <2>2, SeqAndRange
  <2>4. \A x : x \in Range(q) => \E k \in 1 .. Len(q) : x = q[k]
    BY <2>2, SeqAndRange
  <2>5. PICK m, n : m = Len(p) /\ n = Len(q)
    OBVIOUS
  <2>6. m \in Nat /\ n \in Nat /\ Len(t) = m + n
    BY <2>2, <2>5
  <2>7. \A k \in 1 .. m : k \in 1 .. Len(t) /\ t[k] = p[k]
    BY <2>2, <2>5, <2>6
  <2>8. \A k \in 1 .. n : m + k \in 1 .. Len(t) /\ t[m + k] = q[k]
    BY <2>2, <2>5, <2>6
  <2>9. \A e \in E : e \in Range(p) \/ e \in Range(q)
    BY <1>2, <2>1 DEF Ev
  <2>10. \A e \in Range(p) : \E j \in 1 .. Len(t) : e = t[j]
    BY <2>3, <2>5, <2>7
  <2>11. \A e \in Range(q) : \E j \in 1 .. Len(t) : e = t[j]
    BY <2>4, <2>5, <2>8
  <2> QED BY <2>9, <2>10, <2>11
<1>10. \A i \in 1 .. Len(c) : \E j \in 1 .. Len(t) : c[i] = t[j]
  <2>1. \A i \in 1 .. Len(c) : c[i] \in E
    BY <1>7
  <2> QED BY <1>9, <2>1
<1>11. Len(c) <= Len(t)
  BY <1>7, <1>8, <1>10, NoLonger
<1>12. Len(t) <= MaxEvents /\ (mem.offset > 0 => mem.inode # 0)
  BY <1>1, <1>6 DEF Valid
<1>13. Len(t) \in Nat /\ Len(c) \in Nat /\ MaxEvents \in Nat
  BY <1>7, LinesAssumption
<1>14. Len(a) + Len(b) <= MaxEvents
  BY <1>7, <1>11, <1>12, <1>13
<1> QED BY <1>4, <1>5, <1>12, <1>14, ValidAgain

\* The events of lines that are all different are all different.
LEMMA FlatApart ==
    ASSUME NEW S, NEW ss \in Seq(Seq(S)), WorkApart(ss), NEW f, Flat(f, ss, Len(ss))
    PROVE  \A i \in 1 .. Len(ss) : /\ Distinct(f[i])
                                   /\ \A x \in Ids(f[i]) : \E j \in 1 .. i : x \in Ids(ss[j])
<1> DEFINE Good(i) == Distinct(f[i]) /\ \A x \in Ids(f[i]) : \E j \in 1 .. i : x \in Ids(ss[j])
<1>1. PICK B : B = {i \in 1 .. Len(ss) : ~ Good(i)}
  OBVIOUS
<1>2. SUFFICES ASSUME B # {} PROVE FALSE
  BY <1>1
<1>3. \A i \in B : i \in Nat
  BY <1>1
<1>4. PICK i \in B : \A j \in B : i <= j
  BY <1>2, <1>3, NatMin
<1>5. i \in 1 .. Len(ss) /\ ~ Good(i) /\ ss[i] \in Seq(S) /\ Distinct(ss[i])
  BY <1>1 DEF WorkApart
<1>6. i # 1
  <2>1. ASSUME i = 1 PROVE FALSE
    <3>1. f[i] = ss[i]
      BY <1>5, <2>1 DEF Flat
    <3>2. i \in 1 .. i
      BY <2>1
    <3> QED BY <1>5, <3>1, <3>2
  <2> QED BY <2>1
<1>7. i - 1 \in 1 .. Len(ss) /\ i - 1 \notin B
  BY <1>4, <1>5, <1>6
<1>8. PICK k : k = i - 1
  OBVIOUS
<1>9. k \in 1 .. Len(ss) /\ Good(k) /\ i \in Nat /\ k = i - 1
  BY <1>1, <1>7, <1>8
<1>10. f[k] \in Seq(S)
  BY <1>9, FlatTyped
<1>11. f[i] = f[k] \o ss[i]
  BY <1>5, <1>6, <1>8 DEF Flat
<1>12. Ids(f[k]) \cap Ids(ss[i]) = {}
  <2>1. \A j \in 1 .. k : j \in 1 .. Len(ss) /\ j # i
    BY <1>9
  <2> QED BY <1>5, <1>9, <2>1 DEF WorkApart
<1>13. Distinct(f[i]) /\ Ids(f[i]) = Ids(f[k]) \cup Ids(ss[i])
  BY <1>5, <1>9, <1>10, <1>11, <1>12, Joined
<1>14. ASSUME NEW x \in Ids(f[i]) PROVE \E j \in 1 .. i : x \in Ids(ss[j])
  <2>1. CASE x \in Ids(ss[i])
    <3>1. i \in 1 .. i
      BY <1>5
    <3> QED BY <2>1, <3>1
  <2>2. CASE x \in Ids(f[k])
    <3>1. \A j \in 1 .. k : j \in 1 .. i
      BY <1>9
    <3> QED BY <1>9, <2>2, <3>1
  <2> QED BY <1>13, <2>1, <2>2
<1> QED BY <1>5, <1>13, <1>14

LEMMA FlattenApart ==
    ASSUME NEW S, NEW ss \in Seq(Seq(S)), WorkApart(ss)
    PROVE  Distinct(FlattenSeq(ss))
<1> DEFINE fl == CHOOSE f : f = [i \in 1 .. Len(ss) |-> IF i = 1 THEN ss[i] ELSE f[i - 1] \o ss[i]]
<1>1. PICK g : Flat(g, ss, Len(ss))
  BY FlatExists
<1>2. g = [i \in 1 .. Len(ss) |-> IF i = 1 THEN ss[i] ELSE g[i - 1] \o ss[i]]
  BY <1>1 DEF Flat
<1>3. fl = [i \in 1 .. Len(ss) |-> IF i = 1 THEN ss[i] ELSE fl[i - 1] \o ss[i]]
  BY <1>2
<1>4. Flat(fl, ss, Len(ss))
  <2> HIDE DEF fl
  <2> QED BY <1>3 DEF Flat
<1>5. CASE Len(ss) = 0
  <2>1. FlattenSeq(ss) = <<>>
    BY <1>5 DEF FlattenSeq
  <2> QED BY <2>1 DEF Distinct
<1>6. CASE Len(ss) # 0
  <2>1. FlattenSeq(ss) = fl[Len(ss)]
    BY <1>6 DEF FlattenSeq
  <2>2. Len(ss) \in 1 .. Len(ss)
    BY <1>6
  <2> HIDE DEF fl
  <2> QED BY <2>1, <2>2, <1>4, FlatApart
<1> QED BY <1>5, <1>6

LEMMA LineApart ==
    ASSUME NEW n, NEW uid
    PROVE  Distinct(EventsOf(n, uid)) /\ \A x \in Ids(EventsOf(n, uid)) : x[1] = n
<1>1. PICK pod, s : pod = PodFor(n, uid) /\ s = EventsOf(n, uid)
  OBVIOUS
<1>2. PICK a, b : a = [id |-> <<n, 1>>, pod |-> pod] /\ b = [id |-> <<n, 2>>, pod |-> pod]
  OBVIOUS
<1>3. a.id = <<n, 1>> /\ b.id = <<n, 2>>
  BY <1>2
<1>4. <<n, 1>>[1] = n /\ <<n, 2>>[1] = n /\ <<n, 1>> # <<n, 2>>
  OBVIOUS
<1>5. s = <<>> \/ s = <<a, b>> \/ s = <<a>>
  BY <1>1, <1>2 DEF EventsOf, PodFor
<1>6. CASE s = <<>>
  BY <1>1, <1>6 DEF Distinct, Ids
<1>7. CASE s = <<a>>
  <2>1. Len(s) = 1 /\ s[1] = a /\ 1 .. 1 = {1}
    BY <1>7
  <2> QED BY <1>1, <1>3, <1>4, <2>1 DEF Distinct, Ids
<1>8. CASE s = <<a, b>>
  <2>1. Len(s) = 2 /\ s[1] = a /\ s[2] = b /\ 1 .. 2 = {1, 2}
    BY <1>8
  <2>2. Distinct(s)
    BY <1>3, <1>4, <2>1 DEF Distinct
  <2>3. \A x \in Ids(s) : x = a.id \/ x = b.id
    BY <2>1 DEF Ids
  <2> QED BY <1>1, <1>3, <1>4, <2>2, <2>3
<1> QED BY <1>5, <1>6, <1>7, <1>8

LEMMA ParsedApart ==
    ASSUME SourceInv, NEW lines \in Seq(1 .. written), NEW uid \in 0 .. podGen,
           \A i, j \in 1 .. Len(lines) : lines[i] = lines[j] => i = j
    PROVE  Distinct(Parsed(lines, uid))
<1>1. PICK E : E = EventsIn(Range(lines), uid)
  OBVIOUS
<1>2. PICK ss : ss = [i \in DOMAIN lines |-> EventsOf(lines[i], uid)]
  OBVIOUS
<1>3. ASSUME NEW i \in DOMAIN lines PROVE ss[i] \in Seq(E)
  <2>0. i \in 1 .. Len(lines)
    OBVIOUS
  <2>1. lines[i] \in 1 .. written /\ lines[i] \in Range(lines)
    BY <2>0, SeqAndRange
  <2> QED BY <1>1, <1>2, <2>1, EventsOfLine
<1>4. DOMAIN lines = 1 .. Len(lines) /\ Len(lines) \in Nat
  OBVIOUS
<1>5. ss \in [1 .. Len(lines) -> Seq(E)]
  BY <1>2, <1>3, <1>4
<1>6. ss \in Seq(Seq(E)) /\ Len(ss) = Len(lines)
  BY <1>4, <1>5
<1>7. \A i \in 1 .. Len(ss) : Distinct(ss[i]) /\ \A x \in Ids(ss[i]) : x[1] = lines[i]
  <2>1. SUFFICES ASSUME NEW i \in 1 .. Len(ss)
                 PROVE  Distinct(ss[i]) /\ \A x \in Ids(ss[i]) : x[1] = lines[i]
    OBVIOUS
  <2>2. ss[i] = EventsOf(lines[i], uid)
    BY <1>2, <1>4, <1>6
  <2> QED BY <2>2, LineApart
<1>8. ASSUME NEW i \in 1 .. Len(ss), NEW j \in 1 .. Len(ss), i # j PROVE Ids(ss[i]) \cap Ids(ss[j]) = {}
  <2>1. lines[i] # lines[j]
    BY <1>6, <1>8
  <2> QED BY <1>7, <2>1
<1>9. WorkApart(ss)
  BY <1>7, <1>8 DEF WorkApart
<1> QED BY <1>2, <1>6, <1>9, FlattenApart DEF Parsed

-----------------------------------------------------------------------------
(* What a poll has in its hands while it asks Core, and what it will save.  *)

\* The part of the outbox that the flush leaves as it is.
KeptPart(p) == IF p.stage = "pending" THEN p.next.quarantine ELSE p.next.pending

HandApart(w, a, b, c) ==
    /\ WorkApart(w) /\ Distinct(a) /\ Distinct(b) /\ Distinct(c)
    /\ Ids(a) \cap Ids(b) = {} /\ Ids(a) \cap Ids(c) = {} /\ Ids(b) \cap Ids(c) = {}
    /\ WorkIds(w) \cap Ids(a) = {} /\ WorkIds(w) \cap Ids(b) = {} /\ WorkIds(w) \cap Ids(c) = {}

SaveInv ==
    /\ poll.pc \in {"post", "wait"} => HandApart(poll.work, poll.retry, poll.rejected, KeptPart(poll))
    /\ poll.pc \in {"save", "checkpoint"} => Valid(poll.next)

LEMMA NothingHeld == WorkApart(<<>>) /\ WorkIds(<<>>) = {} /\ Distinct(<<>>) /\ Ids(<<>>) = {}
  BY DEF WorkApart, WorkIds, Distinct, Ids

LEMMA OneBatch ==
    ASSUME NEW b PROVE WorkIds(<<b>>) = Ids(b) /\ (Distinct(b) => WorkApart(<<b>>))
<1>1. PICK w : w = <<b>>
  OBVIOUS
<1>2. Len(w) = 1 /\ w[1] = b /\ 1 .. 1 = {1}
  BY <1>1
<1>3. WorkIds(w) = Ids(b)
  BY <1>2 DEF WorkIds
<1>4. Distinct(b) => WorkApart(w)
  BY <1>2 DEF WorkApart
<1> QED BY <1>1, <1>3, <1>4

LEMMA EnterFlushSaves == ASSUME RecordInv, EnterFlush PROVE SaveInv'
<1>1. DOMAIN poll = PollFields /\ OutboxType(mem) /\ Valid(mem)
  BY DEF EnterFlush, RecordInv, PollInv, OutboxInv
<1>2. PICK p : p = poll
  OBVIOUS
<1>3. CASE \E b : poll' = [p EXCEPT !.pc = "flushed", !.err = FALSE, !.blocked = b]
  <2>1. poll'.pc = "flushed"
    BY <1>1, <1>2, <1>3 DEF PollFields
  <2> QED BY <2>1 DEF SaveInv
<1>4. CASE poll' = [p EXCEPT !.pc = "post", !.err = FALSE, !.stage = "pending",
                            !.work = IF mem.pending = <<>> THEN <<>> ELSE <<mem.pending>>,
                            !.retry = <<>>, !.rejected = <<>>, !.next = mem]
  <2>1. PICK w : w = IF mem.pending = <<>> THEN <<>> ELSE <<mem.pending>>
    OBVIOUS
  <2>2. /\ poll'.pc = "post" /\ poll'.work = w /\ poll'.retry = <<>>
        /\ poll'.rejected = <<>> /\ poll'.next = mem /\ poll'.stage = "pending"
    BY <1>1, <1>2, <1>4, <2>1 DEF PollFields
  <2>3. /\ Distinct(mem.pending) /\ Distinct(mem.quarantine)
        /\ Ids(mem.pending) \cap Ids(mem.quarantine) = {}
    BY <1>1, ValidParts DEF OutboxType
  <2>4. WorkApart(w) /\ WorkIds(w) \subseteq Ids(mem.pending)
    BY <2>1, <2>3, NothingHeld, OneBatch
  <2>5. KeptPart(poll)' = mem.quarantine
    BY <2>2 DEF KeptPart
  <2>6. HandApart(w, <<>>, <<>>, mem.quarantine)
    BY <2>3, <2>4, NothingHeld DEF HandApart
  <2> QED BY <2>2, <2>5, <2>6 DEF SaveInv
<1> QED BY <1>2, <1>3, <1>4 DEF EnterFlush

\* A batch leaves the work: it is delivered, or goes to retry or to rejected.
LEMMA BatchLeaves ==
    ASSUME NEW E, NEW w \in Seq(Seq(E)), w # <<>>, NEW a \in Seq(E), NEW b \in Seq(E), NEW c,
           HandApart(w, a, b, c)
    PROVE  /\ HandApart(Tail(w), a, b, c)
           /\ HandApart(Tail(w), a \o Head(w), b, c)
           /\ HandApart(Tail(w), a, b \o Head(w), c)
           /\ HandApart(Halves(Head(w)) \o Tail(w), a, b, c)
<1>1. PICK h, t : h = Head(w) /\ t = Tail(w)
  OBVIOUS
<1>2. h \in Seq(E) /\ t \in Seq(Seq(E))
  BY <1>1
<1>3. /\ WorkApart(t) /\ Distinct(h) /\ Ids(h) \subseteq WorkIds(w) /\ WorkIds(t) \subseteq WorkIds(w)
      /\ Ids(h) \cap WorkIds(t) = {}
  BY <1>1, WorkTail DEF HandApart
<1>4. HandApart(t, a, b, c)
  BY <1>3 DEF HandApart
<1>5. HandApart(t, a \o h, b, c)
  <2>1. Ids(a) \cap Ids(h) = {} /\ Distinct(a)
    BY <1>3 DEF HandApart
  <2>2. Distinct(a \o h) /\ Ids(a \o h) = Ids(a) \cup Ids(h)
    BY <1>2, <1>3, <2>1, Joined
  <2> QED BY <1>3, <2>2 DEF HandApart
<1>6. HandApart(t, a, b \o h, c)
  <2>1. Ids(b) \cap Ids(h) = {} /\ Distinct(b)
    BY <1>3 DEF HandApart
  <2>2. Distinct(b \o h) /\ Ids(b \o h) = Ids(b) \cup Ids(h)
    BY <1>2, <1>3, <2>1, Joined
  <2> QED BY <1>3, <2>2 DEF HandApart
<1>7. HandApart(Halves(h) \o t, a, b, c)
  <2>1. WorkApart(Halves(h) \o t) /\ WorkIds(Halves(h) \o t) \subseteq Ids(h) \cup WorkIds(t)
    BY <1>2, <1>3, WorkHalves
  <2>2. PICK v : v = Halves(h) \o t
    OBVIOUS
  <2>3. WorkApart(v) /\ WorkIds(v) \subseteq WorkIds(w)
    BY <1>3, <2>1, <2>2
  <2> QED BY <2>2, <2>3 DEF HandApart
<1> QED BY <1>1, <1>4, <1>5, <1>6, <1>7

LEMMA AskingSaves ==
    ASSUME RecordInv, SaveInv,
           (\E s \in Slots : Post(s)) \/ KeepUnsent \/ Answered \/ TimesOut
    PROVE  SaveInv'
<1>1. poll.pc \in {"post", "wait"} /\ poll.pc \in Asking /\ poll.work # <<>>
  BY DEF Post, KeepUnsent, Answered, TimesOut, Asking, RecordInv, PollInv
<1>2. PICK p, E : p = poll /\ E = Ev(mem)
  OBVIOUS
<1>3. HeldOk(p, E) /\ HandApart(p.work, p.retry, p.rejected, KeptPart(p))
  BY <1>1, <1>2, Held DEF SaveInv
<1>4. PICK w, a, b, c : w = p.work /\ a = p.retry /\ b = p.rejected /\ c = KeptPart(p)
  OBVIOUS
<1>5. /\ w \in Seq(Seq(E)) /\ w # <<>> /\ a \in Seq(E) /\ b \in Seq(E)
      /\ HandApart(w, a, b, c) /\ DOMAIN p = PollFields
  BY <1>1, <1>2, <1>3, <1>4 DEF HeldOk
<1>6. PICK h, t : h = Head(w) /\ t = Tail(w)
  OBVIOUS
<1>7. /\ HandApart(t, a, b, c) /\ HandApart(t, a \o h, b, c)
      /\ HandApart(t, a, b \o h, c) /\ HandApart(Halves(h) \o t, a, b, c)
  BY <1>5, <1>6, BatchLeaves
<1>8. ASSUME NEW q, q.pc \in {"post", "wait"}, q.stage = p.stage, q.next = p.next,
             HandApart(q.work, q.retry, q.rejected, c), poll' = q
      PROVE  SaveInv'
  <2>1. KeptPart(poll)' = c
    BY <1>4, <1>8 DEF KeptPart
  <2> QED BY <1>8, <2>1 DEF SaveInv
<1>9. CASE \E s \in Slots : Post(s)
  <2>1. PICK s, l : poll' = [p EXCEPT !.pc = "wait", !.slot = s, !.left = l]
    BY <1>2, <1>9 DEF Post
  <2>2. /\ poll'.pc = "wait" /\ poll'.stage = p.stage /\ poll'.next = p.next
        /\ poll'.work = w /\ poll'.retry = a /\ poll'.rejected = b
    BY <1>4, <1>5, <2>1 DEF PollFields
  <2> QED BY <1>5, <1>8, <2>2
<1>10. CASE KeepUnsent
  <2>1. PICK x : x = a \o h
    OBVIOUS
  <2>2. poll' = [p EXCEPT !.work = t, !.retry = x]
    BY <1>2, <1>4, <1>6, <1>10, <2>1 DEF KeepUnsent
  <2>3. /\ poll'.pc = p.pc /\ poll'.stage = p.stage /\ poll'.next = p.next
        /\ poll'.work = t /\ poll'.retry = x /\ poll'.rejected = b
    BY <1>4, <1>5, <2>2 DEF PollFields
  <2>4. HandApart(t, x, b, c)
    BY <1>7, <2>1, Zenon
  <2>5. HandApart(poll'.work, poll'.retry, poll'.rejected, c)
    BY <2>3, <2>4, Zenon
  <2> QED BY <1>1, <1>2, <1>8, <2>3, <2>5
<1>11. CASE Answered \/ TimesOut
  <2>1. PICK status : poll' = AfterAnswer(status)
    BY <1>11 DEF Answered, TimesOut
  <2>2. PICK r : r = [p EXCEPT !.pc = "post", !.work = Tail(@), !.slot = 0]
    OBVIOUS
  <2>3. /\ r.pc = "post" /\ r.stage = p.stage /\ r.next = p.next /\ r.work = t
        /\ r.retry = a /\ r.rejected = b /\ DOMAIN r = PollFields
    BY <1>4, <1>5, <1>6, <2>2 DEF PollFields
  <2>4. \/ poll' = r
        \/ poll' = [r EXCEPT !.rejected = @ \o h]
        \/ poll' = [r EXCEPT !.work = Halves(h) \o @]
        \/ poll' = [r EXCEPT !.retry = @ \o h, !.blocked = TRUE, !.err = TRUE]
    BY <1>2, <1>4, <1>6, <2>1, <2>2 DEF AfterAnswer
  <2>5. CASE poll' = r
    BY <1>7, <1>8, <2>3, <2>5
  <2>6. CASE poll' = [r EXCEPT !.rejected = @ \o h]
    <3>1. PICK x : x = b \o h
      OBVIOUS
    <3>2. poll' = [r EXCEPT !.rejected = x]
      BY <2>3, <2>6, <3>1
    <3>3. /\ poll'.pc = "post" /\ poll'.stage = p.stage /\ poll'.next = p.next
          /\ poll'.work = t /\ poll'.retry = a /\ poll'.rejected = x
      BY <2>3, <3>2 DEF PollFields
    <3>4. HandApart(t, a, x, c)
      BY <1>7, <3>1, Zenon
    <3>5. HandApart(poll'.work, poll'.retry, poll'.rejected, c)
      BY <3>3, <3>4, Zenon
    <3> QED BY <1>8, <3>3, <3>5
  <2>7. CASE poll' = [r EXCEPT !.work = Halves(h) \o @]
    <3>1. PICK x : x = Halves(h) \o t
      OBVIOUS
    <3>2. poll' = [r EXCEPT !.work = x]
      BY <2>3, <2>7, <3>1
    <3>3. /\ poll'.pc = "post" /\ poll'.stage = p.stage /\ poll'.next = p.next
          /\ poll'.work = x /\ poll'.retry = a /\ poll'.rejected = b
      BY <2>3, <3>2 DEF PollFields
    <3>4. HandApart(x, a, b, c)
      BY <1>7, <3>1, Zenon
    <3>5. HandApart(poll'.work, poll'.retry, poll'.rejected, c)
      BY <3>3, <3>4, Zenon
    <3> QED BY <1>8, <3>3, <3>5
  <2>8. CASE poll' = [r EXCEPT !.retry = @ \o h, !.blocked = TRUE, !.err = TRUE]
    <3>1. PICK x : x = a \o h
      OBVIOUS
    <3>2. poll' = [r EXCEPT !.retry = x, !.blocked = TRUE, !.err = TRUE]
      BY <2>3, <2>8, <3>1
    <3>3. /\ poll'.pc = "post" /\ poll'.stage = p.stage /\ poll'.next = p.next
          /\ poll'.work = t /\ poll'.retry = x /\ poll'.rejected = b
      BY <2>3, <3>2 DEF PollFields
    <3>4. HandApart(t, x, b, c)
      BY <1>7, <3>1, Zenon
    <3>5. HandApart(poll'.work, poll'.retry, poll'.rejected, c)
      BY <3>3, <3>4, Zenon
    <3> QED BY <1>8, <3>3, <3>5
  <2> QED BY <2>4, <2>5, <2>6, <2>7, <2>8
<1> QED BY <1>9, <1>10, <1>11

LEMMA EndStageSaves == ASSUME RecordInv, SaveInv, EndStage PROVE SaveInv'
<1>1. poll.pc = "post" /\ poll.pc \in Asking /\ poll.work = <<>>
  BY DEF EndStage, Asking
<1>2. PICK p, E : p = poll /\ E = Ev(mem)
  OBVIOUS
<1>3. HeldOk(p, E) /\ HandApart(p.work, p.retry, p.rejected, KeptPart(p))
  BY <1>1, <1>2, Held DEF SaveInv
<1>4. PICK n : n = IF p.stage = "pending"
                   THEN [p.next EXCEPT !.pending = p.retry, !.quarantine = @ \o p.rejected]
                   ELSE [p.next EXCEPT !.quarantine = p.retry \o p.rejected]
  OBVIOUS
<1>5. PICK m, a, b, c : m = p.next /\ a = p.retry /\ b = p.rejected /\ c = KeptPart(p)
  OBVIOUS
<1>6. /\ DOMAIN m = OutboxFields /\ m.pending \in Seq(E) /\ m.quarantine \in Seq(E)
      /\ m.inode = mem.inode /\ m.offset = mem.offset
      /\ a \in Seq(E) /\ b \in Seq(E) /\ DOMAIN p = PollFields
  BY <1>3, <1>5 DEF HeldOk
<1>7. /\ Distinct(a) /\ Distinct(b) /\ Distinct(c)
      /\ Ids(a) \cap Ids(b) = {} /\ Ids(a) \cap Ids(c) = {} /\ Ids(b) \cap Ids(c) = {}
  BY <1>3, <1>5 DEF HandApart
<1>8. PICK cb, ab : cb = c \o b /\ ab = a \o b
  OBVIOUS
<1>9. c \in Seq(E)
  BY <1>5, <1>6 DEF KeptPart
<1>10. /\ cb \in Seq(E) /\ ab \in Seq(E)
       /\ Distinct(cb) /\ Ids(cb) = Ids(c) \cup Ids(b)
       /\ Distinct(ab) /\ Ids(ab) = Ids(a) \cup Ids(b)
  <2>1. Ids(c) \cap Ids(b) = {}
    BY <1>7
  <2>2. Distinct(c \o b) /\ Ids(c \o b) = Ids(c) \cup Ids(b)
    BY <1>6, <1>7, <1>9, <2>1, Joined
  <2>3. Distinct(a \o b) /\ Ids(a \o b) = Ids(a) \cup Ids(b)
    BY <1>6, <1>7, Joined
  <2>4. cb \in Seq(E) /\ ab \in Seq(E)
    BY <1>6, <1>8, <1>9
  <2> QED BY <1>8, <2>2, <2>3, <2>4, Zenon
<1>11. /\ n.pending \in Seq(E) /\ n.quarantine \in Seq(E) /\ DOMAIN n = OutboxFields
       /\ n.inode = mem.inode /\ n.offset = mem.offset
       /\ Distinct(n.pending) /\ Distinct(n.quarantine)
       /\ Ids(n.pending) \cap Ids(n.quarantine) = {}
  <2>1. CASE p.stage = "pending"
    <3>1. c = m.quarantine
      BY <1>5, <2>1 DEF KeptPart
    <3>2. n = [m EXCEPT !.pending = a, !.quarantine = cb]
      BY <1>4, <1>5, <1>8, <2>1, <3>1
    <3>3. /\ n.pending = a /\ n.quarantine = cb /\ DOMAIN n = OutboxFields
          /\ n.inode = mem.inode /\ n.offset = mem.offset
      BY <1>6, <3>2 DEF OutboxFields
    <3> QED BY <1>6, <1>7, <1>10, <3>3
  <2>2. CASE p.stage # "pending"
    <3>1. c = m.pending
      BY <1>5, <2>2 DEF KeptPart
    <3>2. n = [m EXCEPT !.quarantine = ab]
      BY <1>4, <1>5, <1>8, <2>2
    <3>3. /\ n.pending = c /\ n.quarantine = ab /\ DOMAIN n = OutboxFields
          /\ n.inode = mem.inode /\ n.offset = mem.offset
      BY <1>6, <3>1, <3>2 DEF OutboxFields
    <3> QED BY <1>7, <1>9, <1>10, <3>3
  <2> QED BY <2>1, <2>2
<1>12. CASE /\ p.stage = "pending"
            /\ poll' = [p EXCEPT !.stage = "quarantine", !.next = n,
                            !.work = <<n.quarantine>>, !.retry = <<>>, !.rejected = <<>>]
  <2>1. PICK w, q : w = <<q>> /\ q = n.quarantine
    OBVIOUS
  <2>2. poll' = [p EXCEPT !.stage = "quarantine", !.next = n, !.work = w, !.retry = <<>>,
                          !.rejected = <<>>]
    BY <1>12, <2>1
  <2>3. /\ poll'.pc = p.pc /\ poll'.stage = "quarantine" /\ poll'.next = n /\ poll'.work = w
        /\ poll'.retry = <<>> /\ poll'.rejected = <<>>
    BY <1>6, <2>2 DEF PollFields
  <2>4. KeptPart(poll)' = n.pending
    BY <2>3 DEF KeptPart
  <2>5. Distinct(q) /\ Ids(n.pending) \cap Ids(q) = {}
    BY <1>11, <2>1
  <2>6. WorkApart(w) /\ WorkIds(w) = Ids(q)
    BY <2>1, <2>5, OneBatch
  <2>7. WorkIds(w) \cap Ids(n.pending) = {}
    BY <2>5, <2>6
  <2>8. HandApart(w, <<>>, <<>>, n.pending)
    BY <1>11, <2>6, <2>7, NothingHeld DEF HandApart
  <2> QED BY <1>1, <1>2, <2>3, <2>4, <2>8 DEF SaveInv
<1>13. CASE poll' = [p EXCEPT !.pc = "save",
                            !.next = [n EXCEPT !.retryAt = p.blocked, !.saved = TRUE]]
  <2>1. PICK k : k = [n EXCEPT !.retryAt = p.blocked, !.saved = TRUE]
    OBVIOUS
  <2>2. /\ k.pending = n.pending /\ k.quarantine = n.quarantine
        /\ k.inode = n.inode /\ k.offset = n.offset
    BY <1>11, <2>1 DEF OutboxFields
  <2>3. Valid(k)
    <3>1. /\ k.pending \in Seq(Ev(mem)) /\ k.quarantine \in Seq(Ev(mem))
          /\ Distinct(k.pending) /\ Distinct(k.quarantine)
          /\ Ids(k.pending) \cap Ids(k.quarantine) = {}
          /\ k.offset = mem.offset /\ k.inode = mem.inode
      BY <1>2, <1>11, <2>2
    <3> QED BY <3>1, ValidFromMemory
  <2>4. poll'.pc = "save" /\ poll'.next = k
    BY <1>6, <1>13, <2>1 DEF PollFields
  <2> QED BY <2>3, <2>4 DEF SaveInv
<1> QED BY <1>2, <1>4, <1>12, <1>13 DEF EndStage

LEMMA ReadSaves ==
    ASSUME RecordInv, RecordInv', SkipHistory \/ \E uid \in PodUIDs : ReadFile(uid)
    PROVE  SaveInv'
<1>1. /\ DOMAIN poll = PollFields /\ OutboxType(mem) /\ Valid(mem) /\ file.inode # 0
      /\ poll.pc = "read" /\ mem.pending = <<>> /\ mem' = mem /\ SourceInv /\ mem # Unloaded
  BY Busy, LinesAssumption DEF SkipHistory, ReadFile, RecordInv, PollInv, OutboxInv, SourceInv
<1>2. /\ mem.quarantine \in Seq(Events) /\ mem.pending \in Seq(Events) /\ DOMAIN mem = OutboxFields
      /\ Distinct(mem.quarantine)
  BY <1>1, ValidParts DEF OutboxType
<1>3. Len(mem.quarantine) <= MaxEvents /\ Len(mem.quarantine) \in Nat
  <2>1. Len(mem.pending \o mem.quarantine) <= MaxEvents
    BY <1>1 DEF Valid
  <2>2. PICK q : q = mem.quarantine
    OBVIOUS
  <2>3. q \in Seq(Events) /\ <<>> \o q = q
    BY <1>2, <2>2
  <2> QED BY <1>1, <2>1, <2>2, <2>3
<1>4. CASE SkipHistory
  <2>1. PICK n : n = [mem EXCEPT !.saved = TRUE, !.inode = file.inode, !.gen = file.gen,
                                 !.offset = Len(file.lines)]
    OBVIOUS
  <2>2. n.pending = mem.pending /\ n.quarantine = mem.quarantine /\ n.inode = file.inode
    BY <1>2, <2>1 DEF OutboxFields
  <2>3. poll' = [poll EXCEPT !.pc = "checkpoint", !.report = FALSE, !.next = n]
    BY <1>4, <2>1 DEF SkipHistory
  <2>4. poll'.pc = "checkpoint" /\ poll'.next = n
    BY <1>1, <2>3 DEF PollFields
  <2>5. Valid(n)
    BY <1>1, <2>2 DEF Valid
  <2> QED BY <2>4, <2>5 DEF SaveInv
<1>5. ASSUME NEW uid \in PodUIDs, ReadFile(uid) PROVE SaveInv'
  <2>1. PICK start, t : start = StartOf /\ t = Taken(StartOf, uid)
    OBVIOUS
  <2>2. start \in 0 .. Len(file.lines) /\ uid \in 0 .. podGen /\ t = Taken(start, uid)
    BY <1>1, <2>1, StartFits DEF PodUIDs
  <2>3. /\ t \in Seq(1 .. written) /\ start + Len(t) <= Len(file.lines)
        /\ \A i \in 1 .. Len(t) : t[i] = file.lines[start + i]
        /\ Len(Parsed(t, uid)) <= MaxEvents - Len(mem.quarantine)
    BY <2>2, TakenLines
  <2>4. PICK b : b = Parsed(t, uid)
    OBVIOUS
  <2>5. PICK n : n = [mem EXCEPT !.saved = TRUE, !.inode = file.inode, !.gen = file.gen,
                                 !.offset = start + Len(t), !.pending = b]
    OBVIOUS
  <2>6. n.pending = b /\ n.quarantine = mem.quarantine /\ n.inode = file.inode
    BY <1>2, <2>5 DEF OutboxFields
  <2>7. \E d : poll' = [poll EXCEPT !.pc = "checkpoint", !.dirty = d, !.next = n]
    <3>1. \E d : poll' = [poll EXCEPT !.pc = "checkpoint", !.dirty = d,
                !.next = [mem EXCEPT !.saved = TRUE, !.inode = file.inode, !.gen = file.gen,
                                     !.offset = StartOf + Len(Taken(StartOf, uid)),
                                     !.pending = Parsed(Taken(StartOf, uid), uid)]]
      BY <1>5, Zenon DEF ReadFile, StartOf, Taken
    <3> QED BY <2>1, <2>4, <2>5, <3>1, Zenon
  <2>8. poll'.pc = "checkpoint" /\ poll'.next = n
    BY <1>1, <2>7 DEF PollFields
  <2>9. Distinct(b)
    <3>1. Len(file.lines) \in Nat /\ Len(t) \in Nat /\ DOMAIN file.lines = 1 .. Len(file.lines)
      BY <1>1, <2>3 DEF SourceInv
    <3>2. \A i \in 1 .. Len(t) : start + i \in DOMAIN file.lines
      BY <2>2, <2>3, <3>1
    <3>3. \A i, j \in 1 .. Len(t) : start + i = start + j => i = j
      BY <2>2
    <3>4. \A i, j \in 1 .. Len(t) : t[i] = t[j] => i = j
      BY <1>1, <2>3, <3>2, <3>3 DEF SourceInv
    <3> QED BY <1>1, <2>2, <2>3, <2>4, <3>4, ParsedApart
  <2>10. /\ n.pending \in Seq(Events)
         /\ \A e \in Range(b) : \A d \in Ev(mem) : d.id # e.id
    BY <1>1, <2>6, <2>8 DEF RecordInv, CheckpointInv, OutboxType
  <2>11. Ids(b) \cap Ids(mem.quarantine) = {}
    <3>1. SUFFICES ASSUME NEW i \in 1 .. Len(b), NEW j \in 1 .. Len(mem.quarantine),
                          b[i].id = mem.quarantine[j].id
                   PROVE  FALSE
      BY DEF Ids
    <3>2. b[i] \in Range(b)
      BY <2>6, <2>10, SeqAndRange
    <3>3. mem.quarantine[j] \in Range(mem.quarantine)
      BY <1>2, SeqAndRange
    <3>4. mem.quarantine[j] \in Ev(mem)
      BY <3>3 DEF Ev
    <3> QED BY <2>10, <3>1, <3>2, <3>4
  <2>12. Len(n.pending) + Len(n.quarantine) <= MaxEvents
    <3>1. Len(b) <= MaxEvents - Len(mem.quarantine) /\ Len(b) \in Nat /\ MaxEvents \in Nat
      BY <2>3, <2>4, <2>6, <2>10, LinesAssumption
    <3>2. PICK x, y : x = Len(b) /\ y = Len(mem.quarantine)
      OBVIOUS
    <3>3. x \in Nat /\ y \in Nat /\ x <= MaxEvents - y
      BY <1>3, <3>1, <3>2
    <3>4. x + y <= MaxEvents
      BY <3>1, <3>3
    <3> QED BY <2>6, <3>2, <3>4
  <2>13. Valid(n)
    <3>1. /\ n.pending \in Seq(Events) /\ n.quarantine \in Seq(Events)
          /\ Distinct(n.pending) /\ Distinct(n.quarantine)
          /\ Ids(n.pending) \cap Ids(n.quarantine) = {} /\ n.inode # 0
      BY <1>1, <1>2, <2>6, <2>9, <2>10, <2>11
    <3> QED BY <2>12, <3>1, ValidAgain
  <2> QED BY <2>8, <2>13 DEF SaveInv
<1> QED BY <1>4, <1>5

\* Every other step leaves the poll alone or ends what it held.
LEMMA OtherSaves ==
    ASSUME RecordInv, SaveInv,
           \/ UNCHANGED poll \/ SaveFlush \/ AfterFlush \/ ObserveWindow \/ Checkpoint
           \/ ReadFails \/ Crash \/ \E early, due \in BOOLEAN : StartPoll(early, due)
    PROVE  SaveInv'
<1>1. DOMAIN poll = PollFields
  BY DEF RecordInv, PollInv
<1>2. CASE UNCHANGED poll
  BY <1>2 DEF SaveInv, KeptPart
<1>3. CASE SaveFlush
  <2>1. poll'.pc = "flushed"
    BY <1>1, <1>3 DEF SaveFlush, FlushEnds, PollFields
  <2> QED BY <2>1 DEF SaveInv
<1>4. CASE AfterFlush
  <2>1. poll'.pc \in {"flush", "read", "observe"}
    <3>1. poll.from \in {"start", "read", "final"}
      BY DEF RecordInv, PollInv, Froms
    <3> QED BY <1>1, <1>4, <3>1 DEF AfterFlush, PollFields
  <2> QED BY <2>1 DEF SaveInv
<1>5. CASE Checkpoint
  <2>1. poll'.pc = "flush"
    BY <1>1, <1>5 DEF Checkpoint, PollFields
  <2> QED BY <2>1 DEF SaveInv
<1>6. CASE ReadFails
  <2>1. poll'.pc = "flush"
    BY <1>1, <1>6 DEF ReadFails, PollFields
  <2> QED BY <2>1 DEF SaveInv
<1>7. CASE ObserveWindow \/ Crash
  <2>1. poll'.pc = "idle"
    BY <1>7 DEF ObserveWindow, Crash, Idle
  <2> QED BY <2>1 DEF SaveInv
<1>8. CASE \E early, due \in BOOLEAN : StartPoll(early, due)
  <2>1. poll'.pc = "flush"
    BY <1>8 DEF StartPoll, Idle
  <2> QED BY <2>1 DEF SaveInv
<1> QED BY <1>2, <1>3, <1>4, <1>5, <1>6, <1>7, <1>8

LEMMA SaveNext == RecordInv /\ RecordInv' /\ SaveInv /\ [Next]_vars => SaveInv'
<1>1. SUFFICES ASSUME RecordInv, RecordInv', SaveInv, [Next]_vars PROVE SaveInv'
  OBVIOUS
<1>2. CASE StartLine \/ WriteLine \/ ReplaceFile \/ RecreatePod
  <2>1. UNCHANGED poll
    BY <1>2 DEF StartLine, WriteLine, ReplaceFile, RecreatePod, agentVars
  <2> QED BY <1>1, <2>1, OtherSaves
<1>3. CASE CoreStep \/ CoreFails \/ AnswerUnheard \/ LearnPod \/ ForgetPod
  <2>1. UNCHANGED poll
    BY <1>3 DEF CoreStep, CoreFails, AnswerUnheard, LearnPod, ForgetPod, agentVars
  <2> QED BY <1>1, <2>1, OtherSaves
<1>4. CASE UNCHANGED vars
  <2>1. UNCHANGED poll
    BY <1>4 DEF vars
  <2> QED BY <1>1, <2>1, OtherSaves
<1>5. CASE Flush
  BY <1>1, <1>5, EnterFlushSaves, AskingSaves, EndStageSaves, OtherSaves DEF Flush
<1>6. CASE Reading
  BY <1>1, <1>6, ReadSaves, OtherSaves DEF Reading
<1>7. CASE ObserveWindow \/ ReadFails \/ Crash \/ \E early, due \in BOOLEAN : StartPoll(early, due)
  BY <1>1, <1>7, OtherSaves
<1>8. CASE TimesOut
  BY <1>1, <1>8, AskingSaves
<1> QED BY <1>1, <1>2, <1>3, <1>4, <1>5, <1>6, <1>7, <1>8 DEF Next, Polling

\* The reader never stops for good on what it made of its own state: what a flush or a read
\* hands to save passes validate, however batches are split, refused, retried, kept or
\* quarantined, and whichever saves are refused for the encoded size or fail.
THEOREM RefusedOnlyForSizeTheorem == Spec => []RefusedOnlyForSize
<1>1. Init => SaveInv
  BY DEF Init, SaveInv, Idle
<1>2. SaveInv => RefusedOnlyForSize
  BY DEF SaveInv, RefusedOnlyForSize
<1> QED BY <1>1, <1>2, RecordAlways, SaveNext, PTL DEF Spec

-----------------------------------------------------------------------------
(* What is read is never lost: durable delivery, step by step.              *)

HeldIds(o) == Ids(o.pending) \cup Ids(o.quarantine)
Claimed == DOMAIN claims

\* Cursor b is where a is, or further on.
CursorLe(a, b) == /\ a.saved => b.saved
                  /\ a.gen <= b.gen
                  /\ a.gen = b.gen => a.offset <= b.offset

\* A file that was replaced is noticed, from every cursor there is; and no cursor that the
\* program goes on from after a crash is behind the one in memory.
TellInv ==
    /\ ~ Unseen(rd, file) /\ ~ Unseen(disk, file) /\ ~ Unseen(mem, file)
    /\ mem # Unloaded => CursorLe(mem, disk)
    /\ poll.pc = "checkpoint" => rd.offset <= poll.next.offset /\ CursorLe(mem, poll.next)

\* Core goes through a batch in order.
BatchOk(r, C) ==
    /\ r.status \in {"received", "processing"} =>
          \A i \in 1 .. Len(r.batch) : i < r.next => r.batch[i].id \in C
    /\ r.status = "ok" => Ids(r.batch) \subseteq C
BatchInv == \A s \in Slots : BatchOk(requests[s], Claimed)

\* What a flush does with the events of the outbox: claimed by Core, or still in hand.
HandInv ==
    /\ poll.pc \in {"post", "wait"} =>
          HeldIds(mem) \subseteq Claimed \cup WorkIds(poll.work) \cup Ids(poll.retry)
                                         \cup Ids(poll.rejected) \cup Ids(KeptPart(poll))
    /\ poll.pc = "save" => HeldIds(mem) \subseteq Claimed \cup HeldIds(poll.next)
    /\ poll.pc = "wait" => requests[poll.slot].batch = Head(poll.work)

\* Nothing is sent that the outbox does not hold, and what is in memory is on disk.
KeepInv ==
    /\ \A s \in Slots : Ids(requests[s].batch) \subseteq Claimed \cup HeldIds(Outbox)
    /\ mem # Unloaded => HeldIds(mem) \subseteq Claimed \cup HeldIds(disk)
    /\ HeldIds(mem) \cup HeldIds(disk) \subseteq EventSet
    /\ poll.pc = "checkpoint" => HeldIds(poll.next) \subseteq EventSet

\* What a read hands over: the next outbox, with the cursor after the lines that were taken.
ReadTo(n, start) ==
    /\ poll'.pc = "checkpoint" /\ poll'.next = n
    /\ n.saved = TRUE /\ n.inode = file.inode /\ n.gen = file.gen
    /\ n.quarantine = mem.quarantine /\ n.offset \in Nat
    /\ start \in Nat /\ start <= n.offset /\ n.offset <= Len(file.lines)
    /\ mem.gen = file.gen => start = mem.offset
    /\ rd' = [init |-> TRUE, inode |-> file.inode, gen |-> file.gen, offset |-> start]
    /\ \A id \in Ids(n.pending) : /\ id \in EventSet
                                  /\ \E i \in DOMAIN file.lines : start < i /\ file.lines[i] = id[1]

LEMMA ReadEffect ==
    ASSUME RecordInv, SkipHistory \/ \E uid \in PodUIDs : ReadFile(uid)
    PROVE  \E n, start : ReadTo(n, start)
<1>1. /\ DOMAIN poll = PollFields /\ OutboxType(mem) /\ DOMAIN mem = OutboxFields
      /\ poll.pc = "read" /\ mem.pending = <<>> /\ SourceInv /\ mem # Unloaded
      /\ Len(file.lines) \in Nat /\ file.gen \in Nat \ {0}
  <2>1. poll.pc = "read"
    BY DEF SkipHistory, ReadFile
  <2>2. mem # Unloaded
    BY <2>1, Busy
  <2>3. SourceInv /\ Len(file.lines) \in Nat /\ file.gen \in Nat \ {0}
    BY DEF RecordInv, SourceInv
  <2>4. OutboxType(mem) /\ DOMAIN mem = OutboxFields
    BY DEF RecordInv, OutboxInv, OutboxType
  <2> QED BY <2>1, <2>2, <2>3, <2>4 DEF RecordInv, PollInv
<1>2. CASE SkipHistory
  <2>1. PICK l : l = Len(file.lines)
    OBVIOUS
  <2>2. PICK n : n = [mem EXCEPT !.saved = TRUE, !.inode = file.inode, !.gen = file.gen, !.offset = l]
    OBVIOUS
  <2>3. /\ n.saved = TRUE /\ n.inode = file.inode /\ n.gen = file.gen /\ n.offset = l
        /\ n.pending = mem.pending /\ n.quarantine = mem.quarantine
    BY <1>1, <2>2 DEF OutboxFields
  <2>4. poll' = [poll EXCEPT !.pc = "checkpoint", !.report = FALSE, !.next = n]
    BY <1>2, <2>1, <2>2 DEF SkipHistory
  <2>5. poll'.pc = "checkpoint" /\ poll'.next = n
    BY <1>1, <2>4 DEF PollFields
  <2>6. rd' = [init |-> TRUE, inode |-> file.inode, gen |-> file.gen, offset |-> l]
    BY <1>2, <2>1 DEF SkipHistory
  <2>7. mem.gen # file.gen
    BY <1>1, <1>2 DEF SkipHistory, RecordInv, ReaderInv, OutboxType
  <2>8. Ids(n.pending) = {}
    BY <1>1, <2>3, NothingHeld
  <2>9. ReadTo(n, l)
    BY <1>1, <2>1, <2>3, <2>5, <2>6, <2>7, <2>8 DEF ReadTo
  <2> QED BY <2>9
<1>3. ASSUME NEW uid \in PodUIDs, ReadFile(uid) PROVE \E n, start : ReadTo(n, start)
  <2>1. PICK start, t : start = StartOf /\ t = Taken(StartOf, uid)
    OBVIOUS
  <2>2. /\ start \in 0 .. Len(file.lines) /\ uid \in 0 .. podGen /\ t = Taken(start, uid)
        /\ mem.gen = file.gen => start = mem.offset
    BY <1>1, <2>1, StartFits DEF PodUIDs
  <2>3. /\ t \in Seq(1 .. written) /\ start + Len(t) <= Len(file.lines) /\ Len(t) \in Nat
        /\ \A i \in 1 .. Len(t) : t[i] = file.lines[start + i]
    BY <2>2, TakenLines
  <2>4. PICK b, o : b = Parsed(t, uid) /\ o = start + Len(t)
    OBVIOUS
  <2>5. PICK n : n = [mem EXCEPT !.saved = TRUE, !.inode = file.inode, !.gen = file.gen, !.offset = o,
                                 !.pending = b]
    OBVIOUS
  <2>6. /\ n.saved = TRUE /\ n.inode = file.inode /\ n.gen = file.gen /\ n.offset = o
        /\ n.pending = b /\ n.quarantine = mem.quarantine
    BY <1>1, <2>5 DEF OutboxFields
  <2>7. /\ \E d : poll' = [poll EXCEPT !.pc = "checkpoint", !.dirty = d, !.next = n]
        /\ rd' = [init |-> TRUE, inode |-> file.inode, gen |-> file.gen, offset |-> start]
    <3>1. /\ \E d : poll' = [poll EXCEPT !.pc = "checkpoint", !.dirty = d,
                !.next = [mem EXCEPT !.saved = TRUE, !.inode = file.inode, !.gen = file.gen,
                                     !.offset = StartOf + Len(Taken(StartOf, uid)),
                                     !.pending = Parsed(Taken(StartOf, uid), uid)]]
          /\ rd' = [init |-> TRUE, inode |-> file.inode, gen |-> file.gen, offset |-> StartOf]
      BY <1>3, Zenon DEF ReadFile, StartOf, Taken
    <3> QED BY <2>1, <2>4, <2>5, <3>1, Zenon
  <2>8. poll'.pc = "checkpoint" /\ poll'.next = n
    BY <1>1, <2>7 DEF PollFields
  <2>9. start \in Nat /\ o \in Nat /\ start <= o /\ o <= Len(file.lines)
    BY <1>1, <2>2, <2>3, <2>4
  <2>10. ASSUME NEW id \in Ids(b)
         PROVE  id \in EventSet /\ \E i \in DOMAIN file.lines : start < i /\ file.lines[i] = id[1]
    <3>1. b \in Seq(EventsIn(Range(t), uid))
      BY <1>1, <2>2, <2>3, <2>4, ParsedEvents
    <3>2. PICK k \in 1 .. Len(b) : id = b[k].id
      BY DEF Ids
    <3>3. b[k] \in EventsIn(Range(t), uid)
      BY <3>1, <3>2
    <3>4. id \in EventSet /\ id[1] \in Range(t)
      BY <3>2, <3>3 DEF EventsIn
    <3>5. PICK j \in 1 .. Len(t) : id[1] = t[j]
      <4>1. PICK W : W = 1 .. written
        OBVIOUS
      <4>2. t \in Seq(W) /\ id[1] \in Range(t)
        BY <2>3, <3>4, <4>1
      <4> QED BY <4>2, SeqAndRange
    <3>6. start + j \in DOMAIN file.lines /\ start < start + j
      BY <1>1, <2>2, <2>3 DEF SourceInv
    <3> QED BY <2>3, <3>4, <3>5, <3>6
  <2>11. ReadTo(n, start)
    BY <2>2, <2>6, <2>7, <2>8, <2>9, <2>10 DEF ReadTo
  <2> QED BY <2>11
<1> QED BY <1>2, <1>3

\* What a flush or a checkpoint leaves behind.
LEMMA SaveEffect ==
    ASSUME RecordInv, SaveFlush \/ Checkpoint
    PROVE  /\ UNCHANGED <<ingestVars, sourceVars>> /\ poll'.pc \in {"flush", "flushed"}
           /\ mem # Unloaded /\ mem.inode # -1 /\ mem' # Unloaded
           /\ \/ mem' = mem /\ disk' = disk
              \/ mem' = mem /\ disk' = poll.next
              \/ mem' = poll.next /\ disk' = poll.next
           /\ rd' = rd \/ (Checkpoint /\ mem' = poll.next /\ rd' = [rd EXCEPT !.offset = poll.next.offset])
<1>1. DOMAIN poll = PollFields
  BY DEF RecordInv, PollInv
<1>2. mem # Unloaded /\ mem.inode # -1 /\ (SaveDone \/ SaveFailed)
  BY Busy DEF SaveFlush, Checkpoint, RecordInv, OutboxInv
<1>3. poll'.pc \in {"flush", "flushed"}
  BY <1>1 DEF SaveFlush, Checkpoint, FlushEnds, PollFields
<1>4. poll.next # Unloaded
  BY DEF SaveFlush, Checkpoint, RecordInv, PollInv, CheckpointInv, Asking, Unloaded, EmptyOutbox
<1>5. \/ mem' = mem /\ disk' = disk
      \/ mem' = mem /\ disk' = poll.next
      \/ mem' = poll.next /\ disk' = poll.next
  BY <1>2, SaveOutcomes
<1>6. rd' = rd \/ (Checkpoint /\ mem' = poll.next /\ rd' = [rd EXCEPT !.offset = poll.next.offset])
  BY DEF SaveFlush, Checkpoint, SaveDone
<1>7. UNCHANGED <<ingestVars, sourceVars>>
  BY DEF SaveFlush, Checkpoint
<1> QED BY <1>2, <1>3, <1>4, <1>5, <1>6, <1>7

LEMMA TellFrame ==
    ASSUME TellInv, UNCHANGED <<file, disk, mem, rd>>, UNCHANGED poll \/ poll'.pc # "checkpoint"
    PROVE  TellInv'
  BY DEF TellInv, Unseen, CursorLe

LEMMA TellSource ==
    ASSUME RecordInv, TellInv, ~ RegrowPastCursor,
           StartLine \/ WriteLine \/ ReplaceFile \/ RecreatePod
    PROVE  TellInv'
<1>1. UNCHANGED <<disk, mem, rd, poll>>
  BY DEF StartLine, WriteLine, ReplaceFile, RecreatePod, agentVars
<1>2. ~ Unseen(rd, file') /\ ~ Unseen(disk, file') /\ ~ Unseen(mem, file')
  <2>1. CASE WriteLine \/ ReplaceFile
    BY <2>1 DEF WriteLine, ReplaceFile, Tellable
  <2>2. CASE StartLine \/ RecreatePod
    <3>1. file'.inode = file.inode /\ file'.gen = file.gen /\ file'.lines = file.lines
      BY <2>2 DEF StartLine, RecreatePod, RecordInv, SourceInv
    <3> QED BY <3>1 DEF TellInv, Unseen
  <2> QED BY <2>1, <2>2
<1> QED BY <1>1, <1>2 DEF TellInv, CursorLe

LEMMA TellSave == ASSUME RecordInv, TellInv, SaveFlush \/ Checkpoint PROVE TellInv'
<1>1. PICK n : n = poll.next
  OBVIOUS
<1>2. /\ file' = file /\ poll'.pc # "checkpoint" /\ mem # Unloaded
      /\ \/ mem' = mem /\ disk' = disk
         \/ mem' = mem /\ disk' = n
         \/ mem' = n /\ disk' = n
      /\ rd' = rd \/ (Checkpoint /\ mem' = n /\ rd' = [rd EXCEPT !.offset = n.offset])
  BY <1>1, SaveEffect DEF sourceVars
<1>3. ~ Unseen(rd, file) /\ ~ Unseen(disk, file) /\ ~ Unseen(mem, file) /\ CursorLe(mem, disk)
  BY <1>2 DEF TellInv
<1>4. mem.gen \in Nat /\ mem.offset \in Nat /\ file.gen \in Nat /\ Len(file.lines) \in Nat
  BY DEF RecordInv, OutboxInv, OutboxType, SourceInv
<1>5. /\ CursorLe(mem, n) /\ n.gen \in Nat /\ n.offset \in Nat /\ ~ Unseen(n, file)
      /\ Checkpoint => n.gen = rd.gen /\ n.inode = rd.inode
  <2>1. CASE SaveFlush
    <3>1. n.saved = TRUE /\ n.inode = mem.inode /\ n.gen = mem.gen /\ n.offset = mem.offset /\ poll.pc = "save"
      BY <1>1, <2>1 DEF SaveFlush, RecordInv, PollInv, Asking
    <3> QED BY <1>3, <1>4, <2>1, <3>1 DEF CursorLe, Unseen, Checkpoint
  <2>2. CASE Checkpoint
    <3>1. poll.pc = "checkpoint"
      BY <2>2 DEF Checkpoint
    <3>2. n.gen = rd.gen /\ n.inode = rd.inode /\ n.gen \in Nat /\ n.offset \in Nat /\ rd.offset \in Nat
      BY <1>1, <3>1 DEF RecordInv, CheckpointInv, OutboxType, ReaderInv
    <3>3. rd.offset <= n.offset /\ CursorLe(mem, n)
      BY <1>1, <3>1 DEF TellInv
    <3> QED BY <1>3, <1>4, <3>2, <3>3 DEF Unseen
  <2> QED BY <2>1, <2>2
<1>6. CursorLe(n, n) /\ CursorLe(mem, mem)
  BY <1>4, <1>5 DEF CursorLe
<1>7. CursorLe(mem', disk') /\ ~ Unseen(mem', file) /\ ~ Unseen(disk', file)
  BY <1>2, <1>3, <1>5, <1>6
<1>8. ~ Unseen(rd', file)
  <2>1. CASE rd' = [rd EXCEPT !.offset = n.offset] /\ Checkpoint
    <3>1. rd'.inode = rd.inode /\ rd'.gen = rd.gen /\ rd'.offset = n.offset
      BY <2>1 DEF RecordInv, ReaderInv
    <3> QED BY <1>5, <2>1, <3>1 DEF Unseen
  <2> QED BY <1>2, <1>3, <2>1
<1> QED BY <1>2, <1>7, <1>8 DEF TellInv

LEMMA TellOther ==
    ASSUME RecordInv, TellInv,
           \/ SkipHistory \/ (\E uid \in PodUIDs : ReadFile(uid)) \/ ReadFails \/ Crash
           \/ \E early, due \in BOOLEAN : StartPoll(early, due)
    PROVE  TellInv'
<1>1. /\ file.inode \in Nat \ {0} /\ file.gen \in Nat \ {0} /\ mem.gen \in Nat /\ mem.offset \in Nat
      /\ disk.gen \in Nat /\ disk.offset \in Nat /\ DOMAIN poll = PollFields
  BY LinesAssumption DEF RecordInv, OutboxInv, OutboxType, SourceInv, PollInv
<1>2. CASE SkipHistory \/ \E uid \in PodUIDs : ReadFile(uid)
  <2>1. PICK n, start : ReadTo(n, start)
    BY <1>2, ReadEffect
  <2>2. UNCHANGED <<file, disk, mem>>
    BY <1>2 DEF SkipHistory, ReadFile, sourceVars
  <2>3. ~ Unseen(rd', file)
    BY <2>1 DEF ReadTo, Unseen
  <2>4. mem.gen <= file.gen
    BY DEF RecordInv, OutboxInv, CursorFits
  <2>5. CursorLe(mem, n)
    BY <1>1, <2>1, <2>4 DEF ReadTo, CursorLe
  <2>6. rd'.offset <= poll'.next.offset /\ poll'.next = n
    BY <2>1 DEF ReadTo
  <2> QED BY <2>2, <2>3, <2>5, <2>6 DEF TellInv
<1>3. CASE ReadFails
  <2>1. UNCHANGED <<file, disk, mem>> /\ poll'.pc # "checkpoint" /\ (rd' = rd \/ rd'.gen = file.gen)
    BY <1>1, <1>3 DEF ReadFails, sourceVars, PollFields
  <2>2. ~ Unseen(rd', file)
    BY <2>1 DEF TellInv, Unseen
  <2> QED BY <2>1, <2>2 DEF TellInv
<1>4. CASE Crash
  <2>1. UNCHANGED <<file, disk>> /\ mem' = Unloaded /\ rd' = ColdReader /\ poll'.pc = "idle"
    BY <1>4 DEF Crash, sourceVars, Idle
  <2>2. ~ Unseen(rd', file) /\ ~ Unseen(mem', file)
    BY <1>1, <2>1 DEF Unseen, ColdReader, Unloaded, EmptyOutbox
  <2> QED BY <2>1, <2>2 DEF TellInv
<1>5. CASE \E early, due \in BOOLEAN : StartPoll(early, due)
  <2>1. /\ UNCHANGED <<file, disk>> /\ poll'.pc = "flush"
        /\ (mem # Unloaded /\ mem' = mem) \/ mem' = disk
        /\ rd' = rd \/ rd'.inode = 0
    <3>1. PICK early, due : StartPoll(early, due)
      BY <1>5
    <3>2. poll'.pc = "flush"
      BY <3>1 DEF StartPoll, Idle
    <3>3. UNCHANGED <<file, disk>> /\ ((mem # Unloaded /\ mem' = mem) \/ mem' = disk)
      BY <3>1 DEF StartPoll, Loaded, sourceVars
    <3>4. rd' = rd \/ rd'.inode = 0
      BY <3>1 DEF StartPoll
    <3> QED BY <3>2, <3>3, <3>4
  <2>2. ~ Unseen(rd', file)
    BY <1>1, <2>1 DEF TellInv, Unseen
  <2>3. CursorLe(disk, disk)
    BY <1>1 DEF CursorLe
  <2> QED BY <2>1, <2>2, <2>3 DEF TellInv
<1> QED BY <1>2, <1>3, <1>4, <1>5

\* The steps of a poll that leave the cursors where they are.
Steady == \/ EnterFlush \/ (\E s \in Slots : Post(s)) \/ KeepUnsent \/ Answered \/ TimesOut
          \/ EndStage \/ AfterFlush \/ ObserveWindow

LEMMA SteadyEffect ==
    ASSUME RecordInv, Steady
    PROVE  UNCHANGED <<sourceVars, disk, mem, rd>> /\ poll'.pc # "checkpoint"
<1>1. UNCHANGED <<sourceVars, disk, mem, rd>>
  <2>1. CASE \E s \in Slots : Post(s)
    BY <2>1 DEF Post
  <2>2. CASE EnterFlush \/ KeepUnsent \/ EndStage
    BY <2>2 DEF EnterFlush, KeepUnsent, EndStage
  <2>3. CASE Answered \/ TimesOut \/ AfterFlush \/ ObserveWindow
    BY <2>3 DEF Answered, TimesOut, AfterFlush, ObserveWindow
  <2> QED BY <2>1, <2>2, <2>3 DEF Steady
<1>2. DOMAIN poll = PollFields /\ poll.from \in Froms
  BY DEF RecordInv, PollInv
<1>3. CASE EnterFlush
  BY <1>2, <1>3 DEF EnterFlush, PollFields
<1>4. CASE (\E s \in Slots : Post(s)) \/ KeepUnsent \/ EndStage
  BY <1>2, <1>4 DEF Post, KeepUnsent, EndStage, PollFields
<1>5. CASE Answered \/ TimesOut
  <2>1. PICK status : poll' = AfterAnswer(status) /\ poll.pc = "wait"
    BY <1>5 DEF Answered, TimesOut
  <2>2. poll'.pc = "post"
    BY <1>1, <2>1, Answers1
  <2> QED BY <1>1, <2>2
<1>6. CASE AfterFlush
  BY <1>2, <1>6 DEF AfterFlush, PollFields, Froms
<1>7. CASE ObserveWindow
  BY <1>7 DEF ObserveWindow, Idle
<1> QED BY <1>1, <1>3, <1>4, <1>5, <1>6, <1>7 DEF Steady

\* Every step is one of these.
LEMMA StepKinds ==
    ASSUME [Next]_vars
    PROVE  \/ StartLine \/ WriteLine \/ ReplaceFile \/ RecreatePod
           \/ \E early, due \in BOOLEAN : StartPoll(early, due)
           \/ Steady \/ SaveFlush \/ Checkpoint \/ SkipHistory \/ (\E uid \in PodUIDs : ReadFile(uid))
           \/ ReadFails \/ Crash
           \/ CoreStep \/ CoreFails \/ AnswerUnheard \/ LearnPod \/ ForgetPod
           \/ UNCHANGED vars
  BY DEF Next, Polling, Flush, Reading, Steady

LEMMA TellNext ==
    ASSUME RecordInv, TellInv, ~ RegrowPastCursor, [Next]_vars
    PROVE  TellInv'
<1>1. CASE CoreStep \/ CoreFails \/ AnswerUnheard \/ LearnPod \/ ForgetPod \/ UNCHANGED vars
  <2>1. UNCHANGED <<file, disk, mem, rd, poll>>
    BY <1>1 DEF CoreStep, CoreFails, AnswerUnheard, LearnPod, ForgetPod, vars, sourceVars, agentVars
  <2> QED BY <2>1, TellFrame
<1>2. CASE Steady
  <2>1. UNCHANGED <<file, disk, mem, rd>> /\ poll'.pc # "checkpoint"
    BY <1>2, SteadyEffect DEF sourceVars
  <2> QED BY <2>1, TellFrame
<1> QED BY <1>1, <1>2, StepKinds, TellSource, TellSave, TellOther

-----------------------------------------------------------------------------
(* Core goes through its batches.                                           *)

\* One slot changes, and Core forgets no claim.
LEMMA BatchSlot ==
    ASSUME RecordInv, BatchInv, NEW s \in Slots, NEW r, requests' = [requests EXCEPT ![s] = r],
           Claimed \subseteq Claimed', BatchOk(r, Claimed')
    PROVE  /\ BatchInv' /\ requests'[s] = r
           /\ \A t \in Slots : t # s => requests'[t] = requests[t]
<1>1. DOMAIN requests = Slots
  BY DEF RecordInv, CoreInv
<1>2. requests'[s] = r /\ \A t \in Slots : t # s => requests'[t] = requests[t]
  BY <1>1
<1>3. ASSUME NEW t \in Slots PROVE BatchOk(requests'[t], Claimed')
  <2>1. CASE t = s
    BY <1>2, <2>1
  <2>2. CASE t # s
    <3>1. BatchOk(requests[t], Claimed)
      BY DEF BatchInv
    <3>2. BatchOk(requests[t], Claimed')
      BY <3>1 DEF BatchOk
    <3> QED BY <1>2, <2>2, <3>2
  <2> QED BY <2>1, <2>2
<1>4. BatchInv'
  BY <1>3 DEF BatchInv
<1> QED BY <1>2, <1>4

CoreMoves ==
    /\ BatchInv' /\ Claimed \subseteq Claimed'
    /\ \A id \in Claimed' : id \in Claimed \/ \E s \in Slots : id \in Ids(requests[s].batch)
    /\ \A t \in Slots : \/ requests'[t].batch = requests[t].batch
                        \/ requests'[t].batch = <<>> /\ ~ Awaited(t)

LEMMA CoreAnswers ==
    ASSUME RecordInv, BatchInv, NEW s \in Slots, NEW status, Answer(s, status), UNCHANGED claims, status # "received",
           status = "processing" => requests[s].status = "received",
           status = "ok" => requests[s].status = "processing" /\ requests[s].next > Len(requests[s].batch)
    PROVE  CoreMoves
<1>1. PICK q : q = requests[s]
  OBVIOUS
<1>2. RequestOk(q) /\ BatchOk(q, Claimed)
  BY <1>1 DEF RecordInv, CoreInv, BatchInv
<1>3. PICK r : r = [q EXCEPT !.status = status]
  OBVIOUS
<1>4. r.batch = q.batch /\ r.next = q.next /\ r.status = status
  BY <1>2, <1>3 DEF RequestOk
<1>5. requests' = [requests EXCEPT ![s] = r]
  BY <1>1, <1>3 DEF Answer
<1>6. Claimed' = Claimed
  BY DEF Claimed
<1>7. BatchOk(r, Claimed)
  <2>1. CASE status = "ok"
    <3>1. \A i \in 1 .. Len(q.batch) : i < q.next
      BY <1>1, <1>2, <2>1 DEF RequestOk
    <3>2. \A i \in 1 .. Len(q.batch) : q.batch[i].id \in Claimed
      BY <1>1, <1>2, <2>1, <3>1 DEF BatchOk
    <3>3. Ids(r.batch) \subseteq Claimed
      BY <1>4, <3>2 DEF Ids
    <3> QED BY <1>4, <2>1, <3>3 DEF BatchOk
  <2>2. CASE status = "processing"
    BY <1>1, <1>2, <1>4, <2>2 DEF BatchOk
  <2>3. CASE status \notin {"ok", "processing", "received"}
    BY <1>4, <2>3 DEF BatchOk
  <2> QED BY <2>1, <2>2, <2>3
<1>8. /\ BatchInv' /\ requests'[s] = r /\ \A t \in Slots : t # s => requests'[t] = requests[t]
  BY <1>5, <1>6, <1>7, BatchSlot
<1> QED BY <1>1, <1>4, <1>6, <1>8 DEF CoreMoves

LEMMA CoreIngests == ASSUME RecordInv, BatchInv, NEW s \in Slots, IngestEvent(s) PROVE CoreMoves
<1>1. PICK q : q = requests[s]
  OBVIOUS
<1>2. /\ RequestOk(q) /\ BatchOk(q, Claimed) /\ q.status = "processing" /\ q.next <= Len(q.batch)
      /\ q.next > 0 /\ q.batch \in Seq(Events) /\ q.next \in Nat
  BY <1>1 DEF IngestEvent, RecordInv, CoreInv, BatchInv, RequestOk
<1>3. PICK e : e = q.batch[q.next]
  OBVIOUS
<1>4. q.next \in 1 .. Len(q.batch) /\ e.id \in Ids(q.batch)
  <2>1. q.next \in 1 .. Len(q.batch)
    BY <1>2
  <2> QED BY <1>3, <2>1, Zenon DEF Ids
<1>5. Claimed' = Claimed \cup {e.id} \/ (Claimed' = Claimed /\ e.id \in Claimed)
  BY <1>1, <1>3 DEF IngestEvent, Claimed
<1>6. Claimed \subseteq Claimed' /\ e.id \in Claimed'
  BY <1>5
<1>7. PICK r : r = IF e.id \notin DOMAIN claims \/ ReplayMatches(e)
                   THEN [q EXCEPT !.next = q.next + 1] ELSE [q EXCEPT !.status = "conflict"]
  OBVIOUS
<1>8. requests' = [requests EXCEPT ![s] = r]
  BY <1>1, <1>3, <1>7 DEF IngestEvent
<1>9. r.batch = q.batch /\ (r.status = "conflict" \/ (r.status = "processing" /\ r.next = q.next + 1))
  BY <1>2, <1>7 DEF RequestOk
<1>10. BatchOk(r, Claimed')
  <2>1. CASE r.status = "conflict"
    BY <2>1 DEF BatchOk
  <2>2. CASE r.status = "processing" /\ r.next = q.next + 1
    <3>1. ASSUME NEW i \in 1 .. Len(q.batch), i < q.next + 1 PROVE q.batch[i].id \in Claimed'
      <4>1. CASE i = q.next
        BY <1>3, <1>6, <4>1
      <4>2. CASE i < q.next
        BY <1>2, <1>6, <4>2 DEF BatchOk
      <4> QED BY <1>2, <3>1, <4>1, <4>2
    <3> QED BY <1>9, <2>2, <3>1 DEF BatchOk
  <2> QED BY <1>9, <2>1, <2>2
<1>11. /\ BatchInv' /\ requests'[s] = r /\ \A t \in Slots : t # s => requests'[t] = requests[t]
  BY <1>6, <1>8, <1>10, BatchSlot
<1>12. \A id \in Claimed' : id \in Claimed \/ \E t \in Slots : id \in Ids(requests[t].batch)
  BY <1>1, <1>4, <1>5
<1> QED BY <1>1, <1>6, <1>9, <1>11, <1>12 DEF CoreMoves

LEMMA CoreEffect ==
    ASSUME RecordInv, BatchInv, CoreStep \/ CoreFails \/ AnswerUnheard \/ LearnPod \/ ForgetPod
    PROVE  CoreMoves /\ UNCHANGED <<sourceVars, agentVars>>
<1>1. UNCHANGED <<sourceVars, agentVars>>
  BY DEF CoreStep, CoreFails, AnswerUnheard, LearnPod, ForgetPod
<1>2. ASSUME NEW s \in Slots, CheckOwnership(s) PROVE CoreMoves
  <2>1. PICK status : /\ status \in {"processing", "ownership"} /\ Answer(s, status) /\ UNCHANGED claims
                      /\ requests[s].status = "received"
    BY <1>2 DEF CheckOwnership
  <2> QED BY <2>1, CoreAnswers
<1>3. ASSUME NEW s \in Slots, IngestDone(s) PROVE CoreMoves
  <2>1. /\ Answer(s, "ok") /\ UNCHANGED claims
        /\ requests[s].status = "processing" /\ requests[s].next > Len(requests[s].batch)
    BY <1>3 DEF IngestDone
  <2> QED BY <2>1, CoreAnswers
<1>4. ASSUME NEW s \in Slots, IngestFails(s) PROVE CoreMoves
  <2>1. Answer(s, "unavailable") /\ UNCHANGED claims
    BY <1>4 DEF IngestFails
  <2> QED BY <2>1, CoreAnswers
<1>5. CASE AnswerUnheard
  <2>1. PICK s \in Slots : ~ Awaited(s) /\ Drop(s) /\ UNCHANGED claims
    BY <1>5 DEF AnswerUnheard
  <2>2. Claimed' = Claimed
    BY <2>1 DEF Claimed
  <2>3. BatchOk(NoRequest, Claimed')
    BY DEF BatchOk, NoRequest
  <2>4. BatchInv' /\ requests'[s] = NoRequest /\ \A t \in Slots : t # s => requests'[t] = requests[t]
    BY <2>1, <2>2, <2>3, BatchSlot DEF Drop
  <2> QED BY <1>1, <2>1, <2>2, <2>4 DEF CoreMoves, NoRequest
<1>6. CASE LearnPod \/ ForgetPod
  <2>1. UNCHANGED <<claims, requests>>
    BY <1>6 DEF LearnPod, ForgetPod, PodLearnt, PodForgotten
  <2> QED BY <1>1, <2>1 DEF CoreMoves, BatchInv, Claimed
<1>7. CASE CoreStep
  BY <1>2, <1>3, <1>7, CoreIngests DEF CoreStep, IngestStep
<1>8. CASE CoreFails
  BY <1>4, <1>8 DEF CoreFails
<1> QED BY <1>1, <1>5, <1>6, <1>7, <1>8

-----------------------------------------------------------------------------
(* A flush drops nothing that Core has not claimed.                         *)

LEMMA BatchCovered ==
    ASSUME NEW E, NEW w \in Seq(Seq(E)), w # <<>>, NEW a \in Seq(E), NEW b \in Seq(E), NEW c,
           HandApart(w, a, b, c)
    PROVE  /\ WorkIds(w) = Ids(Head(w)) \cup WorkIds(Tail(w))
           /\ Ids(a \o Head(w)) = Ids(a) \cup Ids(Head(w))
           /\ Ids(b \o Head(w)) = Ids(b) \cup Ids(Head(w))
           /\ WorkIds(Halves(Head(w)) \o Tail(w)) = Ids(Head(w)) \cup WorkIds(Tail(w))
<1>1. PICK h, t : h = Head(w) /\ t = Tail(w)
  OBVIOUS
<1>2. h \in Seq(E) /\ t \in Seq(Seq(E))
  BY <1>1
<1>3. /\ WorkApart(t) /\ Distinct(h) /\ Ids(h) \subseteq WorkIds(w) /\ Ids(h) \cap WorkIds(t) = {}
      /\ WorkIds(w) = Ids(h) \cup WorkIds(t)
  BY <1>1, WorkTail DEF HandApart
<1>4. Distinct(a) /\ Distinct(b) /\ Ids(a) \cap Ids(h) = {} /\ Ids(b) \cap Ids(h) = {}
  BY <1>3 DEF HandApart
<1>5. Ids(a \o h) = Ids(a) \cup Ids(h) /\ Ids(b \o h) = Ids(b) \cup Ids(h)
  <2>1. Distinct(a \o h) /\ Ids(a \o h) = Ids(a) \cup Ids(h)
    BY <1>2, <1>3, <1>4, Joined
  <2>2. Distinct(b \o h) /\ Ids(b \o h) = Ids(b) \cup Ids(h)
    BY <1>2, <1>3, <1>4, Joined
  <2> QED BY <2>1, <2>2
<1>6. WorkIds(Halves(h) \o t) = Ids(h) \cup WorkIds(t)
  BY <1>2, <1>3, WorkHalves
<1> QED BY <1>1, <1>3, <1>5, <1>6, Zenon

LEMMA HandFrame ==
    ASSUME HandInv, UNCHANGED <<mem, poll, requests>>, Claimed \subseteq Claimed'
    PROVE  HandInv'
<1>1. HeldIds(mem)' = HeldIds(mem) /\ KeptPart(poll)' = KeptPart(poll) /\ HeldIds(poll.next)' = HeldIds(poll.next)
  BY DEF HeldIds, KeptPart
<1> QED BY <1>1 DEF HandInv

LEMMA HandCore ==
    ASSUME RecordInv, HandInv, CoreMoves, UNCHANGED agentVars
    PROVE  HandInv'
<1>1. HeldIds(mem)' = HeldIds(mem) /\ KeptPart(poll)' = KeptPart(poll) /\ HeldIds(poll.next)' = HeldIds(poll.next)
  BY DEF HeldIds, KeptPart, agentVars
<1>2. UNCHANGED poll /\ Claimed \subseteq Claimed'
  BY DEF agentVars, CoreMoves
<1>3. ASSUME poll.pc = "wait" PROVE requests'[poll.slot].batch = Head(poll.work)
  <2>1. Awaited(poll.slot) /\ poll.slot \in Slots
    BY <1>3 DEF Awaited, RecordInv, PollInv
  <2> QED BY <1>3, <2>1 DEF CoreMoves, HandInv
<1> QED BY <1>1, <1>2, <1>3 DEF HandInv

LEMMA EnterFlushHands == ASSUME RecordInv, EnterFlush PROVE HandInv'
<1>1. DOMAIN poll = PollFields /\ mem' = mem
  BY DEF EnterFlush, RecordInv, PollInv
<1>2. PICK p : p = poll
  OBVIOUS
<1>3. CASE \E b : poll' = [p EXCEPT !.pc = "flushed", !.err = FALSE, !.blocked = b]
  <2>1. poll'.pc = "flushed"
    BY <1>1, <1>2, <1>3 DEF PollFields
  <2> QED BY <2>1 DEF HandInv
<1>4. CASE poll' = [p EXCEPT !.pc = "post", !.err = FALSE, !.stage = "pending",
                            !.work = IF mem.pending = <<>> THEN <<>> ELSE <<mem.pending>>,
                            !.retry = <<>>, !.rejected = <<>>, !.next = mem]
  <2>1. PICK w : w = IF mem.pending = <<>> THEN <<>> ELSE <<mem.pending>>
    OBVIOUS
  <2>2. poll'.pc = "post" /\ poll'.work = w /\ poll'.next = mem /\ poll'.stage = "pending"
    BY <1>1, <1>2, <1>4, <2>1 DEF PollFields
  <2>3. WorkIds(w) = Ids(mem.pending)
    BY <2>1, NothingHeld, OneBatch
  <2>4. KeptPart(poll)' = mem.quarantine
    BY <2>2 DEF KeptPart
  <2>5. HeldIds(mem)' = WorkIds(w) \cup Ids(mem.quarantine)
    BY <1>1, <2>3 DEF HeldIds
  <2> QED BY <2>2, <2>4, <2>5 DEF HandInv
<1> QED BY <1>2, <1>3, <1>4 DEF EnterFlush

LEMMA AskingHands ==
    ASSUME RecordInv, SaveInv, BatchInv, HandInv, Claimed \subseteq Claimed',
           (\E s \in Slots : Post(s)) \/ KeepUnsent \/ Answered \/ TimesOut
    PROVE  HandInv'
<1>1. poll.pc \in {"post", "wait"} /\ poll.pc \in Asking /\ poll.work # <<>> /\ mem' = mem
  BY DEF Post, KeepUnsent, Answered, TimesOut, Asking, RecordInv, PollInv
<1>2. PICK p, E : p = poll /\ E = Ev(mem)
  OBVIOUS
<1>3. HeldOk(p, E) /\ HandApart(p.work, p.retry, p.rejected, KeptPart(p))
  BY <1>1, <1>2, Held DEF SaveInv
<1>4. PICK w, a, b, c : w = p.work /\ a = p.retry /\ b = p.rejected /\ c = KeptPart(p)
  OBVIOUS
<1>5. /\ w \in Seq(Seq(E)) /\ w # <<>> /\ a \in Seq(E) /\ b \in Seq(E)
      /\ HandApart(w, a, b, c) /\ DOMAIN p = PollFields
  BY <1>1, <1>2, <1>3, <1>4 DEF HeldOk
<1>6. PICK h, t : h = Head(w) /\ t = Tail(w)
  OBVIOUS
<1>7. /\ WorkIds(w) = Ids(h) \cup WorkIds(t)
      /\ Ids(a \o h) = Ids(a) \cup Ids(h) /\ Ids(b \o h) = Ids(b) \cup Ids(h)
      /\ WorkIds(Halves(h) \o t) = Ids(h) \cup WorkIds(t)
  BY <1>5, <1>6, BatchCovered
<1>8. HeldIds(mem) \subseteq Claimed' \cup Ids(h) \cup WorkIds(t) \cup Ids(a) \cup Ids(b) \cup Ids(c)
  BY <1>1, <1>2, <1>4, <1>7 DEF HandInv
<1>9. ASSUME NEW q, q.pc = "post", q.stage = p.stage, q.next = p.next, poll' = q,
             HeldIds(mem) \subseteq Claimed' \cup WorkIds(q.work) \cup Ids(q.retry)
                                             \cup Ids(q.rejected) \cup Ids(c)
      PROVE  HandInv'
  <2>1. KeptPart(poll)' = c
    BY <1>4, <1>9 DEF KeptPart
  <2>2. HeldIds(mem)' = HeldIds(mem)
    BY <1>1 DEF HeldIds
  <2> QED BY <1>9, <2>1, <2>2 DEF HandInv
<1>10. CASE \E s \in Slots : Post(s)
  <2>1. PICK s, l : /\ poll' = [p EXCEPT !.pc = "wait", !.slot = s, !.left = l]
                    /\ requests' = Submitted(s, h) /\ s \in Slots
    BY <1>2, <1>4, <1>6, <1>10 DEF Post
  <2>2. /\ poll'.pc = "wait" /\ poll'.stage = p.stage /\ poll'.next = p.next
        /\ poll'.work = w /\ poll'.retry = a /\ poll'.rejected = b /\ poll'.slot = s
    BY <1>4, <1>5, <2>1 DEF PollFields
  <2>3. requests'[s].batch = h
    BY <2>1 DEF Submitted, RecordInv, CoreInv
  <2>4. KeptPart(poll)' = c /\ HeldIds(mem)' = HeldIds(mem)
    BY <1>1, <1>4, <2>2 DEF KeptPart, HeldIds
  <2> QED BY <1>6, <1>7, <1>8, <2>2, <2>3, <2>4 DEF HandInv
<1>11. CASE KeepUnsent
  <2>1. PICK x : x = a \o h
    OBVIOUS
  <2>2. poll' = [p EXCEPT !.work = t, !.retry = x] /\ p.pc = "post"
    BY <1>2, <1>4, <1>6, <1>11, <2>1 DEF KeepUnsent
  <2>3. /\ poll'.pc = "post" /\ poll'.stage = p.stage /\ poll'.next = p.next
        /\ poll'.work = t /\ poll'.retry = x /\ poll'.rejected = b
    BY <1>4, <1>5, <2>2 DEF PollFields
  <2>4. Ids(x) = Ids(a) \cup Ids(h)
    BY <1>7, <2>1, Zenon
  <2> QED BY <1>8, <1>9, <2>3, <2>4
<1>12. CASE Answered \/ TimesOut
  <2>1. PICK status : /\ poll' = AfterAnswer(status) /\ poll.pc = "wait"
                      /\ status = "ok" => requests[poll.slot].status = "ok"
    BY <1>12 DEF Answered, TimesOut
  <2>2. PICK r : r = [p EXCEPT !.pc = "post", !.work = Tail(@), !.slot = 0]
    OBVIOUS
  <2>3. /\ r.pc = "post" /\ r.stage = p.stage /\ r.next = p.next /\ r.work = t
        /\ r.retry = a /\ r.rejected = b /\ DOMAIN r = PollFields
    BY <1>4, <1>5, <1>6, <2>2 DEF PollFields
  <2>4. \/ poll' = r /\ status = "ok"
        \/ poll' = [r EXCEPT !.rejected = @ \o h]
        \/ poll' = [r EXCEPT !.work = Halves(h) \o @]
        \/ poll' = [r EXCEPT !.retry = @ \o h, !.blocked = TRUE, !.err = TRUE]
    BY <1>2, <1>4, <1>6, <2>1, <2>2 DEF AfterAnswer
  <2>5. CASE poll' = r /\ status = "ok"
    <3>1. poll.slot \in Slots /\ requests[poll.slot].batch = h
      BY <1>2, <1>4, <1>6, <2>1 DEF HandInv, RecordInv, PollInv
    <3>2. Ids(h) \subseteq Claimed
      BY <2>1, <2>5, <3>1 DEF BatchInv, BatchOk
    <3> QED BY <1>8, <1>9, <2>3, <2>5, <3>2
  <2>6. CASE poll' = [r EXCEPT !.rejected = @ \o h]
    <3>1. PICK x : x = b \o h
      OBVIOUS
    <3>2. poll' = [r EXCEPT !.rejected = x]
      BY <2>3, <2>6, <3>1
    <3>3. /\ poll'.pc = "post" /\ poll'.stage = p.stage /\ poll'.next = p.next
          /\ poll'.work = t /\ poll'.retry = a /\ poll'.rejected = x
      BY <2>3, <3>2 DEF PollFields
    <3>4. Ids(x) = Ids(b) \cup Ids(h)
      BY <1>7, <3>1, Zenon
    <3> QED BY <1>8, <1>9, <3>3, <3>4
  <2>7. CASE poll' = [r EXCEPT !.work = Halves(h) \o @]
    <3>1. PICK x : x = Halves(h) \o t
      OBVIOUS
    <3>2. poll' = [r EXCEPT !.work = x]
      BY <2>3, <2>7, <3>1
    <3>3. /\ poll'.pc = "post" /\ poll'.stage = p.stage /\ poll'.next = p.next
          /\ poll'.work = x /\ poll'.retry = a /\ poll'.rejected = b
      BY <2>3, <3>2 DEF PollFields
    <3>4. WorkIds(x) = Ids(h) \cup WorkIds(t)
      BY <1>7, <3>1, Zenon
    <3> QED BY <1>8, <1>9, <3>3, <3>4
  <2>8. CASE poll' = [r EXCEPT !.retry = @ \o h, !.blocked = TRUE, !.err = TRUE]
    <3>1. PICK x : x = a \o h
      OBVIOUS
    <3>2. poll' = [r EXCEPT !.retry = x, !.blocked = TRUE, !.err = TRUE]
      BY <2>3, <2>8, <3>1
    <3>3. /\ poll'.pc = "post" /\ poll'.stage = p.stage /\ poll'.next = p.next
          /\ poll'.work = t /\ poll'.retry = x /\ poll'.rejected = b
      BY <2>3, <3>2 DEF PollFields
    <3>4. Ids(x) = Ids(a) \cup Ids(h)
      BY <1>7, <3>1, Zenon
    <3> QED BY <1>8, <1>9, <3>3, <3>4
  <2> QED BY <2>4, <2>5, <2>6, <2>7, <2>8
<1> QED BY <1>10, <1>11, <1>12

LEMMA EndStageHands == ASSUME RecordInv, SaveInv, HandInv, EndStage PROVE HandInv'
<1>1. poll.pc = "post" /\ poll.pc \in Asking /\ poll.work = <<>> /\ mem' = mem /\ Claimed' = Claimed
  BY DEF EndStage, Asking, ingestVars, Claimed
<1>2. PICK p, E : p = poll /\ E = Ev(mem)
  OBVIOUS
<1>3. HeldOk(p, E) /\ HandApart(p.work, p.retry, p.rejected, KeptPart(p))
  BY <1>1, <1>2, Held DEF SaveInv
<1>4. PICK n : n = IF p.stage = "pending"
                   THEN [p.next EXCEPT !.pending = p.retry, !.quarantine = @ \o p.rejected]
                   ELSE [p.next EXCEPT !.quarantine = p.retry \o p.rejected]
  OBVIOUS
<1>5. PICK m, a, b, c : m = p.next /\ a = p.retry /\ b = p.rejected /\ c = KeptPart(p)
  OBVIOUS
<1>6. /\ DOMAIN m = OutboxFields /\ m.pending \in Seq(E) /\ m.quarantine \in Seq(E)
      /\ a \in Seq(E) /\ b \in Seq(E) /\ DOMAIN p = PollFields
  BY <1>3, <1>5 DEF HeldOk
<1>7. /\ Distinct(a) /\ Distinct(b) /\ Distinct(c)
      /\ Ids(a) \cap Ids(b) = {} /\ Ids(a) \cap Ids(c) = {} /\ Ids(b) \cap Ids(c) = {}
  BY <1>3, <1>5 DEF HandApart
<1>8. PICK cb, ab : cb = c \o b /\ ab = a \o b
  OBVIOUS
<1>9. c \in Seq(E)
  BY <1>5, <1>6 DEF KeptPart
<1>10. Ids(cb) = Ids(c) \cup Ids(b) /\ Ids(ab) = Ids(a) \cup Ids(b)
  <2>1. Ids(c) \cap Ids(b) = {}
    BY <1>7
  <2>2. Distinct(c \o b) /\ Ids(c \o b) = Ids(c) \cup Ids(b)
    BY <1>6, <1>7, <1>9, <2>1, Joined
  <2>3. Distinct(a \o b) /\ Ids(a \o b) = Ids(a) \cup Ids(b)
    BY <1>6, <1>7, Joined
  <2> QED BY <1>8, <2>2, <2>3, Zenon
<1>11. HeldIds(mem) \subseteq Claimed \cup Ids(a) \cup Ids(b) \cup Ids(c)
  <2>1. WorkIds(poll.work) = {}
    BY <1>1, NothingHeld
  <2> QED BY <1>1, <1>2, <1>5, <2>1 DEF HandInv
<1>12. /\ DOMAIN n = OutboxFields /\ HeldIds(mem) \subseteq Claimed \cup Ids(n.pending) \cup Ids(n.quarantine)
  <2>1. CASE p.stage = "pending"
    <3>1. c = m.quarantine
      BY <1>5, <2>1 DEF KeptPart
    <3>2. n = [m EXCEPT !.pending = a, !.quarantine = cb]
      BY <1>4, <1>5, <1>8, <2>1, <3>1
    <3>3. n.pending = a /\ n.quarantine = cb /\ DOMAIN n = OutboxFields
      BY <1>6, <3>2 DEF OutboxFields
    <3> QED BY <1>10, <1>11, <3>3
  <2>2. CASE p.stage # "pending"
    <3>1. c = m.pending
      BY <1>5, <2>2 DEF KeptPart
    <3>2. n = [m EXCEPT !.quarantine = ab]
      BY <1>4, <1>5, <1>8, <2>2
    <3>3. n.pending = c /\ n.quarantine = ab /\ DOMAIN n = OutboxFields
      BY <1>6, <3>1, <3>2 DEF OutboxFields
    <3> QED BY <1>10, <1>11, <3>3
  <2> QED BY <2>1, <2>2
<1>13. HeldIds(mem)' = HeldIds(mem)
  BY <1>1 DEF HeldIds
<1>14. CASE /\ p.stage = "pending"
            /\ poll' = [p EXCEPT !.stage = "quarantine", !.next = n,
                            !.work = <<n.quarantine>>, !.retry = <<>>, !.rejected = <<>>]
  <2>1. PICK w, q : w = <<q>> /\ q = n.quarantine
    OBVIOUS
  <2>2. poll' = [p EXCEPT !.stage = "quarantine", !.next = n, !.work = w, !.retry = <<>>,
                          !.rejected = <<>>]
    BY <1>14, <2>1
  <2>3. /\ poll'.pc = p.pc /\ poll'.stage = "quarantine" /\ poll'.next = n /\ poll'.work = w
    BY <1>6, <2>2 DEF PollFields
  <2>4. KeptPart(poll)' = n.pending
    BY <2>3 DEF KeptPart
  <2>5. WorkIds(w) = Ids(n.quarantine)
    BY <2>1, OneBatch
  <2> QED BY <1>1, <1>2, <1>12, <1>13, <2>3, <2>4, <2>5 DEF HandInv
<1>15. CASE poll' = [p EXCEPT !.pc = "save",
                            !.next = [n EXCEPT !.retryAt = p.blocked, !.saved = TRUE]]
  <2>1. PICK k : k = [n EXCEPT !.retryAt = p.blocked, !.saved = TRUE]
    OBVIOUS
  <2>2. k.pending = n.pending /\ k.quarantine = n.quarantine
    BY <1>12, <2>1 DEF OutboxFields
  <2>3. poll'.pc = "save" /\ poll'.next = k
    BY <1>6, <1>15, <2>1 DEF PollFields
  <2>4. HeldIds(poll.next)' = Ids(n.pending) \cup Ids(n.quarantine)
    BY <2>2, <2>3 DEF HeldIds
  <2> QED BY <1>1, <1>12, <1>13, <2>3, <2>4 DEF HandInv
<1> QED BY <1>2, <1>4, <1>14, <1>15 DEF EndStage

LEMMA HeldEvents ==
    ASSUME NEW S, NEW o, o.pending \in Seq(S), o.quarantine \in Seq(S)
    PROVE  \A id : id \in HeldIds(o) <=> \E e \in Ev(o) : e.id = id
<1>1. PICK a, b : a = o.pending /\ b = o.quarantine
  OBVIOUS
<1>2. a \in Seq(S) /\ b \in Seq(S)
  BY <1>1
<1>3. /\ \A x : x \in Range(a) <=> \E i \in 1 .. Len(a) : x = a[i]
      /\ \A x : x \in Range(b) <=> \E i \in 1 .. Len(b) : x = b[i]
  BY <1>2, SeqAndRange
<1>4. \A id : id \in Ids(a) <=> \E e \in Range(a) : e.id = id
  BY <1>3 DEF Ids
<1>5. \A id : id \in Ids(b) <=> \E e \in Range(b) : e.id = id
  BY <1>3 DEF Ids
<1> QED BY <1>1, <1>4, <1>5 DEF HeldIds, Ev

\* Requests and claims after any step.
LEMMA ClaimNext ==
    ASSUME RecordInv, BatchInv, [Next]_vars
    PROVE  /\ BatchInv' /\ Claimed \subseteq Claimed'
           /\ \A id \in Claimed' : id \in Claimed \/ \E s \in Slots : id \in Ids(requests[s].batch)
           /\ \A t \in Slots : \/ requests'[t].batch \in {requests[t].batch, <<>>}
                               \/ Post(t) /\ requests'[t].batch = Head(poll.work)
           /\ Lines' = Lines
<1>1. CASE CoreStep \/ CoreFails \/ AnswerUnheard \/ LearnPod \/ ForgetPod
  <2>1. CoreMoves /\ Lines' = Lines
    BY <1>1, CoreEffect DEF sourceVars
  <2> QED BY <2>1 DEF CoreMoves
<1>2. CASE UNCHANGED ingestVars /\ Lines' = Lines
  <2>1. requests' = requests /\ claims' = claims
    BY <1>2 DEF ingestVars
  <2> QED BY <1>2, <2>1 DEF BatchInv, Claimed
<1>3. ASSUME NEW s \in Slots, Post(s)
      PROVE  /\ BatchInv' /\ Claimed' = Claimed /\ Lines' = Lines
             /\ requests'[s].batch = Head(poll.work)
             /\ \A t \in Slots : t # s => requests'[t] = requests[t]
  <2>1. PICK r : r = [batch |-> Head(poll.work), next |-> 1, status |-> "received"]
    OBVIOUS
  <2>2. requests' = [requests EXCEPT ![s] = r] /\ Claimed' = Claimed /\ Lines' = Lines
    BY <1>3, <2>1 DEF Post, Submitted, Claimed, sourceVars
  <2>3. r.batch = Head(poll.work) /\ r.next = 1 /\ r.status = "received"
    BY <2>1
  <2>4. \A i \in 1 .. Len(r.batch) : ~ (i < 1)
    OBVIOUS
  <2>5. BatchOk(r, Claimed')
    BY <2>3, <2>4 DEF BatchOk
  <2> QED BY <2>2, <2>3, <2>5, BatchSlot
<1>4. CASE Answered
  <2>1. poll.slot \in Slots
    BY <1>4 DEF Answered, RecordInv, PollInv
  <2>2. requests' = [requests EXCEPT ![poll.slot] = NoRequest] /\ Claimed' = Claimed /\ Lines' = Lines
    BY <1>4 DEF Answered, Drop, Claimed, sourceVars
  <2>3. BatchOk(NoRequest, Claimed') /\ NoRequest.batch = <<>>
    BY DEF BatchOk, NoRequest
  <2> QED BY <2>1, <2>2, <2>3, BatchSlot
<1>5. CASE Steady
  <2>1. \/ (UNCHANGED ingestVars /\ Lines' = Lines) \/ Answered \/ \E s \in Slots : Post(s)
    BY <1>5, SteadyEffect DEF Steady, EnterFlush, KeepUnsent, TimesOut, EndStage, AfterFlush, ObserveWindow,
                              sourceVars
  <2> QED BY <1>2, <1>3, <1>4, <2>1
<1>6. CASE StartLine \/ WriteLine \/ ReplaceFile \/ RecreatePod
  BY <1>2, <1>6 DEF StartLine, WriteLine, ReplaceFile, RecreatePod
<1>7. CASE \/ SaveFlush \/ Checkpoint \/ SkipHistory \/ (\E uid \in PodUIDs : ReadFile(uid))
           \/ ReadFails \/ Crash \/ \E early, due \in BOOLEAN : StartPoll(early, due)
  BY <1>2, <1>7 DEF SaveFlush, Checkpoint, SkipHistory, ReadFile, ReadFails, Crash, StartPoll, sourceVars
<1>8. CASE UNCHANGED vars
  BY <1>2, <1>8 DEF vars, ingestVars
<1> QED BY <1>1, <1>5, <1>6, <1>7, <1>8, StepKinds

LEMMA HandNext ==
    ASSUME RecordInv, SaveInv, BatchInv, HandInv, [Next]_vars
    PROVE  HandInv'
<1>1. Claimed \subseteq Claimed'
  BY ClaimNext
<1>2. CASE CoreStep \/ CoreFails \/ AnswerUnheard \/ LearnPod \/ ForgetPod
  BY <1>2, CoreEffect, HandCore
<1>3. CASE StartLine \/ WriteLine \/ ReplaceFile \/ RecreatePod \/ UNCHANGED vars
  <2>1. UNCHANGED <<mem, poll, requests>>
    BY <1>3 DEF StartLine, WriteLine, ReplaceFile, RecreatePod, vars, agentVars, ingestVars
  <2> QED BY <1>1, <2>1, HandFrame
<1>4. CASE poll'.pc \notin {"post", "wait", "save"}
  BY <1>4 DEF HandInv
<1>5. CASE SaveFlush \/ Checkpoint
  <2>1. poll'.pc \in {"flush", "flushed"}
    BY <1>5, SaveEffect
  <2> QED BY <1>4, <2>1
<1>6. CASE SkipHistory \/ \E uid \in PodUIDs : ReadFile(uid)
  <2>1. poll'.pc = "checkpoint"
    BY <1>6, ReadEffect DEF ReadTo
  <2> QED BY <1>4, <2>1
<1>7. CASE ReadFails \/ AfterFlush
  <2>1. DOMAIN poll = PollFields /\ poll.from \in {"start", "read", "final"}
    BY DEF RecordInv, PollInv, Froms
  <2>2. poll'.pc \in {"flush", "read", "observe"}
    BY <1>7, <2>1 DEF ReadFails, AfterFlush, PollFields
  <2> QED BY <1>4, <2>2
<1>8. CASE ObserveWindow \/ Crash
  <2>1. poll'.pc = "idle"
    BY <1>8 DEF ObserveWindow, Crash, Idle
  <2> QED BY <1>4, <2>1
<1>9. CASE \E early, due \in BOOLEAN : StartPoll(early, due)
  <2>1. poll'.pc = "flush"
    BY <1>9 DEF StartPoll, Idle
  <2> QED BY <1>4, <2>1
<1>10. CASE Steady
  BY <1>1, <1>7, <1>8, <1>10, EnterFlushHands, AskingHands, EndStageHands DEF Steady
<1> QED BY <1>2, <1>3, <1>5, <1>6, <1>7, <1>8, <1>9, <1>10, StepKinds

-----------------------------------------------------------------------------
(* What the outbox holds.                                                   *)

\* The outbox the program goes on from loses only what is claimed.
Loses(o, p) == HeldIds(o) \subseteq Claimed \cup HeldIds(p)

LEMMA Written ==
    ASSUME RecordInv
    PROVE  /\ \A id \in HeldIds(mem) : \E e \in Ev(mem) : e.id = id
           /\ \A id \in HeldIds(disk) : \E e \in Ev(disk) : e.id = id
           /\ \A id \in HeldIds(mem) \cup HeldIds(disk) : id[1] <= written
<1>1. /\ \A id \in HeldIds(mem) : \E e \in Ev(mem) : e.id = id
      /\ \A id \in HeldIds(disk) : \E e \in Ev(disk) : e.id = id
  BY HeldEvents DEF RecordInv, OutboxInv, OutboxType
<1> QED BY <1>1 DEF RecordInv, PayloadInv

\* What a save hands over: the events of memory, and those of a read; nothing that Core has not
\* claimed is missing.
LEMMA SavedEvents ==
    ASSUME RecordInv, HandInv, KeepInv, SaveFlush \/ Checkpoint
    PROVE  /\ Loses(mem, poll.next) /\ HeldIds(poll.next) \subseteq EventSet
           /\ SaveFlush => HeldIds(poll.next) \subseteq HeldIds(mem)
           /\ \A id \in HeldIds(poll.next) : id[1] <= written
<1>1. PICK n : n = poll.next
  OBVIOUS
<1>2. CASE SaveFlush
  <2>1. poll.pc = "save" /\ poll.pc \in Asking
    BY <1>2 DEF SaveFlush, Asking
  <2>2. n.pending \in Seq(Ev(mem)) /\ n.quarantine \in Seq(Ev(mem))
    BY <1>1, <2>1 DEF RecordInv, PollInv
  <2>3. \A e \in Ev(n) : e \in Ev(mem)
    BY <2>2, SeqAndRange DEF Ev
  <2>4. \A id : id \in HeldIds(n) <=> \E e \in Ev(n) : e.id = id
    BY <2>2, HeldEvents
  <2>5. \A id : id \in HeldIds(mem) <=> \E e \in Ev(mem) : e.id = id
    BY HeldEvents DEF RecordInv, OutboxInv, OutboxType
  <2>6. HeldIds(n) \subseteq HeldIds(mem)
    BY <2>3, <2>4, <2>5
  <2>7. HeldIds(n) \subseteq EventSet
    BY <2>6 DEF KeepInv
  <2> QED BY <1>1, <2>1, <2>6, <2>7, Written DEF HandInv, Loses
<1>3. CASE Checkpoint
  <2>1. poll.pc = "checkpoint"
    BY <1>3 DEF Checkpoint
  <2>2. /\ OutboxType(n) /\ n.quarantine = mem.quarantine /\ mem.pending = <<>>
        /\ \A e \in Range(n.pending) : e.id[1] <= written
    BY <1>1, <2>1 DEF RecordInv, CheckpointInv, PollInv
  <2>3. Ids(mem.pending) = {}
    BY <2>2, NothingHeld
  <2>4. HeldIds(mem) \subseteq HeldIds(n)
    BY <2>2, <2>3 DEF HeldIds
  <2>5. HeldIds(n) \subseteq EventSet
    BY <1>1, <2>1 DEF KeepInv
  <2>6. \A id : id \in HeldIds(n) <=> \E e \in Ev(n) : e.id = id
    BY <2>2, HeldEvents DEF OutboxType
  <2>7. \A e \in Ev(n) : e \in Range(n.pending) \/ e \in Ev(mem)
    BY <2>2 DEF Ev
  <2>8. \A id \in HeldIds(n) : id[1] <= written
    BY <2>2, <2>6, <2>7 DEF RecordInv, PayloadInv
  <2>9. ~ SaveFlush
    BY <2>1 DEF SaveFlush
  <2> QED BY <1>1, <2>4, <2>5, <2>8, <2>9 DEF Loses
<1> QED BY <1>2, <1>3

\* Every step leaves the outbox with what it held, but for what is claimed; and what is new in
\* it was on disk or had been read.
LEMMA OutboxMoves ==
    ASSUME RecordInv, HandInv, KeepInv, [Next]_vars
    PROVE  /\ Loses(Outbox, Outbox') /\ (mem' # Unloaded => Loses(mem', disk'))
           /\ \A id \in HeldIds(Outbox') \cup HeldIds(mem') \cup HeldIds(disk') :
                 \/ id \in HeldIds(Outbox) \cup HeldIds(disk)
                 \/ poll.pc = "checkpoint" /\ id \in HeldIds(poll.next)
           /\ HeldIds(mem') \cup HeldIds(disk') \subseteq EventSet
<1>1. CASE UNCHANGED <<mem, disk>>
  <2>1. Outbox' = Outbox
    BY <1>1 DEF Outbox, Loaded
  <2>2. HeldIds(mem) \subseteq HeldIds(Outbox)
    <3>1. HeldIds(Unloaded) = {}
      BY NothingHeld DEF HeldIds, Unloaded, EmptyOutbox
    <3> QED BY <3>1 DEF Outbox, Loaded
  <2>3. HeldIds(mem') = HeldIds(mem) /\ HeldIds(disk') = HeldIds(disk) /\ HeldIds(Outbox') = HeldIds(Outbox)
    BY <1>1, <2>1
  <2> QED BY <1>1, <2>2, <2>3 DEF Loses, KeepInv
<1>2. CASE SaveFlush \/ Checkpoint
  <2>1. PICK n : n = poll.next
    OBVIOUS
  <2>2. /\ mem # Unloaded /\ mem' # Unloaded
        /\ \/ mem' = mem /\ disk' = disk
           \/ mem' = mem /\ disk' = n
           \/ mem' = n /\ disk' = n
    BY <1>2, <2>1, SaveEffect
  <2>3. /\ HeldIds(mem) \subseteq Claimed \cup HeldIds(n) /\ HeldIds(n) \subseteq EventSet
        /\ \A id \in HeldIds(n) : id \in HeldIds(mem) \/ poll.pc = "checkpoint"
    BY <1>2, <2>1, SavedEvents DEF Loses, Checkpoint
  <2>4. Outbox = mem /\ Outbox' = mem'
    BY <2>2 DEF Outbox, Loaded
  <2>5. HeldIds(mem) \subseteq Claimed \cup HeldIds(disk) /\ HeldIds(mem) \cup HeldIds(disk) \subseteq EventSet
    BY <2>2 DEF KeepInv
  <2>6. CASE mem' = mem /\ disk' = disk
    BY <1>1, <2>6
  <2>7. CASE mem' = mem /\ disk' = n
    <3>1. HeldIds(mem') = HeldIds(mem) /\ HeldIds(disk') = HeldIds(n) /\ HeldIds(Outbox') = HeldIds(mem)
      BY <2>4, <2>7
    <3> QED BY <2>1, <2>3, <2>4, <2>5, <3>1 DEF Loses
  <2>8. CASE mem' = n /\ disk' = n
    <3>1. HeldIds(mem') = HeldIds(n) /\ HeldIds(disk') = HeldIds(n) /\ HeldIds(Outbox') = HeldIds(n)
      BY <2>4, <2>8
    <3> QED BY <2>1, <2>3, <2>4, <2>5, <3>1 DEF Loses
  <2> QED BY <2>2, <2>6, <2>7, <2>8
<1>3. CASE Crash
  <2>1. mem # Unloaded /\ mem' = Unloaded /\ disk' = disk
    BY <1>3 DEF Crash, Loaded
  <2>2. Outbox = mem /\ Outbox' = disk
    BY <2>1 DEF Outbox, Loaded
  <2>3. HeldIds(mem') = {} /\ HeldIds(disk') = HeldIds(disk) /\ HeldIds(Outbox') = HeldIds(disk)
    BY <2>1, <2>2, NothingHeld DEF HeldIds, Unloaded, EmptyOutbox
  <2> QED BY <2>1, <2>2, <2>3 DEF Loses, KeepInv
<1>4. CASE \E early, due \in BOOLEAN : StartPoll(early, due)
  <2>1. mem' = Outbox /\ disk' = disk
    BY <1>4 DEF StartPoll, Outbox
  <2>2. disk # Unloaded
    BY DEF RecordInv, OutboxInv, Unloaded, EmptyOutbox
  <2>3. Outbox' = Outbox
    BY <2>1, <2>2 DEF Outbox, Loaded
  <2>4. HeldIds(mem') = HeldIds(Outbox) /\ HeldIds(disk') = HeldIds(disk) /\ HeldIds(Outbox') = HeldIds(Outbox)
    BY <2>1, <2>3
  <2>5. HeldIds(Outbox) \subseteq Claimed \cup HeldIds(disk) /\ HeldIds(Outbox) \subseteq EventSet
    BY DEF Outbox, Loaded, KeepInv
  <2> QED BY <2>4, <2>5 DEF Loses, KeepInv
<1>5. CASE \/ StartLine \/ WriteLine \/ ReplaceFile \/ RecreatePod \/ UNCHANGED vars
           \/ CoreStep \/ CoreFails \/ AnswerUnheard \/ LearnPod \/ ForgetPod
  <2>1. UNCHANGED <<mem, disk>>
    BY <1>5 DEF StartLine, WriteLine, ReplaceFile, RecreatePod, vars, agentVars,
                CoreStep, CoreFails, AnswerUnheard, LearnPod, ForgetPod
  <2> QED BY <1>1, <2>1
<1>6. CASE SkipHistory \/ (\E uid \in PodUIDs : ReadFile(uid)) \/ ReadFails \/ Steady
  <2>1. UNCHANGED <<mem, disk>>
    BY <1>6, SteadyEffect DEF SkipHistory, ReadFile, ReadFails
  <2> QED BY <1>1, <2>1
<1> QED BY <1>2, <1>3, <1>4, <1>5, <1>6, StepKinds

LEMMA KeepNext ==
    ASSUME RecordInv, BatchInv, HandInv, KeepInv, [Next]_vars
    PROVE  KeepInv'
<1>1. /\ Claimed \subseteq Claimed' /\ Lines' = Lines
      /\ \A t \in Slots : \/ requests'[t].batch \in {requests[t].batch, <<>>}
                          \/ Post(t) /\ requests'[t].batch = Head(poll.work)
  BY ClaimNext
<1>2. /\ Loses(Outbox, Outbox') /\ (mem' # Unloaded => Loses(mem', disk'))
      /\ HeldIds(mem') \cup HeldIds(disk') \subseteq EventSet
  BY OutboxMoves
<1>3. EventSet' = EventSet
  BY <1>1 DEF EventSet
<1>4. ASSUME NEW t \in Slots PROVE Ids(requests'[t].batch) \subseteq Claimed' \cup HeldIds(Outbox')
  <2>1. CASE requests'[t].batch = requests[t].batch
    BY <1>1, <1>2, <2>1 DEF KeepInv, Loses
  <2>2. CASE requests'[t].batch = <<>>
    BY <2>2, NothingHeld
  <2>3. CASE Post(t) /\ requests'[t].batch = Head(poll.work)
    <3>1. poll.pc = "post" /\ poll.pc \in Asking /\ poll.work # <<>> /\ mem # Unloaded
      BY <2>3, Busy DEF Post, Asking
    <3>2. poll.work \in Seq(Seq(Ev(mem)))
      BY <3>1 DEF RecordInv, PollInv
    <3>3. PICK h : h = Head(poll.work)
      OBVIOUS
    <3>4. h \in Seq(Ev(mem))
      BY <3>1, <3>2, <3>3
    <3>5. \A id : id \in HeldIds(mem) <=> \E e \in Ev(mem) : e.id = id
      BY HeldEvents DEF RecordInv, OutboxInv, OutboxType
    <3>6. Ids(h) \subseteq HeldIds(mem)
      BY <3>4, <3>5 DEF Ids
    <3>7. Outbox = mem
      BY <3>1 DEF Outbox, Loaded
    <3>8. Ids(h) \subseteq Claimed \cup HeldIds(Outbox')
      BY <1>2, <3>6, <3>7 DEF Loses
    <3> QED BY <1>1, <2>3, <3>3, <3>8
  <2> QED BY <1>1, <2>1, <2>2, <2>3
<1>5. ASSUME poll'.pc = "checkpoint" PROVE HeldIds(poll'.next) \subseteq EventSet
  <2>1. CASE UNCHANGED poll
    BY <1>5, <2>1 DEF KeepInv
  <2>2. CASE SkipHistory \/ \E uid \in PodUIDs : ReadFile(uid)
    <3>1. PICK n, start : ReadTo(n, start)
      BY <2>2, ReadEffect
    <3>2. poll'.next = n /\ n.quarantine = mem.quarantine /\ Ids(n.pending) \subseteq EventSet
      BY <3>1 DEF ReadTo
    <3>3. HeldIds(mem) \subseteq EventSet
      BY DEF KeepInv
    <3> QED BY <3>2, <3>3 DEF HeldIds
  <2>3. CASE SaveFlush \/ Checkpoint \/ Steady
    BY <1>5, <2>3, SaveEffect, SteadyEffect
  <2>4. CASE ReadFails
    <3>1. DOMAIN poll = PollFields
      BY DEF RecordInv, PollInv
    <3> QED BY <1>5, <2>4, <3>1 DEF ReadFails, PollFields
  <2>5. CASE Crash \/ \E early, due \in BOOLEAN : StartPoll(early, due)
    <3>1. CASE Crash
      <4>1. poll'.pc = "idle"
        BY <3>1 DEF Crash, Idle
      <4> QED BY <1>5, <4>1
    <3>2. CASE \E early, due \in BOOLEAN : StartPoll(early, due)
      <4>1. PICK early, due \in BOOLEAN : StartPoll(early, due)
        BY <3>2
      <4>2. poll'.pc = "flush"
        BY <4>1 DEF StartPoll, Idle
      <4> QED BY <1>5, <4>2
    <3> QED BY <2>5, <3>1, <3>2
  <2>6. CASE \/ StartLine \/ WriteLine \/ ReplaceFile \/ RecreatePod \/ UNCHANGED vars
             \/ CoreStep \/ CoreFails \/ AnswerUnheard \/ LearnPod \/ ForgetPod
    <3>1. UNCHANGED poll
      BY <2>6 DEF StartLine, WriteLine, ReplaceFile, RecreatePod, vars, agentVars,
                  CoreStep, CoreFails, AnswerUnheard, LearnPod, ForgetPod
    <3> QED BY <2>1, <3>1
  <2> QED BY <2>2, <2>3, <2>4, <2>5, <2>6, StepKinds
<1>6. \A s \in Slots : Ids(requests'[s].batch) \subseteq Claimed' \cup HeldIds(Outbox')
  BY <1>4
<1>7. mem' # Unloaded => HeldIds(mem') \subseteq Claimed' \cup HeldIds(disk')
  BY <1>1, <1>2 DEF Loses
<1> QED BY <1>2, <1>3, <1>5, <1>6, <1>7 DEF KeepInv

-----------------------------------------------------------------------------
(* The status of an event, step by step.                                    *)

ReadableIn(f, o, n) ==
    \E i \in DOMAIN f.lines :
        /\ f.lines[i] = n
        /\ ~ o.saved \/ o.inode # f.inode \/ i > o.offset \/ o.offset > Len(f.lines)

LEMMA HoldsHeld ==
    ASSUME NEW S, NEW o, o.pending \in Seq(S), o.quarantine \in Seq(S)
    PROVE  \A id : Holds(o, id) <=> id \in HeldIds(o)
<1>1. PICK a, b : a = o.pending /\ b = o.quarantine
  OBVIOUS
<1>2. PICK c, m, n : c = a \o b /\ m = Len(a) /\ n = Len(b)
  OBVIOUS
<1>3. /\ m \in Nat /\ n \in Nat /\ DOMAIN c = 1 .. m + n
      /\ \A i \in 1 .. m : c[i] = a[i]
      /\ \A i \in 1 .. m + n : i > m => c[i] = b[i - m]
  <2>1. a \in Seq(S) /\ b \in Seq(S)
    BY <1>1
  <2>2. c \in Seq(S) /\ Len(c) = m + n /\ m \in Nat /\ n \in Nat
    BY <1>2, <2>1
  <2>3. DOMAIN c = 1 .. m + n
    BY <2>2
  <2>4. /\ \A i \in 1 .. m : c[i] = a[i]
        /\ \A i \in 1 .. m + n : i > m => c[i] = b[i - m]
    BY <1>2, <2>1, <2>2
  <2> QED BY <2>2, <2>3, <2>4
<1>4. \A i \in 1 .. m + n : i \in 1 .. m \/ (i > m /\ i - m \in 1 .. n)
  BY <1>3
<1>5. \A i \in 1 .. n : m + i \in 1 .. m + n /\ c[m + i] = b[i]
  BY <1>3
<1>6. \A i \in 1 .. m : i \in 1 .. m + n
  BY <1>3
<1>7. ASSUME NEW id, \E i \in 1 .. m + n : c[i].id = id PROVE id \in Ids(a) \cup Ids(b)
  BY <1>2, <1>3, <1>4, <1>7 DEF Ids
<1>8. ASSUME NEW id, id \in Ids(a) \cup Ids(b) PROVE \E i \in 1 .. m + n : c[i].id = id
  <2>1. CASE id \in Ids(a)
    BY <1>2, <1>3, <1>6, <2>1 DEF Ids
  <2>2. CASE id \in Ids(b)
    BY <1>2, <1>5, <2>2 DEF Ids
  <2> QED BY <1>8, <2>1, <2>2
<1>9. \A id : Holds(o, id) <=> \E i \in 1 .. m + n : c[i].id = id
  BY <1>1, <1>2, <1>3 DEF Holds
<1> QED BY <1>1, <1>7, <1>8, <1>9 DEF HeldIds

\* A cursor further on reads nothing that the one behind it does not.
LEMMA ReadableBack ==
    ASSUME NEW f, NEW a, NEW b, NEW n, a.gen \in Nat, b.gen \in Nat, f.gen \in Nat,
           a.offset \in Nat, b.offset \in Nat, f.lines \in Seq(Nat),
           CursorFits(f, a), CursorFits(f, b), CursorLe(a, b), ~ Unseen(a, f), ReadableIn(f, b, n)
    PROVE  ReadableIn(f, a, n)
<1>1. PICK i \in DOMAIN f.lines : /\ f.lines[i] = n
                                  /\ ~ b.saved \/ b.inode # f.inode \/ i > b.offset \/ b.offset > Len(f.lines)
  BY DEF ReadableIn
<1>2. i \in Nat /\ Len(f.lines) \in Nat
  OBVIOUS
<1>3. CASE a.gen # f.gen
  <2>1. a.inode # f.inode \/ a.offset > Len(f.lines)
    BY <1>2, <1>3 DEF Unseen
  <2> QED BY <1>1, <2>1 DEF ReadableIn
<1>4. CASE a.gen = f.gen /\ a.saved
  <2>1. b.saved /\ b.gen = f.gen /\ a.offset <= b.offset
    BY <1>4 DEF CursorLe, CursorFits
  <2>2. b.inode = f.inode /\ b.offset <= Len(f.lines)
    BY <2>1 DEF CursorFits
  <2>3. i > a.offset
    BY <1>1, <1>2, <2>1, <2>2
  <2> QED BY <1>1, <2>3 DEF ReadableIn
<1>5. CASE ~ a.saved
  BY <1>1, <1>5 DEF ReadableIn
<1> QED BY <1>3, <1>4, <1>5

LEMMA ReadableSource ==
    ASSUME RecordInv, StartLine \/ WriteLine \/ ReplaceFile \/ RecreatePod,
           NEW o, o.offset \in Nat, NEW n \in Nat, n <= written, ReadableIn(file', o, n)
    PROVE  ReadableIn(file, o, n)
<1>1. PICK W, l, w : W = 1 .. written /\ l = file.lines /\ w = written
  OBVIOUS
<1>2. l \in Seq(W) /\ Len(l) \in Nat /\ DOMAIN file = {"inode", "gen", "lines", "partial"} /\ w \in Nat
  BY <1>1 DEF RecordInv, SourceInv
<1>3. PICK i \in DOMAIN file'.lines :
         /\ file'.lines[i] = n
         /\ ~ o.saved \/ o.inode # file'.inode \/ i > o.offset \/ o.offset > Len(file'.lines)
  BY DEF ReadableIn
<1>4. CASE StartLine \/ RecreatePod
  <2>1. file'.lines = file.lines /\ file'.inode = file.inode
    BY <1>2, <1>4 DEF StartLine, RecreatePod
  <2> QED BY <1>3, <2>1 DEF ReadableIn
<1>5. CASE WriteLine
  <2>1. file'.lines = Append(l, w + 1) /\ file'.inode = file.inode
    BY <1>1, <1>2, <1>5 DEF WriteLine
  <2>2. PICK k : k = Append(l, w + 1)
    OBVIOUS
  <2>3. l \in Seq(Nat)
    BY <1>1, <1>2 DEF RecordInv, SourceInv
  <2>4. k \in Seq(Nat) /\ Len(k) = Len(l) + 1 /\ k[Len(l) + 1] = w + 1
    BY <1>2, <2>2, <2>3
  <2>5. \A j \in 1 .. Len(l) : k[j] = l[j]
    BY <1>2, <2>2, <2>3
  <2>6. i \in 1 .. Len(l) + 1 /\ k[i] = n /\ n # w + 1
    BY <1>1, <1>2, <1>3, <2>1, <2>2, <2>4
  <2>7. i \in 1 .. Len(l) /\ i \in DOMAIN l
    BY <1>2, <2>4, <2>6
  <2>8. l[i] = n
    BY <2>5, <2>6, <2>7
  <2>9. o.offset > Len(file'.lines) => o.offset > Len(l)
    BY <1>2, <2>1, <2>2, <2>4
  <2> QED BY <1>1, <1>3, <2>1, <2>7, <2>8, <2>9 DEF ReadableIn
<1>6. CASE ReplaceFile
  <2>1. file'.lines = <<>>
    BY <1>6 DEF ReplaceFile
  <2> QED BY <1>3, <2>1
<1> QED BY <1>4, <1>5, <1>6

\* A line that was just written is read from any cursor that tells the files apart.
LEMMA ReadableNew ==
    ASSUME RecordInv, WriteLine, NEW o, o.offset \in Nat, CursorFits(file, o), ~ Unseen(o, file')
    PROVE  ReadableIn(file', o, written + 1)
<1>1. PICK l, w, m : l = file.lines /\ w = written /\ m = Len(file.lines)
  OBVIOUS
<1>2. l \in Seq(Nat) /\ m \in Nat /\ DOMAIN file = {"inode", "gen", "lines", "partial"} /\ w \in Nat
  BY <1>1 DEF RecordInv, SourceInv
<1>3. file'.lines = Append(l, w + 1) /\ file'.inode = file.inode /\ file'.gen = file.gen
  BY <1>1, <1>2 DEF WriteLine
<1>4. PICK k : k = Append(l, w + 1)
  OBVIOUS
<1>5. k \in Seq(Nat) /\ Len(k) = m + 1 /\ k[m + 1] = w + 1
  BY <1>1, <1>2, <1>4
<1>6. m + 1 \in DOMAIN k
  BY <1>2, <1>5
<1>7. o.inode # file'.inode \/ m + 1 > o.offset \/ o.offset > Len(k)
  <2>1. CASE o.gen = file.gen
    BY <1>1, <1>2, <2>1 DEF CursorFits
  <2>2. CASE o.gen # file.gen
    BY <1>2, <1>3, <1>4, <1>5, <2>2 DEF Unseen
  <2> QED BY <2>1, <2>2
<1> QED BY <1>1, <1>3, <1>4, <1>5, <1>6, <1>7 DEF ReadableIn

\* What is read was in the file and unread.
LEMMA ReadableTaken ==
    ASSUME RecordInv, TellInv, NEW n, NEW start, ReadTo(n, start), NEW id \in Ids(n.pending)
    PROVE  ReadableIn(file, mem, id[1])
<1>1. PICK i \in DOMAIN file.lines : start < i /\ file.lines[i] = id[1]
  BY DEF ReadTo
<1>2. i \in Nat /\ Len(file.lines) \in Nat /\ mem.offset \in Nat /\ start \in Nat
  <2>1. mem.offset \in Nat /\ start \in Nat
    BY DEF RecordInv, OutboxInv, OutboxType, ReadTo
  <2>2. file.lines \in Seq(1 .. written)
    BY DEF RecordInv, SourceInv
  <2> QED BY <2>1, <2>2
<1>3. CASE mem.gen = file.gen
  <2>1. i > mem.offset
    BY <1>1, <1>2, <1>3 DEF ReadTo
  <2> QED BY <1>1, <2>1 DEF ReadableIn
<1>4. CASE mem.gen # file.gen
  <2>1. mem.inode # file.inode \/ mem.offset > Len(file.lines)
    BY <1>2, <1>4 DEF TellInv, Unseen
  <2> QED BY <1>1, <2>1 DEF ReadableIn
<1> QED BY <1>3, <1>4

\* A save moves no cursor back.
LEMMA SavedCursor ==
    ASSUME RecordInv, TellInv, SaveFlush \/ Checkpoint
    PROVE  /\ CursorLe(mem, poll.next) /\ CursorFits(file, poll.next)
           /\ poll.next.gen \in Nat /\ poll.next.offset \in Nat
<1>1. PICK n : n = poll.next
  OBVIOUS
<1>2. /\ mem.gen \in Nat /\ mem.offset \in Nat /\ CursorFits(file, mem)
  BY DEF RecordInv, OutboxInv, OutboxType
<1>3. CASE SaveFlush
  <2>1. n.saved = TRUE /\ n.inode = mem.inode /\ n.gen = mem.gen /\ n.offset = mem.offset
    BY <1>1, <1>3 DEF SaveFlush, RecordInv, PollInv, Asking
  <2> QED BY <1>1, <1>2, <2>1 DEF CursorLe, CursorFits
<1>4. CASE Checkpoint
  <2>1. poll.pc = "checkpoint"
    BY <1>4 DEF Checkpoint
  <2>2. n.gen \in Nat /\ n.offset \in Nat /\ CursorFits(file, n)
    BY <1>1, <2>1 DEF RecordInv, CheckpointInv, OutboxType
  <2>3. CursorLe(mem, n)
    BY <1>1, <2>1 DEF TellInv
  <2> QED BY <1>1, <2>2, <2>3
<1> QED BY <1>3, <1>4

\* No step makes a line readable that was written before and could not be read.
LEMMA ReadableNext ==
    ASSUME RecordInv, TellInv, [Next]_vars, NEW n \in Nat, n <= written, ReadableIn(file', Outbox', n)
    PROVE  ReadableIn(file, Outbox, n)
<1>1. /\ mem.gen \in Nat /\ mem.offset \in Nat /\ CursorFits(file, mem) /\ disk # Unloaded
      /\ disk.gen \in Nat /\ disk.offset \in Nat /\ CursorFits(file, disk)
  BY DEF RecordInv, OutboxInv, OutboxType, Unloaded, EmptyOutbox
<1>2. file.gen \in Nat /\ file.lines \in Seq(Nat)
  BY DEF RecordInv, SourceInv
<1>3. CASE UNCHANGED <<file, mem, disk>>
  <2>1. file' = file /\ Outbox' = Outbox
    BY <1>3 DEF Outbox, Loaded
  <2> QED BY <2>1
<1>4. CASE StartLine \/ WriteLine \/ ReplaceFile \/ RecreatePod
  <2>1. UNCHANGED <<mem, disk>>
    BY <1>4 DEF StartLine, WriteLine, ReplaceFile, RecreatePod, agentVars
  <2>2. PICK o : o = Outbox
    OBVIOUS
  <2>3. Outbox' = o
    BY <2>1, <2>2 DEF Outbox, Loaded
  <2>4. o.offset \in Nat
    BY <1>1, <2>2 DEF Outbox
  <2>5. ReadableIn(file', o, n)
    BY <2>3
  <2>6. ReadableIn(file, o, n)
    BY <1>4, <2>4, <2>5, ReadableSource
  <2> QED BY <2>2, <2>6
<1>5. CASE SaveFlush \/ Checkpoint
  <2>1. PICK b : b = poll.next
    OBVIOUS
  <2>2. /\ mem # Unloaded /\ mem' # Unloaded /\ file' = file /\ mem' \in {mem, b}
    BY <1>5, <2>1, SaveEffect DEF sourceVars
  <2>3. Outbox = mem /\ Outbox' = mem'
    BY <2>2 DEF Outbox, Loaded
  <2>4. CursorLe(mem, b) /\ CursorFits(file, b) /\ b.gen \in Nat /\ b.offset \in Nat
    BY <1>5, <2>1, SavedCursor
  <2>5. ~ Unseen(mem, file)
    BY DEF TellInv
  <2>6. CASE mem' = mem
    BY <2>2, <2>3, <2>6
  <2>7. CASE mem' = b
    <3>1. ReadableIn(file, b, n)
      BY <2>2, <2>3, <2>7
    <3>2. ReadableIn(file, mem, n)
      BY <1>1, <1>2, <2>4, <2>5, <3>1, ReadableBack
    <3> QED BY <2>3, <3>2
  <2> QED BY <2>2, <2>6, <2>7
<1>6. CASE Crash
  <2>1. mem # Unloaded /\ mem' = Unloaded /\ disk' = disk /\ file' = file
    BY <1>6 DEF Crash, Loaded, sourceVars
  <2>2. Outbox = mem /\ Outbox' = disk
    BY <2>1 DEF Outbox, Loaded
  <2>3. ~ Unseen(mem, file) /\ CursorLe(mem, disk)
    BY <2>1 DEF TellInv
  <2>4. ReadableIn(file, disk, n)
    BY <2>1, <2>2
  <2>5. ReadableIn(file, mem, n)
    BY <1>1, <1>2, <2>3, <2>4, ReadableBack
  <2> QED BY <2>2, <2>5
<1>7. CASE \E early, due \in BOOLEAN : StartPoll(early, due)
  <2>1. mem' = Outbox /\ disk' = disk /\ file' = file
    BY <1>7 DEF StartPoll, Outbox, sourceVars
  <2>2. Outbox' = Outbox
    BY <1>1, <2>1 DEF Outbox, Loaded
  <2> QED BY <2>1, <2>2
<1>8. CASE CoreStep \/ CoreFails \/ AnswerUnheard \/ LearnPod \/ ForgetPod \/ UNCHANGED vars
  <2>1. UNCHANGED <<file, mem, disk>>
    BY <1>8 DEF vars, agentVars, sourceVars, CoreStep, CoreFails, AnswerUnheard, LearnPod, ForgetPod
  <2> QED BY <1>3, <2>1
<1>9. CASE SkipHistory \/ (\E uid \in PodUIDs : ReadFile(uid)) \/ ReadFails \/ Steady
  <2>1. UNCHANGED <<file, mem, disk>>
    BY <1>9, SteadyEffect DEF SkipHistory, ReadFile, ReadFails, sourceVars
  <2> QED BY <1>3, <2>1
<1> QED BY <1>4, <1>5, <1>6, <1>7, <1>8, <1>9, StepKinds

\* Held for a commit, on disk or in the file: what has not been lost.
Pending(id) == \/ ReadableIn(file, Outbox, id[1]) \/ id \in HeldIds(disk)
               \/ poll.pc = "checkpoint" /\ id \in HeldIds(poll.next)

\* What a poll has in hand was read from the file, or the outbox held it.
LEMMA InHandNext ==
    ASSUME RecordInv, TellInv, [Next]_vars, poll'.pc = "checkpoint", NEW id \in HeldIds(poll'.next)
    PROVE  Pending(id) \/ id \in HeldIds(Outbox)
<1>1. CASE UNCHANGED poll
  BY <1>1 DEF Pending
<1>2. CASE SkipHistory \/ \E uid \in PodUIDs : ReadFile(uid)
  <2>1. PICK n, start : ReadTo(n, start)
    BY <1>2, ReadEffect
  <2>2. poll'.next = n /\ n.quarantine = mem.quarantine
    BY <2>1 DEF ReadTo
  <2>3. mem # Unloaded
    BY <1>2, Busy DEF SkipHistory, ReadFile
  <2>4. Outbox = mem
    BY <2>3 DEF Outbox, Loaded
  <2>5. id \in Ids(n.pending) \/ id \in Ids(mem.quarantine)
    BY <2>2 DEF HeldIds
  <2>6. CASE id \in Ids(n.pending)
    <3>1. ReadableIn(file, mem, id[1])
      BY <2>1, <2>6, ReadableTaken
    <3> QED BY <2>4, <3>1 DEF Pending
  <2>7. CASE id \in Ids(mem.quarantine)
    BY <2>4, <2>7 DEF HeldIds
  <2> QED BY <2>5, <2>6, <2>7
<1>3. CASE SaveFlush \/ Checkpoint \/ Steady
  BY <1>3, SaveEffect, SteadyEffect
<1>4. CASE ReadFails
  <2>1. DOMAIN poll = PollFields
    BY DEF RecordInv, PollInv
  <2> QED BY <1>4, <2>1 DEF ReadFails, PollFields
<1>5. CASE Crash
  <2>1. poll'.pc = "idle"
    BY <1>5 DEF Crash, Idle
  <2> QED BY <2>1
<1>6. CASE \E early, due \in BOOLEAN : StartPoll(early, due)
  <2>1. PICK early, due \in BOOLEAN : StartPoll(early, due)
    BY <1>6
  <2>2. poll'.pc = "flush"
    BY <2>1 DEF StartPoll, Idle
  <2> QED BY <2>2
<1>7. CASE \/ StartLine \/ WriteLine \/ ReplaceFile \/ RecreatePod \/ UNCHANGED vars
           \/ CoreStep \/ CoreFails \/ AnswerUnheard \/ LearnPod \/ ForgetPod
  <2>1. UNCHANGED poll
    BY <1>7 DEF StartLine, WriteLine, ReplaceFile, RecreatePod, vars, agentVars,
                CoreStep, CoreFails, AnswerUnheard, LearnPod, ForgetPod
  <2> QED BY <1>1, <2>1
<1> QED BY <1>2, <1>3, <1>4, <1>5, <1>6, <1>7, StepKinds

LEMMA IdLine == \A id \in EventIds : id[1] \in Nat \ {0}
<1>1. SUFFICES ASSUME NEW id \in EventIds PROVE id[1] \in Nat \ {0}
  OBVIOUS
<1>2. id \in (UNION {DOMAIN s : s \in Sources}) \X {1, 2}
  BY LinesAssumption
<1>3. PICK s \in Sources : id[1] \in DOMAIN s
  BY <1>2
<1>4. s \in Seq(LineKinds)
  BY LinesAssumption
<1> QED BY <1>3, <1>4

\* The status of a record, from what Core has claimed and what the outbox holds.
StatusRight ==
    \A id : /\ id \in Claimed => StatusOf(id) = "applied"
            /\ id \notin Claimed =>
                  /\ id \in HeldIds(Outbox) => StatusOf(id) = "stored"
                  /\ id \notin HeldIds(Outbox) =>
                        /\ id[1] > written \/ id \notin EventSet => StatusOf(id) = "unwritten"
                        /\ ~ (id[1] > written) /\ id \in EventSet =>
                              StatusOf(id) = IF Pending(id) THEN "unread" ELSE "lost"

LEMMA StatusIsRight == RecordInv => StatusRight
<1>1. SUFFICES ASSUME RecordInv, NEW id
               PROVE  /\ id \in Claimed => StatusOf(id) = "applied"
                      /\ id \notin Claimed =>
                            /\ id \in HeldIds(Outbox) => StatusOf(id) = "stored"
                            /\ id \notin HeldIds(Outbox) =>
                                  /\ id[1] > written \/ id \notin EventSet => StatusOf(id) = "unwritten"
                                  /\ ~ (id[1] > written) /\ id \in EventSet =>
                                        StatusOf(id) = IF Pending(id) THEN "unread" ELSE "lost"
  BY DEF StatusRight
<1>2. Holds(mem, id) <=> id \in HeldIds(mem)
  BY <1>1, HoldsHeld DEF RecordInv, OutboxInv, OutboxType
<1>3. Holds(disk, id) <=> id \in HeldIds(disk)
  BY <1>1, HoldsHeld DEF RecordInv, OutboxInv, OutboxType
<1>4. poll.pc = "checkpoint" => (Holds(poll.next, id) <=> id \in HeldIds(poll.next))
  BY <1>1, HoldsHeld DEF RecordInv, CheckpointInv, OutboxType
<1>5. Holds(Outbox, id) <=> id \in HeldIds(Outbox)
  BY <1>2, <1>3 DEF Outbox
<1>6. Readable(Outbox, id[1]) <=> ReadableIn(file, Outbox, id[1])
  BY DEF Readable, ReadableIn
<1>7. Readable(Outbox, id[1]) \/ Holds(disk, id) \/ InHand(id) <=> Pending(id)
  BY <1>3, <1>4, <1>6 DEF InHand, Pending
<1> QED BY <1>5, <1>7, Zenon DEF StatusOf, Claimed

\* What a step may do to a record.
LEMMA RecordMoves ==
    ASSUME RecordInv, TellInv, BatchInv, HandInv, KeepInv, [Next]_vars, TellInv', NEW id \in EventIds
    PROVE  /\ id \in Claimed => id \in Claimed'
           /\ id \in Claimed' => id \in Claimed \/ id \in HeldIds(Outbox)
           /\ id \in HeldIds(Outbox) => id \in Claimed \/ id \in HeldIds(Outbox)'
           /\ EventSet' = EventSet /\ written \in Nat /\ written' \in Nat
           /\ ~ (id[1] > written) => ~ (id[1] > written')
           /\ id \in HeldIds(Outbox)' =>
                 id \in HeldIds(Outbox) \/ (~ (id[1] > written) /\ id \in EventSet /\ Pending(id))
           /\ ~ (id[1] > written) /\ Pending(id)' => Pending(id) \/ id \in HeldIds(Outbox)
           /\ id[1] > written /\ ~ (id[1] > written') => Pending(id)'
<1>1. id[1] \in Nat /\ written \in Nat
  BY IdLine DEF RecordInv, SourceInv
<1>2. /\ Claimed \subseteq Claimed' /\ Lines' = Lines
      /\ \A c \in Claimed' : c \in Claimed \/ \E s \in Slots : c \in Ids(requests[s].batch)
  BY ClaimNext
<1>3. EventSet' = EventSet
  BY <1>2 DEF EventSet
<1>4. id \in Claimed' => id \in Claimed \/ id \in HeldIds(Outbox)
  BY <1>2 DEF KeepInv
<1>5. id \in HeldIds(Outbox) => id \in Claimed \/ id \in HeldIds(Outbox)'
  BY OutboxMoves DEF Loses
<1>6. (WriteLine /\ written' = written + 1) \/ written' = written
  <2>1. CASE StartLine \/ WriteLine \/ ReplaceFile \/ RecreatePod
    BY <2>1 DEF StartLine, WriteLine, ReplaceFile, RecreatePod
  <2>2. CASE SaveFlush \/ Checkpoint \/ Steady
    BY <2>2, SaveEffect, SteadyEffect DEF sourceVars
  <2>3. CASE \/ SkipHistory \/ (\E uid \in PodUIDs : ReadFile(uid)) \/ ReadFails \/ Crash
             \/ \E early, due \in BOOLEAN : StartPoll(early, due)
    BY <2>3 DEF SkipHistory, ReadFile, ReadFails, Crash, StartPoll, sourceVars
  <2>4. CASE CoreStep \/ CoreFails \/ AnswerUnheard \/ LearnPod \/ ForgetPod \/ UNCHANGED vars
    BY <2>4 DEF CoreStep, CoreFails, AnswerUnheard, LearnPod, ForgetPod, vars, sourceVars
  <2> QED BY <2>1, <2>2, <2>3, <2>4, StepKinds
<1>7. written' \in Nat /\ (~ (id[1] > written) => ~ (id[1] > written'))
  BY <1>1, <1>6
<1>8. ASSUME id \in HeldIds(Outbox)' \/ id \in HeldIds(disk)'
      PROVE  id \in HeldIds(Outbox) \/ (~ (id[1] > written) /\ id \in EventSet /\ Pending(id))
  <2>1. \/ id \in HeldIds(Outbox) \cup HeldIds(disk)
        \/ poll.pc = "checkpoint" /\ id \in HeldIds(poll.next)
    BY <1>8, OutboxMoves
  <2>2. CASE id \in HeldIds(disk)
    <3>1. id[1] <= written /\ id \in EventSet
      BY <2>2, Written DEF KeepInv
    <3> QED BY <1>1, <2>2, <3>1 DEF Pending
  <2>3. CASE poll.pc = "checkpoint" /\ id \in HeldIds(poll.next)
    <3>1. id \in EventSet
      BY <2>3 DEF KeepInv
    <3>2. id[1] <= written
      <4>1. PICK n : n = poll.next
        OBVIOUS
      <4>2. /\ n.pending \in Seq(Events) /\ n.quarantine \in Seq(Events) /\ n.quarantine = mem.quarantine
            /\ \A e \in Range(n.pending) : e.id[1] <= written
        BY <2>3, <4>1 DEF RecordInv, CheckpointInv, OutboxType
      <4>3. PICK e \in Ev(n) : e.id = id
        BY <2>3, <4>1, <4>2, HeldEvents
      <4>4. e \in Range(n.pending) \/ e \in Ev(mem)
        BY <4>2, <4>3 DEF Ev
      <4>5. e.id[1] <= written
        BY <4>2, <4>4 DEF RecordInv, PayloadInv
      <4> QED BY <4>3, <4>5
    <3> QED BY <1>1, <2>3, <3>1, <3>2 DEF Pending
  <2> QED BY <2>1, <2>2, <2>3
<1>9. ASSUME ~ (id[1] > written), Pending(id)' PROVE Pending(id) \/ id \in HeldIds(Outbox)
  <2>1. CASE ReadableIn(file', Outbox', id[1])
    <3>1. id[1] <= written
      BY <1>1, <1>9
    <3>2. ReadableIn(file, Outbox, id[1])
      BY <1>1, <2>1, <3>1, ReadableNext
    <3> QED BY <3>2 DEF Pending
  <2>2. CASE id \in HeldIds(disk)'
    BY <1>8, <2>2
  <2>3. CASE poll'.pc = "checkpoint" /\ id \in HeldIds(poll'.next)
    BY <2>3, InHandNext
  <2> QED BY <1>9, <2>1, <2>2, <2>3 DEF Pending
<1>10. ASSUME id[1] > written, ~ (id[1] > written') PROVE Pending(id)'
  <2>1. WriteLine /\ id[1] = written + 1
    BY <1>1, <1>6, <1>10
  <2>2. PICK o : o = Outbox
    OBVIOUS
  <2>3. UNCHANGED <<mem, disk>>
    BY <2>1 DEF WriteLine, agentVars
  <2>4. Outbox' = o
    BY <2>2, <2>3 DEF Outbox, Loaded
  <2>5. o.offset \in Nat /\ CursorFits(file, o)
    BY <2>2 DEF Outbox, RecordInv, OutboxInv, OutboxType
  <2>6. ~ Unseen(o, file')
    <3>1. ~ Unseen(mem', file') /\ ~ Unseen(disk', file')
      BY DEF TellInv
    <3> QED BY <2>2, <2>3, <3>1 DEF Outbox
  <2>7. ReadableIn(file', o, written + 1)
    BY <2>1, <2>5, <2>6, ReadableNew
  <2>8. ReadableIn(file', Outbox', id[1])
    BY <2>1, <2>4, <2>7
  <2> QED BY <2>8 DEF Pending
<1> QED BY <1>1, <1>2, <1>3, <1>4, <1>5, <1>7, <1>8, <1>9, <1>10

LEMMA StatusMoves ==
    ASSUME RecordInv, TellInv, BatchInv, HandInv, KeepInv, [Next]_vars, TellInv',
           StatusRight, StatusRight', NEW id \in EventIds
    PROVE  \/ StatusOf(id)' = StatusOf(id)
           \/ <<StatusOf(id), StatusOf(id)'>> \in Delivery!Moves
<1>1. /\ id \in Claimed => id \in Claimed'
      /\ id \in Claimed' => id \in Claimed \/ id \in HeldIds(Outbox)
      /\ id \in HeldIds(Outbox) => id \in Claimed \/ id \in HeldIds(Outbox)'
      /\ EventSet' = EventSet
      /\ ~ (id[1] > written) => ~ (id[1] > written')
      /\ id \in HeldIds(Outbox)' =>
            id \in HeldIds(Outbox) \/ (~ (id[1] > written) /\ id \in EventSet /\ Pending(id))
      /\ ~ (id[1] > written) /\ Pending(id)' => Pending(id) \/ id \in HeldIds(Outbox)
      /\ id[1] > written /\ ~ (id[1] > written') => Pending(id)'
  BY RecordMoves
<1>2. /\ id \in Claimed => StatusOf(id) = "applied"
      /\ id \notin Claimed =>
            /\ id \in HeldIds(Outbox) => StatusOf(id) = "stored"
            /\ id \notin HeldIds(Outbox) =>
                  /\ id[1] > written \/ id \notin EventSet => StatusOf(id) = "unwritten"
                  /\ ~ (id[1] > written) /\ id \in EventSet =>
                        StatusOf(id) = IF Pending(id) THEN "unread" ELSE "lost"
  BY DEF StatusRight
<1>3. /\ id \in Claimed' => StatusOf(id)' = "applied"
      /\ id \notin Claimed' =>
            /\ id \in HeldIds(Outbox)' => StatusOf(id)' = "stored"
            /\ id \notin HeldIds(Outbox)' =>
                  /\ id[1] > written' \/ id \notin EventSet' => StatusOf(id)' = "unwritten"
                  /\ ~ (id[1] > written') /\ id \in EventSet' =>
                        StatusOf(id)' = IF Pending(id)' THEN "unread" ELSE "lost"
  BY DEF StatusRight
<1>4. CASE id \in Claimed
  BY <1>1, <1>2, <1>3, <1>4
<1>5. CASE id \notin Claimed /\ id \in HeldIds(Outbox)
  <2>1. StatusOf(id) = "stored" /\ StatusOf(id)' \in {"stored", "applied"}
    BY <1>1, <1>2, <1>3, <1>5
  <2> QED BY <2>1 DEF Delivery!Moves
<1>6. CASE id \notin Claimed /\ id \notin HeldIds(Outbox) /\ (id[1] > written \/ id \notin EventSet)
  <2>1. StatusOf(id) = "unwritten" /\ StatusOf(id)' \in {"unwritten", "unread"}
    BY <1>1, <1>2, <1>3, <1>6
  <2> QED BY <2>1 DEF Delivery!Moves
<1>7. CASE id \notin Claimed /\ id \notin HeldIds(Outbox) /\ ~ (id[1] > written) /\ id \in EventSet
  <2>1. CASE Pending(id)
    <3>1. StatusOf(id) = "unread" /\ StatusOf(id)' \in {"unread", "stored", "lost"}
      BY <1>1, <1>2, <1>3, <1>7, <2>1
    <3> QED BY <3>1 DEF Delivery!Moves
  <2>2. CASE ~ Pending(id)
    <3>1. StatusOf(id) = "lost" /\ StatusOf(id)' = "lost"
      BY <1>1, <1>2, <1>3, <1>7, <2>2
    <3> QED BY <3>1
  <2> QED BY <2>1, <2>2
<1> QED BY <1>4, <1>5, <1>6, <1>7

LEMMA DeliveryStep ==
    ASSUME RecordInv, TellInv, BatchInv, HandInv, KeepInv, [Next]_vars, TellInv', StatusRight, StatusRight'
    PROVE  Delivery!Next
<1>1. \A id \in EventIds : \/ StatusOf(id)' = StatusOf(id)
                           \/ <<StatusOf(id), StatusOf(id)'>> \in Delivery!Moves
  BY StatusMoves
<1>2. \A id \in EventIds : StatusOf(id)' \in Delivery!Statuses
  BY DEF StatusOf, Delivery!Statuses
<1>3. PICK old, new : old = [id \in EventIds |-> StatusOf(id)] /\ new = [id \in EventIds |-> StatusOf(id)']
  OBVIOUS
<1>4. new \in [EventIds -> Delivery!Statuses]
  BY <1>2, <1>3
<1>5. \A id \in EventIds : new[id] = old[id] \/ <<old[id], new[id]>> \in Delivery!Moves
  BY <1>1, <1>3
<1> QED BY <1>3, <1>4, <1>5 DEF Delivery!Next

LEMMA DeliveryInit ==
    ASSUME Init
    PROVE  Delivery!Init /\ TellInv /\ BatchInv /\ HandInv /\ KeepInv /\ SaveInv
<1>1. /\ claims = <<>> /\ requests = [s \in Slots |-> NoRequest] /\ written = 0
      /\ file.inode = 1 /\ file.gen = 1 /\ file.lines = <<>>
      /\ disk = EmptyOutbox /\ mem = Unloaded /\ rd = ColdReader /\ poll.pc = "idle"
  BY DEF Init, IngestInit, Idle
<1>2. HeldIds(EmptyOutbox) = {} /\ HeldIds(Unloaded) = {} /\ Ids(NoRequest.batch) = {}
  BY NothingHeld DEF HeldIds, EmptyOutbox, Unloaded, NoRequest
<1>3. Claimed = {} /\ Outbox = EmptyOutbox
  BY <1>1 DEF Claimed, Outbox, Loaded
<1>4. TellInv
  BY <1>1 DEF TellInv, Unseen, ColdReader, EmptyOutbox, Unloaded
<1>5. BatchInv
  <2>1. BatchOk(NoRequest, Claimed)
    BY DEF BatchOk, NoRequest
  <2> QED BY <1>1, <2>1 DEF BatchInv
<1>6. HandInv /\ KeepInv /\ SaveInv
  BY <1>1, <1>2, <1>3 DEF HandInv, KeepInv, SaveInv
<1>7. ASSUME NEW id \in EventIds PROVE StatusOf(id) = "unwritten"
  <2>1. id[1] > written
    BY <1>1, IdLine
  <2>2. StatusRight
    BY RecordInit, StatusIsRight
  <2> QED BY <1>2, <1>3, <2>1, <2>2 DEF StatusRight
<1>8. [id \in EventIds |-> StatusOf(id)] = [id \in EventIds |-> "unwritten"]
  BY <1>7
<1> QED BY <1>4, <1>5, <1>6, <1>8 DEF Delivery!Init

\* The outbox implements durable delivery (ImplementsDelivery): a record is applied by Core only
\* after the outbox held it, what the outbox holds is never lost, and what is lost was never in it,
\* through every crash, failed save, split, rotation, late answer and retry.  The hypothesis leaves
\* out what falco_reader.go cannot see: a file that is replaced under the same inode and has grown
\* past the cursor before the next poll, for then neither its inode nor its size tells.
THEOREM DeliveryTheorem ==
    ASSUME ~ RegrowPastCursor
    PROVE  Spec => ImplementsDelivery
<1>1. Init => Delivery!Init /\ TellInv /\ BatchInv /\ HandInv /\ KeepInv /\ SaveInv
  BY DeliveryInit
<1>2. RecordInv /\ TellInv /\ [Next]_vars => TellInv'
  BY TellNext
<1>3. RecordInv /\ BatchInv /\ [Next]_vars => BatchInv'
  BY ClaimNext
<1>4. RecordInv /\ SaveInv /\ BatchInv /\ HandInv /\ [Next]_vars => HandInv'
  BY HandNext
<1>5. RecordInv /\ BatchInv /\ HandInv /\ KeepInv /\ [Next]_vars => KeepInv'
  BY KeepNext
<1>6. RecordInv /\ TellInv /\ BatchInv /\ HandInv /\ KeepInv /\ [Next]_vars /\ TellInv'
         /\ StatusRight /\ StatusRight' => Delivery!Next
  BY DeliveryStep
<1> QED BY <1>1, <1>2, <1>3, <1>4, <1>5, <1>6, RecordAlways, SaveNext, StatusIsRight, PTL
        DEF Spec, ImplementsDelivery, Delivery!Spec

-----------------------------------------------------------------------------
(* A complete window: what was written before the read has been applied.    *)

\* The line is in the file, after the first k.
After(n, k) == \E i \in DOMAIN file.lines : i > k /\ file.lines[i] = n

\* Whatever has been written is claimed, held in S, reported, or still in the file after k.
Covered(S, k) ==
    \A id \in EventSet : id[1] <= written =>
        id \in Claimed \/ id \in S \/ id[1] \in skipped \/ After(id[1], k)

Delivered(S) == \A id \in EventSet : id[1] <= snap => id \in Claimed \/ id \in S \/ id[1] \in skipped

\* The cursor in memory: within its file, and past nothing that is not in the outbox unless it
\* was reported.
SeekInv ==
    /\ rd.gen <= file.gen
    /\ rd.init /\ rd.gen = file.gen => rd.offset <= Len(file.lines)
    /\ rd.init /\ rd.gen = file.gen /\ mem.gen # file.gen =>
          \A i \in DOMAIN file.lines : i <= rd.offset => file.lines[i] \in skipped
    /\ rd.init /\ rd.inode = 0 => mem.inode # 0 /\ mem.gen = rd.gen /\ mem.offset = rd.offset
    /\ (mem.saved => mem.inode # 0) /\ (disk.saved => disk.inode # 0)
    /\ poll.pc = "checkpoint" => poll.next.inode # 0

\* Between polls, and in a poll that has nothing to report, nothing is missing.
CoverInv ==
    /\ mem # Unloaded /\ rd.init /\ rd.gen = file.gen /\ poll.dirty = FALSE /\ poll.pc # "checkpoint" =>
          Covered(HeldIds(mem), rd.offset)
    /\ mem = Unloaded /\ disk.saved /\ disk.gen = file.gen => Covered(HeldIds(disk), disk.offset)
    /\ poll.pc = "checkpoint" /\ poll.dirty = FALSE /\ rd.gen = file.gen =>
          Covered(HeldIds(poll.next), poll.next.offset)

WindowInv ==
    /\ poll.dirty \in BOOLEAN /\ (poll.pc = "idle" => poll.dirty = FALSE)
    /\ snap \in Nat /\ snap <= written
    /\ poll.pc = "checkpoint" /\ poll.dirty = FALSE => Delivered(HeldIds(poll.next))
    /\ poll.pc \notin {"idle", "checkpoint"} /\ poll.from # "start" /\ poll.dirty = FALSE =>
          Delivered(HeldIds(mem))
    /\ poll.pc = "observe" => poll.from = "final"
    /\ poll.pc = "observe" /\ poll.dirty = FALSE => mem.pending = <<>> /\ mem.quarantine = <<>>

-----------------------------------------------------------------------------
(* A read without a flaw leaves no event of its lines out.                  *)

LEMMA IdsJoined ==
    ASSUME NEW S, NEW a \in Seq(S), NEW b \in Seq(S)
    PROVE  Ids(a) \subseteq Ids(a \o b) /\ Ids(b) \subseteq Ids(a \o b)
<1>1. PICK c, m, n : c = a \o b /\ m = Len(a) /\ n = Len(b)
  OBVIOUS
<1>2. /\ m \in Nat /\ n \in Nat /\ Len(c) = m + n
      /\ \A i \in 1 .. m : c[i] = a[i]
      /\ \A i \in 1 .. m + n : i > m => c[i] = b[i - m]
  BY <1>1
<1>3. \A i \in 1 .. n : m + i \in 1 .. m + n /\ c[m + i] = b[i]
  BY <1>2
<1>4. \A x \in Ids(a) : x \in Ids(c)
  BY <1>1, <1>2 DEF Ids
<1>5. ASSUME NEW x \in Ids(b) PROVE x \in Ids(c)
  <2>1. PICK i \in 1 .. n : x = b[i].id
    BY <1>1 DEF Ids
  <2>2. PICK k : k = m + i
    OBVIOUS
  <2>3. k \in 1 .. Len(c) /\ x = c[k].id
    BY <1>2, <1>3, <2>1, <2>2
  <2> QED BY <2>3 DEF Ids
<1> QED BY <1>1, <1>4, <1>5

LEMMA FlatWhole ==
    ASSUME NEW S, NEW ss \in Seq(Seq(S)), NEW f, Flat(f, ss, Len(ss))
    PROVE  \A i \in 1 .. Len(ss) : \A j \in 1 .. i : Ids(ss[j]) \subseteq Ids(f[i])
<1> DEFINE Good(i) == \A j \in 1 .. i : Ids(ss[j]) \subseteq Ids(f[i])
<1>1. PICK B : B = {i \in 1 .. Len(ss) : ~ Good(i)}
  OBVIOUS
<1>2. SUFFICES ASSUME B # {} PROVE FALSE
  BY <1>1
<1>3. \A i \in B : i \in Nat
  BY <1>1
<1>4. PICK i \in B : \A j \in B : i <= j
  BY <1>2, <1>3, NatMin
<1>5. i \in 1 .. Len(ss) /\ ~ Good(i) /\ ss[i] \in Seq(S)
  BY <1>1
<1>6. i # 1
  <2>1. ASSUME i = 1 PROVE FALSE
    <3>1. f[i] = ss[i]
      BY <1>5, <2>1 DEF Flat
    <3>2. \A j \in 1 .. i : j = i
      BY <2>1
    <3> QED BY <1>5, <3>1, <3>2
  <2> QED BY <2>1
<1>7. i - 1 \in 1 .. Len(ss) /\ i - 1 \notin B
  BY <1>4, <1>5, <1>6
<1>8. PICK k : k = i - 1
  OBVIOUS
<1>9. k \in 1 .. Len(ss) /\ Good(k) /\ i \in Nat /\ k = i - 1
  BY <1>1, <1>7, <1>8
<1>10. f[k] \in Seq(S)
  BY <1>9, FlatTyped
<1>11. f[i] = f[k] \o ss[i]
  BY <1>5, <1>6, <1>8 DEF Flat
<1>12. Ids(f[k]) \subseteq Ids(f[i]) /\ Ids(ss[i]) \subseteq Ids(f[i])
  BY <1>5, <1>10, <1>11, IdsJoined
<1>13. \A j \in 1 .. i : j = i \/ j \in 1 .. k
  BY <1>9
<1> QED BY <1>5, <1>9, <1>12, <1>13

LEMMA FlattenWhole ==
    ASSUME NEW S, NEW ss \in Seq(Seq(S)), NEW j \in 1 .. Len(ss)
    PROVE  Ids(ss[j]) \subseteq Ids(FlattenSeq(ss))
<1> DEFINE fl == CHOOSE f : f = [i \in 1 .. Len(ss) |-> IF i = 1 THEN ss[i] ELSE f[i - 1] \o ss[i]]
<1>1. PICK g : Flat(g, ss, Len(ss))
  BY FlatExists
<1>2. g = [i \in 1 .. Len(ss) |-> IF i = 1 THEN ss[i] ELSE g[i - 1] \o ss[i]]
  BY <1>1 DEF Flat
<1>3. fl = [i \in 1 .. Len(ss) |-> IF i = 1 THEN ss[i] ELSE fl[i - 1] \o ss[i]]
  BY <1>2
<1>4. Flat(fl, ss, Len(ss))
  <2> HIDE DEF fl
  <2> QED BY <1>3 DEF Flat
<1>5. Len(ss) # 0 /\ Len(ss) \in 1 .. Len(ss)
  OBVIOUS
<1>6. FlattenSeq(ss) = fl[Len(ss)]
  BY <1>5 DEF FlattenSeq
<1> HIDE DEF fl
<1> QED BY <1>4, <1>5, <1>6, FlatWhole

LEMMA LineWhole ==
    ASSUME NEW n, NEW uid, Lines[n] # "bad", ~ (Lines[n] = "named" /\ uid = 0),
           NEW id \in EventSet, id[1] = n
    PROVE  id \in Ids(EventsOf(n, uid))
<1>1. PICK pod, s : pod = PodFor(n, uid) /\ s = EventsOf(n, uid)
  OBVIOUS
<1>2. PICK a, b : a = [id |-> <<n, 1>>, pod |-> pod] /\ b = [id |-> <<n, 2>>, pod |-> pod]
  OBVIOUS
<1>3. a.id = <<n, 1>> /\ b.id = <<n, 2>> /\ pod # 0
  BY <1>1, <1>2 DEF PodFor
<1>4. \/ Lines[n] = "pair" /\ (id = <<n, 1>> \/ id = <<n, 2>>)
      \/ Lines[n] \in {"uid", "named"} /\ id = <<n, 1>>
  BY DEF EventSet
<1>5. CASE Lines[n] = "pair"
  <2>1. s = <<a, b>>
    BY <1>1, <1>2, <1>3, <1>5 DEF EventsOf, PodFor
  <2>2. Len(s) = 2 /\ s[1] = a /\ s[2] = b /\ 1 .. 2 = {1, 2}
    BY <2>1
  <2> QED BY <1>1, <1>3, <1>4, <1>5, <2>2 DEF Ids
<1>6. CASE Lines[n] \in {"uid", "named"}
  <2>1. s = <<a>>
    BY <1>1, <1>2, <1>3, <1>6 DEF EventsOf, PodFor
  <2>2. Len(s) = 1 /\ s[1] = a /\ 1 .. 1 = {1}
    BY <2>1
  <2> QED BY <1>1, <1>3, <1>4, <1>6, <2>2 DEF Ids
<1> QED BY <1>4, <1>5, <1>6

LEMMA ParsedWhole ==
    ASSUME SourceInv, NEW lines \in Seq(1 .. written), NEW uid \in 0 .. podGen, ~ Flawed(lines, uid),
           NEW id \in EventSet, NEW j \in 1 .. Len(lines), id[1] = lines[j]
    PROVE  id \in Ids(Parsed(lines, uid))
<1>1. PICK E : E = EventsIn(Range(lines), uid)
  OBVIOUS
<1>2. PICK ss : ss = [i \in DOMAIN lines |-> EventsOf(lines[i], uid)]
  OBVIOUS
<1>3. ASSUME NEW i \in DOMAIN lines PROVE ss[i] \in Seq(E)
  <2>0. i \in 1 .. Len(lines)
    OBVIOUS
  <2>1. lines[i] \in 1 .. written /\ lines[i] \in Range(lines)
    BY <2>0, SeqAndRange
  <2> QED BY <1>1, <1>2, <2>1, EventsOfLine
<1>4. DOMAIN lines = 1 .. Len(lines) /\ Len(lines) \in Nat
  OBVIOUS
<1>5. ss \in [1 .. Len(lines) -> Seq(E)]
  BY <1>2, <1>3, <1>4
<1>6. ss \in Seq(Seq(E)) /\ Len(ss) = Len(lines)
  BY <1>4, <1>5
<1>7. PICK n : n = lines[j]
  OBVIOUS
<1>8. Lines[n] # "bad" /\ ~ (Lines[n] = "named" /\ uid = 0)
  BY <1>4, <1>7 DEF Flawed
<1>9. id \in Ids(EventsOf(n, uid))
  BY <1>7, <1>8, LineWhole
<1>10. id \in Ids(ss[j]) /\ j \in 1 .. Len(ss)
  BY <1>2, <1>4, <1>6, <1>7, <1>9
<1>11. id \in Ids(FlattenSeq(ss))
  BY <1>6, <1>10, FlattenWhole
<1> QED BY <1>2, <1>11 DEF Parsed

\* Where the file is recognized as another one.
ResetOf ==
    LET at == IF ~ rd.init THEN Len(file.lines) ELSE rd.offset
        known == (IF ~ rd.init THEN {} ELSE {rd.inode}) \cup {mem.inode}
    IN  (\E i \in known : i \notin {0, file.inode}) \/ at > Len(file.lines)

\* A replaced file is recognized.
LEMMA NoReset ==
    ASSUME RecordInv, TellInv, SeekInv, rd.init, ~ ResetOf
    PROVE  rd.gen = file.gen /\ StartOf = rd.offset
<1>1. /\ rd.inode \in {0, file.inode} /\ mem.inode \in {0, file.inode} /\ ~ (rd.offset > Len(file.lines))
      /\ StartOf = rd.offset
  BY DEF ResetOf, StartOf
<1>2. rd.offset \in Nat /\ Len(file.lines) \in Nat
  BY DEF RecordInv, ReaderInv, SourceInv
<1>3. CASE rd.inode = file.inode
  BY <1>1, <1>2, <1>3 DEF TellInv, Unseen
<1>4. CASE rd.inode = 0
  <2>1. mem.inode # 0 /\ mem.gen = rd.gen /\ mem.offset = rd.offset
    BY <1>4 DEF SeekInv
  <2> QED BY <1>1, <1>2, <2>1 DEF TellInv, Unseen
<1> QED BY <1>1, <1>3, <1>4

\* A read that has nothing to report took every line there was.
LEMMA CleanRead ==
    ASSUME RecordInv, TellInv, SeekInv, NEW uid \in PodUIDs, ReadFile(uid), rd.init,
           poll.dirty \in BOOLEAN, poll'.dirty = FALSE
    PROVE  /\ poll.dirty = FALSE /\ rd.gen = file.gen /\ poll'.next.quarantine = mem.quarantine
           /\ \A id \in EventSet : After(id[1], rd.offset) => id \in Ids(poll'.next.pending)
<1>1. /\ poll.pc = "read" /\ mem # Unloaded /\ DOMAIN poll = PollFields /\ uid \in 0 .. podGen
      /\ DOMAIN mem = OutboxFields /\ SourceInv /\ Len(file.lines) \in Nat
  <2>1. poll.pc = "read" /\ mem # Unloaded /\ uid \in 0 .. podGen
    BY Busy DEF ReadFile, PodUIDs
  <2>2. DOMAIN poll = PollFields /\ DOMAIN mem = OutboxFields
    BY DEF RecordInv, PollInv, OutboxInv, OutboxType
  <2>3. SourceInv /\ Len(file.lines) \in Nat
    BY DEF RecordInv, SourceInv
  <2> QED BY <2>1, <2>2, <2>3
<1>2. PICK start, t, u : /\ start = StartOf /\ t = Taken(StartOf, uid)
                         /\ u = SubSeq(file.lines, StartOf + 1, Len(file.lines))
  OBVIOUS
<1>3. PICK d : d = (poll.dirty \/ ResetOf \/ file.partial \/ Len(t) < Len(u) \/ Flawed(t, uid))
  OBVIOUS
<1>4. PICK n : n = [mem EXCEPT !.saved = TRUE, !.inode = file.inode, !.gen = file.gen,
                               !.offset = start + Len(t), !.pending = Parsed(t, uid)]
  OBVIOUS
<1>5. poll' = [poll EXCEPT !.pc = "checkpoint", !.dirty = d, !.next = n]
  <2>1. poll' = [poll EXCEPT !.pc = "checkpoint",
                    !.dirty = (poll.dirty \/ ResetOf \/ file.partial
                         \/ Len(Taken(StartOf, uid)) < Len(SubSeq(file.lines, StartOf + 1, Len(file.lines)))
                         \/ Flawed(Taken(StartOf, uid), uid)),
                    !.next = [mem EXCEPT !.saved = TRUE, !.inode = file.inode, !.gen = file.gen,
                                 !.offset = StartOf + Len(Taken(StartOf, uid)),
                                 !.pending = Parsed(Taken(StartOf, uid), uid)]]
    BY Zenon DEF ReadFile, StartOf, ResetOf, Taken
  <2> QED BY <1>2, <1>3, <1>4, <2>1, Zenon
<1>6. poll'.dirty = d /\ poll'.next = n
  BY <1>1, <1>5 DEF PollFields
<1>7. ~ poll.dirty /\ ~ ResetOf /\ ~ (Len(t) < Len(u)) /\ ~ Flawed(t, uid)
  BY <1>3, <1>6
<1>8. poll.dirty = FALSE /\ rd.gen = file.gen /\ start = rd.offset
  BY <1>2, <1>7, NoReset
<1>9. n.pending = Parsed(t, uid) /\ n.quarantine = mem.quarantine
  BY <1>1, <1>4 DEF OutboxFields
<1>10. start \in 0 .. Len(file.lines) /\ t = Taken(start, uid)
  BY <1>1, <1>2, StartFits
<1>11. /\ t \in Seq(1 .. written) /\ start + Len(t) <= Len(file.lines) /\ Len(t) \in Nat
       /\ \A i \in 1 .. Len(t) : t[i] = file.lines[start + i]
  <2>1. /\ t \in Seq(1 .. written) /\ start + Len(t) <= Len(file.lines)
        /\ \A i \in 1 .. Len(t) : t[i] = file.lines[start + i]
    BY <1>1, <1>10, TakenLines, Zenon
  <2>2. Len(t) \in Nat
    BY <2>1
  <2> QED BY <2>1, <2>2
<1>12. Len(u) = Len(file.lines) - start
  <2>1. PICK W, l, m : W = 1 .. written /\ l = file.lines /\ m = Len(l)
    OBVIOUS
  <2>2. l \in Seq(W) /\ m \in 0 .. Len(l) /\ start \in 0 .. Len(l) /\ u = SubSeq(l, start + 1, m)
    BY <1>1, <1>2, <1>10, <2>1 DEF SourceInv
  <2>3. Len(u) = IF start <= m THEN m - start ELSE 0
    BY <2>2, Slice
  <2>4. start <= m
    BY <1>1, <1>10, <2>1
  <2> QED BY <2>1, <2>3, <2>4
<1>13. start + Len(t) = Len(file.lines)
  BY <1>1, <1>7, <1>10, <1>11, <1>12
<1>14. ASSUME NEW id \in EventSet, After(id[1], rd.offset) PROVE id \in Ids(n.pending)
  <2>1. PICK i \in DOMAIN file.lines : i > start /\ file.lines[i] = id[1]
    BY <1>8, <1>14 DEF After
  <2>2. i \in 1 .. Len(file.lines)
    <3>1. PICK W : W = 1 .. written
      OBVIOUS
    <3>2. file.lines \in Seq(W)
      BY <1>1, <3>1 DEF SourceInv
    <3> QED BY <3>2
  <2>3. PICK j : j = i - start
    OBVIOUS
  <2>4. j \in 1 .. Len(t) /\ start + j = i
    BY <1>1, <1>10, <1>11, <1>13, <2>1, <2>2, <2>3
  <2>5. id[1] = t[j]
    BY <1>11, <2>1, <2>4
  <2>6. id \in Ids(Parsed(t, uid))
    BY <1>1, <1>7, <1>11, <2>4, <2>5, ParsedWhole
  <2> QED BY <1>9, <2>6
<1> QED BY <1>6, <1>8, <1>9, <1>14

LEMMA SeekFrame ==
    ASSUME SeekInv, UNCHANGED <<file, disk, mem, rd>>, UNCHANGED poll \/ poll'.pc # "checkpoint",
           skipped \subseteq skipped'
    PROVE  SeekInv'
  BY DEF SeekInv

LEMMA SeekSource ==
    ASSUME RecordInv, SeekInv, StartLine \/ WriteLine \/ ReplaceFile \/ RecreatePod
    PROVE  SeekInv'
<1>1. UNCHANGED <<disk, mem, rd, poll, skipped>>
  BY DEF StartLine, WriteLine, ReplaceFile, RecreatePod, agentVars
<1>2. DOMAIN file = {"inode", "gen", "lines", "partial"} /\ rd.gen \in Nat /\ rd.offset \in Nat /\ file.gen \in Nat
  BY DEF RecordInv, SourceInv, ReaderInv
<1>3. CASE StartLine \/ RecreatePod
  <2>1. file'.lines = file.lines /\ file'.gen = file.gen
    BY <1>2, <1>3 DEF StartLine, RecreatePod
  <2> QED BY <1>1, <2>1 DEF SeekInv
<1>4. CASE ReplaceFile
  <2>1. file'.gen = file.gen + 1
    BY <1>4 DEF ReplaceFile
  <2>2. rd.gen <= file'.gen /\ rd.gen # file'.gen
    BY <1>2, <2>1 DEF SeekInv
  <2> QED BY <1>1, <2>2 DEF SeekInv
<1>5. CASE WriteLine
  <2>1. PICK l, k : l = file.lines /\ k = Append(file.lines, written + 1)
    OBVIOUS
  <2>2. file'.lines = k /\ file'.gen = file.gen
    BY <1>2, <1>5, <2>1 DEF WriteLine
  <2>3. l \in Seq(Nat) /\ Len(l) \in Nat /\ written + 1 \in Nat
    BY <2>1 DEF RecordInv, SourceInv
  <2>4. k \in Seq(Nat) /\ Len(k) = Len(l) + 1 /\ \A j \in 1 .. Len(l) : k[j] = l[j]
    BY <2>1, <2>3
  <2>5. rd.init /\ rd.gen = file.gen => rd.offset <= Len(l) /\ rd.offset <= Len(k)
    BY <1>2, <2>1, <2>3, <2>4 DEF SeekInv
  <2>6. ASSUME rd.init, rd.gen = file.gen, mem.gen # file.gen, NEW i \in DOMAIN k, i <= rd.offset
        PROVE  k[i] \in skipped
    <3>1. i \in 1 .. Len(l) /\ i \in DOMAIN l
      BY <1>2, <2>3, <2>4, <2>5, <2>6
    <3> QED BY <2>1, <2>4, <2>6, <3>1 DEF SeekInv
  <2> QED BY <1>1, <2>2, <2>5, <2>6 DEF SeekInv
<1> QED BY <1>3, <1>4, <1>5

LEMMA SeekSave == ASSUME RecordInv, SeekInv, SaveFlush \/ Checkpoint PROVE SeekInv'
<1>1. PICK n : n = poll.next
  OBVIOUS
<1>2. /\ UNCHANGED <<file, skipped>> /\ poll'.pc # "checkpoint"
      /\ \/ mem' = mem /\ disk' = disk
         \/ mem' = mem /\ disk' = n
         \/ mem' = n /\ disk' = n
  BY <1>1, SaveEffect DEF sourceVars, SaveFlush, Checkpoint
<1>3. CASE SaveFlush
  <2>1. n.saved = TRUE /\ n.inode = mem.inode /\ n.gen = mem.gen /\ n.offset = mem.offset /\ mem.saved
    BY <1>1, <1>3 DEF SaveFlush, RecordInv, PollInv, Asking
  <2>2. rd' = rd
    BY <1>3 DEF SaveFlush
  <2> QED BY <1>2, <2>1, <2>2 DEF SeekInv
<1>4. CASE Checkpoint
  <2>1. poll.pc = "checkpoint"
    BY <1>4 DEF Checkpoint
  <2>2. n.gen = rd.gen /\ n.inode = rd.inode /\ CursorFits(file, n) /\ n.inode # 0
    BY <1>1, <2>1 DEF RecordInv, CheckpointInv, SeekInv
  <2>3. CASE rd' = rd /\ mem' = mem
    BY <1>2, <2>2, <2>3 DEF SeekInv
  <2>4. CASE rd' = [rd EXCEPT !.offset = n.offset] /\ mem' = n
    <3>1. rd'.init = rd.init /\ rd'.inode = rd.inode /\ rd'.gen = rd.gen /\ rd'.offset = n.offset
      BY <2>4 DEF RecordInv, ReaderInv
    <3> QED BY <1>2, <2>2, <2>4, <3>1 DEF SeekInv, CursorFits
  <2>5. (rd' = rd /\ mem' = mem) \/ (rd' = [rd EXCEPT !.offset = n.offset] /\ mem' = n)
    BY <1>1, <1>4 DEF Checkpoint, SaveDone, SaveFailed
  <2> QED BY <2>3, <2>4, <2>5
<1> QED BY <1>3, <1>4

LEMMA SeekRead ==
    ASSUME RecordInv, TellInv, SeekInv, SkipHistory \/ \E uid \in PodUIDs : ReadFile(uid)
    PROVE  SeekInv'
<1>1. PICK n, start : ReadTo(n, start)
  BY ReadEffect
<1>2. UNCHANGED <<file, mem, disk>>
  BY DEF SkipHistory, ReadFile, sourceVars
<1>3. /\ rd'.init = TRUE /\ rd'.inode = file.inode /\ rd'.gen = file.gen /\ rd'.offset = start
      /\ poll'.next = n /\ n.inode = file.inode
  BY <1>1 DEF ReadTo
<1>4. file.inode # 0 /\ file.gen \in Nat /\ file.lines \in Seq(1 .. written)
  BY LinesAssumption DEF RecordInv, SourceInv
<1>5. start <= Len(file.lines)
  BY <1>1, <1>4 DEF ReadTo
<1>6. ASSUME mem.gen # file.gen, NEW i \in DOMAIN file.lines, i <= start
      PROVE  file.lines[i] \in skipped'
  <2>1. file.lines[i] \in 1 .. written /\ i \in Nat /\ i > 0
    <3>1. PICK W : W = 1 .. written
      OBVIOUS
    <3>2. file.lines \in Seq(W)
      BY <1>4, <3>1
    <3>3. file.lines[i] \in W /\ i \in Nat /\ i > 0
      BY <3>2
    <3> QED BY <3>1, <3>3
  <2>2. CASE 1 .. written \subseteq skipped'
    BY <2>1, <2>2
  <2>3. CASE \E uid \in PodUIDs : ReadFile(uid) /\ rd.init
    <3>1. PICK uid \in PodUIDs : ReadFile(uid)
      BY <2>3
    <3>2. start = StartOf /\ skipped \subseteq skipped'
      <4>1. rd' = [init |-> TRUE, inode |-> file.inode, gen |-> file.gen, offset |-> StartOf]
        BY <3>1, Zenon DEF ReadFile, StartOf
      <4>2. skipped \subseteq skipped'
        BY <3>1 DEF ReadFile
      <4> QED BY <1>3, <4>1, <4>2
    <3>3. CASE ResetOf
      <4>1. StartOf = 0
        BY <3>3 DEF ResetOf, StartOf
      <4> QED BY <1>6, <2>1, <3>2, <4>1
    <3>4. CASE ~ ResetOf
      <4>1. rd.gen = file.gen /\ start = rd.offset /\ rd.init
        BY <2>3, <3>2, <3>4, NoReset
      <4> QED BY <1>6, <3>2, <4>1 DEF SeekInv
    <3> QED BY <3>3, <3>4
  <2>4. 1 .. written \subseteq skipped' \/ \E uid \in PodUIDs : ReadFile(uid) /\ rd.init
    BY DEF SkipHistory, ReadFile
  <2> QED BY <2>2, <2>3, <2>4
<1> QED BY <1>2, <1>3, <1>4, <1>5, <1>6 DEF SeekInv

LEMMA SeekNext ==
    ASSUME RecordInv, TellInv, SeekInv, [Next]_vars
    PROVE  SeekInv'
<1>1. CASE CoreStep \/ CoreFails \/ AnswerUnheard \/ LearnPod \/ ForgetPod \/ UNCHANGED vars
  <2>1. UNCHANGED <<file, disk, mem, rd, poll, skipped>>
    BY <1>1 DEF CoreStep, CoreFails, AnswerUnheard, LearnPod, ForgetPod, vars, sourceVars, agentVars
  <2> QED BY <2>1, SeekFrame
<1>2. CASE Steady
  <2>1. UNCHANGED <<file, disk, mem, rd>> /\ poll'.pc # "checkpoint"
    BY <1>2, SteadyEffect DEF sourceVars
  <2>2. skipped \subseteq skipped'
    BY <1>2 DEF Steady, EnterFlush, Post, KeepUnsent, Answered, TimesOut, EndStage, AfterFlush, ObserveWindow
  <2> QED BY <2>1, <2>2, SeekFrame
<1>3. CASE ReadFails
  <2>1. UNCHANGED <<file, disk, mem, skipped>> /\ poll'.pc # "checkpoint"
    BY <1>3 DEF ReadFails, sourceVars, RecordInv, PollInv, PollFields
  <2>2. CASE rd' = rd
    BY <2>1, <2>2 DEF SeekInv
  <2>3. CASE rd' = [init |-> TRUE, inode |-> file.inode, gen |-> file.gen, offset |-> 0]
    <3>1. rd'.init = TRUE /\ rd'.inode = file.inode /\ rd'.gen = file.gen /\ rd'.offset = 0
      BY <2>3
    <3>2. file.inode # 0 /\ file.gen \in Nat /\ Len(file.lines) \in Nat /\ \A i \in DOMAIN file.lines : ~ (i <= 0)
      BY LinesAssumption DEF RecordInv, SourceInv
    <3> QED BY <2>1, <3>1, <3>2 DEF SeekInv
  <2> QED BY <1>3, <2>2, <2>3 DEF ReadFails
<1>4. CASE Crash
  <2>1. UNCHANGED <<file, disk>> /\ mem' = Unloaded /\ rd' = ColdReader /\ poll'.pc = "idle"
    BY <1>4 DEF Crash, sourceVars, Idle
  <2>2. rd'.init = FALSE /\ rd'.gen = 0 /\ mem'.saved = FALSE /\ file.gen \in Nat
    BY <2>1 DEF ColdReader, Unloaded, EmptyOutbox, RecordInv, SourceInv
  <2> QED BY <2>1, <2>2 DEF SeekInv
<1>5. ASSUME NEW early \in BOOLEAN, NEW due \in BOOLEAN, StartPoll(early, due) PROVE SeekInv'
  <2>1. poll'.pc = "flush" /\ UNCHANGED <<file, disk, skipped>>
    BY <1>5 DEF StartPoll, Idle, sourceVars
  <2>2. PICK s : s = Outbox
    OBVIOUS
  <2>3. mem' = s /\ (rd' = rd \/ (s.saved /\ rd' = [init |-> TRUE, inode |-> 0, gen |-> s.gen, offset |-> s.offset]))
    BY <1>5, <2>2 DEF StartPoll, Outbox
  <2>4. CursorFits(file, s) /\ (s.saved => s.inode # 0)
    BY <2>2 DEF Outbox, RecordInv, OutboxInv, SeekInv
  <2>5. CASE rd' = rd /\ mem # Unloaded
    <3>1. mem' = mem
      BY <2>2, <2>3, <2>5 DEF Outbox, Loaded
    <3> QED BY <2>1, <2>5, <3>1 DEF SeekInv
  <2>6. CASE rd' = rd /\ mem = Unloaded
    <3>1. rd.init = FALSE /\ mem' = disk
      BY <2>2, <2>3, <2>6 DEF Outbox, Loaded, RecordInv, ReaderInv, ColdReader
    <3> QED BY <2>1, <2>6, <3>1 DEF SeekInv
  <2>7. CASE s.saved /\ rd' = [init |-> TRUE, inode |-> 0, gen |-> s.gen, offset |-> s.offset]
    <3>1. rd'.init = TRUE /\ rd'.inode = 0 /\ rd'.gen = s.gen /\ rd'.offset = s.offset
      BY <2>7
    <3> QED BY <2>1, <2>3, <2>4, <2>7, <3>1 DEF SeekInv, CursorFits
  <2> QED BY <2>3, <2>5, <2>6, <2>7
<1> QED BY <1>1, <1>2, <1>3, <1>4, <1>5, StepKinds, SeekSource, SeekSave, SeekRead

-----------------------------------------------------------------------------
(* Nothing that has been written goes missing unreported.                   *)

LEMMA CoverFrame ==
    ASSUME NEW S, NEW T, NEW k, Covered(S, k), EventSet' = EventSet, written' = written,
           file'.lines = file.lines, Claimed \subseteq Claimed', S \subseteq Claimed \cup T, skipped \subseteq skipped'
    PROVE  Covered(T, k)'
  BY DEF Covered, After

LEMMA DeliveredFrame ==
    ASSUME NEW S, NEW T, Delivered(S), EventSet' = EventSet, snap' = snap,
           Claimed \subseteq Claimed', S \subseteq Claimed \cup T, skipped \subseteq skipped'
    PROVE  Delivered(T)'
  BY DEF Delivered

LEMMA CoverWrite ==
    ASSUME RecordInv, WriteLine, NEW S, NEW k \in Nat, k <= Len(file.lines), Covered(S, k),
           EventSet' = EventSet, Claimed' = Claimed, skipped' = skipped
    PROVE  Covered(S, k)'
<1>1. PICK l, m, w : l = file.lines /\ m = Append(file.lines, written + 1) /\ w = written
  OBVIOUS
<1>2. file'.lines = m /\ written' = w + 1
  BY <1>1 DEF WriteLine, RecordInv, SourceInv
<1>3. l \in Seq(Nat) /\ Len(l) \in Nat /\ w \in Nat
  BY <1>1 DEF RecordInv, SourceInv
<1>4. /\ m \in Seq(Nat) /\ Len(m) = Len(l) + 1 /\ m[Len(l) + 1] = w + 1
      /\ \A j \in 1 .. Len(l) : m[j] = l[j]
  BY <1>1, <1>3
<1>5. \A i \in DOMAIN l : i \in DOMAIN m /\ m[i] = l[i]
  BY <1>3, <1>4
<1>6. Len(l) + 1 \in DOMAIN m /\ Len(l) + 1 > k
  BY <1>1, <1>3, <1>4
<1>7. ASSUME NEW id \in EventSet, id[1] <= w + 1
      PROVE  id \in Claimed \/ id \in S \/ id[1] \in skipped \/ \E i \in DOMAIN m : i > k /\ m[i] = id[1]
  <2>1. id[1] \in Nat
    BY DEF EventSet, RecordInv, SourceInv
  <2>2. CASE id[1] <= w
    <3>1. id \in Claimed \/ id \in S \/ id[1] \in skipped \/ \E i \in DOMAIN l : i > k /\ l[i] = id[1]
      BY <1>1, <2>2 DEF Covered, After
    <3> QED BY <1>5, <3>1
  <2>3. CASE id[1] = w + 1
    BY <1>4, <1>6, <2>3
  <2> QED BY <1>3, <1>7, <2>1, <2>2, <2>3
<1> QED BY <1>2, <1>7 DEF Covered, After

\* What LostLines names is what neither the outbox nor the file has.
LEMMA LostCovers ==
    ASSUME NEW S, NEW o, o.pending \in Seq(S), o.quarantine \in Seq(S), RecordInv,
           NEW id \in EventSet, id[1] <= written
    PROVE  id \in Claimed \/ id \in HeldIds(o) \/ id[1] \in LostLines(o) \/ Readable(o, id[1])
<1>1. Holds(o, id) <=> id \in HeldIds(o)
  BY HoldsHeld
<1>2. id[1] \in 1 .. written
  BY DEF EventSet, RecordInv, SourceInv
<1> QED BY <1>1, <1>2 DEF LostLines, Claimed

LEMMA CrashCovers ==
    ASSUME RecordInv, Crash, EventSet' = EventSet, Claimed' = Claimed, disk.saved, disk.gen = file.gen
    PROVE  Covered(HeldIds(disk), disk.offset)'
<1>1. UNCHANGED <<file, disk, written>> /\ skipped' = skipped \cup LostLines(disk)
  BY DEF Crash, sourceVars
<1>2. PICK D, k : D = HeldIds(disk) /\ k = disk.offset
  OBVIOUS
<1>3. D = HeldIds(disk)' /\ k = disk'.offset
  BY <1>1, <1>2
<1>4. ASSUME NEW id \in EventSet, id[1] <= written
      PROVE  id \in Claimed \/ id \in D \/ id[1] \in skipped' \/ After(id[1], k)
  <2>1. id \in Claimed \/ id \in D \/ id[1] \in LostLines(disk) \/ Readable(disk, id[1])
    BY <1>2, <1>4, LostCovers DEF RecordInv, OutboxInv, OutboxType
  <2>2. ASSUME Readable(disk, id[1]) PROVE After(id[1], k)
    <3>1. disk.inode = file.inode /\ disk.offset <= Len(file.lines) /\ disk.offset \in Nat /\ Len(file.lines) \in Nat
      BY DEF RecordInv, OutboxInv, OutboxType, CursorFits, SourceInv
    <3> QED BY <1>2, <2>2, <3>1 DEF Readable, After
  <2> QED BY <1>1, <2>1, <2>2
<1> QED BY <1>1, <1>3, <1>4 DEF Covered, After

LEMMA ObserveCovers ==
    ASSUME RecordInv, SeekInv, ObserveWindow, EventSet' = EventSet, Claimed' = Claimed,
           poll.dirty = TRUE, rd.init, rd.gen = file.gen
    PROVE  Covered(HeldIds(mem), rd.offset)'
<1>1. UNCHANGED <<file, mem, rd, written>> /\ skipped' = skipped \cup LostLines(mem)
  BY DEF ObserveWindow, sourceVars
<1>2. PICK D, k : D = HeldIds(mem) /\ k = rd.offset
  OBVIOUS
<1>3. D = HeldIds(mem)' /\ k = rd'.offset
  BY <1>1, <1>2
<1>4. ASSUME NEW id \in EventSet, id[1] <= written
      PROVE  id \in Claimed \/ id \in D \/ id[1] \in skipped' \/ After(id[1], k)
  <2>1. id \in Claimed \/ id \in D \/ id[1] \in LostLines(mem) \/ Readable(mem, id[1])
    BY <1>2, <1>4, LostCovers DEF RecordInv, OutboxInv, OutboxType
  <2>2. ASSUME Readable(mem, id[1]) PROVE id[1] \in skipped' \/ After(id[1], k)
    <3>1. PICK i \in DOMAIN file.lines : /\ file.lines[i] = id[1]
                                         /\ \/ ~ mem.saved \/ mem.inode # file.inode
                                            \/ i > mem.offset \/ mem.offset > Len(file.lines)
      BY <2>2 DEF Readable
    <3>2. i \in Nat /\ rd.offset \in Nat /\ mem.offset \in Nat /\ file.gen # 0 /\ Len(file.lines) \in Nat
      <4>1. file.lines \in Seq(1 .. written) /\ file.gen # 0
        BY DEF RecordInv, SourceInv
      <4>2. rd.offset \in Nat /\ mem.offset \in Nat
        BY DEF RecordInv, ReaderInv, OutboxInv, OutboxType
      <4> QED BY <4>1, <4>2
    <3>3. CASE mem.gen = file.gen
      <4>1. mem.saved /\ mem.inode = file.inode /\ mem.offset <= Len(file.lines) /\ rd.offset = mem.offset
        BY <3>2, <3>3 DEF RecordInv, ReaderInv, OutboxInv, OutboxType, CursorFits
      <4> QED BY <1>2, <3>1, <3>2, <4>1 DEF After
    <3>4. CASE mem.gen # file.gen
      BY <1>1, <1>2, <3>1, <3>2, <3>4 DEF SeekInv, After
    <3> QED BY <3>3, <3>4
  <2> QED BY <1>1, <2>1, <2>2
<1> QED BY <1>1, <1>3, <1>4 DEF Covered, After

\* Asking Core changes neither the verdict on the window nor the point in the poll.
LEMMA AskingKeeps ==
    ASSUME RecordInv, EnterFlush \/ (\E s \in Slots : Post(s)) \/ KeepUnsent \/ Answered \/ TimesOut \/ EndStage
    PROVE  /\ poll'.from = poll.from /\ poll'.dirty = poll.dirty
           /\ poll.pc \in {"flush", "post", "wait"} /\ poll'.pc \in {"flushed", "post", "wait", "save"}
           /\ UNCHANGED <<skipped, snap>>
<1>1. DOMAIN poll = PollFields
  BY DEF RecordInv, PollInv
<1>2. CASE EnterFlush
  BY <1>1, <1>2 DEF EnterFlush, PollFields
<1>3. CASE (\E s \in Slots : Post(s)) \/ KeepUnsent
  BY <1>1, <1>3 DEF Post, KeepUnsent, PollFields
<1>4. CASE EndStage
  BY <1>1, <1>4 DEF EndStage, PollFields
<1>5. CASE Answered \/ TimesOut
  <2>1. PICK status : poll' = AfterAnswer(status) /\ poll.pc = "wait"
    BY <1>5 DEF Answered, TimesOut
  <2>2. UNCHANGED <<skipped, snap>>
    BY <1>5 DEF Answered, TimesOut
  <2>3. PICK batch, w : batch = Head(poll.work) /\ w = Tail(poll.work)
    OBVIOUS
  <2>4. PICK r : r = [poll EXCEPT !.pc = "post", !.work = w, !.slot = 0]
    OBVIOUS
  <2>5. DOMAIN r = PollFields /\ r.pc = "post" /\ r.from = poll.from /\ r.dirty = poll.dirty
    BY <1>1, <2>4 DEF PollFields
  <2>6. \/ poll' = r
        \/ poll' = [r EXCEPT !.rejected = @ \o batch]
        \/ poll' = [r EXCEPT !.work = Halves(batch) \o @]
        \/ poll' = [r EXCEPT !.retry = @ \o batch, !.blocked = TRUE, !.err = TRUE]
    BY <2>1, <2>3, <2>4 DEF AfterAnswer
  <2>7. poll'.pc = "post" /\ poll'.from = poll.from /\ poll'.dirty = poll.dirty
    BY <2>5, <2>6 DEF PollFields
  <2> QED BY <2>1, <2>2, <2>7
<1> QED BY <1>2, <1>3, <1>4, <1>5

\* After each flush of a poll: it goes on, or starts the last flush, or ends.
LEMMA AfterFlushKeeps ==
    ASSUME RecordInv, poll.dirty \in BOOLEAN, AfterFlush
    PROVE  /\ poll.pc = "flushed" /\ poll'.dirty \in BOOLEAN /\ UNCHANGED <<skipped, snap>>
           /\ poll'.dirty = FALSE => poll.dirty = FALSE
           /\ \/ poll.from = "start" /\ poll'.pc = "flush" /\ poll'.dirty = TRUE
              \/ poll.from = "start" /\ poll'.pc = "read" /\ poll'.from = "start"
              \/ poll.from = "read" /\ poll'.pc = "flush"
              \/ /\ poll.from = "final" /\ poll'.pc = "observe" /\ poll'.from = "final"
                 /\ poll'.dirty = FALSE => mem.pending \o mem.quarantine = <<>>
<1>1. DOMAIN poll = PollFields /\ poll.from \in {"start", "read", "final"} /\ poll.pc = "flushed"
  BY DEF RecordInv, PollInv, Froms, AfterFlush
<1>2. UNCHANGED <<skipped, snap>>
  BY DEF AfterFlush
<1>3. CASE poll.from = "start"
  <2>1. \/ poll' = [poll EXCEPT !.pc = "flush", !.from = "final", !.dirty = TRUE]
        \/ poll' = [poll EXCEPT !.pc = "read"]
    BY <1>3 DEF AfterFlush
  <2> QED BY <1>1, <1>2, <1>3, <2>1 DEF PollFields
<1>4. CASE poll.from = "read"
  <2>1. PICK d : d = (poll.dirty \/ poll.err)
    OBVIOUS
  <2>2. poll' = [poll EXCEPT !.pc = "flush", !.from = "final", !.dirty = d]
    BY <1>4, <2>1 DEF AfterFlush
  <2>3. poll'.pc = "flush" /\ poll'.dirty = d
    BY <1>1, <2>2 DEF PollFields
  <2>4. d \in BOOLEAN /\ (d = FALSE => poll.dirty = FALSE)
    BY <2>1, Zenon
  <2> QED BY <1>1, <1>2, <1>4, <2>3, <2>4
<1>5. CASE poll.from = "final"
  <2>1. PICK h : h = (mem.pending \o mem.quarantine # <<>> \/ poll.blocked)
    OBVIOUS
  <2>2. PICK d : d = (poll.dirty \/ poll.err \/ h)
    OBVIOUS
  <2>3. PICK e : e = (poll.report \/ h)
    OBVIOUS
  <2>4. poll' = [poll EXCEPT !.pc = "observe", !.dirty = d, !.report = e]
    BY <1>5, <2>1, <2>2, <2>3 DEF AfterFlush
  <2>5. poll'.pc = "observe" /\ poll'.dirty = d /\ poll'.from = "final"
    BY <1>1, <1>5, <2>4 DEF PollFields
  <2>6. d \in BOOLEAN /\ (d = FALSE => poll.dirty = FALSE) /\ (d = FALSE => ~ h)
    BY <2>2, Zenon
  <2>7. ~ h => mem.pending \o mem.quarantine = <<>>
    BY <2>1
  <2> QED BY <1>1, <1>2, <1>5, <2>5, <2>6, <2>7
<1> QED BY <1>1, <1>3, <1>4, <1>5

\* A read: whatever has been written by then is claimed, held, or reported.
LEMMA ReadDelivers ==
    ASSUME RecordInv, TellInv, SeekInv, CoverInv, WindowInv, EventSet' = EventSet, Claimed' = Claimed,
           SkipHistory \/ \E uid \in PodUIDs : ReadFile(uid), poll'.dirty = FALSE
    PROVE  Delivered(HeldIds(poll.next))' /\ Covered(HeldIds(poll.next), poll.next.offset)'
<1>1. snap' = written /\ written' = written /\ skipped \subseteq skipped' /\ poll.pc = "read"
  BY DEF SkipHistory, ReadFile, sourceVars
<1>2. PICK T : T = HeldIds(poll'.next)
  OBVIOUS
<1>3. ASSUME NEW id \in EventSet, id[1] <= written PROVE id \in Claimed \/ id \in T \/ id[1] \in skipped'
  <2>1. id[1] \in 1 .. written
    BY <1>3 DEF EventSet, RecordInv, SourceInv
  <2>2. CASE 1 .. written \subseteq skipped'
    BY <2>1, <2>2
  <2>3. CASE \E uid \in PodUIDs : ReadFile(uid) /\ rd.init
    <3>1. PICK uid \in PodUIDs : ReadFile(uid)
      BY <2>3
    <3>2. poll.dirty \in BOOLEAN
      BY DEF WindowInv
    <3>3. /\ poll.dirty = FALSE /\ rd.gen = file.gen /\ poll'.next.quarantine = mem.quarantine
          /\ After(id[1], rd.offset) => id \in Ids(poll'.next.pending)
      BY <2>3, <3>1, <3>2, CleanRead
    <3>4. mem # Unloaded /\ Ids(mem.pending) = {}
      <4>1. mem.pending = <<>> /\ mem # Unloaded
        BY <1>1, Busy DEF RecordInv, PollInv
      <4> QED BY <4>1, NothingHeld
    <3>5. Covered(HeldIds(mem), rd.offset)
      BY <1>1, <2>3, <3>3, <3>4 DEF CoverInv
    <3>6. id \in Claimed \/ id \in HeldIds(mem) \/ id[1] \in skipped \/ After(id[1], rd.offset)
      BY <1>3, <3>5 DEF Covered
    <3> QED BY <1>1, <1>2, <3>3, <3>4, <3>6 DEF HeldIds
  <2>4. 1 .. written \subseteq skipped' \/ \E uid \in PodUIDs : ReadFile(uid) /\ rd.init
    BY DEF SkipHistory, ReadFile
  <2> QED BY <2>2, <2>3, <2>4
<1>4. T = HeldIds(poll.next)'
  BY <1>2
<1> QED BY <1>1, <1>3, <1>4 DEF Delivered, Covered

LEMMA CoverNext ==
    ASSUME RecordInv, TellInv, SeekInv, BatchInv, HandInv, KeepInv, CoverInv, WindowInv, [Next]_vars
    PROVE  CoverInv'
<1>1. Claimed \subseteq Claimed' /\ EventSet' = EventSet
  BY ClaimNext DEF EventSet
<1>2. CASE \/ CoreStep \/ CoreFails \/ AnswerUnheard \/ LearnPod \/ ForgetPod \/ UNCHANGED vars
           \/ StartLine \/ RecreatePod
  <2>1. UNCHANGED <<disk, mem, rd, poll, skipped, written>>
    BY <1>2 DEF CoreStep, CoreFails, AnswerUnheard, LearnPod, ForgetPod, vars, sourceVars, agentVars,
                StartLine, RecreatePod
  <2>2. file'.lines = file.lines /\ file'.gen = file.gen
    BY <1>2 DEF CoreStep, CoreFails, AnswerUnheard, LearnPod, ForgetPod, vars, sourceVars,
                StartLine, RecreatePod, RecordInv, SourceInv
  <2>3. ASSUME NEW S, NEW k, Covered(S, k) PROVE Covered(S, k)'
    BY <1>1, <2>1, <2>2, <2>3, CoverFrame
  <2>4. PICK M, D, N, i, j, k : /\ M = HeldIds(mem) /\ D = HeldIds(disk) /\ N = HeldIds(poll.next)
                                /\ i = rd.offset /\ j = disk.offset /\ k = poll.next.offset
    OBVIOUS
  <2>5. /\ M = HeldIds(mem)' /\ D = HeldIds(disk)' /\ N = HeldIds(poll.next)'
        /\ i = rd'.offset /\ j = disk'.offset /\ k = poll'.next.offset
    BY <2>1, <2>4
  <2>6. /\ Covered(M, i) => Covered(HeldIds(mem), rd.offset)'
        /\ Covered(D, j) => Covered(HeldIds(disk), disk.offset)'
        /\ Covered(N, k) => Covered(HeldIds(poll.next), poll.next.offset)'
    <3>1. /\ Covered(M, i) => Covered(M, i)'
          /\ Covered(D, j) => Covered(D, j)'
          /\ Covered(N, k) => Covered(N, k)'
      BY <2>3
    <3> QED BY <2>5, <3>1 DEF Covered
  <2> QED BY <2>1, <2>2, <2>4, <2>6 DEF CoverInv
<1>3. CASE ReplaceFile
  <2>1. UNCHANGED <<disk, mem, rd, poll>> /\ file'.gen = file.gen + 1
    BY <1>3 DEF ReplaceFile, agentVars
  <2>2. rd.gen # file'.gen /\ disk.gen # file'.gen
    BY <2>1 DEF SeekInv, RecordInv, SourceInv, OutboxInv, OutboxType, ReaderInv, CursorFits
  <2> QED BY <2>1, <2>2 DEF CoverInv
<1>4. CASE WriteLine
  <2>1. UNCHANGED <<disk, mem, rd, poll, skipped>> /\ Claimed' = Claimed /\ file'.gen = file.gen
    BY <1>4 DEF WriteLine, agentVars, ingestVars, Claimed, RecordInv, SourceInv
  <2>2. PICK M, D, N, i, j, k : /\ M = HeldIds(mem) /\ D = HeldIds(disk) /\ N = HeldIds(poll.next)
                                /\ i = rd.offset /\ j = disk.offset /\ k = poll.next.offset
    OBVIOUS
  <2>3. /\ M = HeldIds(mem)' /\ D = HeldIds(disk)' /\ N = HeldIds(poll.next)'
        /\ i = rd'.offset /\ j = disk'.offset /\ k = poll'.next.offset
    BY <2>1, <2>2
  <2>4. ASSUME NEW S, NEW n \in Nat, n <= Len(file.lines), Covered(S, n) PROVE Covered(S, n)'
    BY <1>1, <1>4, <2>1, <2>4, CoverWrite
  <2>5. ASSUME rd.init, rd.gen = file.gen, Covered(M, i) PROVE Covered(HeldIds(mem), rd.offset)'
    <3>1. i \in Nat /\ i <= Len(file.lines)
      BY <2>2, <2>5 DEF SeekInv, RecordInv, ReaderInv
    <3>2. Covered(M, i)'
      BY <2>4, <2>5, <3>1
    <3> QED BY <2>3, <3>2 DEF Covered
  <2>6. ASSUME disk.gen = file.gen, Covered(D, j) PROVE Covered(HeldIds(disk), disk.offset)'
    <3>1. j \in Nat /\ j <= Len(file.lines)
      BY <2>2, <2>6 DEF RecordInv, OutboxInv, OutboxType, CursorFits
    <3>2. Covered(D, j)'
      BY <2>4, <2>6, <3>1
    <3> QED BY <2>3, <3>2 DEF Covered
  <2>7. ASSUME poll.pc = "checkpoint", rd.gen = file.gen, Covered(N, k)
        PROVE  Covered(HeldIds(poll.next), poll.next.offset)'
    <3>1. k \in Nat /\ k <= Len(file.lines)
      BY <2>2, <2>7 DEF RecordInv, CheckpointInv, OutboxType, CursorFits
    <3>2. Covered(N, k)'
      BY <2>4, <2>7, <3>1
    <3> QED BY <2>3, <3>2 DEF Covered
  <2> QED BY <2>1, <2>2, <2>5, <2>6, <2>7 DEF CoverInv
<1>5. ASSUME mem' # Unloaded, poll'.pc # "checkpoint", UNCHANGED <<file, rd, written>>,
             mem # Unloaded, poll.pc # "checkpoint", poll'.dirty = FALSE => poll.dirty = FALSE,
             HeldIds(mem) \subseteq Claimed \cup HeldIds(mem)', skipped \subseteq skipped'
      PROVE  CoverInv'
  <2>1. PICK M, T, k : M = HeldIds(mem) /\ T = HeldIds(mem)' /\ k = rd.offset
    OBVIOUS
  <2>2. Covered(M, k) => Covered(T, k)'
    BY <1>1, <1>5, <2>1, CoverFrame
  <2>3. Covered(T, k)' => Covered(HeldIds(mem), rd.offset)'
    BY <1>5, <2>1 DEF Covered
  <2> QED BY <1>5, <2>1, <2>2, <2>3 DEF CoverInv
<1>6. CASE EnterFlush \/ (\E s \in Slots : Post(s)) \/ KeepUnsent \/ Answered \/ TimesOut \/ EndStage \/ AfterFlush
  <2>1. UNCHANGED <<file, rd, mem, written>> /\ poll'.pc # "checkpoint"
    BY <1>6, SteadyEffect DEF Steady, sourceVars
  <2>2. poll.dirty \in BOOLEAN
    BY DEF WindowInv
  <2>3. /\ poll.pc \in {"flush", "post", "wait", "flushed"} /\ UNCHANGED skipped
        /\ poll'.dirty = FALSE => poll.dirty = FALSE
    BY <1>6, <2>2, AskingKeeps, AfterFlushKeeps
  <2>4. mem # Unloaded /\ HeldIds(mem)' = HeldIds(mem)
    BY <2>1, <2>3, Busy
  <2> QED BY <1>5, <2>1, <2>3, <2>4
<1>7. CASE SaveFlush
  <2>1. /\ UNCHANGED <<file, rd, written, skipped>> /\ poll'.pc # "checkpoint" /\ mem # Unloaded /\ mem' # Unloaded
        /\ poll.pc # "checkpoint" /\ (mem' = mem \/ mem' = poll.next)
    BY <1>7, SaveEffect DEF SaveFlush, sourceVars
  <2>2. poll'.dirty = poll.dirty
    BY <1>7 DEF SaveFlush, FlushEnds, RecordInv, PollInv, PollFields
  <2>3. HeldIds(mem) \subseteq Claimed \cup HeldIds(mem)'
    <3>1. HeldIds(mem) \subseteq Claimed \cup HeldIds(poll.next)
      BY <1>7, SavedEvents DEF Loses
    <3>2. CASE mem' = mem
      BY <3>2
    <3>3. CASE mem' = poll.next
      <4>1. HeldIds(mem)' = HeldIds(poll.next)
        BY <3>3
      <4> QED BY <3>1, <4>1
    <3> QED BY <2>1, <3>2, <3>3
  <2> QED BY <1>5, <2>1, <2>2, <2>3
<1>8. CASE ObserveWindow
  <2>1. /\ UNCHANGED <<file, rd, mem, written>> /\ poll' = Idle /\ poll.pc = "observe" /\ Claimed' = Claimed
        /\ skipped \subseteq skipped'
    BY <1>8 DEF ObserveWindow, sourceVars, ingestVars, Claimed
  <2>2. poll'.pc = "idle" /\ mem # Unloaded
    BY <2>1, Busy DEF Idle
  <2>3. CASE poll.dirty = FALSE
    <3>1. HeldIds(mem)' = HeldIds(mem)
      BY <2>1
    <3> QED BY <1>5, <2>1, <2>2, <2>3, <3>1
  <2>4. CASE poll.dirty = TRUE
    <3>1. rd.init /\ rd.gen = file.gen => Covered(HeldIds(mem), rd.offset)'
      BY <1>1, <1>8, <2>1, <2>4, ObserveCovers
    <3> QED BY <2>1, <2>2, <3>1 DEF CoverInv
  <2> QED BY <2>3, <2>4 DEF WindowInv
<1>9. CASE Checkpoint
  <2>1. /\ UNCHANGED <<file, written, skipped>> /\ poll'.pc = "flush" /\ poll.pc = "checkpoint" /\ mem' # Unloaded
    BY <1>9, SaveEffect DEF Checkpoint, sourceVars, RecordInv, PollInv, PollFields
  <2>2. \/ poll'.dirty = TRUE
        \/ mem' = poll.next /\ rd' = [rd EXCEPT !.offset = poll.next.offset] /\ poll'.dirty = poll.dirty
    BY <1>9 DEF Checkpoint, SaveDone, RecordInv, PollInv, PollFields
  <2>3. CASE poll'.dirty = TRUE
    BY <2>1, <2>3 DEF CoverInv
  <2>4. CASE mem' = poll.next /\ rd' = [rd EXCEPT !.offset = poll.next.offset] /\ poll'.dirty = poll.dirty
    <3>1. rd'.gen = rd.gen /\ rd'.offset = poll.next.offset
      BY <2>4 DEF RecordInv, ReaderInv
    <3>2. PICK T, k : T = HeldIds(poll.next) /\ k = poll.next.offset
      OBVIOUS
    <3>3. T = HeldIds(mem)' /\ k = rd'.offset
      BY <2>4, <3>1, <3>2
    <3>4. Covered(T, k) => Covered(T, k)'
      BY <1>1, <2>1, CoverFrame
    <3>5. Covered(T, k)' => Covered(HeldIds(mem), rd.offset)'
      BY <3>3 DEF Covered
    <3> QED BY <2>1, <2>4, <3>1, <3>2, <3>4, <3>5 DEF CoverInv
  <2> QED BY <2>2, <2>3, <2>4
<1>10. CASE SkipHistory \/ \E uid \in PodUIDs : ReadFile(uid)
  <2>1. poll'.pc = "checkpoint" /\ mem' = mem /\ Claimed' = Claimed /\ poll.pc = "read"
    BY <1>10, ReadEffect DEF SkipHistory, ReadFile, ingestVars, Claimed, ReadTo
  <2>2. mem # Unloaded
    BY <2>1, Busy
  <2>3. poll'.dirty = FALSE => Covered(HeldIds(poll.next), poll.next.offset)'
    BY <1>1, <1>10, <2>1, ReadDelivers
  <2> QED BY <2>1, <2>2, <2>3 DEF CoverInv
<1>11. CASE ReadFails
  <2>1. poll'.dirty = TRUE /\ poll'.pc = "flush" /\ mem' = mem /\ poll.pc = "read"
    BY <1>11 DEF ReadFails, RecordInv, PollInv, PollFields
  <2>2. mem # Unloaded
    BY <2>1, Busy
  <2> QED BY <2>1, <2>2 DEF CoverInv
<1>12. CASE Crash
  <2>1. mem' = Unloaded /\ UNCHANGED <<file, disk>> /\ Claimed' = Claimed /\ poll' = Idle
    BY <1>12 DEF Crash, sourceVars, ingestVars, Claimed
  <2>2. poll'.pc = "idle"
    BY <2>1 DEF Idle
  <2>3. disk.saved /\ disk.gen = file.gen => Covered(HeldIds(disk), disk.offset)'
    BY <1>1, <1>12, <2>1, CrashCovers
  <2> QED BY <2>1, <2>2, <2>3 DEF CoverInv
<1>13. ASSUME NEW early \in BOOLEAN, NEW due \in BOOLEAN, StartPoll(early, due) PROVE CoverInv'
  <2>1. /\ poll'.pc = "flush" /\ UNCHANGED <<file, disk, skipped, written>> /\ poll.pc = "idle"
    BY <1>13 DEF StartPoll, Idle, sourceVars
  <2>2. poll.dirty = FALSE
    BY <2>1 DEF WindowInv
  <2>3. disk # Unloaded
    BY DEF RecordInv, OutboxInv, Unloaded, EmptyOutbox
  <2>4. CASE mem # Unloaded
    <3>1. mem' = mem /\ rd' = rd
      BY <1>13, <2>4 DEF StartPoll, Loaded, RecordInv, ReaderInv
    <3>2. HeldIds(mem)' = HeldIds(mem)
      BY <3>1
    <3> QED BY <1>5, <2>1, <2>2, <2>4, <3>1, <3>2
  <2>5. CASE mem = Unloaded
    <3>1. mem' = disk /\ rd = ColdReader
      BY <1>13, <2>5 DEF StartPoll, Loaded, RecordInv, ReaderInv
    <3>2. CASE ~ disk.saved
      <4>1. rd' = rd
        BY <1>13, <2>5, <3>2 DEF StartPoll, Loaded
      <4>2. rd'.init = FALSE
        BY <3>1, <4>1 DEF ColdReader
      <4> QED BY <2>1, <2>3, <3>1, <4>2 DEF CoverInv
    <3>3. CASE disk.saved
      <4>1. rd' = [init |-> TRUE, inode |-> 0, gen |-> disk.gen, offset |-> disk.offset]
        BY <1>13, <2>5, <3>1, <3>3 DEF StartPoll, Loaded, ColdReader
      <4>2. rd'.gen = disk.gen /\ rd'.offset = disk.offset
        BY <4>1
      <4>3. PICK T, k : T = HeldIds(disk) /\ k = disk.offset
        OBVIOUS
      <4>4. T = HeldIds(mem)' /\ k = rd'.offset
        BY <3>1, <4>2, <4>3
      <4>5. Covered(T, k) => Covered(T, k)'
        BY <1>1, <2>1, CoverFrame
      <4>6. Covered(T, k)' => Covered(HeldIds(mem), rd.offset)'
        BY <4>4 DEF Covered
      <4> QED BY <2>1, <2>3, <2>5, <3>1, <3>3, <4>2, <4>3, <4>5, <4>6 DEF CoverInv
    <3> QED BY <3>2, <3>3
  <2> QED BY <2>4, <2>5
<1> QED BY <1>2, <1>3, <1>4, <1>6, <1>7, <1>8, <1>9, <1>10, <1>11, <1>12, <1>13, StepKinds DEF Steady

LEMMA WindowNext ==
    ASSUME RecordInv, TellInv, SeekInv, BatchInv, HandInv, KeepInv, CoverInv, WindowInv, [Next]_vars
    PROVE  WindowInv'
<1>1. Claimed \subseteq Claimed' /\ EventSet' = EventSet
  BY ClaimNext DEF EventSet
<1>2. snap \in Nat /\ snap <= written /\ poll.dirty \in BOOLEAN /\ written \in Nat /\ DOMAIN poll = PollFields
  BY DEF WindowInv, RecordInv, SourceInv, PollInv
<1>3. CASE \/ CoreStep \/ CoreFails \/ AnswerUnheard \/ LearnPod \/ ForgetPod \/ UNCHANGED vars
           \/ StartLine \/ RecreatePod \/ WriteLine \/ ReplaceFile
  <2>1. UNCHANGED <<mem, poll, skipped, snap>> /\ (written' = written \/ written' = written + 1)
    BY <1>3 DEF CoreStep, CoreFails, AnswerUnheard, LearnPod, ForgetPod, vars, sourceVars, agentVars,
                StartLine, RecreatePod, WriteLine, ReplaceFile
  <2>2. snap' \in Nat /\ snap' <= written'
    BY <1>2, <2>1
  <2>3. PICK M, N : M = HeldIds(mem) /\ N = HeldIds(poll.next)
    OBVIOUS
  <2>4. M = HeldIds(mem)' /\ N = HeldIds(poll.next)'
    BY <2>1, <2>3
  <2>5. (Delivered(M) => Delivered(M)') /\ (Delivered(N) => Delivered(N)')
    BY <1>1, <2>1, DeliveredFrame
  <2>6. /\ Delivered(M) => Delivered(HeldIds(mem))'
        /\ Delivered(N) => Delivered(HeldIds(poll.next))'
    BY <2>4, <2>5 DEF Delivered
  <2> QED BY <2>1, <2>2, <2>3, <2>6 DEF WindowInv
<1>4. ASSUME snap' = snap, written' = written, skipped' = skipped, poll'.dirty \in BOOLEAN,
             poll'.pc \notin {"idle", "checkpoint", "observe"},
             poll'.from # "start" /\ poll'.dirty = FALSE =>
                \E S : Delivered(S) /\ S \subseteq Claimed \cup HeldIds(mem)'
      PROVE  WindowInv'
  <2>1. ASSUME NEW S, Delivered(S), S \subseteq Claimed \cup HeldIds(mem)' PROVE Delivered(HeldIds(mem))'
    <3>1. PICK T : T = HeldIds(mem)'
      OBVIOUS
    <3>2. Delivered(T)'
      BY <1>1, <1>4, <2>1, <3>1, DeliveredFrame
    <3> QED BY <3>1, <3>2 DEF Delivered
  <2> QED BY <1>2, <1>4, <2>1 DEF WindowInv
<1>5. CASE EnterFlush \/ (\E s \in Slots : Post(s)) \/ KeepUnsent \/ Answered \/ TimesOut \/ EndStage
  <2>1. UNCHANGED <<mem, written>>
    BY <1>5, SteadyEffect DEF Steady, sourceVars
  <2>2. /\ poll'.from = poll.from /\ poll'.dirty = poll.dirty
        /\ poll.pc \in {"flush", "post", "wait"} /\ poll'.pc \in {"flushed", "post", "wait", "save"}
        /\ UNCHANGED <<skipped, snap>>
    BY <1>5, AskingKeeps
  <2>3. HeldIds(mem)' = HeldIds(mem)
    BY <2>1
  <2> QED BY <1>2, <1>4, <2>1, <2>2, <2>3 DEF WindowInv
<1>6. CASE AfterFlush
  <2>1. UNCHANGED <<mem, written>>
    BY <1>6, SteadyEffect DEF Steady, sourceVars
  <2>2. /\ poll.pc = "flushed" /\ poll'.dirty \in BOOLEAN /\ UNCHANGED <<skipped, snap>>
        /\ poll'.dirty = FALSE => poll.dirty = FALSE
        /\ \/ poll.from = "start" /\ poll'.pc = "flush" /\ poll'.dirty = TRUE
           \/ poll.from = "start" /\ poll'.pc = "read" /\ poll'.from = "start"
           \/ poll.from = "read" /\ poll'.pc = "flush"
           \/ /\ poll.from = "final" /\ poll'.pc = "observe" /\ poll'.from = "final"
              /\ poll'.dirty = FALSE => mem.pending \o mem.quarantine = <<>>
    BY <1>2, <1>6, AfterFlushKeeps
  <2>3. HeldIds(mem)' = HeldIds(mem)
    BY <2>1
  <2>4. CASE poll'.pc # "observe"
    BY <1>2, <1>4, <2>1, <2>2, <2>3, <2>4 DEF WindowInv
  <2>5. CASE poll'.pc = "observe"
    <3>1. poll'.dirty = FALSE => mem.pending = <<>> /\ mem.quarantine = <<>>
      <4>1. PICK a, b : a = mem.pending /\ b = mem.quarantine
        OBVIOUS
      <4>2. a \in Seq(Events) /\ b \in Seq(Events)
        BY <4>1 DEF RecordInv, OutboxInv, OutboxType
      <4>3. ASSUME a \o b = <<>> PROVE a = <<>> /\ b = <<>>
        <5>1. Len(a) + Len(b) = 0
          BY <4>2, <4>3
        <5> QED BY <4>2, <5>1
      <4> QED BY <2>2, <2>5, <4>1, <4>3
    <3>2. poll'.dirty = FALSE => Delivered(HeldIds(mem))
      BY <2>2, <2>5 DEF WindowInv
    <3>3. PICK M : M = HeldIds(mem)
      OBVIOUS
    <3>4. Delivered(M) => Delivered(M)'
      BY <1>1, <2>2, DeliveredFrame
    <3>5. Delivered(M)' => Delivered(HeldIds(mem))'
      BY <2>3, <3>3 DEF Delivered
    <3> QED BY <1>2, <2>1, <2>2, <2>5, <3>1, <3>2, <3>3, <3>4, <3>5 DEF WindowInv
  <2> QED BY <2>4, <2>5
<1>7. CASE SaveFlush
  <2>1. /\ UNCHANGED <<written, skipped, snap>> /\ poll.pc = "save" /\ (mem' = mem \/ mem' = poll.next)
    BY <1>7, SaveEffect DEF SaveFlush, sourceVars
  <2>2. poll'.dirty = poll.dirty /\ poll'.from = poll.from /\ poll'.pc = "flushed"
    BY <1>2, <1>7 DEF SaveFlush, FlushEnds, PollFields
  <2>3. HeldIds(mem) \subseteq Claimed \cup HeldIds(mem)'
    <3>1. HeldIds(mem) \subseteq Claimed \cup HeldIds(poll.next)
      BY <1>7, SavedEvents DEF Loses
    <3>2. CASE mem' = mem
      BY <3>2
    <3>3. CASE mem' = poll.next
      <4>1. HeldIds(mem)' = HeldIds(poll.next)
        BY <3>3
      <4> QED BY <3>1, <4>1
    <3> QED BY <2>1, <3>2, <3>3
  <2> QED BY <1>2, <1>4, <2>1, <2>2, <2>3 DEF WindowInv
<1>8. CASE Checkpoint
  <2>1. UNCHANGED <<written, skipped, snap>> /\ poll.pc = "checkpoint"
    BY <1>8 DEF Checkpoint, sourceVars
  <2>2. /\ poll'.pc = "flush"
        /\ poll'.dirty = TRUE \/ (mem' = poll.next /\ poll'.dirty = poll.dirty)
    BY <1>2, <1>8 DEF Checkpoint, SaveDone, PollFields
  <2>3. mem' = poll.next => HeldIds(mem)' = HeldIds(poll.next)
    OBVIOUS
  <2> QED BY <1>2, <1>4, <2>1, <2>2, <2>3 DEF WindowInv
<1>9. CASE SkipHistory \/ \E uid \in PodUIDs : ReadFile(uid)
  <2>1. poll'.pc = "checkpoint" /\ Claimed' = Claimed /\ snap' = written /\ written' = written
    BY <1>9, ReadEffect DEF SkipHistory, ReadFile, ingestVars, Claimed, ReadTo, sourceVars
  <2>2. poll'.dirty = FALSE => Delivered(HeldIds(poll.next))'
    BY <1>1, <1>9, <2>1, ReadDelivers
  <2>3. poll'.dirty \in BOOLEAN
    <3>1. CASE SkipHistory
      BY <1>2, <3>1 DEF SkipHistory, PollFields
    <3>2. ASSUME NEW uid \in PodUIDs, ReadFile(uid) PROVE poll'.dirty \in BOOLEAN
      <4>1. \E d \in BOOLEAN : \E n : poll' = [poll EXCEPT !.pc = "checkpoint", !.dirty = d, !.next = n]
        BY <3>2 DEF ReadFile
      <4> QED BY <1>2, <4>1 DEF PollFields
    <3> QED BY <1>9, <3>1, <3>2
  <2> QED BY <1>2, <2>1, <2>2, <2>3 DEF WindowInv
<1>10. CASE ReadFails
  <2>1. UNCHANGED <<mem, written, skipped, snap>> /\ poll'.dirty = TRUE /\ poll'.pc = "flush"
    BY <1>2, <1>10 DEF ReadFails, PollFields, sourceVars
  <2> QED BY <1>4, <2>1
<1>11. CASE ObserveWindow \/ Crash
  <2>1. UNCHANGED <<written, snap>> /\ poll' = Idle
    BY <1>11 DEF ObserveWindow, Crash, sourceVars
  <2>2. poll'.pc = "idle" /\ poll'.dirty = FALSE
    BY <2>1 DEF Idle
  <2> QED BY <1>2, <2>1, <2>2 DEF WindowInv
<1>12. ASSUME NEW early \in BOOLEAN, NEW due \in BOOLEAN, StartPoll(early, due) PROVE WindowInv'
  <2>1. /\ UNCHANGED <<written, skipped, snap>>
        /\ poll'.pc = "flush" /\ poll'.from = "start" /\ poll'.dirty = FALSE
    BY <1>12 DEF StartPoll, Idle, sourceVars
  <2> QED BY <1>4, <2>1
<1> QED BY <1>3, <1>5, <1>6, <1>7, <1>8, <1>9, <1>10, <1>11, <1>12, StepKinds DEF Steady

LEMMA WindowInit == ASSUME Init PROVE SeekInv /\ CoverInv /\ WindowInv
<1>1. /\ file.gen = 1 /\ disk = EmptyOutbox /\ mem = Unloaded /\ rd = ColdReader /\ snap = 0 /\ written = 0
      /\ poll.pc = "idle" /\ poll.dirty = FALSE
  BY DEF Init, Idle
<1>2. rd.init = FALSE /\ rd.gen = 0 /\ disk.saved = FALSE /\ mem.saved = FALSE
  BY <1>1 DEF ColdReader, EmptyOutbox, Unloaded
<1>3. SeekInv
  BY <1>1, <1>2 DEF SeekInv
<1>4. CoverInv
  BY <1>1, <1>2 DEF CoverInv
<1>5. WindowInv
  <2>1. 0 \in Nat /\ 0 <= 0
    OBVIOUS
  <2> QED BY <1>1, <2>1 DEF WindowInv
<1> QED BY <1>3, <1>4, <1>5

\* A complete window means what it says (CompleteWindowIsDelivered): when a poll reports its window
\* complete, Core has applied every event written before the poll read the file, unless an earlier
\* window or session reported its line.  What a flush, a failed save, a crash, a rotation or a line
\* that cannot be parsed leaves out makes the window incomplete.  The hypothesis is the one of
\* DeliveryTheorem.
THEOREM CompleteWindowTheorem ==
    ASSUME ~ RegrowPastCursor
    PROVE  Spec => []CompleteWindowIsDelivered
<1>1. Init => TellInv /\ BatchInv /\ HandInv /\ KeepInv /\ SaveInv /\ SeekInv /\ CoverInv /\ WindowInv
  BY DeliveryInit, WindowInit
<1>2. RecordInv /\ TellInv /\ [Next]_vars => TellInv'
  BY TellNext
<1>3. RecordInv /\ BatchInv /\ [Next]_vars => BatchInv'
  BY ClaimNext
<1>4. RecordInv /\ SaveInv /\ BatchInv /\ HandInv /\ [Next]_vars => HandInv'
  BY HandNext
<1>5. RecordInv /\ BatchInv /\ HandInv /\ KeepInv /\ [Next]_vars => KeepInv'
  BY KeepNext
<1>6. RecordInv /\ TellInv /\ SeekInv /\ [Next]_vars => SeekInv'
  BY SeekNext
<1>7. RecordInv /\ TellInv /\ SeekInv /\ BatchInv /\ HandInv /\ KeepInv /\ CoverInv /\ WindowInv
         /\ [Next]_vars => CoverInv' /\ WindowInv'
  BY CoverNext, WindowNext
<1>8. WindowInv => CompleteWindowIsDelivered
  <2>1. SUFFICES ASSUME WindowInv, poll.pc = "observe", ~ poll.dirty, NEW id \in EventSet, id[1] <= snap
                 PROVE  id \in Claimed \/ id[1] \in skipped
    BY DEF CompleteWindowIsDelivered, Claimed
  <2>2. poll.dirty = FALSE /\ poll.from = "final" /\ mem.pending = <<>> /\ mem.quarantine = <<>>
    BY <2>1 DEF WindowInv
  <2>3. Delivered(HeldIds(mem))
    BY <2>1, <2>2 DEF WindowInv
  <2>4. HeldIds(mem) = {}
    BY <2>2, NothingHeld DEF HeldIds
  <2> QED BY <2>1, <2>3, <2>4 DEF Delivered
<1> QED BY <1>1, <1>2, <1>3, <1>4, <1>5, <1>6, <1>7, <1>8, RecordAlways, SaveNext, PTL DEF Spec
=============================================================================
