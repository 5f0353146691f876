------------------------ MODULE AgentReaders_proofs ------------------------
(***************************************************************************)
(* Proofs about two parts of the Agent that share no state and keep their   *)
(* evidence in memory only: the readers of runtime event files              *)
(* (RuntimeFileReader), for every source, number of requests in Core and    *)
(* bound, and the collector of Kubernetes Events (PodEvents), for every set *)
(* of events, batch size, queue size, budget and bound.                     *)
(***************************************************************************)
EXTENDS RuntimeFileReader, PodEvents, WellFoundedInduction, SequenceTheorems, TLAPS

-----------------------------------------------------------------------------
(* FlattenSeq, by the least counterexample to what is claimed.              *)

LEMMA NatMin == ASSUME NEW S, \A x \in S : x \in Nat, S # {}
                PROVE  \E x \in S : \A y \in S : x <= y
  <1>1. PICK R : R = OpToRel(<, Nat)
    OBVIOUS
  <1>2. IsWellFoundedOn(R, Nat)
    BY <1>1, NatLessThanWellFounded
  <1>3. \A x, y \in Nat : x < y => <<x, y>> \in R
    BY <1>1 DEF OpToRel
  <1>4. S \subseteq Nat
    OBVIOUS
  <1>5. PICK x \in S : \A y \in S : ~ (<<y, x>> \in R)
    BY <1>2, <1>4, WFMin
  <1>6. \A y \in S : x <= y
    <2> SUFFICES ASSUME NEW y \in S PROVE x <= y
      OBVIOUS
    <2>1. x \in Nat /\ y \in Nat
      BY <1>4
    <2>2. ~ (y < x)
      BY <1>3, <1>5, <2>1
    <2> QED BY <2>1, <2>2
  <1> QED BY <1>6

Flat(f, ss, n) == /\ f = [i \in 1 .. n |-> f[i]]
                  /\ \A i \in 1 .. n : f[i] = IF i = 1 THEN ss[i] ELSE f[i - 1] \o ss[i]

LEMMA FlatTyped ==
    ASSUME NEW S, NEW ss \in Seq(Seq(S)), NEW f, Flat(f, ss, Len(ss))
    PROVE  \A i \in 1 .. Len(ss) : f[i] \in Seq(S)
<1>1. PICK B : B = {i \in 1 .. Len(ss) : f[i] \notin Seq(S)}
  OBVIOUS
<1>2. SUFFICES ASSUME B # {} PROVE FALSE
  BY <1>1
<1>3. \A i \in B : i \in Nat
  BY <1>1
<1>4. PICK i \in B : \A j \in B : i <= j
  BY <1>2, <1>3, NatMin
<1>5. i \in 1 .. Len(ss) /\ f[i] \notin Seq(S) /\ ss[i] \in Seq(S)
  BY <1>1
<1>6. i # 1
  BY <1>5 DEF Flat
<1>7. i - 1 \in 1 .. Len(ss) /\ i - 1 \notin B
  BY <1>4, <1>5, <1>6
<1>8. f[i - 1] \in Seq(S)
  BY <1>1, <1>7
<1>9. f[i] = f[i - 1] \o ss[i]
  BY <1>5, <1>6 DEF Flat
<1> QED
  BY <1>5, <1>8, <1>9

LEMMA FlatExists ==
    ASSUME NEW S, NEW ss \in Seq(Seq(S))
    PROVE  \E f : Flat(f, ss, Len(ss))
<1>1. PICK B : B = {n \in 0 .. Len(ss) : ~ \E f : Flat(f, ss, n)}
  OBVIOUS
<1>2. Len(ss) \in 0 .. Len(ss)
  OBVIOUS
<1>3. SUFFICES ASSUME B # {} PROVE FALSE
  BY <1>1, <1>2, Zenon
<1>4. \A n \in B : n \in Nat
  BY <1>1
<1>5. PICK n \in B : \A j \in B : n <= j
  BY <1>3, <1>4, NatMin
<1>6. n \in 0 .. Len(ss) /\ ~ \E f : Flat(f, ss, n)
  BY <1>1
<1>7. Flat([i \in 1 .. 0 |-> 0], ss, 0)
  BY DEF Flat
<1>8. n # 0
  BY <1>6, <1>7
<1>9. n - 1 \in 0 .. Len(ss) /\ n - 1 \notin B
  BY <1>5, <1>6, <1>8
<1>10. PICK f : Flat(f, ss, n - 1)
  BY <1>1, <1>9
<1>11. PICK g : g = [i \in 1 .. n |-> IF i = 1 THEN ss[i] ELSE f[i - 1] \o ss[i]]
  OBVIOUS
<1>12. g = [i \in 1 .. n |-> g[i]]
  BY <1>11
<1>13. ASSUME NEW i \in 1 .. n PROVE g[i] = IF i = 1 THEN ss[i] ELSE g[i - 1] \o ss[i]
  <2>1. CASE i = 1
    BY <1>11, <2>1
  <2>2. CASE i # 1
    <3>1. i - 1 \in 1 .. n - 1 /\ i - 1 \in 1 .. n
      BY <1>6, <2>2
    <3>2. f[i - 1] = IF i - 1 = 1 THEN ss[i - 1] ELSE f[(i - 1) - 1] \o ss[i - 1]
      BY <3>1, <1>10 DEF Flat
    <3>3. g[i - 1] = f[i - 1]
      BY <1>11, <3>1, <3>2
    <3> QED
      BY <1>11, <2>2, <3>3
  <2> QED
    BY <2>1, <2>2
<1>14. Flat(g, ss, n)
  BY <1>12, <1>13 DEF Flat
<1> QED
  BY <1>6, <1>14
\* Parts of at most one element: all elements are there, and a part without one is missed.
LEMMA FlatParts ==
    ASSUME NEW S, NEW ss \in Seq(Seq(S)), NEW f, Flat(f, ss, Len(ss)), \A j \in 1 .. Len(ss) : Len(ss[j]) <= 1
    PROVE  \A i \in 1 .. Len(ss) : \A j \in 1 .. i :
              /\ Len(ss[j]) = 1 => \E k \in 1 .. Len(f[i]) : f[i][k] = ss[j][1]
              /\ Len(f[i]) <= i /\ (Len(ss[j]) = 0 => Len(f[i]) < i)
<1> DEFINE Good(i) == \A j \in 1 .. i :
                         /\ Len(ss[j]) = 1 => \E k \in 1 .. Len(f[i]) : f[i][k] = ss[j][1]
                         /\ Len(f[i]) <= i /\ (Len(ss[j]) = 0 => Len(f[i]) < i)
<1>1. PICK B : B = {i \in 1 .. Len(ss) : ~ Good(i)}
  OBVIOUS
<1>2. SUFFICES ASSUME B # {} PROVE FALSE
  BY <1>1
<1>3. \A i \in B : i \in Nat
  BY <1>1
<1>4. PICK i \in B : \A j \in B : i <= j
  BY <1>2, <1>3, NatMin
<1>5. i \in 1 .. Len(ss) /\ ~ Good(i) /\ ss[i] \in Seq(S) /\ Len(ss[i]) <= 1
  <2> HIDE DEF Good
  <2>1. i \in 1 .. Len(ss) /\ ~ Good(i)
    BY <1>1, Zenon
  <2>2. ss[i] \in Seq(S) /\ Len(ss[i]) <= 1
    BY <2>1
  <2> QED BY <2>1, <2>2
<1>6. \A j \in 1 .. Len(ss) : f[j] \in Seq(S)
  BY FlatTyped
<1>7. CASE i = 1
  <2>1. f[1] = ss[1]
    BY <1>5, <1>7 DEF Flat
  <2>2. \A j \in 1 .. 1 : j = 1
    OBVIOUS
  <2>3. ASSUME Len(ss[1]) = 1 PROVE \E k \in 1 .. Len(f[1]) : f[1][k] = ss[1][1]
    <3>1. Len(f[1]) = 1 /\ f[1][1] = ss[1][1] /\ 1 \in 1 .. 1
      BY <2>1, <2>3
    <3> QED BY <3>1
  <2>4. Len(f[1]) <= 1 /\ (Len(ss[1]) = 0 => Len(f[1]) < 1)
    BY <1>5, <1>7, <2>1
  <2>5. Good(1)
    BY <2>2, <2>3, <2>4
  <2> QED BY <1>5, <1>7, <2>5
<1>8. CASE i # 1
  <2>1. PICK k : k = i - 1
    OBVIOUS
  <2>2. k \in 1 .. Len(ss) /\ k \notin B /\ i = k + 1
    BY <1>4, <1>5, <1>8, <2>1
  <2>3. Good(k)
    BY <1>1, <2>2
  <2>4. PICK a, b : a = f[k] /\ b = ss[i]
    OBVIOUS
  <2>5. a \in Seq(S) /\ b \in Seq(S) /\ f[i] = a \o b /\ Len(b) <= 1
    BY <1>5, <1>6, <1>8, <2>1, <2>2, <2>4 DEF Flat
  <2>6. Len(f[i]) = Len(a) + Len(b) /\ Len(a) \in Nat /\ Len(b) \in Nat
    BY <2>5
  <2>7. \A m \in 1 .. Len(a) : f[i][m] = a[m]
    BY <2>5
  <2>8. \A m \in 1 .. Len(b) : f[i][Len(a) + m] = b[m]
    BY <2>5
  <2>9. Len(a) <= k /\ (\A j \in 1 .. k : Len(ss[j]) = 0 => Len(a) < k)
    BY <2>2, <2>3, <2>4
  <2>10. ASSUME NEW j \in 1 .. i, Len(ss[j]) = 1 PROVE \E m \in 1 .. Len(f[i]) : f[i][m] = ss[j][1]
    <3>1. CASE j = i
      <4>1. Len(b) = 1 /\ b[1] = ss[j][1]
        BY <2>4, <2>10, <3>1
      <4>2. f[i][Len(a) + 1] = ss[j][1] /\ Len(a) + 1 \in 1 .. Len(f[i])
        BY <2>6, <2>8, <4>1
      <4> QED BY <4>2
    <3>2. CASE j # i
      <4>1. j \in 1 .. k
        BY <2>2, <3>2
      <4>2. PICK m \in 1 .. Len(a) : a[m] = ss[j][1]
        BY <2>3, <2>4, <2>10, <4>1
      <4>3. m \in 1 .. Len(f[i])
        BY <2>6
      <4> QED BY <2>7, <4>2, <4>3
    <3> QED BY <3>1, <3>2
  <2>11. ASSUME NEW j \in 1 .. i PROVE Len(f[i]) <= i /\ (Len(ss[j]) = 0 => Len(f[i]) < i)
    <3>1. Len(f[i]) <= i
      BY <2>2, <2>5, <2>6, <2>9
    <3>2. CASE j = i
      <4>1. Len(ss[j]) = 0 => Len(b) = 0
        BY <2>4, <3>2
      <4> QED BY <2>2, <2>6, <2>9, <3>1, <4>1
    <3>3. CASE j # i
      <4>1. j \in 1 .. k
        BY <2>2, <3>3
      <4> QED BY <2>2, <2>5, <2>6, <2>9, <3>1, <4>1
    <3> QED BY <3>2, <3>3
  <2>12. Good(i)
    BY <2>10, <2>11
  <2> QED BY <1>5, <2>12
<1> QED BY <1>7, <1>8

LEMMA FlattenParts ==
    ASSUME NEW S, NEW ss \in Seq(Seq(S)), \A j \in 1 .. Len(ss) : Len(ss[j]) <= 1
    PROVE  /\ FlattenSeq(ss) \in Seq(S)
           /\ \A j \in 1 .. Len(ss) :
                 /\ Len(ss[j]) = 1 => \E k \in 1 .. Len(FlattenSeq(ss)) : FlattenSeq(ss)[k] = ss[j][1]
                 /\ Len(ss[j]) = 0 => Len(FlattenSeq(ss)) < Len(ss)
<1> DEFINE fl == CHOOSE f : f = [i \in 1 .. Len(ss) |-> IF i = 1 THEN ss[i] ELSE f[i - 1] \o ss[i]]
<1>1. PICK g : Flat(g, ss, Len(ss))
  BY FlatExists
<1>2. g = [i \in 1 .. Len(ss) |-> IF i = 1 THEN ss[i] ELSE g[i - 1] \o ss[i]]
  BY <1>1 DEF Flat
<1>3. fl = [i \in 1 .. Len(ss) |-> IF i = 1 THEN ss[i] ELSE fl[i - 1] \o ss[i]]
  BY <1>2
<1>4. Flat(fl, ss, Len(ss))
  <2> HIDE DEF fl
  <2> QED BY <1>3 DEF Flat
<1>5. CASE Len(ss) = 0
  <2>1. FlattenSeq(ss) = <<>>
    BY <1>5 DEF FlattenSeq
  <2> QED BY <1>5, <2>1
<1>6. CASE Len(ss) # 0
  <2>1. FlattenSeq(ss) = fl[Len(ss)]
    BY <1>6 DEF FlattenSeq
  <2>2. Len(ss) \in 1 .. Len(ss)
    BY <1>6
  <2> HIDE DEF fl
  <2>3. fl[Len(ss)] \in Seq(S)
    BY <1>4, <2>2, FlatTyped
  <2>4. \A j \in 1 .. Len(ss) :
           /\ Len(ss[j]) = 1 => \E k \in 1 .. Len(fl[Len(ss)]) : fl[Len(ss)][k] = ss[j][1]
           /\ Len(ss[j]) = 0 => Len(fl[Len(ss)]) < Len(ss)
    BY <1>4, <2>2, FlatParts
  <2> QED BY <2>1, <2>3, <2>4
<1> QED BY <1>5, <1>6

-----------------------------------------------------------------------------
(* RuntimeFileReader.  The cursor moves only to where a poll has read, and  *)
(* only when Core has answered ok to the batch of that poll.  SendInv says  *)
(* what the batch under way stands for, BatchInv that Core goes through a   *)
(* batch in order, whoever still waits for it.                              *)

Ids(b) == {b[i].id : i \in 1 .. Len(b)}
Claimed == DOMAIN claims
Record == [id : Nat, pod : Nat]

RequestOk(r) == /\ DOMAIN r = {"batch", "next", "status"}
                /\ r.batch \in Seq(Record) /\ r.next \in Nat

ReaderTypeOK ==
    /\ written \in Nat /\ podGen \in Nat
    /\ DOMAIN file = {"gen", "lines"} /\ file.gen \in Nat /\ file.gen > 0
    /\ file.lines \in Seq(1 .. written)
    /\ DOMAIN rd = {"init", "gen", "offset"} /\ rd.gen \in Nat /\ rd.offset \in Nat
    /\ DOMAIN poll = {"pc", "next", "slot", "dirty"} /\ poll.next \in Nat /\ poll.dirty \in BOOLEAN
    /\ poll.pc = "sending" => poll.slot \in Slots
    /\ DOMAIN requests = Slots /\ \A s \in Slots : RequestOk(requests[s])

CursorInv ==
    /\ rd.gen <= file.gen
    /\ rd.gen = file.gen => rd.offset <= Len(file.lines)
    /\ poll.pc = "sending" /\ rd.gen = file.gen => poll.next <= Len(file.lines)
    /\ poll.pc = "idle" => poll.dirty = FALSE
    /\ rd.gen = 0 => rd.offset = 0 /\ poll.pc # "sending"

BatchOk(r, C) ==
    /\ r.status \in {"received", "processing"} =>
          \A i \in 1 .. Len(r.batch) : i < r.next => r.batch[i].id \in C
    /\ r.status = "ok" => Ids(r.batch) \subseteq C
BatchInv == \A s \in Slots : BatchOk(requests[s], Claimed)

LineOk(L, n, S, d) == n \in S \/ L[n] = "bad" \/ (L[n] = "named" /\ d = TRUE)

SendInv ==
    poll.pc = "sending" /\ rd.gen = file.gen =>
        \A i \in 1 .. poll.next :
            i > rd.offset => LineOk(Lines, file.lines[i], Ids(requests[poll.slot].batch), poll.dirty)

PassedInv ==
    rd.gen = file.gen =>
        \A i \in 1 .. rd.offset : LineOk(Lines, file.lines[i], Claimed \cup passed, poll.dirty)

ReaderInv == ReaderTypeOK /\ CursorInv /\ BatchInv /\ SendInv /\ PassedInv

LEMMA EventParts ==
    ASSUME NEW n \in Nat, NEW uid \in Nat
    PROVE  /\ EventOf(n, uid) \in Seq(Record) /\ Len(EventOf(n, uid)) <= 1
           /\ Len(EventOf(n, uid)) = 1 => EventOf(n, uid)[1].id = n
           /\ Len(EventOf(n, uid)) = 0 => Lines[n] \in {"bad", "named"}
<1>1. PICK pod : pod = CASE Lines[n] = "named" -> uid
                         [] Lines[n] = "other" -> 2
                         [] OTHER -> 1
  OBVIOUS
<1>a. pod \in Nat /\ (pod = 0 => Lines[n] = "named")
  BY <1>1
<1>2. PICK e : e = [id |-> n, pod |-> pod]
  OBVIOUS
<1>3. e \in Record /\ e.id = n
  BY <1>a, <1>2 DEF Record
<1>4. CASE Lines[n] = "bad" \/ pod = 0
  <2>1. EventOf(n, uid) = <<>> /\ Lines[n] \in {"bad", "named"}
    BY <1>1, <1>a, <1>4 DEF EventOf
  <2> QED BY <2>1
<1>5. CASE ~ (Lines[n] = "bad" \/ pod = 0)
  <2>1. EventOf(n, uid) = <<e>>
    BY <1>1, <1>2, <1>5 DEF EventOf
  <2> QED BY <1>3, <2>1
<1> QED BY <1>4, <1>5

\* What parsing makes of a slice: a line without an event leaves the batch short.
LEMMA ParsedLines ==
    ASSUME written \in Nat, NEW lines \in Seq(1 .. written), NEW uid \in Nat,
           NEW ev, ev = Parsed(lines, uid), NEW d, d = (Len(ev) < Len(lines))
    PROVE  /\ ev \in Seq(Record)
           /\ \A j \in 1 .. Len(lines) : LineOk(Lines, lines[j], Ids(ev), d)
<1>1. PICK ss : ss = [i \in DOMAIN lines |-> EventOf(lines[i], uid)]
  OBVIOUS
<1>2. DOMAIN lines = 1 .. Len(lines) /\ Len(lines) \in Nat
  OBVIOUS
<1>3. \A j \in 1 .. Len(lines) : lines[j] \in Nat /\ ss[j] = EventOf(lines[j], uid)
  BY <1>1, <1>2
<1>4. ASSUME NEW j \in 1 .. Len(lines)
      PROVE  /\ ss[j] \in Seq(Record) /\ Len(ss[j]) <= 1
             /\ Len(ss[j]) = 1 => ss[j][1].id = lines[j]
             /\ Len(ss[j]) = 0 => Lines[lines[j]] \in {"bad", "named"}
  <2>1. PICK n : n = lines[j]
    OBVIOUS
  <2>2. n \in Nat /\ ss[j] = EventOf(n, uid)
    BY <1>3, <2>1
  <2>3. /\ EventOf(n, uid) \in Seq(Record) /\ Len(EventOf(n, uid)) <= 1
        /\ Len(EventOf(n, uid)) = 1 => EventOf(n, uid)[1].id = n
        /\ Len(EventOf(n, uid)) = 0 => Lines[n] \in {"bad", "named"}
    BY <2>2, EventParts
  <2> QED BY <2>1, <2>2, <2>3
<1>5. ss \in [1 .. Len(lines) -> Seq(Record)]
  BY <1>1, <1>2, <1>4
<1>6. ss \in Seq(Seq(Record)) /\ Len(ss) = Len(lines)
  BY <1>2, <1>5
<1>7. ev = FlattenSeq(ss)
  BY <1>1 DEF Parsed
<1>8. /\ FlattenSeq(ss) \in Seq(Record)
      /\ \A j \in 1 .. Len(ss) :
            /\ Len(ss[j]) = 1 => \E k \in 1 .. Len(FlattenSeq(ss)) : FlattenSeq(ss)[k] = ss[j][1]
            /\ Len(ss[j]) = 0 => Len(FlattenSeq(ss)) < Len(ss)
  BY <1>4, <1>6, FlattenParts
<1>9. ASSUME NEW j \in 1 .. Len(lines) PROVE LineOk(Lines, lines[j], Ids(ev), d)
  <2>1. Len(ss[j]) \in {0, 1}
    <3>1. ss[j] \in Seq(Record) /\ Len(ss[j]) <= 1
      BY <1>4
    <3>2. PICK k : k = Len(ss[j])
      OBVIOUS
    <3>3. k \in Nat /\ k <= 1
      BY <3>1, <3>2
    <3>4. k = 0 \/ k = 1
      BY <3>3
    <3> QED BY <3>2, <3>4
  <2>2. CASE Len(ss[j]) = 1
    <3>1. PICK k \in 1 .. Len(ev) : ev[k] = ss[j][1]
      BY <1>6, <1>7, <1>8, <2>2
    <3>2. ev[k].id = lines[j]
      BY <1>4, <2>2, <3>1
    <3> QED BY <3>2 DEF LineOk, Ids
  <2>3. CASE Len(ss[j]) = 0
    BY <1>4, <1>6, <1>7, <1>8, <2>3 DEF LineOk
  <2> QED BY <2>1, <2>2, <2>3
<1> QED BY <1>7, <1>8, <1>9

-----------------------------------------------------------------------------
(* Core.                                                                    *)

\* One slot changes, and Core forgets no claim.
LEMMA SlotMoves ==
    ASSUME ReaderTypeOK, BatchInv, NEW s \in Slots, NEW r, RequestOk(r), BatchOk(r, Claimed'),
           requests' = [requests EXCEPT ![s] = r], Claimed \subseteq Claimed'
    PROVE  /\ BatchInv' /\ DOMAIN requests' = Slots /\ (\A t \in Slots : RequestOk(requests'[t]))
           /\ requests'[s] = r /\ \A t \in Slots : t # s => requests'[t] = requests[t]
<1>1. DOMAIN requests = Slots /\ \A t \in Slots : RequestOk(requests[t])
  BY DEF ReaderTypeOK
<1>2. /\ DOMAIN requests' = Slots /\ requests'[s] = r
      /\ \A t \in Slots : t # s => requests'[t] = requests[t]
  BY <1>1
<1>3. ASSUME NEW t \in Slots PROVE BatchOk(requests'[t], Claimed') /\ RequestOk(requests'[t])
  <2>1. CASE t = s
    BY <1>2, <2>1
  <2>2. CASE t # s
    <3>1. BatchOk(requests[t], Claimed)
      BY DEF BatchInv
    <3>2. BatchOk(requests[t], Claimed')
      BY <3>1 DEF BatchOk
    <3> QED BY <1>1, <1>2, <2>2, <3>2
  <2> QED BY <2>1, <2>2
<1>4. BatchInv'
  BY <1>3 DEF BatchInv
<1> QED BY <1>2, <1>3, <1>4

\* What a step of Core does to the reader's request and to the claims.
Waits(t) == poll.pc = "sending" /\ poll.slot = t
CoreMoves ==
    /\ BatchInv' /\ DOMAIN requests' = Slots /\ (\A t \in Slots : RequestOk(requests'[t]))
    /\ Claimed \subseteq Claimed'
    /\ \A t \in Slots : Waits(t) => requests'[t].batch = requests[t].batch

LEMMA CoreAnswers ==
    ASSUME ReaderTypeOK, BatchInv, NEW s \in Slots, NEW status, Answer(s, status), UNCHANGED claims,
           status # "received",
           status = "processing" => requests[s].status = "received",
           status = "ok" => requests[s].status = "processing" /\ requests[s].next > Len(requests[s].batch)
    PROVE  CoreMoves
<1>1. PICK q : q = requests[s]
  OBVIOUS
<1>2. RequestOk(q) /\ BatchOk(q, Claimed)
  BY <1>1 DEF ReaderTypeOK, BatchInv
<1>3. PICK r : r = [q EXCEPT !.status = status]
  OBVIOUS
<1>4. r.batch = q.batch /\ r.next = q.next /\ r.status = status /\ RequestOk(r)
  BY <1>2, <1>3 DEF RequestOk
<1>5. requests' = [requests EXCEPT ![s] = r]
  BY <1>1, <1>3 DEF Answer
<1>6. Claimed' = Claimed
  BY DEF Claimed
<1>7. BatchOk(r, Claimed)
  <2>1. CASE status = "ok"
    <3>1. \A i \in 1 .. Len(q.batch) : i < q.next
      BY <1>1, <1>2, <2>1 DEF RequestOk
    <3>2. \A i \in 1 .. Len(q.batch) : q.batch[i].id \in Claimed
      BY <1>1, <1>2, <2>1, <3>1 DEF BatchOk
    <3>3. Ids(r.batch) \subseteq Claimed
      BY <1>4, <3>2 DEF Ids
    <3> QED BY <1>4, <2>1, <3>3 DEF BatchOk
  <2>2. CASE status = "processing"
    BY <1>1, <1>2, <1>4, <2>2 DEF BatchOk
  <2>3. CASE status \notin {"ok", "processing", "received"}
    BY <1>4, <2>3 DEF BatchOk
  <2> QED BY <2>1, <2>2, <2>3
<1>8. /\ BatchInv' /\ DOMAIN requests' = Slots /\ (\A t \in Slots : RequestOk(requests'[t]))
      /\ requests'[s] = r /\ \A t \in Slots : t # s => requests'[t] = requests[t]
  BY <1>4, <1>5, <1>6, <1>7, SlotMoves
<1> QED BY <1>1, <1>4, <1>6, <1>8 DEF CoreMoves

LEMMA CoreIngests == ASSUME ReaderTypeOK, BatchInv, NEW s \in Slots, IngestEvent(s) PROVE CoreMoves
<1>1. PICK q : q = requests[s]
  OBVIOUS
<1>2. /\ RequestOk(q) /\ BatchOk(q, Claimed) /\ q.status = "processing" /\ q.next <= Len(q.batch)
      /\ q.batch \in Seq(Record) /\ q.next \in Nat
  <2>1. RequestOk(q) /\ BatchOk(q, Claimed)
    BY <1>1 DEF ReaderTypeOK, BatchInv
  <2>2. q.status = "processing" /\ q.next <= Len(q.batch)
    BY <1>1, Zenon DEF IngestEvent
  <2> QED BY <2>1, <2>2 DEF RequestOk
<1>3. PICK e : e = q.batch[q.next]
  BY Zenon
<1>4. Claimed' = Claimed \cup {e.id} \/ (Claimed' = Claimed /\ e.id \in Claimed)
  BY <1>1, <1>3 DEF IngestEvent, Claimed
<1>5. Claimed \subseteq Claimed' /\ e.id \in Claimed'
  BY <1>4
<1>6. PICK r : r = IF e.id \notin DOMAIN claims \/ ReplayMatches(e)
                   THEN [q EXCEPT !.next = q.next + 1] ELSE [q EXCEPT !.status = "conflict"]
  OBVIOUS
<1>7. requests' = [requests EXCEPT ![s] = r]
  BY <1>1, <1>3, <1>6 DEF IngestEvent
<1>8. /\ r.batch = q.batch /\ RequestOk(r)
      /\ r.status = "conflict" \/ (r.status = "processing" /\ r.next = q.next + 1)
  BY <1>2, <1>6 DEF RequestOk
<1>9. BatchOk(r, Claimed')
  <2>1. CASE r.status = "conflict"
    BY <2>1 DEF BatchOk
  <2>2. CASE r.status = "processing" /\ r.next = q.next + 1
    <3>1. ASSUME NEW i \in 1 .. Len(q.batch), i < q.next + 1 PROVE q.batch[i].id \in Claimed'
      <4>1. CASE i = q.next
        BY <1>3, <1>5, <4>1
      <4>2. CASE i < q.next
        BY <1>2, <1>5, <4>2 DEF BatchOk
      <4> QED BY <1>2, <3>1, <4>1, <4>2
    <3> QED BY <1>8, <2>2, <3>1 DEF BatchOk
  <2> QED BY <1>8, <2>1, <2>2
<1>10. /\ BatchInv' /\ DOMAIN requests' = Slots /\ (\A t \in Slots : RequestOk(requests'[t]))
       /\ requests'[s] = r /\ \A t \in Slots : t # s => requests'[t] = requests[t]
  BY <1>5, <1>7, <1>8, <1>9, SlotMoves
<1> QED BY <1>1, <1>5, <1>8, <1>10 DEF CoreMoves

\* The request in s is forgotten; nobody waits for it.
LEMMA CoreDrops ==
    ASSUME ReaderTypeOK, BatchInv, NEW s \in Slots, Drop(s), UNCHANGED claims
    PROVE  /\ BatchInv' /\ DOMAIN requests' = Slots /\ (\A t \in Slots : RequestOk(requests'[t]))
           /\ Claimed' = Claimed /\ \A t \in Slots : t # s => requests'[t] = requests[t]
<1>1. Claimed' = Claimed
  BY DEF Claimed
<1>2. RequestOk(NoRequest) /\ BatchOk(NoRequest, Claimed')
  BY DEF RequestOk, BatchOk, NoRequest
<1>3. requests' = [requests EXCEPT ![s] = NoRequest]
  BY DEF Drop
<1> QED BY <1>1, <1>2, <1>3, SlotMoves

LEMMA CoreEffect ==
    ASSUME ReaderTypeOK, BatchInv, CoreStep \/ CoreFails \/ AnswerUnheard \/ \E p \in Pods : LearnPod(p)
    PROVE  CoreMoves /\ UNCHANGED <<sourceVars, rd, poll, passed>>
<1>1. UNCHANGED <<sourceVars, rd, poll, passed>>
  BY DEF CoreStep, CoreFails, AnswerUnheard, LearnPod
<1>2. ASSUME NEW s \in Slots, CheckOwnership(s) PROVE CoreMoves
  <2>1. PICK status : /\ status \in {"processing", "ownership"} /\ Answer(s, status) /\ UNCHANGED claims
                      /\ requests[s].status = "received"
    BY <1>2 DEF CheckOwnership
  <2> QED BY <2>1, CoreAnswers
<1>3. ASSUME NEW s \in Slots, IngestDone(s) PROVE CoreMoves
  <2>1. /\ Answer(s, "ok") /\ UNCHANGED claims
        /\ requests[s].status = "processing" /\ requests[s].next > Len(requests[s].batch)
    BY <1>3 DEF IngestDone
  <2> QED BY <2>1, CoreAnswers
<1>4. ASSUME NEW s \in Slots, IngestFails(s) PROVE CoreMoves
  <2>1. Answer(s, "unavailable") /\ UNCHANGED claims
    BY <1>4 DEF IngestFails
  <2> QED BY <2>1, CoreAnswers
<1>5. CASE AnswerUnheard
  <2>1. PICK s \in Slots : ~ Waits(s) /\ Drop(s) /\ UNCHANGED claims
    BY <1>5 DEF AnswerUnheard, Waits
  <2>2. /\ BatchInv' /\ DOMAIN requests' = Slots /\ (\A t \in Slots : RequestOk(requests'[t]))
        /\ Claimed' = Claimed /\ \A t \in Slots : t # s => requests'[t] = requests[t]
    BY <2>1, CoreDrops
  <2> QED BY <1>1, <2>1, <2>2 DEF CoreMoves
<1>6. CASE \E p \in Pods : LearnPod(p)
  <2>1. UNCHANGED <<claims, requests>>
    BY <1>6 DEF LearnPod, PodLearnt
  <2> QED BY <1>1, <2>1 DEF CoreMoves, BatchInv, Claimed, ReaderTypeOK
<1>7. CASE CoreStep
  BY <1>2, <1>3, <1>7, CoreIngests DEF CoreStep, IngestStep
<1>8. CASE CoreFails
  BY <1>4, <1>8 DEF CoreFails
<1> QED BY <1>1, <1>5, <1>6, <1>7, <1>8

-----------------------------------------------------------------------------
(* The steps of the reader.                                                 *)

LEMMA LineStays ==
    ASSUME NEW L, NEW n, NEW S, NEW T, NEW d, NEW e, LineOk(L, n, S, d), S \subseteq T, d = TRUE => e = TRUE
    PROVE  LineOk(L, n, T, e)
  BY DEF LineOk

\* A step that leaves the reader and its file alone.
LEMMA ReaderFrame ==
    ASSUME ReaderInv, UNCHANGED <<sourceVars, rd>>, CoreMoves, passed \subseteq passed',
           \/ poll' = poll
           \/ /\ DOMAIN poll' = DOMAIN poll /\ poll'.next = poll.next /\ poll'.pc = "observe"
              /\ poll'.dirty = TRUE
    PROVE  ReaderInv'
<1> USE DEF ReaderInv, sourceVars
<1>1. ReaderTypeOK'
  BY DEF ReaderTypeOK, CoreMoves
<1>2. CursorInv'
  BY DEF CursorInv
<1>3. BatchInv'
  BY DEF CoreMoves
<1>4. SendInv'
  <2>1. SUFFICES ASSUME poll'.pc = "sending", rd.gen = file.gen, NEW i \in 1 .. poll'.next, i > rd.offset
                 PROVE  LineOk(Lines, file.lines[i], Ids(requests'[poll'.slot].batch), poll'.dirty)
    BY DEF SendInv, Lines
  <2>2. poll' = poll /\ poll.slot \in Slots /\ Waits(poll.slot)
    BY <2>1 DEF ReaderTypeOK, Waits
  <2>3. requests'[poll.slot].batch = requests[poll.slot].batch
    BY <2>2 DEF CoreMoves
  <2>4. LineOk(Lines, file.lines[i], Ids(requests[poll.slot].batch), poll.dirty)
    BY <2>1, <2>2 DEF SendInv
  <2> QED BY <2>2, <2>3, <2>4
<1>5. PassedInv'
  <2>1. SUFFICES ASSUME rd.gen = file.gen, NEW i \in 1 .. rd.offset
                 PROVE  LineOk(Lines, file.lines[i], Claimed' \cup passed', poll'.dirty)
    BY DEF PassedInv, Lines
  <2>2. LineOk(Lines, file.lines[i], Claimed \cup passed, poll.dirty)
    BY <2>1 DEF PassedInv
  <2>3. Claimed \cup passed \subseteq Claimed' \cup passed' /\ (poll.dirty = TRUE => poll'.dirty = TRUE)
    BY DEF CoreMoves
  <2>4. LineOk(Lines, file.lines[i], Claimed' \cup passed', poll'.dirty)
    BY <2>2, <2>3, LineStays
  <2> QED BY <2>4
<1> QED BY <1>1, <1>2, <1>3, <1>4, <1>5

\* The lines of the file: as they were, one more, or none.
LEMMA FileSteps == ASSUME ReaderInv, WriteLine \/ ReplaceFile \/ RecreatePod PROVE ReaderInv'
<1>0. UNCHANGED <<claims, requests, source, rd, poll, passed>>
  BY DEF WriteLine, ReplaceFile, RecreatePod, ingestVars
<1>1. BatchInv' /\ Claimed' = Claimed /\ Lines' = Lines
  BY <1>0 DEF ReaderInv, BatchInv, Claimed, Lines
<1>2. CASE ReplaceFile
  <2>1. file' = [gen |-> file.gen + 1, lines |-> <<>>] /\ UNCHANGED <<written, podGen>>
    BY <1>2 DEF ReplaceFile
  <2>2. ReaderTypeOK' /\ rd.gen \in Nat /\ file.gen \in Nat
    BY <1>0, <2>1 DEF ReaderInv, ReaderTypeOK
  <2>3. file'.gen = file.gen + 1 /\ rd'.gen < file'.gen
    BY <1>0, <2>1, <2>2 DEF ReaderInv, CursorInv
  <2>4. rd'.gen # file'.gen /\ rd'.gen <= file'.gen
    BY <1>0, <2>2, <2>3
  <2>5. CursorInv'
    BY <1>0, <2>4 DEF ReaderInv, CursorInv
  <2> QED BY <1>1, <2>2, <2>4, <2>5 DEF ReaderInv, SendInv, PassedInv
<1>3. CASE WriteLine \/ RecreatePod
  <2>1. /\ DOMAIN file' = {"gen", "lines"} /\ file'.gen = file.gen /\ written' \in Nat /\ podGen' \in Nat
        /\ file'.lines \in Seq(1 .. written') /\ Len(file.lines) \in Nat
        /\ Len(file'.lines) >= Len(file.lines)
        /\ \A i \in 1 .. Len(file.lines) : file'.lines[i] = file.lines[i]
    <3>1. PICK W, l : W = 1 .. written' /\ l = file.lines
      OBVIOUS
    <3>2. CASE WriteLine
      <4>1. written + 1 \in W /\ 1 .. written \subseteq W /\ written' \in Nat /\ podGen' \in Nat
        BY <3>1, <3>2 DEF WriteLine, ReaderInv, ReaderTypeOK
      <4>2. l \in Seq(W)
        BY <3>1, <4>1 DEF ReaderInv, ReaderTypeOK
      <4>3. file' = [file EXCEPT !.lines = Append(l, written + 1)]
        BY <3>1, <3>2 DEF WriteLine
      <4>4. DOMAIN file' = {"gen", "lines"} /\ file'.gen = file.gen /\ file'.lines = Append(l, written + 1)
        BY <4>3 DEF ReaderInv, ReaderTypeOK
      <4>5. /\ Append(l, written + 1) \in Seq(W) /\ Len(Append(l, written + 1)) = Len(l) + 1
            /\ Len(l) \in Nat /\ \A i \in 1 .. Len(l) : Append(l, written + 1)[i] = l[i]
        BY <4>1, <4>2
      <4> QED BY <3>1, <4>1, <4>4, <4>5
    <3>3. CASE RecreatePod
      <4>1. UNCHANGED <<file, written>> /\ podGen' \in Nat
        BY <3>3 DEF RecreatePod, ReaderInv, ReaderTypeOK
      <4>2. l \in Seq(W)
        BY <3>1, <4>1 DEF ReaderInv, ReaderTypeOK
      <4>3. Len(l) \in Nat
        BY <4>2
      <4> QED BY <3>1, <4>1, <4>3 DEF ReaderInv, ReaderTypeOK
    <3> QED BY <1>3, <3>2, <3>3
  <2>2. ReaderTypeOK'
    BY <1>0, <2>1 DEF ReaderInv, ReaderTypeOK
  <2>3. rd.offset \in Nat /\ poll.next \in Nat /\ Len(file'.lines) \in Nat
    <3>1. rd.offset \in Nat /\ poll.next \in Nat
      BY DEF ReaderInv, ReaderTypeOK
    <3>2. PICK W : W = 1 .. written'
      OBVIOUS
    <3>3. Len(file'.lines) \in Nat
      BY <2>1, <3>2
    <3> QED BY <3>1, <3>3
  <2>4. CursorInv'
    BY <1>0, <2>1, <2>3 DEF ReaderInv, CursorInv
  <2>5. SendInv'
    <3>1. SUFFICES ASSUME poll.pc = "sending", rd.gen = file.gen, NEW i \in 1 .. poll.next, i > rd.offset
                   PROVE  LineOk(Lines, file'.lines[i], Ids(requests[poll.slot].batch), poll.dirty)
      BY <1>0, <1>1, <2>1 DEF SendInv
    <3>2. i \in 1 .. Len(file.lines)
      BY <2>1, <2>3, <3>1 DEF ReaderInv, CursorInv
    <3> QED BY <2>1, <3>1, <3>2 DEF ReaderInv, SendInv
  <2>6. PassedInv'
    <3>1. SUFFICES ASSUME rd.gen = file.gen, NEW i \in 1 .. rd.offset
                   PROVE  LineOk(Lines, file'.lines[i], Claimed \cup passed, poll.dirty)
      BY <1>0, <1>1, <2>1 DEF PassedInv
    <3>2. i \in 1 .. Len(file.lines)
      BY <2>1, <2>3, <3>1 DEF ReaderInv, CursorInv
    <3> QED BY <2>1, <3>1, <3>2 DEF ReaderInv, PassedInv
  <2> QED BY <1>1, <2>2, <2>4, <2>5, <2>6 DEF ReaderInv
<1> QED BY <1>2, <1>3

LEMMA SkipSteps == ASSUME ReaderInv, SkipHistory PROVE ReaderInv'
<1>1. /\ UNCHANGED <<claims, requests, source, file, written, podGen, poll>> /\ poll.pc = "idle"
      /\ rd' = [init |-> TRUE, gen |-> file.gen, offset |-> Len(file.lines)]
      /\ passed' = passed \cup 1 .. written
  BY DEF SkipHistory, ingestVars, sourceVars
<1>2. PICK W, l : W = 1 .. written /\ l = file.lines
  OBVIOUS
<1>3. l \in Seq(W) /\ file.gen \in Nat /\ file.gen > 0
  BY <1>2 DEF ReaderInv, ReaderTypeOK
<1>4. Len(l) \in Nat /\ \A i \in 1 .. Len(l) : l[i] \in W
  BY <1>3
<1>5. rd'.gen = file.gen /\ rd'.offset = Len(l) /\ DOMAIN rd' = {"init", "gen", "offset"}
  BY <1>1, <1>2
<1>6. ReaderTypeOK' /\ BatchInv'
  BY <1>1, <1>3, <1>4, <1>5 DEF ReaderInv, ReaderTypeOK, BatchInv, Claimed
<1>7. CursorInv' /\ SendInv'
  BY <1>1, <1>2, <1>3, <1>4, <1>5 DEF ReaderInv, CursorInv, SendInv
<1>8. PassedInv'
  <2>1. SUFFICES ASSUME NEW i \in 1 .. Len(l) PROVE LineOk(Lines', l[i], Claimed' \cup passed', poll'.dirty)
    BY <1>1, <1>2, <1>5 DEF PassedInv
  <2>2. l[i] \in Claimed' \cup passed'
    BY <1>1, <1>2, <1>4
  <2> QED BY <2>2 DEF LineOk
<1> QED BY <1>6, <1>7, <1>8 DEF ReaderInv

LEMMA Slice ==
    ASSUME NEW S, NEW s \in Seq(S), NEW a \in 0 .. Len(s), NEW b \in 0 .. Len(s)
    PROVE  /\ SubSeq(s, a + 1, b) \in Seq(S)
           /\ Len(SubSeq(s, a + 1, b)) = IF a <= b THEN b - a ELSE 0
           /\ \A i \in 1 .. b - a : SubSeq(s, a + 1, b)[i] = s[a + i]
<1>1. a + 1 \in Int /\ b \in Int /\ \A i \in a + 1 .. b : s[i] \in S
  OBVIOUS
<1>2. PICK m : m = a + 1
  OBVIOUS
<1>3. m \in Int /\ \A i \in m .. b : s[i] \in S
  BY <1>1, <1>2
<1>4. /\ SubSeq(s, m, b) \in Seq(S)
      /\ Len(SubSeq(s, m, b)) = IF m <= b THEN b - m + 1 ELSE 0
      /\ \A i \in 1 .. b - m + 1 : SubSeq(s, m, b)[i] = s[m + i - 1]
  BY <1>1, <1>3, SubSeqProperties
<1>5. \A i \in 1 .. b - a : i \in 1 .. b - m + 1 /\ m + i - 1 = a + i
  BY <1>2
<1> QED BY <1>2, <1>4, <1>5

\* Where a poll reads from; what is before it has been dealt with.
LEMMA ReadFrom ==
    ASSUME ReaderInv, poll.pc = "idle", NEW reset, NEW start,
           reset = (rd.gen \notin {0, file.gen} \/ rd.offset > Len(file.lines)),
           start = IF reset THEN 0 ELSE rd.offset
    PROVE  /\ start \in 0 .. Len(file.lines) /\ Len(file.lines) \in Nat
           /\ \A i \in 1 .. start : LineOk(Lines, file.lines[i], Claimed \cup passed, FALSE)
<1>1. PICK W, l, m : W = 1 .. written /\ l = file.lines /\ m = Len(file.lines)
  OBVIOUS
<1>2. l \in Seq(W) /\ rd.offset \in Nat
  BY <1>1 DEF ReaderInv, ReaderTypeOK
<1>3. m \in Nat
  BY <1>1, <1>2
<1>4. CASE start = 0
  <2>1. start \in 0 .. m /\ 1 .. start = {}
    BY <1>3, <1>4
  <2> QED BY <1>1, <1>3, <2>1
<1>5. CASE ~ reset /\ rd.gen = 0
  <2>1. start = 0
    BY <1>5 DEF ReaderInv, CursorInv
  <2> QED BY <1>4, <2>1
<1>6. CASE ~ reset /\ rd.gen = file.gen
  <2>1. start = rd.offset /\ ~ (rd.offset > m) /\ poll.dirty = FALSE
    BY <1>1, <1>6 DEF ReaderInv, CursorInv
  <2>2. \A i \in 1 .. start : LineOk(Lines, file.lines[i], Claimed \cup passed, FALSE)
    BY <1>6, <2>1 DEF ReaderInv, PassedInv
  <2>3. start \in 0 .. m
    BY <1>2, <1>3, <2>1
  <2> QED BY <1>1, <1>3, <2>2, <2>3
<1>7. \/ start = 0 \/ (~ reset /\ rd.gen = 0) \/ (~ reset /\ rd.gen = file.gen)
  OBVIOUS
<1> QED BY <1>4, <1>5, <1>6, <1>7

LEMMA ReadSteps ==
    ASSUME ReaderInv, NEW s \in Slots, NEW uid \in Nat, ReadAndSend(s, uid) PROVE ReaderInv'
<1>1. PICK reset : reset = (rd.gen \notin {0, file.gen} \/ rd.offset > Len(file.lines))
  OBVIOUS
<1>2. PICK start : start = IF reset THEN 0 ELSE rd.offset
  OBVIOUS
<1>3. PICK W, l, m : W = 1 .. written /\ l = file.lines /\ m = Len(file.lines)
  OBVIOUS
<1>4. PICK took : took = SubSeq(l, start + 1, m)
  OBVIOUS
<1>5. PICK ev : ev = Parsed(took, uid)
  OBVIOUS
<1>6. PICK d : d = (Len(ev) < Len(took))
  OBVIOUS
<1>7. PICK dirty : dirty = (reset \/ d)
  OBVIOUS
<1>8. /\ poll.pc = "idle"
      /\ rd' = [init |-> TRUE, gen |-> file.gen, offset |-> IF ev = <<>> THEN m ELSE start]
      /\ poll' = [Idle EXCEPT !.pc = IF ev = <<>> THEN "observe" ELSE "sending",
                     !.next = m, !.slot = s, !.dirty = dirty]
      /\ IF ev = <<>> THEN UNCHANGED requests ELSE requests' = Submitted(s, ev)
      /\ UNCHANGED <<claims, source, file, written, podGen, passed>>
  BY <1>1, <1>2, <1>3, <1>4, <1>5, <1>6, <1>7, Zenon DEF ReadAndSend, Replaced, sourceVars
<1>9. /\ start \in 0 .. m /\ m \in Nat
      /\ \A i \in 1 .. start : LineOk(Lines, l[i], Claimed \cup passed, FALSE)
  BY <1>1, <1>2, <1>3, <1>8, ReadFrom
<1>10. l \in Seq(W) /\ written \in Nat /\ file.gen \in Nat /\ file.gen > 0
  BY <1>3 DEF ReaderInv, ReaderTypeOK
<1>11. m \in 0 .. Len(l) /\ start \in 0 .. Len(l)
  BY <1>3, <1>9
<1>12. /\ took \in Seq(W) /\ Len(took) = m - start
       /\ \A i \in 1 .. m - start : took[i] = l[start + i]
  <2>1. /\ took \in Seq(W) /\ Len(took) = IF start <= m THEN m - start ELSE 0
        /\ \A i \in 1 .. m - start : took[i] = l[start + i]
    BY <1>4, <1>10, <1>11, Slice
  <2>2. start <= m
    BY <1>9
  <2> QED BY <2>1, <2>2
<1>13. ev \in Seq(Record) /\ \A j \in 1 .. Len(took) : LineOk(Lines, took[j], Ids(ev), d)
  <2>1. took \in Seq(1 .. written)
    BY <1>3, <1>12
  <2> QED BY <1>5, <1>6, <1>10, <2>1, ParsedLines
<1>14. ASSUME NEW i \in 1 .. m, i > start PROVE LineOk(Lines, l[i], Ids(ev), dirty)
  <2>1. PICK j : j = i - start
    OBVIOUS
  <2>2. j \in 1 .. m - start /\ start + j = i
    BY <1>9, <1>14, <2>1
  <2>3. LineOk(Lines, took[j], Ids(ev), d) /\ took[j] = l[i]
    BY <1>12, <1>13, <2>2
  <2> QED BY <1>7, <2>3 DEF LineOk
<1>15. /\ DOMAIN poll' = {"pc", "next", "slot", "dirty"} /\ poll'.next = m /\ poll'.slot = s
       /\ poll'.dirty = dirty /\ poll'.pc = (IF ev = <<>> THEN "observe" ELSE "sending")
       /\ dirty \in BOOLEAN
  BY <1>1, <1>6, <1>7, <1>8 DEF Idle
<1>16. /\ rd'.gen = file.gen /\ rd'.offset = (IF ev = <<>> THEN m ELSE start)
       /\ DOMAIN rd' = {"init", "gen", "offset"} /\ Claimed' = Claimed /\ Lines' = Lines
  BY <1>8 DEF Claimed, Lines
<1>17. /\ BatchInv' /\ DOMAIN requests' = Slots /\ (\A t \in Slots : RequestOk(requests'[t]))
       /\ ev # <<>> => requests'[s].batch = ev
  <2>1. CASE ev = <<>>
    BY <1>8, <1>16, <2>1 DEF ReaderInv, ReaderTypeOK, BatchInv
  <2>2. CASE ev # <<>>
    <3>1. PICK r : r = [batch |-> ev, next |-> 1, status |-> "received"]
      OBVIOUS
    <3>2. RequestOk(r) /\ r.batch = ev /\ r.next = 1 /\ r.status = "received"
      BY <1>13, <3>1 DEF RequestOk
    <3>3. BatchOk(r, Claimed')
      BY <3>2 DEF BatchOk
    <3>4. requests' = [requests EXCEPT ![s] = r]
      BY <1>8, <2>2, <3>1 DEF Submitted
    <3>5. /\ BatchInv' /\ DOMAIN requests' = Slots /\ (\A t \in Slots : RequestOk(requests'[t]))
          /\ requests'[s] = r /\ \A t \in Slots : t # s => requests'[t] = requests[t]
      BY <1>16, <3>2, <3>3, <3>4, SlotMoves DEF ReaderInv
    <3> QED BY <3>2, <3>5
  <2> QED BY <2>1, <2>2
<1>18. ReaderTypeOK'
  <2>1. rd'.offset \in Nat
    BY <1>9, <1>16
  <2> QED BY <1>8, <1>9, <1>10, <1>15, <1>16, <1>17, <2>1 DEF ReaderInv, ReaderTypeOK
<1>19. CursorInv'
  <2>1. rd'.offset <= m
    BY <1>9, <1>16
  <2>2. poll'.pc # "idle"
    BY <1>15
  <2> QED BY <1>3, <1>8, <1>9, <1>10, <1>15, <1>16, <2>1, <2>2 DEF CursorInv
<1>20. SendInv'
  <2>1. SUFFICES ASSUME poll'.pc = "sending", NEW i \in 1 .. m, i > rd'.offset
                 PROVE  LineOk(Lines, l[i], Ids(requests'[s].batch), dirty)
    BY <1>3, <1>8, <1>15, <1>16 DEF SendInv
  <2>2. ev # <<>>
    BY <1>15, <2>1
  <2>3. i > start /\ requests'[s].batch = ev
    BY <1>16, <1>17, <2>1, <2>2
  <2> QED BY <1>14, <2>3
<1>21. PassedInv'
  <2>1. SUFFICES ASSUME NEW i \in 1 .. rd'.offset
                 PROVE  LineOk(Lines, l[i], Claimed \cup passed, dirty)
    BY <1>3, <1>8, <1>15, <1>16 DEF PassedInv
  <2>2. CASE i <= start
    <3>1. i \in 1 .. start
      BY <1>9, <1>16, <2>1, <2>2
    <3>2. LineOk(Lines, l[i], Claimed \cup passed, FALSE)
      BY <1>9, <3>1
    <3> QED BY <3>2 DEF LineOk
  <2>3. CASE i > start
    <3>1. ev = <<>> /\ i \in 1 .. m
      BY <1>9, <1>16, <2>1, <2>3
    <3>2. LineOk(Lines, l[i], Ids(ev), dirty)
      BY <1>14, <2>3, <3>1
    <3>3. Ids(ev) = {}
      BY <3>1 DEF Ids
    <3> QED BY <3>2, <3>3 DEF LineOk
  <2>4. i \in Nat /\ start \in Nat
    BY <1>9, <1>16, <2>1
  <2> QED BY <2>2, <2>3, <2>4
<1> QED BY <1>17, <1>18, <1>19, <1>20, <1>21 DEF ReaderInv

LEMMA AnsweredSteps == ASSUME ReaderInv, Answered PROVE ReaderInv'
<1>1. PICK s, r : s = poll.slot /\ r = requests[poll.slot]
  OBVIOUS
<1>2. /\ poll.pc = "sending" /\ r.status \in Answers /\ Drop(s)
      /\ rd' = IF r.status = "ok" THEN [rd EXCEPT !.offset = poll.next] ELSE rd
      /\ poll' = [poll EXCEPT !.pc = "observe", !.dirty = @ \/ r.status # "ok"]
      /\ UNCHANGED <<claims, source, file, written, podGen, passed>>
  BY <1>1 DEF Answered, sourceVars
<1>3. s \in Slots /\ poll.dirty \in BOOLEAN /\ DOMAIN rd = {"init", "gen", "offset"} /\ rd.offset \in Nat
      /\ DOMAIN poll = {"pc", "next", "slot", "dirty"} /\ poll.next \in Nat /\ rd.gen \in Nat
  BY <1>1, <1>2 DEF ReaderInv, ReaderTypeOK
<1>4. /\ BatchInv' /\ DOMAIN requests' = Slots /\ (\A t \in Slots : RequestOk(requests'[t]))
      /\ Claimed' = Claimed /\ \A t \in Slots : t # s => requests'[t] = requests[t]
  BY <1>2, <1>3, CoreDrops DEF ReaderInv
<1>5. PICK d : d = (poll.dirty \/ r.status # "ok")
  OBVIOUS
<1>6. /\ DOMAIN poll' = {"pc", "next", "slot", "dirty"} /\ poll'.next = poll.next /\ poll'.pc = "observe"
      /\ poll'.dirty = d /\ d \in BOOLEAN
  BY <1>2, <1>3, <1>5
<1>7. /\ DOMAIN rd' = {"init", "gen", "offset"} /\ rd'.gen = rd.gen
      /\ rd'.offset = (IF r.status = "ok" THEN poll.next ELSE rd.offset)
  BY <1>2, <1>3
<1>8. ReaderTypeOK' /\ Lines' = Lines
  BY <1>2, <1>3, <1>4, <1>6, <1>7 DEF ReaderInv, ReaderTypeOK, Lines
<1>9. CursorInv' /\ SendInv'
  BY <1>2, <1>6, <1>7 DEF ReaderInv, CursorInv, SendInv
<1>10. PassedInv'
  <2>1. SUFFICES ASSUME rd.gen = file.gen, NEW i \in 1 .. rd'.offset
                 PROVE  LineOk(Lines, file.lines[i], Claimed \cup passed, d)
    BY <1>2, <1>4, <1>6, <1>7, <1>8 DEF PassedInv
  <2>2. CASE i <= rd.offset
    <3>1. i \in 1 .. rd.offset
      BY <1>3, <1>7, <2>1, <2>2
    <3>2. LineOk(Lines, file.lines[i], Claimed \cup passed, poll.dirty)
      BY <2>1, <3>1 DEF ReaderInv, PassedInv
    <3>3. poll.dirty = TRUE => d = TRUE
      BY <1>5
    <3> QED BY <3>2, <3>3, LineStays
  <2>3. CASE i > rd.offset
    <3>1. r.status = "ok" /\ i \in 1 .. poll.next
      BY <1>3, <1>7, <2>1, <2>3
    <3>2. LineOk(Lines, file.lines[i], Ids(r.batch), poll.dirty)
      BY <1>1, <1>2, <2>1, <2>3, <3>1 DEF ReaderInv, SendInv
    <3>3. Ids(r.batch) \subseteq Claimed \cup passed
      BY <1>1, <1>3, <3>1 DEF ReaderInv, BatchInv, BatchOk
    <3>4. poll.dirty = TRUE => d = TRUE
      BY <1>5
    <3> QED BY <3>2, <3>3, <3>4, LineStays
  <2>4. i \in Nat
    BY <1>3, <1>7, <2>1
  <2> QED BY <1>3, <2>2, <2>3, <2>4
<1> QED BY <1>4, <1>8, <1>9, <1>10 DEF ReaderInv

LEMMA ObserveSteps == ASSUME ReaderInv, Observe PROVE ReaderInv'
<1>1. /\ UNCHANGED <<claims, requests, source, file, written, podGen, rd>> /\ poll' = Idle
      /\ passed' = IF poll.dirty
                   THEN passed \cup {n \in 1 .. written : Below(n) /\ Lines[n] = "named"}
                   ELSE passed
  BY DEF Observe, ingestVars, sourceVars
<1>2. ReaderTypeOK' /\ BatchInv'
  BY <1>1 DEF ReaderInv, ReaderTypeOK, BatchInv, Claimed, Idle
<1>3. CursorInv' /\ SendInv'
  BY <1>1 DEF ReaderInv, CursorInv, SendInv, Idle
<1>4. PassedInv'
  <2>1. SUFFICES ASSUME rd.gen = file.gen, NEW i \in 1 .. rd.offset
                 PROVE  LineOk(Lines, file.lines[i], Claimed \cup passed', FALSE)
    BY <1>1 DEF PassedInv, Claimed, Lines, Idle
  <2>2. LineOk(Lines, file.lines[i], Claimed \cup passed, poll.dirty)
    BY <2>1 DEF ReaderInv, PassedInv
  <2>3. CASE poll.dirty
    <3>1. PICK W, l : W = 1 .. written /\ l = file.lines
      OBVIOUS
    <3>2. l \in Seq(W) /\ i \in 1 .. Len(l)
      <4>1. l \in Seq(W) /\ rd.offset \in Nat /\ rd.offset <= Len(l)
        BY <2>1, <3>1 DEF ReaderInv, ReaderTypeOK, CursorInv
      <4>2. Len(l) \in Nat
        BY <4>1
      <4> QED BY <2>1, <4>1, <4>2
    <3>3. l[i] \in W
      BY <3>2
    <3>4. Below(l[i])
      BY <2>1, <3>1 DEF Below
    <3>5. Lines[l[i]] = "named" => l[i] \in passed'
      BY <1>1, <2>3, <3>1, <3>3, <3>4
    <3> QED BY <1>1, <2>2, <3>1, <3>5 DEF LineOk
  <2>4. CASE ~ poll.dirty
    BY <1>1, <2>2, <2>4 DEF LineOk
  <2> QED BY <2>3, <2>4
<1> QED BY <1>2, <1>3, <1>4 DEF ReaderInv

LEMMA RestartSteps == ASSUME ReaderInv, Restart PROVE ReaderInv'
<1>1. /\ UNCHANGED <<claims, requests, source, file, written, podGen, passed>>
      /\ poll' = Idle /\ rd' = ColdReader
  BY DEF Restart, ingestVars, sourceVars
<1>2. ReaderTypeOK' /\ BatchInv'
  BY <1>1 DEF ReaderInv, ReaderTypeOK, BatchInv, Claimed, Idle, ColdReader
<1>3. rd'.gen = 0 /\ rd'.offset = 0 /\ file'.gen > 0 /\ file'.gen \in Nat
  BY <1>1 DEF ReaderInv, ReaderTypeOK, ColdReader
<1>4. CursorInv' /\ SendInv' /\ PassedInv'
  BY <1>1, <1>3 DEF CursorInv, SendInv, PassedInv, Idle
<1> QED BY <1>2, <1>4 DEF ReaderInv

LEMMA ReaderNext == ReaderInv /\ [Next]_vars => ReaderInv'
<1> SUFFICES ASSUME ReaderInv, [Next]_vars PROVE ReaderInv'
  OBVIOUS
<1>1. CASE Poll
  <2>1. PICK s \in Slots, uid \in (IF Falco THEN 0 .. podGen ELSE {1}) : ReadAndSend(s, uid)
    BY <1>1 DEF Poll
  <2>2. uid \in Nat
    BY <2>1 DEF ReaderInv, ReaderTypeOK
  <2> QED BY <2>1, <2>2, ReadSteps
<1>2. CASE TimesOut
  <2>1. UNCHANGED <<claims, requests, sourceVars, rd, passed>> /\ poll.pc = "sending"
        /\ poll' = [poll EXCEPT !.pc = "observe", !.dirty = TRUE]
    BY <1>2 DEF TimesOut, ingestVars
  <2>2. CoreMoves
    BY <2>1 DEF CoreMoves, ReaderInv, BatchInv, Claimed, ReaderTypeOK
  <2>3. DOMAIN poll' = DOMAIN poll /\ poll'.next = poll.next /\ poll'.pc = "observe" /\ poll'.dirty = TRUE
    BY <2>1 DEF ReaderInv, ReaderTypeOK
  <2> QED BY <2>1, <2>2, <2>3, ReaderFrame
<1>3. CASE CoreStep \/ CoreFails \/ AnswerUnheard \/ \E p \in Pods : LearnPod(p)
  <2>1. CoreMoves /\ UNCHANGED <<sourceVars, rd, poll, passed>>
    BY <1>3, CoreEffect DEF ReaderInv
  <2> QED BY <2>1, ReaderFrame
<1>4. CASE UNCHANGED vars
  <2>1. UNCHANGED <<claims, requests, sourceVars, rd, poll, passed>>
    BY <1>4 DEF vars, sourceVars
  <2>2. CoreMoves
    BY <2>1 DEF CoreMoves, ReaderInv, BatchInv, Claimed, ReaderTypeOK
  <2> QED BY <2>1, <2>2, ReaderFrame
<1> QED BY <1>1, <1>2, <1>3, <1>4, FileSteps, SkipSteps, AnsweredSteps, ObserveSteps, RestartSteps DEF Next

LEMMA ReaderInit == Init => ReaderInv
<1> SUFFICES ASSUME Init PROVE ReaderInv
  OBVIOUS
<1>1. /\ requests = [s \in Slots |-> NoRequest] /\ file = [gen |-> 1, lines |-> <<>>] /\ written = 0
      /\ podGen = 1 /\ rd = ColdReader /\ poll = Idle
  BY DEF Init, IngestInit
<1>2. RequestOk(NoRequest) /\ BatchOk(NoRequest, Claimed)
  BY DEF RequestOk, BatchOk, NoRequest
<1>3. BatchInv /\ \A s \in Slots : RequestOk(requests[s])
  BY <1>1, <1>2 DEF BatchInv
<1>4. ReaderTypeOK
  BY <1>1, <1>3 DEF ReaderTypeOK, ColdReader, Idle
<1>5. CursorInv /\ SendInv /\ PassedInv
  BY <1>1 DEF CursorInv, SendInv, PassedInv, ColdReader, Idle
<1> QED BY <1>3, <1>4, <1>5 DEF ReaderInv

\* The cursor held in memory never passes a record that Core has not taken (readAndSend moves it
\* only for a 2xx answer): whatever time-outs, late answers, restarts and rotations happen, a line
\* below it is applied, holds no event, was there before Falco's reader started, or was counted as
\* dropped by a failed window.
THEOREM CursorFollowsCoreTheorem == Spec => []CursorFollowsCore
<1>1. ReaderInv => CursorFollowsCore
  <2> SUFFICES ASSUME ReaderInv, NEW n \in 1 .. written, Below(n)
               PROVE  n \in DOMAIN claims \/ Lines[n] = "bad" \/ n \in passed
                      \/ (Lines[n] = "named" /\ poll.dirty)
    BY DEF CursorFollowsCore
  <2>1. PICK i \in 1 .. rd.offset : file.lines[i] = n
    BY DEF Below
  <2>2. LineOk(Lines, n, Claimed \cup passed, poll.dirty)
    BY <2>1 DEF Below, ReaderInv, PassedInv
  <2> QED BY <2>2 DEF LineOk, Claimed
<1> QED BY <1>1, ReaderInit, ReaderNext, PTL DEF Spec

-----------------------------------------------------------------------------
(* PodEvents.  An event has one place in the two queues.  What a flush has  *)
(* in hand may be older, but then the newer version is in the queue, which  *)
(* is merged last; and what it has in hand is not in the quarantine, so     *)
(* that the informer never brings a newer version there.                    *)

Ev == [uid : EventUID, ver : Nat]
Chunk == [stage : {"queue", "quarantine"}, events : Seq(Ev)]
Apart(s) == \A i, j \in DOMAIN s : s[i].uid = s[j].uid => i = j

TodoEv(todo) == UNION {Range(todo[i].events) : i \in DOMAIN todo}
FlushEv(f) == Range(f.retry) \cup Range(f.denied) \cup Range(f.deferred) \cup TodoEv(f.todo)
FlushOk(f) == /\ DOMAIN f = {"pc", "todo", "left", "blocked", "retry", "denied", "deferred"}
              /\ f.retry \in Seq(Ev) /\ f.denied \in Seq(Ev) /\ f.deferred \in Seq(Ev)
              /\ f.todo \in Seq(Chunk)

EventsTypeOK ==
    /\ occurred \in [EventUID -> Nat] /\ seen \in [EventUID -> Nat] /\ accepted \in [EventUID -> Nat]
    /\ queue \in Seq(Ev) /\ quarantine \in Seq(Ev) /\ FlushOk(flush)
    /\ flush.pc = "idle" => flush = NoFlush

ApartInv ==
    /\ Apart(queue) /\ Apart(quarantine) /\ UIDs(queue) \cap UIDs(quarantine) = {}
    /\ \A e \in FlushEv(flush) : e.uid \notin UIDs(quarantine)

NewestInv ==
    /\ \A e \in Range(queue) \cup Range(quarantine) : e.uid \notin overflowed => e.ver = seen[e.uid]
    /\ \A e \in FlushEv(flush) : e.uid \notin overflowed /\ e.ver # seen[e.uid] => e.uid \in UIDs(queue)

KeptInv ==
    \A u \in EventUID \ overflowed : seen[u] # accepted[u] =>
        u \in UIDs(queue) \cup UIDs(quarantine) \cup {e.uid : e \in FlushEv(flush)}

EventsInv == EventsTypeOK /\ ApartInv /\ NewestInv /\ KeptInv

LEMMA SeqAndRange ==
    ASSUME NEW S, NEW s \in Seq(S)
    PROVE  /\ \A x : x \in Range(s) <=> \E i \in 1 .. Len(s) : x = s[i]
           /\ \A x \in Range(s) : x \in S
           /\ s \in Seq(Range(s))
<1>1. DOMAIN s = 1 .. Len(s)
  OBVIOUS
<1>2. \A x : x \in Range(s) <=> \E i \in 1 .. Len(s) : x = s[i]
  BY <1>1 DEF Range
<1>3. s = [i \in 1 .. Len(s) |-> s[i]]
  OBVIOUS
<1>4. s \in Seq(Range(s))
  BY <1>2, <1>3
<1>5. \A x \in Range(s) : x \in S
  BY <1>2
<1> QED BY <1>2, <1>4, <1>5

LEMMA UIDsOf == ASSUME NEW s \in Seq(Ev)
                PROVE  /\ UIDs(s) = {e.uid : e \in Range(s)}
                       /\ \A e \in Range(s) : e \in Ev
                       /\ DOMAIN s = 1 .. Len(s)
<1>1. DOMAIN s = 1 .. Len(s)
  OBVIOUS
<1>2. (\A e \in Range(s) : e \in Ev) /\ \A x : x \in Range(s) <=> \E i \in 1 .. Len(s) : x = s[i]
  BY SeqAndRange
<1>3. UIDs(s) = {e.uid : e \in Range(s)}
  BY <1>1, <1>2 DEF UIDs
<1> QED BY <1>1, <1>2, <1>3

LEMMA PutFacts ==
    ASSUME NEW s \in Seq(Ev), NEW e \in Ev, Apart(s), NEW t, t = Put(s, e)
    PROVE  /\ t \in Seq(Ev) /\ Apart(t) /\ UIDs(t) = UIDs(s) \cup {e.uid}
           /\ \A x \in Range(t) : x = e \/ (x \in Range(s) /\ x.uid # e.uid)
<1>1. DOMAIN s = 1 .. Len(s) /\ Len(s) \in Nat /\ \A i \in 1 .. Len(s) : s[i] \in Ev /\ s[i] \in Range(s)
  BY SeqAndRange
<1>2. CASE e.uid \in UIDs(s)
  <2>1. t = [i \in 1 .. Len(s) |-> IF s[i].uid = e.uid THEN e ELSE s[i]]
    BY <1>1, <1>2 DEF Put
  <2>2. t \in [1 .. Len(s) -> Ev]
    BY <1>1, <2>1
  <2>3. t \in Seq(Ev) /\ DOMAIN t = 1 .. Len(s) /\ Len(t) = Len(s)
    BY <1>1, <2>2
  <2>4. \A i \in 1 .. Len(s) : t[i].uid = s[i].uid /\ (t[i] = e \/ (t[i] = s[i] /\ s[i].uid # e.uid))
    BY <2>1
  <2>5. Apart(t)
    BY <1>1, <2>3, <2>4 DEF Apart
  <2>6. UIDs(t) = UIDs(s)
    BY <1>1, <2>3, <2>4 DEF UIDs
  <2>7. \A x \in Range(t) : x = e \/ (x \in Range(s) /\ x.uid # e.uid)
    <3>1. \A x \in Range(t) : \E i \in 1 .. Len(s) : x = t[i]
      BY <2>3, SeqAndRange
    <3> QED BY <1>1, <2>4, <3>1
  <2> QED BY <1>2, <2>3, <2>5, <2>6, <2>7
<1>3. CASE e.uid \notin UIDs(s)
  <2>1. t = Append(s, e)
    BY <1>3 DEF Put
  <2>2. t \in Seq(Ev) /\ Len(t) = Len(s) + 1 /\ t[Len(s) + 1] = e /\ \A i \in 1 .. Len(s) : t[i] = s[i]
    BY <1>1, <2>1
  <2>3. DOMAIN t = 1 .. Len(s) + 1
    BY <2>2
  <2>4. \A i \in 1 .. Len(s) + 1 : i = Len(s) + 1 \/ i \in 1 .. Len(s)
    BY <1>1
  <2>5. \A i \in 1 .. Len(s) : s[i].uid # e.uid
    BY <1>1, <1>3 DEF UIDs
  <2>6. Apart(t)
    <3> SUFFICES ASSUME NEW i \in 1 .. Len(s) + 1, NEW j \in 1 .. Len(s) + 1, t[i].uid = t[j].uid
                 PROVE  i = j
      BY <2>3 DEF Apart
    <3>1. CASE i \in 1 .. Len(s) /\ j \in 1 .. Len(s)
      BY <1>1, <2>2, <3>1 DEF Apart
    <3>2. CASE i \in 1 .. Len(s) /\ j = Len(s) + 1
      BY <2>2, <2>5, <3>2
    <3>3. CASE i = Len(s) + 1 /\ j \in 1 .. Len(s)
      BY <2>2, <2>5, <3>3
    <3> QED BY <2>4, <3>1, <3>2, <3>3
  <2>7. UIDs(t) = UIDs(s) \cup {e.uid}
    <3>1. Len(s) + 1 \in 1 .. Len(s) + 1 /\ 1 .. Len(s) \subseteq 1 .. Len(s) + 1
      BY <1>1
    <3>2. ASSUME NEW v \in UIDs(t) PROVE v \in UIDs(s) \cup {e.uid}
      <4>1. PICK i \in 1 .. Len(s) + 1 : v = t[i].uid
        BY <2>3 DEF UIDs
      <4>2. CASE i \in 1 .. Len(s)
        BY <1>1, <2>2, <4>1, <4>2 DEF UIDs
      <4>3. CASE i = Len(s) + 1
        BY <2>2, <4>1, <4>3
      <4> QED BY <2>4, <4>2, <4>3
    <3>3. ASSUME NEW v \in UIDs(s) PROVE v \in UIDs(t)
      <4>1. PICK i \in 1 .. Len(s) : v = s[i].uid
        BY <1>1 DEF UIDs
      <4>2. v = t[i].uid /\ i \in DOMAIN t
        BY <2>2, <2>3, <3>1, <4>1
      <4> QED BY <4>2 DEF UIDs
    <3>4. e.uid \in UIDs(t)
      BY <2>2, <2>3, <3>1 DEF UIDs
    <3> QED BY <3>2, <3>3, <3>4
  <2>8. \A x \in Range(t) : x = e \/ (x \in Range(s) /\ x.uid # e.uid)
    <3>1. \A x \in Range(t) : \E i \in 1 .. Len(s) + 1 : x = t[i]
      BY <2>3 DEF Range
    <3> QED BY <1>1, <2>2, <2>4, <2>5, <3>1
  <2> QED BY <2>2, <2>6, <2>7, <2>8
<1> QED BY <1>2, <1>3

\* f[i] is what Merged has after i events.
Fold(f, s, es, U, n) ==
    /\ f = [i \in 0 .. n |-> f[i]]
    /\ \A i \in 0 .. n : f[i] = IF i = 0 THEN s
                                ELSE IF es[i].uid \in U THEN Put(f[i - 1], es[i]) ELSE f[i - 1]

LEMMA FoldExists ==
    ASSUME NEW s, NEW es, NEW U, NEW n \in Nat
    PROVE  \E f : Fold(f, s, es, U, n)
<1>1. PICK B : B = {k \in 0 .. n : ~ \E f : Fold(f, s, es, U, k)}
  OBVIOUS
<1>2. n \in 0 .. n
  OBVIOUS
<1>3. SUFFICES ASSUME B # {} PROVE FALSE
  BY <1>1, <1>2, Zenon
<1>4. \A k \in B : k \in Nat
  BY <1>1
<1>5. PICK k \in B : \A j \in B : k <= j
  BY <1>3, <1>4, NatMin
<1>6. k \in 0 .. n /\ ~ \E f : Fold(f, s, es, U, k)
  BY <1>1
<1>7. Fold([i \in 0 .. 0 |-> s], s, es, U, 0)
  BY DEF Fold
<1>8. k # 0
  BY <1>6, <1>7
<1>9. k - 1 \in 0 .. n /\ k - 1 \notin B
  BY <1>5, <1>6, <1>8
<1>10. PICK f : Fold(f, s, es, U, k - 1)
  BY <1>1, <1>9
<1>11. PICK g : g = [i \in 0 .. k |-> IF i = 0 THEN s
                                      ELSE IF es[i].uid \in U THEN Put(f[i - 1], es[i]) ELSE f[i - 1]]
  OBVIOUS
<1>12. g = [i \in 0 .. k |-> g[i]]
  BY <1>11
<1>13. ASSUME NEW i \in 0 .. k
       PROVE  g[i] = IF i = 0 THEN s ELSE IF es[i].uid \in U THEN Put(g[i - 1], es[i]) ELSE g[i - 1]
  <2>1. CASE i = 0
    BY <1>11, <2>1
  <2>2. CASE i # 0
    <3>1. i - 1 \in 0 .. k - 1 /\ i - 1 \in 0 .. k
      BY <1>6, <2>2
    <3>2. f[i - 1] = IF i - 1 = 0 THEN s
                     ELSE IF es[i - 1].uid \in U THEN Put(f[(i - 1) - 1], es[i - 1]) ELSE f[(i - 1) - 1]
      BY <3>1, <1>10 DEF Fold
    <3>3. g[i - 1] = f[i - 1]
      BY <1>11, <3>1, <3>2
    <3> QED
      BY <1>11, <2>2, <3>3
  <2> QED
    BY <2>1, <2>2
<1>14. Fold(g, s, es, U, k)
  BY <1>12, <1>13 DEF Fold
<1> QED
  BY <1>6, <1>14

LEMMA MergedFold ==
    ASSUME NEW s, NEW es, NEW U, Len(es) \in Nat
    PROVE  \E f : Fold(f, s, es, U, Len(es)) /\ Merged(s, es, U) = f[Len(es)]
<1> DEFINE m == CHOOSE f : f = [i \in 0 .. Len(es) |-> IF i = 0 THEN s
                                 ELSE IF es[i].uid \in U THEN Put(f[i - 1], es[i]) ELSE f[i - 1]]
<1>1. PICK g : Fold(g, s, es, U, Len(es))
  BY FoldExists
<1>2. g = [i \in 0 .. Len(es) |-> IF i = 0 THEN s
                                 ELSE IF es[i].uid \in U THEN Put(g[i - 1], es[i]) ELSE g[i - 1]]
  BY <1>1 DEF Fold
<1>3. m = [i \in 0 .. Len(es) |-> IF i = 0 THEN s
                                 ELSE IF es[i].uid \in U THEN Put(m[i - 1], es[i]) ELSE m[i - 1]]
  BY <1>2
<1>4. Merged(s, es, U) = m[Len(es)]
  BY DEF Merged
<1> HIDE DEF m
<1>5. Fold(m, s, es, U, Len(es))
  BY <1>3 DEF Fold
<1> QED BY <1>4, <1>5

\* What Merged returns after the first n events of es: each UID once, and its last version.
LastOf(x, s, es, U, n) ==
    \/ x \in Range(s) /\ \A j \in 1 .. n : es[j].uid = x.uid => x.uid \notin U
    \/ \E j \in 1 .. n : /\ es[j] = x /\ x.uid \in U
                         /\ \A k \in 1 .. n : k > j => es[k].uid # x.uid
MergedOk(r, s, es, U, n) ==
    /\ r \in Seq(Ev) /\ Apart(r)
    /\ UIDs(s) \subseteq UIDs(r)
    /\ \A j \in 1 .. n : es[j].uid \in U => es[j].uid \in UIDs(r)
    /\ \A x \in Range(r) : LastOf(x, s, es, U, n)

LEMMA MergedStep ==
    ASSUME NEW s \in Seq(Ev), NEW es \in Seq(Ev), NEW U, NEW k \in Nat, NEW n, n = k + 1, n \in 1 .. Len(es),
           NEW q, MergedOk(q, s, es, U, k),
           NEW r, r = IF es[n].uid \in U THEN Put(q, es[n]) ELSE q
    PROVE  MergedOk(r, s, es, U, n)
<1>1. PICK e : e = es[n]
  OBVIOUS
<1>2. e \in Ev /\ q \in Seq(Ev) /\ Apart(q)
  BY <1>1 DEF MergedOk
<1>3. (\A j \in 1 .. n : j = n \/ j \in 1 .. k) /\ n \in 1 .. n /\ (\A j \in 1 .. k : j \in 1 .. n /\ n > j)
  OBVIOUS
<1>4. CASE e.uid \in U
  <2>1. /\ r \in Seq(Ev) /\ Apart(r) /\ UIDs(r) = UIDs(q) \cup {e.uid}
        /\ \A x \in Range(r) : x = e \/ (x \in Range(q) /\ x.uid # e.uid)
    BY <1>1, <1>2, <1>4, PutFacts
  <2>2. \A j \in 1 .. n : es[j].uid \in U => es[j].uid \in UIDs(r)
    BY <1>1, <1>3, <2>1 DEF MergedOk
  <2>3. ASSUME NEW x \in Range(r) PROVE LastOf(x, s, es, U, n)
    <3>1. CASE x = e
      <4>1. ~ \E j \in 1 .. n : j > n
        BY <1>3
      <4> QED BY <1>1, <1>3, <1>4, <3>1, <4>1 DEF LastOf
    <3>2. CASE x \in Range(q) /\ x.uid # e.uid
      <4>1. LastOf(x, s, es, U, k)
        BY <3>2 DEF MergedOk
      <4>2. CASE x \in Range(s) /\ \A j \in 1 .. k : es[j].uid = x.uid => x.uid \notin U
        BY <1>1, <1>3, <3>2, <4>2 DEF LastOf
      <4>3. CASE \E j \in 1 .. k : /\ es[j] = x /\ x.uid \in U
                                   /\ \A h \in 1 .. k : h > j => es[h].uid # x.uid
        BY <1>1, <1>3, <3>2, <4>3 DEF LastOf
      <4> QED BY <4>1, <4>2, <4>3 DEF LastOf
    <3> QED BY <2>1, <3>1, <3>2
  <2>4. UIDs(s) \subseteq UIDs(r)
    BY <2>1 DEF MergedOk
  <2> QED BY <2>1, <2>2, <2>3, <2>4 DEF MergedOk
<1>5. CASE e.uid \notin U
  <2>1. r = q
    BY <1>1, <1>5
  <2>2. \A j \in 1 .. n : es[j].uid \in U => es[j].uid \in UIDs(r)
    BY <1>1, <1>3, <1>5, <2>1 DEF MergedOk
  <2>3. ASSUME NEW x \in Range(r) PROVE LastOf(x, s, es, U, n)
    <3>1. LastOf(x, s, es, U, k)
      BY <2>1 DEF MergedOk
    <3>2. CASE x \in Range(s) /\ \A j \in 1 .. k : es[j].uid = x.uid => x.uid \notin U
      BY <1>1, <1>3, <1>5, <3>2 DEF LastOf
    <3>3. CASE \E j \in 1 .. k : /\ es[j] = x /\ x.uid \in U
                                 /\ \A h \in 1 .. k : h > j => es[h].uid # x.uid
      BY <1>1, <1>3, <1>5, <3>3 DEF LastOf
    <3> QED BY <3>1, <3>2, <3>3 DEF LastOf
  <2> QED BY <2>1, <2>2, <2>3 DEF MergedOk
<1> QED BY <1>4, <1>5

LEMMA MergedFacts ==
    ASSUME NEW s \in Seq(Ev), NEW es \in Seq(Ev), NEW U, Apart(s)
    PROVE  MergedOk(Merged(s, es, U), s, es, U, Len(es))
<1>1. Len(es) \in Nat
  OBVIOUS
<1>2. PICK f : Fold(f, s, es, U, Len(es)) /\ Merged(s, es, U) = f[Len(es)]
  BY <1>1, MergedFold
<1>3. PICK B : B = {i \in 0 .. Len(es) : ~ MergedOk(f[i], s, es, U, i)}
  OBVIOUS
<1>4. SUFFICES ASSUME B # {} PROVE FALSE
  <2>1. Len(es) \in 0 .. Len(es)
    BY <1>1
  <2> QED BY <1>2, <1>3, <1>4, <2>1
<1>5. \A i \in B : i \in Nat
  BY <1>3
<1>6. PICK n \in B : \A j \in B : n <= j
  BY <1>4, <1>5, NatMin
<1>7. n \in 0 .. Len(es) /\ ~ MergedOk(f[n], s, es, U, n)
  BY <1>3
<1>8. n # 0
  <2>1. f[0] = s
    BY <1>1, <1>2 DEF Fold
  <2>2. MergedOk(s, s, es, U, 0)
    BY DEF MergedOk, LastOf
  <2> QED BY <1>7, <2>1, <2>2
<1>9. PICK k : k = n - 1
  OBVIOUS
<1>10. k \in Nat /\ n = k + 1 /\ n \in 1 .. Len(es) /\ k \in 0 .. Len(es) /\ k \notin B
  BY <1>1, <1>6, <1>7, <1>8, <1>9
<1>11. MergedOk(f[k], s, es, U, k)
  BY <1>3, <1>10
<1>12. f[n] = IF es[n].uid \in U THEN Put(f[k], es[n]) ELSE f[k]
  BY <1>2, <1>7, <1>8, <1>9 DEF Fold
<1>13. PICK q, r : q = f[k] /\ r = f[n]
  OBVIOUS
<1>14. MergedOk(r, s, es, U, n)
  BY <1>10, <1>11, <1>12, <1>13, MergedStep
<1> QED BY <1>7, <1>13, <1>14

\* Dropping the oldest.
LEMMA TrimFacts ==
    ASSUME NEW s \in Seq(Ev), Apart(s), NEW t, t = Trim(s)
    PROVE  /\ t \in Seq(Ev) /\ Apart(t) /\ Range(t) \subseteq Range(s)
           /\ UIDs(t) \subseteq UIDs(s) /\ Overflow(s) = UIDs(s) \ UIDs(t)
<1>1. EventsQuarantineMax \in Nat /\ EventsQuarantineMax > 0
  BY EventsAssumption
<1>2. Overflow(s) = UIDs(s) \ UIDs(t)
  BY DEF Overflow
<1>3. CASE ~ (Len(s) > EventsQuarantineMax)
  <2>1. t = s
    BY <1>3 DEF Trim
  <2> QED BY <1>2, <2>1
<1>4. CASE Len(s) > EventsQuarantineMax
  <2>1. PICK a, n : a = Len(s) - EventsQuarantineMax /\ n = Len(s)
    OBVIOUS
  <2>2. n \in Nat /\ a \in Nat /\ a <= n
    BY <1>1, <1>4, <2>1
  <2>3. t = SubSeq(s, a + 1, n)
    BY <1>4, <2>1 DEF Trim, Newest
  <2>4. a \in 0 .. Len(s) /\ n \in 0 .. Len(s)
    BY <2>1, <2>2
  <2>5. /\ t \in Seq(Ev) /\ Len(t) = IF a <= n THEN n - a ELSE 0
        /\ \A i \in 1 .. n - a : t[i] = s[a + i]
    BY <2>3, <2>4, Slice
  <2>6. Len(t) = n - a /\ DOMAIN t = 1 .. n - a /\ DOMAIN s = 1 .. n
    BY <2>1, <2>2, <2>5
  <2>7. \A i \in 1 .. n - a : a + i \in 1 .. n
    BY <2>2
  <2>8. Apart(t)
    <3> SUFFICES ASSUME NEW i \in 1 .. n - a, NEW j \in 1 .. n - a, t[i].uid = t[j].uid PROVE i = j
      BY <2>6 DEF Apart
    <3>1. a + i = a + j
      BY <2>5, <2>6, <2>7 DEF Apart
    <3> QED BY <2>2, <3>1
  <2>9. Range(t) \subseteq Range(s) /\ UIDs(t) \subseteq UIDs(s)
    BY <2>5, <2>6, <2>7 DEF Range, UIDs
  <2> QED BY <1>2, <2>5, <2>8, <2>9
<1> QED BY <1>3, <1>4

-----------------------------------------------------------------------------
(* Batches of at most EventsBatchMax events.                                *)

LEMMA Division ==
    ASSUME NEW x \in Nat, NEW b \in Nat, b > 0
    PROVE  x \div b \in Nat /\ (x \div b) * b <= x /\ x < (x \div b) * b + b
  OBVIOUS

LEMMA Products ==
    ASSUME NEW b \in Nat, b > 0
    PROVE  /\ \A i \in Nat : i * b \in Nat /\ i <= i * b /\ (i - 1) * b = i * b - b
           /\ \A i, j \in Nat : i <= j => i * b <= j * b
           /\ \A i, j \in Nat : i * b < j * b + b => i <= j
<1>1. \A i \in Nat : i * b \in Nat /\ i <= i * b /\ (i - 1) * b = i * b - b
  OBVIOUS
<1>2. \A i, j \in Nat : i <= j => i * b <= j * b
  OBVIOUS
<1>3. ASSUME NEW i \in Nat, NEW j \in Nat, i * b < j * b + b PROVE i <= j
  <2>1. (j + 1) * b = j * b + b
    OBVIOUS
  <2>2. ~ (j + 1 <= i)
    BY <1>2, <1>3, <2>1
  <2> QED BY <2>2
<1> QED BY <1>1, <1>2, <1>3

LEMMA ChunksFacts ==
    ASSUME NEW s \in Seq(Ev), NEW stage \in {"queue", "quarantine"}
    PROVE  Chunks(s, stage) \in Seq(Chunk) /\ TodoEv(Chunks(s, stage)) = Range(s)
<1>1. PICK b, n, m : b = EventsBatchMax /\ n = Len(s) /\ m = (Len(s) + EventsBatchMax - 1) \div EventsBatchMax
  OBVIOUS
<1>2. b \in Nat /\ b > 0 /\ n \in Nat
  BY <1>1, EventsAssumption
<1>3. PICK x : x = n + b - 1
  OBVIOUS
<1>4. x \in Nat /\ m = x \div b
  BY <1>1, <1>2, <1>3
<1>5. m \in Nat /\ m * b <= x /\ x < m * b + b
  BY <1>2, <1>4, Division
<1>6. /\ \A i \in Nat : i * b \in Nat /\ i <= i * b /\ (i - 1) * b = i * b - b
      /\ \A i, j \in Nat : i <= j => i * b <= j * b
      /\ \A i, j \in Nat : i * b < j * b + b => i <= j
  BY <1>2, Products
<1>7. PICK c : c = Chunks(s, stage)
  OBVIOUS
<1>8. c = [i \in 1 .. m |-> [stage |-> stage,
                             events |-> SubSeq(s, (i - 1) * b + 1, IF i * b < n THEN i * b ELSE n)]]
  BY <1>1, <1>7, Zenon DEF Chunks
<1>9. ASSUME NEW i \in 1 .. m
      PROVE  \E lo \in 0 .. n, hi \in 0 .. n :
                /\ lo = i * b - b /\ hi = (IF i * b < n THEN i * b ELSE n) /\ lo <= hi
                /\ c[i] \in Chunk /\ c[i].events = SubSeq(s, lo + 1, hi)
  <2>1. PICK p : p = i * b
    OBVIOUS
  <2>2. i \in Nat /\ i <= m
    BY <1>5
  <2>3. p \in Nat /\ (i - 1) * b = p - b /\ p <= m * b /\ i <= p
    BY <1>5, <1>6, <2>1, <2>2
  <2>4. p >= b
    <3>1. 1 <= i /\ 1 * b = b
      BY <1>2, <2>2
    <3> QED BY <1>6, <2>1, <2>2, <3>1
  <2>5. m * b \in Nat
    BY <1>5, <1>6
  <2>6. p <= x
    BY <1>4, <1>5, <2>3, <2>5
  <2>7. PICK lo, hi : lo = p - b /\ hi = (IF p < n THEN p ELSE n)
    OBVIOUS
  <2>8. lo \in 0 .. n /\ hi \in 0 .. n /\ lo <= hi
    BY <1>2, <1>3, <2>3, <2>4, <2>6, <2>7
  <2>9. c[i] = [stage |-> stage, events |-> SubSeq(s, lo + 1, hi)]
    BY <1>8, <2>1, <2>3, <2>7
  <2>10. lo \in 0 .. Len(s) /\ hi \in 0 .. Len(s)
    BY <1>1, <2>8
  <2>11. SubSeq(s, lo + 1, hi) \in Seq(Ev)
    BY <2>10, Slice
  <2>12. c[i] \in Chunk /\ c[i].events = SubSeq(s, lo + 1, hi)
    BY <2>9, <2>11 DEF Chunk
  <2> QED BY <2>1, <2>7, <2>8, <2>12
<1>10. c \in Seq(Chunk) /\ DOMAIN c = 1 .. m
  <2>1. \A i \in 1 .. m : c[i] \in Chunk
    BY <1>9
  <2>2. c = [i \in 1 .. m |-> c[i]]
    BY <1>8
  <2>3. c \in [1 .. m -> Chunk]
    BY <2>1, <2>2
  <2> QED BY <1>5, <2>3
<1>11. ASSUME NEW i \in 1 .. m, NEW e \in Range(c[i].events) PROVE e \in Range(s)
  <2>1. PICK lo \in 0 .. n, hi \in 0 .. n : lo <= hi /\ c[i].events = SubSeq(s, lo + 1, hi)
    BY <1>9
  <2>2. lo \in 0 .. Len(s) /\ hi \in 0 .. Len(s)
    BY <1>1
  <2>3. PICK t : t = SubSeq(s, lo + 1, hi)
    OBVIOUS
  <2>4. t \in Seq(Ev) /\ Len(t) = hi - lo /\ \A k \in 1 .. hi - lo : t[k] = s[lo + k]
    BY <2>1, <2>2, <2>3, Slice
  <2>5. PICK k \in 1 .. Len(t) : e = t[k]
    <3>1. e \in Range(t)
      BY <1>11, <2>1, <2>3
    <3> QED BY <2>4, <3>1, SeqAndRange
  <2>6. lo + k \in 1 .. Len(s) /\ e = s[lo + k]
    BY <1>1, <1>2, <2>1, <2>4, <2>5
  <2> QED BY <2>6, SeqAndRange
<1>12. ASSUME NEW e \in Range(s) PROVE \E i \in 1 .. m : e \in Range(c[i].events)
  <2>1. PICK k \in 1 .. Len(s) : e = s[k]
    BY SeqAndRange
  <2>2. PICK B : B = {i \in Nat : k <= i * b}
    OBVIOUS
  <2>3. k \in Nat /\ k > 0 /\ k <= n
    BY <1>1, <1>2
  <2>4. k \in B /\ \A i \in B : i \in Nat
    BY <1>6, <2>2, <2>3
  <2>5. PICK i \in B : \A j \in B : i <= j
    BY <2>4, NatMin
  <2>6. i \in Nat /\ k <= i * b /\ i * b \in Nat /\ (i - 1) * b = i * b - b
    BY <1>6, <2>2
  <2>7. i # 0
    BY <1>2, <2>3, <2>6
  <2>8. i * b - b < k
    <3>1. i - 1 \in Nat /\ i - 1 \notin B
      BY <2>5, <2>6, <2>7
    <3>2. ~ (k <= (i - 1) * b)
      BY <2>2, <3>1
    <3> QED BY <1>2, <2>3, <2>6, <3>2
  <2>9. i <= m
    <3>1. i * b <= x
      BY <1>2, <1>3, <2>3, <2>6, <2>8
    <3>2. m * b \in Nat
      BY <1>5, <1>6
    <3>3. i * b < m * b + b
      BY <1>2, <1>4, <1>5, <2>6, <3>1, <3>2
    <3> QED BY <1>5, <1>6, <2>6, <3>3
  <2>10. i \in 1 .. m
    BY <1>5, <2>6, <2>7, <2>9
  <2>11. PICK lo \in 0 .. n, hi \in 0 .. n :
            /\ lo = i * b - b /\ hi = (IF i * b < n THEN i * b ELSE n) /\ lo <= hi
            /\ c[i].events = SubSeq(s, lo + 1, hi)
    BY <1>9, <2>10
  <2>12. lo \in 0 .. Len(s) /\ hi \in 0 .. Len(s)
    BY <1>1
  <2>13. PICK t : t = SubSeq(s, lo + 1, hi)
    OBVIOUS
  <2>14. t \in Seq(Ev) /\ Len(t) = hi - lo /\ \A j \in 1 .. hi - lo : t[j] = s[lo + j]
    BY <2>11, <2>12, <2>13, Slice
  <2>15. PICK j : j = k - lo
    OBVIOUS
  <2>16. j \in 1 .. hi - lo /\ lo + j = k
    BY <1>2, <2>3, <2>6, <2>8, <2>11, <2>15
  <2>17. t[j] = e /\ j \in 1 .. Len(t)
    BY <2>1, <2>14, <2>16
  <2>18. e \in Range(t)
    BY <2>14, <2>17, SeqAndRange
  <2> QED BY <2>10, <2>11, <2>13, <2>18
<1>13. TodoEv(c) = Range(s)
  BY <1>10, <1>11, <1>12 DEF TodoEv
<1> QED BY <1>7, <1>10, <1>13

LEMMA RangeJoin ==
    ASSUME NEW S, NEW s \in Seq(S), NEW t \in Seq(S)
    PROVE  s \o t \in Seq(S) /\ Range(s \o t) = Range(s) \cup Range(t)
<1>1. PICK r, m, n : r = s \o t /\ m = Len(s) /\ n = Len(t)
  OBVIOUS
<1>2. m \in Nat /\ n \in Nat /\ r \in Seq(S) /\ Len(r) = m + n
  BY <1>1
<1>3. (\A i \in 1 .. m : r[i] = s[i]) /\ \A i \in 1 .. n : r[m + i] = t[i]
  BY <1>1
<1>4. /\ \A x : x \in Range(s) <=> \E i \in 1 .. m : x = s[i]
      /\ \A x : x \in Range(t) <=> \E i \in 1 .. n : x = t[i]
      /\ \A x : x \in Range(r) <=> \E i \in 1 .. m + n : x = r[i]
  <2>1. \A x : x \in Range(s) <=> \E i \in 1 .. m : x = s[i]
    BY <1>1, SeqAndRange
  <2>2. \A x : x \in Range(t) <=> \E i \in 1 .. n : x = t[i]
    BY <1>1, SeqAndRange
  <2>3. \A x : x \in Range(r) <=> \E i \in 1 .. Len(r) : x = r[i]
    BY <1>2, SeqAndRange
  <2> QED BY <1>2, <2>1, <2>2, <2>3
<1>5. ASSUME NEW x \in Range(s) PROVE x \in Range(r)
  <2>1. PICK i \in 1 .. m : x = s[i]
    BY <1>4
  <2>2. i \in 1 .. m + n /\ x = r[i]
    BY <1>2, <1>3, <2>1
  <2> QED BY <1>4, <2>2
<1>6. ASSUME NEW x \in Range(t) PROVE x \in Range(r)
  <2>1. PICK i \in 1 .. n : x = t[i]
    BY <1>4
  <2>2. m + i \in 1 .. m + n /\ x = r[m + i]
    BY <1>2, <1>3, <2>1
  <2> QED BY <1>4, <2>2
<1>7. ASSUME NEW x \in Range(r) PROVE x \in Range(s) \cup Range(t)
  <2>1. PICK i \in 1 .. m + n : x = r[i]
    BY <1>4
  <2>2. CASE i \in 1 .. m
    BY <1>3, <1>4, <2>1, <2>2
  <2>3. CASE i \notin 1 .. m
    <3>1. PICK j : j = i - m
      OBVIOUS
    <3>2. j \in 1 .. n /\ i = m + j
      BY <1>2, <2>3, <3>1
    <3> QED BY <1>3, <1>4, <2>1, <3>2
  <2> QED BY <2>2, <2>3
<1> QED BY <1>1, <1>2, <1>5, <1>6, <1>7

\* The events of batches, from the batches as a set.
LEMMA TodoIs == ASSUME NEW a \in Seq(Chunk)
                PROVE  /\ TodoEv(a) = UNION {Range(c.events) : c \in Range(a)}
                       /\ \A c \in Range(a) : c \in Chunk
<1>1. DOMAIN a = 1 .. Len(a) /\ \A x : x \in Range(a) <=> \E i \in 1 .. Len(a) : x = a[i]
  BY SeqAndRange
<1>2. \A c \in Range(a) : c \in Chunk
  BY SeqAndRange
<1>3. TodoEv(a) = UNION {Range(c.events) : c \in Range(a)}
  BY <1>1 DEF TodoEv
<1> QED BY <1>2, <1>3

LEMMA RangeOne == ASSUME NEW x PROVE Range(<<x>>) = {x}
  BY DEF Range

LEMMA TodoJoin ==
    ASSUME NEW a \in Seq(Chunk), NEW b \in Seq(Chunk)
    PROVE  a \o b \in Seq(Chunk) /\ TodoEv(a \o b) = TodoEv(a) \cup TodoEv(b)
<1>1. a \o b \in Seq(Chunk) /\ Range(a \o b) = Range(a) \cup Range(b)
  BY RangeJoin
<1>2. /\ TodoEv(a) = UNION {Range(c.events) : c \in Range(a)}
      /\ TodoEv(b) = UNION {Range(c.events) : c \in Range(b)}
      /\ TodoEv(a \o b) = UNION {Range(c.events) : c \in Range(a \o b)}
  BY <1>1, TodoIs
<1> QED BY <1>1, <1>2

LEMMA TodoHead ==
    ASSUME NEW a \in Seq(Chunk), a # <<>>
    PROVE  /\ Head(a) \in Chunk /\ Tail(a) \in Seq(Chunk)
           /\ TodoEv(a) = Range(Head(a).events) \cup TodoEv(Tail(a))
<1>1. PICK c, t : c = Head(a) /\ t = Tail(a)
  OBVIOUS
<1>2. c \in Chunk /\ t \in Seq(Chunk) /\ <<c>> \in Seq(Chunk)
  BY <1>1
<1>3. a = <<c>> \o t
  <2>1. Len(a) \in Nat /\ Len(a) > 0 /\ Len(t) = Len(a) - 1
    BY <1>1
  <2>2. Len(<<c>>) = 1 /\ <<c>>[1] = a[1]
    BY <1>1
  <2>3. Len(<<c>> \o t) = Len(a)
    BY <1>2, <2>1, <2>2
  <2>4. ASSUME NEW i \in 1 .. Len(a) PROVE (<<c>> \o t)[i] = a[i]
    <3>1. CASE i = 1
      BY <1>2, <2>2, <3>1
    <3>2. CASE i # 1
      <4>1. i - 1 \in 1 .. Len(t)
        BY <2>1, <3>2
      <4>2. t[i - 1] = a[i]
        BY <1>1, <2>1, <4>1
      <4>3. (<<c>> \o t)[1 + (i - 1)] = t[i - 1]
        BY <1>2, <2>2, <4>1
      <4>4. 1 + (i - 1) = i
        OBVIOUS
      <4> QED BY <4>2, <4>3, <4>4
    <3> QED BY <3>1, <3>2
  <2>5. <<c>> \o t \in Seq(Chunk)
    BY <1>2
  <2> QED BY <2>3, <2>4, <2>5, SeqEqual
<1>4. TodoEv(<<c>>) = Range(c.events)
  <2>1. TodoEv(<<c>>) = UNION {Range(d.events) : d \in Range(<<c>>)}
    BY <1>2, TodoIs
  <2>2. Range(<<c>>) = {c}
    BY RangeOne
  <2> QED BY <2>1, <2>2
<1>5. TodoEv(<<c>> \o t) = TodoEv(<<c>>) \cup TodoEv(t)
  BY <1>2, TodoJoin
<1> QED BY <1>1, <1>2, <1>3, <1>4, <1>5

LEMMA SplitAt ==
    ASSUME NEW s \in Seq(Ev), NEW mid \in 0 .. Len(s)
    PROVE  /\ SubSeq(s, 1, mid) \in Seq(Ev) /\ SubSeq(s, mid + 1, Len(s)) \in Seq(Ev)
           /\ Range(s) = Range(SubSeq(s, 1, mid)) \cup Range(SubSeq(s, mid + 1, Len(s)))
<1>1. PICK n : n = Len(s)
  OBVIOUS
<1>2. n \in Nat /\ mid \in Nat /\ mid <= n
  BY <1>1
<1>3. 0 \in 0 .. Len(s) /\ n \in 0 .. Len(s)
  BY <1>1, <1>2
<1>4. PICK a, b : a = SubSeq(s, 1, mid) /\ b = SubSeq(s, mid + 1, n)
  OBVIOUS
<1>5. a = SubSeq(s, 0 + 1, mid)
  BY <1>4
<1>6. a \in Seq(Ev) /\ Len(a) = mid /\ \A i \in 1 .. mid : a[i] = s[i]
  <2>1. /\ a \in Seq(Ev) /\ Len(a) = IF 0 <= mid THEN mid - 0 ELSE 0
        /\ \A i \in 1 .. mid - 0 : a[i] = s[0 + i]
    BY <1>3, <1>5, Slice
  <2> QED BY <1>2, <2>1
<1>7. b \in Seq(Ev) /\ Len(b) = n - mid /\ \A i \in 1 .. n - mid : b[i] = s[mid + i]
  <2>1. /\ b \in Seq(Ev) /\ Len(b) = IF mid <= n THEN n - mid ELSE 0
        /\ \A i \in 1 .. n - mid : b[i] = s[mid + i]
    BY <1>3, <1>4, Slice
  <2> QED BY <1>2, <2>1
<1>8. /\ \A x : x \in Range(s) <=> \E i \in 1 .. n : x = s[i]
      /\ \A x : x \in Range(a) <=> \E i \in 1 .. mid : x = a[i]
      /\ \A x : x \in Range(b) <=> \E i \in 1 .. n - mid : x = b[i]
  <2>1. \A x : x \in Range(s) <=> \E i \in 1 .. n : x = s[i]
    BY <1>1, SeqAndRange
  <2>2. \A x : x \in Range(a) <=> \E i \in 1 .. Len(a) : x = a[i]
    BY <1>6, SeqAndRange
  <2>3. \A x : x \in Range(b) <=> \E i \in 1 .. Len(b) : x = b[i]
    BY <1>7, SeqAndRange
  <2> QED BY <1>6, <1>7, <2>1, <2>2, <2>3
<1>9. ASSUME NEW x \in Range(s) PROVE x \in Range(a) \cup Range(b)
  <2>1. PICK i \in 1 .. n : x = s[i]
    BY <1>8
  <2>2. CASE i \in 1 .. mid
    BY <1>6, <1>8, <2>1, <2>2
  <2>3. CASE i \notin 1 .. mid
    <3>1. PICK j : j = i - mid
      OBVIOUS
    <3>2. j \in 1 .. n - mid /\ i = mid + j
      BY <1>2, <2>3, <3>1
    <3> QED BY <1>7, <1>8, <2>1, <3>2
  <2> QED BY <2>2, <2>3
<1>10. ASSUME NEW x \in Range(a) PROVE x \in Range(s)
  <2>1. PICK i \in 1 .. mid : x = a[i]
    BY <1>8
  <2>2. i \in 1 .. n /\ x = s[i]
    BY <1>2, <1>6, <2>1
  <2> QED BY <1>8, <2>2
<1>11. ASSUME NEW x \in Range(b) PROVE x \in Range(s)
  <2>1. PICK i \in 1 .. n - mid : x = b[i]
    BY <1>8
  <2>2. mid + i \in 1 .. n /\ x = s[mid + i]
    BY <1>2, <1>7, <2>1
  <2> QED BY <1>8, <2>2
<1> QED BY <1>1, <1>4, <1>6, <1>7, <1>9, <1>10, <1>11

LEMMA TwoHalves ==
    ASSUME NEW s \in Seq(Ev), NEW mid, mid = Len(s) \div 2
    PROVE  /\ SubSeq(s, 1, mid) \in Seq(Ev) /\ SubSeq(s, mid + 1, Len(s)) \in Seq(Ev)
           /\ Range(s) = Range(SubSeq(s, 1, mid)) \cup Range(SubSeq(s, mid + 1, Len(s)))
<1>1. mid \in 0 .. Len(s)
  OBVIOUS
<1> QED BY <1>1, SplitAt

-----------------------------------------------------------------------------
(* What a flush has in hand.                                                *)

\* Only the lists of events matter.
LEMMA SameEvents ==
    ASSUME NEW f, NEW g, FlushOk(f), DOMAIN g = DOMAIN f, g.todo = f.todo, g.retry = f.retry,
           g.denied = f.denied, g.deferred = f.deferred
    PROVE  FlushOk(g) /\ FlushEv(g) = FlushEv(f)
  BY DEF FlushOk, FlushEv

LEMMA BatchFacts ==
    ASSUME FlushOk(flush), flush.todo # <<>>
    PROVE  /\ Head(flush.todo) \in Chunk /\ Batch \in Seq(Ev) /\ Tail(flush.todo) \in Seq(Chunk)
           /\ TodoEv(flush.todo) = Range(Batch) \cup TodoEv(Tail(flush.todo))
<1>1. flush.todo \in Seq(Chunk)
  BY DEF FlushOk
<1>2. /\ Head(flush.todo) \in Chunk /\ Tail(flush.todo) \in Seq(Chunk)
      /\ TodoEv(flush.todo) = Range(Head(flush.todo).events) \cup TodoEv(Tail(flush.todo))
  BY <1>1, TodoHead
<1>3. Head(flush.todo).events \in Seq(Ev)
  BY <1>2 DEF Chunk
<1> QED BY <1>2, <1>3 DEF Batch

LEMMA DoneFacts ==
    ASSUME FlushOk(flush), flush.todo # <<>>
    PROVE  /\ FlushOk(Done) /\ FlushEv(flush) = FlushEv(Done) \cup Range(Batch)
           /\ Done.pc = flush.pc
<1>1. PICK g, t : g = Done /\ t = Tail(flush.todo)
  OBVIOUS
<1>2. g = [flush EXCEPT !.todo = t]
  BY <1>1 DEF Done
<1>3. /\ DOMAIN g = DOMAIN flush /\ g.todo = t /\ g.retry = flush.retry /\ g.denied = flush.denied
      /\ g.deferred = flush.deferred /\ g.pc = flush.pc
  BY <1>2 DEF FlushOk
<1>4. t \in Seq(Chunk) /\ TodoEv(flush.todo) = Range(Batch) \cup TodoEv(t)
  BY <1>1, BatchFacts
<1>5. FlushOk(g)
  BY <1>3, <1>4 DEF FlushOk
<1>6. FlushEv(flush) = FlushEv(g) \cup Range(Batch)
  BY <1>3, <1>4 DEF FlushEv
<1> QED BY <1>1, <1>3, <1>5, <1>6

\* The batch goes to the retries, the deferred or the denied ones.
LEMMA MovedBatch ==
    ASSUME FlushOk(flush), flush.todo # <<>>, NEW g,
           \/ g = [Done EXCEPT !.retry = @ \o Batch]
           \/ g = [Done EXCEPT !.deferred = @ \o Batch]
           \/ g = [Done EXCEPT !.denied = @ \o Batch]
    PROVE  FlushOk(g) /\ FlushEv(g) = FlushEv(flush) /\ g.pc = flush.pc
<1>1. PICK d, b : d = Done /\ b = Batch
  OBVIOUS
<1>2. FlushOk(d) /\ FlushEv(flush) = FlushEv(d) \cup Range(b) /\ b \in Seq(Ev) /\ d.pc = flush.pc
  BY <1>1, DoneFacts, BatchFacts
<1>3. /\ d.retry \o b \in Seq(Ev) /\ Range(d.retry \o b) = Range(d.retry) \cup Range(b)
      /\ d.deferred \o b \in Seq(Ev) /\ Range(d.deferred \o b) = Range(d.deferred) \cup Range(b)
      /\ d.denied \o b \in Seq(Ev) /\ Range(d.denied \o b) = Range(d.denied) \cup Range(b)
  BY <1>2, RangeJoin DEF FlushOk
<1>4. CASE g = [d EXCEPT !.retry = d.retry \o b]
  <2>1. /\ DOMAIN g = DOMAIN d /\ g.todo = d.todo /\ g.denied = d.denied /\ g.deferred = d.deferred
        /\ g.retry = d.retry \o b /\ g.pc = d.pc
    BY <1>2, <1>4 DEF FlushOk
  <2>2. FlushOk(g)
    BY <1>2, <1>3, <2>1 DEF FlushOk
  <2>3. FlushEv(g) = FlushEv(d) \cup Range(b)
    BY <1>3, <2>1 DEF FlushEv
  <2> QED BY <1>2, <2>1, <2>2, <2>3
<1>5. CASE g = [d EXCEPT !.deferred = d.deferred \o b]
  <2>1. /\ DOMAIN g = DOMAIN d /\ g.todo = d.todo /\ g.denied = d.denied /\ g.retry = d.retry
        /\ g.deferred = d.deferred \o b /\ g.pc = d.pc
    BY <1>2, <1>5 DEF FlushOk
  <2>2. FlushOk(g)
    BY <1>2, <1>3, <2>1 DEF FlushOk
  <2>3. FlushEv(g) = FlushEv(d) \cup Range(b)
    BY <1>3, <2>1 DEF FlushEv
  <2> QED BY <1>2, <2>1, <2>2, <2>3
<1>6. CASE g = [d EXCEPT !.denied = d.denied \o b]
  <2>1. /\ DOMAIN g = DOMAIN d /\ g.todo = d.todo /\ g.retry = d.retry /\ g.deferred = d.deferred
        /\ g.denied = d.denied \o b /\ g.pc = d.pc
    BY <1>2, <1>6 DEF FlushOk
  <2>2. FlushOk(g)
    BY <1>2, <1>3, <2>1 DEF FlushOk
  <2>3. FlushEv(g) = FlushEv(d) \cup Range(b)
    BY <1>3, <2>1 DEF FlushEv
  <2> QED BY <1>2, <2>1, <2>2, <2>3
<1> QED BY <1>1, <1>4, <1>5, <1>6

LEMMA UnsentFacts ==
    ASSUME FlushOk(flush), flush.todo # <<>>
    PROVE  FlushOk(Unsent) /\ FlushEv(Unsent) = FlushEv(flush) /\ Unsent.pc = flush.pc
<1>1. \/ Unsent = [Done EXCEPT !.retry = @ \o Batch]
      \/ Unsent = [Done EXCEPT !.deferred = @ \o Batch]
  BY Zenon DEF Unsent
<1> QED BY <1>1, MovedBatch

LEMMA HalvedFacts ==
    ASSUME FlushOk(flush), flush.todo # <<>>
    PROVE  FlushOk(Halved) /\ FlushEv(Halved) = FlushEv(flush) /\ Halved.pc = flush.pc
<1>1. PICK h, b, t, mid : h = Head(flush.todo) /\ b = Batch /\ t = Tail(flush.todo) /\ mid = Len(Batch) \div 2
  OBVIOUS
<1>2. PICK x, y : x = SubSeq(b, 1, mid) /\ y = SubSeq(b, mid + 1, Len(b))
  OBVIOUS
<1>3. PICK c, d : c = [h EXCEPT !.events = x] /\ d = [h EXCEPT !.events = y]
  OBVIOUS
<1>4. PICK g : g = Halved
  OBVIOUS
<1>5. g = [flush EXCEPT !.todo = <<c, d>> \o t]
  BY <1>1, <1>2, <1>3, <1>4, Zenon DEF Halved
<1>6. h \in Chunk /\ b \in Seq(Ev) /\ t \in Seq(Chunk) /\ TodoEv(flush.todo) = Range(b) \cup TodoEv(t)
  BY <1>1, BatchFacts
<1>7. x \in Seq(Ev) /\ y \in Seq(Ev) /\ Range(b) = Range(x) \cup Range(y)
  BY <1>1, <1>2, <1>6, TwoHalves
<1>8. c \in Chunk /\ d \in Chunk /\ c.events = x /\ d.events = y
  BY <1>3, <1>6, <1>7 DEF Chunk
<1>9. PICK p : p = <<c, d>>
  OBVIOUS
<1>10. p \in Seq(Chunk) /\ Range(p) = {c, d}
  BY <1>8, <1>9 DEF Range
<1>11. TodoEv(p) = Range(x) \cup Range(y)
  <2>1. TodoEv(p) = UNION {Range(e.events) : e \in Range(p)}
    BY <1>10, TodoIs
  <2> QED BY <1>8, <1>10, <2>1
<1>12. p \o t \in Seq(Chunk) /\ TodoEv(p \o t) = TodoEv(p) \cup TodoEv(t)
  BY <1>6, <1>10, TodoJoin
<1>13. /\ DOMAIN g = DOMAIN flush /\ g.todo = p \o t /\ g.retry = flush.retry /\ g.denied = flush.denied
       /\ g.deferred = flush.deferred /\ g.pc = flush.pc
  BY <1>5, <1>9 DEF FlushOk
<1>14. FlushOk(g)
  BY <1>12, <1>13 DEF FlushOk
<1>15. FlushEv(g) = FlushEv(flush)
  BY <1>6, <1>7, <1>11, <1>12, <1>13 DEF FlushEv
<1> QED BY <1>4, <1>13, <1>14, <1>15

-----------------------------------------------------------------------------
(* The steps of the collector.                                              *)

LEMMA NoFlushFacts == FlushOk(NoFlush) /\ FlushEv(NoFlush) = {}
<1>1. /\ NoFlush.retry = <<>> /\ NoFlush.denied = <<>> /\ NoFlush.deferred = <<>> /\ NoFlush.todo = <<>>
      /\ DOMAIN NoFlush = {"pc", "todo", "left", "blocked", "retry", "denied", "deferred"}
  BY DEF NoFlush
<1>2. Range(<<>>) = {} /\ TodoEv(<<>>) = {}
  BY DEF Range, TodoEv
<1>3. FlushOk(NoFlush)
  BY <1>1 DEF FlushOk
<1>4. FlushEv(NoFlush) = {}
  BY <1>1, <1>2 DEF FlushEv
<1> QED BY <1>3, <1>4

\* A step that moves the events of a flush from one list to another, or none.
LEMMA EventsFrame ==
    ASSUME EventsInv, UNCHANGED <<queue, quarantine, seen, accepted, overflowed>>,
           occurred' \in [EventUID -> Nat], FlushOk(flush'), FlushEv(flush') = FlushEv(flush),
           flush'.pc = "idle" => flush' = NoFlush
    PROVE  EventsInv'
<1>1. EventsTypeOK'
  BY DEF EventsInv, EventsTypeOK
<1>2. ApartInv'
  BY DEF EventsInv, ApartInv
<1>3. NewestInv'
  BY DEF EventsInv, NewestInv
<1>4. KeptInv'
  BY DEF EventsInv, KeptInv
<1> QED BY <1>1, <1>2, <1>3, <1>4 DEF EventsInv

LEMMA DeliveredSteps ==
    ASSUME EventsInv, flush.todo # <<>>, UNCHANGED <<occurred, queue, quarantine, seen, overflowed>>,
           accepted' = Delivered, FlushOk(flush'), FlushEv(flush') = FlushEv(Done), flush'.pc # "idle"
    PROVE  EventsInv'
<1>1. PICK b, F, G : b = Batch /\ F = FlushEv(flush) /\ G = FlushEv(flush')
  OBVIOUS
<1>2. b \in Seq(Ev) /\ F = G \cup Range(b)
  BY <1>1, BatchFacts, DoneFacts DEF EventsInv, EventsTypeOK
<1>3. UIDs(b) = {e.uid : e \in Range(b)} /\ (\A e \in Range(b) : e \in Ev) /\ DOMAIN b = 1 .. Len(b)
  BY <1>2, UIDsOf
<1>4. /\ DOMAIN accepted' = EventUID /\ accepted' = [u \in EventUID |-> accepted'[u]]
      /\ \A u \in EventUID : \/ accepted'[u] = accepted[u] /\ u \notin UIDs(b)
                             \/ \E e \in Range(b) : e.uid = u /\ accepted'[u] = e.ver
  <2>1. accepted' = [u \in EventUID |-> IF u \in UIDs(b) THEN b[CHOOSE i \in DOMAIN b : b[i].uid = u].ver
                                        ELSE accepted[u]]
    BY <1>1 DEF Delivered
  <2>2. ASSUME NEW u \in EventUID, u \in UIDs(b)
        PROVE  \E e \in Range(b) : e.uid = u /\ accepted'[u] = e.ver
    <3>1. PICK i : i = CHOOSE j \in DOMAIN b : b[j].uid = u
      OBVIOUS
    <3>2. i \in DOMAIN b /\ b[i].uid = u
      BY <2>2, <3>1 DEF UIDs
    <3>3. accepted'[u] = b[i].ver
      BY <2>1, <2>2, <3>1
    <3>4. b[i] \in Range(b)
      BY <3>2 DEF Range
    <3> QED BY <3>2, <3>3, <3>4
  <2> QED BY <2>1, <2>2
<1>5. \A u \in EventUID : accepted'[u] \in Nat
  <2>1. \A e \in Range(b) : e.ver \in Nat
    BY <1>3 DEF Ev
  <2>2. \A u \in EventUID : accepted[u] \in Nat
    BY DEF EventsInv, EventsTypeOK
  <2> QED BY <1>4, <2>1, <2>2
<1>6. EventsTypeOK'
  <2>1. accepted' \in [EventUID -> Nat]
    BY <1>4, <1>5
  <2> QED BY <2>1 DEF EventsInv, EventsTypeOK
<1>7. ApartInv'
  BY <1>1, <1>2 DEF EventsInv, ApartInv
<1>8. NewestInv'
  BY <1>1, <1>2 DEF EventsInv, NewestInv
<1>9. KeptInv'
  <2>1. SUFFICES ASSUME NEW u \in EventUID \ overflowed, seen[u] # accepted'[u]
                 PROVE  u \in UIDs(queue) \cup UIDs(quarantine) \cup {e.uid : e \in G}
    BY <1>1 DEF KeptInv
  <2>2. CASE accepted'[u] = accepted[u] /\ u \notin UIDs(b)
    <3>1. u \in UIDs(queue) \cup UIDs(quarantine) \cup {e.uid : e \in F}
      BY <1>1, <2>1, <2>2 DEF EventsInv, KeptInv
    <3> QED BY <1>2, <1>3, <2>2, <3>1
  <2>3. CASE \E e \in Range(b) : e.uid = u /\ accepted'[u] = e.ver
    <3>1. PICK e \in F : e.uid = u /\ accepted'[u] = e.ver
      BY <1>2, <2>3
    <3> QED BY <1>1, <2>1, <3>1 DEF EventsInv, NewestInv
  <2> QED BY <1>4, <2>1, <2>2, <2>3
<1> QED BY <1>6, <1>7, <1>8, <1>9 DEF EventsInv

LEMMA PostSteps == ASSUME EventsInv, Post PROVE EventsInv'
<1>1. PICK refused : refused = ~ (UIDs(Batch) \subseteq owned)
  OBVIOUS
<1>2. PICK g : g = CASE ~ refused                    -> Done
                     [] refused /\ Len(Batch) > 1    -> Halved
                     [] refused /\ Len(Batch) = 1    -> [Done EXCEPT !.denied = @ \o Batch]
  OBVIOUS
<1>3. /\ CanPost /\ flush' = [g EXCEPT !.left = flush.left - 1]
      /\ accepted' = IF refused THEN accepted ELSE Delivered
      /\ UNCHANGED <<occurred, queue, quarantine, seen, overflowed>>
  <2>1. flush' = [(CASE ~ (~(UIDs(Batch) \subseteq owned)) -> Done
                     [] (~(UIDs(Batch) \subseteq owned)) /\ Len(Batch) > 1 -> Halved
                     [] (~(UIDs(Batch) \subseteq owned)) /\ Len(Batch) = 1 -> [Done EXCEPT !.denied = @ \o Batch])
                    EXCEPT !.left = [flush EXCEPT !.left = @ - 1].left]
    BY Zenon DEF Post
  <2>2. [flush EXCEPT !.left = @ - 1].left = flush.left - 1
    BY DEF EventsInv, EventsTypeOK, FlushOk
  <2>3. flush' = [g EXCEPT !.left = flush.left - 1]
    BY <1>1, <1>2, <2>1, <2>2, Zenon
  <2> QED BY <1>1, <2>3, Zenon DEF Post
<1>4. FlushOk(flush) /\ flush.todo # <<>> /\ flush.pc = "post" /\ occurred \in [EventUID -> Nat]
  BY <1>3 DEF CanPost, EventsInv, EventsTypeOK
<1>5. ASSUME FlushOk(g) PROVE FlushOk(flush') /\ FlushEv(flush') = FlushEv(g) /\ flush'.pc = g.pc
  <2>1. /\ DOMAIN flush' = DOMAIN g /\ flush'.todo = g.todo /\ flush'.retry = g.retry
        /\ flush'.denied = g.denied /\ flush'.deferred = g.deferred /\ flush'.pc = g.pc
    BY <1>3, <1>5 DEF FlushOk
  <2> QED BY <1>5, <2>1, SameEvents
<1>6. CASE ~ refused
  <2>1. g = Done
    BY <1>2, <1>6
  <2>2. FlushOk(flush') /\ FlushEv(flush') = FlushEv(Done) /\ flush'.pc = "post"
    BY <1>4, <1>5, <2>1, DoneFacts
  <2> QED BY <1>3, <1>4, <1>6, <2>2, DeliveredSteps
<1>7. CASE refused
  <2>1. Len(Batch) \in Nat /\ Len(Batch) # 0
    <3>1. Batch \in Seq(Ev)
      BY <1>4, BatchFacts
    <3>2. UIDs(Batch) # {}
      BY <1>1, <1>7
    <3>3. DOMAIN Batch # {}
      BY <3>2 DEF UIDs
    <3>4. DOMAIN Batch = 1 .. Len(Batch) /\ Len(Batch) \in Nat
      BY <3>1
    <3> QED BY <3>3, <3>4
  <2>2. \/ Len(Batch) > 1 /\ g = Halved
        \/ Len(Batch) = 1 /\ g = [Done EXCEPT !.denied = @ \o Batch]
    <3>1. PICK n : n = Len(Batch)
      OBVIOUS
    <3>2. n \in Nat /\ n # 0
      BY <2>1, <3>1
    <3>3. (n > 1 /\ ~ (n = 1)) \/ (n = 1 /\ ~ (n > 1))
      BY <3>2
    <3>4. g = CASE ~ refused          -> Done
                [] refused /\ n > 1   -> Halved
                [] refused /\ n = 1   -> [Done EXCEPT !.denied = @ \o Batch]
      BY <1>2, <3>1, Zenon
    <3>5. (n > 1 /\ g = Halved) \/ (n = 1 /\ g = [Done EXCEPT !.denied = @ \o Batch])
      BY <1>7, <3>3, <3>4, Zenon
    <3> QED BY <3>1, <3>5, Zenon
  <2>3. FlushOk(g) /\ FlushEv(g) = FlushEv(flush) /\ g.pc = "post"
    BY <1>4, <2>2, HalvedFacts, MovedBatch
  <2>4. FlushOk(flush') /\ FlushEv(flush') = FlushEv(flush) /\ flush'.pc = "post"
    BY <1>5, <2>3
  <2> QED BY <1>3, <1>4, <1>7, <2>4, EventsFrame
<1> QED BY <1>6, <1>7

LEMMA UnsentSteps == ASSUME EventsInv, PostFails \/ KeepUnsentEvents PROVE EventsInv'
<1>1. /\ flush.todo # <<>> /\ flush.pc = "post" /\ UNCHANGED <<occurred, queue, quarantine, seen, accepted, overflowed>>
      /\ \/ flush' = Unsent
         \/ flush' = [Unsent EXCEPT !.blocked = TRUE, !.left = flush.left - 1]
  BY Zenon DEF PostFails, KeepUnsentEvents, CanPost
<1>2. FlushOk(flush) /\ occurred \in [EventUID -> Nat]
  BY DEF EventsInv, EventsTypeOK
<1>3. PICK g : g = Unsent
  OBVIOUS
<1>4. FlushOk(g) /\ FlushEv(g) = FlushEv(flush) /\ g.pc = flush.pc
  BY <1>1, <1>2, <1>3, UnsentFacts
<1>5. /\ DOMAIN flush' = DOMAIN g /\ flush'.todo = g.todo /\ flush'.retry = g.retry
      /\ flush'.denied = g.denied /\ flush'.deferred = g.deferred /\ flush'.pc = g.pc
  BY <1>1, <1>3, <1>4 DEF FlushOk
<1>6. FlushOk(flush') /\ FlushEv(flush') = FlushEv(flush)
  BY <1>4, <1>5, SameEvents
<1>7. flush'.pc # "idle"
  BY <1>1, <1>4, <1>5
<1> QED BY <1>1, <1>2, <1>6, <1>7, EventsFrame

LEMMA StartFlushSteps == ASSUME EventsInv, NEW due \in BOOLEAN, StartFlush(due) PROVE EventsInv'
<1>1. PICK q, r : q = Chunks(queue, "queue") /\ r = (IF due THEN Chunks(quarantine, "quarantine") ELSE <<>>)
  OBVIOUS
<1>2. /\ flush' = [NoFlush EXCEPT !.pc = "post", !.left = PostLimit, !.todo = q \o r]
      /\ queue' = <<>> /\ quarantine' = (IF due THEN <<>> ELSE quarantine)
      /\ UNCHANGED <<occurred, seen, accepted, overflowed>>
  BY <1>1, Zenon DEF StartFlush
<1>0. flush = NoFlush
  BY DEF StartFlush, EventsInv, EventsTypeOK
<1>3. queue \in Seq(Ev) /\ quarantine \in Seq(Ev) /\ FlushOk(NoFlush) /\ FlushEv(flush) = {}
  BY <1>0, NoFlushFacts DEF EventsInv, EventsTypeOK
<1>4. q \in Seq(Chunk) /\ TodoEv(q) = Range(queue)
  BY <1>1, <1>3, ChunksFacts
<1>5. r \in Seq(Chunk) /\ TodoEv(r) = IF due THEN Range(quarantine) ELSE {}
  <2>1. <<>> \in Seq(Chunk) /\ TodoEv(<<>>) = {}
    BY DEF TodoEv
  <2> QED BY <1>1, <1>3, <2>1, ChunksFacts
<1>6. q \o r \in Seq(Chunk) /\ TodoEv(q \o r) = TodoEv(q) \cup TodoEv(r)
  BY <1>4, <1>5, TodoJoin
<1>7. /\ flush'.todo = q \o r /\ flush'.retry = <<>> /\ flush'.denied = <<>> /\ flush'.deferred = <<>>
      /\ DOMAIN flush' = DOMAIN NoFlush /\ flush'.pc = "post"
  BY <1>2 DEF NoFlush
<1>8. FlushOk(flush')
  BY <1>3, <1>6, <1>7 DEF FlushOk
<1>9. PICK G : G = FlushEv(flush')
  OBVIOUS
<1>10. G = Range(queue) \cup (IF due THEN Range(quarantine) ELSE {})
  <2>1. Range(<<>>) = {}
    BY DEF Range
  <2> QED BY <1>4, <1>5, <1>6, <1>7, <1>9, <2>1 DEF FlushEv
<1>11. UIDs(<<>>) = {} /\ Range(<<>>) = {} /\ Apart(<<>>) /\ <<>> \in Seq(Ev)
  BY DEF UIDs, Range, Apart
<1>12. UIDs(queue) = {e.uid : e \in Range(queue)} /\ UIDs(quarantine) = {e.uid : e \in Range(quarantine)}
  BY <1>3, UIDsOf
<1>13. EventsTypeOK'
  BY <1>2, <1>3, <1>7, <1>8, <1>11 DEF EventsInv, EventsTypeOK
<1>14. ApartInv'
  <2>1. Apart(quarantine') /\ Apart(queue') /\ UIDs(queue') = {}
    BY <1>2, <1>11 DEF EventsInv, ApartInv
  <2>2. \A e \in G : e.uid \notin UIDs(quarantine')
    BY <1>2, <1>10, <1>11, <1>12 DEF EventsInv, ApartInv
  <2> QED BY <1>9, <2>1, <2>2 DEF ApartInv
<1>15. NewestInv'
  <2>1. \A e \in Range(queue) \cup Range(quarantine) : e.uid \notin overflowed => e.ver = seen[e.uid]
    BY DEF EventsInv, NewestInv
  <2>2. \A e \in G : e \in Range(queue) \cup Range(quarantine)
    BY <1>10
  <2>3. \A e \in Range(queue') \cup Range(quarantine') : e \in Range(queue) \cup Range(quarantine)
    BY <1>2, <1>11
  <2> QED BY <1>2, <1>9, <2>1, <2>2, <2>3 DEF NewestInv
<1>16. KeptInv'
  <2>1. SUFFICES ASSUME NEW u \in EventUID \ overflowed, seen[u] # accepted[u]
                 PROVE  u \in UIDs(quarantine') \cup {e.uid : e \in G}
    BY <1>2, <1>9 DEF KeptInv
  <2>2. u \in UIDs(queue) \cup UIDs(quarantine)
    BY <1>3, <2>1 DEF EventsInv, KeptInv
  <2> QED BY <1>2, <1>10, <1>12, <2>2
<1> QED BY <1>13, <1>14, <1>15, <1>16 DEF EventsInv

LEMMA FlushEvTyped == ASSUME NEW f, FlushOk(f) PROVE \A x \in FlushEv(f) : x \in Ev
<1>1. /\ f.retry \in Seq(Ev) /\ f.denied \in Seq(Ev) /\ f.deferred \in Seq(Ev)
      /\ f.todo \in Seq(Chunk)
  BY DEF FlushOk
<1>2. /\ \A x \in Range(f.retry) : x \in Ev
      /\ \A x \in Range(f.denied) : x \in Ev
      /\ \A x \in Range(f.deferred) : x \in Ev
  BY <1>1, SeqAndRange
<1>3. \A x \in TodoEv(f.todo) : x \in Ev
  <2> SUFFICES ASSUME NEW i \in DOMAIN f.todo, NEW x \in Range(f.todo[i].events) PROVE x \in Ev
    BY DEF TodoEv
  <2>1. PICK c : c = f.todo[i]
    OBVIOUS
  <2>2. c \in Chunk
    BY <1>1, <2>1
  <2>3. c.events \in Seq(Ev)
    BY <2>2 DEF Chunk
  <2> QED BY <2>1, <2>3, SeqAndRange
<1> QED BY <1>2, <1>3 DEF FlushEv

\* A new version takes the place that the informer's report has in one of the two queues.
LEMMA EnqueueSteps == ASSUME EventsInv, NEW u \in EventUID, Enqueue(u) PROVE EventsInv'
<1>1. PICK e : e = [uid |-> u, ver |-> occurred[u]]
  OBVIOUS
<1>2. /\ seen' = [seen EXCEPT ![u] = occurred[u]]
      /\ UNCHANGED <<occurred, flush, accepted>>
      /\ \/ /\ u \in UIDs(quarantine) /\ u \notin UIDs(queue)
            /\ quarantine' = Put(quarantine, e) /\ UNCHANGED <<queue, overflowed>>
         \/ /\ ~ (u \in UIDs(quarantine) /\ u \notin UIDs(queue))
            /\ queue' = Trim(Put(queue, e)) /\ overflowed' = overflowed \cup Overflow(Put(queue, e))
            /\ UNCHANGED quarantine
  BY <1>1, Zenon DEF Enqueue
<1>3. /\ occurred \in [EventUID -> Nat] /\ seen \in [EventUID -> Nat]
      /\ queue \in Seq(Ev) /\ quarantine \in Seq(Ev) /\ FlushOk(flush)
  BY DEF EventsInv, EventsTypeOK
<1>4. e \in Ev /\ e.uid = u /\ e.ver = occurred[u]
  BY <1>1, <1>3 DEF Ev
<1>5. /\ seen' \in [EventUID -> Nat] /\ seen'[u] = e.ver
      /\ \A v \in EventUID : v # u => seen'[v] = seen[v]
  BY <1>2, <1>3, <1>4
<1>6. /\ Apart(queue) /\ Apart(quarantine) /\ UIDs(queue) \cap UIDs(quarantine) = {}
      /\ \A x \in FlushEv(flush) : x.uid \notin UIDs(quarantine)
  BY DEF EventsInv, ApartInv
<1>7. /\ UIDs(queue) = {x.uid : x \in Range(queue)} /\ UIDs(quarantine) = {x.uid : x \in Range(quarantine)}
      /\ \A x \in Range(queue) \cup Range(quarantine) : x \in Ev
  BY <1>3, UIDsOf
<1>8. PICK F : F = FlushEv(flush)
  OBVIOUS
<1>9. F = FlushEv(flush')
  BY <1>2, <1>8
<1>10. \A x \in F : x.uid \in EventUID
  <2>1. \A x \in F : x \in Ev
    BY <1>3, <1>8, FlushEvTyped
  <2> QED BY <2>1 DEF Ev
<1>11. /\ \A x \in Range(queue) \cup Range(quarantine) : x.uid \notin overflowed => x.ver = seen[x.uid]
       /\ \A x \in F : x.uid \notin overflowed /\ x.ver # seen[x.uid] => x.uid \in UIDs(queue)
  BY <1>8 DEF EventsInv, NewestInv
<1>12. \A v \in EventUID \ overflowed : seen[v] # accepted[v] =>
           v \in UIDs(queue) \cup UIDs(quarantine) \cup {x.uid : x \in F}
  BY <1>8 DEF EventsInv, KeptInv
<1>13. \A x \in Ev : x.uid \in EventUID
  BY DEF Ev
<1>14. CASE /\ u \in UIDs(quarantine) /\ u \notin UIDs(queue)
            /\ quarantine' = Put(quarantine, e) /\ UNCHANGED <<queue, overflowed>>
  <2>1. PICK t : t = quarantine'
    OBVIOUS
  <2>2. /\ t \in Seq(Ev) /\ Apart(t) /\ UIDs(t) = UIDs(quarantine)
        /\ \A x \in Range(t) : x = e \/ (x \in Range(quarantine) /\ x.uid # u)
    <3>1. /\ t \in Seq(Ev) /\ Apart(t) /\ UIDs(t) = UIDs(quarantine) \cup {e.uid}
          /\ \A x \in Range(t) : x = e \/ (x \in Range(quarantine) /\ x.uid # e.uid)
      BY <1>3, <1>4, <1>6, <1>14, <2>1, PutFacts
    <3> QED BY <1>4, <1>14, <3>1
  <2>3. EventsTypeOK'
    BY <1>2, <1>5, <1>14, <2>1, <2>2 DEF EventsInv, EventsTypeOK
  <2>4. ApartInv'
    BY <1>2, <1>6, <1>14, <2>1, <2>2 DEF ApartInv
  <2>5. NewestInv'
    <3>1. \A x \in Range(queue) \cup Range(t) : x.uid \notin overflowed => x.ver = seen'[x.uid]
      <4> SUFFICES ASSUME NEW x \in Range(queue) \cup Range(t), x.uid \notin overflowed
                   PROVE  x.ver = seen'[x.uid]
        OBVIOUS
      <4>1. CASE x = e
        BY <1>4, <1>5, <4>1
      <4>2. CASE x \in Range(queue)
        BY <1>5, <1>7, <1>11, <1>13, <1>14, <4>2
      <4>3. CASE x \in Range(quarantine) /\ x.uid # u
        BY <1>5, <1>7, <1>11, <1>13, <4>3
      <4> QED BY <2>2, <4>1, <4>2, <4>3
    <3>2. \A x \in F : x.uid # u
      BY <1>6, <1>8, <1>14
    <3>3. \A x \in F : x.uid \notin overflowed /\ x.ver # seen'[x.uid] => x.uid \in UIDs(queue)
      BY <1>5, <1>10, <1>11, <3>2
    <3> QED BY <1>9, <1>14, <2>1, <3>1, <3>3 DEF NewestInv
  <2>6. KeptInv'
    <3>1. SUFFICES ASSUME NEW v \in EventUID \ overflowed, seen'[v] # accepted[v]
                   PROVE  v \in UIDs(queue) \cup UIDs(t) \cup {x.uid : x \in F}
      BY <1>2, <1>9, <1>14, <2>1 DEF KeptInv
    <3> QED BY <1>5, <1>12, <1>14, <2>2, <3>1
  <2> QED BY <2>3, <2>4, <2>5, <2>6 DEF EventsInv
<1>15. CASE /\ ~ (u \in UIDs(quarantine) /\ u \notin UIDs(queue))
            /\ queue' = Trim(Put(queue, e)) /\ overflowed' = overflowed \cup Overflow(Put(queue, e))
            /\ UNCHANGED quarantine
  <2>1. PICK q, t, ov : q = Put(queue, e) /\ t = queue' /\ ov = overflowed'
    OBVIOUS
  <2>2. /\ q \in Seq(Ev) /\ Apart(q) /\ UIDs(q) = UIDs(queue) \cup {u}
        /\ \A x \in Range(q) : x = e \/ (x \in Range(queue) /\ x.uid # u)
    <3>1. /\ q \in Seq(Ev) /\ Apart(q) /\ UIDs(q) = UIDs(queue) \cup {e.uid}
          /\ \A x \in Range(q) : x = e \/ (x \in Range(queue) /\ x.uid # e.uid)
      BY <1>3, <1>4, <1>6, <2>1, PutFacts
    <3> QED BY <1>4, <3>1
  <2>3. t = Trim(q)
    BY <1>15, <2>1
  <2>4. /\ t \in Seq(Ev) /\ Apart(t) /\ Range(t) \subseteq Range(q)
        /\ UIDs(t) \subseteq UIDs(q) /\ Overflow(q) = UIDs(q) \ UIDs(t)
    BY <2>2, <2>3, TrimFacts
  <2>5. ov = overflowed \cup (UIDs(q) \ UIDs(t))
    BY <1>15, <2>1, <2>4
  <2>6. u \notin UIDs(quarantine)
    BY <1>6, <1>15
  <2>7. EventsTypeOK'
    BY <1>2, <1>5, <1>15, <2>1, <2>4 DEF EventsInv, EventsTypeOK
  <2>8. ApartInv'
    <3>1. UIDs(t) \cap UIDs(quarantine) = {}
      BY <1>6, <2>2, <2>4, <2>6
    <3> QED BY <1>2, <1>6, <1>15, <2>1, <2>4, <3>1 DEF ApartInv
  <2>9. NewestInv'
    <3>1. \A x \in Range(t) \cup Range(quarantine) : x.uid \notin ov => x.ver = seen'[x.uid]
      <4> SUFFICES ASSUME NEW x \in Range(t) \cup Range(quarantine), x.uid \notin ov
                   PROVE  x.ver = seen'[x.uid]
        OBVIOUS
      <4>1. CASE x = e
        BY <1>4, <1>5, <4>1
      <4>2. CASE x \in Range(queue) /\ x.uid # u
        BY <1>5, <1>7, <1>11, <1>13, <2>5, <4>2
      <4>3. CASE x \in Range(quarantine)
        BY <1>5, <1>7, <1>11, <1>13, <2>5, <2>6, <4>3
      <4> QED BY <2>2, <2>4, <4>1, <4>2, <4>3
    <3>2. \A x \in F : x.uid \notin ov /\ x.ver # seen'[x.uid] => x.uid \in UIDs(t)
      <4> SUFFICES ASSUME NEW x \in F, x.uid \notin ov, x.ver # seen'[x.uid] PROVE x.uid \in UIDs(t)
        OBVIOUS
      <4>1. x.uid \in UIDs(q)
        BY <1>5, <1>10, <1>11, <2>2, <2>5
      <4> QED BY <2>5, <4>1
    <3> QED BY <1>9, <1>15, <2>1, <3>1, <3>2 DEF NewestInv
  <2>10. KeptInv'
    <3>1. SUFFICES ASSUME NEW v \in EventUID \ ov, seen'[v] # accepted[v]
                   PROVE  v \in UIDs(t) \cup UIDs(quarantine) \cup {x.uid : x \in F}
      BY <1>2, <1>9, <1>15, <2>1 DEF KeptInv
    <3>2. v \in UIDs(q) \cup UIDs(quarantine) \cup {x.uid : x \in F}
      BY <1>5, <1>12, <2>2, <2>5, <3>1
    <3> QED BY <2>5, <3>1, <3>2
  <2> QED BY <2>7, <2>8, <2>9, <2>10 DEF EventsInv
<1> QED BY <1>2, <1>14, <1>15, Zenon

\* Of what comes back the queue is merged last.
LEMMA LastComesBack ==
    ASSUME NEW r \in Seq(Ev), NEW s \in Seq(Ev), NEW b, b = r \o s, NEW x, NEW j \in 1 .. Len(b), b[j] = x,
           \A k \in 1 .. Len(b) : k > j => b[k].uid # x.uid
    PROVE  x \in Range(s) \/ (x \in Range(r) /\ x.uid \notin UIDs(s))
<1>1. PICK m, n : m = Len(r) /\ n = Len(s)
  OBVIOUS
<1>2. m \in Nat /\ n \in Nat /\ Len(b) = m + n
  BY <1>1
<1>3. (\A i \in 1 .. m : b[i] = r[i]) /\ \A i \in 1 .. n : b[m + i] = s[i]
  BY <1>1
<1>4. DOMAIN r = 1 .. m /\ DOMAIN s = 1 .. n
  BY <1>1
<1>5. CASE j <= m
  <2>1. j \in 1 .. m
    BY <1>2, <1>5
  <2>2. x \in Range(r)
    BY <1>3, <1>4, <2>1 DEF Range
  <2>3. \A i \in 1 .. n : m + i \in 1 .. Len(b) /\ m + i > j
    BY <1>2, <2>1
  <2>4. \A i \in 1 .. n : s[i].uid # x.uid
    BY <1>3, <2>3
  <2> QED BY <1>4, <2>2, <2>4 DEF UIDs
<1>6. CASE j > m
  <2>1. PICK i : i = j - m
    OBVIOUS
  <2>2. i \in 1 .. n /\ m + i = j
    BY <1>2, <1>6, <2>1
  <2>3. x = s[i]
    BY <1>3, <2>2
  <2> QED BY <1>4, <2>2, <2>3 DEF Range
<1> QED BY <1>2, <1>5, <1>6

LEMMA MergedSets ==
    ASSUME NEW s \in Seq(Ev), NEW es \in Seq(Ev), NEW U, Apart(s), NEW r, r = Merged(s, es, U)
    PROVE  /\ r \in Seq(Ev) /\ Apart(r) /\ UIDs(s) \subseteq UIDs(r)
           /\ \A y \in Range(es) : y.uid \in U => y.uid \in UIDs(r)
           /\ \A x \in Range(r) : LastOf(x, s, es, U, Len(es))
           /\ \A x \in Range(r) : x \in Range(s) \/ (x \in Range(es) /\ x.uid \in U)
<1>1. MergedOk(r, s, es, U, Len(es))
  BY MergedFacts
<1>2. \A y : y \in Range(es) <=> \E i \in 1 .. Len(es) : y = es[i]
  BY SeqAndRange
<1>3. \A y \in Range(es) : y.uid \in U => y.uid \in UIDs(r)
  BY <1>1, <1>2 DEF MergedOk
<1>4. \A x \in Range(r) : LastOf(x, s, es, U, Len(es))
  BY <1>1 DEF MergedOk
<1>5. \A x \in Range(r) : x \in Range(s) \/ (x \in Range(es) /\ x.uid \in U)
  BY <1>2, <1>4 DEF LastOf
<1> QED BY <1>1, <1>3, <1>4, <1>5 DEF MergedOk

\* What a flush leaves is merged under what has come in meanwhile.
LEMMA EndFlushSteps == ASSUME EventsInv, EndFlush PROVE EventsInv'
<1>1. PICK aside, back : aside = SetAside /\ back = ComesBack
  OBVIOUS
<1>2. PICK q : q = Merged(quarantine, aside, EventUID)
  OBVIOUS
<1>3. PICK hot, cold : hot = Merged(<<>>, back, EventUID \ UIDs(q)) /\ cold = Merged(q, back, UIDs(q))
  OBVIOUS
<1>4. /\ flush.todo = <<>> /\ flush' = NoFlush /\ UNCHANGED <<occurred, seen, accepted>>
      /\ queue' = Trim(hot) /\ quarantine' = Trim(cold)
      /\ overflowed' = overflowed \cup Overflow(hot) \cup Overflow(cold)
  BY <1>1, <1>2, <1>3, Zenon DEF EndFlush
<1>5. /\ queue \in Seq(Ev) /\ quarantine \in Seq(Ev) /\ flush.retry \in Seq(Ev)
      /\ flush.denied \in Seq(Ev) /\ flush.deferred \in Seq(Ev)
  BY DEF EventsInv, EventsTypeOK, FlushOk
<1>6. PICK F, A, R : F = FlushEv(flush) /\ A = Range(flush.deferred) \cup Range(flush.denied) /\ R = Range(flush.retry)
  OBVIOUS
<1>7. F = R \cup A
  <2>1. TodoEv(<<>>) = {}
    BY DEF TodoEv
  <2> QED BY <1>4, <1>6, <2>1 DEF FlushEv
<1>8. /\ aside \in Seq(Ev) /\ Range(aside) = A
      /\ back \in Seq(Ev) /\ Range(back) = R \cup Range(queue)
  BY <1>1, <1>5, <1>6, RangeJoin DEF SetAside, ComesBack
<1>9. /\ Apart(quarantine) /\ Apart(<<>>) /\ <<>> \in Seq(Ev) /\ Range(<<>>) = {} /\ UIDs(<<>>) = {}
  BY DEF EventsInv, ApartInv, Apart, Range, UIDs
<1>10. /\ q \in Seq(Ev) /\ Apart(q) /\ UIDs(quarantine) \subseteq UIDs(q)
       /\ \A y \in Range(aside) : y.uid \in EventUID => y.uid \in UIDs(q)
       /\ \A x \in Range(q) : x \in Range(quarantine) \/ (x \in Range(aside) /\ x.uid \in EventUID)
  BY <1>2, <1>5, <1>8, <1>9, MergedSets
<1>11. PICK U, N : U = UIDs(q) /\ N = Len(back)
  OBVIOUS
<1>12. /\ hot \in Seq(Ev) /\ Apart(hot)
       /\ \A y \in Range(back) : y.uid \in EventUID \ U => y.uid \in UIDs(hot)
       /\ \A x \in Range(hot) : LastOf(x, <<>>, back, EventUID \ U, N)
       /\ \A x \in Range(hot) : x \in Range(<<>>) \/ (x \in Range(back) /\ x.uid \in EventUID \ U)
  <2>1. PICK z, W : z = <<>> /\ W = EventUID \ U
    OBVIOUS
  <2>2. z \in Seq(Ev) /\ Apart(z)
    BY <1>9, <2>1
  <2>3. hot = Merged(z, back, W)
    BY <1>3, <1>11, <2>1, Zenon
  <2>4. /\ hot \in Seq(Ev) /\ Apart(hot) /\ UIDs(z) \subseteq UIDs(hot)
        /\ \A y \in Range(back) : y.uid \in W => y.uid \in UIDs(hot)
        /\ \A x \in Range(hot) : LastOf(x, z, back, W, Len(back))
        /\ \A x \in Range(hot) : x \in Range(z) \/ (x \in Range(back) /\ x.uid \in W)
    BY <1>8, <2>2, <2>3, MergedSets
  <2> QED BY <1>11, <2>1, <2>4, Zenon
<1>13. /\ cold \in Seq(Ev) /\ Apart(cold) /\ U \subseteq UIDs(cold)
       /\ \A x \in Range(cold) : LastOf(x, q, back, U, N)
       /\ \A x \in Range(cold) : x \in Range(q) \/ (x \in Range(back) /\ x.uid \in U)
  BY <1>3, <1>8, <1>10, <1>11, MergedSets
<1>14. PICK h, c, ov : h = queue' /\ c = quarantine' /\ ov = overflowed'
  OBVIOUS
<1>15. /\ h \in Seq(Ev) /\ Apart(h) /\ Range(h) \subseteq Range(hot)
       /\ UIDs(h) \subseteq UIDs(hot) /\ Overflow(hot) = UIDs(hot) \ UIDs(h)
  BY <1>4, <1>12, <1>14, TrimFacts
<1>16. /\ c \in Seq(Ev) /\ Apart(c) /\ Range(c) \subseteq Range(cold)
       /\ UIDs(c) \subseteq UIDs(cold) /\ Overflow(cold) = UIDs(cold) \ UIDs(c)
  BY <1>4, <1>13, <1>14, TrimFacts
<1>17. ov = overflowed \cup (UIDs(hot) \ UIDs(h)) \cup (UIDs(cold) \ UIDs(c))
  BY <1>4, <1>14, <1>15, <1>16
<1>18. /\ UIDs(hot) = {x.uid : x \in Range(hot)} /\ UIDs(cold) = {x.uid : x \in Range(cold)}
       /\ U = {x.uid : x \in Range(q)} /\ UIDs(queue) = {x.uid : x \in Range(queue)}
  BY <1>5, <1>10, <1>11, <1>12, <1>13, UIDsOf
<1>19. UIDs(hot) \cap U = {} /\ UIDs(cold) = U
  BY <1>9, <1>12, <1>13, <1>18
<1>20. /\ \A x \in Range(queue) \cup Range(quarantine) : x.uid \notin overflowed => x.ver = seen[x.uid]
       /\ \A x \in F : x.uid \notin overflowed /\ x.ver # seen[x.uid] => x.uid \in UIDs(queue)
  BY <1>6 DEF EventsInv, NewestInv
<1>21. ASSUME NEW x, x.uid \notin overflowed,
              \E j \in 1 .. N : back[j] = x /\ \A k \in 1 .. N : k > j => back[k].uid # x.uid
       PROVE  x.ver = seen[x.uid]
  <2>1. PICK j \in 1 .. Len(back) : back[j] = x /\ \A k \in 1 .. Len(back) : k > j => back[k].uid # x.uid
    BY <1>11, <1>21
  <2>2. x \in Range(queue) \/ (x \in Range(flush.retry) /\ x.uid \notin UIDs(queue))
    BY <1>1, <1>5, <2>1, LastComesBack DEF ComesBack
  <2> QED BY <1>6, <1>7, <1>20, <1>21, <2>2
<1>22. ASSUME NEW x \in Range(hot), x.uid \notin overflowed PROVE x.ver = seen[x.uid]
  BY <1>9, <1>12, <1>21, <1>22 DEF LastOf
<1>23. ASSUME NEW x \in Range(cold), x.uid \notin overflowed PROVE x.ver = seen[x.uid]
  <2>1. CASE x \in Range(q) /\ \A j \in 1 .. N : back[j].uid = x.uid => x.uid \notin U
    <3>1. x.uid \in U
      BY <1>18, <2>1
    <3>2. x.uid \notin UIDs(queue)
      <4>1. \A y : y \in Range(back) <=> \E i \in 1 .. N : y = back[i]
        BY <1>8, <1>11, SeqAndRange
      <4>2. \A y \in Range(queue) : y.uid # x.uid
        BY <1>8, <2>1, <3>1, <4>1
      <4> QED BY <1>18, <4>2
    <3>3. x \in Range(quarantine) \/ x \in A
      BY <1>8, <1>10, <2>1
    <3> QED BY <1>7, <1>20, <1>23, <3>2, <3>3
  <2>2. CASE \E j \in 1 .. N : back[j] = x /\ \A k \in 1 .. N : k > j => back[k].uid # x.uid
    BY <1>21, <1>23, <2>2
  <2> QED BY <1>13, <2>1, <2>2 DEF LastOf
<1>24. FlushOk(flush') /\ FlushEv(flush') = {}
  BY <1>4, NoFlushFacts
<1>25. EventsTypeOK'
  BY <1>4, <1>14, <1>15, <1>16, <1>24 DEF EventsInv, EventsTypeOK
<1>26. ApartInv'
  <2>1. UIDs(h) \cap UIDs(c) = {}
    BY <1>15, <1>16, <1>19
  <2> QED BY <1>14, <1>15, <1>16, <1>24, <2>1 DEF ApartInv
<1>27. NewestInv'
  <2>1. \A x \in Range(h) \cup Range(c) : x.uid \notin ov => x.ver = seen[x.uid]
    BY <1>15, <1>16, <1>17, <1>22, <1>23
  <2> QED BY <1>4, <1>14, <1>24, <2>1 DEF NewestInv
<1>28. KeptInv'
  <2>1. SUFFICES ASSUME NEW v \in EventUID \ ov, seen[v] # accepted[v] PROVE v \in UIDs(h) \cup UIDs(c)
    BY <1>4, <1>14, <1>24 DEF KeptInv
  <2>2. v \in UIDs(queue) \cup UIDs(quarantine) \cup {x.uid : x \in F}
    BY <1>6, <1>17, <2>1 DEF EventsInv, KeptInv
  <2>3. v \in UIDs(hot) \cup UIDs(cold)
    <3>1. CASE v \in UIDs(quarantine)
      BY <1>10, <1>11, <1>19, <3>1
    <3>2. CASE \E x \in A : x.uid = v
      BY <1>8, <1>10, <1>11, <1>19, <2>1, <3>2
    <3>3. CASE \E x \in R \cup Range(queue) : x.uid = v
      BY <1>8, <1>12, <1>19, <2>1, <3>3
    <3> QED BY <1>7, <1>18, <2>2, <3>1, <3>2, <3>3
  <2> QED BY <1>17, <2>1, <2>3
<1> QED BY <1>25, <1>26, <1>27, <1>28 DEF EventsInv

\* A process that has just started has seen nothing and holds nothing.
Empty == /\ queue = <<>> /\ quarantine = <<>> /\ flush = NoFlush
         /\ seen = Never /\ accepted = Never /\ occurred \in [EventUID -> Nat]

LEMMA EmptyCollector == Empty => EventsInv
<1> SUFFICES ASSUME Empty PROVE EventsInv
  OBVIOUS
<1> USE DEF Empty
<1>1. Never \in [EventUID -> Nat]
  BY DEF Never
<1>2. UIDs(<<>>) = {} /\ Range(<<>>) = {} /\ Apart(<<>>) /\ <<>> \in Seq(Ev)
  BY DEF UIDs, Range, Apart
<1>3. FlushOk(NoFlush) /\ FlushEv(NoFlush) = {}
  BY NoFlushFacts
<1>4. EventsTypeOK
  BY <1>1, <1>2, <1>3 DEF EventsTypeOK
<1>5. ApartInv
  BY <1>2, <1>3 DEF ApartInv
<1>6. NewestInv
  BY <1>2, <1>3 DEF NewestInv
<1>7. KeptInv
  BY DEF KeptInv
<1> QED BY <1>4, <1>5, <1>6, <1>7 DEF EventsInv

LEMMA EventsInitInv == EventsInit => EventsInv
<1>1. Never \in [EventUID -> Nat]
  BY DEF Never
<1>2. EventsInit => Empty
  BY <1>1 DEF EventsInit, Empty
<1> QED BY <1>2, EmptyCollector

LEMMA AgentRestartSteps == EventsInv /\ AgentRestart => EventsInv'
<1>1. EventsInv /\ AgentRestart => Empty'
  BY DEF AgentRestart, Empty, EventsInv, EventsTypeOK
<1> QED BY <1>1, EmptyCollector, PTL

LEMMA EventsStepInv == EventsInv /\ [EventsNext]_eventVars => EventsInv'
<1> SUFFICES ASSUME EventsInv, [EventsNext]_eventVars PROVE EventsInv'
  OBVIOUS
<1>1. /\ occurred \in [EventUID -> Nat] /\ FlushOk(flush) /\ (flush.pc = "idle" => flush = NoFlush)
  BY DEF EventsInv, EventsTypeOK
<1>2. ASSUME NEW u \in EventUID, EventOccurs(u) PROVE EventsInv'
  <2>1. occurred' \in [EventUID -> Nat] /\ UNCHANGED <<queue, quarantine, flush, seen, accepted, overflowed>>
    BY <1>1, <1>2 DEF EventOccurs
  <2> QED BY <1>1, <2>1, EventsFrame
<1>3. ASSUME NEW u \in EventUID, PodSynced(u) PROVE EventsInv'
  <2>1. UNCHANGED <<occurred, queue, quarantine, flush, seen, accepted, overflowed>>
    BY <1>3 DEF PodSynced
  <2> QED BY <1>1, <2>1, EventsFrame
<1>4. ASSUME BackoffEnds \/ UNCHANGED eventVars PROVE EventsInv'
  <2>1. UNCHANGED <<occurred, queue, quarantine, flush, seen, accepted, overflowed>>
    BY <1>4 DEF BackoffEnds, eventVars
  <2> QED BY <1>1, <2>1, EventsFrame
<1>5. ASSUME NEW u \in EventUID, Enqueue(u) PROVE EventsInv'
  BY <1>5, EnqueueSteps
<1>6. ASSUME NEW due \in BOOLEAN, StartFlush(due) PROVE EventsInv'
  BY <1>6, StartFlushSteps
<1>7. ASSUME Post PROVE EventsInv'
  BY <1>7, PostSteps
<1>8. ASSUME PostFails \/ KeepUnsentEvents PROVE EventsInv'
  BY <1>8, UnsentSteps
<1>9. ASSUME EndFlush PROVE EventsInv'
  BY <1>9, EndFlushSteps
<1>10. ASSUME AgentRestart PROVE EventsInv'
  BY <1>10, AgentRestartSteps
<1> QED BY <1>2, <1>3, <1>4, <1>5, <1>6, <1>7, <1>8, <1>9, <1>10, Zenon DEF EventsNext

LEMMA HeldByFlushIs == ASSUME NEW e, e \in FlushEv(flush) PROVE HeldByFlush(e)
<1>1. CASE e \in Range(flush.retry) \cup Range(flush.denied) \cup Range(flush.deferred)
  BY <1>1 DEF HeldByFlush, Holds, Range
<1>2. CASE e \in TodoEv(flush.todo)
  <2>1. PICK i \in DOMAIN flush.todo : e \in Range(flush.todo[i].events)
    BY <1>2 DEF TodoEv
  <2>2. Holds(flush.todo[i].events, e)
    BY <2>1 DEF Holds, Range
  <2> QED BY <2>2 DEF HeldByFlush
<1> QED BY <1>1, <1>2 DEF FlushEv

LEMMA EventsInvKeeps == EventsInv => NewestIsKept
<1> SUFFICES ASSUME EventsInv PROVE NewestIsKept
  OBVIOUS
<1>1. queue \in Seq(Ev) /\ quarantine \in Seq(Ev) /\ FlushOk(flush)
  BY DEF EventsInv, EventsTypeOK
<1>2. /\ UIDs(queue) = {x.uid : x \in Range(queue)} /\ UIDs(quarantine) = {x.uid : x \in Range(quarantine)}
      /\ \A x \in Range(queue) \cup Range(quarantine) : x \in Ev
      /\ DOMAIN queue = 1 .. Len(queue) /\ DOMAIN quarantine = 1 .. Len(quarantine)
  BY <1>1, UIDsOf
<1>3. \A x \in FlushEv(flush) : x \in Ev
  BY <1>1, FlushEvTyped
<1>4. ASSUME NEW u \in EventUID \ overflowed, seen[u] # accepted[u], NEW e, e = [uid |-> u, ver |-> seen[u]]
      PROVE  Holds(queue, e) \/ Holds(quarantine, e) \/ HeldByFlush(e)
  <2>1. ASSUME NEW x \in Ev, x.uid = u, x.ver = seen[u] PROVE x = e
    BY <1>4, <2>1 DEF Ev
  <2>2. CASE u \in UIDs(queue) \cup UIDs(quarantine)
    <3>1. PICK x \in Range(queue) \cup Range(quarantine) : x.uid = u
      BY <1>2, <2>2
    <3>2. x \in Ev /\ x.ver = seen[u]
      BY <1>2, <3>1 DEF EventsInv, NewestInv
    <3>3. x = e
      BY <2>1, <3>1, <3>2
    <3> QED BY <3>1, <3>3 DEF Holds, Range
  <2>3. CASE u \notin UIDs(queue) \cup UIDs(quarantine)
    <3>1. PICK x \in FlushEv(flush) : x.uid = u
      BY <1>4, <2>3 DEF EventsInv, KeptInv
    <3>2. x \in Ev /\ x.ver = seen[u]
      BY <1>3, <2>3, <3>1 DEF EventsInv, NewestInv
    <3> QED BY <2>1, <3>1, <3>2, HeldByFlushIs
  <2> QED BY <2>2, <2>3
<1>5. ASSUME NEW s, s = queue \o quarantine
      PROVE  \A i, j \in DOMAIN s : s[i].uid = s[j].uid => i = j
  <2>1. PICK m, n : m = Len(queue) /\ n = Len(quarantine)
    OBVIOUS
  <2>2. m \in Nat /\ n \in Nat /\ DOMAIN s = 1 .. m + n
    BY <1>1, <1>5, <2>1
  <2>3. (\A i \in 1 .. m : s[i] = queue[i]) /\ \A i \in 1 .. n : s[m + i] = quarantine[i]
    BY <1>1, <1>5, <2>1
  <2>4. /\ \A i, j \in 1 .. m : queue[i].uid = queue[j].uid => i = j
        /\ \A i, j \in 1 .. n : quarantine[i].uid = quarantine[j].uid => i = j
        /\ \A i \in 1 .. m, j \in 1 .. n : queue[i].uid # quarantine[j].uid
    <3>1. Apart(queue) /\ Apart(quarantine) /\ UIDs(queue) \cap UIDs(quarantine) = {}
      BY DEF EventsInv, ApartInv
    <3>2. DOMAIN queue = 1 .. m /\ DOMAIN quarantine = 1 .. n
      BY <1>2, <2>1
    <3>3. /\ \A i, j \in 1 .. m : queue[i].uid = queue[j].uid => i = j
          /\ \A i, j \in 1 .. n : quarantine[i].uid = quarantine[j].uid => i = j
      BY <3>1, <3>2 DEF Apart
    <3>4. \A i \in 1 .. m, j \in 1 .. n : queue[i].uid # quarantine[j].uid
      BY <3>1, <3>2 DEF UIDs
    <3> QED BY <3>3, <3>4
  <2>5. \A i \in 1 .. m + n : i \in 1 .. m \/ \E k \in 1 .. n : i = m + k
    <3> SUFFICES ASSUME NEW i \in 1 .. m + n, i \notin 1 .. m PROVE \E k \in 1 .. n : i = m + k
      OBVIOUS
    <3>1. i - m \in 1 .. n /\ i = m + (i - m)
      BY <2>2
    <3> QED BY <3>1
  <2> SUFFICES ASSUME NEW i \in 1 .. m + n, NEW j \in 1 .. m + n, s[i].uid = s[j].uid PROVE i = j
    BY <2>2
  <2>6. CASE i \in 1 .. m /\ j \in 1 .. m
    BY <2>3, <2>4, <2>6
  <2>7. CASE i \in 1 .. m /\ \E k \in 1 .. n : j = m + k
    BY <2>3, <2>4, <2>7
  <2>8. CASE j \in 1 .. m /\ \E k \in 1 .. n : i = m + k
    BY <2>3, <2>4, <2>8
  <2>9. CASE (\E k \in 1 .. n : i = m + k) /\ \E k \in 1 .. n : j = m + k
    BY <2>3, <2>4, <2>9
  <2> QED BY <2>5, <2>6, <2>7, <2>8, <2>9
<1> QED BY <1>4, <1>5 DEF NewestIsKept

(* For every set of events, batch size, capacity of the queues and budget   *)
(* of requests: flush and enqueue (events_collector.go) never lose the      *)
(* newest version of an event except from a full queue, and between two     *)
(* flushes no event is in the queue and in the quarantine at once.          *)
THEOREM NewestIsKeptTheorem == EventsSpec => []NewestIsKept
<1> QED BY EventsInitInv, EventsStepInv, EventsInvKeeps, PTL DEF EventsSpec
=============================================================================
