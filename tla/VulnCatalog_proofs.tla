------------------------- MODULE VulnCatalog_proofs -------------------------
(***************************************************************************)
(* Proofs about VulnCatalog, for every set of advisories, every bundle,    *)
(* every number of kept generations and every bound.                       *)
(*                                                                         *)
(* CatalogInv: a row mentions only generations that have settled, or the   *)
(* last one; the lifetimes of an advisory's versions are apart; what the   *)
(* running load writes, closes and undoes at the last generation leaves    *)
(* the rows alike for every earlier one; a generation once not kept is     *)
(* never kept again, so that pruning takes away only rows nobody sees.     *)
(* DeltaInv says how far the running load has come, advisory by advisory;  *)
(* TrackerInv relates the tracker's records to what is shown and to what   *)
(* the running load still has to read.                                     *)
(***************************************************************************)
EXTENDS VulnCatalog, WellFoundedInduction, FiniteSetTheorems, SequenceTheorems, TLAPS

Statuses == {"running", "failed", "active", "retired"}
Content == Contents \cup {None}
Row == [a : Advisory, c : Content, from : Nat, to : Nat]
Views == [Advisory -> SUBSET Content]
Answers == [ranges : Views, refs : Views]
FileState == [c : Content, m : Nat]
\* A load that has rolled back what was unfinished and has no generation yet, and one that
\* has written to its own.
Preparing == {"fetch", "scan", "list", "validate"}
Writing == {"write", "record", "complete", "fail", "undo"}
LoadState == [pc : Preparing \cup Writing \cup {"cleanup", "prune", "retire"},
              mode : {"full", "changed", "sync", "boot"}, todo : SUBSET Advisory,
              removed : SUBSET Advisory, bad : BOOLEAN, gen : Nat, read : [Advisory -> Content],
              listed : SUBSET Advisory, short : BOOLEAN]
ReadState == [pc : {"ranges", "refs"}, gen : Nat, ranges : Views]

\* The definitions of the model, with the state they read as an argument.
ActiveOf(gs) == {g \in DOMAIN gs : gs[g] = "active"}
KeptOf(gs) == {g \in ActiveOf(gs) :
                 Keep = 0 \/ Cardinality({h \in ActiveOf(gs) : h > g}) < Keep}
NewestOf(gs) == Max(ActiveOf(gs) \cup {0})
Settled(gs, g) == g \in DOMAIN gs /\ gs[g] \in {"active", "retired"}
Sees(vs, g, a, c) == \E v \in vs : /\ v.a = a /\ v.c = c /\ v.from <= g
                                   /\ v.to = Open \/ v.to > g
ViewOf(vs, g) == [a \in Advisory |-> {c \in Content : Sees(vs, g, a, c)}]

\* Well-formed rows up to generation n; the lifetimes of the versions of an advisory are
\* apart.
RowOk(v, n) == /\ v \in Row /\ 1 <= v.from /\ v.from <= n /\ v.to <= n
               /\ v.to # Open => v.from < v.to
Apart(v, w) == (v.to # Open /\ v.to <= w.from) \/ (w.to # Open /\ w.to <= v.from)
RowsOk(vs, n) == /\ \A v \in vs : RowOk(v, n)
                 /\ \A v, w \in vs : v.a = w.a /\ v # w => Apart(v, w)

FilesInv == files \in [Advisory -> FileState] /\ writes \in Nat

GensInv ==
    /\ gens \in Seq(Statuses) /\ shown \in Seq(Views) /\ cached \in Seq(SUBSET Answers)
    /\ Len(shown) = Len(gens) /\ Len(cached) = Len(gens)
    /\ \A g \in DOMAIN gens : gens[g] = "retired" => \E h \in ActiveOf(gens) : h > g

LoadInv ==
    /\ load = NoLoad \/ load \in LoadState
    /\ load.pc \in Writing => /\ load.gen = Len(gens) /\ load.gen \in DOMAIN gens
                              /\ gens[load.gen] = "running" \/ (load.pc = "undo" /\ gens[load.gen] = "failed")

\* The rows tell of generations that became active, and of the last one, which a load may
\* have left half written; a load that prepares has rolled that one back.
Mentioned(g) == Settled(gens, g) \/ (g = Len(gens) /\ load.pc \notin Preparing)
MentionInv == \A v \in versions : Mentioned(v.from) /\ (v.to # Open => Mentioned(v.to))

RowsInv == RowsOk(versions, Len(gens)) /\ MentionInv

StableInv ==
    \A g \in KeptOf(gens) :
        /\ ViewOf(versions, g) = shown[g]
        /\ cached[g] \subseteq {[ranges |-> shown[g], refs |-> shown[g]]}
FreshInv == \A g \in DOMAIN gens : ~Settled(gens, g) => cached[g] = {}

ReaderInv ==
    /\ reader = NoRead \/ (reader \in ReadState /\ Settled(gens, reader.gen))
    /\ reader.pc = "refs" /\ reader.gen \in KeptOf(gens) => reader.ranges = shown[reader.gen]

CatalogInv == /\ FilesInv /\ GensInv /\ LoadInv /\ RowsInv /\ StableInv /\ FreshInv /\ ReaderInv

-----------------------------------------------------------------------------
(* Least and greatest elements. *)

LEMMA NatMin == ASSUME NEW S, \A x \in S : x \in Nat, S # {}
                PROVE  \E x \in S : \A y \in S : x <= y
  <1>1. PICK R : R = OpToRel(<, Nat)
    OBVIOUS
  <1>2. IsWellFoundedOn(R, Nat)
    BY <1>1, NatLessThanWellFounded
  <1>3. \A x, y \in Nat : x < y => <<x, y>> \in R
    BY <1>1 DEF OpToRel
  <1>4. S \subseteq Nat
    OBVIOUS
  <1>5. PICK x \in S : \A y \in S : ~ (<<y, x>> \in R)
    BY <1>2, <1>4, WFMin
  <1>6. \A y \in S : x <= y
    <2> SUFFICES ASSUME NEW y \in S PROVE x <= y
      OBVIOUS
    <2>1. x \in Nat /\ y \in Nat
      BY <1>4
    <2>2. ~ (y < x)
      BY <1>3, <1>5, <2>1
    <2> QED BY <2>1, <2>2
  <1> QED BY <1>6

LEMMA MinIsLeast == ASSUME NEW S, \A x \in S : x \in Nat, S # {}
                    PROVE  Min(S) \in S /\ \A y \in S : Min(S) <= y
  <1>1. \E x \in S : \A y \in S : x <= y
    BY NatMin
  <1> QED BY <1>1 DEF Min

LEMMA MaxIsGreatest == ASSUME NEW S, NEW n \in Nat, \A x \in S : x \in 0 .. n, S # {}
                       PROVE  Max(S) \in S /\ \A y \in S : Max(S) >= y
  <1>1. PICK T : T = {n - x : x \in S}
    OBVIOUS
  <1>2. \A t \in T : t \in Nat
    BY <1>1
  <1>3. T # {}
    BY <1>1
  <1>4. PICK t \in T : \A u \in T : t <= u
    BY <1>2, <1>3, NatMin
  <1>5. PICK x \in S : t = n - x
    BY <1>1
  <1>6. \A y \in S : x >= y
    BY <1>1, <1>4, <1>5
  <1>7. \E z \in S : \A y \in S : z >= y
    BY <1>6
  <1> QED BY <1>7 DEF Max

-----------------------------------------------------------------------------
(* The model's operators read the state that the lemmas take as arguments. *)

LEMMA KeptIs == Kept = KeptOf(gens) /\ WithStatus({"active"}) = ActiveOf(gens)
  BY DEF Kept, KeptOf, WithStatus, ActiveOf

LEMMA KeptIsNext == Kept' = KeptOf(gens')
  BY DEF Kept, KeptOf, WithStatus, ActiveOf

LEMMA ViewIs == ASSUME NEW g, \A v \in versions : v \in Row
                PROVE  View(g) = ViewOf(versions, g)
  <1>1. \A a \in Advisory : {v.c : v \in {w \in VisibleAt(g) : w.a = a}}
                          = {c \in Content : Sees(versions, g, a, c)}
    BY DEF VisibleAt, Sees, Row, Open
  <1> QED BY <1>1 DEF View, ViewOf

LEMMA ViewInViews == ASSUME NEW vs, NEW g PROVE ViewOf(vs, g) \in Views
  BY DEF ViewOf, Views

\* Two versions of an advisory are never seen at once.
LEMMA OneVersion == ASSUME NEW vs, NEW n \in Nat, RowsOk(vs, n), NEW g \in Nat, NEW a, NEW c, NEW d,
                           Sees(vs, g, a, c), Sees(vs, g, a, d)
                    PROVE  c = d
  <1>1. PICK v \in vs : v.a = a /\ v.c = c /\ v.from <= g /\ (v.to = Open \/ v.to > g)
    BY DEF Sees
  <1>2. PICK w \in vs : w.a = a /\ w.c = d /\ w.from <= g /\ (w.to = Open \/ w.to > g)
    BY DEF Sees
  <1>3. v.from \in Nat /\ v.to \in Nat /\ w.from \in Nat /\ w.to \in Nat
    BY DEF RowsOk, RowOk, Row
  <1>4. CASE v = w
    BY <1>1, <1>2, <1>4
  <1>5. CASE v # w
    <2>1. Apart(v, w)
      BY <1>1, <1>2, <1>5 DEF RowsOk
    <2> QED BY <1>1, <1>2, <1>3, <2>1 DEF Apart
  <1> QED BY <1>4, <1>5

LEMMA AtMostOne == ASSUME NEW S, \A x, y \in S : x = y PROVE Cardinality(S) <= 1
  <1>1. CASE S = {}
    BY <1>1, FS_EmptySet
  <1>2. CASE S # {}
    <2>1. PICK x : x \in S
      BY <1>2
    <2>2. S = {x}
      BY <2>1
    <2> QED BY <2>2, FS_Singleton
  <1> QED BY <1>1, <1>2

LEMMA StableGives == CatalogInv => KeptIsStable
  <1> SUFFICES ASSUME CatalogInv PROVE KeptIsStable
    OBVIOUS
  <1>1. \A v \in versions : v \in Row
    BY DEF CatalogInv, RowsInv, RowsOk, RowOk
  <1>2. Len(gens) \in Nat /\ DOMAIN gens = 1 .. Len(gens)
    BY DEF CatalogInv, GensInv
  <1>3. ASSUME NEW g \in Kept
        PROVE  /\ View(g) = shown[g] /\ \A a \in Advisory : Cardinality(shown[g][a]) <= 1
               /\ cached[g] \subseteq {[ranges |-> shown[g], refs |-> shown[g]]}
    <2>1. g \in KeptOf(gens) /\ g \in Nat
      BY <1>2, KeptIs DEF KeptOf, ActiveOf
    <2>2. View(g) = ViewOf(versions, g)
      BY <1>1, ViewIs
    <2>3. ViewOf(versions, g) = shown[g]
      BY <2>1 DEF CatalogInv, StableInv
    <2>4. ASSUME NEW a \in Advisory PROVE Cardinality(shown[g][a]) <= 1
      <3>1. shown[g][a] = {c \in Content : Sees(versions, g, a, c)}
        BY <2>3 DEF ViewOf
      <3>2. RowsOk(versions, Len(gens))
        BY DEF CatalogInv, RowsInv
      <3>3. \A c, d \in shown[g][a] : c = d
        BY <1>2, <2>1, <3>1, <3>2, OneVersion
      <3> QED BY <3>3, AtMostOne
    <2> QED BY <2>1, <2>2, <2>3, <2>4 DEF CatalogInv, StableInv
  <1>4. ASSUME NEW v \in versions, NEW w \in versions, v.a = w.a, v.to = Open, w.to = Open
        PROVE  v = w
    BY <1>4 DEF CatalogInv, RowsInv, RowsOk, Apart
  <1> QED BY <1>3, <1>4 DEF KeptIsStable
-----------------------------------------------------------------------------
(* Writing, closing, undoing and pruning rows. *)

\* ws holds the rows of vs, but for what generation n and later ones did.
Late(t, n) == t = Open \/ t >= n
Like(v, w, n) == /\ v.a = w.a /\ v.c = w.c /\ v.from = w.from
                 /\ v.to = w.to \/ (Late(v.to, n) /\ Late(w.to, n))
Alike(vs, ws, n) == /\ \A v \in vs : v.from < n => \E w \in ws : Like(v, w, n)
                    /\ \A w \in ws : w.from < n => \E v \in vs : Like(v, w, n)

\* What is written at generation n is not seen before it.
LEMMA AlikeSees ==
    ASSUME NEW vs, NEW ws, NEW n \in Nat, NEW g \in Nat, g < n, Alike(vs, ws, n),
           \A v \in vs : v \in Row, \A w \in ws : w \in Row, NEW a, NEW c
    PROVE  Sees(vs, g, a, c) <=> Sees(ws, g, a, c)
  <1>1. ASSUME Sees(vs, g, a, c) PROVE Sees(ws, g, a, c)
    <2>1. PICK v \in vs : v.a = a /\ v.c = c /\ v.from <= g /\ (v.to = Open \/ v.to > g)
      BY <1>1 DEF Sees
    <2>2. v.from \in Nat /\ v.to \in Nat
      BY DEF Row
    <2>3. PICK w \in ws : Like(v, w, n)
      BY <2>1, <2>2 DEF Alike
    <2>4. w.from \in Nat /\ w.to \in Nat
      BY DEF Row
    <2> QED BY <2>1, <2>2, <2>3, <2>4 DEF Sees, Like, Late, Open
  <1>2. ASSUME Sees(ws, g, a, c) PROVE Sees(vs, g, a, c)
    <2>1. PICK w \in ws : w.a = a /\ w.c = c /\ w.from <= g /\ (w.to = Open \/ w.to > g)
      BY <1>2 DEF Sees
    <2>2. w.from \in Nat /\ w.to \in Nat
      BY DEF Row
    <2>3. PICK v \in vs : Like(v, w, n)
      BY <2>1, <2>2 DEF Alike
    <2>4. v.from \in Nat /\ v.to \in Nat
      BY DEF Row
    <2> QED BY <2>1, <2>2, <2>3, <2>4 DEF Sees, Like, Late, Open
  <1> QED BY <1>1, <1>2

LEMMA AlikeView ==
    ASSUME NEW vs, NEW ws, NEW n \in Nat, NEW g \in Nat, g < n, Alike(vs, ws, n),
           \A v \in vs : v \in Row, \A w \in ws : w \in Row
    PROVE  ViewOf(vs, g) = ViewOf(ws, g)
  BY AlikeSees DEF ViewOf

LEMMA AlikeSelf == ASSUME NEW vs, NEW n PROVE Alike(vs, vs, n)
  BY DEF Alike, Like

\* CloseAdvisories: the rows that stay as they are, and the ones that get an end.
LEMMA ClosedRow ==
    ASSUME NEW vs, NEW n \in Nat, NEW ids, NEW w \in CloseAdvisories(vs, n, ids), RowsOk(vs, n)
    PROVE  \E v \in vs : /\ w \in Row /\ w.a = v.a /\ w.c = v.c /\ w.from = v.from
                         /\ ~(v.a \in ids /\ v.from = n)
                         /\ (v.a \in ids /\ v.to = Open => w.to = n)
                         /\ (~(v.a \in ids /\ v.to = Open) => w = v)
  <1>1. PICK v \in vs : /\ ~(v.a \in ids /\ v.from = n)
                        /\ w = IF v.a \in ids /\ v.to = Open THEN [v EXCEPT !.to = n] ELSE v
    BY DEF CloseAdvisories
  <1>2. v \in Row
    BY DEF RowsOk, RowOk
  <1>3. CASE v.a \in ids /\ v.to = Open
    <2>1. w = [v EXCEPT !.to = n]
      BY <1>1, <1>3
    <2>2. w \in Row /\ w.a = v.a /\ w.c = v.c /\ w.from = v.from /\ w.to = n
      BY <1>2, <2>1 DEF Row
    <2> QED BY <1>1, <1>3, <2>2
  <1>4. CASE ~(v.a \in ids /\ v.to = Open)
    BY <1>1, <1>2, <1>4
  <1> QED BY <1>3, <1>4

LEMMA RowClosed ==
    ASSUME NEW vs, NEW n \in Nat, NEW ids, NEW v \in vs, RowsOk(vs, n), ~(v.a \in ids /\ v.from = n)
    PROVE  \E w \in CloseAdvisories(vs, n, ids) :
             /\ w.a = v.a /\ w.c = v.c /\ w.from = v.from
             /\ (v.a \in ids /\ v.to = Open => w.to = n)
             /\ (~(v.a \in ids /\ v.to = Open) => w = v)
  <1>1. v \in Row
    BY DEF RowsOk, RowOk
  <1>2. CASE v.a \in ids /\ v.to = Open
    <2>1. PICK w : w = [v EXCEPT !.to = n]
      OBVIOUS
    <2>2. w.a = v.a /\ w.c = v.c /\ w.from = v.from /\ w.to = n
      BY <1>1, <2>1 DEF Row
    <2>3. w \in CloseAdvisories(vs, n, ids)
      BY <1>2, <2>1 DEF CloseAdvisories
    <2> QED BY <1>2, <2>2, <2>3
  <1>3. CASE ~(v.a \in ids /\ v.to = Open)
    <2>1. v \in CloseAdvisories(vs, n, ids)
      BY <1>3 DEF CloseAdvisories
    <2> QED BY <1>3, <2>1
  <1> QED BY <1>2, <1>3

LEMMA CloseRows ==
    ASSUME NEW vs, NEW n \in Nat, n >= 1, NEW ids, RowsOk(vs, n)
    PROVE  RowsOk(CloseAdvisories(vs, n, ids), n) /\ Alike(vs, CloseAdvisories(vs, n, ids), n)
  <1>1. ASSUME NEW w \in CloseAdvisories(vs, n, ids) PROVE RowOk(w, n)
    <2>1. PICK v \in vs : /\ w \in Row /\ w.a = v.a /\ w.c = v.c /\ w.from = v.from
                          /\ ~(v.a \in ids /\ v.from = n)
                          /\ (v.a \in ids /\ v.to = Open => w.to = n)
                          /\ (~(v.a \in ids /\ v.to = Open) => w = v)
      BY ClosedRow
    <2>2. RowOk(v, n)
      BY DEF RowsOk
    <2>3. CASE v.a \in ids /\ v.to = Open
      BY <2>1, <2>2, <2>3 DEF RowOk, Row
    <2> QED BY <2>1, <2>2, <2>3
  <1>2. ASSUME NEW w \in CloseAdvisories(vs, n, ids), NEW x \in CloseAdvisories(vs, n, ids),
               w.a = x.a, w # x
        PROVE  Apart(w, x)
    <2>1. PICK v \in vs : /\ w \in Row /\ w.a = v.a /\ w.c = v.c /\ w.from = v.from
                          /\ ~(v.a \in ids /\ v.from = n)
                          /\ (v.a \in ids /\ v.to = Open => w.to = n)
                          /\ (~(v.a \in ids /\ v.to = Open) => w = v)
      BY ClosedRow
    <2>2. PICK y \in vs : /\ x \in Row /\ x.a = y.a /\ x.c = y.c /\ x.from = y.from
                          /\ ~(y.a \in ids /\ y.from = n)
                          /\ (y.a \in ids /\ y.to = Open => x.to = n)
                          /\ (~(y.a \in ids /\ y.to = Open) => x = y)
      BY ClosedRow
    <2>3. v # y
      <3> SUFFICES ASSUME v = y PROVE FALSE
        OBVIOUS
      <3>1. w.to = x.to
        BY <2>1, <2>2
      <3> QED BY <1>2, <2>1, <2>2, <3>1 DEF Row
    <2>4. Apart(v, y)
      BY <1>2, <2>1, <2>2, <2>3 DEF RowsOk
    <2> QED BY <2>1, <2>2, <2>4 DEF Apart
  <1>3. ASSUME NEW v \in vs, v.from < n PROVE \E w \in CloseAdvisories(vs, n, ids) : Like(v, w, n)
    <2>1. v.from \in Nat
      BY DEF RowsOk, RowOk, Row
    <2>2. PICK w \in CloseAdvisories(vs, n, ids) :
             /\ w.a = v.a /\ w.c = v.c /\ w.from = v.from
             /\ (v.a \in ids /\ v.to = Open => w.to = n)
             /\ (~(v.a \in ids /\ v.to = Open) => w = v)
      BY <1>3, <2>1, RowClosed
    <2> QED BY <2>2 DEF Like, Late
  <1>4. ASSUME NEW w \in CloseAdvisories(vs, n, ids) PROVE \E v \in vs : Like(v, w, n)
    <2>1. PICK v \in vs : /\ w \in Row /\ w.a = v.a /\ w.c = v.c /\ w.from = v.from
                          /\ ~(v.a \in ids /\ v.from = n)
                          /\ (v.a \in ids /\ v.to = Open => w.to = n)
                          /\ (~(v.a \in ids /\ v.to = Open) => w = v)
      BY ClosedRow
    <2> QED BY <2>1 DEF Like, Late
  <1> QED BY <1>1, <1>2, <1>3, <1>4 DEF RowsOk, Alike

\* Every generation that ws tells of is n or one that vs tells of.
Tells(vs, ws, n) == \A w \in ws : /\ w.from = n \/ \E v \in vs : v.from = w.from
                                  /\ w.to \in {Open, n} \/ \E v \in vs : v.to = w.to
Written(vs, ws, n) == RowsOk(ws, n) /\ Alike(vs, ws, n) /\ Tells(vs, ws, n)

LEMMA SameWritten == ASSUME NEW vs, NEW n, RowsOk(vs, n) PROVE Written(vs, vs, n)
  BY AlikeSelf DEF Written, Tells

LEMMA CloseWritten ==
    ASSUME NEW vs, NEW n \in Nat, n >= 1, NEW ids, RowsOk(vs, n)
    PROVE  Written(vs, CloseAdvisories(vs, n, ids), n)
  <1>1. ASSUME NEW w \in CloseAdvisories(vs, n, ids)
        PROVE  /\ \E v \in vs : v.from = w.from
               /\ w.to \in {Open, n} \/ \E v \in vs : v.to = w.to
    <2>1. PICK v \in vs : /\ w \in Row /\ w.a = v.a /\ w.c = v.c /\ w.from = v.from
                          /\ ~(v.a \in ids /\ v.from = n)
                          /\ (v.a \in ids /\ v.to = Open => w.to = n)
                          /\ (~(v.a \in ids /\ v.to = Open) => w = v)
      BY ClosedRow
    <2> QED BY <2>1
  <1>2. Tells(vs, CloseAdvisories(vs, n, ids), n)
    BY <1>1 DEF Tells
  <1> QED BY <1>2, CloseRows DEF Written

\* A new version of an advisory that has no current one.
LEMMA AddRow ==
    ASSUME NEW vs, NEW ws, NEW n \in Nat, n >= 1, NEW a \in Advisory, NEW c \in Content,
           Written(vs, ws, n), \A w \in ws : w.a = a => w.to # Open
    PROVE  Written(vs, ws \cup {[a |-> a, c |-> c, from |-> n, to |-> Open]}, n)
  <1>1. PICK r : r = [a |-> a, c |-> c, from |-> n, to |-> Open]
    OBVIOUS
  <1>2. r \in Row /\ r.a = a /\ r.from = n /\ r.to = Open
    BY <1>1 DEF Row, Open
  <1>3. RowOk(r, n)
    BY <1>2 DEF RowOk, Open
  <1>4. ASSUME NEW w \in ws, w.a = a PROVE Apart(w, r) /\ Apart(r, w)
    <2>1. RowOk(w, n) /\ w.to # Open
      BY <1>4 DEF Written, RowsOk
    <2> QED BY <1>2, <2>1 DEF RowOk, Apart
  <1>5. RowsOk(ws \cup {r}, n)
    <2>1. \A v \in ws \cup {r} : RowOk(v, n)
      BY <1>3 DEF Written, RowsOk
    <2>2. ASSUME NEW v \in ws \cup {r}, NEW w \in ws \cup {r}, v.a = w.a, v # w PROVE Apart(v, w)
      BY <1>2, <1>4, <2>2 DEF Written, RowsOk
    <2> QED BY <2>1, <2>2 DEF RowsOk
  <1>6. Alike(vs, ws \cup {r}, n)
    BY <1>2 DEF Written, Alike
  <1>7. Tells(vs, ws \cup {r}, n)
    BY <1>2 DEF Written, Tells
  <1> QED BY <1>1, <1>5, <1>6, <1>7 DEF Written

\* No version of an advisory is current once CloseAdvisories has closed it.
LEMMA ClosedOf ==
    ASSUME NEW vs, NEW n \in Nat, n >= 1, NEW ids, RowsOk(vs, n),
           NEW w \in CloseAdvisories(vs, n, ids), w.a \in ids
    PROVE  w.to # Open
  <1>1. PICK v \in vs : /\ w \in Row /\ w.a = v.a /\ w.c = v.c /\ w.from = v.from
                        /\ ~(v.a \in ids /\ v.from = n)
                        /\ (v.a \in ids /\ v.to = Open => w.to = n)
                        /\ (~(v.a \in ids /\ v.to = Open) => w = v)
    BY ClosedRow
  <1> QED BY <1>1 DEF Open

\* The four ends of WriteVersion, with what is current afterwards.
LEMMA WriteRows ==
    ASSUME NEW vs, NEW n \in Nat, n >= 1, NEW a \in Advisory, NEW c \in Content, RowsOk(vs, n)
    PROVE  Written(vs, WriteVersion(vs, n, a, c), n)
  <1>1. PICK current : current = {v \in vs : v.a = a /\ v.to = Open}
    OBVIOUS
  <1>2. PICK closed : closed = IF current = {} THEN vs ELSE CloseAdvisories(vs, n, {a})
    OBVIOUS
  <1>3. Written(vs, closed, n)
    BY <1>2, SameWritten, CloseWritten
  <1>4. \A w \in closed : w.a = a => w.to # Open
    BY <1>1, <1>2, ClosedOf
  <1>5. Written(vs, closed \cup {[a |-> a, c |-> c, from |-> n, to |-> Open]}, n)
    BY <1>3, <1>4, AddRow
  <1>6. WriteVersion(vs, n, a, c) = IF c = "withdrawn" THEN closed
                                    ELSE IF \E v \in current : v.c = c THEN vs
                                    ELSE closed \cup {[a |-> a, c |-> c, from |-> n, to |-> Open]}
    BY <1>1, <1>2 DEF WriteVersion
  <1> QED BY <1>3, <1>5, <1>6, SameWritten

\* A rollback of a set of generations of which only the last one wrote anything.
LEMMA RolledRow ==
    ASSUME NEW vs, NEW n \in Nat, NEW G, RowsOk(vs, n), NEW w \in RollbackGenerations(vs, G)
    PROVE  \E v \in vs : /\ w \in Row /\ w.a = v.a /\ w.c = v.c /\ w.from = v.from
                         /\ v.from \notin G
                         /\ (v.to \in G => w.to = Open) /\ (v.to \notin G => w = v)
  <1>1. PICK v \in vs : /\ v.from \notin G
                        /\ w = IF v.to \in G THEN [v EXCEPT !.to = Open] ELSE v
    BY DEF RollbackGenerations
  <1>2. v \in Row
    BY DEF RowsOk, RowOk
  <1>3. CASE v.to \in G
    <2>1. w = [v EXCEPT !.to = Open]
      BY <1>1, <1>3
    <2>2. w \in Row /\ w.a = v.a /\ w.c = v.c /\ w.from = v.from /\ w.to = Open
      BY <1>2, <2>1 DEF Row, Open
    <2> QED BY <1>1, <1>3, <2>2
  <1> QED BY <1>1, <1>2, <1>3

LEMMA RowRolled ==
    ASSUME NEW vs, NEW n \in Nat, NEW G, RowsOk(vs, n), NEW v \in vs, v.from \notin G
    PROVE  \E w \in RollbackGenerations(vs, G) :
             /\ w.a = v.a /\ w.c = v.c /\ w.from = v.from
             /\ (v.to \in G => w.to = Open) /\ (v.to \notin G => w = v)
  <1>1. v \in Row
    BY DEF RowsOk, RowOk
  <1>2. CASE v.to \in G
    <2>1. PICK w : w = [v EXCEPT !.to = Open]
      OBVIOUS
    <2>2. w.a = v.a /\ w.c = v.c /\ w.from = v.from /\ w.to = Open
      BY <1>1, <2>1 DEF Row
    <2>3. w \in RollbackGenerations(vs, G)
      BY <1>2, <2>1 DEF RollbackGenerations
    <2> QED BY <1>2, <2>2, <2>3
  <1>3. CASE v.to \notin G
    <2>1. v \in RollbackGenerations(vs, G)
      BY <1>3 DEF RollbackGenerations
    <2> QED BY <1>3, <2>1
  <1> QED BY <1>2, <1>3

LEMMA RollbackRows ==
    ASSUME NEW vs, NEW n \in Nat, NEW G, Open \notin G, RowsOk(vs, n),
           \A v \in vs : (v.from \in G => v.from = n) /\ (v.to \in G => v.to = n)
    PROVE  /\ Written(vs, RollbackGenerations(vs, G), n)
           /\ \A w \in RollbackGenerations(vs, G) :
                /\ w.from \notin G /\ \E v \in vs : v.from = w.from
                /\ w.to \notin G /\ (w.to # Open => \E v \in vs : v.to = w.to)
  <1> DEFINE ws == RollbackGenerations(vs, G)
             From(w, v) == /\ w \in Row /\ w.a = v.a /\ w.c = v.c /\ w.from = v.from
                           /\ v.from \notin G
                           /\ (v.to \in G => w.to = Open) /\ (v.to \notin G => w = v)
  <1>1. \A w \in ws : \E v \in vs : From(w, v)
    BY RolledRow
  <1>2. \A v \in vs : RowOk(v, n)
    BY DEF RowsOk
  <1>3. ASSUME NEW w \in ws PROVE RowOk(w, n)
    <2>1. PICK v \in vs : From(w, v)
      BY <1>1
    <2> QED BY <1>2, <2>1 DEF RowOk, Open
  <1>4. ASSUME NEW w \in ws, NEW x \in ws, w.a = x.a, w # x PROVE Apart(w, x)
    <2>1. PICK v \in vs : From(w, v)
      BY <1>1
    <2>2. PICK y \in vs : From(x, y)
      BY <1>1
    <2>3. v # y
      <3> SUFFICES ASSUME v = y PROVE FALSE
        OBVIOUS
      <3>1. w.to = x.to
        BY <2>1, <2>2
      <3> QED BY <1>4, <2>1, <2>2, <3>1 DEF Row
    <2>4. Apart(v, y)
      BY <1>4, <2>1, <2>2, <2>3 DEF RowsOk
    <2>5. RowOk(v, n) /\ RowOk(y, n)
      BY <1>2
    <2>6. v.to \in G => ~(v.to <= y.from)
      BY <2>2, <2>5 DEF RowOk, Row
    <2>7. y.to \in G => ~(y.to <= v.from)
      BY <2>1, <2>5 DEF RowOk, Row
    <2> QED BY <2>1, <2>2, <2>4, <2>6, <2>7 DEF Apart
  <1>5. ASSUME NEW v \in vs, v.from < n PROVE \E w \in ws : Like(v, w, n)
    <2>1. v.from \notin G
      BY <1>2, <1>5 DEF RowOk, Row
    <2>2. PICK w \in ws : /\ w.a = v.a /\ w.c = v.c /\ w.from = v.from
                          /\ (v.to \in G => w.to = Open) /\ (v.to \notin G => w = v)
      BY <2>1, RowRolled
    <2> QED BY <2>2 DEF Like, Late
  <1>6. ASSUME NEW w \in ws PROVE \E v \in vs : Like(v, w, n)
    <2>1. PICK v \in vs : From(w, v)
      BY <1>1
    <2> QED BY <2>1 DEF Like, Late
  <1>7. \A w \in ws : /\ w.from \notin G /\ \E v \in vs : v.from = w.from
                      /\ w.to \notin G /\ (w.to # Open => \E v \in vs : v.to = w.to)
    <2> SUFFICES ASSUME NEW w \in ws
                 PROVE  /\ w.from \notin G /\ \E v \in vs : v.from = w.from
                        /\ w.to \notin G /\ (w.to # Open => \E v \in vs : v.to = w.to)
      OBVIOUS
    <2>1. PICK v \in vs : From(w, v)
      BY <1>1
    <2> QED BY <2>1
  <1>8. Tells(vs, ws, n)
    BY <1>7 DEF Tells
  <1>9. RowsOk(ws, n) /\ Alike(vs, ws, n)
    BY <1>3, <1>4, <1>5, <1>6 DEF RowsOk, Alike
  <1> QED BY <1>7, <1>8, <1>9 DEF Written

\* Pruning takes rows that no kept generation shows.
LEMMA PruneRows ==
    ASSUME NEW vs, NEW n \in Nat, NEW k \in Nat, RowsOk(vs, n)
    PROVE  /\ RowsOk(PruneVersions(vs, k), n) /\ PruneVersions(vs, k) \subseteq vs
           /\ \A g \in Nat : k <= g => ViewOf(PruneVersions(vs, k), g) = ViewOf(vs, g)
  <1>1. PruneVersions(vs, k) \subseteq vs
    BY DEF PruneVersions
  <1>2. RowsOk(PruneVersions(vs, k), n)
    BY <1>1 DEF RowsOk
  <1>3. ASSUME NEW g \in Nat, k <= g, NEW a, NEW c
        PROVE  Sees(PruneVersions(vs, k), g, a, c) <=> Sees(vs, g, a, c)
    <2>1. ASSUME NEW v \in vs, v.to = Open \/ v.to > g PROVE v \in PruneVersions(vs, k)
      BY <1>3, <2>1 DEF PruneVersions, RowsOk, RowOk, Row
    <2> QED BY <1>1, <2>1 DEF Sees
  <1> QED BY <1>1, <1>2, <1>3 DEF ViewOf
-----------------------------------------------------------------------------
(* Which generations are kept. *)

LEMMA ActiveFinite ==
    ASSUME NEW gs, NEW S, gs \in Seq(S)
    PROVE  /\ IsFiniteSet(ActiveOf(gs)) /\ \A g \in ActiveOf(gs) : g \in 1 .. Len(gs)
           /\ Len(gs) \in Nat /\ DOMAIN gs = 1 .. Len(gs)
  <1>1. Len(gs) \in Nat /\ DOMAIN gs = 1 .. Len(gs)
    OBVIOUS
  <1>2. IsFiniteSet(1 .. Len(gs))
    BY <1>1, FS_Interval
  <1>3. ActiveOf(gs) \subseteq 1 .. Len(gs)
    BY <1>1 DEF ActiveOf
  <1> QED BY <1>1, <1>2, <1>3, FS_Subset

\* A generation that becomes active makes no other one kept.
LEMMA KeptGrows ==
    ASSUME NEW gs \in Seq(Statuses), NEW hs \in Seq(Statuses), NEW n,
           ActiveOf(hs) = ActiveOf(gs) \cup {n}
    PROVE  \A g \in KeptOf(hs) : g = n \/ g \in KeptOf(gs)
  <1> SUFFICES ASSUME NEW g \in KeptOf(hs), g # n PROVE g \in KeptOf(gs)
    OBVIOUS
  <1> DEFINE A == {h \in ActiveOf(gs) : h > g}
             B == {h \in ActiveOf(hs) : h > g}
  <1>1. IsFiniteSet(ActiveOf(hs))
    BY ActiveFinite
  <1>2. IsFiniteSet(B)
    <2>1. B \subseteq ActiveOf(hs)
      OBVIOUS
    <2> QED BY <1>1, <2>1, FS_Subset
  <1>3. A \subseteq B
    OBVIOUS
  <1>4. Cardinality(A) <= Cardinality(B) /\ Cardinality(A) \in Nat /\ Cardinality(B) \in Nat
    BY <1>2, <1>3, FS_Subset, FS_CardinalityType
  <1>5. g \in ActiveOf(gs) /\ (Keep = 0 \/ Cardinality(B) < Keep)
    BY DEF KeptOf
  <1>6. Keep = 0 \/ Cardinality(A) < Keep
    BY <1>4, <1>5, CatalogAssumption
  <1> QED BY <1>5, <1>6 DEF KeptOf

\* An active generation that is not kept makes no other one kept when it goes.
LEMMA KeptWithout ==
    ASSUME NEW gs \in Seq(Statuses), NEW hs \in Seq(Statuses),
           NEW x \in ActiveOf(gs), x \notin KeptOf(gs), ActiveOf(hs) = ActiveOf(gs) \ {x}
    PROVE  \A g \in KeptOf(hs) : g \in KeptOf(gs)
  <1> SUFFICES ASSUME NEW g \in KeptOf(hs) PROVE g \in KeptOf(gs)
    OBVIOUS
  <1> DEFINE A == {h \in ActiveOf(gs) : h > x}
             B == {h \in ActiveOf(hs) : h > g}
  <1>1. Keep # 0 /\ ~(Cardinality(A) < Keep)
    BY DEF KeptOf
  <1>2. g \in ActiveOf(gs) /\ g # x /\ Cardinality(B) < Keep
    BY <1>1 DEF KeptOf
  <1>3. x \in Nat /\ g \in Nat /\ \A h \in ActiveOf(gs) : h \in Nat
    BY <1>2, ActiveFinite
  <1>4. CASE g < x
    <2>1. ASSUME NEW h \in A PROVE h \in B
      <3>1. h \in ActiveOf(gs) /\ h > x /\ h \in Nat
        BY <1>3
      <3>2. h > g /\ h # x
        BY <1>3, <1>4, <3>1
      <3> QED BY <3>1, <3>2
    <2>2. IsFiniteSet(B)
      <3>1. B \subseteq ActiveOf(hs) /\ IsFiniteSet(ActiveOf(hs))
        BY ActiveFinite
      <3> QED BY <3>1, FS_Subset
    <2>3. Cardinality(A) <= Cardinality(B) /\ Cardinality(A) \in Nat /\ Cardinality(B) \in Nat
      BY <2>1, <2>2, FS_Subset, FS_CardinalityType
    <2> QED BY <1>1, <1>2, <2>3, CatalogAssumption
  <1>5. CASE g > x
    <2>1. B = {h \in ActiveOf(gs) : h > g}
      BY <1>3, <1>5
    <2> QED BY <1>2, <2>1 DEF KeptOf
  <1> QED BY <1>2, <1>3, <1>4, <1>5

\* The newest active generation is always kept.
LEMMA NewestKept ==
    ASSUME NEW gs \in Seq(Statuses), NEW g \in ActiveOf(gs), \A h \in ActiveOf(gs) : h <= g
    PROVE  g \in KeptOf(gs)
  <1>1. \A h \in ActiveOf(gs) : h \in Nat
    BY ActiveFinite
  <1>2. {h \in ActiveOf(gs) : h > g} = {}
    BY <1>1
  <1>3. Cardinality({h \in ActiveOf(gs) : h > g}) = 0
    BY <1>2, FS_EmptySet
  <1> QED BY <1>3, CatalogAssumption DEF KeptOf

LEMMA SameKept == ASSUME NEW gs, NEW hs, ActiveOf(hs) = ActiveOf(gs) PROVE KeptOf(hs) = KeptOf(gs)
  BY DEF KeptOf

LEMMA KeptActive == ASSUME NEW gs, NEW g \in KeptOf(gs) PROVE g \in ActiveOf(gs) /\ Settled(gs, g)
  BY DEF KeptOf, ActiveOf, Settled

\* The newest active generation, or 0.
LEMMA NewestFacts ==
    ASSUME NEW gs \in Seq(Statuses)
    PROVE  /\ NewestOf(gs) \in Nat
           /\ NewestOf(gs) = 0 => ActiveOf(gs) = {}
           /\ NewestOf(gs) # 0 => NewestOf(gs) \in ActiveOf(gs) /\ NewestOf(gs) \in KeptOf(gs)
           /\ \A g \in ActiveOf(gs) : g <= NewestOf(gs)
  <1> DEFINE S == ActiveOf(gs) \cup {0}
  <1>1. Len(gs) \in Nat /\ \A g \in ActiveOf(gs) : g \in 1 .. Len(gs)
    BY ActiveFinite
  <1>2. \A g \in S : g \in 0 .. Len(gs)
    BY <1>1
  <1>3. Max(S) \in S /\ \A g \in S : Max(S) >= g
    BY <1>1, <1>2, MaxIsGreatest
  <1>4. NewestOf(gs) = Max(S)
    BY DEF NewestOf
  <1>5. NewestOf(gs) \in S /\ \A g \in S : NewestOf(gs) >= g
    BY <1>3, <1>4
  <1>6. NewestOf(gs) \in Nat
    BY <1>2, <1>5
  <1>7. \A g \in ActiveOf(gs) : g <= NewestOf(gs)
    BY <1>1, <1>5, <1>6
  <1>8. NewestOf(gs) = 0 => ActiveOf(gs) = {}
    BY <1>1, <1>7
  <1>9. NewestOf(gs) # 0 => NewestOf(gs) \in ActiveOf(gs)
    BY <1>5
  <1>10. NewestOf(gs) # 0 => NewestOf(gs) \in KeptOf(gs)
    BY <1>7, <1>9, NewestKept
  <1> HIDE DEF S
  <1> QED BY <1>6, <1>7, <1>8, <1>9, <1>10

LEMMA NewestIs == ActiveGen = NewestOf(gens)
  BY KeptIs DEF ActiveGen, NewestOf

LEMMA ActiveGenIs ==
    ASSUME gens \in Seq(Statuses)
    PROVE  /\ ActiveGen \in Nat
           /\ ActiveGen = 0 => ActiveOf(gens) = {}
           /\ ActiveGen # 0 => ActiveGen \in ActiveOf(gens) /\ ActiveGen \in KeptOf(gens)
           /\ \A g \in ActiveOf(gens) : g <= ActiveGen
  BY NewestIs, NewestFacts

-----------------------------------------------------------------------------
(* The steps.  First the ones that leave the catalogue's tables alone. *)

LEMMA LoadOnly ==
    ASSUME CatalogInv, UNCHANGED <<files, writes, versions, gens, reader, cached, shown>>,
           load' = NoLoad \/ load' \in LoadState,
           load'.pc \in Preparing => load.pc \in Preparing,
           load'.pc \in Writing => /\ load.pc \in Writing /\ load'.gen = load.gen
                                   /\ load.pc = "undo" => load'.pc = "undo"
    PROVE  CatalogInv'
  <1>1. FilesInv' /\ GensInv' /\ StableInv' /\ FreshInv' /\ ReaderInv'
    BY DEF CatalogInv, FilesInv, GensInv, StableInv, FreshInv, ReaderInv
  <1>2. LoadInv'
    BY DEF CatalogInv, LoadInv
  <1>3. RowsInv'
    BY DEF CatalogInv, RowsInv, MentionInv, Mentioned
  <1> QED BY <1>1, <1>2, <1>3 DEF CatalogInv

LEMMA WriteFileInv ==
    ASSUME CatalogInv, NEW a \in Advisory, NEW c \in Content, WriteFile(a, c)
    PROVE  CatalogInv'
  <1>1. FilesInv'
    <2>1. writes' \in Nat /\ files[a].m \in Nat
      BY DEF CatalogInv, FilesInv, WriteFile, FileState
    <2>2. PICK f : f = [c |-> c, m |-> IF c = None THEN files[a].m ELSE writes']
      OBVIOUS
    <2>3. f \in FileState
      BY <2>1, <2>2 DEF FileState
    <2>4. files' = [files EXCEPT ![a] = f]
      BY <2>2 DEF WriteFile
    <2> QED BY <2>1, <2>3, <2>4 DEF CatalogInv, FilesInv
  <1>2. UNCHANGED <<versions, gens, load, reader, cached, shown>>
    BY DEF WriteFile, readVars
  <1> QED BY <1>1, <1>2 DEF CatalogInv, GensInv, StableInv, FreshInv, ReaderInv, LoadInv, RowsInv,
                            MentionInv, Mentioned

\* The steps of a load that read the directory, and the ones that end it.
LEMMA LoadPcInv ==
    ASSUME CatalogInv, Fetched \/ Scan \/ List \/ RecordFiles \/ Cleanup \/ EndLoad
                         \/ CrashLoad \/ LoadError \/ LoggedError
    PROVE  CatalogInv'
  <1>1. load = NoLoad \/ load \in LoadState
    BY DEF CatalogInv, LoadInv
  <1>2. UNCHANGED <<files, writes, versions, gens, reader, cached, shown>>
    BY DEF Fetched, Scan, List, RecordFiles, Cleanup, EndLoad, CrashLoad, LoadError,
           LoggedError, Untouched, readVars
  <1>3. CASE Fetched
    <2>0. load.pc = "fetch"
      BY <1>3 DEF Fetched
    <2>1. load \in LoadState /\ load.pc = "fetch"
      BY <1>1, <2>0 DEF NoLoad
    <2>2. PICK s \in BOOLEAN : load' = [load EXCEPT !.pc = "scan", !.short = s]
      BY <1>3 DEF Fetched
    <2>3. PICK l : l = [load EXCEPT !.pc = "scan"]
      OBVIOUS
    <2>4. l \in LoadState /\ l.pc = "scan"
      BY <2>1, <2>3 DEF LoadState, Preparing
    <2>5. load' = [l EXCEPT !.short = s]
      BY <2>2, <2>3
    <2>6. load' \in LoadState /\ load'.pc = "scan"
      BY <2>4, <2>5 DEF LoadState
    <2> QED BY <1>2, <2>1, <2>6, LoadOnly DEF Preparing, Writing
  <1>4. CASE Scan
    <2>1. load \in LoadState /\ load.pc = "scan"
      BY <1>1, <1>4 DEF Scan, NoLoad
    <2>2. ToProcess \in SUBSET Advisory /\ Removed \in SUBSET Advisory
      BY DEF ToProcess, Removed
    <2>3. CASE load' = [load EXCEPT !.pc = "list", !.listed = ToProcess]
      <3>1. PICK l : l = [load EXCEPT !.pc = "list"]
        OBVIOUS
      <3>2. l \in LoadState /\ l.pc = "list"
        BY <2>1, <3>1 DEF LoadState, Preparing
      <3>3. load' = [l EXCEPT !.listed = ToProcess]
        BY <2>3, <3>1
      <3>4. load' \in LoadState /\ load'.pc = "list"
        BY <2>2, <3>2, <3>3 DEF LoadState
      <3> QED BY <1>2, <2>1, <3>4, LoadOnly DEF Preparing, Writing
    <2>4. CASE load' = [load EXCEPT !.pc = "prune"]
      <3>1. load' \in LoadState /\ load'.pc = "prune"
        BY <2>1, <2>4 DEF LoadState
      <3> QED BY <1>2, <2>1, <3>1, LoadOnly DEF Preparing, Writing
    <2>5. CASE load' = [load EXCEPT !.pc = "validate", !.todo = ToProcess, !.listed = ToProcess,
                                    !.removed = Removed]
      <3>1. PICK l : l = [load EXCEPT !.pc = "validate"]
        OBVIOUS
      <3>2. PICK k : k = [l EXCEPT !.todo = ToProcess]
        OBVIOUS
      <3>3. PICK j : j = [k EXCEPT !.listed = ToProcess]
        OBVIOUS
      <3>4. load' = [j EXCEPT !.removed = Removed]
        BY <2>5, <3>1, <3>2, <3>3
      <3>5. l \in LoadState /\ l.pc = "validate"
        BY <2>1, <3>1 DEF LoadState, Preparing
      <3>6. k \in LoadState /\ k.pc = "validate"
        BY <2>2, <3>2, <3>5 DEF LoadState
      <3>7. j \in LoadState /\ j.pc = "validate"
        BY <2>2, <3>3, <3>6 DEF LoadState
      <3>8. load' \in LoadState /\ load'.pc = "validate"
        BY <2>2, <3>4, <3>7 DEF LoadState
      <3> QED BY <1>2, <2>1, <3>8, LoadOnly DEF Preparing, Writing
    <2> QED BY <1>4, <2>3, <2>4, <2>5 DEF Scan
  <1>5. CASE List
    <2>1. load \in LoadState /\ load.pc = "list"
      BY <1>1, <1>5 DEF List, NoLoad
    <2>2. Listed \in SUBSET Advisory
      BY DEF Listed
    <2>3. PICK mode \in {"full", "boot"} :
            load' = [load EXCEPT !.pc = "validate", !.todo = Listed, !.listed = Listed, !.mode = mode]
      BY <1>5 DEF List
    <2>4. PICK l : l = [load EXCEPT !.pc = "validate"]
      OBVIOUS
    <2>5. PICK k : k = [l EXCEPT !.todo = Listed]
      OBVIOUS
    <2>6. PICK j : j = [k EXCEPT !.listed = Listed]
      OBVIOUS
    <2>7. load' = [j EXCEPT !.mode = mode]
      BY <2>3, <2>4, <2>5, <2>6
    <2>8. l \in LoadState /\ l.pc = "validate"
      BY <2>1, <2>4 DEF LoadState, Preparing
    <2>9. k \in LoadState /\ k.pc = "validate"
      BY <2>2, <2>5, <2>8 DEF LoadState
    <2>10. j \in LoadState /\ j.pc = "validate"
      BY <2>2, <2>6, <2>9 DEF LoadState
    <2>11. load' \in LoadState /\ load'.pc = "validate"
      BY <2>7, <2>10 DEF LoadState
    <2> QED BY <1>2, <2>1, <2>11, LoadOnly DEF Preparing, Writing
  <1>6. CASE load' = NoLoad
    BY <1>2, <1>6, LoadOnly DEF NoLoad, Preparing, Writing
  <1>7. CASE RecordFiles \/ Cleanup \/ LoadError \/ LoggedError
    <2>1. load \in LoadState
      BY <1>1, <1>7 DEF RecordFiles, Cleanup, LoadError, LoggedError, NoLoad
    <2>2. load' = NoLoad \/ \/ load.pc = "record" /\ load' = [load EXCEPT !.pc = "complete"]
                            \/ load.pc = "cleanup" /\ load' = [load EXCEPT !.pc = "prune"]
                            \/ load.pc = "write" /\ load' = [load EXCEPT !.pc = "fail"]
                            \/ load.pc = "fail" /\ load' = [load EXCEPT !.pc = "undo"]
      BY <1>7 DEF RecordFiles, Cleanup, LoadError, LoggedError
    <2>3. CASE load.pc = "record" /\ load' = [load EXCEPT !.pc = "complete"]
      <3>1. load' \in LoadState /\ load'.pc = "complete" /\ load'.gen = load.gen
        BY <2>1, <2>3 DEF LoadState, Writing
      <3> QED BY <1>2, <2>3, <3>1, LoadOnly DEF Preparing, Writing
    <2>4. CASE load.pc = "cleanup" /\ load' = [load EXCEPT !.pc = "prune"]
      <3>1. load' \in LoadState /\ load'.pc = "prune"
        BY <2>1, <2>4 DEF LoadState
      <3> QED BY <1>2, <2>4, <3>1, LoadOnly DEF Preparing, Writing
    <2>5. CASE load.pc = "write" /\ load' = [load EXCEPT !.pc = "fail"]
      <3>1. load' \in LoadState /\ load'.pc = "fail" /\ load'.gen = load.gen
        BY <2>1, <2>5 DEF LoadState, Writing
      <3> QED BY <1>2, <2>5, <3>1, LoadOnly DEF Preparing, Writing
    <2>6. CASE load.pc = "fail" /\ load' = [load EXCEPT !.pc = "undo"]
      <3>1. load' \in LoadState /\ load'.pc = "undo" /\ load'.gen = load.gen
        BY <2>1, <2>6 DEF LoadState, Writing
      <3> QED BY <1>2, <2>6, <3>1, LoadOnly DEF Preparing, Writing
    <2> QED BY <1>6, <2>2, <2>3, <2>4, <2>5, <2>6
  <1>8. EndLoad \/ CrashLoad => load' = NoLoad
    BY DEF EndLoad, CrashLoad
  <1> QED BY <1>3, <1>4, <1>5, <1>6, <1>7, <1>8

LEMMA BootOnly ==
    ASSUME CatalogInv, BootCheck \/ BootSkip
    PROVE  CatalogInv'
  <1>1. UNCHANGED <<files, writes, versions, gens, load, reader, cached, shown>>
    BY DEF BootCheck, BootSkip, Untouched, readVars
  <1>2. load' = NoLoad \/ load' \in LoadState
    BY <1>1 DEF CatalogInv, LoadInv
  <1> QED BY <1>1, <1>2, LoadOnly

-----------------------------------------------------------------------------
(* The steps that write to the catalogue's tables. *)

LEMMA InvFacts ==
    ASSUME CatalogInv
    PROVE  /\ Len(gens) \in Nat /\ DOMAIN gens = 1 .. Len(gens) /\ RowsOk(versions, Len(gens))
           /\ \A v \in versions : v \in Row
           /\ \A g \in KeptOf(gens) : g \in DOMAIN gens /\ gens[g] = "active"
           /\ gens \in Seq(Statuses) /\ Len(shown) = Len(gens) /\ Len(cached) = Len(gens)
           /\ DOMAIN shown = DOMAIN gens /\ DOMAIN cached = DOMAIN gens
           /\ load = NoLoad \/ load \in LoadState
  BY DEF CatalogInv, GensInv, RowsInv, RowsOk, RowOk, KeptOf, ActiveOf, LoadInv

\* A write at a last generation that is not active changes no kept one.
LEMMA WrittenKeeps ==
    ASSUME CatalogInv, NEW ws, Written(versions, ws, Len(gens)), ~Settled(gens, Len(gens))
    PROVE  /\ RowsOk(ws, Len(gens))
           /\ \A g \in KeptOf(gens) : ViewOf(ws, g) = ViewOf(versions, g)
  <1>1. RowsOk(ws, Len(gens)) /\ \A w \in ws : w \in Row
    BY DEF Written, RowsOk, RowOk
  <1>2. ASSUME NEW g \in KeptOf(gens) PROVE ViewOf(ws, g) = ViewOf(versions, g)
    <2>1. g \in Nat /\ g < Len(gens)
      BY InvFacts DEF Settled
    <2> QED BY <1>1, <2>1, AlikeView, InvFacts DEF Written
  <1> QED BY <1>1, <1>2

LEMMA WriteStep ==
    ASSUME CatalogInv, NEW ws, versions' = ws, Written(versions, ws, Len(gens)),
           load.pc \in Writing, UNCHANGED <<files, writes, gens, reader, cached, shown>>,
           load' \in LoadState, load'.pc \in Writing \ {"undo"}, load'.gen = load.gen, load.pc # "undo"
    PROVE  CatalogInv'
  <1>1. ~Settled(gens, Len(gens)) /\ load.pc \notin Preparing /\ load'.pc \notin Preparing
    BY DEF CatalogInv, LoadInv, Settled, Writing, Preparing
  <1>2. RowsOk(ws, Len(gens)) /\ \A g \in KeptOf(gens) : ViewOf(ws, g) = ViewOf(versions, g)
    BY <1>1, WrittenKeeps
  <1>3. FilesInv' /\ GensInv' /\ FreshInv' /\ ReaderInv'
    BY DEF CatalogInv, FilesInv, GensInv, FreshInv, ReaderInv
  <1>4. StableInv'
    BY <1>2 DEF CatalogInv, StableInv
  <1>5. LoadInv'
    BY DEF CatalogInv, LoadInv
  <1>6. MentionInv'
    <2> SUFFICES ASSUME NEW w \in ws
                 PROVE  Mentioned(w.from)' /\ (w.to # Open => Mentioned(w.to)')
      BY DEF MentionInv
    <2>1. Mentioned(Len(gens))'
      BY <1>1 DEF Mentioned
    <2>2. \A v \in versions : Mentioned(v.from) /\ (v.to # Open => Mentioned(v.to))
      BY DEF CatalogInv, RowsInv, MentionInv
    <2>3. \A v \in versions : Mentioned(v.from)' /\ (v.to # Open => Mentioned(v.to)')
      BY <1>1, <2>2 DEF Mentioned
    <2> QED BY <2>1, <2>3 DEF Written, Tells
  <1>7. RowsInv'
    BY <1>2, <1>6 DEF RowsInv
  <1> QED BY <1>3, <1>4, <1>5, <1>7 DEF CatalogInv

\* What a batch makes of the load.
LEMMA BatchLoad ==
    ASSUME CatalogInv, NEW a \in Advisory, Batch(a)
    PROVE  /\ load \in LoadState /\ FileOf(a) \in Content
           /\ load' \in LoadState /\ load'.pc = "write" /\ load'.gen = load.gen
           /\ load'.mode = load.mode /\ load'.listed = load.listed /\ load'.removed = load.removed
           /\ load'.todo = load.todo \ {a} /\ load'.read = [load.read EXCEPT ![a] = FileOf(a)]
           /\ load'.bad = (load.bad \/ FileOf(a) = "bad")
  <1>1. load \in LoadState /\ load.pc = "write"
    BY InvFacts DEF Batch, NoLoad
  <1>2. PICK c : c = FileOf(a)
    OBVIOUS
  <1>3. c \in Content
    BY <1>2, CatalogAssumption DEF FileOf, CatalogInv, FilesInv, FileState, Content
  <1>4. PICK l : l = [load EXCEPT !.todo = @ \ {a}]
    OBVIOUS
  <1>5. PICK k : k = [l EXCEPT !.read[a] = c]
    OBVIOUS
  <1>6. load' = [k EXCEPT !.bad = @ \/ c = "bad"]
    BY <1>2, <1>4, <1>5 DEF Batch
  <1>7. /\ l \in LoadState /\ l.pc = "write" /\ l.gen = load.gen /\ l.mode = load.mode
        /\ l.listed = load.listed /\ l.removed = load.removed /\ l.bad = load.bad
        /\ l.read = load.read /\ l.todo = load.todo \ {a}
    BY <1>1, <1>4 DEF LoadState
  <1>8. [l.read EXCEPT ![a] = c] \in [Advisory -> Content]
    BY <1>3, <1>7 DEF LoadState
  <1>9. /\ k \in LoadState /\ k.pc = "write" /\ k.gen = load.gen /\ k.mode = load.mode
        /\ k.listed = load.listed /\ k.removed = load.removed /\ k.bad = load.bad
        /\ k.read = [load.read EXCEPT ![a] = c] /\ k.todo = load.todo \ {a}
    BY <1>5, <1>7, <1>8 DEF LoadState
  <1>10. PICK b \in BOOLEAN : b = (k.bad \/ c = "bad")
    BY <1>9 DEF LoadState
  <1>11. load' = [k EXCEPT !.bad = b]
    BY <1>6, <1>10
  <1>12. /\ load' \in LoadState /\ load'.pc = "write" /\ load'.gen = load.gen
         /\ load'.mode = load.mode /\ load'.listed = load.listed /\ load'.removed = load.removed
         /\ load'.read = [load.read EXCEPT ![a] = c] /\ load'.todo = load.todo \ {a} /\ load'.bad = b
    BY <1>9, <1>11 DEF LoadState
  <1> QED BY <1>1, <1>2, <1>3, <1>9, <1>10, <1>12

LEMMA BatchInv == ASSUME CatalogInv, NEW a \in Advisory, Batch(a) PROVE CatalogInv'
  <1>1. /\ load' \in LoadState /\ load'.pc = "write" /\ load'.gen = load.gen /\ FileOf(a) \in Content
    BY BatchLoad
  <1>2. load.pc = "write" /\ UNCHANGED <<files, writes, gens, reader, cached, shown>>
    BY DEF Batch, Untouched, readVars
  <1>3. load.gen = Len(gens) /\ Len(gens) \in Nat /\ Len(gens) >= 1 /\ RowsOk(versions, Len(gens))
    BY <1>2, InvFacts DEF CatalogInv, LoadInv, Writing
  <1>4. \/ versions' = versions
        \/ versions' = WriteVersion(versions, Len(gens), a, FileOf(a))
    BY <1>3 DEF Batch
  <1>5. Written(versions, versions', Len(gens))
    BY <1>1, <1>3, <1>4, SameWritten, WriteRows
  <1> QED BY <1>1, <1>2, <1>5, WriteStep DEF Writing

LEMMA CloseGoneInv == ASSUME CatalogInv, CloseGone PROVE CatalogInv'
  <1>1. load \in LoadState /\ load.pc = "write"
    BY InvFacts DEF CloseGone, NoLoad
  <1>2. UNCHANGED <<files, writes, gens, reader, cached, shown>>
    BY DEF CloseGone, Untouched, readVars
  <1>3. load.gen = Len(gens) /\ Len(gens) \in Nat /\ Len(gens) >= 1 /\ RowsOk(versions, Len(gens))
    BY <1>1, InvFacts DEF CatalogInv, LoadInv, Writing
  <1>4. PICK pc \in {"fail", "record"} : load' = [load EXCEPT !.pc = pc]
    BY DEF CloseGone
  <1>5. load' \in LoadState /\ load'.pc = pc /\ load'.gen = load.gen
    BY <1>1, <1>4 DEF LoadState, Writing
  <1>6. versions' = versions \/ \E ids : versions' = CloseAdvisories(versions, Len(gens), ids)
    BY <1>3 DEF CloseGone, CloseMissing
  <1>7. Written(versions, versions', Len(gens))
    BY <1>3, <1>6, SameWritten, CloseWritten
  <1> QED BY <1>1, <1>2, <1>5, <1>7, WriteStep DEF Writing

\* A change of statuses that leaves the active and the retired generations as they are.
LEMMA StatusStep ==
    ASSUME CatalogInv, NEW hs, gens' = hs, hs \in Seq(Statuses), Len(hs) = Len(gens),
           \A g \in DOMAIN gens : hs[g] = gens[g] \/ (~Settled(gens, g) /\ ~Settled(hs, g)),
           UNCHANGED <<reader, cached, shown>>
    PROVE  /\ GensInv' /\ FreshInv' /\ ReaderInv' /\ KeptOf(hs) = KeptOf(gens)
           /\ \A g : Settled(hs, g) <=> Settled(gens, g)
  <1>1. DOMAIN hs = DOMAIN gens
    BY InvFacts
  <1>2. ActiveOf(hs) = ActiveOf(gens)
    BY <1>1 DEF ActiveOf, Settled
  <1>3. KeptOf(hs) = KeptOf(gens)
    BY <1>2, SameKept
  <1>4. \A g : Settled(hs, g) <=> Settled(gens, g)
    BY <1>1 DEF Settled
  <1>5. GensInv'
    BY <1>1, <1>2 DEF CatalogInv, GensInv, Settled
  <1>6. FreshInv'
    BY <1>1, <1>4 DEF CatalogInv, FreshInv
  <1>7. ReaderInv'
    BY <1>3, <1>4 DEF CatalogInv, ReaderInv
  <1> QED BY <1>3, <1>4, <1>5, <1>6, <1>7

\* Nothing is undone when no row tells of the generations rolled back.
LEMMA RollbackNone ==
    ASSUME NEW vs, NEW G, \A v \in vs : v.from \notin G /\ v.to \notin G
    PROVE  RollbackGenerations(vs, G) = vs
  BY DEF RollbackGenerations

LEMMA RollbackViews ==
    ASSUME CatalogInv, NEW G, NEW ws, ws = RollbackGenerations(versions, G),
           \A g \in G : g \in DOMAIN gens /\ ~Settled(gens, g),
           \A v \in versions : (v.from \in G => v.from = Len(gens)) /\ (v.to \in G => v.to = Len(gens))
    PROVE  /\ Written(versions, ws, Len(gens))
           /\ \A g \in KeptOf(gens) : ViewOf(ws, g) = ViewOf(versions, g)
           /\ \A w \in ws : /\ w.from \notin G /\ \E v \in versions : v.from = w.from
                            /\ w.to \notin G /\ (w.to # Open => \E v \in versions : v.to = w.to)
  <1>1. Open \notin G
    BY InvFacts DEF Open
  <1>2. RowsOk(versions, Len(gens)) /\ Len(gens) \in Nat
    BY InvFacts
  <1>3. /\ Written(versions, ws, Len(gens))
        /\ \A w \in ws : /\ w.from \notin G /\ \E v \in versions : v.from = w.from
                         /\ w.to \notin G /\ (w.to # Open => \E v \in versions : v.to = w.to)
    BY <1>1, <1>2, RollbackRows
  <1>4. CASE Settled(gens, Len(gens))
    <2>1. \A v \in versions : v.from \notin G /\ v.to \notin G
      BY <1>4
    <2>2. ws = versions
      BY <2>1, RollbackNone
    <2> QED BY <1>3, <2>2
  <1>5. CASE ~Settled(gens, Len(gens))
    BY <1>3, <1>5, WrittenKeeps
  <1> QED BY <1>3, <1>4, <1>5

LEMMA RollbackInv ==
    ASSUME CatalogInv, RollbackUnfinished, load.pc = "idle", load' \in LoadState,
           load'.pc \in Preparing, UNCHANGED <<files, writes, reader, cached, shown>>
    PROVE  CatalogInv'
  <1>1. PICK G : G = WithStatus({"running", "failed"})
    OBVIOUS
  <1>2. \A g : g \in G <=> g \in DOMAIN gens /\ ~Settled(gens, g)
    BY <1>1 DEF WithStatus, Settled, Statuses, CatalogInv, GensInv
  <1>3. PICK ws : ws = RollbackGenerations(versions, G)
    OBVIOUS
  <1>4. \A v \in versions : /\ v.from \in DOMAIN gens /\ (v.to # Open => v.to \in DOMAIN gens)
                            /\ Mentioned(v.from) /\ (v.to # Open => Mentioned(v.to))
    BY InvFacts DEF CatalogInv, RowsInv, MentionInv, RowsOk, RowOk, Row, Open
  <1>5. \A v \in versions : (v.from \in G => v.from = Len(gens)) /\ (v.to \in G => v.to = Len(gens))
    <2>1. Open \notin G
      BY <1>2, InvFacts DEF Open
    <2> QED BY <1>2, <1>4, <2>1 DEF Mentioned
  <1>6. /\ Written(versions, ws, Len(gens))
        /\ \A g \in KeptOf(gens) : ViewOf(ws, g) = ViewOf(versions, g)
        /\ \A w \in ws : /\ w.from \notin G /\ \E v \in versions : v.from = w.from
                         /\ w.to \notin G /\ (w.to # Open => \E v \in versions : v.to = w.to)
    BY <1>2, <1>3, <1>5, RollbackViews
  <1>7. PICK hs : hs = [g \in DOMAIN gens |-> IF gens[g] = "running" THEN "failed" ELSE gens[g]]
    OBVIOUS
  <1>8. versions' = ws /\ gens' = hs
    BY <1>1, <1>3, <1>7 DEF RollbackUnfinished
  <1>9. hs \in Seq(Statuses) /\ Len(hs) = Len(gens)
    <2>1. \A g \in 1 .. Len(gens) : hs[g] \in Statuses
      BY <1>7, InvFacts DEF Statuses
    <2>2. hs = [g \in 1 .. Len(gens) |-> hs[g]]
      BY <1>7, InvFacts
    <2> QED BY <2>1, <2>2, InvFacts, IsASeq
  <1>10. \A g \in DOMAIN gens : hs[g] = gens[g] \/ (~Settled(gens, g) /\ ~Settled(hs, g))
    BY <1>7 DEF Settled
  <1>11. /\ GensInv' /\ FreshInv' /\ ReaderInv' /\ KeptOf(hs) = KeptOf(gens)
         /\ \A g : Settled(hs, g) <=> Settled(gens, g)
    BY <1>8, <1>9, <1>10, StatusStep
  <1>12. FilesInv'
    BY DEF CatalogInv, FilesInv
  <1>13. LoadInv'
    BY DEF LoadInv, Preparing, Writing
  <1>14. StableInv'
    BY <1>6, <1>8, <1>11 DEF CatalogInv, StableInv
  <1>15. MentionInv'
    <2> SUFFICES ASSUME NEW w \in ws
                 PROVE  Settled(hs, w.from) /\ (w.to # Open => Settled(hs, w.to))
      BY <1>8 DEF MentionInv, Mentioned
    <2> QED BY <1>2, <1>4, <1>6, <1>11
  <1>16. RowsInv'
    BY <1>6, <1>8, <1>9, <1>15 DEF RowsInv, Written
  <1> QED BY <1>11, <1>12, <1>13, <1>14, <1>16 DEF CatalogInv

LEMMA BeginInv ==
    ASSUME CatalogInv, BootStart \/ \E mode \in {"full", "changed", "sync"} : StartLoad(mode)
    PROVE  CatalogInv'
  <1>1. RollbackUnfinished /\ load.pc = "idle" /\ UNCHANGED <<files, writes, reader, cached, shown>>
    BY DEF BootStart, StartLoad, Untouched, readVars
  <1>2. PICK mode \in {"full", "changed", "sync", "boot"}, pc \in {"list", "fetch", "scan"} :
          BeginAs(mode, pc)
    BY DEF BootStart, StartLoad
  <1>3. load' \in LoadState /\ load'.pc \in Preparing
    BY <1>2 DEF BeginAs, LoadState, Preparing, Content
  <1> QED BY <1>1, <1>3, RollbackInv

LEMMA StartGenerationInv == ASSUME CatalogInv, StartGeneration PROVE CatalogInv'
  <1>1. PICK n : n = Len(gens)
    OBVIOUS
  <1>2. n \in Nat /\ DOMAIN gens = 1 .. n /\ Len(shown) = n /\ Len(cached) = n
    BY <1>1, InvFacts
  <1>3. load \in LoadState /\ load.pc = "validate" /\ load.pc \in Preparing
    BY InvFacts DEF StartGeneration, NoLoad, Preparing
  <1>4. gens' = Append(gens, "running") /\ shown' = Append(shown, NoView) /\ cached' = Append(cached, {})
    BY DEF StartGeneration
  <1>5. NoView \in Views
    BY DEF NoView, Views
  <1>6. /\ gens' \in Seq(Statuses) /\ Len(gens') = n + 1 /\ gens'[n + 1] = "running"
        /\ \A g \in 1 .. n : gens'[g] = gens[g]
    BY <1>1, <1>2, <1>4 DEF CatalogInv, GensInv, Statuses
  <1>7. /\ shown' \in Seq(Views) /\ Len(shown') = n + 1 /\ \A g \in 1 .. n : shown'[g] = shown[g]
    BY <1>2, <1>4, <1>5 DEF CatalogInv, GensInv
  <1>8. /\ cached' \in Seq(SUBSET Answers) /\ Len(cached') = n + 1 /\ cached'[n + 1] = {}
        /\ \A g \in 1 .. n : cached'[g] = cached[g]
    BY <1>2, <1>4 DEF CatalogInv, GensInv
  <1>9. DOMAIN gens' = 1 .. n + 1
    BY <1>6
  <1>10. ActiveOf(gens') = ActiveOf(gens) /\ KeptOf(gens') = KeptOf(gens)
    <2>1. ActiveOf(gens') = ActiveOf(gens)
      BY <1>2, <1>6, <1>9 DEF ActiveOf
    <2> QED BY <2>1, SameKept
  <1>11. \A g : Settled(gens', g) <=> Settled(gens, g)
    BY <1>2, <1>6, <1>9 DEF Settled
  <1>12. GensInv'
    BY <1>2, <1>6, <1>7, <1>8, <1>9, <1>10 DEF CatalogInv, GensInv
  <1>13. FreshInv'
    BY <1>2, <1>8, <1>9, <1>11 DEF CatalogInv, FreshInv
  <1>14. reader' = reader /\ versions' = versions /\ files' = files /\ writes' = writes
    BY DEF StartGeneration
  <1>15. ReaderInv'
    <2>1. reader = NoRead \/ (reader \in ReadState /\ Settled(gens, reader.gen))
      BY DEF CatalogInv, ReaderInv
    <2>2. CASE reader = NoRead
      BY <1>14, <2>2 DEF ReaderInv, NoRead
    <2>3. CASE reader \in ReadState /\ Settled(gens, reader.gen)
      <3>1. reader.gen \in 1 .. n /\ Settled(gens', reader.gen)
        BY <1>2, <1>11, <2>3 DEF Settled
      <3>2. shown'[reader.gen] = shown[reader.gen]
        BY <1>7, <3>1
      <3> QED BY <1>10, <1>14, <2>3, <3>1, <3>2 DEF CatalogInv, ReaderInv
    <2> QED BY <2>1, <2>2, <2>3
  <1>16. FilesInv'
    BY <1>14 DEF CatalogInv, FilesInv
  <1>17. load' \in LoadState /\ load'.pc = "write" /\ load'.gen = n + 1
    <2>1. PICK l : l = [load EXCEPT !.pc = "write"]
      OBVIOUS
    <2>2. load' = [l EXCEPT !.gen = n + 1]
      BY <1>6, <2>1 DEF StartGeneration
    <2>3. l \in LoadState /\ l.pc = "write"
      BY <1>3, <2>1 DEF LoadState, Writing
    <2> QED BY <1>2, <2>2, <2>3 DEF LoadState
  <1>18. LoadInv'
    BY <1>2, <1>6, <1>9, <1>17 DEF LoadInv
  <1>19. StableInv'
    BY <1>2, <1>7, <1>8, <1>10, <1>14, InvFacts DEF CatalogInv, StableInv
  <1>20. RowsOk(versions, n + 1)
    BY <1>1, <1>2, InvFacts DEF RowsOk, RowOk, Row
  <1>21. MentionInv'
    <2> SUFFICES ASSUME NEW w \in versions
                 PROVE  Settled(gens', w.from) /\ (w.to # Open => Settled(gens', w.to))
      BY <1>14 DEF MentionInv, Mentioned
    <2> QED BY <1>3, <1>11 DEF CatalogInv, RowsInv, MentionInv, Mentioned
  <1>22. RowsInv'
    BY <1>6, <1>14, <1>20, <1>21 DEF RowsInv
  <1> QED BY <1>12, <1>13, <1>15, <1>16, <1>18, <1>19, <1>22 DEF CatalogInv

LEMMA ActivateInv == ASSUME CatalogInv, Activate PROVE CatalogInv'
  <1>1. PICK n : n = load.gen
    OBVIOUS
  <1>2. load.pc = "complete" /\ load \in LoadState
    BY InvFacts DEF Activate, NoLoad
  <1>3. n = Len(gens) /\ n \in DOMAIN gens /\ gens[n] = "running" /\ n \in Nat
    BY <1>1, <1>2, InvFacts DEF CatalogInv, LoadInv, Writing
  <1>4. PICK hs : hs = [gens EXCEPT ![n] = "active"]
    OBVIOUS
  <1>5. PICK sh : sh = [shown EXCEPT ![n] = ViewOf(versions, n)]
    OBVIOUS
  <1>6. /\ gens' = hs /\ shown' = sh
        /\ UNCHANGED <<files, writes, versions, reader, cached>>
    BY <1>1, <1>4, <1>5, ViewIs, InvFacts DEF Activate, Untouched, readVars
  <1>7. /\ hs \in Seq(Statuses) /\ Len(hs) = Len(gens) /\ DOMAIN hs = DOMAIN gens
        /\ hs[n] = "active" /\ \A g \in DOMAIN gens : g # n => hs[g] = gens[g]
    BY <1>3, <1>4, InvFacts DEF Statuses
  <1>8. /\ sh \in Seq(Views) /\ Len(sh) = Len(gens) /\ sh[n] = ViewOf(versions, n)
        /\ \A g \in DOMAIN gens : g # n => sh[g] = shown[g]
    BY <1>3, <1>5, ViewInViews DEF CatalogInv, GensInv
  <1>9. ActiveOf(hs) = ActiveOf(gens) \cup {n}
    BY <1>3, <1>7 DEF ActiveOf
  <1>10. \A g \in KeptOf(hs) : g = n \/ (g \in KeptOf(gens) /\ g # n)
    BY <1>3, <1>7, <1>9, KeptGrows, InvFacts
  <1>11. \A g : Settled(hs, g) <=> Settled(gens, g) \/ g = n
    BY <1>3, <1>7 DEF Settled
  <1>12. GensInv'
    <2>1. \A g \in DOMAIN hs : hs[g] = "retired" => \E h \in ActiveOf(hs) : h > g
      BY <1>3, <1>7, <1>9 DEF CatalogInv, GensInv
    <2> QED BY <1>6, <1>7, <1>8, <2>1 DEF CatalogInv, GensInv
  <1>13. cached[n] = {}
    BY <1>3 DEF CatalogInv, FreshInv, Settled
  <1>14. FreshInv'
    BY <1>6, <1>7, <1>11 DEF CatalogInv, FreshInv
  <1>15. StableInv'
    BY <1>6, <1>8, <1>10, <1>13, InvFacts DEF CatalogInv, StableInv
  <1>16. ReaderInv'
    <2>1. reader = NoRead \/ (reader \in ReadState /\ Settled(gens, reader.gen) /\ reader.gen # n)
      BY <1>3 DEF CatalogInv, ReaderInv, Settled
    <2>2. CASE reader = NoRead
      BY <1>6, <2>2 DEF ReaderInv, NoRead
    <2>3. CASE reader \in ReadState /\ Settled(gens, reader.gen) /\ reader.gen # n
      BY <1>6, <1>8, <1>10, <1>11, <2>3 DEF CatalogInv, ReaderInv, Settled
    <2> QED BY <2>1, <2>2, <2>3
  <1>17. load' = NoLoad \/ (load' \in LoadState /\ load'.pc \in {"prune", "cleanup"})
    <2>1. load' = NoLoad \/ \E pc \in {"prune", "cleanup"} : load' = [load EXCEPT !.pc = pc]
      BY DEF Activate
    <2> QED BY <1>2, <2>1 DEF LoadState
  <1>18. LoadInv' /\ load'.pc \notin Preparing
    BY <1>17 DEF LoadInv, NoLoad, Writing, Preparing
  <1>19. RowsInv'
    <2>1. MentionInv'
      BY <1>3, <1>6, <1>7, <1>11, <1>18 DEF CatalogInv, RowsInv, MentionInv, Mentioned
    <2> QED BY <1>6, <1>7, <2>1 DEF CatalogInv, RowsInv
  <1>20. FilesInv'
    BY <1>6 DEF CatalogInv, FilesInv
  <1> QED BY <1>12, <1>14, <1>15, <1>16, <1>18, <1>19, <1>20 DEF CatalogInv

LEMMA PruneInv == ASSUME CatalogInv, Prune PROVE CatalogInv'
  <1>1. load \in LoadState /\ load.pc = "prune" /\ load' = [load EXCEPT !.pc = "retire"]
    BY InvFacts DEF Prune, NoLoad
  <1>2. UNCHANGED <<files, writes, gens, reader, cached, shown>>
    BY DEF Prune, Untouched, readVars
  <1>3. load' \in LoadState /\ load'.pc = "retire"
    BY <1>1 DEF LoadState
  <1>4. /\ versions' \subseteq versions /\ RowsOk(versions', Len(gens))
        /\ \A g \in KeptOf(gens) : ViewOf(versions', g) = ViewOf(versions, g)
    <2>1. CASE Kept = {}
      BY <2>1, InvFacts DEF Prune
    <2>2. CASE Kept # {}
      <3>1. Min(Kept) \in Kept /\ \A g \in Kept : Min(Kept) <= g
        BY <2>2, MinIsLeast, KeptIs, InvFacts
      <3>2. Min(Kept) \in Nat /\ \A g \in KeptOf(gens) : g \in Nat /\ Min(Kept) <= g
        BY <3>1, KeptIs, InvFacts
      <3>3. versions' = PruneVersions(versions, Min(Kept))
        BY <2>2 DEF Prune
      <3> QED BY <3>2, <3>3, PruneRows, InvFacts
    <2> QED BY <2>1, <2>2
  <1>5. FilesInv' /\ GensInv' /\ FreshInv' /\ ReaderInv'
    BY <1>2 DEF CatalogInv, FilesInv, GensInv, FreshInv, ReaderInv
  <1>6. StableInv'
    BY <1>2, <1>4 DEF CatalogInv, StableInv
  <1>7. LoadInv' /\ load.pc \notin Preparing /\ load'.pc \notin Preparing
    BY <1>1, <1>3 DEF LoadInv, Preparing, Writing
  <1>8. RowsInv'
    BY <1>2, <1>4, <1>7 DEF CatalogInv, RowsInv, MentionInv, Mentioned
  <1> QED BY <1>5, <1>6, <1>7, <1>8 DEF CatalogInv

LEMMA RetiredOne ==
    ASSUME CatalogInv, Retire
    PROVE  \E x : /\ x \in ActiveOf(gens) /\ x \notin KeptOf(gens)
                 /\ gens' = [gens EXCEPT ![x] = "retired"]
  <1>1. /\ Superseded = ActiveOf(gens) \ KeptOf(gens) /\ Superseded # {}
        /\ gens' = [gens EXCEPT ![Max(Superseded)] = "retired"]
    BY KeptIs DEF Retire, Superseded
  <1>2. Len(gens) \in Nat /\ \A g \in Superseded : g \in 0 .. Len(gens)
    BY <1>1, InvFacts, ActiveFinite
  <1>3. Max(Superseded) \in Superseded
    BY <1>1, <1>2, MaxIsGreatest
  <1> QED BY <1>1, <1>3

LEMMA RetireInv == ASSUME CatalogInv, Retire PROVE CatalogInv'
  <1>1. load.pc = "retire" /\ UNCHANGED <<files, writes, versions, load, reader, cached, shown>>
    BY DEF Retire, Untouched, readVars
  <1>2. PICK x, hs : /\ x \in ActiveOf(gens) /\ x \notin KeptOf(gens)
                     /\ hs = [gens EXCEPT ![x] = "retired"] /\ gens' = hs
    BY RetiredOne
  <1>3. gens' = hs
    BY <1>2
  <1>4. hs \in Seq(Statuses) /\ Len(hs) = Len(gens) /\ DOMAIN hs = DOMAIN gens
    BY <1>2, InvFacts DEF Statuses, ActiveOf
  <1>5. ActiveOf(hs) = ActiveOf(gens) \ {x}
    BY <1>2 DEF ActiveOf
  <1>6. \A g \in KeptOf(hs) : g \in KeptOf(gens)
    BY <1>2, <1>4, <1>5, KeptWithout, InvFacts
  <1>7. \A g : Settled(hs, g) <=> Settled(gens, g)
    BY <1>2 DEF Settled, ActiveOf
  <1>8. GensInv'
    <2>1. ASSUME NEW g \in DOMAIN hs, hs[g] = "retired" PROVE \E h \in ActiveOf(hs) : h > g
      <3>1. (gens[g] = "active" /\ g = x) \/ gens[g] = "retired"
        BY <1>2, <1>4, <2>1 DEF ActiveOf
      <3>2. g \in Nat /\ gens \in Seq(Statuses)
        BY <1>4, InvFacts
      <3>3. PICK k \in ActiveOf(gens) : k >= g
        BY <3>1, <1>4 DEF CatalogInv, GensInv, ActiveOf
      <3>4. /\ ActiveGen \in Nat /\ (ActiveGen # 0 => ActiveGen \in KeptOf(gens))
            /\ k <= ActiveGen /\ k \in Nat /\ k >= 1
        BY <3>2, ActiveGenIs, ActiveFinite
      <3>5. ActiveGen \in KeptOf(gens) /\ ActiveGen >= g
        BY <3>2, <3>3, <3>4
      <3>6. ActiveGen # g /\ ActiveGen # x
        BY <1>2, <3>1, <3>5 DEF KeptOf, ActiveOf
      <3> QED BY <1>5, <3>2, <3>4, <3>5, <3>6, KeptActive
    <2> QED BY <1>1, <1>3, <1>4, <2>1 DEF CatalogInv, GensInv
  <1>9. FilesInv' /\ FreshInv'
    BY <1>1, <1>3, <1>4, <1>7 DEF CatalogInv, FilesInv, FreshInv
  <1>10. ReaderInv'
    BY <1>1, <1>3, <1>6, <1>7 DEF CatalogInv, ReaderInv
  <1>11. StableInv'
    BY <1>1, <1>3, <1>6 DEF CatalogInv, StableInv
  <1>12. LoadInv' /\ load'.pc \notin Preparing /\ load.pc \notin Preparing
    BY <1>1 DEF CatalogInv, LoadInv, Writing, Preparing
  <1>13. RowsInv'
    BY <1>1, <1>3, <1>4, <1>7, <1>12 DEF CatalogInv, RowsInv, MentionInv, Mentioned
  <1> QED BY <1>8, <1>9, <1>10, <1>11, <1>12, <1>13 DEF CatalogInv

LEMMA MarkFailedInv == ASSUME CatalogInv, MarkFailed PROVE CatalogInv'
  <1>1. load \in LoadState /\ load.pc = "fail" /\ load' = [load EXCEPT !.pc = "undo"]
    BY InvFacts DEF MarkFailed, NoLoad
  <1>2. UNCHANGED <<files, writes, versions, reader, cached, shown>>
    BY DEF MarkFailed, Untouched, readVars
  <1>3. load' \in LoadState /\ load'.pc = "undo" /\ load'.gen = load.gen
    BY <1>1 DEF LoadState, Writing
  <1>4. PICK n : n = load.gen
    OBVIOUS
  <1>5. n = Len(gens) /\ n \in DOMAIN gens /\ gens[n] = "running"
    BY <1>1, <1>4 DEF CatalogInv, LoadInv, Writing
  <1>6. PICK hs : hs = [gens EXCEPT ![n] = "failed"]
    OBVIOUS
  <1>7. gens' = hs
    BY <1>4, <1>6 DEF MarkFailed
  <1>8. /\ hs \in Seq(Statuses) /\ Len(hs) = Len(gens) /\ hs[n] = "failed" /\ DOMAIN hs = DOMAIN gens
        /\ \A g \in DOMAIN gens : hs[g] = gens[g] \/ g = n
    BY <1>5, <1>6, InvFacts DEF Statuses
  <1>9. \A g \in DOMAIN gens : hs[g] = gens[g] \/ (~Settled(gens, g) /\ ~Settled(hs, g))
    BY <1>5, <1>8 DEF Settled
  <1>10. /\ GensInv' /\ FreshInv' /\ ReaderInv' /\ KeptOf(hs) = KeptOf(gens)
         /\ \A g : Settled(hs, g) <=> Settled(gens, g)
    BY <1>2, <1>7, <1>8, <1>9, StatusStep
  <1>11. FilesInv' /\ StableInv'
    BY <1>2, <1>7, <1>10 DEF CatalogInv, FilesInv, StableInv
  <1>12. LoadInv' /\ load.pc \notin Preparing /\ load'.pc \notin Preparing
    BY <1>1, <1>3, <1>4, <1>5, <1>7, <1>8 DEF LoadInv, Preparing
  <1>13. RowsInv'
    BY <1>2, <1>7, <1>8, <1>10, <1>12 DEF CatalogInv, RowsInv, MentionInv, Mentioned
  <1> QED BY <1>10, <1>11, <1>12, <1>13 DEF CatalogInv

LEMMA UndoInv == ASSUME CatalogInv, Undo PROVE CatalogInv'
  <1>1. load.pc = "undo" /\ load' = NoLoad /\ UNCHANGED <<files, writes, gens, reader, cached, shown>>
    BY DEF Undo, Untouched, readVars
  <1>2. PICK n : n = load.gen
    OBVIOUS
  <1>3. n = Len(gens) /\ n \in DOMAIN gens /\ ~Settled(gens, n)
    BY <1>1, <1>2 DEF CatalogInv, LoadInv, Writing, Settled
  <1>4. PICK ws : ws = RollbackGenerations(versions, {n})
    OBVIOUS
  <1>5. versions' = ws
    BY <1>2, <1>4 DEF Undo
  <1>6. /\ Written(versions, ws, Len(gens))
        /\ \A g \in KeptOf(gens) : ViewOf(ws, g) = ViewOf(versions, g)
        /\ \A w \in ws : /\ \E v \in versions : v.from = w.from
                         /\ (w.to # Open => \E v \in versions : v.to = w.to)
    BY <1>3, <1>4, RollbackViews
  <1>7. FilesInv' /\ GensInv' /\ FreshInv' /\ ReaderInv' /\ StableInv'
    BY <1>1, <1>5, <1>6 DEF CatalogInv, FilesInv, GensInv, FreshInv, ReaderInv, StableInv
  <1>8. LoadInv' /\ load.pc \notin Preparing /\ load'.pc \notin Preparing
    BY <1>1 DEF LoadInv, NoLoad, Writing, Preparing
  <1>9. MentionInv'
    <2>1. \A v \in versions : Mentioned(v.from)' /\ (v.to # Open => Mentioned(v.to)')
      BY <1>1, <1>8 DEF CatalogInv, RowsInv, MentionInv, Mentioned
    <2> QED BY <1>5, <1>6, <2>1 DEF MentionInv
  <1>10. RowsInv'
    BY <1>1, <1>5, <1>6, <1>9 DEF RowsInv, Written
  <1> QED BY <1>7, <1>8, <1>10 DEF CatalogInv

-----------------------------------------------------------------------------
(* The matcher. *)

LEMMA ReadOnly ==
    ASSUME CatalogInv, UNCHANGED <<files, writes, versions, gens, load, shown>>,
           \/ cached' = cached
           \/ \E g \in DOMAIN gens, S \in SUBSET Answers :
                /\ cached' = [cached EXCEPT ![g] = S]
                /\ S = {} \/ Settled(gens, g)
                /\ g \in KeptOf(gens) => S \subseteq {[ranges |-> shown[g], refs |-> shown[g]]},
           ReaderInv'
    PROVE  CatalogInv'
  <1>1. FilesInv' /\ LoadInv' /\ RowsInv'
    BY DEF CatalogInv, FilesInv, LoadInv, RowsInv, MentionInv, Mentioned
  <1>2. CASE cached' = cached
    BY <1>1, <1>2 DEF CatalogInv, GensInv, StableInv, FreshInv
  <1>3. CASE cached' # cached
    <2>1. PICK g \in DOMAIN gens, S \in SUBSET Answers :
                /\ cached' = [cached EXCEPT ![g] = S]
                /\ S = {} \/ Settled(gens, g)
                /\ g \in KeptOf(gens) => S \subseteq {[ranges |-> shown[g], refs |-> shown[g]]}
      BY <1>3
    <2>2. g \in 1 .. Len(cached) /\ cached \in Seq(SUBSET Answers) /\ DOMAIN gens = 1 .. Len(cached)
      BY InvFacts DEF CatalogInv, GensInv
    <2>3. /\ cached' \in Seq(SUBSET Answers) /\ Len(cached') = Len(cached) /\ cached'[g] = S
          /\ \A h \in DOMAIN gens : h # g => cached'[h] = cached[h]
      BY <2>1, <2>2
    <2>4. GensInv'
      BY <2>3 DEF CatalogInv, GensInv
    <2>5. StableInv'
      BY <2>1, <2>3, InvFacts DEF CatalogInv, StableInv
    <2>6. FreshInv'
      BY <2>1, <2>3 DEF CatalogInv, FreshInv
    <2> QED BY <1>1, <2>4, <2>5, <2>6 DEF CatalogInv
  <1> QED BY <1>2, <1>3

LEMMA ReaderStep ==
    ASSUME CatalogInv, BeginRead \/ QueryRanges \/ QueryRefs \/ \E g \in DOMAIN gens : Expire(g)
    PROVE  CatalogInv'
  <1>1. UNCHANGED <<files, writes, versions, gens, load, shown>>
    BY DEF BeginRead, QueryRanges, QueryRefs, Expire
  <1>2. CASE BeginRead
    <2>1. ActiveGen # 0 /\ reader' = [pc |-> "ranges", gen |-> ActiveGen, ranges |-> NoView]
      BY <1>2 DEF BeginRead
    <2>2. ActiveGen \in Nat /\ Settled(gens, ActiveGen)
      BY <2>1, ActiveGenIs, KeptActive, InvFacts
    <2>3. PICK n : n = ActiveGen
      OBVIOUS
    <2>4. NoView \in Views
      BY DEF NoView, Views
    <2>5. reader' \in ReadState /\ reader'.pc = "ranges" /\ reader'.gen = n
      BY <2>1, <2>2, <2>3, <2>4 DEF ReadState
    <2>6. ReaderInv'
      BY <1>1, <2>2, <2>3, <2>5 DEF ReaderInv
    <2>7. cached' = cached
      BY <1>2 DEF BeginRead
    <2> QED BY <1>1, <2>6, <2>7, ReadOnly
  <1>3. CASE QueryRanges
    <2>1. reader \in ReadState /\ reader.pc = "ranges" /\ Settled(gens, reader.gen)
      BY <1>3 DEF QueryRanges, NoRead, CatalogInv, ReaderInv
    <2>2. PICK r : r = [reader EXCEPT !.pc = "refs"]
      OBVIOUS
    <2>3. reader' = [r EXCEPT !.ranges = ViewOf(versions, reader.gen)]
      BY <1>3, <2>2, ViewIs, InvFacts DEF QueryRanges
    <2>4. r \in ReadState /\ r.pc = "refs" /\ r.gen = reader.gen
      BY <2>1, <2>2 DEF ReadState
    <2>5. /\ reader' \in ReadState /\ reader'.pc = "refs" /\ reader'.gen = reader.gen
          /\ reader'.ranges = ViewOf(versions, reader.gen)
      BY <2>3, <2>4, ViewInViews DEF ReadState
    <2>6. ReaderInv'
      BY <1>1, <2>1, <2>5 DEF CatalogInv, ReaderInv, StableInv
    <2>7. cached' = cached
      BY <1>3 DEF QueryRanges
    <2> QED BY <1>1, <2>6, <2>7, ReadOnly
  <1>4. CASE QueryRefs
    <2>1. reader \in ReadState /\ reader.pc = "refs" /\ Settled(gens, reader.gen)
      BY <1>4 DEF QueryRefs, NoRead, CatalogInv, ReaderInv
    <2>2. PICK g : g = reader.gen
      OBVIOUS
    <2>3. PICK rg : rg = reader.ranges
      OBVIOUS
    <2>4. PICK refs : refs = [a \in Advisory |-> IF rg[a] = {} THEN {} ELSE ViewOf(versions, g)[a]]
      OBVIOUS
    <2>5. cached' = [cached EXCEPT ![g] = {[ranges |-> rg, refs |-> refs]}]
      BY <1>4, <2>2, <2>3, <2>4, ViewIs, InvFacts DEF QueryRefs
    <2>6. rg \in Views /\ refs \in Views
      <3>1. \A a \in Advisory : ViewOf(versions, g)[a] \in SUBSET Content
        BY ViewInViews DEF Views
      <3> QED BY <2>1, <2>3, <2>4, <3>1 DEF ReadState, Views
    <2>7. {[ranges |-> rg, refs |-> refs]} \in SUBSET Answers
      BY <2>6 DEF Answers
    <2>8. ASSUME g \in KeptOf(gens)
          PROVE  {[ranges |-> rg, refs |-> refs]} \subseteq {[ranges |-> shown[g], refs |-> shown[g]]}
      <3>1. rg = shown[g] /\ ViewOf(versions, g) = shown[g]
        BY <2>1, <2>2, <2>3, <2>8 DEF CatalogInv, ReaderInv, StableInv
      <3>2. refs = shown[g]
        BY <2>4, <2>6, <3>1 DEF Views
      <3> QED BY <3>1, <3>2
    <2>9. reader' = NoRead
      BY <1>4 DEF QueryRefs
    <2>10. ReaderInv'
      BY <2>9 DEF ReaderInv, NoRead
    <2>11. g \in DOMAIN gens /\ Settled(gens, g)
      BY <2>1, <2>2 DEF Settled
    <2> QED BY <1>1, <2>5, <2>7, <2>8, <2>10, <2>11, ReadOnly
  <1>5. CASE \E g \in DOMAIN gens : Expire(g)
    <2>1. PICK g \in DOMAIN gens : Expire(g)
      BY <1>5
    <2>2. cached' = [cached EXCEPT ![g] = {}] /\ reader' = reader
      BY <2>1 DEF Expire
    <2>3. ReaderInv'
      BY <1>1, <2>2 DEF CatalogInv, ReaderInv
    <2>4. {} \in SUBSET Answers
      OBVIOUS
    <2> QED BY <1>1, <2>2, <2>3, <2>4, ReadOnly
  <1> QED BY <1>2, <1>3, <1>4, <1>5

-----------------------------------------------------------------------------
LEMMA CatalogInitInv == CatalogInit => CatalogInv
  <1> SUFFICES ASSUME CatalogInit PROVE CatalogInv
    OBVIOUS
  <1>1. FilesInv
    BY DEF CatalogInit, FilesInv, FileState, Content, Contents, Good
  <1>2. versions = {} /\ gens = <<>> /\ shown = <<>> /\ cached = <<>> /\ load = NoLoad /\ reader = NoRead
    BY DEF CatalogInit
  <1>3. GensInv /\ FreshInv
    BY <1>2 DEF GensInv, FreshInv
  <1>4. LoadInv
    BY <1>2 DEF LoadInv, NoLoad, Writing
  <1>5. ReaderInv
    BY <1>2 DEF ReaderInv, NoRead
  <1>6. RowsInv
    BY <1>2 DEF RowsInv, RowsOk, MentionInv
  <1>7. StableInv
    BY <1>2 DEF StableInv, KeptOf, ActiveOf
  <1> QED BY <1>1, <1>3, <1>4, <1>5, <1>6, <1>7 DEF CatalogInv

LEMMA CatalogStep == CatalogInv /\ [CatalogNext]_catalogVars => CatalogInv'
  <1> SUFFICES ASSUME CatalogInv, [CatalogNext]_catalogVars PROVE CatalogInv'
    OBVIOUS
  <1>1. CASE \E a \in Advisory, c \in Contents \cup {None} : WriteFile(a, c)
    BY <1>1, WriteFileInv DEF Content
  <1>2. CASE BootStart \/ \E mode \in {"full", "changed", "sync"} : StartLoad(mode)
    BY <1>2, BeginInv
  <1>3. CASE BootCheck \/ BootSkip
    BY <1>3, BootOnly
  <1>4. CASE Fetched \/ Scan \/ List \/ RecordFiles \/ Cleanup \/ EndLoad
               \/ CrashLoad \/ LoadError \/ LoggedError
    BY <1>4, LoadPcInv
  <1>5. CASE StartGeneration
    BY <1>5, StartGenerationInv
  <1>6. CASE \E a \in Advisory : Batch(a)
    BY <1>6, BatchInv
  <1>7. CASE CloseGone
    BY <1>7, CloseGoneInv
  <1>8. CASE Activate
    BY <1>8, ActivateInv
  <1>9. CASE Prune
    BY <1>9, PruneInv
  <1>10. CASE Retire
    BY <1>10, RetireInv
  <1>11. CASE MarkFailed
    BY <1>11, MarkFailedInv
  <1>12. CASE Undo
    BY <1>12, UndoInv
  <1>13. CASE BeginRead \/ QueryRanges \/ QueryRefs \/ \E g \in DOMAIN gens : Expire(g)
    BY <1>13, ReaderStep
  <1>14. CASE UNCHANGED catalogVars
    <2>1. UNCHANGED <<files, writes, versions, gens, load, reader, cached, shown>>
      BY <1>14 DEF catalogVars
    <2>2. load' = NoLoad \/ load' \in LoadState
      BY <2>1, InvFacts
    <2> QED BY <2>1, <2>2, LoadOnly
  <1> QED BY <1>1, <1>2, <1>3, <1>4, <1>5, <1>6, <1>7, <1>8, <1>9, <1>10, <1>11, <1>12, <1>13, <1>14
          DEF CatalogNext

(* Whatever later loads write, close, undo or prune, and wherever they     *)
(* stop, a generation that is kept shows what it showed when it became      *)
(* active, with one version of an advisory at most, and what the matcher    *)
(* has cached for it is that generation's, for any number of advisories,    *)
(* loads, faults and kept generations.                                      *)
THEOREM KeptIsStableTheorem == CatalogSpec => []KeptIsStable
  <1>1. CatalogSpec => []CatalogInv
    BY CatalogInitInv, CatalogStep, PTL DEF CatalogSpec
  <1> QED BY <1>1, StableGives, PTL

-----------------------------------------------------------------------------
(* What a load publishes.                                                   *)
(* The current contents of an advisory while a load runs: those of the      *)
(* active generation until the load has read its file, then the file's.     *)

Current(vs, a) == {c \in Content : \E v \in vs : v.a = a /\ v.to = Open /\ v.c = c}
Base(gs, sh, a) == IF NewestOf(gs) = 0 THEN {} ELSE sh[NewestOf(gs)][a]
Published(l, gs, sh, a) ==
    IF l.read[a] # None THEN Shows(l.read[a])
    ELSE IF l.mode \in {"full", "boot"} \/ NewestOf(gs) = 0 \/ a \in l.removed THEN {}
    ELSE Base(gs, sh, a)
FileFor(l, fs, a) == IF l.mode = "boot" THEN Bundle[a] ELSE fs[a].c

PrepareInv ==
    /\ load.pc \in Preparing => \A a \in Advisory : load.read[a] = None
    /\ load.pc \in {"fetch", "scan"} => load.mode \in {"changed", "sync"}
    /\ load.pc \in {"fetch", "scan", "list"} => load.removed = {}

ListedInv ==
    load.pc \in {"validate", "write"} =>
        \A a \in Advisory : /\ a \in load.todo => FileFor(load, files, a) # None /\ a \in load.listed
                            /\ a \in load.listed => /\ a \in load.todo \/ load.read[a] # None
                                                    /\ a \notin load.removed
                            /\ load.read[a] # None => a \in load.listed

BatchesInv ==
    load.pc = "write" =>
        \A a \in Advisory :
            /\ load.read[a] = None => /\ Current(versions, a) = Base(gens, shown, a)
                                      /\ \A v \in versions : v.a = a => v.from # load.gen
            /\ load.read[a] = "bad" => load.bad
            /\ load.read[a] \notin {None, "bad"} => Current(versions, a) = Shows(load.read[a])

PublishInv ==
    load.pc \in {"record", "complete"} =>
        \A a \in Advisory : Current(versions, a) = Published(load, gens, shown, a)

DeltaInv == PrepareInv /\ ListedInv /\ BatchesInv /\ PublishInv
LoadingInv == CatalogInv /\ DeltaInv

\* A load changes its place and nothing else.
LEMMA PcOnly ==
    ASSUME NEW l \in LoadState, NEW k, NEW p, k = [l EXCEPT !.pc = p]
    PROVE  /\ k.pc = p /\ k.mode = l.mode /\ k.todo = l.todo /\ k.removed = l.removed
           /\ k.bad = l.bad /\ k.gen = l.gen /\ k.read = l.read /\ k.listed = l.listed
           /\ k.short = l.short
  BY DEF LoadState

\* Outside the part of a load that the invariant follows.
LEMMA DeltaElsewhere ==
    ASSUME NEW pc, load'.pc = pc, pc \in {"idle", "fail", "undo", "cleanup", "prune", "retire"}
    PROVE  DeltaInv'
  BY DEF DeltaInv, PrepareInv, ListedInv, BatchesInv, PublishInv, Preparing

LEMMA DeltaSame == ASSUME DeltaInv, UNCHANGED <<files, versions, gens, shown, load>> PROVE DeltaInv'
  BY DEF DeltaInv, PrepareInv, ListedInv, BatchesInv, PublishInv

\* Before the first write everything the catalogue tells of was published.
LEMMA PreparedCurrent ==
    ASSUME CatalogInv, load.pc \in Preparing, NEW a \in Advisory
    PROVE  Current(versions, a) = Base(gens, shown, a)
  <1>1. PICK n : n = NewestOf(gens)
    OBVIOUS
  <1>2. /\ n \in Nat /\ (n = 0 => ActiveOf(gens) = {}) /\ (n # 0 => n \in KeptOf(gens))
        /\ \A g \in ActiveOf(gens) : g <= n /\ g \in Nat
    BY <1>1, NewestIs, ActiveGenIs, ActiveFinite, InvFacts
  <1>3. ASSUME NEW g, Settled(gens, g) PROVE g \in Nat /\ g <= n /\ n # 0
    <2>1. g \in Nat /\ g >= 1
      BY <1>3, InvFacts DEF Settled
    <2>2. PICK h \in ActiveOf(gens) : g <= h
      <3>1. CASE gens[g] = "active"
        BY <1>3, <2>1, <3>1 DEF ActiveOf, Settled
      <3>2. CASE gens[g] = "retired"
        BY <1>2, <1>3, <2>1, <3>2 DEF CatalogInv, GensInv, Settled
      <3> QED BY <1>3, <3>1, <3>2 DEF Settled
    <2> QED BY <1>2, <2>1, <2>2
  <1>4. ASSUME NEW v \in versions PROVE /\ v \in Row /\ v.from <= n /\ n # 0
                                        /\ v.to # Open => v.to <= n
    <2>1. Settled(gens, v.from) /\ (v.to # Open => Settled(gens, v.to))
      BY DEF CatalogInv, RowsInv, MentionInv, Mentioned
    <2> QED BY <1>3, <2>1, InvFacts
  <1>5. CASE n = 0
    <2>1. versions = {}
      BY <1>4, <1>5
    <2> QED BY <1>1, <1>5, <2>1 DEF Current, Base
  <1>6. CASE n # 0
    <2>1. shown[n] = ViewOf(versions, n)
      BY <1>2, <1>6 DEF CatalogInv, StableInv
    <2>2. \A c \in Content : Sees(versions, n, a, c) <=> \E v \in versions : v.a = a /\ v.to = Open /\ v.c = c
      BY <1>2, <1>4 DEF Sees, Row
    <2> QED BY <1>1, <1>6, <2>1, <2>2 DEF Current, Base, ViewOf
  <1> QED BY <1>5, <1>6

\* The last generation shows what is current.
LEMMA LastShowsCurrent ==
    ASSUME NEW vs, NEW n \in Nat, RowsOk(vs, n), NEW a \in Advisory
    PROVE  ViewOf(vs, n)[a] = Current(vs, a)
  <1>1. \A v \in vs : v.from <= n /\ v.to <= n /\ v.to \in Nat
    BY DEF RowsOk, RowOk, Row
  <1>2. \A c \in Content : Sees(vs, n, a, c) <=> \E v \in vs : v.a = a /\ v.to = Open /\ v.c = c
    BY <1>1 DEF Sees
  <1> QED BY <1>2 DEF Current, ViewOf

LEMMA CloseCurrent ==
    ASSUME NEW vs, NEW n \in Nat, n >= 1, NEW ids, RowsOk(vs, n), NEW a
    PROVE  /\ a \in ids => Current(CloseAdvisories(vs, n, ids), a) = {}
           /\ a \notin ids => \A v : v.a = a => (v \in CloseAdvisories(vs, n, ids) <=> v \in vs)
           /\ a \notin ids => Current(CloseAdvisories(vs, n, ids), a) = Current(vs, a)
  <1> DEFINE ws == CloseAdvisories(vs, n, ids)
  <1>1. ASSUME a \in ids PROVE Current(ws, a) = {}
    <2>1. \A w \in ws : w.a = a => w.to # Open
      BY <1>1, ClosedOf
    <2> HIDE DEF ws
    <2> QED BY <2>1 DEF Current
  <1>2. ASSUME a \notin ids, NEW v, v.a = a PROVE v \in ws <=> v \in vs
    <2>1. ASSUME v \in ws PROVE v \in vs
      <3>1. PICK y \in vs : /\ v \in Row /\ v.a = y.a /\ v.c = y.c /\ v.from = y.from
                            /\ ~(y.a \in ids /\ y.from = n)
                            /\ (y.a \in ids /\ y.to = Open => v.to = n)
                            /\ (~(y.a \in ids /\ y.to = Open) => v = y)
        BY <2>1, ClosedRow
      <3> QED BY <1>2, <3>1
    <2>2. ASSUME v \in vs PROVE v \in ws
      BY <1>2, <2>2 DEF CloseAdvisories
    <2> QED BY <2>1, <2>2
  <1>3. ASSUME a \notin ids PROVE Current(ws, a) = Current(vs, a)
    <2>1. \A v : v.a = a => (v \in ws <=> v \in vs)
      BY <1>2, <1>3
    <2> HIDE DEF ws
    <2> QED BY <2>1 DEF Current
  <1> QED BY <1>1, <1>2, <1>3

LEMMA WriteCurrent ==
    ASSUME NEW vs, NEW n \in Nat, n >= 1, NEW a \in Advisory, NEW c \in Content, RowsOk(vs, n)
    PROVE  /\ c \notin {None, "bad"} => Current(WriteVersion(vs, n, a, c), a) = Shows(c)
           /\ \A b : b # a => /\ Current(WriteVersion(vs, n, a, c), b) = Current(vs, b)
                              /\ \A v : v.a = b => (v \in WriteVersion(vs, n, a, c) <=> v \in vs)
  <1>1. PICK current : current = {v \in vs : v.a = a /\ v.to = Open}
    OBVIOUS
  <1>2. PICK closed : closed = IF current = {} THEN vs ELSE CloseAdvisories(vs, n, {a})
    OBVIOUS
  <1>3. PICK r : r = [a |-> a, c |-> c, from |-> n, to |-> Open]
    OBVIOUS
  <1>4. r.a = a /\ r.c = c /\ r.to = Open
    BY <1>3
  <1>5. PICK ws : ws = WriteVersion(vs, n, a, c)
    OBVIOUS
  <1>6. ws = IF c = "withdrawn" THEN closed
             ELSE IF \E v \in current : v.c = c THEN vs
             ELSE closed \cup {r}
    BY <1>1, <1>2, <1>3, <1>5 DEF WriteVersion
  <1>7. \A w \in closed : w.a = a => w.to # Open
    BY <1>1, <1>2, ClosedOf
  <1>8. \A b : b # a => \A v : v.a = b => (v \in closed <=> v \in vs)
    BY <1>2, CloseCurrent
  <1>9. \A b : b # a => \A v : v.a = b => (v \in ws <=> v \in vs)
    BY <1>4, <1>6, <1>8
  <1>10. \A b : b # a => Current(ws, b) = Current(vs, b)
    BY <1>9 DEF Current
  <1>11. ASSUME c \notin {None, "bad"} PROVE Current(ws, a) = Shows(c)
    <2>1. CASE c = "withdrawn"
      BY <1>6, <1>7, <2>1 DEF Current, Shows, Good
    <2>2. CASE c # "withdrawn" /\ \E v \in current : v.c = c
      <3>1. \A v, w \in current : v = w
        BY <1>1 DEF RowsOk, Apart
      <3>2. ws = vs
        BY <1>6, <2>2
      <3> QED BY <1>1, <1>11, <2>2, <3>1, <3>2 DEF Current, Shows, Content, Contents, None
    <2>3. CASE c # "withdrawn" /\ ~\E v \in current : v.c = c
      <3>1. ws = closed \cup {r}
        BY <1>6, <2>3
      <3> QED BY <1>4, <1>7, <1>11, <2>3, <3>1 DEF Current, Shows, Content, Contents, None
    <2> QED BY <2>1, <2>2, <2>3
  <1> QED BY <1>5, <1>9, <1>10, <1>11

\* The steps that keep what the load follows, or begin it.
LEMMA DeltaBegin ==
    ASSUME NEW mode \in {"full", "changed", "sync", "boot"}, NEW pc \in {"list", "fetch", "scan"},
           pc # "list" => mode \in {"changed", "sync"}, BeginAs(mode, pc)
    PROVE  DeltaInv'
  <1>1. /\ load'.pc = pc /\ load'.mode = mode /\ load'.removed = {}
        /\ load'.read = [a \in Advisory |-> None]
    BY DEF BeginAs
  <1>2. PrepareInv'
    BY <1>1 DEF PrepareInv, Preparing
  <1> QED BY <1>1, <1>2 DEF DeltaInv, ListedInv, BatchesInv, PublishInv

LEMMA DeltaFetched == ASSUME CatalogInv, DeltaInv, Fetched PROVE DeltaInv'
  <1>1. load.pc = "fetch"
    BY DEF Fetched
  <1>2. load \in LoadState
    BY <1>1, InvFacts DEF NoLoad
  <1>3. PICK s \in BOOLEAN : load' = [load EXCEPT !.pc = "scan", !.short = s]
    BY DEF Fetched
  <1>4. load'.pc = "scan" /\ load'.mode = load.mode /\ load'.removed = load.removed /\ load'.read = load.read
    BY <1>2, <1>3 DEF LoadState
  <1>5. PrepareInv'
    BY <1>1, <1>4 DEF DeltaInv, PrepareInv, Preparing
  <1> QED BY <1>4, <1>5 DEF DeltaInv, ListedInv, BatchesInv, PublishInv

LEMMA ScanFields ==
    ASSUME load \in LoadState, NEW S, NEW R,
           load' = [load EXCEPT !.pc = "validate", !.todo = S, !.listed = S, !.removed = R]
    PROVE  /\ load'.pc = "validate" /\ load'.mode = load.mode /\ load'.read = load.read
           /\ load'.todo = S /\ load'.listed = S /\ load'.removed = R
  <1>1. PICK i : i = [load EXCEPT !.pc = "validate", !.todo = S]
    OBVIOUS
  <1>2. load' = [i EXCEPT !.listed = S, !.removed = R]
    BY <1>1
  <1>3. {"pc", "mode", "read", "todo", "listed", "removed"} \subseteq DOMAIN load
    BY DEF LoadState
  <1>4. DOMAIN i = DOMAIN load /\ i.pc = "validate" /\ i.mode = load.mode /\ i.read = load.read /\ i.todo = S
    BY <1>1, <1>3
  <1> QED BY <1>2, <1>3, <1>4

LEMMA ListFields ==
    ASSUME load \in LoadState, NEW S, NEW mode,
           load' = [load EXCEPT !.pc = "validate", !.todo = S, !.listed = S, !.mode = mode]
    PROVE  /\ load'.pc = "validate" /\ load'.mode = mode /\ load'.read = load.read
           /\ load'.todo = S /\ load'.listed = S /\ load'.removed = load.removed
  <1>1. PICK i : i = [load EXCEPT !.pc = "validate", !.todo = S]
    OBVIOUS
  <1>2. load' = [i EXCEPT !.listed = S, !.mode = mode]
    BY <1>1
  <1>3. {"pc", "mode", "read", "todo", "listed", "removed"} \subseteq DOMAIN load
    BY DEF LoadState
  <1>4. /\ DOMAIN i = DOMAIN load /\ i.pc = "validate" /\ i.read = load.read /\ i.todo = S
        /\ i.removed = load.removed
    BY <1>1, <1>3
  <1> QED BY <1>2, <1>3, <1>4

LEMMA DeltaScan == ASSUME CatalogInv, DeltaInv, Scan PROVE DeltaInv'
  <1>1. load.pc = "scan"
    BY DEF Scan
  <1>2. load \in LoadState
    BY <1>1, InvFacts DEF NoLoad
  <1>3. load.mode \in {"changed", "sync"} /\ load.removed = {} /\ \A a \in Advisory : load.read[a] = None
    BY <1>1 DEF DeltaInv, PrepareInv, Preparing
  <1>4. CASE load' = [load EXCEPT !.pc = "list", !.listed = ToProcess]
    <2>1. load'.pc = "list" /\ load'.removed = load.removed /\ load'.read = load.read
      BY <1>2, <1>4 DEF LoadState
    <2>2. PrepareInv'
      BY <1>3, <2>1 DEF PrepareInv
    <2> QED BY <2>1, <2>2 DEF DeltaInv, ListedInv, BatchesInv, PublishInv
  <1>5. CASE load' = [load EXCEPT !.pc = "prune"]
    <2>1. load'.pc = "prune"
      BY <1>2, <1>5, PcOnly
    <2> QED BY <2>1, DeltaElsewhere
  <1>6. CASE load' = [load EXCEPT !.pc = "validate", !.todo = ToProcess, !.listed = ToProcess,
                                  !.removed = Removed]
    <2>9. /\ load'.pc = "validate" /\ load'.mode = load.mode /\ load'.read = load.read
          /\ load'.todo = ToProcess /\ load'.listed = ToProcess /\ load'.removed = Removed
      BY <1>2, <1>6, ScanFields
    <2>10. PrepareInv'
      BY <1>3, <2>9 DEF PrepareInv
    <2>11. files' = files
      BY DEF Scan, Untouched
    <2>12. ListedInv'
      BY <1>3, <2>9, <2>11 DEF ListedInv, ToProcess, Removed, FileFor
    <2> QED BY <2>9, <2>10, <2>12 DEF DeltaInv, BatchesInv, PublishInv
  <1> QED BY <1>4, <1>5, <1>6 DEF Scan

LEMMA DeltaList == ASSUME CatalogInv, DeltaInv, List PROVE DeltaInv'
  <1>1. load.pc = "list"
    BY DEF List
  <1>2. load \in LoadState
    BY <1>1, InvFacts DEF NoLoad
  <1>3. load.removed = {} /\ \A a \in Advisory : load.read[a] = None
    BY <1>1 DEF DeltaInv, PrepareInv, Preparing
  <1>4. PICK mode : mode = IF load.mode = "boot" THEN "boot" ELSE "full"
    OBVIOUS
  <1>5. load' = [load EXCEPT !.pc = "validate", !.todo = Listed, !.listed = Listed, !.mode = mode]
    BY <1>4 DEF List
  <1>14. /\ load'.pc = "validate" /\ load'.mode = mode /\ load'.read = load.read
         /\ load'.todo = Listed /\ load'.listed = Listed /\ load'.removed = load.removed
    BY <1>2, <1>5, ListFields
  <1>15. PrepareInv'
    BY <1>3, <1>14 DEF PrepareInv
  <1>16. files' = files
    BY DEF List, Untouched
  <1>17. \A a \in Advisory : a \in Listed <=> FileFor(load, files, a) # None
    BY DEF Listed, FileOf, FileFor
  <1>18. \A a \in Advisory : FileFor(load', files', a) = FileFor(load, files, a)
    BY <1>4, <1>14, <1>16 DEF FileFor
  <1>19. ListedInv'
    BY <1>3, <1>14, <1>17, <1>18 DEF ListedInv
  <1> QED BY <1>14, <1>15, <1>19 DEF DeltaInv, BatchesInv, PublishInv

LEMMA GenerationFields ==
    ASSUME load \in LoadState, NEW n, load' = [load EXCEPT !.pc = "write", !.gen = n]
    PROVE  /\ load'.pc = "write" /\ load'.gen = n /\ load'.mode = load.mode /\ load'.read = load.read
           /\ load'.todo = load.todo /\ load'.listed = load.listed /\ load'.removed = load.removed
  <1>1. {"pc", "mode", "read", "todo", "listed", "removed", "gen"} \subseteq DOMAIN load
    BY DEF LoadState
  <1> QED BY <1>1

LEMMA DeltaStartGeneration == ASSUME CatalogInv, DeltaInv, StartGeneration PROVE DeltaInv'
  <1>1. load.pc = "validate" /\ load.pc \in Preparing
    BY DEF StartGeneration, Preparing
  <1>2. load \in LoadState
    BY <1>1, InvFacts DEF NoLoad
  <1>3. PICK n : n = Len(gens')
    OBVIOUS
  <1>4. load' = [load EXCEPT !.pc = "write", !.gen = n]
    BY <1>3 DEF StartGeneration
  <1>5. /\ load'.pc = "write" /\ load'.gen = n /\ load'.mode = load.mode /\ load'.read = load.read
        /\ load'.todo = load.todo /\ load'.listed = load.listed /\ load'.removed = load.removed
    BY <1>2, <1>4, GenerationFields
  <1>6. files' = files /\ versions' = versions
    BY DEF StartGeneration
  <1>7. \A a \in Advisory : load.read[a] = None
    BY <1>1 DEF DeltaInv, PrepareInv
  <1>8. ListedInv'
    BY <1>1, <1>5, <1>6 DEF DeltaInv, ListedInv, FileFor
  <1>9. gens \in Seq(Statuses) /\ gens' = Append(gens, "running") /\ shown' = Append(shown, NoView)
    BY InvFacts DEF StartGeneration
  <1>10. n = Len(gens) + 1 /\ Len(gens) \in Nat
    BY <1>3, <1>9
  <1>11. ActiveOf(gens') = ActiveOf(gens)
    BY <1>9 DEF ActiveOf
  <1>12. NewestOf(gens') = NewestOf(gens)
    BY <1>11 DEF NewestOf
  <1>13. NewestOf(gens) # 0 => NewestOf(gens) \in 1 .. Len(gens)
    BY <1>9, NewestIs, ActiveGenIs, ActiveFinite
  <1>14. NewestOf(gens) # 0 => shown'[NewestOf(gens)] = shown[NewestOf(gens)]
    BY <1>9, <1>13 DEF CatalogInv, GensInv
  <1>15. \A a \in Advisory : Base(gens', shown', a) = Base(gens, shown, a)
    BY <1>12, <1>14 DEF Base
  <1>16. \A v \in versions : v.from # n
    BY <1>10, InvFacts DEF RowsOk, RowOk, Row
  <1>17. \A a \in Advisory : Current(versions, a) = Base(gens, shown, a)
    BY <1>1, PreparedCurrent
  <1>18. BatchesInv'
    BY <1>5, <1>6, <1>7, <1>15, <1>16, <1>17 DEF BatchesInv, None
  <1>19. PrepareInv' /\ PublishInv'
    BY <1>5 DEF PrepareInv, PublishInv, Preparing
  <1> QED BY <1>8, <1>18, <1>19 DEF DeltaInv

LEMMA DeltaBatch == ASSUME CatalogInv, DeltaInv, NEW a \in Advisory, Batch(a) PROVE DeltaInv'
  <1>1. load.pc = "write" /\ a \in load.todo /\ UNCHANGED <<files, gens, shown>>
    BY DEF Batch, Untouched
  <1>2. PICK c : c = FileOf(a)
    OBVIOUS
  <1>3. /\ load \in LoadState /\ c \in Content
        /\ load'.pc = "write" /\ load'.gen = load.gen
        /\ load'.mode = load.mode /\ load'.listed = load.listed /\ load'.removed = load.removed
        /\ load'.todo = load.todo \ {a} /\ load'.read = [load.read EXCEPT ![a] = c]
        /\ load'.bad = (load.bad \/ c = "bad")
    BY <1>2, BatchLoad
  <1>4. c = FileFor(load, files, a)
    BY <1>2 DEF FileOf, FileFor
  <1>5. c # None /\ a \in load.listed
    BY <1>1, <1>4 DEF DeltaInv, ListedInv
  <1>6. load'.read[a] = c /\ \A b \in Advisory : b # a => load'.read[b] = load.read[b]
    BY <1>3 DEF LoadState
  <1>7. \A b \in Advisory : FileFor(load', files', b) = FileFor(load, files, b)
    BY <1>1, <1>3 DEF FileFor
  <1>8. ListedInv'
    <2> SUFFICES ASSUME NEW b \in Advisory
                 PROVE  /\ b \in load'.todo => FileFor(load', files', b) # None /\ b \in load'.listed
                        /\ b \in load'.listed => /\ b \in load'.todo \/ load'.read[b] # None
                                                 /\ b \notin load'.removed
                        /\ load'.read[b] # None => b \in load'.listed
      BY DEF ListedInv
    <2>1. /\ b \in load.todo => FileFor(load, files, b) # None /\ b \in load.listed
          /\ b \in load.listed => /\ b \in load.todo \/ load.read[b] # None
                                  /\ b \notin load.removed
          /\ load.read[b] # None => b \in load.listed
      BY <1>1 DEF DeltaInv, ListedInv
    <2> QED BY <1>3, <1>5, <1>6, <1>7, <2>1
  <1>9. PICK n : n = load.gen
    OBVIOUS
  <1>10. n = Len(gens) /\ n \in Nat /\ n >= 1 /\ RowsOk(versions, n)
    BY <1>1, <1>9, InvFacts DEF CatalogInv, LoadInv, Writing
  <1>11. PICK ws : ws = versions'
    OBVIOUS
  <1>12. ws = IF c = "bad" THEN versions ELSE WriteVersion(versions, n, a, c)
    BY <1>2, <1>9, <1>11 DEF Batch
  <1>13. /\ c \notin {None, "bad"} => Current(ws, a) = Shows(c)
         /\ \A b : b # a => /\ Current(ws, b) = Current(versions, b)
                            /\ \A v : v.a = b => (v \in ws <=> v \in versions)
    BY <1>3, <1>10, <1>12, WriteCurrent
  <1>14. BatchesInv'
    <2> SUFFICES ASSUME NEW b \in Advisory
                 PROVE  /\ load'.read[b] = None => /\ Current(ws, b) = Base(gens, shown, b)
                                                   /\ \A v \in ws : v.a = b => v.from # n
                        /\ load'.read[b] = "bad" => load'.bad
                        /\ load'.read[b] \notin {None, "bad"} => Current(ws, b) = Shows(load'.read[b])
      BY <1>1, <1>3, <1>9, <1>11 DEF BatchesInv
    <2>1. /\ load.read[b] = None => /\ Current(versions, b) = Base(gens, shown, b)
                                    /\ \A v \in versions : v.a = b => v.from # n
          /\ load.read[b] = "bad" => load.bad
          /\ load.read[b] \notin {None, "bad"} => Current(versions, b) = Shows(load.read[b])
      BY <1>1, <1>9 DEF DeltaInv, BatchesInv
    <2>2. CASE b = a
      BY <1>3, <1>5, <1>6, <1>13, <2>2
    <2>3. CASE b # a
      BY <1>3, <1>6, <1>13, <2>1, <2>3
    <2> QED BY <2>2, <2>3
  <1>15. PrepareInv' /\ PublishInv'
    BY <1>3 DEF PrepareInv, PublishInv, Preparing
  <1> QED BY <1>8, <1>14, <1>15 DEF DeltaInv

LEMMA DeltaCloseGone == ASSUME CatalogInv, DeltaInv, CloseGone PROVE DeltaInv'
  <1>1. load.pc = "write" /\ load.todo = {} /\ UNCHANGED <<files, gens, shown>>
    BY DEF CloseGone, Untouched
  <1>2. load \in LoadState
    BY <1>1, InvFacts DEF NoLoad
  <1>3. CASE load' = [load EXCEPT !.pc = "fail"]
    BY <1>2, <1>3, PcOnly, DeltaElsewhere
  <1>4. CASE /\ ~load.bad /\ load' = [load EXCEPT !.pc = "record"]
             /\ versions' = IF load.mode \in {"full", "boot"}
                            THEN CloseMissing(versions, load.gen, load.listed)
                            ELSE CloseAdvisories(versions, load.gen, load.removed)
    <2>1. /\ load'.pc = "record" /\ load'.mode = load.mode /\ load'.read = load.read
          /\ load'.removed = load.removed
      BY <1>2, <1>4, PcOnly
    <2>2. PICK n : n = load.gen
      OBVIOUS
    <2>3. n = Len(gens) /\ n \in Nat /\ n >= 1 /\ RowsOk(versions, n)
      BY <1>1, <2>2, InvFacts DEF CatalogInv, LoadInv, Writing
    <2>4. PICK ids : ids = IF load.mode \in {"full", "boot"}
                           THEN {v.a : v \in {w \in versions : w.to = Open /\ w.from < n}} \ load.listed
                           ELSE load.removed
      OBVIOUS
    <2>5. versions' = CloseAdvisories(versions, n, ids)
      BY <1>4, <2>2, <2>4 DEF CloseMissing
    <2>6. PICK ws : ws = versions'
      OBVIOUS
    <2>7. \A a : /\ a \in ids => Current(ws, a) = {}
                 /\ a \notin ids => Current(ws, a) = Current(versions, a)
      BY <2>3, <2>5, <2>6, CloseCurrent
    <2>8. ASSUME NEW a \in Advisory PROVE Current(ws, a) = Published(load, gens, shown, a)
      <3>1. /\ a \in load.listed => load.read[a] # None /\ a \notin load.removed
            /\ load.read[a] # None => a \in load.listed
        BY <1>1 DEF DeltaInv, ListedInv
      <3>2. /\ load.read[a] = None => /\ Current(versions, a) = Base(gens, shown, a)
                                      /\ \A v \in versions : v.a = a => v.from # n
            /\ load.read[a] # None => Current(versions, a) = Shows(load.read[a])
        BY <1>1, <1>4, <2>2 DEF DeltaInv, BatchesInv
      <3>3. CASE load.read[a] # None
        <4>1. a \notin ids
          BY <2>4, <3>1, <3>3
        <4> QED BY <2>7, <3>2, <3>3, <4>1 DEF Published
      <3>4. CASE load.read[a] = None /\ load.mode \in {"full", "boot"}
        <4>1. Published(load, gens, shown, a) = {}
          BY <3>4 DEF Published
        <4>2. CASE a \in ids
          BY <2>7, <4>1, <4>2
        <4>3. CASE a \notin ids
          <5>1. \A v \in versions : v.a = a => v.to # Open
            BY <2>3, <2>4, <3>1, <3>2, <3>4, <4>3 DEF RowsOk, RowOk, Row
          <5>2. Current(versions, a) = {}
            BY <5>1 DEF Current
          <5> QED BY <2>7, <4>1, <4>3, <5>2
        <4> QED BY <4>2, <4>3
      <3>5. CASE load.read[a] = None /\ load.mode \notin {"full", "boot"}
        <4>1. ids = load.removed
          BY <2>4, <3>5
        <4> QED BY <2>7, <3>2, <3>5, <4>1 DEF Published, Base
      <3> QED BY <3>3, <3>4, <3>5
    <2>9. PublishInv'
      BY <1>1, <2>1, <2>6, <2>8 DEF PublishInv, Published
    <2> QED BY <2>1, <2>9 DEF DeltaInv, PrepareInv, ListedInv, BatchesInv, Preparing
  <1> QED BY <1>3, <1>4 DEF CloseGone

LEMMA DeltaRecorded ==
    ASSUME CatalogInv, DeltaInv, load.pc = "record", load' = [load EXCEPT !.pc = "complete"],
           UNCHANGED <<versions, gens, shown>>
    PROVE  DeltaInv'
  <1>1. load \in LoadState
    BY InvFacts DEF NoLoad
  <1>2. /\ load'.pc = "complete" /\ load'.mode = load.mode /\ load'.read = load.read
        /\ load'.removed = load.removed
    BY <1>1, PcOnly
  <1>3. PublishInv'
    BY <1>2 DEF DeltaInv, PublishInv, Published
  <1> QED BY <1>2, <1>3 DEF DeltaInv, PrepareInv, ListedInv, BatchesInv, Preparing

\* The other steps of a load end it, or leave its generation to fail or to be cleaned up after.
LEMMA DeltaRest ==
    ASSUME CatalogInv, DeltaInv,
           RecordFiles \/ Activate \/ Cleanup \/ Prune \/ Retire \/ EndLoad \/ MarkFailed \/ Undo
             \/ CrashLoad \/ LoadError \/ LoggedError
    PROVE  DeltaInv'
  <1>1. CASE load' = NoLoad
    <2>1. load'.pc = "idle"
      BY <1>1 DEF NoLoad
    <2> QED BY <2>1, DeltaElsewhere
  <1>2. CASE \E pc \in {"fail", "undo", "cleanup", "prune", "retire"} :
               load.pc # "idle" /\ load' = [load EXCEPT !.pc = pc]
    <2>1. PICK pc \in {"fail", "undo", "cleanup", "prune", "retire"} :
               load.pc # "idle" /\ load' = [load EXCEPT !.pc = pc]
      BY <1>2
    <2>2. load \in LoadState
      BY <2>1, InvFacts DEF NoLoad
    <2>3. load'.pc = pc
      BY <2>1, <2>2, PcOnly
    <2> QED BY <2>3, DeltaElsewhere
  <1>3. CASE /\ load.pc = "record" /\ load' = [load EXCEPT !.pc = "complete"]
             /\ UNCHANGED <<versions, gens, shown>>
    BY <1>3, DeltaRecorded
  <1>4. CASE RecordFiles
    BY <1>3, <1>4 DEF RecordFiles
  <1>5. CASE Activate
    BY <1>1, <1>2, <1>5 DEF Activate
  <1>6. CASE Cleanup \/ Prune \/ MarkFailed \/ LoadError
    BY <1>2, <1>6 DEF Cleanup, Prune, MarkFailed, LoadError
  <1>7. CASE EndLoad \/ Undo \/ CrashLoad
    BY <1>1, <1>7 DEF EndLoad, Undo, CrashLoad
  <1>9. CASE Retire
    BY <1>9, DeltaElsewhere DEF Retire
  <1>8. CASE LoggedError
    BY <1>1, <1>2, <1>3, <1>8 DEF LoggedError
  <1> QED BY <1>4, <1>5, <1>6, <1>7, <1>8, <1>9

LEMMA DeltaStep == CatalogInv /\ DeltaInv /\ [CatalogNext]_catalogVars => DeltaInv'
  <1> SUFFICES ASSUME CatalogInv, DeltaInv, [CatalogNext]_catalogVars PROVE DeltaInv'
    OBVIOUS
  <1>1. CASE \E a \in Advisory, c \in Contents \cup {None} : WriteFile(a, c)
    <2>1. load.pc \in {"idle", "fetch"} /\ UNCHANGED <<versions, gens, shown, load>>
      BY <1>1 DEF WriteFile
    <2> QED BY <2>1 DEF DeltaInv, PrepareInv, ListedInv, BatchesInv, PublishInv
  <1>2. CASE BootStart \/ \E mode \in {"full", "changed", "sync"} : StartLoad(mode)
    <2>1. PICK mode \in {"full", "changed", "sync", "boot"}, pc \in {"list", "fetch", "scan"} :
            BeginAs(mode, pc) /\ (pc # "list" => mode \in {"changed", "sync"})
      BY <1>2 DEF BootStart, StartLoad
    <2> QED BY <2>1, DeltaBegin
  <1>3. CASE BootCheck \/ BootSkip
    <2>1. UNCHANGED <<files, versions, gens, shown, load>>
      BY <1>3 DEF BootCheck, BootSkip, Untouched
    <2> QED BY <2>1, DeltaSame
  <1>4. CASE Fetched
    BY <1>4, DeltaFetched
  <1>5. CASE Scan
    BY <1>5, DeltaScan
  <1>6. CASE List
    BY <1>6, DeltaList
  <1>7. CASE StartGeneration
    BY <1>7, DeltaStartGeneration
  <1>8. CASE \E a \in Advisory : Batch(a)
    BY <1>8, DeltaBatch
  <1>9. CASE CloseGone
    BY <1>9, DeltaCloseGone
  <1>10. CASE RecordFiles \/ Activate \/ Cleanup \/ Prune \/ Retire \/ EndLoad \/ MarkFailed
                \/ Undo \/ CrashLoad \/ LoadError \/ LoggedError
    BY <1>10, DeltaRest
  <1>11. CASE BeginRead \/ QueryRanges \/ QueryRefs \/ \E g \in DOMAIN gens : Expire(g)
    <2>1. UNCHANGED <<files, versions, gens, shown, load>>
      BY <1>11 DEF BeginRead, QueryRanges, QueryRefs, Expire
    <2> QED BY <2>1, DeltaSame
  <1>12. CASE UNCHANGED catalogVars
    BY <1>12, DeltaSame DEF catalogVars
  <1> QED BY <1>1, <1>2, <1>3, <1>4, <1>5, <1>6, <1>7, <1>8, <1>9, <1>10, <1>11, <1>12 DEF CatalogNext

\* Only Activate makes a generation active.
LEMMA OnlyActivate ==
    ASSUME CatalogInv, [CatalogNext]_catalogVars, NEW g \in DOMAIN gens,
           gens[g] # "active", gens'[g] = "active"
    PROVE  Activate /\ g = load.gen
  <1>1. CASE BootStart \/ \E mode \in {"full", "changed", "sync"} : StartLoad(mode)
    <2>1. RollbackUnfinished
      BY <1>1 DEF BootStart, StartLoad
    <2> QED BY <2>1 DEF RollbackUnfinished
  <1>2. CASE StartGeneration
    <2>1. gens \in Seq(Statuses) /\ gens' = Append(gens, "running")
      BY <1>2, InvFacts DEF StartGeneration
    <2>2. gens'[g] = gens[g]
      BY <2>1
    <2> QED BY <2>2
  <1>3. CASE Activate
    BY <1>3 DEF Activate
  <1>4. CASE Retire
    <2>1. gens \in Seq(Statuses)
      BY InvFacts
    <2> QED BY <1>4, <2>1, RetiredOne
  <1>5. CASE MarkFailed
    BY <1>5 DEF MarkFailed
  <1>6. CASE gens' = gens
    BY <1>6
  <1>7. CASE \E a \in Advisory, c \in Contents \cup {None} : WriteFile(a, c)
    BY <1>6, <1>7 DEF WriteFile
  <1>8. CASE \E a \in Advisory : Batch(a)
    BY <1>6, <1>8 DEF Batch
  <1>9. CASE BootCheck \/ BootSkip \/ Fetched \/ Scan \/ List \/ CloseGone \/ RecordFiles \/ Cleanup
    BY <1>6, <1>9 DEF BootCheck, BootSkip, Fetched, Scan, List, CloseGone, RecordFiles, Cleanup
  <1>10. CASE Prune \/ EndLoad \/ Undo \/ CrashLoad \/ LoadError \/ LoggedError
    BY <1>6, <1>10 DEF Prune, EndLoad, Undo, CrashLoad, LoadError, LoggedError
  <1>11. CASE BeginRead \/ QueryRanges \/ QueryRefs \/ \E h \in DOMAIN gens : Expire(h)
    BY <1>6, <1>11 DEF BeginRead, QueryRanges, QueryRefs, Expire
  <1>12. CASE UNCHANGED catalogVars
    BY <1>6, <1>12 DEF catalogVars
  <1> QED BY <1>1, <1>2, <1>3, <1>4, <1>5, <1>7, <1>8, <1>9, <1>10, <1>11, <1>12 DEF CatalogNext

\* What LoadIsDelta says of a step.
Delta == [a \in Advisory |->
    IF load.read[a] # None THEN Shows(load.read[a])
    ELSE IF load.mode \in {"full", "boot"} \/ ActiveGen = 0 \/ a \in load.removed THEN {}
    ELSE shown[ActiveGen][a]]

LEMMA ActivateDelta ==
    ASSUME CatalogInv, DeltaInv, Activate
    PROVE  shown'[load.gen] = Delta
  <1>1. load.pc = "complete"
    BY DEF Activate
  <1>2. PICK n : n = load.gen
    OBVIOUS
  <1>3. n = Len(gens) /\ n \in DOMAIN gens /\ n \in Nat /\ RowsOk(versions, n) /\ n \in DOMAIN shown
    BY <1>1, <1>2, InvFacts DEF CatalogInv, LoadInv, Writing
  <1>4. View(n) = ViewOf(versions, n)
    BY ViewIs, InvFacts
  <1>5. shown'[n] = ViewOf(versions, n)
    BY <1>2, <1>3, <1>4 DEF Activate
  <1>6. \A a \in Advisory : ViewOf(versions, n)[a] = Current(versions, a)
    BY <1>3, LastShowsCurrent
  <1>7. \A a \in Advisory : Current(versions, a) = Published(load, gens, shown, a)
    BY <1>1 DEF DeltaInv, PublishInv
  <1>8. \A a \in Advisory : Published(load, gens, shown, a) = Delta[a]
    BY NewestIs DEF Published, Delta, Base
  <1>9. \A a \in Advisory : shown'[n][a] = Delta[a]
    BY <1>5, <1>6, <1>7, <1>8
  <1> QED BY <1>2, <1>5, <1>9 DEF ViewOf, Delta

LEMMA LoadingInitInv == CatalogInit => LoadingInv
  <1> SUFFICES ASSUME CatalogInit PROVE LoadingInv
    OBVIOUS
  <1>1. load.pc = "idle"
    BY DEF CatalogInit, NoLoad
  <1>2. DeltaInv
    BY <1>1 DEF DeltaInv, PrepareInv, ListedInv, BatchesInv, PublishInv, Preparing
  <1> QED BY <1>2, CatalogInitInv DEF LoadingInv

LEMMA LoadingStep == LoadingInv /\ [CatalogNext]_catalogVars => LoadingInv'
  BY CatalogStep, DeltaStep DEF LoadingInv

(* A load publishes the catalogue that was active with exactly the changes  *)
(* it read, and a full load exactly the files it read, whatever failed or   *)
(* was killed before it, for any directory and any number of loads.         *)
THEOREM LoadIsDeltaTheorem == CatalogSpec => LoadIsDelta
  <1>1. CatalogSpec => []LoadingInv
    BY LoadingInitInv, LoadingStep, PTL DEF CatalogSpec
  <1>2. LoadingInv /\ [CatalogNext]_catalogVars =>
          [\A g \in DOMAIN gens : gens[g] # "active" /\ gens'[g] = "active" =>
             shown'[g] = Delta]_catalogVars
    BY OnlyActivate, ActivateDelta DEF LoadingInv
  <1>3. LoadIsDelta <=> [][\A g \in DOMAIN gens : gens[g] # "active" /\ gens'[g] = "active" =>
                             shown'[g] = Delta]_catalogVars
    BY DEF LoadIsDelta, Delta
  <1> QED BY <1>1, <1>2, <1>3, PTL DEF CatalogSpec

-----------------------------------------------------------------------------
(* What the tracker of files knows.                                         *)
(* A file that the tracker has recorded as it is now is shown by the active *)
(* generation, unless the load under way has yet to publish it or a load    *)
(* that was stopped has dropped it.                                         *)

Tracked == [st : {None, "pending", "success"}, m : Nat]
MetaInv == /\ meta \in [Advisory -> Tracked]
           /\ \A a \in Advisory : meta[a].m <= files[a].m /\ files[a].m <= writes

Carries(gs, sh, a, c) == NewestOf(gs) # 0 /\ Base(gs, sh, a) = Shows(c)
InFlight(a) == /\ load.pc \in {"list", "validate"} \cup Writing
               /\ load.mode # "boot" /\ a \in load.listed
Recent(a) == files[a].c # None /\ meta[a].st # None /\ meta[a].m = files[a].m

TrackInv == \A a \in Advisory \ dropped :
    Recent(a) /\ ~InFlight(a) => Carries(gens, shown, a, files[a].c)

DirectoryInv ==
    /\ load.pc \in {"validate", "write", "record", "complete"} /\ load.mode # "boot" =>
         \A a \in Advisory :
            /\ load.read[a] # None => load.read[a] = files[a].c
            /\ files[a].c # None => \/ a \in load.listed
                                    \/ load.mode # "full" /\ a \notin load.removed /\ Recent(a)
    /\ load.pc \in {"record", "complete"} => \A a \in load.listed : load.read[a] # None

Complete == \A a \in Advisory \ dropped : files[a].c # None => Carries(gens, shown, a, files[a].c)
EndInv == /\ load.pc \in {"cleanup", "prune", "retire"} => Complete
          /\ upToDate => load.pc = "idle" /\ Complete

TrackerInv == MetaInv /\ TrackInv /\ DirectoryInv /\ EndInv
FullInv == LoadingInv /\ TrackerInv

SameBase == \A a \in Advisory, c \in Content : Carries(gens', shown', a, c) <=> Carries(gens, shown, a, c)

LEMMA BaseUnchanged == ASSUME UNCHANGED <<gens, shown>> PROVE SameBase
  BY DEF SameBase

LEMMA BaseKept ==
    ASSUME gens \in Seq(Statuses), gens' \in Seq(Statuses), ActiveOf(gens') = ActiveOf(gens),
           \A g \in ActiveOf(gens) : shown'[g] = shown[g]
    PROVE  SameBase
  <1>1. NewestOf(gens') = NewestOf(gens)
    BY DEF NewestOf
  <1>2. NewestOf(gens) # 0 => NewestOf(gens) \in ActiveOf(gens)
    BY NewestFacts
  <1> QED BY <1>1, <1>2 DEF SameBase, Carries, Base

\* Neither the files, nor what is recorded or shown of them, changes.
LEMMA TrackKeeps ==
    ASSUME FilesInv, TrackInv, UNCHANGED <<files, meta>>, SameBase, dropped \subseteq dropped',
           \A a \in Advisory \ dropped' : InFlight(a) => InFlight(a)'
    PROVE  TrackInv'
  <1> SUFFICES ASSUME NEW a \in Advisory, a \notin dropped', Recent(a)', ~InFlight(a)'
               PROVE  Carries(gens', shown', a, files'[a].c)
    BY DEF TrackInv
  <1>1. Recent(a) /\ ~InFlight(a) /\ a \notin dropped
    BY DEF Recent
  <1>2. files[a].c \in Content
    BY DEF FilesInv, FileState
  <1> QED BY <1>1, <1>2 DEF TrackInv, SameBase

LEMMA CompleteKeeps ==
    ASSUME FilesInv, Complete, UNCHANGED files, SameBase, dropped \subseteq dropped'
    PROVE  Complete'
  <1> SUFFICES ASSUME NEW a \in Advisory, a \notin dropped', files'[a].c # None
               PROVE  Carries(gens', shown', a, files'[a].c)
    BY DEF Complete
  <1>1. files[a].c \in Content /\ a \notin dropped
    BY DEF FilesInv, FileState
  <1> QED BY <1>1 DEF Complete, SameBase

LEMMA TrackerSame ==
    ASSUME TrackerInv, UNCHANGED <<files, writes, meta, gens, shown, load, dropped, upToDate>>
    PROVE  TrackerInv'
  BY DEF TrackerInv, MetaInv, TrackInv, InFlight, Recent, DirectoryInv, EndInv, Complete

LEMMA MetaSame == ASSUME MetaInv, UNCHANGED <<files, writes, meta>> PROVE MetaInv'
  BY DEF MetaInv

\* The load is not where the tracker's invariants follow it.
LEMMA QuietLoad ==
    ASSUME NEW pc, load'.pc = pc, pc \in {"idle", "fetch", "scan"}
    PROVE  DirectoryInv' /\ \A a \in Advisory : ~InFlight(a)'
  BY DEF DirectoryInv, InFlight, Writing

LEMMA RecordedMeta ==
    ASSUME FilesInv, MetaInv, NEW S, NEW st \in {"pending", "success"}, meta' = Recorded(S, st),
           UNCHANGED <<files, writes>>
    PROVE  /\ MetaInv'
           /\ \A a \in Advisory : /\ a \notin S => meta'[a] = meta[a]
                                  /\ a \in S => meta'[a].st = st /\ meta'[a].m = files[a].m
  <1>1. ASSUME NEW a \in Advisory
        PROVE  /\ a \notin S => meta'[a] = meta[a]
               /\ a \in S => meta'[a] = [st |-> st, m |-> files[a].m]
    <2>1. meta'[a] = IF a \in S THEN [st |-> st, m |-> files[a].m] ELSE meta[a]
      BY DEF Recorded
    <2> QED BY <2>1
  <1>2. \A a \in Advisory : files[a].m \in Nat
    BY DEF FilesInv, FileState
  <1>3. ASSUME NEW a \in Advisory, a \in S
        PROVE  meta'[a] \in Tracked /\ meta'[a].st = st /\ meta'[a].m = files[a].m
    <2>1. meta'[a] = [st |-> st, m |-> files[a].m] /\ files[a].m \in Nat
      BY <1>1, <1>2, <1>3
    <2> QED BY <2>1 DEF Tracked
  <1>4. meta' \in [Advisory -> Tracked]
    <2>1. ASSUME NEW a \in Advisory PROVE meta'[a] \in Tracked
      <3>1. meta[a] \in Tracked
        BY DEF MetaInv
      <3> QED BY <1>1, <1>3, <3>1
    <2> QED BY <2>1 DEF Recorded
  <1>5. ASSUME NEW a \in Advisory PROVE meta'[a].m <= files[a].m /\ files[a].m <= writes
    <2>1. meta[a].m <= files[a].m /\ files[a].m <= writes /\ files[a].m \in Nat
      BY <1>2 DEF MetaInv
    <2>2. CASE a \in S
      BY <1>3, <2>1, <2>2
    <2>3. CASE a \notin S
      BY <1>1, <2>1, <2>3
    <2> QED BY <2>2, <2>3
  <1> QED BY <1>1, <1>3, <1>4, <1>5 DEF MetaInv

LEMMA TrackWriteFile ==
    ASSUME FullInv, NEW a \in Advisory, NEW c \in Content, WriteFile(a, c)
    PROVE  TrackerInv'
  <1>1. load.pc \in {"idle", "fetch"} /\ UNCHANGED <<meta, gens, shown, load, dropped>> /\ upToDate' = FALSE
    BY DEF WriteFile
  <1>2. files \in [Advisory -> FileState] /\ writes \in Nat /\ writes' = writes + 1 /\ MetaInv
    BY DEF FullInv, LoadingInv, CatalogInv, FilesInv, TrackerInv, WriteFile
  <1>3. PICK f : f = [c |-> c, m |-> IF c = None THEN files[a].m ELSE writes']
    OBVIOUS
  <1>4. files' = [files EXCEPT ![a] = f]
    BY <1>3 DEF WriteFile
  <1>5. f.c = c /\ f.m = IF c = None THEN files[a].m ELSE writes'
    BY <1>3
  <1>6. files'[a] = f /\ \A b \in Advisory : b # a => files'[b] = files[b]
    BY <1>2, <1>4
  <1>7. \A b \in Advisory : meta[b].m \in Nat /\ files[b].m \in Nat /\ meta[b].m <= files[b].m /\ files[b].m <= writes
    BY <1>2 DEF MetaInv, Tracked, FileState
  <1>8. \A b \in Advisory : meta[b].m <= files'[b].m /\ files'[b].m <= writes'
    BY <1>2, <1>5, <1>6, <1>7
  <1>9. MetaInv'
    BY <1>1, <1>2, <1>8 DEF MetaInv
  <1>10. DirectoryInv' /\ EndInv'
    BY <1>1 DEF DirectoryInv, EndInv
  <1>11. TrackInv'
    <2> SUFFICES ASSUME NEW b \in Advisory, b \notin dropped, Recent(b)'
                 PROVE  Carries(gens, shown, b, files'[b].c)
      BY <1>1 DEF TrackInv
    <2>1. b # a
      <3> SUFFICES ASSUME b = a PROVE FALSE
        OBVIOUS
      <3>1. c # None /\ meta[a].m = f.m
        BY <1>1, <1>5, <1>6 DEF Recent
      <3> QED BY <1>2, <1>5, <1>7, <3>1
    <2>2. Recent(b) /\ ~InFlight(b)
      BY <1>1, <1>6, <2>1 DEF Recent, InFlight, Writing
    <2> QED BY <1>6, <2>1, <2>2 DEF FullInv, TrackerInv, TrackInv
  <1> QED BY <1>9, <1>10, <1>11 DEF TrackerInv

LEMMA TrackBegin ==
    ASSUME FullInv, BootStart \/ \E mode \in {"full", "changed", "sync"} : StartLoad(mode)
    PROVE  TrackerInv'
  <1>1. /\ load.pc = "idle" /\ RollbackUnfinished /\ upToDate' = FALSE
        /\ UNCHANGED <<files, writes, meta, shown, dropped>>
    BY DEF BootStart, StartLoad, Untouched
  <1>2. PICK mode \in {"full", "changed", "sync", "boot"}, pc \in {"list", "fetch", "scan"} :
          BeginAs(mode, pc)
    BY DEF BootStart, StartLoad
  <1>3. load'.pc = pc /\ load'.listed = {}
    BY <1>2 DEF BeginAs
  <1>4. CatalogInv /\ CatalogInv'
    BY BeginInv DEF FullInv, LoadingInv
  <1>5. SameBase
    <2>1. ActiveOf(gens') = ActiveOf(gens)
      BY <1>1 DEF RollbackUnfinished, ActiveOf
    <2> QED BY <1>1, <1>4, <2>1, BaseKept DEF CatalogInv, GensInv
  <1>6. \A a \in Advisory : ~InFlight(a)
    BY <1>1 DEF InFlight, Writing
  <1>7. TrackInv'
    BY <1>1, <1>5, <1>6, TrackKeeps DEF FullInv, LoadingInv, CatalogInv, TrackerInv
  <1>8. MetaInv'
    BY <1>1, MetaSame DEF FullInv, TrackerInv
  <1>9. DirectoryInv' /\ EndInv'
    BY <1>1, <1>3 DEF DirectoryInv, EndInv
  <1> QED BY <1>7, <1>8, <1>9 DEF TrackerInv

LEMMA TrackFetched == ASSUME FullInv, Fetched PROVE TrackerInv'
  <1>1. load.pc = "fetch" /\ UNCHANGED <<files, writes, meta, gens, shown, dropped, upToDate>>
    BY DEF Fetched, Untouched
  <1>2. load \in LoadState
    BY <1>1, InvFacts DEF NoLoad, FullInv, LoadingInv
  <1>3. PICK s \in BOOLEAN : load' = [load EXCEPT !.pc = "scan", !.short = s]
    BY DEF Fetched
  <1>4. load'.pc = "scan"
    BY <1>2, <1>3 DEF LoadState
  <1>5. DirectoryInv'
    BY <1>4, QuietLoad
  <1>6. \A a \in Advisory : ~InFlight(a)
    BY <1>1 DEF InFlight, Writing
  <1>7. TrackInv'
    BY <1>1, <1>6, TrackKeeps, BaseUnchanged DEF FullInv, LoadingInv, CatalogInv, TrackerInv
  <1>8. EndInv'
    BY <1>1, <1>4 DEF FullInv, TrackerInv, EndInv
  <1>9. MetaInv'
    BY <1>1, MetaSame DEF FullInv, TrackerInv
  <1> QED BY <1>5, <1>7, <1>8, <1>9 DEF TrackerInv

LEMMA FullFacts ==
    ASSUME FullInv
    PROVE  /\ CatalogInv /\ DeltaInv /\ FilesInv /\ MetaInv /\ TrackInv /\ DirectoryInv /\ EndInv
           /\ load = NoLoad \/ load \in LoadState
           /\ load.pc # "idle" => load \in LoadState /\ ~upToDate
           /\ \A a \in Advisory : /\ files[a].c \in Content /\ files[a].m \in Nat
                                  /\ meta[a].m \in Nat /\ meta[a].m <= files[a].m
  <1>1. CatalogInv /\ DeltaInv /\ FilesInv /\ MetaInv /\ TrackInv /\ DirectoryInv /\ EndInv
    BY DEF FullInv, LoadingInv, TrackerInv, CatalogInv
  <1>2. load = NoLoad \/ load \in LoadState
    BY <1>1, InvFacts
  <1>3. load.pc # "idle" => load \in LoadState /\ ~upToDate
    BY <1>1, <1>2 DEF NoLoad, EndInv
  <1>4. \A a \in Advisory : /\ files[a].c \in Content /\ files[a].m \in Nat
                            /\ meta[a].m \in Nat /\ meta[a].m <= files[a].m
    BY <1>1 DEF FilesInv, FileState, MetaInv, Tracked
  <1> QED BY <1>1, <1>2, <1>3, <1>4

\* What a scan does not process is recorded as it is.
LEMMA ScanLeaves ==
    ASSUME FullInv, NEW a \in Advisory, files[a].c # None, a \notin ToProcess
    PROVE  Recent(a)
  BY FullFacts DEF ToProcess, Recent

LEMMA TrackScan == ASSUME FullInv, Scan PROVE TrackerInv'
  <1>1. /\ load.pc = "scan" /\ UNCHANGED <<files, writes, gens, shown, dropped, upToDate>>
        /\ meta' = Recorded(ToProcess, "pending")
    BY DEF Scan, Untouched
  <1>2. load \in LoadState /\ ~upToDate
    BY <1>1, FullFacts
  <1>3. MetaInv' /\ \A a \in Advisory : a \notin ToProcess => meta'[a] = meta[a]
    BY <1>1, FullFacts, RecordedMeta
  <1>4. \A a \in Advisory : ~InFlight(a)
    BY <1>1 DEF InFlight, Writing
  <1>5. load.mode \in {"changed", "sync"} /\ \A a \in Advisory : load.read[a] = None
    BY <1>1, FullFacts DEF DeltaInv, PrepareInv, Preparing
  <1>6. ASSUME NEW a \in Advisory, a \notin ToProcess, a \notin dropped, Recent(a)'
        PROVE  Carries(gens', shown', a, files'[a].c)
    <2>1. Recent(a)
      BY <1>1, <1>3, <1>6 DEF Recent
    <2> QED BY <1>1, <1>4, <1>6, <2>1, FullFacts DEF TrackInv
  <1>7. ASSUME NEW a \in Advisory, a \notin ToProcess, files[a].c # None PROVE Recent(a)'
    <2>1. Recent(a)
      BY <1>7, ScanLeaves
    <2> QED BY <1>1, <1>3, <1>7, <2>1 DEF Recent
  <1>8. CASE load' = [load EXCEPT !.pc = "list", !.listed = ToProcess]
    <2>1. load'.pc = "list" /\ load'.mode = load.mode /\ load'.listed = ToProcess
      BY <1>2, <1>8 DEF LoadState
    <2>2. \A a \in Advisory : ~InFlight(a)' => a \notin ToProcess
      BY <1>5, <2>1 DEF InFlight
    <2>3. TrackInv'
      BY <1>1, <1>6, <2>2 DEF TrackInv
    <2> QED BY <1>1, <1>2, <1>3, <2>1, <2>3 DEF TrackerInv, DirectoryInv, EndInv
  <1>9. CASE ToProcess = {} /\ load' = [load EXCEPT !.pc = "prune"]
    <2>1. load'.pc = "prune"
      BY <1>2, <1>9, PcOnly
    <2>2. TrackInv'
      BY <1>1, <1>6, <1>9 DEF TrackInv
    <2>3. Complete'
      BY <1>1, <1>6, <1>7, <1>9 DEF Complete
    <2> QED BY <1>1, <1>2, <1>3, <2>1, <2>2, <2>3 DEF TrackerInv, DirectoryInv, EndInv
  <1>10. CASE load' = [load EXCEPT !.pc = "validate", !.todo = ToProcess, !.listed = ToProcess,
                                   !.removed = Removed]
    <2>1. /\ load'.pc = "validate" /\ load'.mode = load.mode /\ load'.read = load.read
          /\ load'.listed = ToProcess /\ load'.removed = Removed
      BY <1>2, <1>10, ScanFields
    <2>2. \A a \in Advisory : ~InFlight(a)' => a \notin ToProcess
      BY <1>5, <2>1 DEF InFlight
    <2>3. TrackInv'
      BY <1>1, <1>6, <2>2 DEF TrackInv
    <2>4. ASSUME NEW a \in Advisory
          PROVE  /\ load'.read[a] = None
                 /\ files'[a].c # None => \/ a \in load'.listed
                                          \/ load'.mode # "full" /\ a \notin load'.removed /\ Recent(a)'
      BY <1>1, <1>5, <1>7, <2>1 DEF Removed
    <2>5. DirectoryInv'
      BY <2>1, <2>4 DEF DirectoryInv
    <2> QED BY <1>1, <1>2, <1>3, <2>1, <2>3, <2>5 DEF TrackerInv, EndInv
  <1> QED BY <1>8, <1>9, <1>10 DEF Scan

LEMMA TrackList == ASSUME FullInv, List PROVE TrackerInv'
  <1>1. load.pc = "list" /\ UNCHANGED <<files, writes, meta, gens, shown, dropped, upToDate>>
    BY DEF List, Untouched
  <1>2. load \in LoadState /\ ~upToDate
    BY <1>1, FullFacts
  <1>3. PICK mode : mode = IF load.mode = "boot" THEN "boot" ELSE "full"
    OBVIOUS
  <1>4. load' = [load EXCEPT !.pc = "validate", !.todo = Listed, !.listed = Listed, !.mode = mode]
    BY <1>3 DEF List
  <1>5. /\ load'.pc = "validate" /\ load'.mode = mode /\ load'.read = load.read
        /\ load'.listed = Listed
    BY <1>2, <1>4, ListFields
  <1>6. \A a \in Advisory : load.read[a] = None
    BY <1>1, FullFacts DEF DeltaInv, PrepareInv, Preparing
  <1>7. ASSUME NEW a \in Advisory, files[a].c # None, mode # "boot" PROVE a \in Listed
    BY <1>3, <1>7 DEF Listed, FileOf
  <1>8. TrackInv'
    <2> SUFFICES ASSUME NEW a \in Advisory, a \notin dropped, Recent(a)', ~InFlight(a)'
                 PROVE  Carries(gens, shown, a, files[a].c)
      BY <1>1 DEF TrackInv
    <2>1. Recent(a) /\ files[a].c # None
      BY <1>1 DEF Recent
    <2>2. mode = "boot"
      BY <1>5, <1>7, <2>1 DEF InFlight
    <2>3. ~InFlight(a)
      BY <1>3, <2>2 DEF InFlight
    <2> QED BY <2>1, <2>3, FullFacts DEF TrackInv
  <1>9. DirectoryInv'
    BY <1>1, <1>5, <1>6, <1>7 DEF DirectoryInv
  <1>10. MetaInv'
    BY <1>1, MetaSame, FullFacts
  <1> QED BY <1>1, <1>2, <1>5, <1>8, <1>9, <1>10 DEF TrackerInv, EndInv

\* A step of a load that publishes nothing and records nothing.
LEMMA TrackWriting ==
    ASSUME FullInv, UNCHANGED <<files, writes, meta, dropped, upToDate>>, SameBase,
           load.pc \in {"validate"} \cup Writing, load'.pc \in Writing, load'.mode = load.mode,
           load'.listed = load.listed, DirectoryInv'
    PROVE  TrackerInv'
  <1>1. \A a \in Advisory : InFlight(a) => InFlight(a)'
    BY DEF InFlight
  <1>2. TrackInv'
    BY <1>1, TrackKeeps, FullFacts
  <1>3. ~upToDate
    BY FullFacts DEF Writing
  <1>4. EndInv'
    BY <1>3 DEF EndInv, Writing
  <1>5. MetaInv'
    BY MetaSame, FullFacts
  <1> QED BY <1>2, <1>4, <1>5 DEF TrackerInv

LEMMA TrackStartGeneration == ASSUME FullInv, StartGeneration PROVE TrackerInv'
  <1>1. load.pc = "validate" /\ UNCHANGED <<files, writes, meta, dropped, upToDate>>
    BY DEF StartGeneration
  <1>2. load \in LoadState /\ CatalogInv
    BY <1>1, FullFacts
  <1>3. PICK n : n = Len(gens')
    OBVIOUS
  <1>4. load' = [load EXCEPT !.pc = "write", !.gen = n]
    BY <1>3 DEF StartGeneration
  <1>5. /\ load'.pc = "write" /\ load'.mode = load.mode /\ load'.read = load.read
        /\ load'.listed = load.listed /\ load'.removed = load.removed
    BY <1>2, <1>4, GenerationFields
  <1>6. gens \in Seq(Statuses) /\ gens' = Append(gens, "running") /\ shown' = Append(shown, NoView)
    BY <1>2, InvFacts DEF StartGeneration
  <1>7. ActiveOf(gens') = ActiveOf(gens) /\ gens' \in Seq(Statuses)
    BY <1>6 DEF ActiveOf, Statuses
  <1>8. \A g \in ActiveOf(gens) : shown'[g] = shown[g]
    BY <1>2, <1>6 DEF CatalogInv, GensInv, ActiveOf
  <1>9. SameBase
    BY <1>6, <1>7, <1>8, BaseKept
  <1>10. DirectoryInv'
    BY <1>1, <1>5, FullFacts DEF DirectoryInv, Recent
  <1> QED BY <1>1, <1>5, <1>9, <1>10, TrackWriting DEF Writing

LEMMA TrackBatch == ASSUME FullInv, NEW a \in Advisory, Batch(a) PROVE TrackerInv'
  <1>1. load.pc = "write" /\ UNCHANGED <<files, writes, meta, gens, shown, dropped, upToDate>>
    BY DEF Batch, Untouched
  <1>2. PICK c : c = FileOf(a)
    OBVIOUS
  <1>3. /\ load \in LoadState /\ load'.pc = "write" /\ load'.mode = load.mode
        /\ load'.listed = load.listed /\ load'.removed = load.removed
        /\ load'.read = [load.read EXCEPT ![a] = c]
    BY <1>2, BatchLoad, FullFacts
  <1>4. load'.read[a] = c /\ \A b \in Advisory : b # a => load'.read[b] = load.read[b]
    BY <1>3 DEF LoadState
  <1>5. load.mode # "boot" => c = files[a].c
    BY <1>2 DEF FileOf
  <1>6. DirectoryInv'
    BY <1>1, <1>3, <1>4, <1>5, FullFacts DEF DirectoryInv, Recent
  <1> QED BY <1>1, <1>3, <1>6, BaseUnchanged, TrackWriting DEF Writing

LEMMA TrackCloseGone == ASSUME FullInv, CloseGone PROVE TrackerInv'
  <1>1. /\ load.pc = "write" /\ load.todo = {}
        /\ UNCHANGED <<files, writes, meta, gens, shown, dropped, upToDate>>
    BY DEF CloseGone, Untouched
  <1>2. load \in LoadState
    BY <1>1, FullFacts
  <1>3. PICK pc \in {"fail", "record"} : load' = [load EXCEPT !.pc = pc]
    BY DEF CloseGone
  <1>4. /\ load'.pc = pc /\ load'.mode = load.mode /\ load'.read = load.read
        /\ load'.listed = load.listed /\ load'.removed = load.removed
    BY <1>2, <1>3, PcOnly
  <1>5. \A a \in load.listed : load.read[a] # None
    BY <1>1, <1>2, FullFacts DEF DeltaInv, ListedInv, LoadState
  <1>6. DirectoryInv'
    BY <1>1, <1>4, <1>5, FullFacts DEF DirectoryInv, Recent
  <1> QED BY <1>1, <1>4, <1>6, BaseUnchanged, TrackWriting DEF Writing

\* A place in the load after which only the place changes.
LEMMA TrackPc ==
    ASSUME FullInv, UNCHANGED <<files, writes, meta, gens, shown, dropped, upToDate>>,
           NEW pc, load' = [load EXCEPT !.pc = pc],
           \/ load.pc \in Writing /\ pc \in {"complete", "fail", "undo"}
                /\ (pc = "complete" => load.pc = "record")
           \/ load.pc \in {"cleanup", "prune"} /\ pc \in {"prune", "retire"}
    PROVE  TrackerInv'
  <1>1. load \in LoadState /\ ~upToDate
    BY FullFacts DEF Writing
  <1>2. /\ load'.pc = pc /\ load'.mode = load.mode /\ load'.read = load.read
        /\ load'.listed = load.listed /\ load'.removed = load.removed
    BY <1>1, PcOnly
  <1>3. CASE load.pc \in Writing /\ pc \in {"complete", "fail", "undo"} /\ (pc = "complete" => load.pc = "record")
    <2>1. DirectoryInv'
      BY <1>2, <1>3, FullFacts DEF DirectoryInv, Recent
    <2>2. load'.pc \in Writing
      BY <1>2, <1>3 DEF Writing
    <2> QED BY <1>2, <1>3, <2>1, <2>2, BaseUnchanged, TrackWriting
  <1>4. CASE load.pc \in {"cleanup", "prune"} /\ pc \in {"prune", "retire"}
    <2>1. \A a \in Advisory : ~InFlight(a)
      BY <1>4 DEF InFlight, Writing
    <2>2. TrackInv'
      BY <2>1, TrackKeeps, BaseUnchanged, FullFacts
    <2>3. Complete'
      BY <1>4, CompleteKeeps, BaseUnchanged, FullFacts DEF EndInv
    <2>4. DirectoryInv' /\ EndInv'
      BY <1>1, <1>2, <1>4, <2>3 DEF DirectoryInv, EndInv
    <2>5. MetaInv'
      BY MetaSame, FullFacts
    <2> QED BY <2>2, <2>4, <2>5 DEF TrackerInv
  <1> QED BY <1>3, <1>4

LEMMA TrackRecordFiles == ASSUME FullInv, RecordFiles PROVE TrackerInv'
  <1>1. /\ load.pc = "record" /\ UNCHANGED <<files, writes, gens, shown, dropped, upToDate>>
        /\ load' = [load EXCEPT !.pc = "complete"]
    BY DEF RecordFiles, Untouched
  <1>2. CASE load.mode = "boot"
    <2>1. meta' = meta
      BY <1>2 DEF RecordFiles
    <2> QED BY <1>1, <2>1, TrackPc DEF Writing
  <1>3. CASE load.mode # "boot"
    <2>1. load \in LoadState /\ ~upToDate
      BY <1>1, FullFacts
    <2>2. /\ load'.pc = "complete" /\ load'.mode = load.mode /\ load'.read = load.read
          /\ load'.listed = load.listed /\ load'.removed = load.removed
      BY <1>1, <2>1, PcOnly
    <2>3. meta' = Recorded(load.listed, "success")
      BY <1>3 DEF RecordFiles
    <2>4. MetaInv' /\ \A a \in Advisory : a \notin load.listed => meta'[a] = meta[a]
      BY <1>1, <2>3, FullFacts, RecordedMeta
    <2>5. TrackInv'
      <3> SUFFICES ASSUME NEW a \in Advisory, a \notin dropped, Recent(a)', ~InFlight(a)'
                   PROVE  Carries(gens, shown, a, files[a].c)
        BY <1>1 DEF TrackInv
      <3>1. a \notin load.listed
        BY <1>3, <2>2 DEF InFlight, Writing
      <3>2. Recent(a) /\ ~InFlight(a)
        BY <1>1, <2>4, <3>1 DEF Recent, InFlight
      <3> QED BY <3>2, FullFacts DEF TrackInv
    <2>6. DirectoryInv'
      <3>1. ASSUME NEW a \in Advisory
            PROVE  /\ load'.read[a] # None => load'.read[a] = files'[a].c
                   /\ files'[a].c # None => \/ a \in load'.listed
                                            \/ load'.mode # "full" /\ a \notin load'.removed /\ Recent(a)'
        <4>1. /\ load.read[a] # None => load.read[a] = files[a].c
              /\ files[a].c # None => \/ a \in load.listed
                                      \/ load.mode # "full" /\ a \notin load.removed /\ Recent(a)
          BY <1>1, <1>3, FullFacts DEF DirectoryInv
        <4>2. a \notin load.listed /\ Recent(a) => Recent(a)'
          BY <1>1, <2>4 DEF Recent
        <4> QED BY <1>1, <2>2, <4>1, <4>2
      <3>2. \A a \in load'.listed : load'.read[a] # None
        BY <1>1, <2>2, FullFacts DEF DirectoryInv
      <3> QED BY <3>1, <3>2 DEF DirectoryInv
    <2> QED BY <1>1, <2>1, <2>2, <2>4, <2>5, <2>6 DEF TrackerInv, EndInv
  <1> QED BY <1>2, <1>3

LEMMA TrackCleanup == ASSUME FullInv, Cleanup PROVE TrackerInv'
  <1>1. /\ load.pc = "cleanup" /\ UNCHANGED <<files, writes, gens, shown, dropped, upToDate>>
        /\ load' = [load EXCEPT !.pc = "prune"]
    BY DEF Cleanup, Untouched
  <1>2. load \in LoadState /\ ~upToDate
    BY <1>1, FullFacts
  <1>3. load'.pc = "prune"
    BY <1>1, <1>2, PcOnly
  <1>4. ASSUME NEW a \in Advisory
        PROVE  /\ files[a].c # None => meta'[a] = meta[a]
               /\ meta'[a] \in Tracked /\ meta'[a].m <= files[a].m
    <2>1. meta'[a] = IF files[a].c = None THEN [st |-> None, m |-> 0] ELSE meta[a]
      BY DEF Cleanup
    <2>2. meta[a] \in Tracked /\ meta[a].m <= files[a].m /\ files[a].m \in Nat
      BY FullFacts DEF MetaInv
    <2>3. CASE files[a].c = None
      <3>1. meta'[a] = [st |-> None, m |-> 0]
        BY <2>1, <2>3
      <3> QED BY <2>2, <2>3, <3>1 DEF Tracked
    <2>4. CASE files[a].c # None
      BY <2>1, <2>2, <2>4
    <2> QED BY <2>3, <2>4
  <1>5. MetaInv'
    <2>1. meta' \in [Advisory -> Tracked]
      BY <1>4 DEF Cleanup
    <2> QED BY <1>1, <1>4, <2>1, FullFacts DEF MetaInv
  <1>6. \A a \in Advisory : ~InFlight(a)
    BY <1>1 DEF InFlight, Writing
  <1>7. TrackInv'
    <2> SUFFICES ASSUME NEW a \in Advisory, a \notin dropped, Recent(a)'
                 PROVE  Carries(gens, shown, a, files[a].c)
      BY <1>1 DEF TrackInv
    <2>1. Recent(a)
      BY <1>1, <1>4 DEF Recent
    <2> QED BY <1>6, <2>1, FullFacts DEF TrackInv
  <1>8. Complete'
    BY <1>1, CompleteKeeps, BaseUnchanged, FullFacts DEF EndInv
  <1>9. DirectoryInv' /\ EndInv'
    BY <1>1, <1>2, <1>3, <1>8 DEF DirectoryInv, EndInv
  <1> QED BY <1>5, <1>7, <1>9 DEF TrackerInv

\* A load ends; what it had in flight is dropped.
LEMMA TrackEnd ==
    ASSUME FullInv, load' = NoLoad, UNCHANGED <<files, writes, meta>>, SameBase,
           dropped \subseteq dropped', \A a \in Advisory \ dropped' : ~InFlight(a),
           upToDate' => Complete
    PROVE  TrackerInv'
  <1>1. load'.pc = "idle"
    BY DEF NoLoad
  <1>2. DirectoryInv'
    BY <1>1, QuietLoad
  <1>3. TrackInv'
    BY TrackKeeps, FullFacts
  <1>4. EndInv'
    BY <1>1, CompleteKeeps, FullFacts DEF EndInv
  <1>5. MetaInv'
    BY MetaSame, FullFacts
  <1> QED BY <1>2, <1>3, <1>4, <1>5 DEF TrackerInv

LEMMA DroppedFlight ==
    ASSUME LoadDropped
    PROVE  dropped \subseteq dropped' /\ \A a \in Advisory \ dropped' : ~InFlight(a)
  BY DEF LoadDropped, InFlight, Writing

LEMMA RetireBase == ASSUME CatalogInv, Retire PROVE SameBase
  <1>1. CatalogInv' /\ gens \in Seq(Statuses) /\ shown' = shown
    BY RetireInv, InvFacts DEF Retire
  <1>2. gens' \in Seq(Statuses)
    BY <1>1 DEF CatalogInv, GensInv
  <1>3. \E x : x \notin KeptOf(gens) /\ ActiveOf(gens') = ActiveOf(gens) \ {x}
    BY <1>1, RetiredOne DEF ActiveOf
  <1>4. PICK n, k : n = NewestOf(gens) /\ k = NewestOf(gens')
    OBVIOUS
  <1>5. /\ n \in Nat /\ (n # 0 => n \in KeptOf(gens)) /\ (n = 0 => ActiveOf(gens) = {})
        /\ \A g \in ActiveOf(gens) : g <= n
    BY <1>1, <1>4, NewestFacts
  <1>6. /\ k \in Nat /\ (k # 0 => k \in ActiveOf(gens')) /\ (k = 0 => ActiveOf(gens') = {})
        /\ \A g \in ActiveOf(gens') : g <= k
    BY <1>2, <1>4, NewestFacts
  <1>7. /\ ActiveOf(gens') \subseteq ActiveOf(gens)
        /\ \A g \in KeptOf(gens) : g \in ActiveOf(gens')
    BY <1>3, KeptActive
  <1>8. n = k
    BY <1>5, <1>6, <1>7
  <1> QED BY <1>1, <1>4, <1>8 DEF SameBase, Carries, Base

LEMMA TrackRetire == ASSUME FullInv, Retire PROVE TrackerInv'
  <1>1. load.pc = "retire" /\ UNCHANGED <<files, writes, meta, load, dropped, upToDate>>
    BY DEF Retire, Untouched
  <1>2. SameBase
    BY RetireBase, FullFacts
  <1>3. TrackInv'
    BY <1>1, <1>2, TrackKeeps, FullFacts DEF InFlight
  <1>4. DirectoryInv'
    BY <1>1 DEF DirectoryInv
  <1>5. EndInv'
    BY <1>1, <1>2, CompleteKeeps, FullFacts DEF EndInv
  <1> QED BY <1>1, <1>3, <1>4, <1>5, MetaSame, FullFacts DEF TrackerInv

LEMMA TrackEnds ==
    ASSUME FullInv, EndLoad \/ Undo
    PROVE  TrackerInv'
  <1>1. load' = NoLoad /\ UNCHANGED <<files, writes, meta>>
    BY DEF EndLoad, Undo, Untouched
  <1>2. CASE EndLoad
    <2>1. load.pc \in {"prune", "retire"} /\ dropped' = dropped
      BY <1>2 DEF EndLoad
    <2>2. Complete /\ \A a \in Advisory : ~InFlight(a)
      BY <2>1, FullFacts DEF EndInv, InFlight, Writing
    <2>3. SameBase
      BY <1>2, BaseUnchanged DEF EndLoad
    <2> QED BY <1>1, <2>1, <2>2, <2>3, TrackEnd
  <1>3. CASE Undo
    <2>1. load.pc = "undo" /\ LoadDropped /\ UNCHANGED <<gens, shown, upToDate>>
      BY <1>3 DEF Undo
    <2>2. ~upToDate'
      BY <2>1, FullFacts
    <2> QED BY <1>1, <2>1, <2>2, DroppedFlight, BaseUnchanged, TrackEnd
  <1> QED BY <1>2, <1>3

LEMMA TrackCrash == ASSUME FullInv, CrashLoad PROVE TrackerInv'
  <1>1. /\ load.pc # "idle" /\ load' = NoLoad
        /\ UNCHANGED <<files, writes, gens, shown, upToDate>>
    BY DEF CrashLoad, Untouched
  <1>2. ~upToDate
    BY <1>1, FullFacts
  <1>3. CASE load.pc # "scan" /\ LoadDropped /\ UNCHANGED meta
    BY <1>1, <1>2, <1>3, DroppedFlight, BaseUnchanged, TrackEnd
  <1>4. CASE load.pc = "scan" /\ \E S \in SUBSET ToProcess :
               meta' = Recorded(S, "pending") /\ dropped' = dropped \cup S
    <2>1. PICK S \in SUBSET ToProcess : meta' = Recorded(S, "pending") /\ dropped' = dropped \cup S
      BY <1>4
    <2>2. MetaInv' /\ \A a \in Advisory : a \notin S => meta'[a] = meta[a]
      BY <1>1, <2>1, FullFacts, RecordedMeta
    <2>3. TrackInv'
      <3> SUFFICES ASSUME NEW a \in Advisory, a \notin dropped', Recent(a)'
                   PROVE  Carries(gens, shown, a, files[a].c)
        BY <1>1 DEF TrackInv
      <3>1. Recent(a) /\ ~InFlight(a) /\ a \notin dropped
        BY <1>1, <1>4, <2>1, <2>2 DEF Recent, InFlight, Writing
      <3> QED BY <3>1, FullFacts DEF TrackInv
    <2>4. load'.pc = "idle"
      BY <1>1 DEF NoLoad
    <2>5. DirectoryInv' /\ EndInv'
      BY <1>1, <1>2, <2>4, QuietLoad DEF EndInv
    <2> QED BY <2>2, <2>3, <2>5 DEF TrackerInv
  <1> QED BY <1>3, <1>4 DEF CrashLoad

LEMMA TrackErrors ==
    ASSUME FullInv, LoadError \/ LoggedError
    PROVE  TrackerInv'
  <1>1. UNCHANGED <<files, writes, meta, gens, shown, upToDate>>
    BY DEF LoadError, LoggedError, Untouched
  <1>2. CASE LoadError
    BY <1>1, <1>2, TrackPc DEF LoadError, Writing
  <1>3. CASE LoggedError /\ load.pc = "undo"
    <2>1. load' = NoLoad /\ LoadDropped
      BY <1>3 DEF LoggedError
    <2>2. ~upToDate
      BY <1>3, FullFacts
    <2> QED BY <1>1, <2>1, <2>2, DroppedFlight, BaseUnchanged, TrackEnd
  <1>4. CASE LoggedError /\ load.pc # "undo"
    <2>1. /\ dropped' = dropped
          /\ \/ load.pc = "record" /\ load' = [load EXCEPT !.pc = "complete"]
             \/ load.pc = "cleanup" /\ load' = [load EXCEPT !.pc = "prune"]
             \/ load.pc = "fail" /\ load' = [load EXCEPT !.pc = "undo"]
      BY <1>4 DEF LoggedError
    <2> QED BY <1>1, <2>1, TrackPc DEF Writing
  <1> QED BY <1>2, <1>3, <1>4

LEMMA TrackMarkFailed == ASSUME FullInv, MarkFailed PROVE TrackerInv'
  <1>1. /\ load.pc = "fail" /\ UNCHANGED <<files, writes, meta, shown, dropped, upToDate>>
        /\ load' = [load EXCEPT !.pc = "undo"]
    BY DEF MarkFailed, Untouched
  <1>2. load \in LoadState /\ CatalogInv /\ CatalogInv'
    BY <1>1, FullFacts, MarkFailedInv
  <1>3. load'.pc = "undo" /\ load'.mode = load.mode /\ load'.listed = load.listed
    BY <1>1, <1>2, PcOnly
  <1>4. load.gen \in DOMAIN gens /\ gens[load.gen] = "running"
    BY <1>1, <1>2 DEF CatalogInv, LoadInv, Writing
  <1>5. ActiveOf(gens') = ActiveOf(gens)
    BY <1>4 DEF MarkFailed, ActiveOf
  <1>6. SameBase
    BY <1>1, <1>2, <1>5, BaseKept DEF CatalogInv, GensInv
  <1>7. DirectoryInv'
    BY <1>3 DEF DirectoryInv
  <1> QED BY <1>1, <1>3, <1>6, <1>7, TrackWriting DEF Writing

LEMMA TrackActivate == ASSUME FullInv, Activate PROVE TrackerInv'
  <1>1. load.pc = "complete" /\ UNCHANGED <<files, writes, meta, upToDate>>
    BY DEF Activate, Untouched
  <1>2. load \in LoadState /\ ~upToDate /\ CatalogInv /\ DeltaInv /\ CatalogInv'
    BY <1>1, FullFacts, ActivateInv
  <1>3. PICK n : n = load.gen
    OBVIOUS
  <1>4. n = Len(gens) /\ n \in DOMAIN gens /\ n \in Nat /\ n # 0 /\ DOMAIN gens = 1 .. n
    BY <1>1, <1>2, <1>3, InvFacts DEF CatalogInv, LoadInv, Writing
  <1>5. gens' \in Seq(Statuses) /\ ActiveOf(gens') = ActiveOf(gens) \cup {n}
    BY <1>2, <1>3, <1>4 DEF Activate, ActiveOf, CatalogInv, GensInv
  <1>6. NewestOf(gens') = n
    <2>1. \A g \in ActiveOf(gens') : g \in Nat /\ g <= n
      BY <1>4, <1>5 DEF ActiveOf
    <2>2. PICK k : k = NewestOf(gens')
      OBVIOUS
    <2>3. /\ k \in Nat /\ (k # 0 => k \in ActiveOf(gens')) /\ (k = 0 => ActiveOf(gens') = {})
          /\ \A g \in ActiveOf(gens') : g <= k
      BY <1>5, <2>2, NewestFacts
    <2> QED BY <1>4, <1>5, <2>1, <2>2, <2>3
  <1>7. shown'[n] = Delta
    BY <1>2, <1>3, ActivateDelta
  <1>8. MetaInv'
    BY <1>1, MetaSame, FullFacts
  <1>9. CASE load.mode = "boot"
    <2>1. load'.pc = "idle" /\ dropped' = dropped \cup {a \in Advisory : meta[a].st # None}
      BY <1>9 DEF Activate, NoLoad
    <2>2. TrackInv'
      BY <1>1, <2>1 DEF TrackInv, Recent
    <2> QED BY <1>1, <1>2, <1>8, <2>1, <2>2, QuietLoad DEF TrackerInv, EndInv
  <1>10. CASE load.mode # "boot"
    <2>1. dropped' = dropped \ load.listed
      BY <1>10 DEF Activate
    <2>2. PICK pc \in {"prune", "cleanup"} : load' = [load EXCEPT !.pc = pc]
      BY <1>10 DEF Activate
    <2>3. load'.pc = pc
      BY <1>2, <2>2, PcOnly
    <2>4. ASSUME NEW a \in Advisory, a \notin dropped', files[a].c # None
          PROVE  Delta[a] = Shows(files[a].c)
      <3>1. /\ load.read[a] # None => load.read[a] = files[a].c
            /\ \/ a \in load.listed
               \/ load.mode # "full" /\ a \notin load.removed /\ Recent(a)
            /\ a \in load.listed => load.read[a] # None
        BY <1>1, <1>10, <2>4, FullFacts DEF DirectoryInv
      <3>2. CASE load.read[a] # None
        BY <3>1, <3>2 DEF Delta
      <3>3. CASE load.read[a] = None
        <4>1. a \notin load.listed /\ load.mode # "full" /\ a \notin load.removed /\ Recent(a)
          BY <3>1, <3>3
        <4>2. a \notin dropped /\ ~InFlight(a)
          BY <2>1, <2>4, <4>1 DEF InFlight
        <4>3. Carries(gens, shown, a, files[a].c)
          BY <4>1, <4>2, FullFacts DEF TrackInv
        <4>4. ActiveGen # 0 /\ shown[ActiveGen][a] = Shows(files[a].c)
          BY <4>3, NewestIs DEF Carries, Base
        <4> QED BY <1>10, <3>3, <4>1, <4>4 DEF Delta
      <3> QED BY <3>2, <3>3
    <2>5. ASSUME NEW a \in Advisory, a \notin dropped', files[a].c # None
          PROVE  Carries(gens', shown', a, files'[a].c)
      BY <1>1, <1>4, <1>6, <1>7, <2>4, <2>5 DEF Carries, Base
    <2>6. Complete'
      BY <1>1, <2>5 DEF Complete
    <2>7. TrackInv'
      BY <1>1, <2>5 DEF TrackInv, Recent
    <2> QED BY <1>1, <1>2, <1>8, <2>3, <2>6, <2>7 DEF TrackerInv, DirectoryInv, EndInv
  <1> QED BY <1>9, <1>10

LEMMA TrackerStep == FullInv /\ [CatalogNext]_catalogVars => TrackerInv'
  <1> SUFFICES ASSUME FullInv, [CatalogNext]_catalogVars PROVE TrackerInv'
    OBVIOUS
  <1>1. CASE \E a \in Advisory, c \in Contents \cup {None} : WriteFile(a, c)
    BY <1>1, TrackWriteFile DEF Content
  <1>2. CASE BootStart \/ \E mode \in {"full", "changed", "sync"} : StartLoad(mode)
    BY <1>2, TrackBegin
  <1>3. CASE BootCheck \/ BootSkip
    <2>1. UNCHANGED <<files, writes, meta, gens, shown, load, dropped, upToDate>>
      BY <1>3 DEF BootCheck, BootSkip, Untouched
    <2> QED BY <2>1, TrackerSame DEF FullInv
  <1>4. CASE Fetched
    BY <1>4, TrackFetched
  <1>5. CASE Scan
    BY <1>5, TrackScan
  <1>6. CASE List
    BY <1>6, TrackList
  <1>7. CASE StartGeneration
    BY <1>7, TrackStartGeneration
  <1>8. CASE \E a \in Advisory : Batch(a)
    BY <1>8, TrackBatch
  <1>9. CASE CloseGone
    BY <1>9, TrackCloseGone
  <1>10. CASE RecordFiles
    BY <1>10, TrackRecordFiles
  <1>11. CASE Activate
    BY <1>11, TrackActivate
  <1>12. CASE Cleanup
    BY <1>12, TrackCleanup
  <1>13. CASE Prune
    BY <1>13, TrackPc DEF Prune, Untouched
  <1>14. CASE EndLoad \/ Undo
    BY <1>14, TrackEnds
  <1>20. CASE Retire
    BY <1>20, TrackRetire
  <1>15. CASE MarkFailed
    BY <1>15, TrackMarkFailed
  <1>16. CASE CrashLoad
    BY <1>16, TrackCrash
  <1>17. CASE LoadError \/ LoggedError
    BY <1>17, TrackErrors
  <1>18. CASE BeginRead \/ QueryRanges \/ QueryRefs \/ \E g \in DOMAIN gens : Expire(g)
    <2>1. UNCHANGED <<files, writes, meta, gens, shown, load, dropped, upToDate>>
      BY <1>18 DEF BeginRead, QueryRanges, QueryRefs, Expire
    <2> QED BY <2>1, TrackerSame DEF FullInv
  <1>19. CASE UNCHANGED catalogVars
    BY <1>19, TrackerSame DEF FullInv, catalogVars
  <1> QED BY <1>1, <1>2, <1>3, <1>4, <1>5, <1>6, <1>7, <1>8, <1>9, <1>10, <1>11, <1>12, <1>13,
         <1>14, <1>20,
             <1>15, <1>16, <1>17, <1>18, <1>19 DEF CatalogNext

LEMMA FullInitInv == CatalogInit => FullInv
  <1> SUFFICES ASSUME CatalogInit PROVE FullInv
    OBVIOUS
  <1>1. load.pc = "idle" /\ ~upToDate
    BY DEF CatalogInit, NoLoad
  <1>2. DirectoryInv /\ EndInv
    BY <1>1 DEF DirectoryInv, EndInv
  <1>3. ASSUME NEW a \in Advisory
        PROVE  meta[a] \in Tracked /\ meta[a].st = None /\ meta[a].m = 0 /\ files[a].m = 0
    <2>1. meta[a] = [st |-> None, m |-> 0]
      BY DEF CatalogInit
    <2>2. files[a].m = 0
      BY DEF CatalogInit
    <2> QED BY <2>1, <2>2 DEF Tracked
  <1>4. MetaInv
    <2>1. meta \in [Advisory -> Tracked]
      BY <1>3 DEF CatalogInit
    <2> QED BY <1>3, <2>1 DEF MetaInv, CatalogInit
  <1>5. TrackInv
    BY <1>3 DEF TrackInv, Recent
  <1> QED BY <1>2, <1>4, <1>5, LoadingInitInv DEF FullInv, TrackerInv

LEMMA CompleteGives == FullInv => OnlyStoppedLoadsLose
  <1> SUFFICES ASSUME FullInv, upToDate, NEW a \in Advisory \ dropped, files[a].c # None
               PROVE  ActiveGen # 0 /\ View(ActiveGen)[a] = Shows(files[a].c)
    BY DEF OnlyStoppedLoadsLose
  <1>1. CatalogInv /\ Carries(gens, shown, a, files[a].c)
    BY FullFacts DEF EndInv, Complete
  <1>2. PICK n : n = ActiveGen
    OBVIOUS
  <1>3. n # 0 /\ shown[n][a] = Shows(files[a].c)
    BY <1>1, <1>2, NewestIs DEF Carries, Base
  <1>4. n \in KeptOf(gens)
    BY <1>1, <1>2, <1>3, ActiveGenIs, InvFacts
  <1>5. View(n) = shown[n]
    BY <1>1, <1>4, ViewIs, InvFacts DEF CatalogInv, StableInv
  <1> QED BY <1>2, <1>3, <1>5

(* After a load that ended well the active generation shows every file of   *)
(* the directory, except those that an earlier load recorded in the tracker *)
(* and then did not publish, for any directory, any number of loads and any *)
(* faults between them.                                                     *)
THEOREM OnlyStoppedLoadsLoseTheorem == CatalogSpec => []OnlyStoppedLoadsLose
  <1>1. FullInv /\ [CatalogNext]_catalogVars => FullInv'
    BY LoadingStep, TrackerStep DEF FullInv
  <1>2. CatalogSpec => []FullInv
    BY <1>1, FullInitInv, PTL DEF CatalogSpec
  <1> QED BY <1>2, CompleteGives, PTL
=============================================================================
