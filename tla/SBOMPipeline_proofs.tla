------------------------ MODULE SBOMPipeline_proofs ------------------------
(***************************************************************************)
(* Proofs about SBOMPipeline, for every set of Pods, workers, handlers,    *)
(* matchers and replicas, every capacity and every budget. Each property   *)
(* looks at one part of the pipeline: a lemma says which of its steps a    *)
(* step of the pipeline can be, an invariant of the part does the rest.    *)
(***************************************************************************)
EXTENDS SBOMPipeline, FiniteSetTheorems, TLAPS

----------------------------------------------------------------------------
(* The matchers and their table of runs.                                   *)

Fields == {"pc", "ev", "version", "mirror", "found"}
Running == {"match", "persist", "complete"}

(* Every run at work has its key in the table, which never loses one: so   *)
(* the matcher that found its key missing is alone with it.                *)
RunInv ==
    /\ DOMAIN matcher = Matchers
    /\ \A m \in Matchers : DOMAIN matcher[m] = Fields
    /\ \A m \in Matchers : matcher[m].pc \in Running => RunKey(m) \in DOMAIN runs
    /\ RunIsExclusive

(* The steps of the pipeline that a matcher takes, or that end one. *)
MatcherSteps(m) ==
    \/ \E ev \in stream : Deliver(m, ev)
    \/ GetMirrorVersion(m) \/ ClaimSBOMEvent(m) \/ EnsureMatchRun(m) \/ MatchSBOMFindings(m)
    \/ persistMatches(m, TRUE) \/ persistMatches(m, FALSE)
    \/ CompleteMatchRun(m, TRUE) \/ CompleteMatchRun(m, FALSE) \/ MatchFails(m)

LEMMA StepOfMatcher ==
    ASSUME Next
    PROVE  \/ UNCHANGED <<matcher, runs>>
           \/ \E m \in Matchers : MatcherSteps(m)
           \/ CoreRestart
<1>1. CASE \E p \in left.who : PodSeen(p) /\ Spend("seen") /\ OnlyQueue
  BY <1>1 DEF OnlyQueue, matchVars
<1>2. CASE QueueStep
  BY <1>2 DEF QueueStep, OnlyQueue, matchVars
<1>3. CASE \E w \in Workers : SendSBOMFinding(w) \/ CallReturns(w) \/ CallFails(w)
  BY <1>3 DEF SendSBOMFinding, CallReturns, CallFails, OnlyQueue, matchVars
<1>4. CASE \E h \in Handlers : AnswerLost(h) \/ Handle(h) \/ Publish(h)
  BY <1>4 DEF AnswerLost, Handle, Publish, OnlyStore, matchVars, publishSBOMCreatedWithRetry
<1>5. CASE Delivery
  BY <1>5 DEF Delivery, MatcherSteps
<1>6. CASE MatchStep
  BY <1>6 DEF MatchStep, MatcherSteps, SBOMDLQWorker, CheckOnce, Claim, ListSBOMs, queueRematch,
              RestOfRematch
<1>7. CASE MatchFault
  BY <1>7 DEF MatchFault, MatcherSteps, SBOMDLQWorker, ReleaseClaim, RestOfRematch
<1>8. CASE NewGeneration \/ Tick
  BY <1>8 DEF NewGeneration, Tick
<1>9. CASE CleanUp
  BY <1>9 DEF CleanUp, SweepRows, SweepPods, SweepDelete, PodTableChanges, RestOfSweep
<1>10. CASE CoreDies \/ AgentDies
  BY <1>10 DEF CoreDies, AgentDies, OnlyQueue, matchVars
<1> QED
  BY <1>1, <1>2, <1>3, <1>4, <1>5, <1>6, <1>7, <1>8, <1>9, <1>10 DEF Next

LEMMA RunInvInit == Init => RunInv
  BY DEF Init, MatchInit, RunInv, IdleMatcher, NoEvent, Fields, Running, RunIsExclusive

(* A step of m that leaves the other matchers alone, and either ends the   *)
(* run of m, or keeps its key, or starts it with a key that nobody has.    *)
LEMMA RunInvStep ==
    ASSUME RunInv, NEW m \in Matchers, NEW x, matcher' = [matcher EXCEPT ![m] = x],
           DOMAIN x = Fields, DOMAIN runs \subseteq DOMAIN runs',
           \/ x.pc \notin Running
           \/ /\ <<x.ev.row, x.version, x.mirror>> = RunKey(m) /\ RunKey(m) \in DOMAIN runs'
              /\ matcher[m].pc \in Running \/ RunKey(m) \notin DOMAIN runs
    PROVE  RunInv'
<1>1. DOMAIN matcher' = Matchers /\ matcher'[m] = x
      /\ \A n \in Matchers \ {m} : matcher'[n] = matcher[n]
  BY DEF RunInv
<1>2. \A n \in Matchers \ {m} : RunKey(n)' = RunKey(n)
  BY <1>1 DEF RunKey
<1>3. x.pc \in Running => RunKey(m)' = RunKey(m)
  BY <1>1 DEF RunKey
<1>4. \A n \in Matchers : DOMAIN matcher'[n] = Fields
  BY <1>1 DEF RunInv
<1>5. \A n \in Matchers : matcher'[n].pc \in Running => RunKey(n)' \in DOMAIN runs'
  BY <1>1, <1>2, <1>3 DEF RunInv
<1>6. \A n \in Matchers \ {m} :
        matcher'[n].pc \in Running /\ x.pc \in Running => RunKey(n)' # RunKey(m)'
  BY <1>1, <1>2, <1>3 DEF RunInv, RunIsExclusive, Running
<1>7. RunIsExclusive'
  BY <1>1, <1>2, <1>6 DEF RunInv, RunIsExclusive, Running
<1> QED
  BY <1>1, <1>4, <1>5, <1>7 DEF RunInv

LEMMA PutDomain ==
    ASSUME NEW f, NEW x, NEW v
    PROVE  DOMAIN Put(f, x, v) = DOMAIN f \cup {x}
  BY DEF Put

LEMMA IdleMatcherShape == DOMAIN IdleMatcher = Fields /\ IdleMatcher.pc \notin Running
  BY DEF IdleMatcher, NoEvent, Fields, Running

LEMMA RunInvMatcher ==
    ASSUME RunInv, NEW m \in Matchers, MatcherSteps(m)
    PROVE  RunInv'
<1>0. DOMAIN matcher[m] = Fields
  BY DEF RunInv, Fields
<1>a. ASSUME Ack(m), DOMAIN runs \subseteq DOMAIN runs' PROVE RunInv'
  BY <1>a, RunInvStep, IdleMatcherShape DEF Ack
<1>1. ASSUME NEW ev \in stream, Deliver(m, ev) PROVE RunInv'
  <2>1. runs' = runs
    BY <1>1 DEF Deliver
  <2>2. CASE UNCHANGED matcher
    BY <2>1, <2>2 DEF RunInv, RunIsExclusive, RunKey
  <2>3. CASE matcher' = [matcher EXCEPT ![m] = [IdleMatcher EXCEPT !.pc = "load", !.ev = ev,
                                                             !.version = rows[ev.row].version]]
    <3> DEFINE x == [IdleMatcher EXCEPT !.pc = "load", !.ev = ev, !.version = rows[ev.row].version]
    <3>1. DOMAIN x = Fields /\ x.pc = "load"
      BY DEF IdleMatcher, NoEvent, Fields
    <3> HIDE DEF x
    <3> QED
      BY <2>1, <2>3, <3>1, RunInvStep DEF x, Running
  <2> QED
    BY <1>1, <2>2, <2>3 DEF Deliver
<1>b. ASSUME runs' = runs, matcher[m].pc \notin Running, NEW pc \in {"claim", "ensure"}, NEW v,
             matcher' = [matcher EXCEPT ![m].pc = pc, ![m].mirror = v]
      PROVE  RunInv'
  <2> DEFINE x == [matcher[m] EXCEPT !.pc = pc, !.mirror = v]
  <2>1. DOMAIN x = Fields /\ x.pc \notin Running
    BY <1>0 DEF Fields, Running
  <2>2. matcher' = [matcher EXCEPT ![m] = x]
    BY <1>b DEF RunInv
  <2> HIDE DEF x
  <2> QED
    BY <1>b, <2>1, <2>2, RunInvStep
<1>c. CASE GetMirrorVersion(m)
  BY <1>b, <1>c DEF GetMirrorVersion, Running
<1>2. CASE ClaimSBOMEvent(m)
  <2>1. runs' = runs /\ matcher[m].pc \notin Running
    BY <1>2 DEF ClaimSBOMEvent, Running
  <2>2. CASE matcher' = [matcher EXCEPT ![m].pc = "ensure"]
    <3>1. matcher' = [matcher EXCEPT ![m].pc = "ensure", ![m].mirror = matcher[m].mirror]
      BY <1>0, <2>2 DEF RunInv, Fields
    <3> QED
      BY <1>b, <2>1, <3>1
  <2> QED
    BY <1>2, <1>a, <2>1, <2>2 DEF ClaimSBOMEvent
<1>3. CASE EnsureMatchRun(m)
  <2>1. CASE RunKey(m) \notin DOMAIN runs
    <3> DEFINE x == [matcher[m] EXCEPT !.pc = "match"]
    <3>1. DOMAIN x = Fields /\ x.ev = matcher[m].ev /\ x.version = matcher[m].version
          /\ x.mirror = matcher[m].mirror
      BY <1>0 DEF Fields
    <3>2. matcher' = [matcher EXCEPT ![m] = x]
      BY <1>3, <2>1 DEF EnsureMatchRun, RunInv
    <3>3. DOMAIN runs' = DOMAIN runs \cup {RunKey(m)}
      BY <1>3, <2>1, PutDomain DEF EnsureMatchRun
    <3> HIDE DEF x
    <3>4. <<x.ev.row, x.version, x.mirror>> = RunKey(m)
      BY <3>1 DEF RunKey
    <3> QED
      BY <2>1, <3>1, <3>2, <3>3, <3>4, RunInvStep
  <2>2. CASE RunKey(m) \in DOMAIN runs
    BY <1>3, <1>a, <2>2 DEF EnsureMatchRun
  <2> QED
    BY <2>1, <2>2
<1>4. ASSUME NEW pc \in Running, NEW f, matcher[m].pc \in Running, runs' = runs,
             matcher' = [matcher EXCEPT ![m].pc = pc, ![m].found = f]
      PROVE  RunInv'
  <2> DEFINE x == [matcher[m] EXCEPT !.pc = pc, !.found = f]
  <2>1. DOMAIN x = Fields /\ x.ev = matcher[m].ev /\ x.version = matcher[m].version
        /\ x.mirror = matcher[m].mirror
    BY <1>0 DEF Fields
  <2>2. matcher' = [matcher EXCEPT ![m] = x]
    BY <1>4 DEF RunInv
  <2> HIDE DEF x
  <2>3. <<x.ev.row, x.version, x.mirror>> = RunKey(m) /\ RunKey(m) \in DOMAIN runs
    BY <1>4, <2>1 DEF RunKey, RunInv
  <2> QED
    BY <1>4, <2>1, <2>2, <2>3, RunInvStep
<1>5. CASE MatchSBOMFindings(m)
  <2> DEFINE ev == matcher[m].ev
             packages == IF ev.snapshot # "none" THEN ev.snapshot ELSE rows[ev.row].packages
             f == [packages |-> packages, gen |-> generation]
  <2>1. matcher' = [matcher EXCEPT ![m].pc = "persist", ![m].found = f]
    BY <1>5 DEF MatchSBOMFindings
  <2>2. matcher[m].pc \in Running /\ runs' = runs /\ "persist" \in Running
    BY <1>5 DEF MatchSBOMFindings, Running
  <2> HIDE DEF f
  <2> QED
    BY <1>4, <2>1, <2>2
<1>6. ASSUME NEW b \in BOOLEAN, persistMatches(m, b) PROVE RunInv'
  <2> DEFINE x == [matcher[m] EXCEPT !.pc = "complete"]
  <2>1. DOMAIN x = Fields /\ x.ev = matcher[m].ev /\ x.version = matcher[m].version
        /\ x.mirror = matcher[m].mirror
    BY <1>0 DEF Fields
  <2>2. matcher' = [matcher EXCEPT ![m] = x] /\ runs' = runs /\ matcher[m].pc \in Running
    BY <1>6 DEF RunInv, persistMatches, Running
  <2> HIDE DEF x
  <2>3. <<x.ev.row, x.version, x.mirror>> = RunKey(m) /\ RunKey(m) \in DOMAIN runs
    BY <2>1, <2>2 DEF RunKey, RunInv
  <2> QED
    BY <2>1, <2>2, <2>3, RunInvStep
<1>7. ASSUME NEW b \in BOOLEAN, CompleteMatchRun(m, b) PROVE RunInv'
  <2>1. DOMAIN runs \subseteq DOMAIN runs'
    BY <1>7 DEF CompleteMatchRun
  <2> QED
    BY <1>7, <1>a, <2>1 DEF CompleteMatchRun
<1>8. CASE MatchFails(m)
  <2>1. DOMAIN runs \subseteq DOMAIN runs'
    BY <1>8 DEF MatchFails
  <2> QED
    BY <1>8, <2>1, RunInvStep, IdleMatcherShape DEF MatchFails
<1> QED
  BY <1>1, <1>2, <1>3, <1>5, <1>6, <1>7, <1>8, <1>c DEF MatcherSteps

LEMMA RunInvNext == RunInv /\ [Next]_vars => RunInv'
<1> SUFFICES ASSUME RunInv, [Next]_vars PROVE RunInv'
  OBVIOUS
<1>1. CASE UNCHANGED <<matcher, runs>>
  BY <1>1 DEF RunInv, RunIsExclusive, RunKey
<1>2. CASE CoreRestart
  BY <1>2, IdleMatcherShape DEF CoreRestart, RunInv, RunIsExclusive, Running
<1>3. CASE UNCHANGED vars
  BY <1>1, <1>3 DEF vars, matchVars
<1> QED
  BY <1>1, <1>2, <1>3, RunInvMatcher, StepOfMatcher

(* Two matchers never work on the same version of an SBOM and mirror       *)
(* version at once: EnsureMatchRun admits the one that inserts the key,    *)
(* whatever is redelivered, fails or restarts in between.                  *)
THEOREM RunIsExclusiveTheorem == Spec => []RunIsExclusive
<1>1. RunInv => RunIsExclusive
  BY DEF RunInv
<1> QED
  BY <1>1, RunInvInit, RunInvNext, PTL DEF Spec

----------------------------------------------------------------------------
(* The re-match marker.                                                    *)

Holding(r) == rematch[r].pc \in {"list", "publish"}

(* A replica that holds a claim was the one to raise the marker to its     *)
(* generation, and nobody raised it to the same one: the generation is not *)
(* queued, and no other replica holds it.                                  *)
ClaimInv ==
    /\ marker \in Nat /\ generation \in Nat /\ queued \subseteq Nat
    /\ DOMAIN rematch = Replicas
    /\ \A r \in Replicas : /\ DOMAIN rematch[r] = {"pc", "gen", "ts", "todo"}
                           /\ rematch[r].gen \in Nat
    /\ \A r \in Replicas : Holding(r) => /\ 0 < rematch[r].gen /\ rematch[r].gen <= marker
                                         /\ rematch[r].gen \notin queued
    /\ \A r, s \in Replicas : r # s /\ Holding(r) /\ Holding(s) => rematch[r].gen # rematch[s].gen
    /\ QueuedStaysClaimed

LEMMA StepOfRematch ==
    ASSUME Next
    PROVE  \/ UNCHANGED <<marker, generation, rematch, queued>>
           \/ NewGeneration
           \/ \E r \in Replicas : \/ CheckOnce(r) \/ Claim(r) \/ ListSBOMs(r) \/ queueRematch(r)
                                  \/ ReleaseClaim(r)
           \/ CoreRestart
<1>1. CASE \E p \in left.who : PodSeen(p) /\ Spend("seen") /\ OnlyQueue
  BY <1>1 DEF OnlyQueue, matchVars
<1>2. CASE QueueStep
  BY <1>2 DEF QueueStep, OnlyQueue, matchVars
<1>3. CASE \E w \in Workers : SendSBOMFinding(w) \/ CallReturns(w) \/ CallFails(w)
  BY <1>3 DEF SendSBOMFinding, CallReturns, CallFails, OnlyQueue, matchVars
<1>4. CASE \E h \in Handlers : AnswerLost(h) \/ Handle(h) \/ Publish(h)
  BY <1>4 DEF AnswerLost, Handle, Publish, OnlyStore, matchVars, publishSBOMCreatedWithRetry
<1>5. CASE Delivery
  BY <1>5 DEF Delivery, Deliver, RestOfMatching
<1>6. CASE MatchStep
  BY <1>6 DEF MatchStep, SBOMDLQWorker, GetMirrorVersion, ClaimSBOMEvent, EnsureMatchRun,
              MatchSBOMFindings, persistMatches, CompleteMatchRun, RestOfMatching
<1>7. CASE MatchFault
  BY <1>7 DEF MatchFault, SBOMDLQWorker, MatchFails, persistMatches, CompleteMatchRun, RestOfMatching
<1>8. CASE NewGeneration \/ Tick
  BY <1>8 DEF Tick
<1>9. CASE CleanUp
  BY <1>9 DEF CleanUp, SweepRows, SweepPods, SweepDelete, PodTableChanges, RestOfSweep
<1>10. CASE CoreDies \/ AgentDies
  BY <1>10 DEF CoreDies, AgentDies, OnlyQueue, matchVars
<1> QED
  BY <1>1, <1>2, <1>3, <1>4, <1>5, <1>6, <1>7, <1>8, <1>9, <1>10 DEF Next

LEMMA ClaimInvInit == Init => ClaimInv
  BY DEF Init, MatchInit, ClaimInv, IdleCheck, Holding, QueuedStaysClaimed

LEMMA ClaimInvNext == ClaimInv /\ [Next]_vars => ClaimInv'
<1> SUFFICES ASSUME ClaimInv, [Next]_vars PROVE ClaimInv'
  OBVIOUS
<1>1. CASE UNCHANGED <<marker, generation, rematch, queued>>
  BY <1>1 DEF ClaimInv, Holding, QueuedStaysClaimed
<1>2. CASE NewGeneration
  BY <1>2 DEF NewGeneration, ClaimInv, Holding, QueuedStaysClaimed
<1>3. ASSUME NEW r \in Replicas, CheckOnce(r) PROVE ClaimInv'
  <2> DEFINE x == [IdleCheck EXCEPT !.pc = "claim", !.gen = generation, !.ts = clock]
  <2>1. x.pc = "claim" /\ x.gen = generation /\ DOMAIN x = {"pc", "gen", "ts", "todo"}
    BY DEF IdleCheck
  <2>2. rematch' = [rematch EXCEPT ![r] = x] /\ UNCHANGED <<marker, queued, generation>>
    BY <1>3 DEF CheckOnce, RestOfRematch
  <2> HIDE DEF x
  <2> QED
    BY <2>1, <2>2 DEF ClaimInv, Holding, QueuedStaysClaimed
<1>4. ASSUME NEW r \in Replicas, Claim(r) PROVE ClaimInv'
  <2>1. CASE marker < rematch[r].gen
    <3> DEFINE x == [rematch[r] EXCEPT !.pc = "list"]
    <3>1. x.pc = "list" /\ x.gen = rematch[r].gen /\ DOMAIN x = {"pc", "gen", "ts", "todo"}
      BY DEF ClaimInv
    <3>2. rematch' = [rematch EXCEPT ![r] = x] /\ marker' = rematch[r].gen
          /\ UNCHANGED <<queued, generation>>
      BY <1>4, <2>1 DEF Claim, RestOfRematch, ClaimInv
    <3> HIDE DEF x
    <3> QED
      BY <2>1, <3>1, <3>2 DEF ClaimInv, Holding, QueuedStaysClaimed
  <2>2. CASE ~(marker < rematch[r].gen)
    BY <1>4, <2>2 DEF Claim, RestOfRematch, ClaimInv, Holding, QueuedStaysClaimed, IdleCheck
  <2> QED
    BY <2>1, <2>2
<1>5. ASSUME NEW r \in Replicas, NEW x, Holding(r), rematch' = [rematch EXCEPT ![r] = x],
             x.pc = "publish", x.gen = rematch[r].gen, DOMAIN x = {"pc", "gen", "ts", "todo"},
             UNCHANGED <<marker, queued, generation>>
      PROVE  ClaimInv'
  BY <1>5 DEF ClaimInv, Holding, QueuedStaysClaimed
<1>6. ASSUME NEW r \in Replicas, ListSBOMs(r) PROVE ClaimInv'
  <2> DEFINE S == {i \in DOMAIN rows : /\ ~rows[i].deleted
                                       /\ podTable[rows[i].key] = "live"
                                       /\ rows[i].status \in {"complete", "partial"}}
             x == [rematch[r] EXCEPT !.pc = "publish", !.todo = S]
  <2>1. rematch' = [rematch EXCEPT ![r].pc = "publish", ![r].todo = S]
        /\ UNCHANGED <<marker, queued, generation>> /\ Holding(r)
    BY <1>6 DEF ListSBOMs, RestOfRematch, Holding
  <2> HIDE DEF S
  <2>2. x.pc = "publish" /\ x.gen = rematch[r].gen /\ DOMAIN x = {"pc", "gen", "ts", "todo"}
    BY DEF ClaimInv
  <2>3. rematch' = [rematch EXCEPT ![r] = x]
    BY <2>1 DEF ClaimInv
  <2> HIDE DEF x
  <2> QED
    BY <1>5, <2>1, <2>2, <2>3
<1>7. ASSUME NEW r \in Replicas, queueRematch(r) PROVE ClaimInv'
  <2>1. CASE rematch[r].todo = {}
    BY <1>7, <2>1 DEF queueRematch, RestOfRematch, ClaimInv, Holding, QueuedStaysClaimed, IdleCheck
  <2>2. CASE rematch[r].todo # {}
    <3> DEFINE i == CHOOSE i \in rematch[r].todo : \A j \in rematch[r].todo : i <= j
               x == [rematch[r] EXCEPT !.todo = @ \ {i}]
    <3>1. rematch' = [rematch EXCEPT ![r].todo = @ \ {i}]
          /\ UNCHANGED <<marker, queued, generation>> /\ Holding(r) /\ rematch[r].pc = "publish"
      BY <1>7, <2>2 DEF queueRematch, RestOfRematch, Holding
    <3> HIDE DEF i
    <3>2. x.pc = "publish" /\ x.gen = rematch[r].gen /\ DOMAIN x = {"pc", "gen", "ts", "todo"}
      BY <3>1 DEF ClaimInv
    <3>3. rematch' = [rematch EXCEPT ![r] = x]
      BY <3>1 DEF ClaimInv
    <3> HIDE DEF x
    <3> QED
      BY <1>5, <3>1, <3>2, <3>3
  <2> QED
    BY <2>1, <2>2
<1>8. ASSUME NEW r \in Replicas, ReleaseClaim(r) PROVE ClaimInv'
  <2>1. rematch' = [rematch EXCEPT ![r] = IdleCheck] /\ UNCHANGED <<queued, generation>> /\ Holding(r)
        /\ marker' = IF marker = rematch[r].gen THEN marker - 1 ELSE marker
    BY <1>8 DEF ReleaseClaim, RestOfRematch, Holding
  <2>2. IdleCheck.pc = "idle" /\ IdleCheck.gen = 0 /\ DOMAIN IdleCheck = {"pc", "gen", "ts", "todo"}
    BY DEF IdleCheck
  <2> QED
    BY <2>1, <2>2 DEF ClaimInv, Holding, QueuedStaysClaimed
<1>9. CASE CoreRestart
  BY <1>9 DEF CoreRestart, ClaimInv, Holding, QueuedStaysClaimed, IdleCheck
<1>10. CASE UNCHANGED vars
  BY <1>1, <1>10 DEF vars, matchVars
<1> QED
  BY <1>1, <1>2, <1>3, <1>4, <1>6, <1>7, <1>8, <1>9, <1>10, StepOfRematch

(* A generation whose re-match was queued in full stays at or below the    *)
(* marker: no release of a claim that failed, its own replica's earlier    *)
(* ones included, takes it back.                                           *)
THEOREM QueuedStaysClaimedTheorem == Spec => []QueuedStaysClaimed
<1>1. ClaimInv => QueuedStaysClaimed
  BY DEF ClaimInv
<1> QED
  BY <1>1, ClaimInvInit, ClaimInvNext, PTL DEF Spec

----------------------------------------------------------------------------
(* The workers' state, the handlers' and the table of SBOMs.               *)

Reasons == {"ok", "pull_error", "validation_failed", "parse_error", "nondeterministic_output"}
Statuses == {"complete", "partial", "failed"}
Packages == {"A", "B", "none"}
Sigs == {"", "s1", "s2"}
Row == [key : Keys, deleted : BOOLEAN, status : Statuses, reason : Reasons,
        packages : Packages, fp : Packages, sig : Sigs, version : Nat \ {0}]
Old == [found : BOOLEAN, status : Statuses \cup {""}, reason : Reasons \cup {""}]
HandlerRec == [pc : {"free", "read", "store", "publish", "reply"}, key : Keys \cup {"none"},
               req : Extraction \cup {"none"}, old : Old, row : Nat,
               reply : {"nil", "transient", "fatal", "duplicate"}]
WorkerRec == [pc : {"idle", "processing", "leaving"}, pod : Pods \cup {"none"}, todo : Seq(Keys),
              errs : SUBSET {"transient", "fatal"}, call : Handlers \cup {0}]

(* What holds of a status and its reason, in the table and as it is read:  *)
(* only a failed row is nondeterministic, and otherwise failed means that  *)
(* the image was not read.                                                 *)
ReasonFits(x) ==
    /\ x.reason = "nondeterministic_output" => x.status = "failed"
    /\ x.status = "failed" => x.reason \in {"pull_error", "nondeterministic_output"}

RowInv(x) ==
    /\ x \in Row /\ x.fp = x.packages /\ ReasonFits(x)
    /\ x.status = "complete" => x.packages # "none"

HandlerInv(x) ==
    /\ x \in HandlerRec
    /\ x.pc # "free" => x.key \in Keys /\ x.req \in Extraction
    /\ IF x.old.found THEN x.old.status # "" /\ x.old.reason # "" /\ ReasonFits(x.old)
       ELSE x.old.status = "" /\ x.old.reason = ""
    /\ x.pc = "store" /\ x.req.packages = "none" => x.old.status \notin {"complete", "partial"}

LeftInv == DOMAIN left = {"who", "kinds", "seen", "calls", "faults", "deliveries", "ticks", "gens",
                          "pods", "sweeps"}
           /\ left.who \subseteq Pods /\ left.kinds \subseteq Extractions

RowsInv == rows \in Seq(Row) /\ \A i \in DOMAIN rows : RowInv(rows[i])

(* The handler has stored the SBOM, or found a good one, and will say so. *)
Answered(x) == x.pc = "publish" \/ (x.pc = "reply" /\ x.reply = "nil")
HasRow(k) == \E i \in DOMAIN rows : rows[i].key = k

StoreInv ==
    /\ RowsInv
    /\ \A h \in Handlers : Answered(handler[h]) => HasRow(handler[h].key)
    /\ handler \in [Handlers -> HandlerRec] /\ \A h \in Handlers : HandlerInv(handler[h])

LEMMA HandlersPositive == Handlers \subseteq Nat \ {0}
<1>1. Cardinality(Handlers) \in Nat
  BY StoreAssumption, FS_CardinalityType
<1>2. PICK n \in Nat : Handlers = 1 .. n
  BY <1>1, StoreAssumption
<1> QED
  BY <1>2

LEMMA LeftInvNext == LeftInv /\ [Next]_vars => LeftInv'
<1> SUFFICES ASSUME LeftInv, [Next]_vars PROVE LeftInv'
  OBVIOUS
<1>1. CASE UNCHANGED left
  BY <1>1 DEF LeftInv
<1>2. ASSUME NEW x \in {"seen", "calls", "faults", "deliveries", "ticks", "gens", "pods", "sweeps"},
             Spend(x)
      PROVE  LeftInv'
  BY <1>2 DEF LeftInv, Spend
<1>3. \/ UNCHANGED left
      \/ \E x \in {"seen", "calls", "faults", "deliveries", "ticks", "gens", "pods", "sweeps"} :
            Spend(x)
  BY DEF Next, vars, QueueStep, SendSBOMFinding, CallReturns, CallFails, AnswerLost, Handle, Publish,
         Delivery, MatchStep, MatchFault, CleanUp, CoreDies, AgentDies
<1> QED
  BY <1>1, <1>2, <1>3

LEMMA LeftInvInit == Init => LeftInv
  BY PipelineAssumption DEF Init, LeftInv

WorkerInv(x) ==
    /\ x \in WorkerRec
    /\ x.pc # "idle" => x.pod \in Pods
    /\ x.call # 0 => x.pc = "processing" /\ x.todo # <<>>

QueueInv ==
    /\ queue \in Seq(Pods) /\ active \subseteq Pods
    /\ failedPods \subseteq Pods /\ succeeded \subseteq Pods /\ toRetry \subseteq Pods
    /\ retryCount \in [Pods -> 0 .. MaxSendRetries]
    /\ timers \in [Pods -> Nat]
    /\ worker \in [Workers -> WorkerRec] /\ \A w \in Workers : WorkerInv(worker[w])

AtWork(w) == worker[w].pc = "processing" /\ worker[w].todo # <<>>

QueueActs ==
    \/ \E p \in Pods : PodSeen(p) \/ RetryTimer(p)
    \/ \E w \in Workers : TakePod(w) \/ ProcessedPod(w) \/ LeaveActive(w)
    \/ reconcileFailedPods
    \/ ReconcileEnqueue
    \/ AgentRestart

LEMMA StepOfQueue ==
    ASSUME Next, LeftInv, QueueInv, StoreInv
    PROVE  \/ UNCHANGED queueVars
           \/ QueueActs
           \/ \E w \in Workers, h \in Handlers : AtWork(w) /\ CallCore(w, h) /\ OnlyWorker
           \/ \E w \in Workers, err \in {"nil", "transient", "fatal", "duplicate"} :
                 AtWork(w) /\ CallEnds(w, err) /\ OnlyWorker
           \/ CoreDies
<1>1. CASE \E p \in left.who : PodSeen(p) /\ Spend("seen") /\ OnlyQueue
  BY <1>1 DEF LeftInv, QueueActs
<1>2. CASE QueueStep
  BY <1>2 DEF QueueStep, QueueActs
<1>3. ASSUME NEW w \in Workers, SendSBOMFinding(w)
      PROVE  \E h \in Handlers : AtWork(w) /\ CallCore(w, h) /\ OnlyWorker
  BY <1>3 DEF SendSBOMFinding, AtWork
<1>4. ASSUME NEW w \in Workers, CallReturns(w)
      PROVE  \E err \in {"nil", "transient", "fatal", "duplicate"} : AtWork(w) /\ CallEnds(w, err) /\ OnlyWorker
  <2>1. worker[w].call \in Handlers /\ AtWork(w)
    BY <1>4 DEF CallReturns, QueueInv, WorkerInv, WorkerRec, AtWork
  <2>2. handler[worker[w].call].reply \in {"nil", "transient", "fatal", "duplicate"}
    BY <2>1 DEF StoreInv, HandlerRec
  <2> QED
    BY <1>4, <2>1, <2>2 DEF CallReturns
<1>5. ASSUME NEW w \in Workers, CallFails(w)
      PROVE  \E err \in {"nil", "transient", "fatal", "duplicate"} : AtWork(w) /\ CallEnds(w, err) /\ OnlyWorker
  BY <1>5 DEF CallFails, AtWork
<1>6. CASE \E h \in Handlers : AnswerLost(h) \/ Handle(h) \/ Publish(h)
  BY <1>6 DEF AnswerLost, Handle, Publish, OnlyStore
<1>7. CASE Delivery \/ MatchStep \/ MatchFault \/ CleanUp
  BY <1>7 DEF Delivery, MatchStep, MatchFault, CleanUp
<1>8. CASE AgentDies
  BY <1>8 DEF AgentDies, QueueActs
<1> QED
  BY <1>1, <1>2, <1>3, <1>4, <1>5, <1>6, <1>7, <1>8 DEF Next

LEMMA IdleWorker == WorkerInv(Idle) /\ Idle.pc = "idle" /\ Idle.call = 0
  BY DEF Idle, WorkerInv, WorkerRec

LEMMA EnqueueTypes ==
    ASSUME QueueInv, NEW p \in Pods, Enqueue(p)
    PROVE  queue' \in Seq(Pods) /\ active' \subseteq Pods
<1>1. CASE UNCHANGED <<queue, active>>
  BY <1>1 DEF QueueInv
<1>2. CASE queue' = Append(queue, p) /\ active' = active \cup {p}
  BY <1>2 DEF QueueInv
<1> QED
  BY <1>1, <1>2 DEF Enqueue

(* A worker's record after a change of one field. *)
LEMMA WorkerPc ==
    ASSUME NEW x \in WorkerRec, NEW v \in {"idle", "processing", "leaving"}, NEW y, y = [x EXCEPT !.pc = v]
    PROVE  y \in WorkerRec /\ y.pc = v /\ y.pod = x.pod /\ y.todo = x.todo /\ y.errs = x.errs /\ y.call = x.call
  BY DEF WorkerRec
LEMMA WorkerCall ==
    ASSUME NEW x \in WorkerRec, NEW v \in Handlers \cup {0}, NEW y, y = [x EXCEPT !.call = v]
    PROVE  y \in WorkerRec /\ y.pc = x.pc /\ y.pod = x.pod /\ y.todo = x.todo /\ y.errs = x.errs /\ y.call = v
  BY DEF WorkerRec
LEMMA WorkerTodo ==
    ASSUME NEW x \in WorkerRec, NEW v \in Seq(Keys), NEW y, y = [x EXCEPT !.todo = v]
    PROVE  y \in WorkerRec /\ y.pc = x.pc /\ y.pod = x.pod /\ y.todo = v /\ y.errs = x.errs /\ y.call = x.call
  BY DEF WorkerRec

(* The end of a call, as the worker sees it. *)
LEMMA CallEndsEffect ==
    ASSUME QueueInv, NEW w \in Workers, AtWork(w), NEW err \in {"nil", "transient", "fatal", "duplicate"},
           CallEnds(w, err)
    PROVE  \E y \in WorkerRec :
             /\ worker' = [worker EXCEPT ![w] = y]
             /\ y.pc = worker[w].pc /\ y.pod = worker[w].pod /\ y.todo = Tail(worker[w].todo)
             /\ y.errs = (IF err \in {"nil", "duplicate"} THEN worker[w].errs ELSE worker[w].errs \cup {err})
             /\ y.call = 0
<1>x. PICK x : x = worker[w]
  OBVIOUS
<1>a. PICK a : a = [x EXCEPT !.call = 0]
  OBVIOUS
<1>t. PICK t, e : t = Tail(x.todo)
                  /\ e = (IF err \in {"nil", "duplicate"} THEN worker[w].errs ELSE worker[w].errs \cup {err})
  OBVIOUS
<1>b. PICK b : b = [a EXCEPT !.todo = t]
  OBVIOUS
<1>y. PICK y : y = [b EXCEPT !.errs = e]
  OBVIOUS
<1>1. x \in WorkerRec /\ x.todo \in Seq(Keys) /\ x.todo # <<>> /\ 0 \in Handlers \cup {0}
  BY <1>x DEF QueueInv, WorkerRec, AtWork
<1>2. e \in SUBSET {"transient", "fatal"} /\ t \in Seq(Keys)
  BY <1>1, <1>x, <1>t DEF WorkerRec
<1>3. worker' = [worker EXCEPT ![w] = y]
  BY <1>x, <1>a, <1>b, <1>y, <1>t DEF CallEnds, QueueInv, WorkerRec
<1>4. a \in WorkerRec /\ a.pc = x.pc /\ a.pod = x.pod /\ a.todo = x.todo /\ a.errs = x.errs
      /\ a.call = 0
  BY <1>1, <1>a, WorkerCall
<1>5. b \in WorkerRec /\ b.pc = x.pc /\ b.pod = x.pod /\ b.todo = t /\ b.errs = x.errs
      /\ b.call = 0
  BY <1>2, <1>4, <1>b, WorkerTodo
<1>6. y \in WorkerRec /\ y.pc = x.pc /\ y.pod = x.pod /\ y.todo = t /\ y.errs = e
      /\ y.call = 0
  BY <1>2, <1>5, <1>y DEF WorkerRec
<1> QED
  BY <1>3, <1>6, <1>x, <1>t

LEMMA QueueInvWorker ==
    ASSUME QueueInv, OnlyWorker, NEW w \in Workers, NEW y, WorkerInv(y),
           worker' = [worker EXCEPT ![w] = y]
    PROVE  QueueInv'
<1>1. y \in WorkerRec
  BY DEF WorkerInv
<1>2. worker' \in [Workers -> WorkerRec] /\ \A v \in Workers : WorkerInv(worker'[v])
  BY <1>1 DEF QueueInv
<1> QED
  BY <1>2 DEF QueueInv, OnlyWorker

LEMMA WorkerLeaves ==
    ASSUME QueueInv, NEW w \in Workers, worker[w].pc = "processing", worker[w].todo = <<>>
    PROVE  LET y == [worker[w] EXCEPT !.pc = "leaving"] IN
           /\ WorkerInv(y) /\ y.pc = "leaving" /\ y.pod = worker[w].pod /\ y.call = 0
           /\ y.errs = worker[w].errs /\ y.todo = <<>>
<1>x. PICK x : x = worker[w]
  OBVIOUS
<1>y. PICK y : y = [x EXCEPT !.pc = "leaving"]
  OBVIOUS
<1>1. x \in WorkerRec /\ x.pod \in Pods /\ x.call = 0 /\ x.todo = <<>>
  BY <1>x DEF QueueInv, WorkerInv
<1>2. y \in WorkerRec /\ y.pc = "leaving" /\ y.pod = x.pod /\ y.todo = x.todo /\ y.errs = x.errs
      /\ y.call = x.call
  BY <1>1, <1>y, WorkerPc
<1> QED
  BY <1>x, <1>y, <1>1, <1>2 DEF WorkerInv

LEMMA TakenPod ==
    ASSUME NEW p \in Pods
    PROVE  LET y == [Idle EXCEPT !.pc = "processing", !.pod = p, !.todo = Containers[p]] IN
           /\ WorkerInv(y) /\ y.pc = "processing" /\ y.pod = p /\ y.call = 0 /\ y.errs = {}
           /\ y.todo = Containers[p]
<1>1. Containers[p] \in Seq(Keys)
  BY QueueAssumption, PipelineAssumption
<1> QED
  BY <1>1 DEF Idle, WorkerInv, WorkerRec

(* What ProcessedPod does, with the worker's new record named. *)
LEMMA QueueInvProcessed ==
    ASSUME QueueInv, NEW w \in Workers, ProcessedPod(w)
    PROVE  QueueInv'
<1> DEFINE p == worker[w].pod
           y == [worker[w] EXCEPT !.pc = "leaving"]
<1>0. WorkerInv(y) /\ p \in Pods
  BY WorkerLeaves DEF ProcessedPod, QueueInv, WorkerInv
<1>1. worker' = [worker EXCEPT ![w] = y] \/ worker' = [worker EXCEPT ![w] = Idle]
  BY DEF ProcessedPod, QueueInv
<1> HIDE DEF y
<1>2. y \in WorkerRec /\ Idle \in WorkerRec
  BY <1>0, IdleWorker DEF WorkerInv
<1>3. worker' \in [Workers -> WorkerRec] /\ \A v \in Workers : WorkerInv(worker'[v])
  BY <1>0, <1>1, <1>2, IdleWorker DEF QueueInv
<1>4. /\ UNCHANGED <<queue, active, toRetry>>
      /\ failedPods' \in {failedPods, failedPods \ {p}, failedPods \cup {p}}
      /\ succeeded' \in {succeeded, succeeded \cup {p}}
      /\ timers' = timers \/ timers' = [timers EXCEPT ![p] = @ + 1]
      /\ \/ retryCount' = retryCount \/ retryCount' = [retryCount EXCEPT ![p] = 0]
         \/ retryCount[p] + 1 <= MaxSendRetries
            /\ retryCount' = [retryCount EXCEPT ![p] = retryCount[p] + 1]
  BY DEF ProcessedPod
<1>5. timers \in [Pods -> Nat] /\ retryCount \in [Pods -> 0 .. MaxSendRetries] /\ MaxSendRetries \in Nat
  BY QueueAssumption DEF QueueInv
<1> HIDE DEF p
<1>6. timers' \in [Pods -> Nat]
  BY <1>0, <1>4, <1>5
<1>7. retryCount[p] \in Nat
  BY <1>0, <1>5
<1>8. retryCount' \in [Pods -> 0 .. MaxSendRetries]
  BY <1>0, <1>4, <1>5, <1>7
<1> QED
  BY <1>0, <1>3, <1>4, <1>6, <1>8 DEF QueueInv

LEMMA QueueInvActs ==
    ASSUME QueueInv, QueueActs
    PROVE  QueueInv'
<1>1. ASSUME NEW p \in Pods, PodSeen(p) PROVE QueueInv'
  BY <1>1, EnqueueTypes DEF PodSeen, QueueInv
<1>2. ASSUME NEW p \in Pods, RetryTimer(p) PROVE QueueInv'
  <2>1. timers' \in [Pods -> Nat]
    BY <1>2 DEF RetryTimer, QueueInv
  <2>2. CASE Len(queue) < QueueCap
    <3>1. queue' = Append(queue, p) /\ queue \in Seq(Pods)
      BY <1>2, <2>2 DEF RetryTimer, QueueInv
    <3>2. queue' \in Seq(Pods)
      BY <3>1
    <3> QED
      BY <1>2, <2>1, <2>2, <3>2 DEF RetryTimer, QueueInv
  <2>3. CASE ~(Len(queue) < QueueCap)
    <3>1. 0 \in 0 .. MaxSendRetries
      BY QueueAssumption
    <3> QED
      BY <1>2, <2>1, <2>3, <3>1 DEF RetryTimer, QueueInv
  <2> QED
    BY <2>2, <2>3
<1>3. ASSUME NEW w \in Workers, TakePod(w) PROVE QueueInv'
  <2> DEFINE p == Head(queue)
             y == [Idle EXCEPT !.pc = "processing", !.pod = p, !.todo = Containers[p]]
  <2>1. p \in Pods /\ Tail(queue) \in Seq(Pods)
    BY <1>3 DEF TakePod, QueueInv
  <2>2. WorkerInv(y)
    BY <2>1, TakenPod
  <2>3. worker' = [worker EXCEPT ![w] = y]
    BY <1>3 DEF TakePod
  <2> HIDE DEF y
  <2>4. worker' \in [Workers -> WorkerRec] /\ \A v \in Workers : WorkerInv(worker'[v])
    BY <2>2, <2>3 DEF QueueInv, WorkerInv
  <2> QED
    BY <1>3, <2>1, <2>4 DEF TakePod, QueueInv
<1>4. ASSUME NEW w \in Workers, LeaveActive(w) PROVE QueueInv'
  <2>1. worker' \in [Workers -> WorkerRec] /\ \A v \in Workers : WorkerInv(worker'[v])
    BY <1>4, IdleWorker DEF LeaveActive, QueueInv, WorkerInv
  <2> QED
    BY <1>4, <2>1 DEF LeaveActive, QueueInv
<1>5. CASE reconcileFailedPods
  BY <1>5, QueueAssumption DEF reconcileFailedPods, QueueInv
<1>6. CASE ReconcileEnqueue
  <2>1. PICK p \in toRetry : Enqueue(p) /\ toRetry' = toRetry \ {p}
    BY <1>6 DEF ReconcileEnqueue
  <2>2. queue' \in Seq(Pods) /\ active' \subseteq Pods
    BY <2>1, EnqueueTypes DEF QueueInv
  <2> QED
    BY <1>6, <2>1, <2>2 DEF ReconcileEnqueue, QueueInv
<1>7. CASE AgentRestart
  BY <1>7, IdleWorker, QueueAssumption DEF AgentRestart, QueueInv, WorkerInv
<1> QED
  BY <1>1, <1>2, <1>3, <1>4, <1>5, <1>6, <1>7, QueueInvProcessed DEF QueueActs

(* CoreDies, for the workers: a call that was waited for has failed. *)
LEMMA CoreDiesEffect ==
    ASSUME QueueInv, CoreDies, NEW w \in Workers
    PROVE  /\ WorkerInv(worker'[w])
           /\ worker'[w].pc = worker[w].pc /\ worker'[w].pod = worker[w].pod
           /\ worker'[w].call = 0
           /\ worker'[w] = worker[w] \/ worker'[w].errs # {}
<1>1. CASE worker[w].call = 0
  BY <1>1 DEF CoreDies, QueueInv
<1>2. CASE worker[w].call # 0
  <2>x. PICK x : x = worker[w]
    OBVIOUS
  <2>a. PICK a : a = [x EXCEPT !.call = 0]
    OBVIOUS
  <2>t. PICK t, e : t = Tail(x.todo) /\ e = x.errs \cup {"transient"}
    OBVIOUS
  <2>b. PICK b : b = [a EXCEPT !.todo = t]
    OBVIOUS
  <2>y. PICK y : y = [b EXCEPT !.errs = e]
    OBVIOUS
  <2>1. x \in WorkerRec /\ x.todo \in Seq(Keys) /\ x.todo # <<>> /\ 0 \in Handlers \cup {0}
        /\ x.pod \in Pods
    BY <1>2, <2>x DEF QueueInv, WorkerInv, WorkerRec
  <2>2. e \in SUBSET {"transient", "fatal"} /\ t \in Seq(Keys)
    BY <2>1, <2>x, <2>t DEF WorkerRec
  <2>3. worker'[w] = y
    BY <1>2, <2>x, <2>a, <2>b, <2>y, <2>t, <2>1 DEF CoreDies, WorkerRec
  <2>4. a \in WorkerRec /\ a.pc = x.pc /\ a.pod = x.pod /\ a.todo = x.todo /\ a.errs = x.errs
        /\ a.call = 0
    BY <2>1, <2>a DEF WorkerRec
  <2>5. b \in WorkerRec /\ b.pc = x.pc /\ b.pod = x.pod /\ b.todo = t /\ b.errs = x.errs /\ b.call = 0
    BY <2>2, <2>4, <2>b, WorkerTodo
  <2>6. y \in WorkerRec /\ y.pc = x.pc /\ y.pod = x.pod /\ y.todo = t /\ y.errs = e /\ y.call = 0
    BY <2>2, <2>5, <2>y DEF WorkerRec
  <2>7. e # {}
    BY <2>t
  <2> QED
    BY <2>x, <2>1, <2>3, <2>6, <2>7 DEF WorkerInv
<1> QED
  BY <1>1, <1>2

LEMMA CallCoreEffect ==
    ASSUME QueueInv, NEW w \in Workers, AtWork(w), NEW h \in Handlers, CallCore(w, h)
    PROVE  \E y : /\ WorkerInv(y) /\ worker' = [worker EXCEPT ![w] = y]
                  /\ y.pc = worker[w].pc /\ y.pod = worker[w].pod /\ y.todo = worker[w].todo
                  /\ y.errs = worker[w].errs /\ y.call = h
<1>x. PICK x : x = worker[w]
  OBVIOUS
<1>y. PICK y : y = [x EXCEPT !.call = h]
  OBVIOUS
<1>1. x \in WorkerRec /\ x.pc = "processing" /\ x.todo # <<>> /\ h \in Handlers \cup {0}
      /\ x.pod \in Pods
  BY <1>x DEF QueueInv, WorkerInv, AtWork
<1>2. y \in WorkerRec /\ y.pc = x.pc /\ y.pod = x.pod /\ y.todo = x.todo /\ y.errs = x.errs
      /\ y.call = h
  BY <1>1, <1>y, WorkerCall
<1>3. worker' = [worker EXCEPT ![w] = y]
  BY <1>x, <1>y DEF CallCore, QueueInv
<1> QED
  BY <1>x, <1>1, <1>2, <1>3 DEF WorkerInv

LEMMA QueueInvNext == LeftInv /\ QueueInv /\ StoreInv /\ [Next]_vars => QueueInv'
<1> SUFFICES ASSUME LeftInv, QueueInv, StoreInv, [Next]_vars PROVE QueueInv'
  OBVIOUS
<1>1. CASE UNCHANGED queueVars
  BY <1>1 DEF QueueInv, queueVars
<1>2. ASSUME NEW w \in Workers, NEW h \in Handlers, AtWork(w), CallCore(w, h), OnlyWorker
      PROVE  QueueInv'
  BY <1>2, CallCoreEffect, QueueInvWorker
<1>3. ASSUME NEW w \in Workers, NEW err \in {"nil", "transient", "fatal", "duplicate"}, AtWork(w),
             CallEnds(w, err), OnlyWorker
      PROVE  QueueInv'
  <2>1. PICK y \in WorkerRec : /\ worker' = [worker EXCEPT ![w] = y]
                               /\ y.pc = worker[w].pc /\ y.pod = worker[w].pod /\ y.call = 0
    BY <1>3, CallEndsEffect
  <2>2. WorkerInv(y)
    BY <2>1 DEF WorkerInv, QueueInv
  <2> QED
    BY <1>3, <2>1, <2>2, QueueInvWorker
<1>4. CASE CoreDies
  <2>1. \A w \in Workers : WorkerInv(worker'[w])
    BY <1>4, CoreDiesEffect
  <2>2. worker' \in [Workers -> WorkerRec]
    <3>1. worker' = [w \in Workers |-> worker'[w]]
      BY <1>4 DEF CoreDies
    <3> QED
      BY <2>1, <3>1 DEF WorkerInv
  <2> QED
    BY <1>4, <2>1, <2>2 DEF CoreDies, OnlyWorker, QueueInv
<1>5. CASE UNCHANGED vars
  BY <1>1, <1>5 DEF vars
<1> QED
  BY <1>1, <1>2, <1>3, <1>4, <1>5, QueueInvActs, StepOfQueue

----------------------------------------------------------------------------
(* Ingest.                                                                 *)

HandlerSteps(h) ==
    \/ \E k \in Keys, x \in Extraction : Receive(h, k, x)
    \/ ReadExisting(h) \/ StoreSBOM(h) \/ StoreFails(h) \/ Published(h) \/ Done(h)
    \/ \E err \in {"transient", "fatal"} : Refuse(h, err)

Deletes == UNCHANGED handler /\ \E ids : DeleteRows(ids)

LEMMA StepOfStore ==
    ASSUME Next, LeftInv, QueueInv
    PROVE  \/ UNCHANGED storeVars
           \/ \E h \in Handlers : HandlerSteps(h)
           \/ HandlersLost
           \/ Deletes
<1>1. CASE \E p \in left.who : PodSeen(p) /\ Spend("seen") /\ OnlyQueue
  BY <1>1 DEF OnlyQueue
<1>2. CASE QueueStep
  BY <1>2 DEF QueueStep, OnlyQueue
<1>3. ASSUME NEW w \in Workers, SendSBOMFinding(w) PROVE \E h \in Handlers : HandlerSteps(h)
  <2>1. PICK h \in Handlers, x \in left.kinds : Receive(h, Head(worker[w].todo), x)
    BY <1>3 DEF SendSBOMFinding
  <2>2. Head(worker[w].todo) \in Keys
    BY <1>3 DEF SendSBOMFinding, QueueInv, WorkerRec
  <2>3. x \in Extraction
    BY StoreAssumption DEF LeftInv
  <2> QED
    BY <2>1, <2>2, <2>3 DEF HandlerSteps
<1>4. ASSUME NEW w \in Workers, CallReturns(w) PROVE \E h \in Handlers : HandlerSteps(h)
  BY <1>4 DEF CallReturns, QueueInv, WorkerRec, HandlerSteps
<1>5. ASSUME NEW w \in Workers, CallFails(w) PROVE UNCHANGED storeVars
  BY <1>5 DEF CallFails, OnlyQueue
<1>6. ASSUME NEW h \in Handlers, AnswerLost(h) \/ Handle(h) \/ Publish(h) PROVE HandlerSteps(h)
  BY <1>6 DEF AnswerLost, Handle, Publish, publishSBOMCreatedWithRetry, HandlerSteps
<1>7. CASE Delivery \/ MatchStep \/ MatchFault
  BY <1>7 DEF Delivery, MatchStep, MatchFault, Deliver, SBOMDLQWorker, GetMirrorVersion, ClaimSBOMEvent,
              EnsureMatchRun, MatchSBOMFindings, persistMatches, CompleteMatchRun, MatchFails,
              CheckOnce, Claim, ListSBOMs, queueRematch, ReleaseClaim, RestOfRematch, storeVars
<1>8. CASE NewGeneration \/ Tick
  BY <1>8 DEF NewGeneration, Tick
<1>9. CASE CleanUp
  BY <1>9 DEF CleanUp, SweepRows, SweepPods, SweepDelete, PodTableChanges, RestOfSweep, storeVars,
              Deletes
<1>10. CASE CoreDies \/ AgentDies
  BY <1>10 DEF CoreDies, AgentDies, CoreRestart, OnlyQueue
<1> QED
  BY <1>1, <1>2, <1>3, <1>4, <1>5, <1>6, <1>7, <1>8, <1>9, <1>10 DEF Next

Accepted == [status : Statuses, reason : Reasons, packages : Packages, fp : Packages, sig : Sigs]

(* What is made of a request and of the status that was read: a status     *)
(* whose reason fits. A request without packages that found nothing, or a  *)
(* failed row, is a failure of the image, unless the row's reason is kept. *)
LEMMA SanitizedFits ==
    ASSUME NEW req \in Extraction
    PROVE  /\ SanitizedStatus(req).status \in Statuses
           /\ SanitizedStatus(req).reason \in {"ok", "pull_error", "validation_failed", "parse_error"}
           /\ SanitizedStatus(req).status = "failed" <=> req.packages = "none"
           /\ SanitizedStatus(req).status = "failed" => SanitizedStatus(req).reason = "pull_error"
           /\ Components(req) \in Packages
           /\ req.packages = "none" => Components(req) = "none"
  BY DEF Extraction, SanitizedStatus, Components, Statuses, Packages

LEMMA ModelFits ==
    ASSUME NEW x, HandlerInv(x), x.pc = "store"
    PROVE  LET s == ModelStatus(x.req, x.old) IN
           /\ s.status \in Statuses
           /\ s.reason \in Reasons
           /\ ReasonFits(s)
           /\ (x.req.packages = "none" /\ x.old.reason # "nondeterministic_output")
              => s.status = "failed" /\ s.reason = "pull_error"
<1> DEFINE new == SanitizedStatus(x.req)
           kept == IF x.old.reason # "" THEN x.old.reason ELSE new.reason
<1>1. x.req \in Extraction /\ x.old \in Old
  BY DEF HandlerInv, HandlerRec
<1>2. /\ new.status \in Statuses
      /\ new.reason \in {"ok", "pull_error", "validation_failed", "parse_error"}
      /\ new.status = "failed" <=> x.req.packages = "none"
      /\ new.status = "failed" => new.reason = "pull_error"
      /\ x.req.packages = "none" => Components(x.req) = "none"
  BY <1>1, SanitizedFits
<1>3. kept \in Reasons
  BY <1>1, <1>2 DEF Old, Reasons
<1> HIDE DEF new
<1>4. CASE ~x.old.found
  <2>1. ModelStatus(x.req, x.old) = new
    BY <1>4 DEF ModelStatus, new, HandlerInv
  <2> QED
    BY <1>2, <2>1 DEF ReasonFits, Reasons, Statuses
<1>5. CASE x.old.found /\ x.old.status = "complete"
  <2>1. ModelStatus(x.req, x.old) = [status |-> "complete", reason |-> "ok"]
    BY <1>5 DEF ModelStatus
  <2>2. x.req.packages # "none"
    BY <1>5 DEF HandlerInv
  <2> QED
    BY <2>1, <2>2 DEF ReasonFits, Reasons, Statuses
<1>6. CASE x.old.found /\ x.old.status = "failed"
  <2>1. ModelStatus(x.req, x.old)
          = IF Components(x.req) # "none" THEN new ELSE [status |-> "failed", reason |-> kept]
    BY <1>6 DEF ModelStatus, new
  <2>2. kept \in {"pull_error", "nondeterministic_output"} /\ kept = x.old.reason
    BY <1>6 DEF HandlerInv, ReasonFits
  <2> HIDE DEF kept
  <2> QED
    BY <1>2, <1>3, <2>1, <2>2 DEF ReasonFits, Reasons, Statuses
<1>7. CASE x.old.found /\ x.old.status = "partial"
  <2>1. ModelStatus(x.req, x.old)
          = IF new.status = "complete" THEN new
            ELSE [status |-> "partial",
                  reason |-> IF Components(x.req) = "none" THEN kept ELSE new.reason]
    BY <1>7 DEF ModelStatus, new
  <2>2. x.req.packages # "none" /\ kept # "nondeterministic_output"
    BY <1>2, <1>7 DEF HandlerInv, ReasonFits
  <2> HIDE DEF kept
  <2> QED
    BY <1>2, <1>3, <2>1, <2>2 DEF ReasonFits, Reasons, Statuses
<1> QED
  BY <1>1, <1>4, <1>5, <1>6, <1>7 DEF Old, HandlerInv, Statuses

(* The row that a request makes of its model of the SBOM, and of the row   *)
(* that is there.                                                          *)
ModelInv(sb) ==
    /\ sb \in Accepted /\ sb.fp = sb.packages /\ ReasonFits(sb)
    /\ sb.status = "complete" => sb.packages # "none"

LEMMA ModelIsAccepted ==
    ASSUME NEW x, HandlerInv(x), x.pc = "store", NEW sb, sb = sbomModel(x.req, x.old),
           sb.status = "complete" => sb.packages # "none"
    PROVE  /\ ModelInv(sb)
           /\ x.req.packages = "none" => sb.packages = "none"
           /\ (x.req.packages = "none" /\ x.old.reason # "nondeterministic_output")
              => sb.status = "failed" /\ sb.reason = "pull_error"
<1>s. PICK s, c : s = ModelStatus(x.req, x.old) /\ c = Components(x.req)
  OBVIOUS
<1>1. /\ s.status \in Statuses
      /\ s.reason \in Reasons
      /\ ReasonFits(s)
      /\ (x.req.packages = "none" /\ x.old.reason # "nondeterministic_output")
              => s.status = "failed" /\ s.reason = "pull_error"
  BY <1>s, ModelFits
<1>2. x.req \in Extraction
  BY DEF HandlerInv
<1>3. c \in Packages /\ (x.req.packages = "none" => c = "none")
  BY <1>2, <1>s, SanitizedFits
<1>4. sb = [status |-> s.status, reason |-> s.reason, packages |-> c, fp |-> c,
            sig |-> IF x.req.sig = "bad" THEN "" ELSE x.req.sig]
  BY <1>s DEF sbomModel
<1>5. (IF x.req.sig = "bad" THEN "" ELSE x.req.sig) \in Sigs
  BY <1>2 DEF Extraction, Sigs
<1>6. sb \in Accepted /\ sb.status = s.status /\ sb.reason = s.reason /\ sb.packages = c /\ sb.fp = c
  <2>1. PICK g \in Sigs : g = IF x.req.sig = "bad" THEN "" ELSE x.req.sig
    BY <1>5
  <2>2. sb = [status |-> s.status, reason |-> s.reason, packages |-> c, fp |-> c, sig |-> g]
    BY <1>4, <2>1
  <2>3. PICK st \in Statuses, re \in Reasons : st = s.status /\ re = s.reason
    BY <1>1
  <2>4. sb = [status |-> st, reason |-> re, packages |-> c, fp |-> c, sig |-> g]
    BY <2>2, <2>3
  <2> QED
    BY <1>3, <2>3, <2>4 DEF Accepted
<1> QED
  BY <1>1, <1>3, <1>6 DEF ModelInv, ReasonFits

LEMMA InsertedRow ==
    ASSUME NEW k \in Keys, NEW sb, ModelInv(sb), NEW y,
           y = [key |-> k, deleted |-> FALSE, status |-> sb.status, reason |-> sb.reason,
                packages |-> sb.packages, fp |-> sb.fp, sig |-> sb.sig, version |-> 1]
    PROVE  RowInv(y) /\ y.key = k
  BY DEF ModelInv, Accepted, RowInv, Row, ReasonFits

LEMMA DriftedModel ==
    ASSUME NEW sb, ModelInv(sb), NEW y,
           y = [sb EXCEPT !.status = "failed", !.reason = "nondeterministic_output"]
    PROVE  ModelInv(y) /\ y.packages = sb.packages
<1>1. PICK a : a = [sb EXCEPT !.status = "failed"]
  OBVIOUS
<1>2. y = [a EXCEPT !.reason = "nondeterministic_output"]
  BY <1>1
<1>3. a \in Accepted /\ a.status = "failed" /\ a.packages = sb.packages /\ a.fp = sb.fp
  BY <1>1 DEF ModelInv, Accepted, Statuses
<1>4. y \in Accepted /\ y.status = "failed" /\ y.packages = sb.packages /\ y.fp = sb.fp
      /\ y.reason = "nondeterministic_output"
  BY <1>2, <1>3 DEF Accepted, Reasons
<1> QED
  BY <1>4 DEF ModelInv, ReasonFits

(* An update keeps the row's key, and its packages too when the model has  *)
(* none of its own and its failure is the image's.                         *)
LEMMA UpdatedRowFits ==
    ASSUME NEW ex, RowInv(ex), NEW sb0, ModelInv(sb0), NEW y, y = UpdatedRow(ex, sb0)
    PROVE  /\ RowInv(y) /\ y.key = ex.key /\ y.deleted = ex.deleted
           /\ (sb0.packages = "none" /\ sb0.status = "failed" /\ sb0.reason = "pull_error")
              => y.packages = ex.packages
<1>sb. PICK sb : sb = IF Drifted(ex, sb0)
                      THEN [sb0 EXCEPT !.status = "failed", !.reason = "nondeterministic_output"]
                      ELSE sb0
  OBVIOUS
<1>1. ModelInv(sb) /\ sb.packages = sb0.packages
  BY <1>sb, DriftedModel
<1>2. sb0.packages = "none" => sb = sb0
  BY <1>sb DEF Drifted, ModelInv
<1>k. PICK keep : keep = preserveExistingSnapshot(ex, sb)
  OBVIOUS
<1>v. PICK st, re, pk, fp :
        /\ st = (IF keep THEN ex.status ELSE sb.status) /\ re = (IF keep THEN ex.reason ELSE sb.reason)
        /\ pk = (IF keep THEN ex.packages ELSE sb.packages) /\ fp = (IF keep THEN ex.fp ELSE sb.fp)
  OBVIOUS
<1>3. /\ st \in Statuses /\ pk \in Packages /\ fp = pk
      /\ re \in Reasons
      /\ re = "nondeterministic_output" => st = "failed"
      /\ st = "failed" => re \in {"pull_error", "nondeterministic_output"}
      /\ st = "complete" => pk # "none"
  BY <1>v, <1>1 DEF RowInv, Row, ModelInv, Accepted, ReasonFits
<1>4. (sb0.packages = "none" /\ sb0.status = "failed" /\ sb0.reason = "pull_error")
      => pk = ex.packages
  BY <1>1, <1>2, <1>k, <1>v DEF preserveExistingSnapshot
<1>5. y = [ex EXCEPT !.version = @ + 1, !.sig = sb.sig, !.status = st, !.reason = re,
                     !.packages = pk, !.fp = fp]
  BY <1>sb, <1>k, <1>v DEF UpdatedRow
<1>a. PICK a, b, c, d : a = [ex EXCEPT !.version = @ + 1] /\ b = [a EXCEPT !.sig = sb.sig]
                        /\ c = [b EXCEPT !.status = st] /\ d = [c EXCEPT !.reason = re]
  OBVIOUS
<1>6. y = [[d EXCEPT !.packages = pk] EXCEPT !.fp = fp]
  BY <1>5, <1>a
<1>7. a \in Row /\ a.key = ex.key /\ a.deleted = ex.deleted
  BY <1>a DEF Row, RowInv
<1>8. b \in Row /\ b.key = ex.key /\ b.deleted = ex.deleted
  <2>1. sb.sig \in Sigs
    BY <1>1 DEF ModelInv, Accepted
  <2> QED
    BY <1>a, <1>7, <2>1 DEF Row
<1>9. c \in Row /\ c.key = ex.key /\ c.deleted = ex.deleted /\ c.status = st
  BY <1>a, <1>8, <1>3 DEF Row
<1>10. d \in Row /\ d.key = ex.key /\ d.deleted = ex.deleted /\ d.status = st /\ d.reason = re
  BY <1>a, <1>9, <1>3 DEF Row
<1>11. y \in Row /\ y.key = ex.key /\ y.deleted = ex.deleted /\ y.status = st /\ y.reason = re
       /\ y.packages = pk /\ y.fp = fp
  BY <1>6, <1>10, <1>3 DEF Row
<1> QED
  BY <1>3, <1>4, <1>11 DEF RowInv, ReasonFits

(* The table never loses a row, nor a row its container. *)
RowsKept == \A i \in DOMAIN rows : i \in DOMAIN rows' /\ rows'[i].key = rows[i].key

LEMMA HasRowKept == ASSUME RowsKept, NEW k, HasRow(k) PROVE HasRow(k)'
  BY DEF RowsKept, HasRow

LEMMA AcceptedUpsert ==
    ASSUME RowsInv, NEW k \in Keys, NEW sb, ModelInv(sb), UpsertSBOMWithComponents(k, sb)
    PROVE  /\ RowsInv' /\ RowsKept /\ HasRow(k)'
           /\ UpsertedID(k) \in Nat
           /\ (sb.packages = "none" /\ sb.status = "failed" /\ sb.reason = "pull_error")
              => \A i \in DOMAIN rows : rows'[i].packages = rows[i].packages
<1>1. CASE Live(k) # {}
  <2>i. PICK i : i = CHOOSE j \in Live(k) : TRUE
    OBVIOUS
  <2>1. i \in Live(k)
    BY <1>1, <2>i
  <2>2. i \in DOMAIN rows /\ rows[i].key = k /\ i \in Nat
    BY <2>1 DEF Live, RowsInv
  <2>y. PICK y : y = UpdatedRow(rows[i], sb)
    OBVIOUS
  <2>3. rows' = [rows EXCEPT ![i] = y]
    BY <1>1, <2>i, <2>y DEF UpsertSBOMWithComponents
  <2>4. /\ RowInv(y) /\ y.key = rows[i].key
        /\ (sb.packages = "none" /\ sb.status = "failed" /\ sb.reason = "pull_error")
           => y.packages = rows[i].packages
    BY <2>2, <2>y, UpdatedRowFits DEF RowsInv
  <2>5. y \in Row
    BY <2>4 DEF RowInv
  <2>6. DOMAIN rows' = DOMAIN rows /\ rows'[i] = y /\ rows' \in Seq(Row)
        /\ \A j \in DOMAIN rows \ {i} : rows'[j] = rows[j]
    BY <2>2, <2>3, <2>5 DEF RowsInv
  <2>7. RowsInv'
    BY <2>4, <2>6 DEF RowsInv
  <2>8. UpsertedID(k) = i
    BY <1>1, <2>i DEF UpsertedID
  <2> QED
    BY <2>2, <2>4, <2>6, <2>7, <2>8 DEF RowsKept, HasRow
<1>2. CASE Live(k) = {}
  <2>y. PICK y : y = [key |-> k, deleted |-> FALSE, status |-> sb.status, reason |-> sb.reason,
                      packages |-> sb.packages, fp |-> sb.fp, sig |-> sb.sig, version |-> 1]
    OBVIOUS
  <2>1. rows' = Append(rows, y)
    BY <1>2, <2>y DEF UpsertSBOMWithComponents, InsertSBOM
  <2>2. RowInv(y) /\ y.key = k
    BY <2>y, InsertedRow
  <2>3. y \in Row
    BY <2>2 DEF RowInv
  <2>4. rows' \in Seq(Row) /\ DOMAIN rows' = 1 .. Len(rows) + 1 /\ DOMAIN rows = 1 .. Len(rows)
        /\ rows'[Len(rows) + 1] = y /\ Len(rows) \in Nat
        /\ \A i \in DOMAIN rows : rows'[i] = rows[i]
    BY <2>1, <2>3 DEF RowsInv
  <2>5. RowsInv'
    BY <2>2, <2>4 DEF RowsInv
  <2>6. UpsertedID(k) = Len(rows) + 1
    BY <1>2 DEF UpsertedID
  <2>7. RowsKept
    BY <2>4 DEF RowsKept
  <2>8. HasRow(k)'
    BY <2>2, <2>4 DEF HasRow
  <2> QED
    BY <2>4, <2>5, <2>6, <2>7, <2>8
<1> QED
  BY <1>1, <1>2

LEMMA RowsDeleted ==
    ASSUME RowsInv, NEW ids, DeleteRows(ids)
    PROVE  RowsInv' /\ RowsKept
<1>1. ASSUME NEW i \in DOMAIN rows
      PROVE  i \in DOMAIN rows' /\ RowInv(rows'[i]) /\ rows'[i].key = rows[i].key
  <2>x. PICK x : x = rows[i]
    OBVIOUS
  <2>1. x \in Row /\ RowInv(x)
    BY <2>x DEF RowsInv
  <2>2. RowInv([x EXCEPT !.deleted = TRUE]) /\ [x EXCEPT !.deleted = TRUE].key = x.key
    BY <2>1 DEF RowInv, Row, ReasonFits
  <2>3. rows'[i] = [x EXCEPT !.deleted = TRUE] \/ rows'[i] = x
    BY <2>x DEF DeleteRows
  <2> QED
    BY <2>x, <2>1, <2>2, <2>3 DEF DeleteRows
<1>2. PICK n \in Nat : DOMAIN rows = 1 .. n
  BY DEF RowsInv
<1>3. rows' = [i \in 1 .. n |-> rows'[i]] /\ DOMAIN rows' = 1 .. n
  BY <1>2 DEF DeleteRows
<1>4. rows' \in Seq(Row)
  BY <1>1, <1>2, <1>3 DEF RowInv
<1> QED
  BY <1>1, <1>2, <1>3, <1>4 DEF RowsInv, RowsKept

LEMMA StoreInvHandler ==
    ASSUME StoreInv, RowsInv', RowsKept, NEW h \in Handlers, NEW y, HandlerInv(y),
           Answered(y) => HasRow(y.key)', handler' = [handler EXCEPT ![h] = y]
    PROVE  StoreInv'
<1>1. y \in HandlerRec
  BY DEF HandlerInv
<1>2. handler' \in [Handlers -> HandlerRec] /\ handler'[h] = y
      /\ \A g \in Handlers \ {h} : handler'[g] = handler[g]
  BY <1>1 DEF StoreInv
<1>3. ASSUME NEW g \in Handlers, Answered(handler'[g])
      PROVE  \E i \in DOMAIN rows' : rows'[i].key = handler'[g].key
  <2>1. CASE g = h
    BY <1>2, <1>3, <2>1 DEF HasRow
  <2>2. CASE g # h
    BY <1>2, <1>3, <2>2 DEF StoreInv, HasRow, RowsKept
  <2> QED
    BY <2>1, <2>2
<1>4. \A g \in Handlers : HandlerInv(handler'[g])
  BY <1>2 DEF StoreInv
<1> QED
  BY <1>2, <1>3, <1>4 DEF StoreInv, HasRow

LEMMA FreeHandler == HandlerInv(Free) /\ ~Answered(Free)
  BY DEF Free, NoOld, HandlerInv, HandlerRec, Old, Answered

LEMMA ReplyEffect ==
    ASSUME StoreInv, NEW h \in Handlers, handler[h].pc # "free",
           NEW err \in {"nil", "transient", "fatal", "duplicate"}, Reply(h, err)
    PROVE  \E y : /\ HandlerInv(y) /\ handler' = [handler EXCEPT ![h] = y]
                  /\ y.pc = "reply" /\ y.reply = err /\ y.key = handler[h].key
<1>x. PICK x : x = handler[h]
  OBVIOUS
<1>a. PICK a : a = [x EXCEPT !.pc = "reply"]
  OBVIOUS
<1>y. PICK y : y = [a EXCEPT !.reply = err]
  OBVIOUS
<1>1. x \in HandlerRec /\ x.key \in Keys /\ x.req \in Extraction /\ HandlerInv(x)
  BY <1>x DEF StoreInv, HandlerInv
<1>2. a \in HandlerRec /\ a.pc = "reply" /\ a.key = x.key /\ a.req = x.req /\ a.old = x.old
  BY <1>1, <1>a DEF HandlerRec
<1>3. y \in HandlerRec /\ y.pc = "reply" /\ y.reply = err /\ y.key = x.key /\ y.req = x.req
      /\ y.old = x.old
  BY <1>2, <1>y DEF HandlerRec
<1>4. handler' = [handler EXCEPT ![h] = y]
  BY <1>x, <1>a, <1>y DEF Reply, StoreInv
<1>5. HandlerInv(y)
  BY <1>1, <1>3 DEF HandlerInv
<1> QED
  BY <1>x, <1>3, <1>4, <1>5

LEMMA SameRows == ASSUME RowsInv, UNCHANGED rows PROVE RowsInv' /\ RowsKept
  BY DEF RowsInv, RowsKept

LEMMA StoreInvReply ==
    ASSUME StoreInv, NEW h \in Handlers, handler[h].pc # "free", UNCHANGED rows,
           NEW err \in {"nil", "transient", "fatal", "duplicate"}, Reply(h, err),
           err = "nil" => HasRow(handler[h].key)
    PROVE  StoreInv'
<1>1. PICK y : /\ HandlerInv(y) /\ handler' = [handler EXCEPT ![h] = y]
               /\ y.pc = "reply" /\ y.reply = err /\ y.key = handler[h].key
  BY ReplyEffect
<1>2. RowsInv' /\ RowsKept
  BY SameRows DEF StoreInv
<1>3. Answered(y) => HasRow(y.key)'
  BY <1>1, <1>2, HasRowKept DEF Answered
<1> QED
  BY <1>1, <1>2, <1>3, StoreInvHandler

LEMMA StoreInvReceive ==
    ASSUME StoreInv, NEW h \in Handlers, NEW k \in Keys, NEW req \in Extraction, Receive(h, k, req)
    PROVE  StoreInv'
<1>a. PICK a, b, y : a = [Free EXCEPT !.pc = "read"] /\ b = [a EXCEPT !.key = k]
                     /\ y = [b EXCEPT !.req = req]
  OBVIOUS
<1>1. handler' = [handler EXCEPT ![h] = y] /\ UNCHANGED rows
  BY <1>a DEF Receive
<1>2. Free \in HandlerRec /\ Free.old = NoOld
  BY FreeHandler DEF HandlerInv, Free
<1>3. a \in HandlerRec /\ a.pc = "read" /\ a.old = NoOld
  BY <1>2, <1>a DEF HandlerRec
<1>4. b \in HandlerRec /\ b.pc = "read" /\ b.old = NoOld /\ b.key = k
  BY <1>3, <1>a DEF HandlerRec
<1>5. y \in HandlerRec /\ y.pc = "read" /\ y.old = NoOld /\ y.key = k /\ y.req = req
  BY <1>4, <1>a DEF HandlerRec
<1>6. HandlerInv(y) /\ ~Answered(y)
  <2>1. ~NoOld.found /\ NoOld.status = "" /\ NoOld.reason = ""
    BY DEF NoOld
  <2> QED
    BY <1>5, <2>1 DEF HandlerInv, Answered
<1> QED
  BY <1>1, <1>6, SameRows, StoreInvHandler DEF StoreInv

LEMMA StoreInvRead ==
    ASSUME StoreInv, NEW h \in Handlers, ReadExisting(h)
    PROVE  StoreInv'
<1>x. PICK x : x = handler[h]
  OBVIOUS
<1>i. PICK i : i = CHOOSE j \in Live(x.key) : TRUE
  OBVIOUS
<1>o. PICK old : old = IF Live(x.key) = {} THEN NoOld
                       ELSE [found |-> TRUE, status |-> rows[i].status, reason |-> rows[i].reason]
  OBVIOUS
<1>0. UNCHANGED rows /\ x.pc = "read" /\ HandlerInv(x)
  BY <1>x DEF ReadExisting, StoreInv
<1>1. IF x.req.packages = "none" /\ old.status \in {"complete", "partial"}
      THEN Reply(h, "nil")
      ELSE handler' = [handler EXCEPT ![h].pc = "store", ![h].old = old]
  BY <1>x, <1>i, <1>o DEF ReadExisting
<1>2. Live(x.key) # {} => i \in DOMAIN rows /\ rows[i].key = x.key
  <2>1. Live(x.key) # {} => i \in Live(x.key)
    BY <1>i
  <2> QED
    BY <2>1 DEF Live
<1>3. /\ old \in Old
      /\ old.found => Live(x.key) # {} /\ old.status # "" /\ old.reason # "" /\ ReasonFits(old)
      /\ ~old.found => old.status = "" /\ old.reason = ""
  <2>1. CASE Live(x.key) = {}
    BY <1>o, <2>1 DEF NoOld, Old
  <2>2. CASE Live(x.key) # {}
    <3>1. RowInv(rows[i])
      BY <1>2, <2>2 DEF StoreInv, RowsInv
    <3>2. rows[i].status \in Statuses /\ rows[i].reason \in Reasons /\ ReasonFits(rows[i])
      BY <3>1 DEF RowInv, Row
    <3>3. PICK s \in Statuses, r \in Reasons : s = rows[i].status /\ r = rows[i].reason
      BY <3>2
    <3>4. old = [found |-> TRUE, status |-> s, reason |-> r]
      BY <1>o, <2>2, <3>3
    <3> QED
      BY <2>2, <3>2, <3>3, <3>4 DEF Old, ReasonFits, Statuses, Reasons
  <2> QED
    BY <2>1, <2>2
<1>4. CASE x.req.packages = "none" /\ old.status \in {"complete", "partial"}
  <2>1. HasRow(x.key)
    BY <1>2, <1>3, <1>4 DEF HasRow, Old
  <2> QED
    BY <1>0, <1>1, <1>4, <1>x, <2>1, StoreInvReply
<1>5. CASE ~(x.req.packages = "none" /\ old.status \in {"complete", "partial"})
  <2>a. PICK a : a = [x EXCEPT !.pc = "store"]
    OBVIOUS
  <2>y. PICK y : y = [a EXCEPT !.old = old]
    OBVIOUS
  <2>1. x \in HandlerRec /\ x.key \in Keys /\ x.req \in Extraction
    BY <1>0 DEF HandlerInv
  <2>2. a \in HandlerRec /\ a.pc = "store" /\ a.key = x.key /\ a.req = x.req
    BY <2>1, <2>a DEF HandlerRec
  <2>3. y \in HandlerRec /\ y.pc = "store" /\ y.key = x.key /\ y.req = x.req /\ y.old = old
    BY <1>3, <2>2, <2>y DEF HandlerRec
  <2>4. handler' = [handler EXCEPT ![h] = y]
    BY <1>1, <1>5, <1>x, <2>a, <2>y DEF StoreInv
  <2>5. HandlerInv(y) /\ ~Answered(y)
    BY <1>3, <1>5, <2>1, <2>3 DEF HandlerInv, Answered, Old
  <2> QED
    BY <1>0, <2>4, <2>5, SameRows, StoreInvHandler DEF StoreInv
<1> QED
  BY <1>4, <1>5

(* A transaction that goes through, and what it leaves of the packages. *)
LEMMA StoreAccepted ==
    ASSUME StoreInv, NEW h \in Handlers, StoreSBOM(h),
           UpsertAccepts(handler[h].key, sbomModel(handler[h].req, handler[h].old))
    PROVE  /\ StoreInv' /\ RowsKept
           /\ handler'[h].pc = "publish" /\ handler'[h].key = handler[h].key
           /\ \A g \in Handlers \ {h} : handler'[g] = handler[g]
           /\ (handler[h].req.packages = "none" /\ handler[h].old.reason # "nondeterministic_output")
              => \A i \in DOMAIN rows : rows'[i].packages = rows[i].packages
<1>x. PICK x, sb : x = handler[h] /\ sb = sbomModel(x.req, x.old)
  OBVIOUS
<1>0. HandlerInv(x) /\ x.pc = "store" /\ x \in HandlerRec /\ x.key \in Keys /\ x.req \in Extraction
  BY <1>x DEF StoreSBOM, StoreInv, HandlerInv
<1>1. sb.status = "complete" => sb.packages # "none"
  BY <1>x DEF UpsertAccepts
<1>2. /\ ModelInv(sb)
      /\ x.req.packages = "none" => sb.packages = "none"
      /\ (x.req.packages = "none" /\ x.old.reason # "nondeterministic_output")
         => sb.status = "failed" /\ sb.reason = "pull_error"
  BY <1>0, <1>1, <1>x, ModelIsAccepted
<1>3. UpsertSBOMWithComponents(x.key, sb)
  BY <1>x DEF StoreSBOM
<1>4. /\ RowsInv' /\ RowsKept /\ HasRow(x.key)' /\ UpsertedID(x.key) \in Nat
      /\ (sb.packages = "none" /\ sb.status = "failed" /\ sb.reason = "pull_error")
         => \A i \in DOMAIN rows : rows'[i].packages = rows[i].packages
  BY <1>0, <1>2, <1>3, AcceptedUpsert DEF StoreInv
<1>a. PICK a, n : a = [x EXCEPT !.pc = "publish"] /\ n = UpsertedID(x.key)
  OBVIOUS
<1>y. PICK y : y = [a EXCEPT !.row = n]
  OBVIOUS
<1>5. a \in HandlerRec /\ a.pc = "publish" /\ a.key = x.key /\ a.req = x.req /\ a.old = x.old
  BY <1>0, <1>a DEF HandlerRec
<1>6. y \in HandlerRec /\ y.pc = "publish" /\ y.key = x.key /\ y.req = x.req /\ y.old = x.old
  BY <1>4, <1>5, <1>a, <1>y DEF HandlerRec
<1>7. handler' = [handler EXCEPT ![h] = y]
  BY <1>a, <1>x, <1>y DEF StoreSBOM, StoreInv
<1>8. HandlerInv(y)
  BY <1>0, <1>6 DEF HandlerInv
<1>9. StoreInv'
  BY <1>4, <1>6, <1>7, <1>8, StoreInvHandler
<1>10. handler'[h] = y /\ \A g \in Handlers \ {h} : handler'[g] = handler[g]
  BY <1>7 DEF StoreInv
<1> QED
  BY <1>2, <1>4, <1>6, <1>9, <1>10, <1>x

LEMMA StoreInvSteps ==
    ASSUME StoreInv, NEW h \in Handlers, HandlerSteps(h)
    PROVE  StoreInv'
<1>1. ASSUME NEW k \in Keys, NEW x \in Extraction, Receive(h, k, x) PROVE StoreInv'
  BY <1>1, StoreInvReceive
<1>2. CASE ReadExisting(h)
  BY <1>2, StoreInvRead
<1>3. CASE StoreSBOM(h)
  <2>1. CASE UpsertAccepts(handler[h].key, sbomModel(handler[h].req, handler[h].old))
    BY <1>3, <2>1, StoreAccepted
  <2>2. CASE ~UpsertAccepts(handler[h].key, sbomModel(handler[h].req, handler[h].old))
    <3>1. Reply(h, "fatal") /\ UNCHANGED rows /\ handler[h].pc # "free"
      BY <1>3, <2>2 DEF StoreSBOM
    <3> QED
      BY <3>1, StoreInvReply
  <2> QED
    BY <2>1, <2>2
<1>4. CASE StoreFails(h)
  <2>1. PICK err \in {"fatal", "duplicate"} : Reply(h, err) /\ UNCHANGED rows /\ handler[h].pc # "free"
    BY <1>4 DEF StoreFails
  <2> QED
    BY <2>1, StoreInvReply
<1>5. CASE Published(h)
  <2>1. Reply(h, "nil") /\ UNCHANGED rows /\ handler[h].pc = "publish"
    BY <1>5 DEF Published
  <2>2. HasRow(handler[h].key)
    BY <2>1 DEF StoreInv, Answered
  <2> QED
    BY <2>1, <2>2, StoreInvReply
<1>6. CASE Done(h)
  BY <1>6, FreeHandler, SameRows, StoreInvHandler DEF Done, StoreInv
<1>7. ASSUME NEW err \in {"transient", "fatal"}, Refuse(h, err) PROVE StoreInv'
  <2>1. Reply(h, err) /\ UNCHANGED rows /\ handler[h].pc # "free" /\ err # "nil"
    BY <1>7 DEF Refuse
  <2> QED
    BY <2>1, StoreInvReply
<1> QED
  BY <1>1, <1>2, <1>3, <1>4, <1>5, <1>6, <1>7 DEF HandlerSteps

LEMMA StoreInvNext == LeftInv /\ QueueInv /\ StoreInv /\ [Next]_vars => StoreInv'
<1> SUFFICES ASSUME LeftInv, QueueInv, StoreInv, [Next]_vars PROVE StoreInv'
  OBVIOUS
<1>1. CASE UNCHANGED storeVars
  BY <1>1 DEF storeVars, StoreInv, RowsInv, HasRow
<1>2. CASE HandlersLost
  <2>1. RowsInv'
    BY <1>2, SameRows DEF HandlersLost, StoreInv
  <2>2. \A h \in Handlers : handler'[h] = Free
    BY <1>2 DEF HandlersLost
  <2>3. handler' \in [Handlers -> HandlerRec]
    BY <1>2, FreeHandler DEF HandlersLost, HandlerInv
  <2> QED
    BY <2>1, <2>2, <2>3, FreeHandler DEF StoreInv
<1>3. CASE Deletes
  <2>1. PICK ids : DeleteRows(ids)
    BY <1>3 DEF Deletes
  <2>2. RowsInv' /\ RowsKept
    BY <2>1, RowsDeleted DEF StoreInv
  <2> QED
    BY <1>3, <2>2 DEF Deletes, StoreInv, RowsKept, HasRow
<1>4. CASE UNCHANGED vars
  BY <1>1, <1>4 DEF vars
<1> QED
  BY <1>1, <1>2, <1>3, <1>4, StepOfStore, StoreInvSteps

BaseInv == LeftInv /\ QueueInv /\ StoreInv

LEMMA BaseInvInit == Init => BaseInv
<1> SUFFICES ASSUME Init PROVE BaseInv
  OBVIOUS
<1>1. QueueInv
  BY IdleWorker, QueueAssumption DEF Init, NewWorkQueue, QueueInv, WorkerInv
<1>2. StoreInv
  <2>1. RowsInv
    BY DEF Init, StoreInit, RowsInv
  <2>2. handler = [h \in Handlers |-> Free] /\ Free \in HandlerRec
    BY FreeHandler DEF Init, StoreInit, HandlerInv
  <2> QED
    BY <2>1, <2>2, FreeHandler DEF StoreInv
<1> QED
  BY <1>1, <1>2, LeftInvInit DEF BaseInv

LEMMA BaseInvNext == BaseInv /\ [Next]_vars => BaseInv'
  BY LeftInvNext, QueueInvNext, StoreInvNext DEF BaseInv

(* A complete row has the packages whose fingerprint it carries, and a row *)
(* that was nondeterministic is failed, whatever requests of one container *)
(* overlap: each may act on a status that the other has changed since.     *)
THEOREM TrustedRowsAreWholeTheorem == Spec => []TrustedRowsAreWhole
<1>1. BaseInv => TrustedRowsAreWhole
  BY DEF BaseInv, StoreInv, RowsInv, RowInv, ReasonFits, TrustedRowsAreWhole
<1> QED
  BY <1>1, BaseInvInit, BaseInvNext, PTL DEF Spec

LEMMA SnapshotKeptStep ==
    ASSUME BaseInv, [Next]_vars, NEW h \in Handlers,
           handler[h].pc = "store", handler'[h].pc = "publish",
           handler[h].req.packages = "none",
           handler[h].old.reason # "nondeterministic_output"
    PROVE  \A i \in DOMAIN rows : rows'[i].packages = rows[i].packages
<1>0. StoreInv /\ DOMAIN handler = Handlers /\ handler[h] \in HandlerRec
  BY DEF BaseInv, StoreInv
<1>1. handler'[h].pc # handler[h].pc
  OBVIOUS
<1>2. ASSUME NEW g \in Handlers, HandlerSteps(g), g # h PROVE FALSE
  <2>a. ASSUME NEW err, Reply(g, err) PROVE handler'[h] = handler[h]
    BY <1>0, <1>2, <2>a DEF Reply
  <2>1. ASSUME NEW k \in Keys, NEW x \in Extraction, Receive(g, k, x) PROVE handler'[h] = handler[h]
    BY <1>0, <1>2, <2>1 DEF Receive
  <2>2. CASE ReadExisting(g)
    BY <1>0, <1>2, <2>2, <2>a DEF ReadExisting
  <2>3. CASE StoreSBOM(g)
    BY <1>0, <1>2, <2>3, <2>a DEF StoreSBOM
  <2>4. CASE StoreFails(g) \/ Published(g)
    BY <2>4, <2>a DEF StoreFails, Published
  <2>5. CASE Done(g)
    BY <1>0, <1>2, <2>5 DEF Done
  <2>6. ASSUME NEW err, Refuse(g, err) PROVE handler'[h] = handler[h]
    BY <2>6, <2>a DEF Refuse
  <2> QED
    BY <1>1, <1>2, <2>1, <2>2, <2>3, <2>4, <2>5, <2>6 DEF HandlerSteps
<1>3. CASE HandlerSteps(h)
  <2>1. CASE StoreSBOM(h)
    <3>1. CASE UpsertAccepts(handler[h].key, sbomModel(handler[h].req, handler[h].old))
      BY <1>0, <2>1, <3>1, StoreAccepted
    <3>2. CASE ~UpsertAccepts(handler[h].key, sbomModel(handler[h].req, handler[h].old))
      BY <2>1, <3>2 DEF StoreSBOM
    <3> QED
      BY <3>1, <3>2
  <2>2. CASE StoreFails(h)
    BY <2>2 DEF StoreFails
  <2> QED
    BY <1>3, <2>1, <2>2 DEF HandlerSteps, Receive, ReadExisting, Published, Done, Refuse
<1>4. CASE HandlersLost
  BY <1>4 DEF HandlersLost
<1>5. CASE Deletes \/ UNCHANGED storeVars \/ UNCHANGED vars
  BY <1>1, <1>5 DEF Deletes, storeVars, vars
<1> QED
  BY <1>2, <1>3, <1>4, <1>5, StepOfStore DEF BaseInv

(* A request without packages leaves the stored packages as they are, as   *)
(* SnapshotKept says, although the status it read may be out of date.      *)
THEOREM SnapshotKeptTheorem == Spec => SnapshotKept
<1> DEFINE Kept == \A h \in Handlers :
                     (/\ handler[h].pc = "store" /\ handler'[h].pc = "publish"
                      /\ handler[h].req.packages = "none"
                      /\ handler[h].old.reason # "nondeterministic_output")
                     => \A i \in DOMAIN rows : rows'[i].packages = rows[i].packages
<1>1. BaseInv /\ [Next]_vars => [Kept]_storeVars
  BY SnapshotKeptStep
<1> HIDE DEF Kept
<1>2. BaseInv /\ [][Next]_vars => [][Kept]_storeVars
  BY <1>1, BaseInvNext, PTL
<1>3. Spec => [][Kept]_storeVars
  BY <1>2, BaseInvInit, PTL DEF Spec
<1> QED
  BY <1>3 DEF SnapshotKept, Kept

----------------------------------------------------------------------------
(* From a worker's call to the Pod that is counted as done.                *)

(* The handler a worker waits for works on the first container it has left *)
(* to send, and no two workers wait for the same one.                      *)
CallIsFor(w) ==
    worker[w].call # 0 => /\ handler[worker[w].call].pc # "free"
                          /\ handler[worker[w].call].key = Head(worker[w].todo)

(* A container that is stored, or of which Core said "duplicate key". *)
Settled(k) == HasRow(k) \/ k \in duplicates

(* Without an error so far, what a worker no longer has to send is settled. *)
SentIsStored(w) ==
    worker[w].pc # "idle" /\ worker[w].errs = {} =>
        \A k \in ToSet(Containers[worker[w].pod]) : k \in ToSet(worker[w].todo) \/ Settled(k)

CallInv ==
    /\ \A w \in Workers : CallIsFor(w) /\ SentIsStored(w)
    /\ \A v, w \in Workers : v # w /\ worker[v].call # 0 => worker[v].call # worker[w].call
    /\ SucceededIsStored

(* The steps inside a handler: it stays busy with its container. *)
HandlerGoesOn(h) ==
    \/ ReadExisting(h) \/ StoreSBOM(h) \/ StoreFails(h) \/ Published(h)
    \/ \E err \in {"transient", "fatal"} : Refuse(h, err)

LEMMA ReplyGoesOn ==
    ASSUME StoreInv, NEW h \in Handlers, handler[h].pc # "free",
           NEW err \in {"nil", "transient", "fatal", "duplicate"}, Reply(h, err), NEW g \in Handlers,
           handler[g].pc # "free"
    PROVE  handler'[g].pc # "free" /\ handler'[g].key = handler[g].key
<1>1. PICK y : /\ handler' = [handler EXCEPT ![h] = y] /\ y.pc = "reply" /\ y.key = handler[h].key
  BY ReplyEffect
<1> QED
  BY <1>1 DEF StoreInv

LEMMA GoesOn ==
    ASSUME StoreInv, NEW h \in Handlers, HandlerGoesOn(h), NEW g \in Handlers, handler[g].pc # "free"
    PROVE  handler'[g].pc # "free" /\ handler'[g].key = handler[g].key
<1>1. CASE ReadExisting(h)
  <2>1. CASE Reply(h, "nil")
    BY <1>1, <2>1, ReplyGoesOn DEF ReadExisting
  <2>2. ASSUME NEW old, handler' = [handler EXCEPT ![h].pc = "store", ![h].old = old]
        PROVE  handler'[g].pc # "free" /\ handler'[g].key = handler[g].key
    <3>x. PICK x : x = handler[h]
      OBVIOUS
    <3>y. PICK y : y = [[x EXCEPT !.pc = "store"] EXCEPT !.old = old]
      OBVIOUS
    <3>1. x \in HandlerRec
      BY <3>x DEF StoreInv
    <3>2. y.pc = "store" /\ y.key = x.key
      BY <3>1, <3>y DEF HandlerRec
    <3>3. handler' = [handler EXCEPT ![h] = y]
      BY <2>2, <3>x, <3>y DEF StoreInv
    <3> QED
      BY <3>x, <3>2, <3>3 DEF StoreInv
  <2> QED
    BY <1>1, <2>1, <2>2 DEF ReadExisting
<1>2. CASE StoreSBOM(h)
  <2>1. CASE UpsertAccepts(handler[h].key, sbomModel(handler[h].req, handler[h].old))
    BY <1>2, <2>1, StoreAccepted
  <2>2. CASE ~UpsertAccepts(handler[h].key, sbomModel(handler[h].req, handler[h].old))
    <3>1. Reply(h, "fatal") /\ handler[h].pc # "free"
      BY <1>2, <2>2 DEF StoreSBOM
    <3> QED
      BY <3>1, ReplyGoesOn
  <2> QED
    BY <2>1, <2>2
<1>3. CASE StoreFails(h) \/ Published(h)
  <2>1. PICK err \in {"nil", "fatal", "duplicate"} : handler[h].pc # "free" /\ Reply(h, err)
    BY <1>3 DEF StoreFails, Published
  <2> QED
    BY <2>1, ReplyGoesOn
<1>4. ASSUME NEW err \in {"transient", "fatal"}, Refuse(h, err)
      PROVE  handler'[g].pc # "free" /\ handler'[g].key = handler[g].key
  <2>1. handler[h].pc # "free" /\ Reply(h, err)
    BY <1>4 DEF Refuse
  <2> QED
    BY <2>1, ReplyGoesOn
<1> QED
  BY <1>1, <1>2, <1>3, <1>4 DEF HandlerGoesOn

LEMMA RowsKeptStep == ASSUME BaseInv, [Next]_vars PROVE RowsKept
<1>0. StoreInv /\ RowsInv
  BY DEF BaseInv, StoreInv
<1>1. CASE UNCHANGED rows
  BY <1>0, <1>1, SameRows
<1>2. ASSUME NEW h \in Handlers, HandlerSteps(h) PROVE RowsKept
  <2>1. CASE StoreSBOM(h)
    <3>1. CASE UpsertAccepts(handler[h].key, sbomModel(handler[h].req, handler[h].old))
      BY <1>0, <2>1, <3>1, StoreAccepted
    <3>2. CASE ~UpsertAccepts(handler[h].key, sbomModel(handler[h].req, handler[h].old))
      BY <1>1, <2>1, <3>2 DEF StoreSBOM
    <3> QED
      BY <3>1, <3>2
  <2> QED
    BY <1>1, <1>2, <2>1 DEF HandlerSteps, Receive, ReadExisting, StoreFails, Published, Done, Refuse
<1>3. CASE Deletes
  BY <1>0, <1>3, RowsDeleted DEF Deletes
<1>4. CASE HandlersLost \/ UNCHANGED storeVars \/ UNCHANGED vars
  BY <1>1, <1>4 DEF HandlersLost, storeVars, vars
<1> QED
  BY <1>2, <1>3, <1>4, StepOfStore DEF BaseInv

LEMMA StepOfCalls ==
    ASSUME Next, LeftInv
    PROVE  \/ UNCHANGED <<queueVars, handler>>
           \/ QueueActs /\ UNCHANGED storeVars
           \/ \E w \in Workers : SendSBOMFinding(w) \/ CallReturns(w) \/ CallFails(w)
           \/ \E h \in Handlers : AnswerLost(h) \/ (HandlerGoesOn(h) /\ UNCHANGED queueVars)
           \/ CoreDies
<1>1. CASE \E p \in left.who : PodSeen(p) /\ Spend("seen") /\ OnlyQueue
  BY <1>1 DEF LeftInv, QueueActs, OnlyQueue
<1>2. CASE QueueStep
  BY <1>2 DEF QueueStep, QueueActs, OnlyQueue
<1>3. ASSUME NEW h \in Handlers, Handle(h) \/ Publish(h) PROVE HandlerGoesOn(h) /\ UNCHANGED queueVars
  BY <1>3 DEF Handle, Publish, publishSBOMCreatedWithRetry, OnlyStore, HandlerGoesOn
<1>4. CASE Delivery \/ MatchStep \/ MatchFault
  BY <1>4 DEF Delivery, MatchStep, MatchFault, Deliver, SBOMDLQWorker, GetMirrorVersion, ClaimSBOMEvent,
              EnsureMatchRun, MatchSBOMFindings, persistMatches, CompleteMatchRun, MatchFails,
              CheckOnce, Claim, ListSBOMs, queueRematch, ReleaseClaim, RestOfRematch, storeVars
<1>5. CASE (NewGeneration \/ Tick) /\ UNCHANGED queueVars
  BY <1>5 DEF NewGeneration, Tick, storeVars
<1>6. CASE CleanUp
  BY <1>6 DEF CleanUp, SweepRows, SweepPods, SweepDelete, PodTableChanges, RestOfSweep
<1>7. CASE AgentDies
  BY <1>7 DEF AgentDies, QueueActs, OnlyQueue
<1> QED
  BY <1>1, <1>2, <1>3, <1>4, <1>5, <1>6, <1>7 DEF Next

(* What is settled for a worker or a succeeded Pod stays settled. *)
LEMMA SettledKept ==
    ASSUME RowsKept, duplicates \subseteq duplicates', NEW k, Settled(k)
    PROVE  Settled(k)'
  BY HasRowKept DEF Settled

LEMMA SentKept ==
    ASSUME RowsKept, duplicates \subseteq duplicates', NEW w \in Workers, SentIsStored(w), worker'[w].pc # "idle" => worker[w].pc # "idle",
           worker'[w].pod = worker[w].pod, worker'[w].todo = worker[w].todo,
           worker'[w].errs = {} => worker[w].errs = {}
    PROVE  SentIsStored(w)'
<1> SUFFICES ASSUME worker'[w].pc # "idle", worker'[w].errs = {},
                    NEW k \in ToSet(Containers[worker[w].pod]), k \notin ToSet(worker[w].todo)
             PROVE  Settled(k)'
  BY DEF SentIsStored
<1>1. Settled(k)
  BY DEF SentIsStored
<1> QED
  BY <1>1, SettledKept

LEMMA SucceededKept ==
    ASSUME RowsKept, SucceededIsStored, succeeded' \subseteq succeeded, duplicates \subseteq duplicates'
    PROVE  SucceededIsStored'
  BY DEF SucceededIsStored, RowsKept

(* The call of w ends: nobody waits for it any more, and it is settled or  *)
(* it leaves an error.                                                     *)
LEMMA CallInvEnds ==
    ASSUME BaseInv, CallInv, RowsKept, NEW w \in Workers, AtWork(w), OnlyWorker,
           NEW err \in {"nil", "transient", "fatal", "duplicate"}, CallEnds(w, err),
           err = "nil" => HasRow(Head(worker[w].todo)),
           \A h \in Handlers : (\E v \in Workers \ {w} : worker[v].call = h) => handler'[h] = handler[h]
    PROVE  CallInv'
<1>y. PICK y \in WorkerRec :
             /\ worker' = [worker EXCEPT ![w] = y]
             /\ y.pc = worker[w].pc /\ y.pod = worker[w].pod /\ y.todo = Tail(worker[w].todo)
             /\ y.errs = (IF err \in {"nil", "duplicate"} THEN worker[w].errs ELSE worker[w].errs \cup {err})
             /\ y.call = 0
  BY CallEndsEffect DEF BaseInv
<1>1. worker'[w] = y /\ \A v \in Workers \ {w} : worker'[v] = worker[v]
  BY <1>y DEF BaseInv, QueueInv
<1>d. /\ duplicates \subseteq duplicates'
      /\ err = "duplicate" => Head(worker[w].todo) \in duplicates'
  BY DEF CallEnds
<1>2. SentIsStored(w)'
  <2> SUFFICES ASSUME worker'[w].pc # "idle", worker'[w].errs = {},
                      NEW k \in ToSet(Containers[worker'[w].pod]), k \notin ToSet(worker'[w].todo)
               PROVE  Settled(k)'
    BY DEF SentIsStored
  <2>t. PICK t : t = worker[w].todo
    OBVIOUS
  <2>1. t \in Seq(Keys) /\ t # <<>>
    BY <2>t DEF BaseInv, QueueInv, WorkerRec, AtWork
  <2>2. err \in {"nil", "duplicate"} /\ worker[w].errs = {}
    BY <1>y, <1>1
  <2>3. k \in ToSet(t) \/ Settled(k)
    BY <1>1, <1>y, <2>2, <2>t DEF CallInv, SentIsStored
  <2>4. k \in ToSet(t) => k = Head(t) \/ k \in ToSet(Tail(t))
    <3> SUFFICES ASSUME NEW i \in DOMAIN t, k = t[i], i # 1 PROVE t[i] \in ToSet(Tail(t))
      BY <2>1 DEF ToSet
    <3>1. i - 1 \in DOMAIN Tail(t) /\ Tail(t)[i - 1] = t[i]
      BY <2>1
    <3> QED
      BY <3>1 DEF ToSet
  <2>5. k = Head(t) \/ Settled(k)
    BY <1>1, <1>y, <2>3, <2>4, <2>t
  <2>6. CASE Settled(k)
    BY <1>d, <2>6, SettledKept
  <2>7. CASE k = Head(t) /\ err = "nil"
    <3>1. HasRow(k)
      BY <2>7, <2>t
    <3> QED
      BY <3>1, HasRowKept DEF Settled
  <2>8. CASE k = Head(t) /\ err = "duplicate"
    BY <1>d, <2>8, <2>t DEF Settled
  <2> QED
    BY <2>2, <2>5, <2>6, <2>7, <2>8
<1>3. CallIsFor(w)'
  BY <1>1, <1>y DEF CallIsFor
<1>4. ASSUME NEW v \in Workers \ {w} PROVE SentIsStored(v)' /\ CallIsFor(v)'
  <2>1. SentIsStored(v)'
    BY <1>1, <1>4, <1>d, SentKept DEF CallInv
  <2>2. CallIsFor(v)'
    <3>1. worker[v].call \in Handlers \cup {0}
      BY <1>4 DEF BaseInv, QueueInv, WorkerRec
    <3> QED
      BY <1>1, <1>4, <3>1 DEF CallInv, CallIsFor
  <2> QED
    BY <2>1, <2>2
<1>5. \A u, v \in Workers : u # v /\ worker'[u].call # 0 => worker'[u].call # worker'[v].call
  BY <1>1, <1>y DEF CallInv
<1>6. SucceededIsStored'
  BY <1>d, SucceededKept DEF OnlyWorker, CallInv
<1> QED
  BY <1>2, <1>3, <1>4, <1>5, <1>6 DEF CallInv

LEMMA CallInvReturns ==
    ASSUME BaseInv, CallInv, RowsKept, NEW w \in Workers, CallReturns(w)
    PROVE  CallInv'
<1>h. PICK h, err : h = worker[w].call /\ err = handler[h].reply
  OBVIOUS
<1>1. h \in Handlers /\ AtWork(w) /\ h # 0 /\ handler[h].pc = "reply"
  BY <1>h DEF CallReturns, BaseInv, QueueInv, WorkerInv, WorkerRec, AtWork
<1>2. err \in {"nil", "transient", "fatal", "duplicate"}
  BY <1>h, <1>1 DEF BaseInv, StoreInv, HandlerRec
<1>3. CallEnds(w, err) /\ OnlyWorker /\ Done(h)
  BY <1>h DEF CallReturns
<1>4. err = "nil" => HasRow(Head(worker[w].todo))
  <2>1. handler[h].key = Head(worker[w].todo)
    BY <1>h, <1>1 DEF CallInv, CallIsFor
  <2> QED
    BY <1>h, <1>1, <2>1 DEF BaseInv, StoreInv, Answered
<1>5. ASSUME NEW g \in Handlers, NEW v \in Workers \ {w}, worker[v].call = g
      PROVE  handler'[g] = handler[g]
  <2>1. g # h
    BY <1>h, <1>1, <1>5 DEF CallInv
  <2> QED
    BY <1>3, <2>1 DEF Done, BaseInv, StoreInv
<1> QED
  BY <1>1, <1>2, <1>3, <1>4, <1>5, CallInvEnds

LEMMA CallInvFails ==
    ASSUME BaseInv, CallInv, RowsKept, NEW w \in Workers, CallFails(w)
    PROVE  CallInv'
<1>1. AtWork(w) /\ CallEnds(w, "transient") /\ OnlyWorker /\ handler' = handler
  BY DEF CallFails, AtWork, OnlyQueue, storeVars
<1> QED
  BY <1>1, CallInvEnds

LEMMA CallInvSend ==
    ASSUME BaseInv, CallInv, RowsKept, NEW w \in Workers, SendSBOMFinding(w)
    PROVE  CallInv'
<1>h. PICK h \in Handlers, x \in left.kinds : Receive(h, Head(worker[w].todo), x) /\ CallCore(w, h)
  BY DEF SendSBOMFinding
<1>0. AtWork(w) /\ OnlyWorker /\ h # 0 /\ duplicates' = duplicates
  BY <1>h, HandlersPositive DEF SendSBOMFinding, AtWork, CallCore
<1>y. PICK y : /\ worker' = [worker EXCEPT ![w] = y]
               /\ y.pc = worker[w].pc /\ y.pod = worker[w].pod /\ y.todo = worker[w].todo
               /\ y.errs = worker[w].errs /\ y.call = h
  BY <1>h, <1>0, CallCoreEffect DEF BaseInv
<1>1. worker'[w] = y /\ \A v \in Workers \ {w} : worker'[v] = worker[v]
  BY <1>y DEF BaseInv, QueueInv
<1>k. PICK k : k = Head(worker[w].todo)
  OBVIOUS
<1>2. handler[h].pc = "free" /\ handler'[h].pc = "read" /\ handler'[h].key = k
      /\ \A g \in Handlers \ {h} : handler'[g] = handler[g]
  <2>1. handler' = [handler EXCEPT ![h] = [Free EXCEPT !.pc = "read", !.key = k, !.req = x]]
        /\ handler[h].pc = "free"
    BY <1>h, <1>k DEF Receive
  <2>2. LET z == [Free EXCEPT !.pc = "read", !.key = k, !.req = x] IN z.pc = "read" /\ z.key = k
    BY DEF Free
  <2> QED
    BY <2>1, <2>2 DEF BaseInv, StoreInv
<1>3. \A v \in Workers : worker[v].call # h
  BY <1>0, <1>2 DEF CallInv, CallIsFor
<1>4. CallIsFor(w)'
  BY <1>1, <1>y, <1>2, <1>k DEF CallIsFor
<1>5. ASSUME NEW v \in Workers \ {w} PROVE CallIsFor(v)'
  <2>1. worker[v].call \in Handlers \cup {0}
    BY <1>5 DEF BaseInv, QueueInv, WorkerRec
  <2> QED
    BY <1>1, <1>2, <1>3, <1>5, <2>1 DEF CallInv, CallIsFor
<1>6. \A v \in Workers : SentIsStored(v)'
  BY <1>0, <1>1, <1>y, SentKept DEF CallInv
<1>7. \A u, v \in Workers : u # v /\ worker'[u].call # 0 => worker'[u].call # worker'[v].call
  BY <1>1, <1>y, <1>3 DEF CallInv
<1>8. SucceededIsStored'
  BY <1>0, SucceededKept DEF OnlyWorker, CallInv
<1> QED
  BY <1>4, <1>5, <1>6, <1>7, <1>8 DEF CallInv

LEMMA CallInvHandler ==
    ASSUME BaseInv, CallInv, RowsKept, UNCHANGED queueVars,
           \A h \in Handlers, w \in Workers : worker[w].call = h /\ handler[h].pc # "free"
              => handler'[h].pc # "free" /\ handler'[h].key = handler[h].key
    PROVE  CallInv'
<1>1. worker' = worker /\ succeeded' = succeeded /\ duplicates' = duplicates
  BY DEF queueVars
<1>2. ASSUME NEW w \in Workers PROVE CallIsFor(w)'
  <2>1. worker[w].call \in Handlers \cup {0}
    BY <1>2 DEF BaseInv, QueueInv, WorkerRec
  <2> QED
    BY <1>1, <2>1 DEF CallInv, CallIsFor
<1>3. \A w \in Workers : SentIsStored(w)'
  BY <1>1, SentKept DEF CallInv
<1>4. SucceededIsStored'
  BY <1>1, SucceededKept DEF CallInv
<1> QED
  BY <1>1, <1>2, <1>3, <1>4 DEF CallInv

LEMMA CallInvCoreDies ==
    ASSUME BaseInv, CallInv, RowsKept, CoreDies
    PROVE  CallInv'
<1>1. \A w \in Workers : /\ worker'[w].pc = worker[w].pc /\ worker'[w].pod = worker[w].pod
                         /\ worker'[w].call = 0 /\ (worker'[w] = worker[w] \/ worker'[w].errs # {})
  BY CoreDiesEffect DEF BaseInv
<1>d. duplicates' = duplicates
  BY DEF CoreDies
<1>2. ASSUME NEW w \in Workers PROVE SentIsStored(w)'
  <2>1. CASE worker'[w] = worker[w]
    BY <1>d, <2>1, SentKept DEF CallInv
  <2>2. CASE worker'[w].errs # {}
    BY <2>2 DEF SentIsStored
  <2> QED
    BY <1>1, <2>1, <2>2
<1>3. SucceededIsStored'
  BY <1>d, SucceededKept DEF CoreDies, OnlyWorker, CallInv
<1> QED
  BY <1>1, <1>2, <1>3 DEF CallInv, CallIsFor

LEMMA CallInvTurn ==
    ASSUME BaseInv, CallInv, UNCHANGED storeVars, duplicates' = duplicates, SucceededIsStored',
           NEW w \in Workers, NEW y, worker' = [worker EXCEPT ![w] = y], y.call = 0,
           y.pc # "idle" /\ y.errs = {} =>
              \A k \in ToSet(Containers[y.pod]) : k \in ToSet(y.todo) \/ Settled(k)
    PROVE  CallInv'
<1>1. worker'[w] = y /\ \A v \in Workers \ {w} : worker'[v] = worker[v]
  BY DEF BaseInv, QueueInv
<1>2. RowsKept /\ rows' = rows /\ handler' = handler
  BY SameRows DEF storeVars, BaseInv, StoreInv
<1>3. \A v \in Workers : CallIsFor(v)'
  BY <1>1, <1>2 DEF CallInv, CallIsFor
<1>4. \A v \in Workers : SentIsStored(v)'
  BY <1>1, <1>2 DEF CallInv, SentIsStored, Settled, HasRow
<1>5. \A u, v \in Workers : u # v /\ worker'[u].call # 0 => worker'[u].call # worker'[v].call
  BY <1>1 DEF CallInv
<1> QED
  BY <1>3, <1>4, <1>5 DEF CallInv

LEMMA CallInvQueue ==
    ASSUME BaseInv, CallInv, QueueActs, UNCHANGED storeVars
    PROVE  CallInv'
<1>0. RowsKept /\ rows' = rows /\ handler' = handler /\ QueueInv
  BY SameRows DEF storeVars, BaseInv, StoreInv
<1>1. CASE worker' = worker /\ succeeded' = succeeded /\ duplicates' = duplicates
  BY <1>0, <1>1 DEF CallInv, CallIsFor, SentIsStored, Settled, HasRow, SucceededIsStored
<1>2. ASSUME NEW w \in Workers, TakePod(w) PROVE CallInv'
  <2>p. PICK p : p = Head(queue)
    OBVIOUS
  <2>y. PICK y : y = [Idle EXCEPT !.pc = "processing", !.pod = p, !.todo = Containers[p]]
    OBVIOUS
  <2>1. p \in Pods
    BY <1>0, <1>2, <2>p DEF TakePod, QueueInv
  <2>2. worker' = [worker EXCEPT ![w] = y] /\ succeeded' = succeeded /\ duplicates' = duplicates
    BY <1>2, <2>p, <2>y DEF TakePod
  <2>3. y.call = 0 /\ y.pod = p /\ y.todo = Containers[p]
    BY <2>1, <2>y, TakenPod
  <2>4. SucceededIsStored'
    BY <1>0, <2>2, SucceededKept DEF CallInv
  <2> QED
    BY <2>2, <2>3, <2>4, CallInvTurn
<1>3. ASSUME NEW w \in Workers, LeaveActive(w) PROVE CallInv'
  <2>1. worker' = [worker EXCEPT ![w] = Idle] /\ succeeded' = succeeded /\ duplicates' = duplicates
    BY <1>3 DEF LeaveActive
  <2>2. SucceededIsStored'
    BY <1>0, <2>1, SucceededKept DEF CallInv
  <2> QED
    BY <2>1, <2>2, IdleWorker, CallInvTurn
<1>4. ASSUME NEW w \in Workers, ProcessedPod(w) PROVE CallInv'
  <2>p. PICK p, y : p = worker[w].pod /\ y = [worker[w] EXCEPT !.pc = "leaving"]
    OBVIOUS
  <2>1. worker[w].pc = "processing" /\ worker[w].todo = <<>>
    BY <1>4 DEF ProcessedPod
  <2>2. y.call = 0 /\ y.pod = p /\ y.todo = <<>> /\ y.errs = worker[w].errs
    BY <1>0, <2>p, <2>1, WorkerLeaves
  <2>3. worker[w].errs = {} => \A k \in ToSet(Containers[p]) : Settled(k)
    <3>1. \A k : k \notin ToSet(<<>>)
      BY DEF ToSet
    <3> QED
      BY <2>p, <2>1, <3>1 DEF CallInv, SentIsStored
  <2>4. worker' = [worker EXCEPT ![w] = y] \/ worker' = [worker EXCEPT ![w] = Idle]
    BY <1>0, <1>4, <2>p DEF ProcessedPod, QueueInv
  <2>5. /\ succeeded' = succeeded \/ (worker[w].errs = {} /\ succeeded' = succeeded \cup {p})
        /\ duplicates' = duplicates
    BY <1>4, <2>p DEF ProcessedPod
  <2>6. SucceededIsStored'
    BY <1>0, <2>3, <2>5 DEF CallInv, SucceededIsStored, Settled, HasRow
  <2> QED
    BY <2>2, <2>3, <2>4, <2>5, <2>6, IdleWorker, CallInvTurn
<1>5. CASE AgentRestart
  <2>1. \A w \in Workers : worker'[w] = Idle
    BY <1>5 DEF AgentRestart
  <2>2. succeeded' = {}
    BY <1>5 DEF AgentRestart
  <2> QED
    BY <2>1, <2>2, IdleWorker DEF CallInv, CallIsFor, SentIsStored, SucceededIsStored
<1>6. CASE \/ \E p \in Pods : PodSeen(p) \/ RetryTimer(p)
           \/ reconcileFailedPods
           \/ ReconcileEnqueue
  BY <1>1, <1>6 DEF PodSeen, RetryTimer, reconcileFailedPods, ReconcileEnqueue
<1> QED
  BY <1>2, <1>3, <1>4, <1>5, <1>6 DEF QueueActs

LEMMA CallInvInit == Init => CallInv
<1> SUFFICES ASSUME Init PROVE CallInv
  OBVIOUS
<1>1. (\A w \in Workers : worker[w] = Idle) /\ succeeded = {}
  BY DEF Init, NewWorkQueue
<1> QED
  BY <1>1, IdleWorker DEF CallInv, CallIsFor, SentIsStored, SucceededIsStored

LEMMA CallInvNext == BaseInv /\ CallInv /\ [Next]_vars => CallInv'
<1> SUFFICES ASSUME BaseInv, CallInv, [Next]_vars PROVE CallInv'
  OBVIOUS
<1>0. RowsKept
  BY RowsKeptStep
<1>1. CASE UNCHANGED <<queueVars, handler>>
  BY <1>0, <1>1, CallInvHandler
<1>2. ASSUME NEW h \in Handlers, AnswerLost(h) PROVE CallInv'
  <2>1. UNCHANGED queueVars /\ (\A w \in Workers : worker[w].call # h)
        /\ \A g \in Handlers \ {h} : handler'[g] = handler[g]
    BY <1>2 DEF AnswerLost, OnlyStore, Done, BaseInv, StoreInv
  <2> QED
    BY <1>0, <2>1, CallInvHandler
<1>3. ASSUME NEW h \in Handlers, HandlerGoesOn(h), UNCHANGED queueVars PROVE CallInv'
  BY <1>0, <1>3, GoesOn, CallInvHandler DEF BaseInv
<1>4. CASE UNCHANGED vars
  BY <1>1, <1>4 DEF vars, storeVars
<1> QED
  BY <1>0, <1>1, <1>2, <1>3, <1>4, StepOfCalls, CallInvQueue, CallInvSend, CallInvReturns, CallInvFails,
     CallInvCoreDies DEF BaseInv

(* A Pod is counted as done only with an SBOM row in Core for each of its  *)
(* containers, but for those of which Core itself said "duplicate key",    *)
(* whatever answers are lost and whichever side restarts.                  *)
THEOREM SucceededIsStoredTheorem == Spec => []SucceededIsStored
<1>1. BaseInv /\ CallInv => SucceededIsStored
  BY DEF CallInv
<1> QED
  BY <1>1, BaseInvInit, BaseInvNext, CallInvInit, CallInvNext, PTL DEF Spec

----------------------------------------------------------------------------
(* The holders of a Pod.                                                   *)

SlotsOf(q, p) == {n \in DOMAIN q : q[n] = p}
BusyWith(f, p) == {w \in Workers : f[w].pc # "idle" /\ f[w].pod = p}

LEMMA SlotsFinite ==
    ASSUME NEW q \in Seq(Pods), NEW p
    PROVE  IsFiniteSet(SlotsOf(q, p)) /\ Cardinality(SlotsOf(q, p)) \in Nat
<1>1. IsFiniteSet(1 .. Len(q))
  BY FS_Interval
<1>2. SlotsOf(q, p) \in SUBSET (1 .. Len(q))
  BY DEF SlotsOf
<1>3. IsFiniteSet(SlotsOf(q, p))
  BY <1>1, <1>2, FS_Subset
<1> QED
  BY <1>3, FS_CardinalityType

LEMMA SlotsAppend ==
    ASSUME NEW q \in Seq(Pods), NEW x \in Pods, NEW p
    PROVE  Cardinality(SlotsOf(Append(q, x), p)) = Cardinality(SlotsOf(q, p)) + (IF x = p THEN 1 ELSE 0)
<1>n. PICK n \in Nat : n = Len(q) + 1
  OBVIOUS
<1>1. SlotsOf(Append(q, x), p) = IF x = p THEN SlotsOf(q, p) \cup {n} ELSE SlotsOf(q, p)
  BY <1>n DEF SlotsOf
<1>2. n \notin SlotsOf(q, p)
  BY <1>n DEF SlotsOf
<1>3. IsFiniteSet(SlotsOf(q, p)) /\ Cardinality(SlotsOf(q, p)) \in Nat
  BY SlotsFinite
<1>4. Cardinality(SlotsOf(q, p) \cup {n}) = Cardinality(SlotsOf(q, p)) + 1
  BY <1>2, <1>3, FS_AddElement
<1> QED
  BY <1>1, <1>3, <1>4

LEMMA SlotsTail ==
    ASSUME NEW q \in Seq(Pods), q # <<>>, NEW p
    PROVE  Cardinality(SlotsOf(q, p)) = Cardinality(SlotsOf(Tail(q), p)) + (IF Head(q) = p THEN 1 ELSE 0)
<1> DEFINE T == SlotsOf(Tail(q), p)
           U == SlotsOf(q, p) \ {1}
           f == [n \in T |-> n + 1]
<1>0. Tail(q) \in Seq(Pods) /\ Len(Tail(q)) = Len(q) - 1 /\ Len(q) \in Nat \ {0}
      /\ \A n \in 1 .. Len(q) - 1 : Tail(q)[n] = q[n + 1]
  OBVIOUS
<1>1. IsFiniteSet(T) /\ Cardinality(T) \in Nat /\ IsFiniteSet(SlotsOf(q, p))
      /\ Cardinality(SlotsOf(q, p)) \in Nat
  BY <1>0, SlotsFinite
<1>2. \A n : n \in T <=> n \in 1 .. Len(q) - 1 /\ q[n + 1] = p
  BY <1>0 DEF SlotsOf
<1>3. \A n : n \in U <=> n \in 2 .. Len(q) /\ q[n] = p
  BY <1>0 DEF SlotsOf
<1> HIDE DEF T, U
<1>4. f \in [T -> U]
  BY <1>0, <1>2, <1>3
<1>5. \A a, b \in T : f[a] = f[b] => a = b
  BY <1>2
<1>6. \A u \in U : \E t \in T : f[t] = u
  <2> SUFFICES ASSUME NEW u \in U PROVE u - 1 \in T /\ f[u - 1] = u
    OBVIOUS
  <2> QED
    BY <1>0, <1>2, <1>3
<1>7. ExistsBijection(T, U)
  BY <1>4, <1>5, <1>6 DEF ExistsBijection, Bijection, Injection, Surjection, IsInjective
<1>8. Cardinality(U) = Cardinality(T)
  BY <1>1, <1>7, FS_Bijection
<1>9. 1 \in SlotsOf(q, p) <=> Head(q) = p
  BY <1>0 DEF SlotsOf
<1>10. Cardinality(U) = IF 1 \in SlotsOf(q, p) THEN Cardinality(SlotsOf(q, p)) - 1
                        ELSE Cardinality(SlotsOf(q, p))
  BY <1>1, FS_RemoveElement DEF U
<1> QED
  BY <1>1, <1>8, <1>9, <1>10 DEF T

LEMMA BusyFinite ==
    ASSUME NEW f, NEW p
    PROVE  IsFiniteSet(BusyWith(f, p)) /\ Cardinality(BusyWith(f, p)) \in Nat
<1>1. BusyWith(f, p) \in SUBSET Workers /\ IsFiniteSet(Workers)
  BY QueueAssumption DEF BusyWith
<1>2. IsFiniteSet(BusyWith(f, p))
  BY <1>1, FS_Subset
<1> QED
  BY <1>2, FS_CardinalityType

(* One worker turns to something else. *)
Has(x, p) == x.pc # "idle" /\ x.pod = p

LEMMA BusyTurn ==
    ASSUME NEW f, NEW g, NEW w \in Workers, NEW y, g[w] = y,
           \A v \in Workers \ {w} : g[v] = f[v], NEW p
    PROVE  /\ (Has(f[w], p) <=> Has(y, p)) => Cardinality(BusyWith(g, p)) = Cardinality(BusyWith(f, p))
           /\ Has(f[w], p) /\ ~Has(y, p) => Cardinality(BusyWith(g, p)) = Cardinality(BusyWith(f, p)) - 1
           /\ ~Has(f[w], p) /\ Has(y, p) => Cardinality(BusyWith(g, p)) = Cardinality(BusyWith(f, p)) + 1
<1>b. PICK B, C : B = BusyWith(f, p) /\ C = BusyWith(g, p)
  OBVIOUS
<1>2. /\ w \in B <=> Has(f[w], p)
      /\ Has(y, p) => C = B \cup {w}
      /\ ~Has(y, p) => C = B \ {w}
  BY <1>b DEF BusyWith, Has
<1>3. IsFiniteSet(B)
  BY <1>b, BusyFinite
<1>4. /\ Cardinality(B \cup {w}) = IF w \in B THEN Cardinality(B) ELSE Cardinality(B) + 1
      /\ Cardinality(B \ {w}) = IF w \in B THEN Cardinality(B) - 1 ELSE Cardinality(B)
  BY <1>3, FS_AddElement, FS_RemoveElement
<1> QED
  BY <1>b, <1>2, <1>4

LEMMA WorkerTurns ==
    ASSUME QueueInv, NEW w \in Workers, NEW y, worker' = [worker EXCEPT ![w] = y], NEW p
    PROVE  /\ (Has(worker[w], p) <=> Has(y, p))
              => Cardinality(BusyWith(worker', p)) = Cardinality(BusyWith(worker, p))
           /\ Has(worker[w], p) /\ ~Has(y, p)
              => Cardinality(BusyWith(worker', p)) = Cardinality(BusyWith(worker, p)) - 1
           /\ ~Has(worker[w], p) /\ Has(y, p)
              => Cardinality(BusyWith(worker', p)) = Cardinality(BusyWith(worker, p)) + 1
<1>1. worker'[w] = y /\ \A v \in Workers \ {w} : worker'[v] = worker[v]
  BY DEF QueueInv
<1>f. PICK f, g : f = worker /\ g = worker'
  OBVIOUS
<1>2. g[w] = y /\ \A v \in Workers \ {w} : g[v] = f[v]
  BY <1>1, <1>f
<1>3. /\ (Has(f[w], p) <=> Has(y, p)) => Cardinality(BusyWith(g, p)) = Cardinality(BusyWith(f, p))
      /\ Has(f[w], p) /\ ~Has(y, p) => Cardinality(BusyWith(g, p)) = Cardinality(BusyWith(f, p)) - 1
      /\ ~Has(f[w], p) /\ Has(y, p) => Cardinality(BusyWith(g, p)) = Cardinality(BusyWith(f, p)) + 1
  BY <1>2, BusyTurn
<1> QED
  BY <1>3, <1>f

LEMMA HoldersParts ==
    ASSUME NEW p
    PROVE  Holders(p) = Cardinality(SlotsOf(queue, p)) + Cardinality(BusyWith(worker, p)) + timers[p]
  BY DEF Holders, SlotsOf, BusyWith

LEMMA HoldersNats ==
    ASSUME QueueInv, NEW p \in Pods
    PROVE  /\ Cardinality(SlotsOf(queue, p)) \in Nat /\ Cardinality(BusyWith(worker, p)) \in Nat
           /\ timers[p] \in Nat
  BY SlotsFinite, BusyFinite DEF QueueInv

(* A worker that has a Pod is one of its holders. *)
LEMMA BusyHolds ==
    ASSUME QueueInv, NEW w \in Workers, worker[w].pc # "idle", NEW p \in Pods, worker[w].pod = p
    PROVE  Cardinality(BusyWith(worker, p)) >= 1
<1>1. w \in BusyWith(worker, p)
  BY DEF BusyWith
<1>2. Cardinality(BusyWith(worker, p)) # 0
  BY <1>1, BusyFinite, FS_EmptySet
<1> QED
  BY <1>2, BusyFinite

LEMMA ActiveEnqueue ==
    ASSUME QueueInv, ActiveIsExact, NEW p \in Pods, Enqueue(p), worker' = worker, timers' = timers
    PROVE  ActiveIsExact'
<1>1. CASE UNCHANGED <<queue, active>>
  BY <1>1 DEF ActiveIsExact, Holders
<1>2. CASE p \notin active /\ queue' = Append(queue, p) /\ active' = active \cup {p}
  <2> SUFFICES ASSUME NEW q \in Pods PROVE (Holders(q) = IF q \in active THEN 1 ELSE 0)'
    BY DEF ActiveIsExact
  <2>1. Cardinality(SlotsOf(queue', q)) = Cardinality(SlotsOf(queue, q)) + (IF p = q THEN 1 ELSE 0)
    BY <1>2, SlotsAppend DEF QueueInv
  <2>2. BusyWith(worker', q) = BusyWith(worker, q)
    OBVIOUS
  <2>3. Holders(q)' = Cardinality(SlotsOf(queue', q)) + Cardinality(BusyWith(worker, q)) + timers[q]
    BY <2>2 DEF Holders, SlotsOf, BusyWith
  <2>4. Holders(q) = IF q \in active THEN 1 ELSE 0
    BY DEF ActiveIsExact
  <2> QED
    BY <1>2, <2>1, <2>3, <2>4, HoldersParts, HoldersNats
<1> QED
  BY <1>1, <1>2 DEF Enqueue

LEMMA ActiveTake ==
    ASSUME QueueInv, ActiveIsExact, NEW w \in Workers, TakePod(w)
    PROVE  ActiveIsExact'
<1> SUFFICES ASSUME NEW q \in Pods PROVE (Holders(q) = IF q \in active THEN 1 ELSE 0)'
  BY DEF ActiveIsExact
<1>p. PICK p : p = Head(queue)
  OBVIOUS
<1>y. PICK y : y = [Idle EXCEPT !.pc = "processing", !.pod = p, !.todo = Containers[p]]
  OBVIOUS
<1>1. queue # <<>> /\ queue \in Seq(Pods) /\ p \in Pods
  BY <1>p DEF TakePod, QueueInv
<1>2. /\ worker' = [worker EXCEPT ![w] = y] /\ worker[w].pc = "idle" /\ timers' = timers
      /\ queue' = Tail(queue) /\ active' = active \cup {p}
  BY <1>p, <1>y DEF TakePod
<1>3. y.pc = "processing" /\ y.pod = p
  BY <1>1, <1>y, TakenPod
<1>4. Cardinality(SlotsOf(queue, q)) = Cardinality(SlotsOf(queue', q)) + (IF p = q THEN 1 ELSE 0)
  BY <1>1, <1>2, <1>p, SlotsTail
<1>5. Cardinality(BusyWith(worker', q)) = Cardinality(BusyWith(worker, q)) + (IF p = q THEN 1 ELSE 0)
  <2>1. ~Has(worker[w], q) /\ (Has(y, q) <=> p = q)
    BY <1>2, <1>3 DEF Has
  <2>2. /\ (Has(worker[w], q) <=> Has(y, q))
           => Cardinality(BusyWith(worker', q)) = Cardinality(BusyWith(worker, q))
        /\ ~Has(worker[w], q) /\ Has(y, q)
           => Cardinality(BusyWith(worker', q)) = Cardinality(BusyWith(worker, q)) + 1
    BY <1>2, WorkerTurns
  <2> QED
    BY <2>1, <2>2, BusyFinite
<1>6. Holders(q)' = Cardinality(SlotsOf(queue', q)) + Cardinality(BusyWith(worker', q)) + timers[q]
  BY <1>2 DEF Holders, SlotsOf, BusyWith
<1>7. Holders(q) = IF q \in active THEN 1 ELSE 0
  BY DEF ActiveIsExact
<1>8. Cardinality(SlotsOf(queue', q)) \in Nat
  <2>1. queue' \in Seq(Pods)
    BY <1>1, <1>2
  <2> QED
    BY <2>1, SlotsFinite
<1> QED
  BY <1>2, <1>4, <1>5, <1>6, <1>7, <1>8, HoldersParts, HoldersNats

(* What the workers do with a Pod besides taking and leaving it does not   *)
(* change who holds it.                                                    *)
LEMMA ActiveSame ==
    ASSUME ActiveIsExact, UNCHANGED <<queue, active, timers>>,
           \A w \in Workers : worker'[w].pc = worker[w].pc /\ worker'[w].pod = worker[w].pod
    PROVE  ActiveIsExact'
<1>1. \A p : BusyWith(worker', p) = BusyWith(worker, p)
  BY DEF BusyWith
<1> QED
  BY <1>1 DEF ActiveIsExact, Holders, BusyWith

LEMMA ActiveProcessed ==
    ASSUME QueueInv, ActiveIsExact, NEW w \in Workers, ProcessedPod(w)
    PROVE  ActiveIsExact'
<1> SUFFICES ASSUME NEW q \in Pods PROVE (Holders(q) = IF q \in active THEN 1 ELSE 0)'
  BY DEF ActiveIsExact
<1>p. PICK p, y : p = worker[w].pod /\ y = [worker[w] EXCEPT !.pc = "leaving"]
  OBVIOUS
<1>1. worker[w].pc = "processing" /\ worker[w].todo = <<>> /\ UNCHANGED <<queue, active>>
  BY DEF ProcessedPod
<1>2. y.pc = "leaving" /\ y.pod = p /\ p \in Pods
  BY <1>1, <1>p, WorkerLeaves DEF QueueInv, WorkerInv
<1>3. \/ worker' = [worker EXCEPT ![w] = y] /\ timers' = timers
      \/ worker' = [worker EXCEPT ![w] = Idle] /\ timers' = [timers EXCEPT ![p] = @ + 1]
  BY <1>p DEF ProcessedPod, QueueInv
<1>4. Holders(q)' = Cardinality(SlotsOf(queue, q)) + Cardinality(BusyWith(worker', q)) + timers'[q]
  BY <1>1 DEF Holders, SlotsOf, BusyWith
<1>5. Holders(q) = IF q \in active THEN 1 ELSE 0
  BY DEF ActiveIsExact
<1>6. Has(worker[w], q) <=> p = q
  BY <1>1, <1>p DEF Has
<1>7. Holders(q)' = Holders(q)
  <2>1. CASE worker' = [worker EXCEPT ![w] = y] /\ timers' = timers
    <3>1. Has(y, q) <=> p = q
      BY <1>2 DEF Has
    <3>2. Cardinality(BusyWith(worker', q)) = Cardinality(BusyWith(worker, q))
      BY <1>6, <2>1, <3>1, WorkerTurns
    <3> QED
      BY <1>4, <2>1, <3>2, HoldersParts
  <2>2. CASE worker' = [worker EXCEPT ![w] = Idle] /\ timers' = [timers EXCEPT ![p] = @ + 1]
    <3>1. ~Has(Idle, q)
      BY IdleWorker DEF Has
    <3>2. IF p = q THEN Cardinality(BusyWith(worker', q)) = Cardinality(BusyWith(worker, q)) - 1
          ELSE Cardinality(BusyWith(worker', q)) = Cardinality(BusyWith(worker, q))
      BY <1>6, <2>2, <3>1, WorkerTurns
    <3>3. timers'[q] = IF p = q THEN timers[q] + 1 ELSE timers[q]
      BY <1>2, <2>2 DEF QueueInv
    <3> QED
      BY <1>4, <3>2, <3>3, HoldersParts, HoldersNats
  <2> QED
    BY <1>3, <2>1, <2>2
<1> QED
  BY <1>1, <1>5, <1>7

LEMMA ActiveLeave ==
    ASSUME QueueInv, ActiveIsExact, NEW w \in Workers, LeaveActive(w)
    PROVE  ActiveIsExact'
<1> SUFFICES ASSUME NEW q \in Pods PROVE (Holders(q) = IF q \in active THEN 1 ELSE 0)'
  BY DEF ActiveIsExact
<1>p. PICK p : p = worker[w].pod
  OBVIOUS
<1>1. /\ worker[w].pc = "leaving" /\ p \in Pods /\ UNCHANGED <<queue, timers>>
      /\ worker' = [worker EXCEPT ![w] = Idle] /\ active' = active \ {p}
  BY <1>p DEF LeaveActive, QueueInv, WorkerInv
<1>2. Holders(q)' = Cardinality(SlotsOf(queue, q)) + Cardinality(BusyWith(worker', q)) + timers[q]
  BY <1>1 DEF Holders, SlotsOf, BusyWith
<1>3. ~Has(Idle, q) /\ (Has(worker[w], q) <=> p = q)
  BY <1>1, <1>p, IdleWorker DEF Has
<1>4. IF p = q THEN Cardinality(BusyWith(worker', q)) = Cardinality(BusyWith(worker, q)) - 1
      ELSE Cardinality(BusyWith(worker', q)) = Cardinality(BusyWith(worker, q))
  BY <1>1, <1>3, WorkerTurns
<1>5. Cardinality(BusyWith(worker, p)) >= 1
  BY <1>1, <1>p, BusyHolds
<1>6. Holders(q) = IF q \in active THEN 1 ELSE 0
  BY DEF ActiveIsExact
<1> QED
  BY <1>1, <1>2, <1>4, <1>5, <1>6, HoldersParts, HoldersNats

LEMMA ActiveTimer ==
    ASSUME QueueInv, ActiveIsExact, NEW p \in Pods, RetryTimer(p)
    PROVE  ActiveIsExact'
<1> SUFFICES ASSUME NEW q \in Pods PROVE (Holders(q) = IF q \in active THEN 1 ELSE 0)'
  BY DEF ActiveIsExact
<1>1. timers[p] > 0 /\ timers' = [timers EXCEPT ![p] = @ - 1] /\ worker' = worker
  BY DEF RetryTimer
<1>2. timers'[q] = IF p = q THEN timers[q] - 1 ELSE timers[q]
  BY <1>1 DEF QueueInv
<1>3. Holders(q)' = Cardinality(SlotsOf(queue', q)) + Cardinality(BusyWith(worker, q)) + timers'[q]
  BY <1>1 DEF Holders, SlotsOf, BusyWith
<1>4. Holders(q) = IF q \in active THEN 1 ELSE 0
  BY DEF ActiveIsExact
<1>5. CASE queue' = Append(queue, p) /\ active' = active
  <2>1. Cardinality(SlotsOf(queue', q)) = Cardinality(SlotsOf(queue, q)) + (IF p = q THEN 1 ELSE 0)
    BY <1>5, SlotsAppend DEF QueueInv
  <2> QED
    BY <1>1, <1>2, <1>3, <1>4, <1>5, <2>1, HoldersParts, HoldersNats
<1>6. CASE queue' = queue /\ active' = active \ {p}
  BY <1>1, <1>2, <1>3, <1>4, <1>6, HoldersParts, HoldersNats
<1> QED
  BY <1>5, <1>6 DEF RetryTimer

LEMMA ActiveActs ==
    ASSUME QueueInv, ActiveIsExact, QueueActs
    PROVE  ActiveIsExact'
<1>1. ASSUME NEW p \in Pods, PodSeen(p) PROVE ActiveIsExact'
  BY <1>1, ActiveEnqueue DEF PodSeen
<1>2. CASE reconcileFailedPods
  BY <1>2, ActiveSame DEF reconcileFailedPods
<1>3. CASE ReconcileEnqueue
  <2>1. PICK p \in Pods : Enqueue(p)
    BY <1>3 DEF ReconcileEnqueue, QueueInv
  <2> QED
    BY <1>3, <2>1, ActiveEnqueue DEF ReconcileEnqueue
<1>4. CASE AgentRestart
  <2>1. \A p : SlotsOf(<<>>, p) = {} /\ BusyWith(worker', p) = {}
    BY <1>4, IdleWorker DEF AgentRestart, SlotsOf, BusyWith
  <2>2. \A p \in Pods : Holders(p)' = Cardinality(SlotsOf(<<>>, p)) + Cardinality(BusyWith(worker', p)) + 0
    BY <1>4 DEF AgentRestart, Holders, SlotsOf, BusyWith
  <2>3. \A p \in Pods : Holders(p)' = 0
    BY <2>1, <2>2, FS_EmptySet
  <2> QED
    BY <1>4, <2>3 DEF AgentRestart, ActiveIsExact
<1> QED
  BY <1>1, <1>2, <1>3, <1>4, ActiveTake, ActiveProcessed, ActiveLeave, ActiveTimer DEF QueueActs

LEMMA ActiveInit == Init => ActiveIsExact
<1> SUFFICES ASSUME Init PROVE ActiveIsExact
  OBVIOUS
<1>1. queue = <<>> /\ active = {} /\ timers = [p \in Pods |-> 0] /\ worker = [w \in Workers |-> Idle]
  BY DEF Init, NewWorkQueue
<1>2. \A p : SlotsOf(queue, p) = {} /\ BusyWith(worker, p) = {}
  BY <1>1, IdleWorker DEF SlotsOf, BusyWith
<1>3. \A p \in Pods : Holders(p) = Cardinality(SlotsOf(queue, p)) + Cardinality(BusyWith(worker, p)) + 0
  BY <1>1 DEF Holders, SlotsOf, BusyWith
<1>4. \A p \in Pods : Holders(p) = 0
  BY <1>2, <1>3, FS_EmptySet
<1> QED
  BY <1>1, <1>4 DEF ActiveIsExact

LEMMA ActiveNext == BaseInv /\ ActiveIsExact /\ [Next]_vars => ActiveIsExact'
<1> SUFFICES ASSUME BaseInv, ActiveIsExact, [Next]_vars PROVE ActiveIsExact'
  OBVIOUS
<1>0. QueueInv /\ LeftInv /\ StoreInv
  BY DEF BaseInv
<1>1. CASE UNCHANGED queueVars
  BY <1>1, ActiveSame DEF queueVars
<1>2. ASSUME NEW w \in Workers, NEW y, OnlyWorker, worker' = [worker EXCEPT ![w] = y],
             y.pc = worker[w].pc, y.pod = worker[w].pod
      PROVE  ActiveIsExact'
  <2>1. \A v \in Workers : worker'[v].pc = worker[v].pc /\ worker'[v].pod = worker[v].pod
    BY <1>0, <1>2 DEF QueueInv
  <2> QED
    BY <1>2, <2>1, ActiveSame DEF OnlyWorker
<1>3. ASSUME NEW w \in Workers, NEW h \in Handlers, AtWork(w), CallCore(w, h), OnlyWorker
      PROVE  ActiveIsExact'
  BY <1>0, <1>2, <1>3, CallCoreEffect
<1>4. ASSUME NEW w \in Workers, NEW err \in {"nil", "transient", "fatal", "duplicate"}, AtWork(w),
             CallEnds(w, err), OnlyWorker
      PROVE  ActiveIsExact'
  BY <1>0, <1>2, <1>4, CallEndsEffect
<1>5. CASE CoreDies
  BY <1>0, <1>5, CoreDiesEffect, ActiveSame DEF CoreDies, OnlyWorker
<1>6. CASE UNCHANGED vars
  BY <1>1, <1>6 DEF vars
<1> QED
  BY <1>0, <1>1, <1>3, <1>4, <1>5, <1>6, ActiveActs, StepOfQueue

(* A Pod is in active exactly while one slot of the channel, one worker or *)
(* one retry timer holds it, in any interleaving of the queue's critical   *)
(* sections.                                                               *)
THEOREM ActiveIsExactTheorem == Spec => []ActiveIsExact
<1>1. BaseInv /\ ActiveIsExact /\ [Next]_vars => (BaseInv /\ ActiveIsExact)'
  BY BaseInvNext, ActiveNext
<1> QED
  BY <1>1, BaseInvInit, ActiveInit, PTL DEF Spec
=============================================================================
