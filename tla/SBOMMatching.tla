---------------------------- MODULE SBOMMatching ----------------------------
(***************************************************************************)
(* From a stored SBOM to its findings: the sbom.created events and their   *)
(* dead letters (sbom_publish_retry.go, sbom_dlq_worker.go), the matcher   *)
(* that takes them off the stream (cve_matcher_worker.go), the re-match    *)
(* after a new catalogue (cve_catalog_rematch.go) and the orphan clean-up  *)
(* (sbom_reconciler.go). The stream redelivers what is not acknowledged,   *)
(* also to the next Core process while the previous one is still at work.  *)
(***************************************************************************)
EXTENDS SBOMStore

CONSTANTS
    Matchers,        \* Core processes whose matchers may overlap
    Replicas,        \* replicas that run the re-match check
    DLQMaxAttempts   \* FORTUNA_SBOM_DLQ_REPLAY_MAX_ATTEMPTS

ASSUME MatchingAssumption == DLQMaxAttempts \in Nat \ {0}

VARIABLES
    clock,        \* seconds
    sent,         \* number of events made by the handlers: event IDs
    stream,       \* events of fortuna.sbom.created not acknowledged
    dlq,          \* events of fortuna.sbom.created.dlq, with their deliveries
    watermark,    \* sbom_processing_state: row -> latest event
    runs,         \* sbom_match_runs: (row, version, mirror) -> status
    findings,     \* cve_matches and malware_matches of each row
    matcher,      \* what each matcher is doing
    generation,   \* the active catalogue generation
    mirror,       \* mirror_state "osv"
    marker,       \* mirror_state "cve_rematch_generation"
    rematch,      \* what each replica's check is doing
    podTable,     \* what the Pod table says of the owner of each container
    sweep,        \* the orphan clean-up
    queued        \* history: generations whose re-match was queued in full

matchVars == <<clock, sent, stream, dlq, watermark, runs, findings, matcher,
               generation, mirror, marker, rematch, podTable, sweep, queued>>

NoEvent == [row |-> 0, id |-> <<0, 0>>, ts |-> 0, snapshot |-> "none"]
IdleMatcher == [pc |-> "idle", ev |-> NoEvent, version |-> 0, mirror |-> 0, found |-> "none"]
IdleCheck == [pc |-> "idle", gen |-> 0, ts |-> 0, todo |-> {}]
NoSweep == [pc |-> "idle", seen |-> {}, alive |-> {}]

MatchInit ==
    /\ clock = 1 /\ sent = 0 /\ stream = {} /\ dlq = {}
    /\ watermark = <<>> /\ runs = <<>> /\ findings = <<>>
    /\ matcher = [m \in Matchers |-> IdleMatcher]
    /\ generation = 1 /\ mirror = 1 /\ marker = 1
    /\ rematch = [r \in Replicas |-> IdleCheck]
    /\ podTable = [k \in Keys |-> "live"]
    /\ sweep = NoSweep
    /\ queued = {1}

(* A row's entry in one of the tables above, which start empty. *)
Entry(f, x, default) == IF x \in DOMAIN f THEN f[x] ELSE default
Put(f, x, v) == [y \in DOMAIN f \cup {x} |-> IF y = x THEN v ELSE f[y]]

----------------------------------------------------------------------------
(* Publishing, and the dead letters.                                       *)

(* Handler h's event. The attempts on the stream end in one of: stored;    *)
(* all failed (or seemed to: the server may have stored a message whose    *)
(* acknowledgement was lost), then the dead letter is stored or not.       *)
publishSBOMCreatedWithRetry(h, outcome) ==
    LET ev == [row |-> handler[h].row, id |-> <<0, sent + 1>>, ts |-> clock,
               snapshot |-> Components(handler[h].req)]
    IN
    /\ Published(h)
    /\ sent' = sent + 1
    /\ stream' = IF outcome \in {"stored", "doubted"} THEN stream \cup {ev} ELSE stream
    /\ dlq' = IF outcome \in {"doubted", "dead"} THEN dlq \cup {[ev |-> ev, tries |-> 0]} ELSE dlq
    /\ UNCHANGED <<clock, watermark, runs, findings, matcher, generation, mirror, marker,
                   rematch, podTable, sweep, queued>>

SBOMDLQWorker(d, ok) ==
    /\ d \in dlq
    /\ IF ok THEN stream' = stream \cup {d.ev} /\ dlq' = dlq \ {d}
       ELSE /\ UNCHANGED stream
            /\ dlq' = (dlq \ {d}) \cup IF d.tries + 1 < DLQMaxAttempts
                                       THEN {[d EXCEPT !.tries = @ + 1]} ELSE {}
    /\ UNCHANGED storeVars
    /\ UNCHANGED <<clock, sent, watermark, runs, findings, matcher, generation, mirror, marker,
                   rematch, podTable, sweep, queued>>

----------------------------------------------------------------------------
(* ProcessSBOMCreatedEvent, for one delivery.                              *)

RestOfMatching == <<clock, sent, dlq, generation, mirror, marker, rematch, podTable, sweep, queued>>

Ack(m) == stream' = stream \ {matcher[m].ev} /\ matcher' = [matcher EXCEPT ![m] = IdleMatcher]

(* The row is loaded; the event of a deleted one is acknowledged. *)
Deliver(m, ev) ==
    /\ matcher[m].pc = "idle" /\ ev \in stream
    /\ IF rows[ev.row].deleted
       THEN stream' = stream \ {ev} /\ UNCHANGED matcher
       ELSE /\ matcher' = [matcher EXCEPT ![m] =
                             [IdleMatcher EXCEPT !.pc = "load", !.ev = ev,
                                                 !.version = rows[ev.row].version]]
            /\ UNCHANGED stream
    /\ UNCHANGED <<storeVars, watermark, runs, findings, RestOfMatching>>

(* The mirror version is read, and frozen for the rest of the run. *)
GetMirrorVersion(m) ==
    /\ matcher[m].pc = "load"
    /\ matcher' = [matcher EXCEPT ![m].pc = "claim", ![m].mirror = mirror]
    /\ UNCHANGED <<storeVars, stream, watermark, runs, findings, RestOfMatching>>

(* The event is claimed by its time. *)
ClaimSBOMEvent(m) ==
    LET ev == matcher[m].ev
        last == Entry(watermark, ev.row, [ts |-> 0, id |-> <<0, 0>>])
    IN
    /\ matcher[m].pc = "claim"
    /\ IF last.ts < ev.ts \/ (last.ts = ev.ts /\ last.id # ev.id)
       THEN /\ watermark' = Put(watermark, ev.row, [ts |-> ev.ts, id |-> ev.id])
            /\ matcher' = [matcher EXCEPT ![m].pc = "ensure"]
            /\ UNCHANGED stream
       ELSE Ack(m) /\ UNCHANGED watermark
    /\ UNCHANGED <<storeVars, runs, findings, RestOfMatching>>

RunKey(m) == <<matcher[m].ev.row, matcher[m].version, matcher[m].mirror>>

(* Every run goes ahead, whatever the table says. *)
EnsureAlways(m) ==
    /\ matcher[m].pc = "ensure"
    /\ runs' = Put(runs, RunKey(m), "running")
    /\ matcher' = [matcher EXCEPT ![m].pc = "match"]
    /\ UNCHANGED <<storeVars, stream, watermark, findings, RestOfMatching>>

(* The first to insert the key runs. Any other delivery ends as a          *)
(* duplicate: of a run that is running, that ended, and (late) of one that *)
(* timed out, which is marked failed and met again as failed.              *)
EnsureMatchRun(m) ==
    /\ matcher[m].pc = "ensure"
    /\ IF RunKey(m) \notin DOMAIN runs
       THEN /\ runs' = Put(runs, RunKey(m), "running")
            /\ matcher' = [matcher EXCEPT ![m].pc = "match"]
            /\ UNCHANGED stream
       ELSE /\ Ack(m)
            /\ \/ UNCHANGED runs
               \/ runs[RunKey(m)] = "running" /\ runs' = [runs EXCEPT ![RunKey(m)] = "failed"]
    /\ UNCHANGED <<storeVars, watermark, findings, RestOfMatching>>

(* The event's snapshot is matched, or the stored packages when it has     *)
(* none, against the catalogue that is active now.                         *)
MatchSBOMFindings(m) ==
    LET ev == matcher[m].ev
        packages == IF ev.snapshot # "none" THEN ev.snapshot ELSE rows[ev.row].packages
    IN
    /\ matcher[m].pc = "match"
    /\ matcher' = [matcher EXCEPT ![m].pc = "persist",
                                  ![m].found = [packages |-> packages, gen |-> generation]]
    /\ UNCHANGED <<storeVars, stream, watermark, runs, findings, RestOfMatching>>

(* A complete run replaces what is stored, another one adds to it. *)
persistMatches(m, complete) ==
    LET row == matcher[m].ev.row IN
    /\ matcher[m].pc = "persist"
    /\ findings' = Put(findings, row,
                       (IF complete THEN {} ELSE Entry(findings, row, {})) \cup {matcher[m].found})
    /\ matcher' = [matcher EXCEPT ![m].pc = "complete"]
    /\ UNCHANGED <<storeVars, stream, watermark, runs, RestOfMatching>>

(* The run ends and its event is acknowledged, also when the update of the *)
(* run fails: that is only logged, and the run stays running.              *)
CompleteMatchRun(m, ok) ==
    /\ matcher[m].pc = "complete"
    /\ runs' = IF ok THEN [runs EXCEPT ![RunKey(m)] = "succeeded"] ELSE runs
    /\ Ack(m)
    /\ UNCHANGED <<storeVars, watermark, findings, RestOfMatching>>

(* An error on the way: the deferred CompleteMatchRun marks a run that was  *)
(* started as failed, the event is not acknowledged.                       *)
MatchFails(m) ==
    /\ matcher[m].pc # "idle"
    /\ \/ UNCHANGED runs   \* nothing started, or that update fails as well
       \/ RunKey(m) \in DOMAIN runs /\ matcher[m].pc \in {"match", "persist", "complete"}
            /\ runs' = [runs EXCEPT ![RunKey(m)] = "failed"]
    /\ matcher' = [matcher EXCEPT ![m] = IdleMatcher]
    /\ UNCHANGED <<storeVars, stream, watermark, findings, RestOfMatching>>

----------------------------------------------------------------------------
(* CheckOnce of the re-match, on each replica.                             *)

NewGeneration ==
    /\ generation' = generation + 1
    /\ UNCHANGED storeVars
    /\ UNCHANGED <<clock, sent, stream, dlq, watermark, runs, findings, matcher, mirror, marker,
                   rematch, podTable, sweep, queued>>

RestOfRematch == <<storeVars, clock, sent, dlq, watermark, runs, findings, matcher, generation,
                   podTable, sweep>>

(* now and the active generation are read before the claim. *)
CheckOnce(r) ==
    /\ rematch[r].pc = "idle" /\ generation > marker
    /\ rematch' = [rematch EXCEPT ![r] = [IdleCheck EXCEPT !.pc = "claim", !.gen = generation,
                                                           !.ts = clock]]
    /\ UNCHANGED <<stream, mirror, marker, queued, RestOfRematch>>

Claim(r) ==
    /\ rematch[r].pc = "claim"
    /\ IF marker < rematch[r].gen
       THEN marker' = rematch[r].gen /\ rematch' = [rematch EXCEPT ![r].pc = "list"]
       ELSE UNCHANGED marker /\ rematch' = [rematch EXCEPT ![r] = IdleCheck]
    /\ UNCHANGED <<stream, mirror, queued, RestOfRematch>>

(* The mirror version goes up, then the SBOMs of live Pods are listed. *)
ListSBOMs(r) ==
    /\ rematch[r].pc = "list"
    /\ mirror' = mirror + 1
    /\ rematch' = [rematch EXCEPT
                     ![r].pc = "publish",
                     ![r].todo = {i \in DOMAIN rows : /\ ~rows[i].deleted
                                                      /\ podTable[rows[i].key] = "live"
                                                      /\ rows[i].status \in {"complete", "partial"}}]
    /\ UNCHANGED <<stream, marker, queued, RestOfRematch>>

queueRematch(r) ==
    /\ rematch[r].pc = "publish"
    /\ IF rematch[r].todo = {}
       THEN /\ rematch' = [rematch EXCEPT ![r] = IdleCheck]
            /\ queued' = queued \cup {rematch[r].gen}
            /\ UNCHANGED stream
       ELSE LET i == CHOOSE i \in rematch[r].todo : \A j \in rematch[r].todo : i <= j IN
            /\ stream' = stream \cup {[row |-> i, id |-> <<rematch[r].gen, i>>,
                                       ts |-> rematch[r].ts, snapshot |-> "none"]}
            /\ rematch' = [rematch EXCEPT ![r].todo = @ \ {i}]
            /\ UNCHANGED queued
    /\ UNCHANGED <<mirror, marker, RestOfRematch>>

(* The claim is given back, whoever holds the marker now. *)
ReleaseAnyway(r) ==
    /\ rematch[r].pc \in {"list", "publish"}
    /\ marker' = rematch[r].gen - 1
    /\ rematch' = [rematch EXCEPT ![r] = IdleCheck]
    /\ UNCHANGED <<stream, mirror, queued, RestOfRematch>>

(* Listing or publishing failed: the claim is released, unless a newer     *)
(* generation has been claimed since.                                      *)
ReleaseClaim(r) ==
    /\ rematch[r].pc \in {"list", "publish"}
    /\ marker' = IF marker = rematch[r].gen THEN marker - 1 ELSE marker
    /\ mirror' = IF rematch[r].pc = "list" THEN mirror + 1 ELSE mirror
    /\ rematch' = [rematch EXCEPT ![r] = IdleCheck]
    /\ UNCHANGED <<stream, queued, RestOfRematch>>

----------------------------------------------------------------------------
(* cleanupOrphanedSBOMs: the rows, then the live Pods, then the deleted    *)
(* ones are read, one query after the other.                               *)

RestOfSweep == <<handler, clock, sent, stream, dlq, watermark, runs, findings, matcher,
                 generation, mirror, marker, rematch, queued>>

SweepRows ==
    /\ sweep.pc = "idle"
    /\ sweep' = [NoSweep EXCEPT !.pc = "pods", !.seen = {i \in DOMAIN rows : ~rows[i].deleted}]
    /\ UNCHANGED <<rows, podTable, RestOfSweep>>

SweepPods ==
    /\ sweep.pc = "pods"
    /\ sweep' = [sweep EXCEPT !.pc = "delete", !.alive = {k \in Keys : podTable[k] = "live"}]
    /\ UNCHANGED <<rows, podTable, RestOfSweep>>

(* kept: rows of missing Pods within the grace period or with runtime      *)
(* evidence.                                                               *)
SweepDelete(kept) ==
    LET orphans == {i \in sweep.seen : /\ rows[i].key \notin sweep.alive
                                       /\ podTable[rows[i].key] = "deleted" \/ i \notin kept}
    IN
    /\ sweep.pc = "delete" /\ kept \subseteq sweep.seen
    /\ DeleteRows(orphans)
    /\ sweep' = NoSweep
    /\ UNCHANGED <<podTable, RestOfSweep>>

(* Inventory syncs, InventoryEvidence's business, write the Pod table. *)
PodTableChanges(k, status) ==
    /\ podTable[k] # status
    /\ podTable' = [podTable EXCEPT ![k] = status]
    /\ UNCHANGED <<rows, sweep, RestOfSweep>>

Tick ==
    /\ clock' = clock + 1
    /\ UNCHANGED storeVars
    /\ UNCHANGED <<sent, stream, dlq, watermark, runs, findings, matcher, generation, mirror,
                   marker, rematch, podTable, sweep, queued>>

(* A Core process dies: its handlers, matcher, check and clean-up stop;    *)
(* what they wrote stays, what was not acknowledged is delivered again.    *)
CoreRestart ==
    /\ HandlersLost
    /\ matcher' = [m \in Matchers |-> IdleMatcher]
    /\ rematch' = [r \in Replicas |-> IdleCheck]
    /\ sweep' = NoSweep
    /\ UNCHANGED <<clock, sent, stream, dlq, watermark, runs, findings, generation, mirror,
                   marker, podTable, queued>>

----------------------------------------------------------------------------

MatchTypeOK ==
    /\ \A e \in stream : e.row \in DOMAIN rows
    /\ \A i \in DOMAIN findings : i \in DOMAIN rows
    /\ \A x \in DOMAIN runs : runs[x] \in {"running", "succeeded", "failed"}
    /\ marker \in Nat /\ generation \in Nat /\ mirror \in Nat

(* Two matchers never work on the same version of an SBOM and mirror       *)
(* version at once, although the stream redelivers an event whose matcher  *)
(* is slow and the re-match sends the same SBOM again: their replacements  *)
(* of the findings would overwrite each other.                             *)
RunIsExclusive ==
    \A m, n \in Matchers :
        (m # n /\ matcher[m].pc \in {"match", "persist", "complete"}
               /\ matcher[n].pc \in {"match", "persist", "complete"})
        => RunKey(m) # RunKey(n)

(* A replica that could not queue a generation's re-match gives its claim  *)
(* back, and never that of a newer generation which another replica has    *)
(* queued in the meantime: that one would be queued for every SBOM again.  *)
QueuedStaysClaimed == \A g \in queued : g <= marker

(* What core/cmd/main.go logs when the matcher fails: "will retry via NATS *)
(* redelivery". An event leaves the stream once findings of its SBOM have  *)
(* been stored, while another matcher is at work on it, when a newer event *)
(* of the SBOM exists, or when the SBOM is gone.                           *)
AckedIsMatched ==
    [][\A e \in stream \ stream' :
          \/ rows[e.row].deleted
          \/ e.row \in DOMAIN findings'
          \/ \E m \in Matchers : matcher'[m].pc # "idle" /\ matcher'[m].ev = e
          \/ watermark'[e.row].id # e.id]_<<stream, findings, watermark, matcher>>
=============================================================================
