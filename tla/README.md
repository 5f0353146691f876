# Fortuna: TLA+ models and proofs

Fortuna is a Kubernetes security platform. An **Agent** runs in every cluster (often as a
DaemonSet): it lists the cluster's objects, extracts SBOMs from images and reports runtime
events. **Core** stores what Agents send, evaluates risk rules over it, keeps findings
("insights"), and carries out changes that an operator has reviewed. A **dashboard** shows
the result. This directory holds TLA+ models of the parts of Core and Agent in which
concurrency, crashes, lost answers and message order decide correctness, with the TLC runs
that check them on small instances and the TLAPS proofs that hold for every instance.

Run a check with `tlc -config SASafety.cfg MCServiceAccountMutation`, a proof with
`tlapm ServiceAccountMutation_proofs.tla`. `PROJECT.json` lists the runs, what each
definition models (file and lines), the hazards, the mutants and the theorems.

## 1. Inventory of the system

| Component | State it keeps | Operations | Talks to | What is hard | What makes it correct |
|---|---|---|---|---|---|
| ServiceAccount mutations (`core/pkg/mutations`) | rows of `service_account_mutations` (plan, next step, lease, attempts), audit log | preview, queue, DELETE, claim, apply, commit | API server, inventory, several Cores on one database | crash between write and commit, stalled lease holder, late writes, other clients | only reviewed versions written, each step once and in order, progress true, every operation ends |
| Inventory collection receipts (`core/internal/service/inventory_collection.go`) | one receipt per cluster, inventory rows | verified sync, replay, failure record, unverified sync | Agents, auto-resolution | concurrent and late posts, roll-back with a later failure record | receipt describes what is stored, nothing goes back in time |
| Agent syncer (`agent/internal/syncer`) | attempt ID and List times | list, post, report failure | API server, Core | retries, lists older than the batch | times are lower bounds |
| Findings and auto-resolution (`core/pkg/worker`, `core/pkg/riskengine/insight_manager.go`, finding handlers) | `insights` | detect, re-detect, auto-resolve, acknowledge, resolve, dismiss, reopen | inventory, receipt | check and write in separate statements | a finding closes by itself only on evidence |
| Evaluation after syncs (`core/internal/api/agent_sync_evaluation.go`, `risk_scheduler.go`) | two flags, a goroutine | trigger, pass, scheduler tick | inventory sync, evaluators | request while a pass ends, restart | no inventory without a later pass |
| Runtime coverage (`core/internal/api/runtime_*_handlers.go`, `agent/internal/runtime/coverage.go`, `lifecycle.go`, `source_health.go`) | producer state, coverage row, receipts; the reporters' pending window and backlog | manifest, heartbeat, window, signed health, verdict on an interval | event source, Core | late, lost, repeated requests; new sessions of Agent and sensor | nothing is vouched for that was not watched |
| Falco durable outbox (`agent/internal/runtime/falco_delivery_state.go`, `falco_reader.go`, `agent/internal/corehttp/delivery.go`) | a file with pending and quarantined events and the cursor | poll, flush, checkpoint, isolate refused events | Falco's log, Kubernetes, Core | crash between any two writes, failed saves, refused events, rotation, full outbox | durable delivery: what leaves the log is stored first and applied in the end |
| Runtime file reader (`agent/internal/runtime/events_reader.go`) | a cursor in memory | read, send, rotate | log file, Core | rotation, restart, late answers | the cursor never passes what Core has not taken |
| Runtime event ingest (`core/internal/api/runtime_event_handlers_identity.go`, `core/pkg/rep/processor_identity.go`) | claimed records | ownership check, one transaction per event | Agents | batches repeated, split, failed half-way | the effects of a record run once |
| Pod events collector (`agent/internal/poddetail/events_collector.go`) | queue, quarantine | enqueue, flush, isolate, merge | informer, Core | events that arrive while the queues are detached; full queues | the newest version of each event is kept until delivered |
| SBOM queue (`agent/internal/sbom`) | channel, `active`, retry counts, `failedPods` | enqueue, process, retry, reconcile | informer, Core | one Pod held by several timers, workers and copies | one holder per active Pod; done means stored |
| SBOM ingest and store (`core/internal/grpc/handler_sbom.go`, `sbom_repository.go`) | SBOM rows, components | receive, upsert, publish, clean up | Agents, NATS | concurrent handlers of one image, stale status, restarts | trusted rows are whole, empty requests keep packages |
| CVE matching and re-match (`core/pkg/worker/cve_matcher_worker.go`, `cve_catalog_rematch.go`, `sbom_dlq_worker.go`) | watermark, match runs, findings, marker | deliver, claim, match, persist, dead-letter, re-match | NATS, catalogue | redelivery, slow matchers, several replicas | one run at a time per version; claims of newer generations stay |
| CVE catalogue (`core/pkg/cve/loader`, `core/pkg/cve/database`, the loader command) | generations, advisory versions, file tracker | full and incremental load, roll-back, prune, bootstrap, read | file system, matcher | crash in a load, reads that span loads, failed loads' traces | a published generation never changes; a load publishes exactly what it read |
| OSV feed (`core/pkg/cve/feed/osv.go`) | advisory directory, saved state | fetch archive, fetch index, remove | OSV bucket | killed runs, late listings, truncated exports, shared advisories | the directory becomes the union of the exports |
| Rescore manager (`runtime_attack_rescore_manager.go`, `unified_scorer_identity.go`) | one timer per Pod, goroutines, `risk_scores` | notify, flush, evaluate, calculate, save | runtime ingest | timers put back as they fire, overlapping goroutines | no event is left out of the score |
| Investigation cases | case state, timeline | transitions, notes | operators | concurrent transitions | only legal transitions |
| Sessions and limiters | sessions, windows | login, revoke, allow | users, Agents | revocation against use | revoked sessions refused |

Left aside, with the reason in `PROJECT.json`: investigation cases, sessions and limiters, the
Agent identity registry, retention jobs, rule and score evaluation, graph queries, SBOM
extraction, policy analysis, eBPF and /proc collectors, migrations, the dashboard.

How they interact. An Agent's sync changes inventory and receipt in one transaction and
then asks for an evaluation; evaluators turn stored objects into findings; the risk
scheduler's second step closes findings whose risk is gone, trusting the receipt; an
operator who acts on a finding may preview and queue a ServiceAccount mutation, which
changes the cluster, which the next sync reports back. Readers on the Agent post runtime
events, which Core applies once per record and which arm the rescore timers; coverage
windows say for which time the absence of events means something. The Agent's Pod informer
feeds the SBOM queue; stored SBOMs are published to the matcher, which reads the active
catalogue generation; a new generation, loaded from the directory the feed mirrors, queues a
re-match of every SBOM.

## 2. Plan

Done, in this order:

1. `ServiceAccountMutation` (the one part that writes to users' clusters) with proofs;
2. `InventoryEvidence` (how Core comes to close a finding without a human) with proofs;
3. `SyncEvaluation` with proofs;
4. `FalcoOutbox` on `RuntimeIngest`, shown to implement the abstract `EvidenceDelivery`, and
   `RuntimeFileReader` on the same ingest;
5. `RuntimeCoverage`;
6. `SBOMPipeline`, composed of `SBOMQueue`, `SBOMStore` and `SBOMMatching`;
7. `VulnCatalog` and `VulnFeed`;
8. `RuntimeRescore` and `PodEvents`.

9. proofs of the safety invariants of `RuntimeRescore`, `RuntimeCoverage`, `SBOMPipeline`,
   `VulnCatalog`, `FalcoOutbox`, `RuntimeFileReader` and `PodEvents`, and of the audit log.

Next:

10. Investigation cases with concurrent transitions, sessions and their revocation.

## 3. Modules and how they correspond to the code

### ServiceAccountMutation

State: `job` is the table `service_account_mutations` (`lease` is the lease token, written
here as the attempt number because tokens are only compared; `expired` says whether
`lease_until` has passed), `audit` its audit entries, `inv` the live inventory rows of the
ServiceAccount, `draft` a preview between its reads and its save, `wk` the callers of
`Process`, `net` the Kubernetes writes sent and not yet carried out, `api` and `rev` the
cluster. `effects`, `clean` and `purged` are history variables.

| Action | Code |
|---|---|
| `PreviewRead`, `PreviewList`, `SavePreview`, `PreviewFail` | `Preview`, `SavePreview`, the preview handler |
| `Queue`, `QueueDeletion` | `Queue`, `QueueDeletion` (the DELETE handler) |
| `Claim` | first transaction of `Process` |
| `CheckServiceAccount`, `DeleteObject`, `UpdateBinding`, `CallFails`, `WriteRefused`, `TimeOut` | `apply`, call by call |
| `Commit`, `LeaseLost` | last transaction of `Process` |
| `Crash`, `LeaseExpires` | death of a Core, passing of the 45 s lease |
| `Serve`, `OtherClient...` (external) | the API server and everybody else who uses it |
| `ListServiceAccounts`, `FullSync` | the Agent's List and, later, `processSyncedServiceAccounts` |

A write stays in `net` until the API server carries it out, also when its caller has given
up: this is what makes late writes possible. Kubernetes is modelled from how the code uses
it: UIDs are never reused, every write raises the resource version, preconditions are
checked atomically with the write. A lost answer is a `Serve` that leaves the worker waiting.
`listed` is what an Agent has listed last: a full sync applies it any time later, also after a
purge, and then brings a purged row back.

### InventoryEvidence

State: `kube` is one Role in the cluster (risky or clean for one detector, which may be
deleted and recreated under a new UID), `agent` the collection each Agent makes, `net` the
posted collections (never removed: any can be delivered again, late or not at all),
`receipt` the cluster's row of `inventory_collections`, `row` the stored Role, `failing`
syncs whose transaction failed and whose failure is not recorded yet, `insight` the finding
of each UID, `ev`, `up`, `op` what evaluators, updaters and operators are doing between
their statements. `lastClean` and `basis` are history variables.

| Action | Code |
|---|---|
| `SyncOnce`, `StartList`, `ListRoles`, `Post` | `SyncOnce`, `buildPayload`, `postPayload` of the Agent |
| `SyncObservedData`, `SyncUnapplied`, `SyncRollsBack`, `RecordFailure`, `FailureUnrecorded` | `SyncObservedData` with `processSyncedRoles`, its order check, and its failure upsert |
| `SyncUnverifiedData` | `SyncUnverifiedData` |
| `FetchRoles`, `Evaluate`, `CreateOrUpdateInsight` | `evaluateRoles`, `createOrUpdateInsightTx` |
| `PickInsight`, `SnapshotVersion`, `ReadSnapshot`, `CheckEvidence`, `CheckRisk`, `Resolve` | `UpdateStatusForResolvedRisks`, statement by statement |
| `OperatorReads`, `OperatorWrites` | acknowledge, resolve, dismiss and PATCH handlers |

The clock is coarse: any number of actions happen within a tick and a tick may fall between
any two, so every order of times, equal times included, occurs. Agents and Core share it, as
`docs/reference/INVENTORY.md` requires synchronised clocks. `updated_at` columns are compared for equality
only and are version numbers. A digest stands for the contents it digests. `namespaceScope`
is the set `Covering`. A transaction that holds the receipt's row lock is one action; so is
the resolving transaction from its second evidence read on, which shares that lock. The time
against which it measures the evidence is taken before it waits for that lock (`ReadSnapshot`,
field `now`), so a receipt may be older than `MaxAge` by the time the finding is closed.

Collections are ordered by when their attempt began, as `docs/reference/SECURITY_INVARIANTS.md` says,
not by when Roles were listed. A later attempt of one Agent may have listed Roles before an
earlier attempt of another did, so the stored Role may step back to an older List;
`InventoryMovesForward` therefore speaks of attempts (`basis`). Automatic resolution is not
misled by this: it goes by the List time of the receipt it uses (`ResolvedOnEvidence`).

### SyncEvaluation

State: the flags `running` and `pending` of `coalescedEvaluation`, its goroutine (`pass`),
the handlers between the commit of a sync and the request of its evaluation, the scheduler's
first pass after a start. The inventory is the number of committed full syncs; `attempted` is the
newest inventory a pass was begun on. A pass that fails or meets its two-minute limit is
logged and not repeated before the next sync or six-hourly tick; the module promises that a
pass is begun, not that it succeeds.

### RuntimeIngest, FalcoOutbox, RuntimeFileReader, EvidenceDelivery

`RuntimeIngest` is Core's side: `requests` are the POSTs it works on (a request that its
sender has given up goes on), `claims` the records that are stored with the payload they had,
`effects` how often the effects of a record ran. `FalcoOutbox` and `RuntimeFileReader` extend
it with the two readers.

`FalcoOutbox`: `file` is the log (inode, lines, partial last line), `disk` and `mem` the outbox
file and its copy in memory, `rd` the cursor, `poll` the poll in progress with what
`DeliverIsolated` has still to post. Lines are numbered and stand for their bytes; what a line
yields is its kind (`LineKinds`).

| Action | Code |
|---|---|
| `StartPoll`, `EnterFlush`, `Post`, `KeepUnsent`, `Halves`, `Answered`, `TimesOut`, `EndStage`, `FlushEnds` | `load`, `flushDelivery`, `DeliverIsolated`, `sendContext` |
| `Valid`, `Small`, `SaveDone`, `SaveFailed`, `SaveFlush`, `Checkpoint` | `save`: validation, encoded size, temporary file, rename, directory sync |
| `SkipHistory`, `ReadFile`, `ReadFails`, `ObserveWindow` | `readAndSend` |
| `Crash`, `StartLine`, `WriteLine`, `ReplaceFile`, `RecreatePod` | process death; Falco, log rotation, Kubernetes (external) |
| `CheckOwnership`, `IngestEvent`, `IngestDone`, `IngestFails` | `PostRuntimeEventsV2Scoped`, `ProcessRuntimeEventForIdentity` |

`ImplementsDelivery` is the refinement: each event is mapped to `StatusOf` (unwritten, unread,
stored, applied, lost) and every step of the reader, its faults included, is a step or a
stutter of `EvidenceDelivery`. An event counts as lost only when its line was rotated away
before a poll, was skipped as history at a cold start, or was reported as lost.

A save is refused by `validate` or because the encoded state is larger than 16 MiB. Nothing checks
the size before: an event has the size `EventBytes` of its line's kind, a retry time takes one byte
more than the zero time, and a refused save is an error of the poll, which leaves memory, disk and
cursor as they are. That `validate` never refuses is the property `RefusedOnlyForSize`.

`RuntimeFileReader` models the readers that keep their cursor in memory only and send the
unread rest of the file as one batch. A replaced file is a new one, known by its inode; that the
same file is truncated, or truncated and written again past the cursor, is left out here.
The generic reader's lines are of two Pods, of which Core need never learn the second (`Synced`):
its records are refused, and with them the whole batch, for as long as they stay in the file.
`RecordsAreApplied` names this exception (`HeldUp`).

### RuntimeCoverage

Time is a sequence of moments; slot `t` lies between moments `t` and `t + 1`, and `truth[t]`
says what really happened in it. `agent` is the reporters' memory, `sensor` the source that
signs health reports, `net` the requests on their way (a request that was handled may stay there
and be handled again: a re-post after a lost answer), `producer`,
`coverage`, `receipts`, `healths` Core's rows. Actions are the reporters' `Observe`, `Reset`,
`PostCoverage`, `Report`, `PostHealth` and the three handlers, each one transaction.
`EffectiveStatus` and `CoversInterval` are Core's verdict; `CoverageIsTrue` compares it with `truth`.

### SBOMPipeline, SBOMQueue, SBOMStore, SBOMMatching

`SBOMQueue` is the Agent's work queue (`queue`, `active`, `retryCount`, `failedPods`, retry
timers, workers, the copy that reconciliation works through). `SBOMStore` holds Core's rows and
the handlers of `SendSBOMFinding`, cut where the code leaves a transaction (`ReadExisting`,
`StoreSBOM`, publishing). `SBOMMatching` has the stream, dead letters, the watermark of
`ClaimSBOMEvent`, match runs, findings, the re-match marker and the orphan clean-up;
`SBOMPipeline` composes them: calls connect workers to handlers, time out while the handler
goes on, and both processes die. A match reads the row, then the mirror's version, then claims its
event: three steps. The update that ends a run may fail, which is only logged. A transaction that
fails in Core ends as a fatal error or as one whose text has "duplicate key", which the Agent
counts as stored already (`processor.go:115`, `:137`; `duplicates` remembers for which containers). An extraction is its package set (one that survives
sanitising or not), its confidence and its signature; a published event carries the row and its version.

### VulnCatalog

A row of `versions` is an advisory's content with the generation that inserted it (`from`) and
the one that closed it (`to`). `gens` are the generations' statuses, `meta` the file tracker,
`files` the directory. `load` is the process that holds the lock, with its program counter;
`StartLoad` to `EndLoad` follow `main`, `LoadAll` and `LoadChanged`; superseded generations are
retired one at a time, and a load may die between two of them. `Prune` is one step for three
`DELETE`s: a row stands for an advisory's rows in all three tables, and what is deleted is
invisible to every kept generation, before the last `DELETE` as well as after it. `BootCheck`, `BootStart`,
`BootSkip` are Core's bootstrap, which looks before it locks. `BeginRead`, `QueryRanges`,
`QueryRefs`, `Expire` are the matcher's two queries and their cache. The order of a directory
scan does not matter and a batch is one file. The operator writes the directory between loads;
the fetcher writes it in the load's own `fetch` phase.

### VulnFeed

The bucket (external) has exports per ecosystem; an advisory is its modified time. `Fetch` goes
through the ecosystems in order: index or archive, file by file, then `removeUnexported`, then
the saved state. Faults: failed requests, a killed run, an export that is truncated for a
while by enough for `checkShrink` to notice.

### RuntimeRescore

`item` is the entry of `m.items` of each replica, `stray` a timer whose item was flushed by
another callback, `waiting` callbacks before the mutex, `job` the goroutines of evaluation and
calculation. `riskScore` is the number of events that the stored calculation has read.

### PodEvents

`queue` and `quarantine` of the collector, the flush in progress with its chunks (split like
`DeliverIsolated` does, within `PostLimit` requests), Core's `k8sEvents`. The informer may report
at any moment of a flush, because a flush posts without the mutex.

## 4. Runs

| Run | What it checks | What it shows |
|---|---|---|
| `sa_safety` | `TypeOK`, `AuditTellsHistory`, `ExactTarget`, `EffectIsNextStep`, `RowsOnlyAdvance`, `ProgressIsReal`, `EffectsOnceInOrder`, `PurgedIsGone` | two workers, a crash or stall, late writes, other clients: only reviewed versions are written, once, in step with durable progress and log; DELETE beside a previewed deletion |
| `sa_liveness` | `QueuedEnds` | every queued operation ends in spite of a crash or a stall |
| `sa_retry_budget` | `RetryBudget` (violated) | finding 1 below |
| `ie_inventory` | `ReceiptMatchesInventory`, `InventoryMovesForward`, `ReceiptMovesForward`, `ResolvedOnEvidence`, `NewestSnapshotClean` | scoped, unverified and blind Agents, failed transactions, late failure records, an evaluator, an updater and an operator |
| `falco_outbox` | `RefusedOnlyForSize`, `EffectsOnce`, `NoConflict`, `CompleteWindowIsDelivered`, `ImplementsDelivery` | every order of log writes, rotation, crash, failed save and late answer, an outbox full by count or by bytes; the outbox implements durable delivery |
| `falco_liveness` | `StoredIsApplied` | what the outbox holds is applied, events in quarantine included |
| `runtime_coverage` | `CoverageIsTrue`, `ReceiptsAddUp`, `ObservedIsAccounted` | Core vouches only for time that was watched |
| `sbom_pipeline` | `ActiveIsExact`, `SucceededIsStored`, `TrustedRowsAreWhole`, `RunIsExclusive`, `QueuedStaysClaimed`, `SnapshotKept` | the pipeline end to end with timeouts, database errors, crashes on both sides, redelivery, re-match and clean-up |
| `sbom_redelivery` | `AckedIsMatched` (violated) | finding 2 below |
| `sbom_recovery` | `FailedRecovers` (violated) | finding 3 below |
| `core_components` | `NotStranded`, `EventuallyAttempted` (`SyncEvaluation`); `KeptIsStable`, `LoadIsDelta`, `OnlyStoppedLoadsLose` (`VulnCatalog`); `MirrorCatchesUp` (`VulnFeed`); `NoSignalForgotten` (`RuntimeRescore`) | four parts of Core that share no state |
| `agent_components` | `CursorFollowsCore`, `RecordsAreApplied` (`RuntimeFileReader`); `NewestIsKept`, `EventsReachCore` (`PodEvents`) | two parts of the Agent that share no state |

Every property of a passing run has a mutant in `PROJECT.json`: the model with one plausible
bug in it, on which TLC finds that property violated.

### Several instances in one run

`core_components` and `agent_components` are sums, not products: `component` is chosen in the
initial state, only that component takes steps, and the others stay in an initial state. A
property of one component is checked in that component's behaviours; in the others its state
is constant. Fairness is stated for each component while it is the one that runs. A step is
the component's own `Next`, so each is explored as it would be in a run of its own.

Other runs explore the union of small instances. A `CONSTRAINT` (`Instances`, `Box`) keeps a
behaviour inside one of them, and `SBOMPipeline` begins with one of `PipelineBudgets`, which
says how often each thing may still happen. A constraint cuts off states beyond a bound; every
prefix inside it is still a real behaviour. Where the run has a liveness property, what is cut
off is a bounded event of the environment or a fault, never something that fairness promises.

### Bounds, and why they are enough

* Two workers are the fewest with a takeover, and workers differ in nothing else (they are
  symmetric in the safety run). `MaxFaults` counts crashes and stalls of a lease holder;
  one suffices for a takeover with the old holder alive. `MaxAttempts = 2` reaches the
  budget. `MaxRev` counts objects that other clients create or edit. The code's limit of 500
  listed objects is `ListLimit`; what exceeds it is not explored. The safety run unites a
  revocation, a binding edited back and forth, and deletions by request and by preview; the
  ServiceAccounts are listed anew only in behaviours without a fault. The proofs cover every
  number of workers, operations and objects.
* `InventoryEvidence`: two edits make a Role risky, clean and risky again while evidence is
  gathered and disturbed; `MaxAge` below `MaxClock` lets evidence expire. Four instances: three
  Agents with failures and without findings; one Agent with an operator, in two ticks; two Agents,
  one blind to the namespace, with a Role that is recreated, in three ticks where it is not
  edited; and one Agent that syncs three times in three ticks, so that a sync comes between the
  updater's evaluation and its resolution (`NewestSnapshotClean`, whose mutant compares the UID
  only). The other instances sync twice. The run also begins with a state of the last instance
  (`TwiceSynced`), which adds no state and shortens its counterexamples.
* `FalcoOutbox`: `MaxEvents = 2` and a line of two events fill the outbox; three requests per
  poll are what isolating one event of a pair costs; one fault anywhere and one rotation. Two
  events of a pair fit the outbox's three bytes, two others do not.
  `RegrowPastCursor = FALSE` excludes a file truncated in place that has reached the cursor again
  by the next poll, which the code cannot see (section 5). Taken literally (`Unseen`) it also
  excludes every truncation in place while a cursor is at the start of the file, where there is
  nothing below the cursor to lose. The source with a recreated Pod is not rotated.
* `RuntimeFileReader`: three lines, one that is not JSON and one each of a Pod that is learnt and of one that
  may stay unknown; Falco's file has a line whose Pod is looked up and may be recreated.
* `RuntimeCoverage`: four moments are a window, a gap and a window with one left to expire; at most
  two requests are under way where the Agent restarts, one elsewhere; a request may be handled any number of times. A sensor that signs every slot is
  in the instances in which it may be restarted or its second slot is bad, elsewhere it signs
  two reports.
* `SBOMPipeline`: two Pods with three containers against a queue of one slot; two handlers, two
  matchers, two replicas; every kind of extraction for one image handled concurrently.
* `VulnCatalog`: two advisories, three generations of which two are kept, so that a roll-back, a
  pruning and a read that spans both occur. Boxes: reads without faults, one crash or failed
  call at any step without reads, and the bootstrap.
* `VulnFeed`: two ecosystems that may share both advisories, three publications, `CursorOverlap`
  of one, an incremental limit of one so that the index path falls back to the archive, faults
  among the first two publications.
* `RuntimeRescore`: two replicas, three goroutines at a time, two events, one fault.
* `PodEvents`: queues of two events and chunks of two, three events to overflow them; two
  requests per flush, so that quarantined events compete for them; two versions of an event.
* `SyncEvaluation`: three handlers put one sync before, one during and one after a pass.

### Fairness

* `sa_liveness`: a running worker proceeds (each call has a 15 s budget), some worker claims a
  claimable row (`Start` ticks until Core stops, and orders by age), leases expire. Nothing is
  assumed of users, other clients or the API server.
* `falco_liveness`: the poll loop goes on, Core finishes what it works on, inventory syncs learn
  of Pods. Strong fairness of `StartPoll(FALSE, FALSE)` and `StartPoll(FALSE, TRUE)` says that
  time passes: polls happen again and again after `RetryAt` and after the quarantine's retry time.
* `SyncEvaluation`: a handler that has committed goes on to its trigger unless Core
  restarts, the goroutine runs, the scheduler's first pass follows a start; its later ticks are
  not relied on. Restarts are bounded: with one before each request, nothing would ever be
  evaluated.
* `VulnFeed`: the CronJob runs the update again and again and a run proceeds; a broken export is
  repaired. Publications and faults are bounded.
* `RuntimeFileReader`: the ticker polls, answers are handled, Core works, syncs learn of the Pods
  in `Synced`; nothing is assumed of the others.
* `PodEvents`: the ticker flushes and a flush proceeds, the backoff ends, the informer's 30 s resync
  reports every event again and again. Strong fairness of `StartFlush(TRUE)`: the five minutes
  between quarantine retries pass while flushes go on.

## 5. Findings and deviations

Shown by runs:

1. `RetryBudget`: `Process` counts every claim against `MaxAttempts`, completed steps and
   takeovers included, so a plan of many steps is blocked by its first outage, where the
   documentation promises up to 20 attempts.
2. `AckedIsMatched`: an event whose match failed is redelivered, finds its own claim and is
   acknowledged as a replay with no findings stored, where `core/cmd/main.go:228` says it is retried.
3. `FailedRecovers`: the repository refuses failed -> complete, so a good SBOM after a failed one is
   an internal error, where `handler_sbom.go:558` says that it recovers.

Met while modelling and not given a run of their own. The models allow all of these, and the
properties are stated so that they are true of the code.

ServiceAccounts and findings:

* The UID of the ServiceAccount is checked in one call and the binding or Secret written in the
  next (`service_account.go:167`); `SERVICEACCOUNT_MUTATIONS.md:29` says a replacement blocks
  the write. The write itself is still the reviewed one (`ExactTarget`).
* The acknowledgement handlers check the status and then update by ID alone
  (`insights_handlers.go:776`); a finding closed in between becomes acknowledged, that is open. A
  reopening by PATCH does not renew `DetectedAt`.
* `FINDINGS_AND_RISK.md:106` says findings of deleted UIDs resolve as before; the evidence check
  refuses them.

Runtime evidence:

* A Falco file truncated in place that outgrows the cursor between two polls is read from the old
  offset (`falco_reader.go:210`, constant `RegrowPastCursor`). Nothing bounds a batch by what is
  left of the outbox's 16 MiB: when a slice does not fit beside events in quarantine, the save is
  refused and reading waits until the quarantine has drained, which may be never. A line longer than 1 MiB is never
  consumed. Without a delivery state a retried named record may resolve to another Pod and meet
  a 409 for ever (`falco_reader.go:472`).
* The exact replay of a coverage window is refused with 409 once the source's session has changed;
  `RUNTIME_EVIDENCE.md:92` says replays are accepted.
* Core keeps the first version of a Kubernetes event (`pod_detail_services_handlers.go:162`), although
  the Agent takes care to send the newest (`NewestIsKept` is about the Agent). The flush
  at shutdown posts nothing, because its context is cancelled. A cluster with more than 400
  events overflows the collector's queue at every resync.
* Rescoring: a calculation that read earlier may be saved later, because calculations overlap and
  `SaveScoreV3` upserts unconditionally (`runtime_attack_rescore_manager.go:29` says duplicates are
  safe); events less than the debounce apart postpone the rescoring without limit; a restart
  forgets debounced Pods, and a Core that dies between an ingest's commit and `Notify` never
  notes the event. `NoSignalForgotten` therefore speaks of what was read and saved at least
  once, and excuses restarts.

SBOM pipeline:

* The Agent takes any error whose text has "duplicate key" for "already stored" (`processor.go:115`,
  `:137`). `SendSBOMFinding` puts the database's text into its error (`handler_sbom.go:588`), and the
  transaction was rolled back: the Pod counts as done although Core has nothing. `SucceededIsStored` excepts these containers.
* The stream's default consumers are ephemeral and begin with everything (`main.go:200`): each
  replica gets each event, and a new Core process gets acknowledged ones again. In the model an
  acknowledged event is gone for all; redelivery before that is modelled. A second handling meets the watermark.
* The reconciliation clears `failedPods` and drops a Pod for which `Enqueue` finds the queue full or
  the Pod still active (`queue.go:252`), until the Agent restarts.
* An invalid signature version is stored as the status of the components, not as failed
  (`handler_sbom.go:289` against 514-533). A preserved snapshot takes an empty signature, so that a
  later real drift is excused. A request without packages that read a drift-failed row can wipe its components.
* An event that arrives late is matched under the newer version, and the newer event is skipped as
  a duplicate; a re-match's timestamp, read before its claim, can lose to the watermark; an older
  run can overwrite newer findings of another key.
* Core that dies between claiming a generation and publishing its re-match loses that re-match
  (`cve_catalog_rematch.go:137`). A row that was committed whose event was not published is
  reused by the retry when that retry reports a failed extraction.
* `EnsureMatchRun` marks a run that timed out as failed and does not run it again; two tests of
  the repository say different things about it. `sbom_dlq_worker.go` says "without auto-replay" and replays.

Catalogue and feed:

* `GetFilesToProcess` records files as pending before they are loaded, and files are marked done before
  the generation is activated. When the load then fails or dies, later incremental loads
  take those files as read; nothing ever stores "failed", which `incremental_tracker.go:55` names
  as a reason to read again and `directory_load.go:221` relies on. This is the exception in
  `OnlyStoppedLoadsLose` (`dropped`). A full load cures it.
* `bootstrapVulnCatalog` checks for an empty catalogue before it takes the lock (`main.go:683`). A load that
  ends in between is replaced by the bundle, and its files too count as read (also `dropped`).
* `LoadAll` records its files after reading them, so with a writer beside it a change in between is
  missed; the model lets nobody write during a load. A full load whose recording failed and
  a file removed afterwards: the removal is not noticed until the next full load.
* Files that a killed fetch wrote and that leave the export before the next success stay for ever
  (`orphans`). A failed ecosystem does change files, although `Fetch` says that it leaves them. A
  truncated export that passes `checkShrink` removes advisories that are not fetched again by the index
  path once it is repaired; the model truncates by more than that. An archive older than the index may put a
  shared advisory back. Ecosystems taken out of the configuration keep their advisories.
* A single read that begins before and ends after `Keep` activations may see a pruned generation
  (`KeptIsStable` speaks of generations that are still kept).

## 6. Proofs

`ServiceAccountMutation_proofs` proves, for all constants that satisfy the module's
assumptions (the sets are disjoint and finite where they are listed, the bounds are numbers):

* `TypeCorrect`: `TypeOK`, and `Shape` (workers and requests refer to rows and steps that are there);
* `ProgressTheorem`, `EffectsTheorem`, `PurgeTheorem`, `AuditTheorem`: the invariants
  `ProgressIsReal`, `EffectsOnceInOrder`, `PurgedIsGone`, `AuditTellsHistory`;
* `NextStepTheorem`, `ExactTargetTheorem`, `RowsTheorem`: the action properties.

The inductive invariant `IndInv` strengthens them with `ClusterInv` (no UID or version is ahead of
`rev`), `PlanInv` (each step was read from the cluster in the past: `Behind`), `RowInv`,
`WorkerInv` (a worker that will report success stands on a step that is carried out),
`LeaseInv` (one live claim per token), `NetInv` (a request carries its step's versions and is
never ahead of its row) and `EffectInv`. The argument: because UIDs and versions never come
back, a step once carried out stays so (`Realised`), and a late duplicate of it misses its
precondition; hence no second effect, and every effect is the row's next step. The audit log
needs `AuditInv` besides: no worker, request or effect belongs to a row that is not queued.

`CoreEvaluation_proofs` proves, of `SyncEvaluation`, `TypeCorrect` and `NotStrandedTheorem`
for any number of handlers, syncs and restarts. `IndInv` adds that whatever is not evaluated
yet is outstanding somewhere: a handler about to ask, the pending flag, a pass about to read or
the scheduler's first pass.

The same module proves `NoSignalForgottenTheorem` of `RuntimeRescore`, for any number of
replicas, timers and goroutines. Its invariant says where the last notified event is while no
saved calculation has read it: in an armed or fired item, or in a goroutine that has yet to read the signals or
has read enough of them. A timer that finds its item gone needs no clause of its own: the item
was flushed, and what flushed it carries the event.

`InventoryEvidence_proofs` proves, for any sets of Agents, evaluators, updaters and operators
and any bounds, `TypeCorrect` and

* `ReceiptTheorem`: the invariant `ReceiptMatchesInventory`;
* `ReceiptForwardTheorem`, `InventoryForwardTheorem`, `NewestSnapshotTheorem`,
  `ResolvedTheorem`: the action properties `ReceiptMovesForward`, `InventoryMovesForward`,
  `NewestSnapshotClean`, `ResolvedOnEvidence`.

The properties are not inductive: they say nothing of what Agents and updaters hold in their
hands. `IndInv` adds `TimeInv` (nothing is dated in the future, the stored Role is no newer
than the receipt), `ListInv` (a List that shows the Role clean began no later than
`lastClean`, wherever its answer is: with the Agent, in the network, awaiting a failure record, in the
receipt) and `UpdaterInv` (while the Role's version is the one an updater read, the Role is
the one it read and checked; while the finding's is, so is the finding). The argument of
`ResolvedTheorem`: at the resolution both versions are unchanged, so the snapshot checked is
the stored, clean Role and the finding is the one the evidence was compared with; the receipt
vouches for that snapshot, and its List, which began after the detection and no longer than `MaxAge` before the updater took the time,
is a lower bound on `lastClean`.

`RuntimeCoverage_proofs` proves `CoverageIsTrueTheorem`, `ReceiptsAddUpTheorem` and
`ObservedTheorem` for all leases, ages and bounds. The invariant follows a claim about the past
from where it is true to where it is believed: windows and health reports are true when made; a
message carries its claim however late it comes and however often it is handled, because the slots it speaks of never change
again; and a row joins two claims only where the first ends and the second begins.

`SBOMPipeline_proofs` proves, for any sets of Pods, workers, handlers, matchers and replicas
(workers and handlers are finite, which the assumptions say), any capacity and any budget:

* `RunIsExclusiveTheorem` from `RunInv`: a run at work has its key in the table, which never
  loses one, so a matcher that found its key missing is alone with it;
* `QueuedStaysClaimedTheorem` from `ClaimInv`: a replica that holds a claim was the one to raise
  the marker to its generation, which is not queued yet and which no other replica holds;
* `TrustedRowsAreWholeTheorem` and the action property `SnapshotKeptTheorem` from `BaseInv`,
  which adds to the rows what the handlers hold in their hands: a handler without packages
  goes on to the store only when the row it read was neither complete nor partial, and the
  reason it carries over fits the status it read;
* `SucceededIsStoredTheorem` from `CallInv`: a waiting worker's handler works on the container
  the worker sent, no two workers wait for one handler, and what a worker without an error no
  longer has to send has a row or was answered with "duplicate key";
* `ActiveIsExactTheorem`: the holders of a Pod are counted with lemmas on the cardinality of
  the channel's slots and of the workers, one for each way in which a step moves a holder.

`VulnCatalog_proofs` proves, for any set of advisories, any bundle, any number of kept
generations and any number of loads, readers and failures:

* `KeptIsStableTheorem` from `CatalogInv`. A row mentions only settled generations or the last
  one, which the running load is writing or a dead one has left behind; the lifetimes of an
  advisory's versions are apart; hence a write, a close or an undo at the last generation leaves
  the rows alike for every earlier one. The kept generations lose members for good, except that
  the one just activated joins them: so what pruning removes no kept generation will ever show
  again, and a read that began on a generation still kept has seen nothing else;
* `LoadIsDeltaTheorem`, an action property, from `DeltaInv`: advisory by advisory, what the
  running load has read is current, what it has not is as it was, and a load only begins to
  write after the remains of an earlier one are gone;
* `OnlyStoppedLoadsLoseTheorem` from `TrackerInv`: a file the tracker has recorded as it is now
  is shown by the active generation, is in the hands of the running load or has been dropped.

`FalcoOutbox_proofs` proves, for any pods, files, limits and bounds that satisfy the
assumptions (a file has a positive inode, two lines of one file have different records):

* `NoConflictTheorem` and `EffectsOnceTheorem` from `RecordInv`: wherever an event is (in memory,
  on the disk, in a batch, in a request), it is the event its line makes of its record, dated by
  the one version of the Pod that the record names; so two events with one record have one payload;
* `RefusedOnlyForSizeTheorem` from `SaveInv`: the parts of a poll's work (the batches still to be
  sent, what is to be retried, what was rejected, what was kept aside) hold different records, all
  of them from the outbox in memory, and a file is read from where the cursor stands. That there
  are no more of them than the outbox held is the pigeonhole principle (`NoLonger`); what
  `FlattenSeq` returns is found by way of a least counterexample, not by induction;
* `DeliveryTheorem`, the refinement of `EvidenceDelivery`, step by step, from four more invariants:
  `TellInv` (a file that was replaced is noticed from every cursor, and no cursor that a restart
  goes on from is behind the one in memory), `BatchInv` (Core goes through a batch in order),
  `HandInv` (what a flush took from the outbox is claimed by Core or still in hand) and `KeepInv`
  (nothing is sent that the outbox does not hold, and what is in memory is on disk);
* `CompleteWindowTheorem` from `SeekInv`, `CoverInv` and `WindowInv`: as long as a poll has nothing
  to report, every event of a line before the cursor is claimed by Core, held or reported earlier.
  It needs that parsing is complete: the events of each line are among those of the slice.

The last two have the hypothesis `~RegrowPastCursor`, which leaves out what the reader cannot see:
a file replaced under the same inode that has grown past the cursor before the next poll.

`AgentReaders_proofs` is about two parts of the Agent that hold what Core has not taken yet.

* `CursorFollowsCoreTheorem` (`RuntimeFileReader`), for any file, batch size, number of attempts
  and request slots. The cursor moves when a request is answered, so `ReaderInv` says what a
  request holds from the read on: a line between the cursor and where the request would move it
  is in its batch or holds no event (`SendInv`), an answer of success means that Core has claimed
  the whole batch (`BatchInv`), and a line below the cursor is claimed, holds no event, was passed over or was
  counted as dropped (`PassedInv`). Core only ever adds claims, so a late answer or a second
  attempt changes none of this.
* `NewestIsKeptTheorem` (`PodEvents`), for any set of events, batch size, capacity and budget of
  requests. What a flush holds may be older than what the informer has reported since; `EventsInv`
  says that the newer version is then in the queue (`NewestInv`), which `flush` merges last, and
  that nothing a flush holds is in the quarantine as well (`ApartInv`), or `enqueue` would
  put the newer version where the merge lets an older one overwrite it. `KeptInv` is the property
  itself, by UIDs. What `Merged` (a recursive function, as the loops of `flush` are) returns is
  found by way of a least counterexample: each UID once, in its last version.

Least and greatest elements (`Min`, `Max` of FiniteSetsExt, which the code's MAX and LIMIT
queries are) exist by well-founded induction over the numbers, applied to the set of
counterexamples: the library's induction theorem for predicates is not needed.

The inductive invariants were checked by TLC on the instances of the runs before they were
proved, except `StoreInv`, which compares records with "none" and cannot be evaluated. The
proofs also found four `CASE` expressions whose arms overlapped (`SanitizedStatus`,
`StatusOf`, `ReadIndex`, `WriteVersion`): TLC takes the first arm, the semantics of TLA+ leaves
the choice open. They are `IF` chains now, in the order of the code. `PodEvents` merges with a
function over the events in their order, as the code does, where it had filtered sequences before.

## 7. Only model-checked, and not modelled

Every invariant, action property and refinement that a passing run checks is also a theorem
(`DeliveryTheorem` and `CompleteWindowTheorem` under the hypothesis above). Only model-checked is
liveness (`QueuedEnds`, `EventuallyAttempted`, `StoredIsApplied`, `RecordsAreApplied`,
`EventsReachCore`, `MirrorCatchesUp`): fairness is out of the prover's reach.
`FalcoOutbox!TypeOK` and `SBOMPipeline!TypeOK` describe the state; no run lists them.

Not modelled: syncs of Agents that predate collections and send none; permissions and cluster
scoping of requests (guards that change nothing); Kubernetes kinds other than the ones named;
which detectors qualify for auto-resolution (a pure check of the rule); assignment and deletion
of findings, vulnerability findings; the in-process matcher used without NATS; the malware
marker, which works like the catalogue's; parsing of OSV files, version comparison, severity, KEV
and EPSS enrichment, remapping of findings (conversions and string algorithms without
state); the eBPF sensor, websocket hubs and caches; investigation cases (every handler reads a
row and saves the whole of it without a version check, so that concurrent transitions overwrite each other);
users, sessions and rate limits; database isolation below the row locks the code takes; clocks
that disagree. The sizes of the untouched parts (handlers that only query, extraction, graph
building, risk formulas, migrations, the dashboard) are most of the repository's lines.
