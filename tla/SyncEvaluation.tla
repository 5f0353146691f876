--------------------------- MODULE SyncEvaluation ---------------------------
(***************************************************************************)
(* Which stored inventory the risk evaluation has looked at.  Every full    *)
(* sync asks for an evaluation of the whole database once it is committed;  *)
(* coalescedEvaluation (core/internal/api/agent_sync_evaluation.go) runs    *)
(* one pass at a time and turns the requests made during a pass into one    *)
(* further pass.  RiskScheduler evaluates when Core starts and every six    *)
(* hours.  The inventory is abstracted to the number of full syncs          *)
(* committed.                                                               *)
(***************************************************************************)
EXTENDS Integers

CONSTANTS
    Handler,      \* requests being served by SyncDataFromAgent
    MaxSyncs,     \* bound: full syncs
    MaxRestarts   \* bound: restarts of Core

ASSUME BoundAssumption == MaxSyncs \in Nat /\ MaxRestarts \in Nat

VARIABLES
    stored,     \* full syncs committed to the database
    handler,    \* "synced": committed, evaluation not requested yet
    running,    \* the two flags of coalescedEvaluation, guarded by its mutex
    pending,
    pass,       \* the goroutine: none, about to read the database, or done with it
    scheduler,  \* "start": Core started and the scheduler's first pass is to come
    attempted,  \* history: the newest inventory a pass was begun on
    restarts

vars == <<stored, handler, running, pending, pass, scheduler, attempted, restarts>>

TypeOK ==
    /\ stored \in 0..MaxSyncs /\ attempted \in 0..MaxSyncs
    /\ handler \in [Handler -> {"idle", "synced"}]
    /\ running \in BOOLEAN /\ pending \in BOOLEAN
    /\ pass \in {"none", "begin", "ran"}
    /\ scheduler \in {"start", "waiting"}
    /\ restarts \in 0..MaxRestarts

Init ==
    /\ stored \in 0..MaxSyncs /\ attempted = 0
    /\ handler = [h \in Handler |-> "idle"]
    /\ running = FALSE /\ pending = FALSE /\ pass = "none"
    /\ scheduler = "start"
    /\ restarts = 0
-----------------------------------------------------------------------------
\* The inventory transaction of a full sync commits.
SyncCommits(h) ==
    /\ handler[h] = "idle" /\ stored < MaxSyncs
    /\ stored' = stored + 1
    /\ handler' = [handler EXCEPT ![h] = "synced"]
    /\ UNCHANGED <<running, pending, pass, scheduler, attempted, restarts>>

StartPass == running' = TRUE /\ pass' = "begin" /\ UNCHANGED pending

DropRequest == UNCHANGED <<running, pending, pass>>                   \* mutant
RequestPass == pending' = TRUE /\ UNCHANGED <<running, pass>>

\* triggerFullSyncEvaluation.
Trigger(h) ==
    /\ handler[h] = "synced"
    /\ handler' = [handler EXCEPT ![h] = "idle"]
    /\ \/ ~running /\ StartPass
       \/ running /\ RequestPass
    /\ UNCHANGED <<stored, scheduler, attempted, restarts>>

\* The pass makes its first read: what is committed later does not count, although the
\* read of a later table may see it.  A pass that meets errors, or its two-minute limit, is
\* logged and returns like any other: it was attempted, and is not repeated.
Evaluate ==
    /\ pass = "begin"
    /\ pass' = "ran"
    /\ attempted' = stored
    /\ UNCHANGED <<stored, handler, running, pending, scheduler, restarts>>

EndPass == running' = FALSE /\ pass' = "none" /\ UNCHANGED pending
AnotherPassOnce == pass' = "none" /\ pending' = FALSE /\ UNCHANGED running      \* mutant
AnotherPass == pass' = "begin" /\ pending' = FALSE /\ UNCHANGED running

\* After a pass: requests made during it cause one more.
PassDone ==
    /\ pass = "ran"
    /\ \/ pending /\ AnotherPass
       \/ ~pending /\ EndPass
    /\ UNCHANGED <<stored, handler, scheduler, attempted, restarts>>

\* RiskScheduler.Start runs an evaluation at once, and one at every tick.
ScheduledEvaluation ==
    /\ scheduler' = "waiting"
    /\ attempted' = stored
    /\ UNCHANGED <<stored, handler, running, pending, pass, restarts>>

\* Core restarts: requests, flags and the pass are gone.
Restart ==
    /\ restarts < MaxRestarts
    /\ restarts' = restarts + 1
    /\ handler' = [h \in Handler |-> "idle"]
    /\ running' = FALSE /\ pending' = FALSE /\ pass' = "none"
    /\ scheduler' = "start"
    /\ UNCHANGED <<stored, attempted>>

Next == \/ \E h \in Handler : SyncCommits(h) \/ Trigger(h)
        \/ Evaluate \/ PassDone \/ ScheduledEvaluation \/ Restart

\* A handler that has committed goes on to request the evaluation, the goroutine runs, and
\* the scheduler's first pass comes after a start.  Later ticks are not relied on.
Fairness == /\ \A h \in Handler : WF_vars(Trigger(h))
            /\ WF_vars(Evaluate) /\ WF_vars(PassDone)
            /\ WF_vars(scheduler = "start" /\ ScheduledEvaluation)

Spec == Init /\ [][Next]_vars
FairSpec == Spec /\ Fairness
-----------------------------------------------------------------------------
\* When no request is being served, no pass runs and the scheduler only waits for its next
\* tick, a pass was begun on the newest inventory: a sync received during an evaluation is not
\* stranded (coalescedEvaluation), nor one whose request a restart swallowed.
NotStranded ==
    (\A h \in Handler : handler[h] = "idle") /\ ~running /\ scheduler = "waiting" => attempted = stored

\* The strengthening that makes NotStranded inductive: a request not yet turned into a pass is
\* either remembered in pending or about to be made, and nothing else is outstanding.
Outstanding == \/ \E h \in Handler : handler[h] = "synced"
               \/ pending \/ pass = "begin" \/ scheduler = "start"
IndInv == /\ TypeOK
          /\ running <=> pass # "none"
          /\ pending => running
          /\ Outstanding \/ attempted = stored

\* A pass is begun on every committed full sync in the end, restarts included.
EventuallyAttempted == \A n \in 1..MaxSyncs : stored >= n ~> attempted >= n
=============================================================================
