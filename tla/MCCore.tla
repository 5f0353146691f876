------------------------------- MODULE MCCore -------------------------------
(* Small instances of components of Core that share no state, checked side  *)
(* by side: a behaviour is one of a single component, and the others stay   *)
(* in an initial state.                                                     *)
EXTENDS SyncEvaluation, VulnCatalog, VulnFeed, RuntimeRescore

CONSTANTS h1, h2, h3

VARIABLE component

MCBundle == [a \in Advisory |-> IF a = 1 THEN "v1" ELSE None]

coreVars == <<component, vars, catalogVars, feedVars, rescoreVars>>

CoreInit ==
    /\ component \in {"sync", "catalogReads", "catalogFaults", "catalogBoot", "feed", "rescore"}
    /\ Init /\ (component # "sync" => stored = 0)
    /\ CatalogInit
    /\ \A a \in Advisory : component \in {"sync", "feed", "rescore"} => files[a].c = None
    /\ component = "catalogFaults" => files[1].c = "v1"
    /\ component = "catalogBoot" => files[1].c = None
    /\ FeedInit /\ RescoreInit

CoreNext ==
    /\ UNCHANGED component
    /\ \/ component = "sync" /\ Next /\ UNCHANGED <<catalogVars, feedVars, rescoreVars>>
       \/ component \in {"catalogReads", "catalogFaults", "catalogBoot"}
            /\ CatalogNext /\ UNCHANGED <<vars, feedVars, rescoreVars>>
       \/ component = "feed" /\ FeedNext /\ UNCHANGED <<vars, catalogVars, rescoreVars>>
       \/ component = "rescore" /\ RescoreNext /\ UNCHANGED <<vars, catalogVars, feedVars>>

\* Fairness and FeedFairness, of the component that runs.
CoreFairness ==
    /\ \A h \in Handler : WF_vars(component = "sync" /\ Trigger(h))
    /\ WF_vars(component = "sync" /\ Evaluate)
    /\ WF_vars(component = "sync" /\ PassDone)
    /\ WF_vars(component = "sync" /\ scheduler = "start" /\ ScheduledEvaluation)
    /\ WF_feedVars(component = "feed" /\ FetchStep)
    /\ \A e \in Ecosystem : WF_feedVars(component = "feed" /\ Restore(e))

CoreSpec == CoreInit /\ [][CoreNext]_coreVars /\ CoreFairness

(* Boxes: reads without faults and bootstrap, faults with one file that     *)
(* always parses, a bootstrap without faults; faults of the fetcher among   *)
(* the first two publications.                                              *)
NoReads == reader.pc = "idle" /\ \A g \in DOMAIN cached : cached[g] = {}
Box ==
    /\ component = "catalogReads" => catFaults = 0 /\ ~boot /\ writes <= 1
    /\ component = "catalogFaults" => NoReads /\ ~boot /\ files[1].c \in Good
    /\ component = "catalogBoot" => NoReads /\ catFaults = 0 /\ writes <= 1 /\ files[1].c = None
    /\ component = "feed" => feedFaults = 0 \/ published <= 2
=============================================================================
