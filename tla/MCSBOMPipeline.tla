-------------------------- MODULE MCSBOMPipeline --------------------------
(* A small instance of SBOMPipeline for TLC. *)
EXTENDS SBOMPipeline, TLC

MCContainers == [p1 |-> <<"a", "b">>, p2 |-> <<"c">>]

Good == [packages |-> "A", high |-> TRUE, sig |-> "s1"]
Other == [Good EXCEPT !.packages = "B"]
Newer == [Other EXCEPT !.sig = "s2"]
Poor == [Good EXCEPT !.high = FALSE]
Refused == [Good EXCEPT !.packages = "dropped"]
Unsigned == [Good EXCEPT !.sig = "bad"]
Failed == [packages |-> "none", high |-> FALSE, sig |-> ""]
MCExtractions == {Good, Other, Newer, Poor, Refused, Unsigned, Failed}

Symmetry == Permutations(Workers) \cup Permutations(Matchers) \cup Permutations(Replicas)

Nothing == [who |-> {"p2"}, kinds |-> {Good}, seen |-> 0, calls |-> 0, faults |-> 0, deliveries |-> 0,
            ticks |-> 0, gens |-> 0, pods |-> 0, sweeps |-> 0]

(* Retries and give-ups of two Pods in a full queue. *)
QueueBudget == [Nothing EXCEPT !.who = {"p1", "p2"}, !.seen = 3, !.calls = 3, !.faults = 2]
(* All that may be extracted from one image, handled concurrently. *)
StoreBudget == [Nothing EXCEPT !.kinds = MCExtractions, !.seen = 3, !.calls = 3, !.faults = 1]
(* Rows that are cleaned up and stored again. *)
SweepBudget == [Nothing EXCEPT !.kinds = {Good, Failed}, !.seen = 2, !.calls = 2,
                               !.pods = 2, !.sweeps = 1, !.deliveries = 1]
(* Redelivered and failed matches. *)
MatchBudget == [Nothing EXCEPT !.seen = 2, !.calls = 2, !.faults = 1, !.deliveries = 3, !.ticks = 1]
(* New catalogue generations, claimed and released; one that is matched. *)
RematchBudget == [Nothing EXCEPT !.seen = 1, !.calls = 1, !.faults = 1, !.gens = 2]
CatalogBudget == [Nothing EXCEPT !.seen = 1, !.calls = 1, !.deliveries = 2, !.ticks = 1, !.gens = 1]
PipelineBudgets == {QueueBudget, StoreBudget, SweepBudget, MatchBudget, RematchBudget, CatalogBudget}

(* The run about failed rows: no fault, one failed extraction before a good one. *)
RecoveryBudgets == {[Nothing EXCEPT !.kinds = {Good, Failed}, !.seen = 2, !.calls = 3]}
(* The run about redelivery. *)
RedeliveryBudgets == {[Nothing EXCEPT !.seen = 1, !.calls = 1, !.faults = 1, !.deliveries = 2]}
=============================================================================
