------------------------- MODULE MCRuntimeCoverage -------------------------
(* A small instance of RuntimeCoverage for TLC. *)
EXTENDS RuntimeCoverage

Plain == agent.up => agent.enabled /\ ~agent.stopping /\ agent.from = agent.session
OneAgent == starts.agent <= 1 /\ (starts.agent = 1 => agent.up)
StartsAtOnce == starts.agent = 0 => clock = 1
OneRequest == Cardinality(net) <= 1

(* Every behaviour keeps to one of these: an Agent that restarts, while a  *)
(* request of its predecessor is on its way; a sensor that restarts; a     *)
(* slot with a loss or a failure; an Agent that is disabled, stops or skips *)
(* old records, before or after its first reports.  A sensor may sign a  *)
(* third report where it restarts, and where the slot of its second is bad. *)
FewReports == sensor.sequence <= 2

Instances ==
    StartsAtOnce /\
    (\/ starts.sensor = 0 /\ Bad = {} /\ Plain /\ FewReports
         /\ (starts.agent <= 1 => OneRequest /\ clock < 4)
     \/ OneAgent /\ Bad = {} /\ Plain /\ OneRequest
     \/ OneAgent /\ starts.sensor = 0 /\ Plain /\ OneRequest
         /\ (2 \notin Bad => FewReports)
         /\ \A t \in Bad : t < 3 /\ ~(truth[t].lost /\ truth[t].sick)
     \/ OneAgent /\ starts.sensor = 0 /\ Bad = {} /\ OneRequest /\ FewReports)
=============================================================================
