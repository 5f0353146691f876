------------------------------ MODULE MCAgent ------------------------------
(* Small instances of parts of the Agent that share no state, checked side  *)
(* by side: a behaviour is one of a single component, and the others stay   *)
(* in an initial state.                                                     *)
EXTENDS RuntimeFileReader, PodEvents

VARIABLE component

GenericFile == [falco |-> FALSE, lines |-> <<"other", "bad", "uid">>]
FalcoFile == [falco |-> TRUE, lines |-> <<"uid", "named">>]
BothSources == {GenericFile, FalcoFile}
ThreeIds == 1 .. 3

AgentInit ==
    /\ component \in {"file", "events"}
    /\ Init /\ (component # "file" => source = GenericFile /\ inventory = {})
    /\ EventsInit /\ (component # "events" => owned = {})

AgentNext ==
    /\ UNCHANGED component
    /\ \/ component = "file" /\ Next /\ UNCHANGED eventVars
       \/ component = "events" /\ EventsNext /\ UNCHANGED vars

\* Fairness and EventsFairness, of the component that runs.
AgentFairness ==
    /\ WF_vars(component = "file" /\ (SkipHistory \/ Poll))
    /\ WF_vars(component = "file" /\ Answered) /\ WF_vars(component = "file" /\ Observe)
    /\ WF_vars(component = "file" /\ CoreStep) /\ WF_vars(component = "file" /\ AnswerUnheard)
    /\ \A p \in Synced : WF_vars(component = "file" /\ LearnPod(p))
    /\ WF_eventVars(component = "events" /\ FlushStep)
    /\ WF_eventVars(component = "events" /\ BackoffEnds)
    /\ SF_eventVars(component = "events" /\ StartFlush(TRUE))
    /\ \A u \in EventUID : WF_eventVars(component = "events" /\ Enqueue(u))

AgentSpec == AgentInit /\ [][AgentNext]_<<component, vars, eventVars>> /\ AgentFairness

(* Boxes.  Falco's file: two of a fault, a replaced file and a recreated    *)
(* Pod.  Events: event 3 is there to fill the queues, without faults and    *)
(* beside an event of an unknown Pod; or an event has two versions, alone   *)
(* or without faults.                                                       *)
Box ==
    /\ Falco => faults + file.gen + podGen <= 4
    /\ 3 \notin owned
    /\ (\E u \in EventUID : occurred[u] = 2) =>
         occurred[2] <= 1 /\ occurred[3] = 0 /\ (postFaults = 0 \/ occurred[2] = 0)
    /\ occurred[3] > 0 => postFaults = 0 /\ 1 \notin owned
=============================================================================
