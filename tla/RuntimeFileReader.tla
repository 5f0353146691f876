------------------------- MODULE RuntimeFileReader -------------------------
(***************************************************************************)
(* The readers that keep their cursor in memory only: the generic runtime  *)
(* event file (agent/internal/runtime/events_reader.go) and Falco when no  *)
(* delivery state is configured (falco_reader.go with delivery == nil).    *)
(* A poll posts everything it read as one batch and moves the cursor when  *)
(* Core has taken it; the file is the retry buffer.                        *)
(***************************************************************************)
EXTENDS RuntimeIngest, SequencesExt

CONSTANTS
    Sources,      \* readers with the kinds of the lines written, in order
    Synced,       \* Pods that an inventory sync brings in in the end
    MaxReplaced,  \* bound: rotations
    MaxFaults,    \* bound: restarts, time-outs, Core errors
    MaxPods       \* bound: Pods that have had the name of a "named" line

ASSUME ReaderAssumption ==
    /\ \A s \in Sources : /\ s.falco \in BOOLEAN
                          /\ \A n \in DOMAIN s.lines :
                                 s.lines[n] \in {"uid", "bad"} \cup IF s.falco THEN {"named"} ELSE {"other"}
    /\ EventIds = UNION {DOMAIN s.lines : s \in Sources}
    /\ Pods = 1 .. MaxPods /\ Synced \subseteq Pods

VARIABLES
    source,    \* the reader at work and what is written to its file
    file,      \* generation (a new inode each) and the numbers of its lines
    written,   \* lines written so far
    podGen,    \* UIDs that the named Pod has had
    rd,        \* initialized?, generation last seen, offset
    poll,      \* the poll in progress
    faults,
    passed     \* history: lines skipped at the start, or dropped for want of a UID

sourceVars == <<source, file, written, podGen>>
vars == <<inventory, claims, effects, requests, source, file, written, podGen,
          rd, poll, faults, passed>>

Lines == source.lines
Falco == source.falco        \* skips what is there when it starts

ColdReader == [init |-> FALSE, gen |-> 0, offset |-> 0]
Idle == [pc |-> "idle", next |-> 0, slot |-> 0, dirty |-> FALSE]

Init ==
    /\ IngestInit /\ inventory \subseteq {1}
    /\ source \in Sources
    /\ file = [gen |-> 1, lines |-> <<>>]
    /\ written = 0
    /\ podGen = 1
    /\ rd = ColdReader
    /\ poll = Idle
    /\ faults = 0
    /\ passed = {}

Fault == faults < MaxFaults /\ faults' = faults + 1

WriteLine ==
    /\ written < Len(Lines)
    /\ written' = written + 1
    /\ file' = [file EXCEPT !.lines = Append(@, written + 1)]
    /\ UNCHANGED <<ingestVars, source, podGen, rd, poll, faults, passed>>

ReplaceFile ==
    /\ file.gen <= MaxReplaced
    /\ file' = [gen |-> file.gen + 1, lines |-> <<>>]
    /\ UNCHANGED <<ingestVars, source, written, podGen, rd, poll, faults, passed>>

RecreatePod ==
    /\ podGen < MaxPods /\ "named" \in Range(Lines)
    /\ podGen' = podGen + 1
    /\ UNCHANGED <<ingestVars, source, file, written, rd, poll, faults, passed>>

(* The events of a line.  The generic reader takes the Pod from the record *)
(* itself, Pod 2 in an "other"; Falco looks up a Pod that is only named.   *)
EventOf(n, uid) ==
    LET pod == CASE Lines[n] = "named" -> uid
                 [] Lines[n] = "other" -> 2
                 [] OTHER -> 1
    IN  IF Lines[n] = "bad" \/ pod = 0 THEN <<>> ELSE <<[id |-> n, pod |-> pod]>>

Parsed(lines, uid) == FlattenSeq([i \in DOMAIN lines |-> EventOf(lines[i], uid)])

(* Falco's first poll of a file with records: they are history. *)
SkipHistory ==
    /\ Falco /\ ~rd.init
    /\ poll.pc = "idle"
    /\ file.lines # <<>>
    /\ rd' = [init |-> TRUE, gen |-> file.gen, offset |-> Len(file.lines)]
    /\ passed' = passed \cup 1 .. written
    /\ UNCHANGED <<ingestVars, sourceVars, poll, faults>>

(* Mutant: the size alone tells. *)
ReplacedShrunk == rd.offset > Len(file.lines)
(* Another file, or less of it than has been read. *)
Replaced == rd.gen \notin {0, file.gen} \/ rd.offset > Len(file.lines)

(* readAndSend up to the POST; a slice without an event moves the cursor. *)
ReadAndSend(s, uid) ==
    LET reset == Replaced
        start == IF reset THEN 0 ELSE rd.offset
        took == SubSeq(file.lines, start + 1, Len(file.lines))
        events == Parsed(took, uid)
        dirty == reset \/ Len(events) < Len(took)
    IN  /\ poll.pc = "idle"
        /\ Falco /\ ~rd.init => file.lines = <<>>
        /\ rd' = [init |-> TRUE, gen |-> file.gen,
                  offset |-> IF events = <<>> THEN Len(file.lines) ELSE start]
        /\ poll' = [Idle EXCEPT !.pc = IF events = <<>> THEN "observe" ELSE "sending",
                       !.next = Len(file.lines), !.slot = s, !.dirty = dirty]
        /\ IF events = <<>> THEN UNCHANGED requests
                            ELSE Free(s) /\ requests' = Submitted(s, events)
        /\ UNCHANGED <<inventory, claims, effects, sourceVars, faults, passed>>

(* Mutant: the cursor moves whatever Core answered. *)
AnsweredAnyway ==
    /\ poll.pc = "sending"
    /\ requests[poll.slot].status \in Answers
    /\ rd' = [rd EXCEPT !.offset = poll.next]
    /\ poll' = [poll EXCEPT !.pc = "observe",
                   !.dirty = @ \/ requests[poll.slot].status # "ok"]
    /\ Drop(poll.slot)
    /\ UNCHANGED <<inventory, claims, effects, sourceVars, faults, passed>>

(* The POST answered: 2xx moves the cursor, anything else keeps the slice. *)
Answered ==
    /\ poll.pc = "sending"
    /\ requests[poll.slot].status \in Answers
    /\ rd' = IF requests[poll.slot].status = "ok"
             THEN [rd EXCEPT !.offset = poll.next] ELSE rd
    /\ poll' = [poll EXCEPT !.pc = "observe",
                   !.dirty = @ \/ requests[poll.slot].status # "ok"]
    /\ Drop(poll.slot)
    /\ UNCHANGED <<inventory, claims, effects, sourceVars, faults, passed>>

TimesOut ==
    /\ poll.pc = "sending"
    /\ Fault
    /\ poll' = [poll EXCEPT !.pc = "observe", !.dirty = TRUE]
    /\ UNCHANGED <<ingestVars, sourceVars, rd, passed>>

Below(n) == rd.gen = file.gen /\ \E i \in 1 .. rd.offset : file.lines[i] = n

(* coverage.Observe: a window that had a loss or an error has failed. *)
Observe ==
    /\ poll.pc = "observe"
    /\ poll' = Idle
    /\ passed' = IF poll.dirty
                 THEN passed \cup {n \in 1 .. written : Below(n) /\ Lines[n] = "named"}
                 ELSE passed
    /\ UNCHANGED <<ingestVars, sourceVars, rd, faults>>

(* The Agent restarts: the cursor is gone, and so is the coverage session. *)
Restart ==
    /\ Fault
    /\ rd' = ColdReader
    /\ poll' = Idle
    /\ UNCHANGED <<ingestVars, sourceVars, passed>>

CoreStep == IngestStep /\ UNCHANGED <<sourceVars, rd, poll, faults, passed>>

CoreFails ==
    /\ Fault
    /\ \E s \in Slots : IngestFails(s)
    /\ UNCHANGED <<sourceVars, rd, poll, passed>>

AnswerUnheard ==
    /\ \E s \in Slots : /\ requests[s].status \in Answers
                        /\ ~(poll.pc = "sending" /\ poll.slot = s)
                        /\ Drop(s)
    /\ UNCHANGED <<inventory, claims, effects, sourceVars, rd, poll, faults, passed>>

(* Any Pod of the generic file's records, and any that had the name.       *)
LearnPod(p) ==
    /\ Falco => p <= podGen
    /\ PodLearnt(p)
    /\ UNCHANGED <<sourceVars, rd, poll, faults, passed>>

Poll == \E s \in Slots, uid \in (IF Falco THEN 0 .. podGen ELSE {1}) : ReadAndSend(s, uid)

Next ==
    \/ WriteLine \/ ReplaceFile \/ RecreatePod
    \/ SkipHistory \/ Poll \/ Answered \/ TimesOut \/ Observe \/ Restart
    \/ CoreStep \/ CoreFails \/ AnswerUnheard \/ (\E p \in Pods : LearnPod(p))

Spec == Init /\ [][Next]_vars

(* The ticker polls, Core works on what it holds, syncs bring in the Pods  *)
(* of Synced; the others may stay unknown for ever.                        *)
Fairness ==
    /\ WF_vars(SkipHistory \/ Poll) /\ WF_vars(Answered) /\ WF_vars(Observe)
    /\ WF_vars(CoreStep) /\ WF_vars(AnswerUnheard)
    /\ \A p \in Synced : WF_vars(LearnPod(p))

FairSpec == Spec /\ Fairness

-----------------------------------------------------------------------------
(* The cursor never passes a record that Core has not taken: whatever the  *)
(* order of time-outs, late answers, restarts and rotations, a line below  *)
(* the cursor is applied, unless it holds no event or a failed window      *)
(* counted it as dropped.                                                  *)
CursorFollowsCore ==
    \A n \in 1 .. written : Below(n) =>
        \/ n \in DOMAIN claims
        \/ Lines[n] = "bad"
        \/ n \in passed
        \/ Lines[n] = "named" /\ poll.dirty

(* A record still in the file that Core has not taken and whose Pod it does *)
(* not know; every batch with it is refused as a whole.                    *)
HeldUp == \E n \in Range(file.lines) : /\ Lines[n] \in {"uid", "other"} /\ n \notin DOMAIN claims
                                       /\ (IF Lines[n] = "other" THEN 2 ELSE 1) \notin inventory

(* Every record that stays in the generic reader's file is applied in the  *)
(* end, whatever rotations, restarts, time-outs and late answers do, with  *)
(* one exception: a record of a Pod that Core never comes to know holds up *)
(* the records of all Pods for as long as it stays in the file.            *)
RecordsAreApplied ==
    \A n \in EventIds :
        (~Falco /\ written >= n /\ Lines[n] # "bad") ~>
            (n \in DOMAIN claims \/ n \notin Range(file.lines) \/ []HeldUp)
=============================================================================
