---------------------------- MODULE FalcoOutbox ----------------------------
(***************************************************************************)
(* The Agent's Falco reader with its durable outbox                        *)
(* (agent/internal/runtime/falco_reader.go, falco_delivery_state.go and    *)
(* agent/internal/corehttp/delivery.go), composed with Core's ingest.      *)
(*                                                                         *)
(* Falco appends JSON lines to a file that is also rotated and truncated.  *)
(* A poll drains the outbox, reads complete lines, commits the cursor and  *)
(* the parsed events to disk in one rename, and only then posts them.      *)
(* Lines are numbered in the order they are written and stand for their    *)
(* raw bytes; a byte offset is a number of complete lines.                 *)
(***************************************************************************)
EXTENDS RuntimeIngest, SequencesExt

CONSTANTS
    Sources,         \* sequences of line kinds that Falco may write
    Inodes,          \* file identities; a deleted file's may be used again
    MaxEvents,       \* falcoStateMaxEvents
    MaxBytes,        \* falcoStateMaxBytes
    EventBytes,      \* encoded size of an event, by the kind of its line
    RequestLimit,    \* DeliveryRequestLimit
    ChunkLines,      \* lines that one bounded read (1 MiB) takes in
    MaxReplaced,     \* bound: rotations and truncations
    MaxFaults,       \* bound: crashes, failed saves, timeouts, Core errors
    MaxPods,         \* bound: Pods that have had the name of a "named" line
    RegrowPastCursor \* may a file replaced in place reach the cursor unseen?

(* "uid": one event that names its Pod's UID; "pair": two of them on one   *)
(* line; "named": an event whose UID is looked up in Kubernetes; "bad":    *)
(* not JSON; "blank": white space only.                                    *)
LineKinds == {"uid", "pair", "named", "bad", "blank"}

ASSUME LinesAssumption ==
    /\ Sources \subseteq Seq(LineKinds)
    /\ \A s \in Sources : \A n \in DOMAIN s : s[n] # "pair" \/ MaxEvents >= 2
    /\ EventIds = (UNION {DOMAIN s : s \in Sources}) \X {1, 2}
    /\ MaxPods \in Nat \ {0} /\ 1 .. MaxPods \subseteq Pods
    /\ 1 \in Inodes /\ Inodes \subseteq Nat \ {0}
    /\ MaxEvents \in Nat /\ ChunkLines \in Nat /\ RequestLimit \in Nat
    /\ MaxBytes \in Nat /\ EventBytes \in [LineKinds -> Nat]

VARIABLES
    Lines,     \* the kinds of the lines Falco writes, in order; never changes
    file,      \* the source: inode, generation, lines, partial last line?
    written,   \* lines written so far
    podGen,    \* UIDs the named Pod has had: 1 .. podGen
    disk,      \* the outbox file
    mem,       \* s.state, or Unloaded
    rd,        \* the reader's cursor in memory
    poll,      \* the poll in progress: budget, flush and stats
    faults,    \* faults so far
    skipped,   \* history: lines skipped as history or reported lost
    snap       \* history: lines written when a poll last read

agentVars == <<disk, mem, rd, poll>>
sourceVars == <<Lines, file, written, podGen>>
vars == <<inventory, claims, effects, requests, Lines, file, written, podGen,
          disk, mem, rd, poll, faults, skipped, snap>>

(* falcoOutbox.  gen is a history field: the generation of the file that   *)
(* the cursor was taken in.  saved says whether the file exists.           *)
EmptyOutbox == [saved |-> FALSE, inode |-> 0, gen |-> 0, offset |-> 0,
                pending |-> <<>>, quarantine |-> <<>>, retryAt |-> FALSE]
Unloaded == [EmptyOutbox EXCEPT !.inode = -1]
Loaded == mem # Unloaded

ColdReader == [init |-> FALSE, inode |-> 0, gen |-> 0, offset |-> 0]

Idle == [pc |-> "idle", from |-> "start", early |-> FALSE, due |-> FALSE,
         blocked |-> FALSE, left |-> 0, stage |-> "pending", work |-> <<>>,
         retry |-> <<>>, rejected |-> <<>>, next |-> EmptyOutbox, err |-> FALSE,
         dirty |-> FALSE, report |-> TRUE, slot |-> 0]

Init ==
    /\ IngestInit /\ inventory \subseteq {1}
    /\ Lines \in Sources
    /\ file = [inode |-> 1, gen |-> 1, lines |-> <<>>, partial |-> FALSE]
    /\ written = 0
    /\ podGen = 1
    /\ disk = EmptyOutbox
    /\ mem = Unloaded
    /\ rd = ColdReader
    /\ poll = Idle
    /\ faults = 0
    /\ skipped = {}
    /\ snap = 0

Fault == faults < MaxFaults /\ faults' = faults + 1

-----------------------------------------------------------------------------
(* The source: Falco, logrotate and Kubernetes (external). *)

(* A replaced file that keeps the cursor's inode and is at least as long   *)
(* as the cursor, at 0 however short it is: neither the inode nor the size *)
(* tells that it was replaced.                                             *)
Unseen(cursor, f) ==
    /\ cursor.inode = f.inode
    /\ cursor.gen # f.gen
    /\ cursor.offset <= Len(f.lines)

Tellable(f) ==
    RegrowPastCursor \/ ~(Unseen(rd, f) \/ Unseen(disk, f) \/ Unseen(mem, f))

StartLine ==
    /\ written < Len(Lines)
    /\ ~file.partial
    /\ file' = [file EXCEPT !.partial = TRUE]
    /\ UNCHANGED <<ingestVars, agentVars, Lines, written, podGen, faults, skipped, snap>>

WriteLine ==
    /\ written < Len(Lines)
    /\ written' = written + 1
    /\ file' = [file EXCEPT !.lines = Append(@, written + 1), !.partial = FALSE]
    /\ Tellable(file')
    /\ UNCHANGED <<ingestVars, agentVars, Lines, podGen, faults, skipped, snap>>

(* Rotation (another inode) or truncation in place (the same one). *)
ReplaceFile ==
    /\ file.gen <= MaxReplaced
    /\ \E i \in Inodes :
          file' = [inode |-> i, gen |-> file.gen + 1, lines |-> <<>>, partial |-> FALSE]
    /\ Tellable(file')
    /\ UNCHANGED <<ingestVars, agentVars, Lines, written, podGen, faults, skipped, snap>>

RecreatePod ==
    /\ podGen < MaxPods /\ "named" \in Range(Lines)
    /\ podGen' = podGen + 1
    /\ UNCHANGED <<ingestVars, agentVars, Lines, file, written, faults, skipped, snap>>

-----------------------------------------------------------------------------
(* A poll: load the outbox, drain it, read, commit, deliver, report. *)

(* load, with the lock on the state file held from here on; early and due  *)
(* are the answers of the clock to RetryAt and QuarantineRetryAt.          *)
StartPoll(early, due) ==
    LET s == IF Loaded THEN mem ELSE disk
    IN  /\ poll.pc = "idle"
        /\ due => s.quarantine # <<>>
        /\ early => s.retryAt
        /\ mem' = s
        /\ rd' = IF ~rd.init /\ s.saved
                 THEN [init |-> TRUE, inode |-> 0, gen |-> s.gen, offset |-> s.offset]
                 ELSE rd
        /\ poll' = [Idle EXCEPT !.pc = "flush", !.early = early, !.due = due,
                                !.left = RequestLimit]
        /\ UNCHANGED <<ingestVars, sourceVars, disk, faults, skipped, snap>>

(* Mutant: the quarantine is never a reason to flush. *)
EnterFlushPendingOnly ==
    LET late == poll.early /\ mem.retryAt
        skip == \/ late \/ poll.blocked \/ poll.left = 0
                \/ mem.pending = <<>>
    IN  /\ poll.pc = "flush"
        /\ poll' = IF skip
                   THEN [poll EXCEPT !.pc = "flushed", !.err = FALSE,
                                     !.blocked = @ \/ late]
                   ELSE [poll EXCEPT !.pc = "post", !.err = FALSE, !.stage = "pending",
                            !.work = IF mem.pending = <<>> THEN <<>> ELSE <<mem.pending>>,
                            !.retry = <<>>, !.rejected = <<>>, !.next = mem]
        /\ UNCHANGED <<ingestVars, sourceVars, disk, mem, rd, faults, skipped, snap>>

(* flushDelivery: what it returns at once on, and the batch it starts with *)
EnterFlush ==
    LET late == poll.early /\ mem.retryAt
        skip == \/ late \/ poll.blocked \/ poll.left = 0
                \/ /\ mem.pending = <<>>
                   /\ \/ poll.from # "final"
                      \/ mem.quarantine = <<>>
                      \/ ~poll.due
    IN  /\ poll.pc = "flush"
        /\ poll' = IF skip
                   THEN [poll EXCEPT !.pc = "flushed", !.err = FALSE,
                                     !.blocked = @ \/ late]
                   ELSE [poll EXCEPT !.pc = "post", !.err = FALSE, !.stage = "pending",
                            !.work = IF mem.pending = <<>> THEN <<>> ELSE <<mem.pending>>,
                            !.retry = <<>>, !.rejected = <<>>, !.next = mem]
        /\ UNCHANGED <<ingestVars, sourceVars, disk, mem, rd, faults, skipped, snap>>

(* DeliverIsolated: the batches still to be posted, first half first. *)
Post(s) ==
    /\ poll.pc = "post"
    /\ poll.work # <<>>
    /\ ~poll.blocked /\ poll.left > 0
    /\ Free(s)
    /\ requests' = Submitted(s, Head(poll.work))
    /\ poll' = [poll EXCEPT !.pc = "wait", !.slot = s, !.left = @ - 1]
    /\ UNCHANGED <<inventory, claims, effects, sourceVars, disk, mem, rd,
                   faults, skipped, snap>>

KeepUnsent ==
    /\ poll.pc = "post"
    /\ poll.work # <<>>
    /\ poll.blocked \/ poll.left = 0
    /\ poll' = [poll EXCEPT !.work = Tail(@), !.retry = @ \o Head(poll.work)]
    /\ UNCHANGED <<ingestVars, sourceVars, disk, mem, rd, faults, skipped, snap>>

Halves(batch) ==
    LET mid == Len(batch) \div 2
    IN  <<SubSeq(batch, 1, mid), SubSeq(batch, mid + 1, Len(batch))>>

(* Mutant: a batch that got no answer is not kept. *)
AfterAnswerDropped(status) ==
    LET batch == Head(poll.work)
        rest == [poll EXCEPT !.pc = "post", !.work = Tail(@), !.slot = 0]
    IN  CASE status = "ok" -> rest
          [] status = "ownership" /\ Len(batch) = 1 ->
                [rest EXCEPT !.rejected = @ \o batch]
          [] status = "ownership" /\ Len(batch) > 1 ->
                [rest EXCEPT !.work = Halves(batch) \o @]
          [] OTHER -> [rest EXCEPT !.blocked = TRUE, !.err = TRUE]

(* What an answer does to the flush: only 403 runtime_ownership_mismatch   *)
(* splits a batch, any other failure blocks the rest of the poll.          *)
AfterAnswer(status) ==
    LET batch == Head(poll.work)
        rest == [poll EXCEPT !.pc = "post", !.work = Tail(@), !.slot = 0]
    IN  CASE status = "ok" -> rest
          [] status = "ownership" /\ Len(batch) = 1 ->
                [rest EXCEPT !.rejected = @ \o batch]
          [] status = "ownership" /\ Len(batch) > 1 ->
                [rest EXCEPT !.work = Halves(batch) \o @]
          [] OTHER -> [rest EXCEPT !.retry = @ \o batch, !.blocked = TRUE, !.err = TRUE]

Answered ==
    /\ poll.pc = "wait"
    /\ requests[poll.slot].status \in Answers
    /\ poll' = AfterAnswer(requests[poll.slot].status)
    /\ Drop(poll.slot)
    /\ UNCHANGED <<inventory, claims, effects, sourceVars, disk, mem, rd,
                   faults, skipped, snap>>

(* The client gives up; Core may still be at it. *)
TimesOut ==
    /\ poll.pc = "wait"
    /\ Fault
    /\ poll' = AfterAnswer("unavailable")
    /\ UNCHANGED <<ingestVars, sourceVars, disk, mem, rd, skipped, snap>>

(* Pending is done: what was refused joins the quarantine, which the last  *)
(* flush of a poll retries when it is due.                                 *)
EndStage ==
    LET next == IF poll.stage = "pending"
                THEN [poll.next EXCEPT !.pending = poll.retry,
                                       !.quarantine = @ \o poll.rejected]
                ELSE [poll.next EXCEPT !.quarantine = poll.retry \o poll.rejected]
        again == /\ poll.stage = "pending"
                 /\ poll.from = "final"
                 /\ ~poll.blocked /\ poll.left > 0
                 /\ next.quarantine # <<>>
                 /\ poll.due
    IN  /\ poll.pc = "post"
        /\ poll.work = <<>>
        /\ poll' = IF again
                   THEN [poll EXCEPT !.stage = "quarantine", !.next = next,
                            !.work = <<next.quarantine>>, !.retry = <<>>, !.rejected = <<>>]
                   ELSE [poll EXCEPT !.pc = "save",
                            !.next = [next EXCEPT !.retryAt = poll.blocked, !.saved = TRUE]]
        /\ UNCHANGED <<ingestVars, sourceVars, disk, mem, rd, faults, skipped, snap>>

(* validate, as far as the program itself can break it *)
Valid(s) ==
    LET all == s.pending \o s.quarantine
    IN  /\ Len(all) <= MaxEvents
        /\ \A i, j \in DOMAIN all : all[i].id = all[j].id => i = j
        /\ s.offset > 0 => s.inode # 0

(* The encoded size: the events, and a retry time, which takes more room   *)
(* than the zero time.                                                     *)
Bytes(s) ==
    LET all == s.pending \o s.quarantine
    IN  MapThenSumSet(LAMBDA i : EventBytes[Lines[all[i].id[1]]], DOMAIN all)
          + IF s.retryAt THEN 1 ELSE 0
Small(s) == Bytes(s) <= MaxBytes

(* save: refused by validate or for the encoded size, failed before the    *)
(* rename, failed after it (the directory sync), or done.  Memory follows  *)
(* only when it is done.                                                   *)
SaveDone ==
    /\ Valid(poll.next) /\ Small(poll.next)
    /\ disk' = poll.next /\ mem' = poll.next /\ UNCHANGED faults
SaveFailed ==
    /\ \/ ~(Valid(poll.next) /\ Small(poll.next)) /\ UNCHANGED <<disk, faults>>
       \/ Fault /\ UNCHANGED disk
       \/ Fault /\ Valid(poll.next) /\ Small(poll.next) /\ disk' = poll.next
    /\ UNCHANGED mem

FlushEnds(err) == [poll EXCEPT !.pc = "flushed", !.err = err, !.stage = "pending",
                      !.retry = <<>>, !.rejected = <<>>, !.next = EmptyOutbox]

SaveFlush ==
    /\ poll.pc = "save"
    /\ \/ SaveDone /\ poll' = FlushEnds(poll.err)
       \/ SaveFailed /\ poll' = FlushEnds(TRUE)
    /\ UNCHANGED <<ingestVars, sourceVars, rd, skipped, snap>>

(* Mutant: held evidence does not fail the window. *)
AfterFlushSilent ==
    LET held == mem.pending \o mem.quarantine # <<>> \/ poll.blocked
        wait == \/ mem.pending # <<>> \/ poll.blocked
                \/ Len(mem.quarantine) >= MaxEvents
    IN  /\ poll.pc = "flushed"
        /\ poll' = CASE poll.from = "start" ->
                          IF poll.err \/ wait
                          THEN [poll EXCEPT !.pc = "flush", !.from = "final", !.dirty = TRUE]
                          ELSE [poll EXCEPT !.pc = "read"]
                     [] poll.from = "read" ->
                          [poll EXCEPT !.pc = "flush", !.from = "final", !.dirty = @ \/ poll.err]
                     [] poll.from = "final" ->
                          [poll EXCEPT !.pc = "observe", !.dirty = @ \/ poll.err,
                                       !.report = @ \/ held]
        /\ UNCHANGED <<ingestVars, sourceVars, disk, mem, rd, faults, skipped, snap>>

(* readAndSend after each of its flushes; the deferred one comes last. *)
AfterFlush ==
    LET held == mem.pending \o mem.quarantine # <<>> \/ poll.blocked
        wait == \/ mem.pending # <<>> \/ poll.blocked
                \/ Len(mem.quarantine) >= MaxEvents
    IN  /\ poll.pc = "flushed"
        /\ poll' = CASE poll.from = "start" ->
                          IF poll.err \/ wait
                          THEN [poll EXCEPT !.pc = "flush", !.from = "final", !.dirty = TRUE]
                          ELSE [poll EXCEPT !.pc = "read"]
                     [] poll.from = "read" ->
                          [poll EXCEPT !.pc = "flush", !.from = "final", !.dirty = @ \/ poll.err]
                     [] poll.from = "final" ->
                          [poll EXCEPT !.pc = "observe", !.dirty = @ \/ poll.err \/ held,
                                       !.report = @ \/ held]
        /\ UNCHANGED <<ingestVars, sourceVars, disk, mem, rd, faults, skipped, snap>>

-----------------------------------------------------------------------------
(* resolvePodUID, from its cache or from Kubernetes: no UID (0), or one of *)
(* those that the Pods of that name have had.                              *)
PodUIDs == 0 .. podGen

(* toRuntimeEvent over the events of a line; one without a UID is dropped. *)
EventsOf(n, uid) ==
    LET pod == IF Lines[n] = "named" THEN uid ELSE 1
        event(i) == [id |-> <<n, i>>, pod |-> pod]
    IN  CASE Lines[n] \in {"bad", "blank"} \/ pod = 0 -> <<>>
          [] Lines[n] = "pair" -> <<event(1), event(2)>>
          [] OTHER -> <<event(1)>>

Parsed(lines, uid) == FlattenSeq([i \in DOMAIN lines |-> EventsOf(lines[i], uid)])

(* Mutant: the room left in the outbox is not checked. *)
FitsAlways(lines, uid, room) == Len(lines)

(* The longest run of whole lines that fits the room left in the outbox. *)
Fits(lines, uid, room) ==
    CHOOSE k \in 0 .. Len(lines) :
        /\ Len(Parsed(SubSeq(lines, 1, k), uid)) <= room
        /\ \A j \in k + 1 .. Len(lines) : Len(Parsed(SubSeq(lines, 1, j), uid)) > room

Flawed(lines, uid) ==
    \E i \in DOMAIN lines : \/ Lines[lines[i]] = "bad"
                            \/ Lines[lines[i]] = "named" /\ uid = 0

(* The first poll without a checkpoint: complete lines are history. *)
SkipHistory ==
    /\ poll.pc = "read"
    /\ ~rd.init
    /\ file.lines # <<>>
    /\ ~file.partial
    /\ rd' = [init |-> TRUE, inode |-> file.inode, gen |-> file.gen,
              offset |-> Len(file.lines)]
    /\ skipped' = skipped \cup 1 .. written
    /\ snap' = written
    /\ poll' = [poll EXCEPT !.pc = "checkpoint", !.report = FALSE,
                   !.next = [mem EXCEPT !.saved = TRUE, !.inode = file.inode,
                                !.gen = file.gen, !.offset = Len(file.lines)]]
    /\ UNCHANGED <<ingestVars, sourceVars, disk, mem, faults>>

(* Any other read.  A partial last line is left for a later poll. *)
ReadFile(uid) ==
    LET first == ~rd.init
        at == IF first THEN Len(file.lines) ELSE rd.offset
        known == (IF first THEN {} ELSE {rd.inode}) \cup {mem.inode}
        reset == (\E i \in known : i \notin {0, file.inode}) \/ at > Len(file.lines)
        start == IF reset THEN 0 ELSE at
        unread == SubSeq(file.lines, start + 1, Len(file.lines))
        chunk == SubSeq(unread, 1, Min({ChunkLines, Len(unread)}))
        took == SubSeq(chunk, 1, Fits(chunk, uid, MaxEvents - Len(mem.quarantine)))
    IN  /\ poll.pc = "read"
        /\ first => file.lines = <<>> \/ file.partial
        /\ rd' = [init |-> TRUE, inode |-> file.inode, gen |-> file.gen, offset |-> start]
        /\ skipped' = skipped \cup (IF first THEN 1 .. written ELSE {})
        /\ snap' = written
        /\ poll' = [poll EXCEPT !.pc = "checkpoint",
                       !.dirty = \/ @ \/ reset \/ file.partial
                                 \/ Len(took) < Len(unread) \/ Flawed(took, uid),
                       !.next = [mem EXCEPT !.saved = TRUE, !.inode = file.inode,
                                    !.gen = file.gen, !.offset = start + Len(took),
                                    !.pending = Parsed(took, uid)]]
        /\ UNCHANGED <<ingestVars, sourceVars, disk, mem, faults>>

(* The file cannot be opened or read.  When it is the scan for the last    *)
(* complete line that fails, the reader counts as initialized, at 0.       *)
ReadFails ==
    /\ poll.pc = "read"
    /\ Fault
    /\ \/ UNCHANGED rd
       \/ /\ ~rd.init /\ file.lines # <<>>
          /\ rd' = [init |-> TRUE, inode |-> file.inode, gen |-> file.gen, offset |-> 0]
    /\ poll' = [poll EXCEPT !.pc = "flush", !.from = "final", !.dirty = TRUE]
    /\ UNCHANGED <<ingestVars, sourceVars, disk, mem, skipped, snap>>

(* Mutant: the events are posted before they are on disk. *)
CheckpointInMemory ==
    /\ poll.pc = "checkpoint"
    /\ \/ /\ mem' = poll.next /\ UNCHANGED <<disk, faults>>
          /\ rd' = [rd EXCEPT !.offset = poll.next.offset]
          /\ poll' = [poll EXCEPT !.pc = "flush", !.next = EmptyOutbox,
                         !.from = IF poll.next.pending = <<>> THEN "final" ELSE "read"]
       \/ /\ SaveFailed
          /\ poll' = [poll EXCEPT !.pc = "flush", !.from = "final", !.next = EmptyOutbox,
                                  !.dirty = TRUE, !.report = TRUE]
          /\ UNCHANGED rd
    /\ UNCHANGED <<ingestVars, sourceVars, skipped, snap>>

(* checkpointDelivery: cursor and events together, before any delivery. *)
Checkpoint ==
    /\ poll.pc = "checkpoint"
    /\ \/ /\ SaveDone
          /\ rd' = [rd EXCEPT !.offset = poll.next.offset]
          /\ poll' = [poll EXCEPT !.pc = "flush", !.next = EmptyOutbox,
                         !.from = IF poll.next.pending = <<>> THEN "final" ELSE "read"]
       \/ /\ SaveFailed
          /\ poll' = [poll EXCEPT !.pc = "flush", !.from = "final", !.next = EmptyOutbox,
                                  !.dirty = TRUE, !.report = TRUE]
          /\ UNCHANGED rd
    /\ UNCHANGED <<ingestVars, sourceVars, skipped, snap>>

-----------------------------------------------------------------------------
(* Where an event is.  The state the program goes on from is s.state while *)
(* it runs and the file on disk when it does not.                          *)

EventSet == {id \in (DOMAIN Lines) \X {1, 2} :
                \/ Lines[id[1]] = "pair"
                \/ Lines[id[1]] \in {"uid", "named"} /\ id[2] = 1}

Outbox == IF Loaded THEN mem ELSE disk

Holds(o, id) == \E i \in DOMAIN (o.pending \o o.quarantine) :
                    (o.pending \o o.quarantine)[i].id = id

(* The line is in the file and a poll that starts at cursor o reads it. *)
Readable(o, n) ==
    \E i \in DOMAIN file.lines :
        /\ file.lines[i] = n
        /\ \/ ~o.saved \/ o.inode # file.inode
           \/ i > o.offset \/ o.offset > Len(file.lines)

(* Parsed by the poll in progress and about to be committed. *)
InHand(id) == poll.pc = "checkpoint" /\ Holds(poll.next, id)

StatusOf(id) ==
    IF id \in DOMAIN claims THEN "applied"
    ELSE IF Holds(Outbox, id) THEN "stored"
    ELSE IF id[1] > written \/ id \notin EventSet THEN "unwritten"
    ELSE IF Readable(Outbox, id[1]) \/ Holds(disk, id) \/ InHand(id) THEN "unread"
    ELSE "lost"

(* Lines with an event that a program going on from o will never apply. *)
LostLines(o) == {n \in 1 .. written : ~Readable(o, n) /\ \E id \in EventSet :
                    id[1] = n /\ id \notin DOMAIN claims /\ ~Holds(o, id)}

(* coverage.Observe: the window is complete only if the poll was clean. *)
ObserveWindow ==
    /\ poll.pc = "observe"
    /\ poll' = Idle
    /\ skipped' = IF poll.dirty THEN skipped \cup LostLines(mem) ELSE skipped
    /\ UNCHANGED <<ingestVars, sourceVars, disk, mem, rd, faults, snap>>

(* The Agent stops or dies and comes back: a new coverage session. *)
Crash ==
    /\ Fault
    /\ Loaded
    /\ mem' = Unloaded
    /\ rd' = ColdReader
    /\ poll' = Idle
    /\ skipped' = skipped \cup LostLines(disk)
    /\ UNCHANGED <<ingestVars, sourceVars, disk, snap>>

(* Core and its inventory. *)
CoreStep ==
    /\ IngestStep
    /\ UNCHANGED <<sourceVars, agentVars, faults, skipped, snap>>

CoreFails ==
    /\ Fault
    /\ \E s \in Slots : IngestFails(s)
    /\ UNCHANGED <<sourceVars, agentVars, skipped, snap>>

Awaited(s) == poll.pc = "wait" /\ poll.slot = s

AnswerUnheard ==
    /\ \E s \in Slots : /\ requests[s].status \in Answers
                        /\ ~Awaited(s)
                        /\ Drop(s)
    /\ UNCHANGED <<inventory, claims, effects, sourceVars, agentVars, faults, skipped, snap>>

LearnPod ==
    /\ \E p \in 1 .. podGen : PodLearnt(p)
    /\ UNCHANGED <<sourceVars, agentVars, faults, skipped, snap>>

ForgetPod ==
    /\ Fault
    /\ \E p \in Pods : PodForgotten(p)
    /\ UNCHANGED <<sourceVars, agentVars, skipped, snap>>

Flush == EnterFlush \/ (\E s \in Slots : Post(s)) \/ KeepUnsent \/ Answered
            \/ EndStage \/ SaveFlush \/ AfterFlush

Reading == SkipHistory \/ (\E uid \in PodUIDs : ReadFile(uid)) \/ Checkpoint

Polling == Flush \/ Reading \/ ObserveWindow

Next ==
    \/ StartLine \/ WriteLine \/ ReplaceFile \/ RecreatePod
    \/ \E early, due \in BOOLEAN : StartPoll(early, due)
    \/ Polling
    \/ TimesOut \/ ReadFails \/ Crash
    \/ CoreStep \/ CoreFails \/ AnswerUnheard \/ LearnPod \/ ForgetPod

Spec == Init /\ [][Next]_vars

(* The poll loop goes on, the clock passes RetryAt and QuarantineRetryAt,  *)
(* Core answers, inventory syncs bring in every Pod, Falco ends the lines  *)
(* it started and Kubernetes answers in the end.                           *)
Fairness ==
    /\ WF_vars(\E early, due \in BOOLEAN : StartPoll(early, due))
    /\ SF_vars(StartPoll(FALSE, FALSE))
    /\ SF_vars(StartPoll(FALSE, TRUE))
    /\ WF_vars(Polling)
    /\ WF_vars(CoreStep)
    /\ WF_vars(AnswerUnheard)
    /\ WF_vars(LearnPod)

FairSpec == Spec /\ Fairness

-----------------------------------------------------------------------------
TypeOK ==
    /\ IngestTypeOK
    /\ written \in 0 .. Len(Lines)
    /\ podGen \in 1 .. MaxPods
    /\ file.inode \in Inodes /\ file.partial \in BOOLEAN
    /\ \A o \in {disk, mem} : /\ \A i \in DOMAIN o.pending : o.pending[i] \in Events
                             /\ \A i \in DOMAIN o.quarantine : o.quarantine[i] \in Events
    /\ rd.offset \in 0 .. Len(Lines)
    /\ poll.left \in 0 .. RequestLimit
    /\ faults \in 0 .. MaxFaults
    /\ skipped \subseteq 1 .. Len(Lines)

(* Of what save refuses, only the encoded size ever occurs: whatever a     *)
(* flush or a read hands to save passes validate, so the reader never      *)
(* stops for good on what it made of its own state (falcoStateMaxEvents,   *)
(* duplicate record IDs, a cursor with no file).                           *)
RefusedOnlyForSize == poll.pc \in {"save", "checkpoint"} => Valid(poll.next)

(* A record reaches Core with one payload only: the event that was parsed  *)
(* is on disk before the first POST, so that a Pod that is recreated under *)
(* its name cannot turn a retry into a 409 conflict.                       *)
NoConflict == \A s \in Slots : requests[s].status # "conflict"

(* The effects of a record run at most once, however often its batch is    *)
(* sent, split, given up on or sent again while Core is still at it, and   *)
(* they have run for every record that is claimed.                         *)
EffectsOnce == \A id \in EventIds : effects[id] = IF id \in DOMAIN claims THEN 1 ELSE 0

(* A complete window means what it says: whatever was written before the   *)
(* poll read the file has been applied by Core, or was part of an earlier  *)
(* window that failed or of another session.                               *)
CompleteWindowIsDelivered ==
    (poll.pc = "observe" /\ poll.report /\ ~poll.dirty) =>
        \A id \in EventSet : id[1] <= snap => id \in DOMAIN claims \/ id[1] \in skipped

(* The pipeline implements what durable delivery promises. *)
Delivery == INSTANCE EvidenceDelivery
               WITH Evidence <- EventIds, status <- [id \in EventIds |-> StatusOf(id)]

(* The outbox implements durable delivery: nothing reaches Core that the   *)
(* outbox did not hold first, and what it holds is never lost, whatever    *)
(* crashes, failed saves, splits, rotations and time-outs do.              *)
ImplementsDelivery == Delivery!Spec

(* Whatever the outbox holds is applied in the end. *)
StoredIsApplied == Delivery!StoredIsApplied
=============================================================================
