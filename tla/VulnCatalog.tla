---------------------------- MODULE VulnCatalog ----------------------------
(***************************************************************************)
(* The versioned vulnerability catalogue: the loader                        *)
(* (core/cmd/cve-loader-optimized, core/pkg/cve/loader) that turns a        *)
(* directory of OSV files into catalogue generations, Core's bootstrap of   *)
(* an empty catalogue, and the reads of the matcher                         *)
(* (core/pkg/cve/database).  A version of an advisory is a row with the     *)
(* generation that inserted it and the one that closed it; the rows of its  *)
(* three tables (advisory, refs, affected) change together and are one.     *)
(* A batch is one file, and a write of a file gives it a later mtime.       *)
(***************************************************************************)
EXTENDS Integers, FiniteSets, Sequences, FiniteSetsExt

CONSTANTS
    Advisory,        \* advisory IDs; the file of one is named after it
    Bundle,          \* contents of the files of FORTUNA_OSV_SOURCE_DIR
    Keep,            \* --keep-generations
    MaxGens,         \* bound: catalogue generations
    MaxFileWrites,   \* bound: changes of the source directory
    MaxCatalogFaults \* bound: crashes and failed calls of the loader

None == "none"
Good == {"v1", "v2"}
Contents == Good \cup {"withdrawn", "bad"}      \* "bad" does not parse
Open == 0                                       \* valid_to_gen IS NULL

ASSUME CatalogAssumption ==
    /\ Keep \in Nat /\ MaxGens \in Nat /\ MaxFileWrites \in Nat /\ MaxCatalogFaults \in Nat
    /\ Bundle \in [Advisory -> Contents \cup {None}]

VARIABLES
    files,      \* the source directory: content and mtime of each file
    writes,     \* writes to it so far
    meta,       \* cve_file_metadata: processing status and mtime of each file
    versions,   \* vuln_advisories: [a, c, from, to]
    gens,       \* catalog_generations: the status of each
    load,       \* the process that holds the lock of LockCatalogLoad
    boot,       \* Core's bootstrap has seen an empty catalogue and takes the lock next
    reader,     \* a read of the matcher
    cached,     \* CVECache: generation |-> the answer stored for it, if any
    shown,      \* history: what each generation showed when it became active
    dropped,    \* history: files recorded in meta by a load that never became active, or
                \*          before a bootstrap replaced the catalogue
    upToDate,   \* history: the last load ended well, and no file has changed since
    catFaults
catalogVars == <<files, writes, meta, versions, gens, load, boot, reader, cached, shown,
                 dropped, upToDate, catFaults>>
readVars == <<reader, cached>>

NoLoad == [pc |-> "idle"]
NoRead == [pc |-> "idle"]
NoView == [a \in Advisory |-> {}]

CatalogInit ==
    /\ files \in [Advisory -> [c : {None, "v1"}, m : {0}]]
    /\ writes = 0 /\ catFaults = 0
    /\ meta = [a \in Advisory |-> [st |-> None, m |-> 0]]
    /\ versions = {} /\ gens = <<>> /\ shown = <<>> /\ cached = <<>>
    /\ load = NoLoad /\ reader = NoRead
    /\ boot = FALSE /\ dropped = {} /\ upToDate = FALSE
-----------------------------------------------------------------------------
(* Generations *)

WithStatus(S) == {g \in DOMAIN gens : gens[g] \in S}
\* Loads are serial, so generations become active in the order of their IDs.
ActiveGen == Max(WithStatus({"active"}) \cup {0})
\* The newest Keep of the active ones; all of them when Keep is 0.
Kept == {g \in WithStatus({"active"}) :
            Keep = 0 \/ Cardinality({h \in WithStatus({"active"}) : h > g}) < Keep}

VisibleAt(g) == {v \in versions : v.from <= g /\ (v.to = Open \/ v.to > g)}
View(g) == [a \in Advisory |-> {v.c : v \in {w \in VisibleAt(g) : w.a = a}}]

CloseAdvisories(vs, g, ids) ==
    {IF v.a \in ids /\ v.to = Open THEN [v EXCEPT !.to = g] ELSE v :
        v \in {w \in vs : ~(w.a \in ids /\ w.from = g)}}

WriteVersion(vs, g, a, c) ==
    LET current == {v \in vs : v.a = a /\ v.to = Open}
        closed  == IF current = {} THEN vs ELSE CloseAdvisories(vs, g, {a})
    IN  IF c = "withdrawn" THEN closed
        ELSE IF \E v \in current : v.c = c THEN vs
        ELSE closed \cup {[a |-> a, c |-> c, from |-> g, to |-> Open]}

CloseMissing(vs, g, seen) ==
    CloseAdvisories(vs, g, {v.a : v \in {w \in vs : w.to = Open /\ w.from < g}} \ seen)

RollbackGenerations(vs, G) ==
    {IF v.to \in G THEN [v EXCEPT !.to = Open] ELSE v : v \in {w \in vs : w.from \notin G}}

PruneAll(vs, oldestKept) == {v \in vs : v.to = Open}                   \* mutant
PruneVersions(vs, oldestKept) == {v \in vs : v.to = Open \/ v.to > oldestKept}
-----------------------------------------------------------------------------
(* The source directory, written by an operator before a load or by the     *)
(* fetcher of the load itself.                                              *)

WriteFile(a, c) ==
    /\ load.pc \in {"idle", "fetch"} /\ writes < MaxFileWrites /\ c # files[a].c
    /\ writes' = writes + 1
    /\ files' = [files EXCEPT ![a] = [c |-> c, m |-> IF c = None THEN @.m ELSE writes']]
    /\ upToDate' = FALSE
    /\ UNCHANGED <<meta, versions, gens, load, boot, readVars, shown, dropped, catFaults>>

\* The files the load reads.
FileOf(a) == IF load.mode = "boot" THEN Bundle[a] ELSE files[a].c
Listed == {a \in Advisory : FileOf(a) # None}
-----------------------------------------------------------------------------
(* A load *)

Untouched == UNCHANGED <<files, writes, readVars>>

KeepUnfinished == UNCHANGED versions /\                                \* mutant
    gens' = [g \in DOMAIN gens |-> IF gens[g] = "running" THEN "failed" ELSE gens[g]]
RollbackUnfinished ==
    /\ versions' = RollbackGenerations(versions, WithStatus({"running", "failed"}))
    /\ gens' = [g \in DOMAIN gens |-> IF gens[g] = "running" THEN "failed" ELSE gens[g]]

BeginAs(mode, pc) ==
    load' = [pc |-> pc, mode |-> mode, todo |-> {}, removed |-> {}, bad |-> FALSE, gen |-> 0,
             read |-> [a \in Advisory |-> None], listed |-> {}, short |-> FALSE]

\* main: the lock, then the generations that never became active are undone.
StartLoad(mode) ==
    /\ load.pc = "idle" /\ Len(gens) < MaxGens
    /\ RollbackUnfinished
    /\ BeginAs(mode, IF mode = "full" THEN "list" ELSE IF mode = "sync" THEN "fetch" ELSE "scan")
    /\ upToDate' = FALSE
    /\ Untouched /\ UNCHANGED <<meta, boot, shown, dropped, catFaults>>

\* bootstrapVulnCatalog looks at the catalogue before it takes the lock.
BootCheck ==
    /\ ~boot /\ versions = {} /\ boot' = TRUE
    /\ Untouched /\ UNCHANGED <<meta, versions, gens, load, shown, dropped, upToDate, catFaults>>

BootStart ==
    /\ boot /\ load.pc = "idle" /\ Len(gens) < MaxGens
    /\ boot' = FALSE
    /\ RollbackUnfinished /\ BeginAs("boot", "list")
    /\ upToDate' = FALSE
    /\ Untouched /\ UNCHANGED <<meta, shown, dropped, catFaults>>

\* The other load holds the lock: the bootstrap is skipped.
BootSkip ==
    /\ boot /\ load.pc # "idle" /\ boot' = FALSE
    /\ Untouched /\ UNCHANGED <<meta, versions, gens, load, shown, dropped, upToDate, catFaults>>

\* runSync: when a download fails the rest is loaded, and the run ends with an error after it.
Fetched ==
    /\ load.pc = "fetch"
    /\ \E short \in BOOLEAN : load' = [load EXCEPT !.pc = "scan", !.short = short]
    /\ Untouched
    /\ UNCHANGED <<meta, versions, gens, boot, shown, dropped, upToDate, catFaults>>

NewFiles == {a \in Advisory : files[a].c # None /\ meta[a].st = None}         \* mutant
ToProcess == {a \in Advisory : files[a].c # None /\
                (meta[a].st = None \/ files[a].m > meta[a].m \/ meta[a].st = "failed")}
Removed == {a \in Advisory : files[a].c = None /\ meta[a].st # None}
Recorded(S, st) ==
    [a \in Advisory |-> IF a \in S THEN [st |-> st, m |-> files[a].m] ELSE meta[a]]

\* GetFilesToProcess records the files before they are loaded; then RemovedCVEIDs, and the
\* catalogue is loaded in full when it is empty.
Scan ==
    /\ load.pc = "scan"
    /\ meta' = Recorded(ToProcess, "pending")
    /\ load' = IF versions = {} THEN [load EXCEPT !.pc = "list", !.listed = ToProcess]
               ELSE IF ToProcess = {} /\ Removed = {} THEN [load EXCEPT !.pc = "prune"]
               ELSE [load EXCEPT !.pc = "validate", !.todo = ToProcess, !.listed = ToProcess,
                                 !.removed = Removed]
    /\ Untouched /\ UNCHANGED <<versions, gens, boot, shown, dropped, upToDate, catFaults>>

List ==
    /\ load.pc = "list"
    /\ load' = [load EXCEPT !.pc = "validate", !.todo = Listed, !.listed = Listed,
                            !.mode = IF load.mode = "boot" THEN "boot" ELSE "full"]
    /\ Untouched /\ UNCHANGED <<meta, versions, gens, boot, shown, dropped, upToDate, catFaults>>

\* DirectoryLoad.validate passes and startCatalogGeneration.
StartGeneration ==
    /\ load.pc = "validate"
    /\ gens' = Append(gens, "running") /\ shown' = Append(shown, NoView)
    /\ cached' = Append(cached, {})
    /\ load' = [load EXCEPT !.pc = "write", !.gen = Len(gens')]
    /\ UNCHANGED <<files, writes, meta, versions, boot, reader, dropped, upToDate, catFaults>>

\* processBatch: a file that does not parse is counted, and the others go on.
Batch(a) ==
    /\ load.pc = "write" /\ a \in load.todo
    /\ LET c == FileOf(a) IN
         /\ load' = [load EXCEPT !.todo = @ \ {a}, !.read[a] = c, !.bad = @ \/ c = "bad"]
         /\ versions' = IF c = "bad" THEN versions ELSE WriteVersion(versions, load.gen, a, c)
    /\ Untouched /\ UNCHANGED <<meta, gens, boot, shown, dropped, upToDate, catFaults>>

\* The end of LoadFiles: a file that failed fails the generation; else the advisories that
\* are gone are closed.
CloseGone ==
    /\ load.pc = "write" /\ load.todo = {}
    /\ \/ load.bad /\ load' = [load EXCEPT !.pc = "fail"] /\ UNCHANGED versions
       \/ /\ ~load.bad
          /\ load' = [load EXCEPT !.pc = "record"]
          /\ versions' = IF load.mode \in {"full", "boot"}
                         THEN CloseMissing(versions, load.gen, load.listed)
                         ELSE CloseAdvisories(versions, load.gen, load.removed)
    /\ Untouched /\ UNCHANGED <<meta, gens, boot, shown, dropped, upToDate, catFaults>>

\* MarkProcessingComplete; a full load records its files only now.
RecordFiles ==
    /\ load.pc = "record"
    /\ load' = [load EXCEPT !.pc = "complete"]
    /\ meta' = IF load.mode = "boot" THEN meta
               ELSE Recorded(load.listed, "success")
    /\ Untouched /\ UNCHANGED <<versions, gens, boot, shown, dropped, upToDate, catFaults>>

\* completeCatalogGeneration.
Activate ==
    /\ load.pc = "complete"
    /\ gens' = [gens EXCEPT ![load.gen] = "active"]
    /\ shown' = [shown EXCEPT ![load.gen] = View(load.gen)]
    /\ dropped' = IF load.mode = "boot" THEN dropped \cup {a \in Advisory : meta[a].st # None}
                  ELSE dropped \ load.listed
    /\ load' = IF load.mode = "boot" THEN NoLoad
               ELSE [load EXCEPT !.pc = IF load.mode = "full" THEN "prune" ELSE "cleanup"]
    /\ Untouched /\ UNCHANGED <<meta, versions, boot, upToDate, catFaults>>

\* CleanupOrphaned.
Cleanup ==
    /\ load.pc = "cleanup" /\ load' = [load EXCEPT !.pc = "prune"]
    /\ meta' = [a \in Advisory |-> IF files[a].c = None THEN [st |-> None, m |-> 0] ELSE meta[a]]
    /\ Untouched /\ UNCHANGED <<versions, gens, boot, shown, dropped, upToDate, catFaults>>

\* PruneCVEGenerations deletes rows, then retires the other generations one by one, the
\* newest of them first.
Prune ==
    /\ load.pc = "prune" /\ Keep > 0 /\ ~load.short
    /\ load' = [load EXCEPT !.pc = "retire"]
    /\ versions' = IF Kept = {} THEN versions ELSE PruneVersions(versions, Min(Kept))
    /\ Untouched /\ UNCHANGED <<meta, gens, boot, shown, dropped, upToDate, catFaults>>

Superseded == WithStatus({"active"}) \ Kept

Retire ==
    /\ load.pc = "retire" /\ Superseded # {}
    /\ gens' = [gens EXCEPT ![Max(Superseded)] = "retired"]
    /\ Untouched
    /\ UNCHANGED <<meta, versions, load, boot, shown, dropped, upToDate, catFaults>>

EndLoad ==
    /\ \/ load.pc = "prune" /\ (Keep = 0 \/ load.short)
       \/ load.pc = "retire" /\ Superseded = {}
    /\ load' = NoLoad /\ upToDate' = TRUE
    /\ Untouched /\ UNCHANGED <<meta, versions, gens, boot, shown, dropped, catFaults>>

LoadDropped ==
    dropped' = IF load.mode = "boot" \/ load.pc \in {"cleanup", "prune", "retire"} THEN dropped
               ELSE dropped \cup load.listed

\* failCatalogGeneration: the status, then the rows, each in a call of its own.
MarkFailed ==
    /\ load.pc = "fail" /\ load' = [load EXCEPT !.pc = "undo"]
    /\ gens' = [gens EXCEPT ![load.gen] = "failed"]
    /\ Untouched /\ UNCHANGED <<meta, versions, boot, shown, dropped, upToDate, catFaults>>

Undo ==
    /\ load.pc = "undo" /\ load' = NoLoad /\ LoadDropped
    /\ versions' = RollbackGenerations(versions, {load.gen})
    /\ Untouched /\ UNCHANGED <<meta, gens, boot, shown, upToDate, catFaults>>
-----------------------------------------------------------------------------
(* Faults *)

Fault == catFaults < MaxCatalogFaults /\ catFaults' = catFaults + 1

\* The process dies, or a call whose error ends it at once fails: the lock goes with the
\* connection.  A scan may have recorded some of its files.
CrashLoad ==
    /\ load.pc # "idle" /\ Fault
    /\ load' = NoLoad
    /\ \/ load.pc # "scan" /\ LoadDropped /\ UNCHANGED meta
       \/ load.pc = "scan" /\ \E S \in SUBSET ToProcess :
            meta' = Recorded(S, "pending") /\ dropped' = dropped \cup S
    /\ Untouched /\ UNCHANGED <<versions, gens, boot, shown, upToDate>>

\* A transaction of the load fails, and failCatalogGeneration follows.
LoadError ==
    /\ load.pc = "write" /\ Fault
    /\ load' = [load EXCEPT !.pc = "fail"]
    /\ Untouched /\ UNCHANGED <<meta, versions, gens, boot, shown, dropped, upToDate>>

\* Calls whose errors are logged: recording the files, cleaning up, marking the generation
\* failed and undoing it.
LoggedError ==
    /\ load.pc \in {"record", "cleanup", "fail", "undo"} /\ Fault
    /\ load' = CASE load.pc = "record"  -> [load EXCEPT !.pc = "complete"]
                 [] load.pc = "cleanup" -> [load EXCEPT !.pc = "prune"]
                 [] load.pc = "fail"    -> [load EXCEPT !.pc = "undo"]
                 [] load.pc = "undo"    -> NoLoad
    /\ IF load.pc = "undo" THEN LoadDropped ELSE UNCHANGED dropped
    /\ Untouched /\ UNCHANGED <<meta, versions, gens, boot, shown, upToDate>>
-----------------------------------------------------------------------------
(* The matcher: GetVulnerabilitiesForPackages *)

BeginRead ==
    /\ reader.pc = "idle" /\ ActiveGen # 0 /\ VisibleAt(ActiveGen) # {}
    /\ cached[ActiveGen] = {}
    /\ reader' = [pc |-> "ranges", gen |-> ActiveGen, ranges |-> NoView]
    /\ UNCHANGED <<files, writes, meta, versions, gens, load, boot, cached, shown, dropped,
                   upToDate, catFaults>>

QueryRanges ==
    /\ reader.pc = "ranges"
    /\ reader' = [reader EXCEPT !.pc = "refs", !.ranges = View(reader.gen)]
    /\ UNCHANGED <<files, writes, meta, versions, gens, load, boot, cached, shown, dropped,
                   upToDate, catFaults>>

\* The refs of the advisories found, then the answer is stored in the cache.
QueryRefs ==
    /\ reader.pc = "refs"
    /\ reader' = NoRead
    /\ LET refs == [a \in Advisory |-> IF reader.ranges[a] = {} THEN {} ELSE View(reader.gen)[a]]
       IN  cached' = [cached EXCEPT ![reader.gen] = {[ranges |-> reader.ranges, refs |-> refs]}]
    /\ UNCHANGED <<files, writes, meta, versions, gens, load, boot, shown, dropped, upToDate,
                   catFaults>>

\* The time-to-live of an entry ends, or Core restarts.
Expire(g) ==
    /\ cached[g] # {}
    /\ cached' = [cached EXCEPT ![g] = {}]
    /\ UNCHANGED <<files, writes, meta, versions, gens, load, boot, reader, shown, dropped,
                   upToDate, catFaults>>
-----------------------------------------------------------------------------
CatalogNext ==
    \/ \E a \in Advisory, c \in Contents \cup {None} : WriteFile(a, c)
    \/ \E mode \in {"full", "changed", "sync"} : StartLoad(mode)
    \/ BootCheck \/ BootStart \/ BootSkip
    \/ Fetched \/ Scan \/ List \/ StartGeneration
    \/ \E a \in Advisory : Batch(a)
    \/ CloseGone \/ RecordFiles \/ Activate \/ Cleanup \/ Prune \/ Retire \/ EndLoad
    \/ MarkFailed \/ Undo
    \/ CrashLoad \/ LoadError \/ LoggedError
    \/ BeginRead \/ QueryRanges \/ QueryRefs
    \/ \E g \in DOMAIN gens : Expire(g)

CatalogSpec == CatalogInit /\ [][CatalogNext]_catalogVars
-----------------------------------------------------------------------------
(* Properties *)

(* Whatever later loads write, close, undo or prune, and wherever they     *)
(* stop, a generation that is kept shows what it showed when it became      *)
(* active, with one version of an advisory at most; no advisory has two     *)
(* current versions; and the answer that the matcher has cached for such a  *)
(* generation is that generation's, although its two queries may fall       *)
(* before and after a load, a rollback or a pruning (rollbackGenerations,   *)
(* PruneVersionedCatalog and queryVersionedCatalogBulk agree).              *)
KeptIsStable ==
    /\ \A g \in Kept :
         /\ View(g) = shown[g] /\ \A a \in Advisory : Cardinality(shown[g][a]) <= 1
         /\ cached[g] \subseteq {[ranges |-> shown[g], refs |-> shown[g]]}
    /\ \A v, w \in versions : v.a = w.a /\ v.to = Open /\ w.to = Open => v = w

Shows(c) == IF c \in Good THEN {c} ELSE {}

(* A load publishes the catalogue that was active with exactly the changes  *)
(* it read, and a full load exactly the files it read: nothing of a load    *)
(* that failed or was killed comes along (RollbackUnfinishedCatalog-        *)
(* Generations, CloseMissing).                                              *)
LoadIsDelta ==
    [][\A g \in DOMAIN gens : gens[g] # "active" /\ gens'[g] = "active" =>
        shown'[g] = [a \in Advisory |->
            IF load.read[a] # None THEN Shows(load.read[a])
            ELSE IF load.mode \in {"full", "boot"} \/ ActiveGen = 0 \/ a \in load.removed THEN {}
            ELSE shown[ActiveGen][a]]]_catalogVars

(* After a load that ended well the active generation shows every file of   *)
(* the directory.  The exceptions are in dropped: the files an earlier load *)
(* had listed when it failed or was killed without publishing, which        *)
(* LoadChanged reads again only once they change, if GetFilesToProcess had  *)
(* recorded them; and the files the tracker knew when Core's bootstrap put  *)
(* another catalogue in place of theirs.                                    *)
OnlyStoppedLoadsLose ==
    upToDate => \A a \in Advisory \ dropped :
        files[a].c # None => ActiveGen # 0 /\ View(ActiveGen)[a] = Shows(files[a].c)
=============================================================================
