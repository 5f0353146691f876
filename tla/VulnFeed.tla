------------------------------ MODULE VulnFeed ------------------------------
(***************************************************************************)
(* The OSV fetcher (core/pkg/cve/feed/osv.go): it mirrors the exports of    *)
(* the ecosystems into one directory, from the archive of an ecosystem or,  *)
(* once it has a cursor, from its index of modified advisories.  The OSV    *)
(* bucket is external: an advisory changes in all its exports at once, in   *)
(* the index and the archive alike, and is listed late by at most           *)
(* cursorOverlap.  An advisory is abstracted to its modified time.          *)
(***************************************************************************)
EXTENDS Integers, FiniteSets, FiniteSetsExt

CONSTANTS
    Ecosystem,             \* numbered in the order of --ecosystems
    FeedAdvisory,          \* advisory IDs
    CursorOverlap,
    MaxIncrementalFetches,
    MinIdsForShrinkCheck,
    MaxModified,           \* bound: modified times
    MaxFeedFaults          \* bound: crashes, failed downloads, truncated exports

ASSUME FeedAssumption ==
    /\ CursorOverlap \in Nat /\ MaxIncrementalFetches \in Nat /\ MinIdsForShrinkCheck \in Nat
    /\ MaxModified \in Nat /\ MaxFeedFaults \in Nat

VARIABLES
    modified,   \* bucket: modified time of each advisory, 0 before it exists
    exports,    \* bucket: the advisories an ecosystem exports
    truncated,  \* bucket: ecosystems whose export is broken and empty
    published,  \* newest publication
    mirror,     \* the advisory directory: modified time of each file, 0 when there is none
    feedState,  \* .osv-feed-state.json
    fetch,      \* the fetch in progress
    orphans,    \* history: files a fetch wrote before it stopped, listed in no saved state
    feedFaults
bucketVars == <<modified, exports, truncated, published>>
feedVars == <<modified, exports, truncated, published, mirror, feedState, fetch, orphans, feedFaults>>

Nothing == [a \in FeedAdvisory |-> 0]
Ids(s) == {a \in FeedAdvisory : s[a] # 0}
\* An index or an archive: the modified time of each advisory in it, 0 for the others.
Served(e) == [a \in FeedAdvisory |->
                IF a \in exports[e] /\ e \notin truncated THEN modified[a] ELSE 0]
NewState == [ids |-> {}, cursor |-> 0, etag |-> Nothing, indexETag |-> Nothing, known |-> FALSE]
NoFetch == [pc |-> "idle"]

FeedInit ==
    /\ modified = Nothing /\ exports = [e \in Ecosystem |-> {}]
    /\ truncated = {} /\ published = 0
    /\ mirror = Nothing
    /\ feedState = [e \in Ecosystem |-> NewState]
    /\ fetch = NoFetch /\ orphans = {} /\ feedFaults = 0
-----------------------------------------------------------------------------
(* The bucket *)

\* Advisory a is modified, and listed in e if it was not.
Publish(e, a, late) ==
    /\ published < MaxModified /\ published' = published + 1
    /\ modified[a] < published' - late
    /\ modified' = [modified EXCEPT ![a] = published' - late]
    /\ exports' = [exports EXCEPT ![e] = @ \cup {a}]
    /\ UNCHANGED <<truncated, mirror, feedState, fetch, orphans, feedFaults>>

\* Advisory a leaves the export of e, which keeps others.
Unpublish(e, a) ==
    /\ a \in exports[e] /\ exports[e] # {a} /\ e \notin truncated
    /\ exports' = [exports EXCEPT ![e] = @ \ {a}]
    /\ UNCHANGED <<modified, truncated, published, mirror, feedState, fetch, orphans, feedFaults>>

FeedFault == feedFaults < MaxFeedFaults /\ feedFaults' = feedFaults + 1

\* The export of e is broken between two runs, by so much that checkShrink notices.
Truncate(e) ==
    /\ fetch.pc = "idle" /\ e \notin truncated /\ FeedFault
    /\ Cardinality(feedState[e].ids) >= MinIdsForShrinkCheck
    /\ truncated' = truncated \cup {e}
    /\ UNCHANGED <<modified, exports, published, mirror, feedState, fetch, orphans>>

Restore(e) ==
    /\ e \in truncated /\ truncated' = truncated \ {e}
    /\ UNCHANGED <<modified, exports, published, mirror, feedState, fetch, orphans, feedFaults>>
-----------------------------------------------------------------------------
(* Fetch *)

\* A run of the update job: loadState.
StartFetch ==
    /\ fetch.pc = "idle"
    /\ fetch' = [pc |-> "next", state |-> feedState, left |-> Ecosystem, todo |-> {},
                 entries |-> Nothing]
    /\ UNCHANGED <<bucketVars, mirror, feedState, orphans, feedFaults>>

State == fetch.state[fetch.eco]
Shrinks(prev, n) ==
    prev.known /\ Cardinality(prev.ids) >= MinIdsForShrinkCheck /\ n < Cardinality(prev.ids) \div 2

\* fetchEcosystem: the index once there is a cursor, else the archive.
NextEcosystem(e) ==
    /\ fetch.pc = "next" /\ fetch.left # {} /\ e = Min(fetch.left)
    /\ fetch' = [pc |-> IF fetch.state[e].cursor # 0 THEN "index" ELSE "archive", eco |-> e,
                 state |-> fetch.state, left |-> fetch.left \ {e}, todo |-> {}, entries |-> Nothing]
    /\ UNCHANGED <<bucketVars, mirror, feedState, orphans, feedFaults>>

\* fetchIncremental up to the downloads.
ModifiedSince(entries, cursor) == {a \in Ids(entries) : entries[a] > cursor - CursorOverlap}
ReadIndex ==
    /\ fetch.pc = "index"
    /\ LET entries == Served(fetch.eco)
           changed == ModifiedSince(entries, State.cursor)
       IN  fetch' = IF entries = State.indexETag \/ Shrinks(State, Cardinality(Ids(entries)))
                    THEN [fetch EXCEPT !.pc = "save"]
                    ELSE IF Cardinality(changed) > MaxIncrementalFetches
                    THEN [fetch EXCEPT !.pc = "archive"]
                    ELSE [fetch EXCEPT !.pc = "download", !.todo = changed, !.entries = entries]
    /\ UNCHANGED <<bucketVars, mirror, feedState, orphans, feedFaults>>

\* fetchAdvisory reads the export as it is now; an advisory that is gone is skipped.
Download(a) ==
    /\ fetch.pc = "download" /\ a \in fetch.todo
    /\ fetch' = [fetch EXCEPT !.todo = @ \ {a}]
    /\ mirror' = IF Served(fetch.eco)[a] = 0 THEN mirror
                 ELSE [mirror EXCEPT ![a] = Served(fetch.eco)[a]]
    /\ UNCHANGED <<bucketVars, feedState, orphans, feedFaults>>

\* removeUnexported: what no other ecosystem is known to export.
ExportedByNone == {}                                                   \* mutant
ExportedByOthers == UNION {fetch.state[e].ids : e \in Ecosystem \ {fetch.eco}}
RemoveUnexported(ids) ==
    mirror' = [a \in FeedAdvisory |->
                 IF a \in State.ids \ ids /\ a \notin ExportedByOthers THEN 0 ELSE mirror[a]]

Synced(new) == fetch' = [fetch EXCEPT !.pc = "save", !.todo = {}, !.state[fetch.eco] = new]
Cursor(entries, from) == Max({entries[a] : a \in FeedAdvisory} \cup {from})

IndexSynced ==
    /\ fetch.pc = "download" /\ fetch.todo = {}
    /\ RemoveUnexported(Ids(fetch.entries))
    /\ Synced([State EXCEPT !.ids = Ids(fetch.entries), !.indexETag = fetch.entries,
                            !.cursor = Cursor(fetch.entries, @)])
    /\ UNCHANGED <<bucketVars, feedState, orphans, feedFaults>>

\* fetchArchive: not modified since the last one, or extracted file by file.
ReadArchive ==
    /\ fetch.pc = "archive"
    /\ fetch' = IF State.known /\ Served(fetch.eco) = State.etag THEN [fetch EXCEPT !.pc = "save"]
                ELSE [fetch EXCEPT !.pc = "extract", !.todo = Ids(Served(fetch.eco)),
                                   !.entries = Served(fetch.eco)]
    /\ UNCHANGED <<bucketVars, mirror, feedState, orphans, feedFaults>>

Extract(a) ==
    /\ fetch.pc = "extract" /\ a \in fetch.todo
    /\ fetch' = [fetch EXCEPT !.todo = @ \ {a}]
    /\ mirror' = [mirror EXCEPT ![a] = fetch.entries[a]]
    /\ UNCHANGED <<bucketVars, feedState, orphans, feedFaults>>

ArchiveSynced ==
    /\ fetch.pc = "extract" /\ fetch.todo = {}
    /\ IF Shrinks(State, Cardinality(Ids(fetch.entries)))
       THEN fetch' = [fetch EXCEPT !.pc = "save"] /\ UNCHANGED mirror
       ELSE /\ RemoveUnexported(Ids(fetch.entries))
            /\ Synced([ids |-> Ids(fetch.entries), etag |-> fetch.entries, indexETag |-> Nothing,
                       cursor |-> Cursor(fetch.entries, 0), known |-> TRUE])
    /\ UNCHANGED <<bucketVars, feedState, orphans, feedFaults>>

\* saveState, after every ecosystem.
SaveState ==
    /\ fetch.pc = "save"
    /\ feedState' = fetch.state
    /\ fetch' = IF fetch.left = {} THEN NoFetch
                ELSE [pc |-> "next", state |-> fetch.state, left |-> fetch.left, todo |-> {},
                      entries |-> Nothing]
    /\ UNCHANGED <<bucketVars, mirror, orphans, feedFaults>>

Orphaned(state) ==
    orphans' = orphans \cup {a \in Ids(mirror) : \A e \in Ecosystem : a \notin state[e].ids}

\* A request fails: the ecosystem keeps its state.  Without an index the archive is read.
FetchError ==
    /\ fetch.pc \in {"index", "download", "archive", "extract"} /\ FeedFault /\ Orphaned(fetch.state)
    /\ \E pc \in {"save"} \cup (IF fetch.pc = "index" THEN {"archive"} ELSE {}) :
         fetch' = [fetch EXCEPT !.pc = pc, !.todo = {}]
    /\ UNCHANGED <<bucketVars, mirror, feedState>>

CrashFetch ==
    /\ fetch.pc # "idle" /\ FeedFault
    /\ Orphaned(feedState)
    /\ fetch' = NoFetch
    /\ UNCHANGED <<bucketVars, mirror, feedState>>
-----------------------------------------------------------------------------
FetchStep ==
    \/ StartFetch \/ ReadIndex \/ IndexSynced \/ ReadArchive \/ ArchiveSynced \/ SaveState
    \/ \E e \in Ecosystem : NextEcosystem(e)
    \/ \E a \in FeedAdvisory : Download(a) \/ Extract(a)

FeedNext ==
    \/ \E e \in Ecosystem, a \in FeedAdvisory :
         (\E late \in 0..CursorOverlap : Publish(e, a, late)) \/ Unpublish(e, a)
    \/ \E e \in Ecosystem : Truncate(e) \/ Restore(e)
    \/ FetchStep \/ FetchError \/ CrashFetch

\* The CronJob runs the update again and again, and a broken export is repaired.
FeedFairness ==
    /\ WF_feedVars(FetchStep)
    /\ \A e \in Ecosystem : WF_feedVars(Restore(e))
FeedSpec == FeedInit /\ [][FeedNext]_feedVars /\ FeedFairness
-----------------------------------------------------------------------------
(* Properties *)

(* Once the exports no longer change, the directory becomes the union of    *)
(* the exports and stays so, although downloads fail, the job is killed     *)
(* between two files or between a removal and its saved state, an export is *)
(* truncated for a while, and an advisory is exported by several ecosystems *)
(* or listed late.  Only a file written by a fetch that stopped before its  *)
(* state was saved may stay after its advisory is gone.                     *)
Exported == [a \in FeedAdvisory |-> IF \E e \in Ecosystem : a \in exports[e] THEN modified[a] ELSE 0]
MirrorCatchesUp ==
    <>[](\A a \in FeedAdvisory : mirror[a] = Exported[a] \/ (Exported[a] = 0 /\ a \in orphans))
=============================================================================
