----------------------------- MODULE SBOMStore -----------------------------
(***************************************************************************)
(* Core's SBOM ingest: SendSBOMFinding (core/internal/grpc/handler_sbom.go) *)
(* and the one write path behind it, UpsertSBOMWithComponents              *)
(* (core/internal/repository/sbom_repository.go). The handler reads the    *)
(* stored status before the transaction that writes, so two requests of    *)
(* one container (an Agent that timed out and sent again) may both decide  *)
(* on a row that the other then changes.                                   *)
(***************************************************************************)
EXTENDS Naturals, Sequences, FiniteSets

CONSTANTS
    Keys,        \* containers, each with its cluster, Pod and image digest
    Handlers,    \* handlers in Core at once, 1 .. some number
    Extractions  \* what the Agent may find in an image: see Extraction

(* packages: a set of packages ("A", "B"), "dropped" when Core's           *)
(* sanitation refuses each of them, "none" when the extraction failed;     *)
(* high: parsers with high confidence; sig: the signature DB version label *)
(* ("bad": not a version).                                                 *)
Extraction == [packages : {"A", "B", "dropped", "none"}, high : BOOLEAN, sig : {"", "s1", "s2", "bad"}]

ASSUME StoreAssumption ==
    /\ IsFiniteSet(Handlers) /\ Handlers = 1 .. Cardinality(Handlers)
    /\ Extractions \subseteq Extraction
    /\ \A x \in Extractions : x.packages = "none" => ~x.high /\ x.sig = ""

VARIABLES
    rows,     \* the sboms table: the row with ID i is rows[i]
    handler   \* the handlers at work

storeVars == <<rows, handler>>

NoOld == [found |-> FALSE, status |-> "", reason |-> ""]
Free == [pc |-> "free", key |-> "none", req |-> "none", old |-> NoOld, row |-> 0, reply |-> "nil"]

StoreInit ==
    /\ rows = <<>>
    /\ handler = [h \in Handlers |-> Free]

Live(k) == {i \in DOMAIN rows : rows[i].key = k /\ ~rows[i].deleted}

(* The status of what is left after sanitation. The one that an invalid    *)
(* signature version earned before the sanitation is replaced here.        *)
SanitizedStatus(req) ==
    IF req.packages = "none" THEN [status |-> "failed", reason |-> "pull_error"]
    ELSE IF req.packages = "dropped" THEN [status |-> "partial", reason |-> "validation_failed"]
    ELSE IF ~req.high THEN [status |-> "partial", reason |-> "parse_error"]
    ELSE [status |-> "complete", reason |-> "ok"]

Components(req) == IF req.packages = "dropped" THEN "none" ELSE req.packages

(* Downgrade protection, on the status read at the start of the request. *)
ModelStatus(req, old) ==
    LET new == SanitizedStatus(req)
        kept == IF old.reason # "" THEN old.reason ELSE new.reason
    IN
    CASE ~old.found -> new
      [] old.status = "complete" -> [status |-> "complete", reason |-> "ok"]
      [] old.status = "failed" ->
           IF Components(req) # "none" THEN new ELSE [status |-> "failed", reason |-> kept]
      [] old.status = "partial" ->
           IF new.status = "complete" THEN new
           ELSE [status |-> "partial",
                 reason |-> IF Components(req) = "none" THEN kept ELSE new.reason]

sbomModel(req, old) ==
    LET s == ModelStatus(req, old) IN
    [status |-> s.status, reason |-> s.reason, packages |-> Components(req),
     fp |-> Components(req),
     sig |-> IF req.sig = "bad" THEN "" ELSE req.sig]

assertTransition(old, new) ==
    CASE old = "failed" -> new = "failed"
      [] old = "partial" -> new \in {"partial", "complete", "failed"}
      [] old = "complete" -> new \in {"complete", "failed"}

(* The same packages must come out of the same image with the same         *)
(* signatures (the resolver version is Core's own and does not change).    *)
Drifted(ex, sb) ==
    /\ ex.status # "failed" /\ sb.status # "failed"
    /\ ex.fp # "none" /\ sb.fp # "none" /\ ex.fp # sb.fp
    /\ ex.sig = sb.sig

(* The snapshot is given up with the status, whatever failed. *)
KeepNothing(ex, sb) == FALSE

preserveExistingSnapshot(ex, sb) ==
    /\ sb.packages = "none" /\ sb.status = "failed" /\ sb.reason = "pull_error"
    /\ ex.packages # "none"

UpdatedRow(ex, sb0) ==
    LET sb == IF Drifted(ex, sb0)
              THEN [sb0 EXCEPT !.status = "failed", !.reason = "nondeterministic_output"]
              ELSE sb0
        keep == preserveExistingSnapshot(ex, sb)
    IN [ex EXCEPT !.version = @ + 1, !.sig = sb.sig,
                  !.status = IF keep THEN @ ELSE sb.status,
                  !.reason = IF keep THEN @ ELSE sb.reason,
                  !.packages = IF keep THEN @ ELSE sb.packages,
                  !.fp = IF keep THEN @ ELSE sb.fp]

(* No look at the number of components. *)
UpsertAcceptsEmpty(k, sb) == \A i \in Live(k) : assertTransition(rows[i].status, sb.status)

(* What the transaction finds under its lock, and whether it goes through. *)
UpsertAccepts(k, sb) ==
    /\ sb.status = "complete" => sb.packages # "none"
    /\ \A i \in Live(k) : assertTransition(rows[i].status, sb.status)

(* A fresh row; ahead of the lookup, a second live row of the container. *)
InsertSBOM(k, sb) ==
    rows' = Append(rows, [key |-> k, deleted |-> FALSE, status |-> sb.status,
                          reason |-> sb.reason, packages |-> sb.packages,
                          fp |-> sb.fp, sig |-> sb.sig, version |-> 1])

UpsertSBOMWithComponents(k, sb) ==
    IF Live(k) # {}
    THEN LET i == CHOOSE i \in Live(k) : TRUE IN rows' = [rows EXCEPT ![i] = UpdatedRow(@, sb)]
    ELSE InsertSBOM(k, sb)

UpsertedID(k) == IF Live(k) # {} THEN CHOOSE i \in Live(k) : TRUE ELSE Len(rows) + 1

----------------------------------------------------------------------------
(* The steps of SendSBOMFinding.                                           *)

Receive(h, k, req) ==
    /\ handler[h].pc = "free"
    /\ handler' = [handler EXCEPT ![h] = [Free EXCEPT !.pc = "read", !.key = k, !.req = req]]
    /\ UNCHANGED rows

Reply(h, err) == handler' = [handler EXCEPT ![h].pc = "reply", ![h].reply = err]

(* Ownership, rate limit, database or validation: refused before any write. *)
Refuse(h, err) ==
    /\ handler[h].pc = "read"
    /\ err \in {"transient", "fatal"}
    /\ Reply(h, err)
    /\ UNCHANGED rows

(* The stored status decides; a good row is kept when nothing was extracted. *)
ReadExisting(h) ==
    LET k == handler[h].key
        old == IF Live(k) = {} THEN NoOld
               ELSE LET i == CHOOSE i \in Live(k) : TRUE IN
                    [found |-> TRUE, status |-> rows[i].status, reason |-> rows[i].reason]
    IN
    /\ handler[h].pc = "read"
    /\ IF handler[h].req.packages = "none" /\ old.status \in {"complete", "partial"}
       THEN Reply(h, "nil")
       ELSE handler' = [handler EXCEPT ![h].pc = "store", ![h].old = old]
    /\ UNCHANGED rows

StoreSBOM(h) ==
    LET k == handler[h].key
        sb == sbomModel(handler[h].req, handler[h].old)
    IN
    /\ handler[h].pc = "store"
    /\ IF UpsertAccepts(k, sb)
       THEN /\ UpsertSBOMWithComponents(k, sb)
            /\ handler' = [handler EXCEPT ![h].pc = "publish", ![h].row = UpsertedID(k)]
       ELSE Reply(h, "fatal") /\ UNCHANGED rows

(* The database fails the transaction and rolls it back: codes.Internal with *)
(* its text, no transient phrase, but it may be that of a unique violation. *)
StoreFails(h) ==
    /\ handler[h].pc = "store"
    /\ \E err \in {"fatal", "duplicate"} : Reply(h, err)
    /\ UNCHANGED rows

(* The event is out (SBOMMatching): the reply says so. *)
Published(h) ==
    /\ handler[h].pc = "publish"
    /\ Reply(h, "nil")
    /\ UNCHANGED rows

Done(h) ==
    /\ handler[h].pc = "reply"
    /\ handler' = [handler EXCEPT ![h] = Free]
    /\ UNCHANGED rows

(* Core restarts: requests end where they are; a committed row stays. *)
HandlersLost ==
    /\ handler' = [h \in Handlers |-> Free]
    /\ UNCHANGED rows

(* The orphan clean-up (SBOMReconciler) soft-deletes rows by ID. *)
DeleteRows(ids) ==
    rows' = [i \in DOMAIN rows |-> IF i \in ids THEN [rows[i] EXCEPT !.deleted = TRUE] ELSE rows[i]]

----------------------------------------------------------------------------

StoreTypeOK ==
    /\ \A i \in DOMAIN rows :
         /\ rows[i].key \in Keys /\ rows[i].deleted \in BOOLEAN
         /\ rows[i].status \in {"complete", "partial", "failed"}
         /\ rows[i].version \in Nat \ {0}
    /\ \A k \in Keys : Cardinality(Live(k)) <= 1
    /\ \A h \in Handlers : handler[h].pc \in {"free", "read", "store", "publish", "reply"}

(* A request without packages (the Agent could not pull or read the image) *)
(* leaves the packages of a stored SBOM as they are, although the handler  *)
(* decided on a status that may have changed since it read it. The one     *)
(* exception: it read a row failed for nondeterministic output, whose      *)
(* reason it carries over.                                                 *)
SnapshotKept ==
    [][\A h \in Handlers :
          (/\ handler[h].pc = "store" /\ handler'[h].pc = "publish"
           /\ handler[h].req.packages = "none"
           /\ handler[h].old.reason # "nondeterministic_output")
          => \A i \in DOMAIN rows : rows'[i].packages = rows[i].packages]_storeVars

(* Failed is terminal in the table: the packages of a row marked failed for *)
(* nondeterministic output never become trusted again, and a complete row  *)
(* always has the packages whose fingerprint it carries.                   *)
TrustedRowsAreWhole ==
    \A i \in DOMAIN rows :
        /\ rows[i].status = "complete" => rows[i].packages # "none" /\ rows[i].fp = rows[i].packages
        /\ rows[i].reason = "nondeterministic_output" => rows[i].status = "failed"

(* What handler_sbom.go says of a failed row: "Allow recovery from         *)
(* transient failed state when new ingest has valid components".           *)
FailedRecovers ==
    \A h \in Handlers :
        (/\ handler[h].pc = "reply" /\ handler[h].old.status = "failed"
         /\ Components(handler[h].req) # "none")
        => handler[h].reply = "nil"
=============================================================================
