--------------------------- MODULE RuntimeIngest ---------------------------
(***************************************************************************)
(* Core's ingest of runtime events (POST /api/v2/runtime/events): the      *)
(* ownership middleware of core/internal/api/runtime_ingest_ownership.go,  *)
(* the handler of runtime_event_handlers_identity.go and the transaction   *)
(* of core/pkg/rep/processor_identity.go.                                  *)
(*                                                                         *)
(* An event is a record [id, pod]: id stands for source_record_id (the     *)
(* hash of path, inode, byte offset, ordinal and raw bytes) and pod for    *)
(* the rest of the payload that a replay must repeat.  A request is        *)
(* handled step by step: Core goes on with a request whose sender has      *)
(* given up on it, so two requests may hold the same event.                *)
(***************************************************************************)
EXTENDS Naturals, Sequences, FiniteSets

CONSTANTS
    EventIds,      \* source-record identities
    Pods,          \* Pod UIDs
    Slots          \* bound: requests that Core holds at one time

VARIABLES
    inventory,     \* Pods that Core's inventory holds for the Agent's cluster
    claims,        \* runtime_events: claimed id |-> payload of its event
    effects,       \* id |-> transactions that ran its downstream effects
    requests       \* slot |-> the request in it

ingestVars == <<inventory, claims, effects, requests>>

NoRequest == [batch |-> <<>>, next |-> 0, status |-> "none"]

(* The answers: 2xx, 403 runtime_ownership_mismatch, 409, 503. *)
Answers == {"ok", "ownership", "conflict", "unavailable"}

Events == [id : EventIds, pod : Pods]

Request == [batch : Seq(Events), next : Nat,
            status : {"none", "received", "processing"} \cup Answers]

IngestTypeOK ==
    /\ inventory \subseteq Pods
    /\ \E D \in SUBSET EventIds : claims \in [D -> Pods]
    /\ effects \in [EventIds -> Nat]
    /\ requests \in [Slots -> Request]

IngestInit ==
    /\ inventory \in SUBSET Pods
    /\ claims = << >>
    /\ effects = [i \in EventIds |-> 0]
    /\ requests = [s \in Slots |-> NoRequest]

Free(s) == requests[s].status = "none"

Submitted(s, batch) ==
    [requests EXCEPT ![s] = [batch |-> batch, next |-> 1, status |-> "received"]]

Answer(s, status) == requests' = [requests EXCEPT ![s].status = status]

(* requireScopedRuntimeOwnership: the whole batch before any event of it. *)
CheckOwnership(s) ==
    /\ requests[s].status = "received"
    /\ Answer(s, IF \A i \in DOMAIN requests[s].batch :
                        requests[s].batch[i].pod \in inventory
                 THEN "processing" ELSE "ownership")
    /\ UNCHANGED <<inventory, claims, effects>>

(* runtimeEventReplayMatches *)
ReplayMatches(e) == claims[e.id] = e.pod

(* Mutant: the effects do not depend on the claim. *)
IngestEventAgain(s) ==
    LET r == requests[s]
        e == r.batch[r.next]
    IN  /\ r.status = "processing"
        /\ r.next <= Len(r.batch)
        /\ \/ /\ e.id \notin DOMAIN claims
              /\ claims' = [i \in DOMAIN claims \cup {e.id} |->
                               IF i = e.id THEN e.pod ELSE claims[i]]
              /\ effects' = [effects EXCEPT ![e.id] = @ + 1]
              /\ requests' = [requests EXCEPT ![s].next = @ + 1]
           \/ /\ e.id \in DOMAIN claims
              /\ requests' = IF ReplayMatches(e)
                             THEN [requests EXCEPT ![s].next = @ + 1]
                             ELSE [requests EXCEPT ![s].status = "conflict"]
              /\ effects' = [effects EXCEPT ![e.id] = @ + 1]
              /\ UNCHANGED claims
        /\ UNCHANGED inventory

(* ProcessRuntimeEventForIdentity: one transaction per event.  The insert  *)
(* is the claim; the effects commit with it or not at all; a replay is a   *)
(* duplicate when its payload is unchanged and a conflict otherwise.       *)
IngestEvent(s) ==
    LET r == requests[s]
        e == r.batch[r.next]
    IN  /\ r.status = "processing"
        /\ r.next <= Len(r.batch)
        /\ \/ /\ e.id \notin DOMAIN claims
              /\ claims' = [i \in DOMAIN claims \cup {e.id} |->
                               IF i = e.id THEN e.pod ELSE claims[i]]
              /\ effects' = [effects EXCEPT ![e.id] = @ + 1]
              /\ requests' = [requests EXCEPT ![s].next = @ + 1]
           \/ /\ e.id \in DOMAIN claims
              /\ requests' = IF ReplayMatches(e)
                             THEN [requests EXCEPT ![s].next = @ + 1]
                             ELSE [requests EXCEPT ![s].status = "conflict"]
              /\ UNCHANGED <<claims, effects>>
        /\ UNCHANGED inventory

IngestDone(s) ==
    /\ requests[s].status = "processing"
    /\ requests[s].next > Len(requests[s].batch)
    /\ Answer(s, "ok")
    /\ UNCHANGED <<inventory, claims, effects>>

(* A storage error in either step: the running transaction rolls back, the *)
(* events committed before it stay committed.                              *)
IngestFails(s) ==
    /\ requests[s].status \in {"received", "processing"}
    /\ Answer(s, "unavailable")
    /\ UNCHANGED <<inventory, claims, effects>>

IngestStep == \E s \in Slots : CheckOwnership(s) \/ IngestEvent(s) \/ IngestDone(s)

(* The answer to a request nobody waits for any more. *)
Drop(s) == requests' = [requests EXCEPT ![s] = NoRequest]

(* Inventory syncs, which add a Pod and remove one.  (external: see        *)
(* InventoryEvidence)                                                      *)
PodLearnt(p) ==
    /\ p \notin inventory
    /\ inventory' = inventory \cup {p}
    /\ UNCHANGED <<claims, effects, requests>>

PodForgotten(p) ==
    /\ p \in inventory
    /\ inventory' = inventory \ {p}
    /\ UNCHANGED <<claims, effects, requests>>
=============================================================================
