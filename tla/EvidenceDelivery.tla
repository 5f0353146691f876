-------------------------- MODULE EvidenceDelivery --------------------------
(***************************************************************************)
(* What a durable delivery pipeline promises for every piece of evidence.  *)
(* Evidence appears at the source; from there it is stored or lost.  Once  *)
(* stored it can only be applied, and what is applied stays applied.       *)
(* Nothing is applied that was not stored first, so that a crash at any    *)
(* moment finds either the source or the store to go on from.              *)
(***************************************************************************)
CONSTANT Evidence

VARIABLE status

Statuses == {"unwritten", "unread", "stored", "applied", "lost"}

Moves == {<<"unwritten", "unread">>, <<"unread", "stored">>,
          <<"unread", "lost">>, <<"stored", "applied">>}

Init == status = [e \in Evidence |-> "unwritten"]

Next ==
    /\ status' \in [Evidence -> Statuses]
    /\ \A e \in Evidence : \/ status'[e] = status[e]
                           \/ <<status[e], status'[e]>> \in Moves

Spec == Init /\ [][Next]_status

(* Everything that is stored is applied in the end. *)
StoredIsApplied == \A e \in Evidence : status[e] = "stored" ~> status[e] = "applied"

LiveSpec == Spec /\ StoredIsApplied
=============================================================================
