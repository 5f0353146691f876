--------------------------- MODULE MCFalcoOutbox ---------------------------
(* FalcoOutbox with small sources for TLC. *)
EXTENDS FalcoOutbox

(* Two events on one line, which fill the outbox, and one more; an event   *)
(* whose Pod is looked up; a line that gives no event.                     *)
ThreeSources == {<<"pair", "uid">>, <<"uid", "named">>, <<"bad">>}
(* The file of the second source is not replaced: a bound. *)
Instances == Lines = <<"uid", "named">> => file.gen = 1
(* Events of a pair are small; two others are more than three bytes. *)
Sizes == [k \in LineKinds |-> IF k = "pair" THEN 1 ELSE 2]
BlankSource == {<<"blank", "pair">>}
TwoLineIds == {1, 2} \X {1, 2}
=============================================================================
