---------------------------- MODULE MCSelection ----------------------------
(* An own unit and one of another player, on a map of 3 by 2 points. *)
EXTENDS Selection

MCUnits == <<"mine", "other">>
MCOwner == [u \in {"mine", "other"} |-> IF u = "mine" THEN 1 ELSE 2]
MCXs == 0 .. 2
MCZs == 0 .. 1
=============================================================================
