---------------------------- MODULE MCHoldPoint ----------------------------
(* Two objects, two positions, and a mode the client does not know.  One   *)
(* position lies between two floats, south of zero and below the ground.   *)
EXTENDS HoldPoint

MCIds == {1, 2}
MCPoints == {[lat |-> 6, lon |-> 5, alt |-> 3], [lat |-> -3, lon |-> -2, alt |-> -1]}
MCModes == {"observation", "hold", "loiter"}
=============================================================================
