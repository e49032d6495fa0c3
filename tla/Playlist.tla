------------------------------ MODULE Playlist ------------------------------
(***************************************************************************)
(* What ImageFromFile promises the pipeline: once a recording of length    *)
(* images is loaded, every call of getImageData returns the next one, in   *)
(* the order of their names, and the first again after the last.           *)
(***************************************************************************)
EXTENDS Integers

VARIABLES length,    \* images of the recording, or 0 while it is loaded
          shown      \* number of the image returned last, or 0

vars == <<length, shown>>

Init == length = 0 /\ shown = 0

Load == /\ length = 0
        /\ length' \in Nat \ {0}
        /\ shown' = shown

Show == /\ length > 0
        /\ shown' = (shown % length) + 1
        /\ length' = length

Spec == Init /\ [][Load \/ Show]_vars
=============================================================================
