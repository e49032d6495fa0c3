--------------------------- MODULE MCVideoStream ---------------------------
(* A queue that is full at two buffers, with room for the overshoot, and   *)
(* four frames: two worthless ones before the first good one, and one that *)
(* replaces it while it is copied.                                         *)
EXTENDS VideoStream
=============================================================================
