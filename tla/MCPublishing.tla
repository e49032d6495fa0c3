---------------------------- MODULE MCPublishing ----------------------------
(* A camera that looks ahead and one that looks backwards; a yaw that is   *)
(* turned beyond 180 degrees and one that is not.  The point may refuse    *)
(* its value, and so may one of the attributes.                            *)
EXTENDS Publishing

MCPitches == {-100, 30}
MCYaws == {-90, 90}
MCRefusing == {Point, Elevation}
=============================================================================
