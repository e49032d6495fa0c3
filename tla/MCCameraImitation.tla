------------------------- MODULE MCCameraImitation -------------------------
(* Half degrees, pitch below zero and roll above, and a zoom scale of odd  *)
(* length.                                                                 *)
EXTENDS CameraImitation

MCAngles == [pitch |-> {-2, -1, 0}, roll |-> {0, 1, 2}]
=============================================================================
