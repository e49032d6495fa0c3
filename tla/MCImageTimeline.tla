-------------------------- MODULE MCImageTimeline --------------------------
(* Every directory of up to five files of three seconds. *)
EXTENDS ImageTimeline

MCSeconds == {0, 1, 58}
=============================================================================
