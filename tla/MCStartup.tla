----------------------------- MODULE MCStartup -----------------------------
(* Files with no defect, with each, and with two of which the first        *)
(* noticed decides; every source and every kind of context.                *)
EXTENDS Startup

MCContents ==
    [defects : {{}} \cup {{d} : d \in Defects} \cup {{"server feature", "own section"}},
     source : Sources, context : Contexts]
=============================================================================
