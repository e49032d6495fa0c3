-------------------------- MODULE MCTelemetryIndex --------------------------
(* Times on both sides of the rounding and of the ends of a second; lines  *)
(* that lack columns, and a blank one.                                     *)
EXTENDS TelemetryIndex

MCTimes == {0, 90, 91, 450, 990, 991, 1000, 1100, 2350}
MCLines == [time : MCTimes, kind : {"full"}]
           \cup {[time |-> 1100, kind |-> "board"], [time |-> 450, kind |-> "short"],
                 [time |-> 0, kind |-> "blank"]}
MCPositions == {0, 40, 100, 450, 999, 1000, 1100, 2399, 3000}
=============================================================================
