----------------------------- MODULE LinkStatus -----------------------------
(***************************************************************************)
(* What the operator is promised about the "online" attribute of the       *)
(* camera object, with no thread, no ping counter and no callback in it:   *)
(*                                                                         *)
(*   - the attribute turns on only just after the drone was heard;         *)
(*   - it turns off only after the drone really was silent for longer than *)
(*     the timeout (the drone may have come back within the last Slack     *)
(*     ticks, while the decision was on its way);                          *)
(*   - it does not stay on for more than Late ticks of silence.            *)
(*                                                                         *)
(* The last promise is a bound on the passing of time: Tick is disabled    *)
(* when it would break it.  A client that died promises nothing about time.*)
(***************************************************************************)
EXTENDS Integers

CONSTANTS Timeout,  \* silence after which a drone counts as lost
          Slack,    \* how long ago "just heard" may be
          Late,     \* the longest silence an "online" attribute survives
          Cap       \* ages are counted up to Cap, and stay there

VARIABLES shown,    \* the attribute: "unset", "on" or "off"
          silence,  \* ticks since the drone was last heard
          gap,      \* how long the silence before that one lasted
          alive     \* the client is running

linkVars == <<shown, silence, gap, alive>>

Older(age) == IF age < Cap THEN age + 1 ELSE age

Init == /\ shown = "unset"
        /\ silence = Cap
        /\ gap = Cap
        /\ alive = TRUE

Hear == /\ gap' = silence
        /\ silence' = 0
        /\ UNCHANGED <<shown, alive>>

Tick == /\ alive /\ shown = "on" => silence < Late
        /\ silence' = Older(silence)
        /\ UNCHANGED <<shown, gap, alive>>

ShowOnline == /\ alive
              /\ silence <= Slack
              /\ shown' = "on"
              /\ UNCHANGED <<silence, gap, alive>>

ReallySilent == \/ silence > Timeout
                \/ silence <= Slack /\ gap + silence > Timeout

ShowOffline == /\ alive
               /\ ReallySilent
               /\ shown' = "off"
               /\ UNCHANGED <<silence, gap, alive>>

Die == /\ alive' = FALSE
       /\ UNCHANGED <<shown, silence, gap>>

Next == Hear \/ Tick \/ ShowOnline \/ ShowOffline \/ Die

Spec == Init /\ [][Next]_linkVars
=============================================================================
