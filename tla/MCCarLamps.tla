----------------------------- MODULE MCCarLamps -----------------------------
(***************************************************************************)
(* Lamps and turn signals with short periods; lights, gauges and gears     *)
(* with those of the code.  The joint period is 41000 frames.              *)
(***************************************************************************)
EXTENDS CarLamps

TwoLamps == {"Oil", "Battery"}
FirstOf == [Oil |-> 0, Battery |-> 1]
MidOf == [Oil |-> 3, Battery |-> 2]
EndOf == [Oil |-> 5, Battery |-> 4]
TurnTicks == <<1, 5, 15, 20, 25, 39>>
LightTicks == <<100, 200, 250>>
=============================================================================
