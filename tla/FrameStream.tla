---------------------------- MODULE FrameStream ----------------------------
(***************************************************************************)
(* What the cluster demo promises to whoever looks at the screen: frames   *)
(* are shown one by one, in the order of their numbers and none left out;  *)
(* each is drawn out of sight and shown when it is complete; and there is  *)
(* always a next one.  The promise ends when a call of a library fails:    *)
(* the stream is then lost, and the screen may show anything.              *)
(***************************************************************************)
EXTENDS Integers

CONSTANT CntMod     \* frame numbers wrap

VARIABLES
  phase,    \* of the next frame: "idle", "draw", "done", or all is "lost"
  next,     \* its number
  screen    \* the number of the frame on the screen, -1 before the first

Frames == 0 .. CntMod - 1
stream == <<phase, next, screen>>

StreamInit == phase = "idle" /\ next = 0 /\ screen = -1

Draw == phase = "idle" /\ phase' = "draw" /\ UNCHANGED <<next, screen>>
Complete == phase = "draw" /\ phase' = "done" /\ UNCHANGED <<next, screen>>
Show ==
  /\ phase = "done" /\ phase' = "idle"
  /\ screen' = next /\ next' = (next + 1) % CntMod
Lose ==
  /\ phase' = "lost"
  /\ next' \in Frames /\ screen' \in Frames \cup {-1}

StreamNext == Draw \/ Complete \/ Show \/ Lose

(* A frame that is not lost is drawn, completed and shown.                 *)
StreamSpec ==
  /\ StreamInit /\ [][StreamNext]_stream
  /\ WF_stream(Draw) /\ WF_stream(Complete) /\ WF_stream(Show)
=============================================================================
