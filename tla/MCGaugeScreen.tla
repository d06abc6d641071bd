---------------------------- MODULE MCGaugeScreen ----------------------------
(***************************************************************************)
(* A small icon table and angle set for GaugeScreen.  The last entry of a  *)
(* table is never drawn, as in the code.  Icons and needle share nothing   *)
(* but the frame counter: the car either switches its icons, with the      *)
(* needle at rest, or drives, with all icons lit.                          *)
(***************************************************************************)
EXTENDS GaugeScreen

GaugeTable == <<{"FLASH"}, {"DRAW_ALWAYS"}, {}, {}, {}>>

(* The way between two of these angles crosses every threshold of          *)
(* locFilterGauge, in both directions.                                     *)
WideAngles == {0, 22, 90}

VARIABLE drives

MCInit ==
  /\ Init /\ drives \in BOOLEAN
  /\ IF drives THEN car = [i \in Elements |-> "on"]
               ELSE speed = 0 /\ NeedleSpeed.Current = 0
MCNext ==
  /\ Next /\ UNCHANGED drives
  /\ IF drives THEN UNCHANGED car ELSE UNCHANGED speed
MCSpec == MCInit /\ [][MCNext]_<<vars, drives>>
=============================================================================
