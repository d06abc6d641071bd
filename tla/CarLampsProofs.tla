--------------------------- MODULE CarLampsProofs ---------------------------
(***************************************************************************)
(* The turn signals, lights and gauges of the simulated car for every      *)
(* choice of ticks in the order the code has them, and every set of lamps. *)
(* The common period of the counters, with the ticks of the code, is too   *)
(* long for TLC.                                                           *)
(***************************************************************************)
EXTENDS CarLamps, TLAPS

(* The gauge of the cooling liquid turns before it leaves its scale.       *)
GaugeInv ==
  /\ CoolingTemp \in Int /\ inc \in {1, -1}
  /\ inc = 1 => CoolingTemp \in 0 .. 100
  /\ inc = -1 => CoolingTemp \in 20 .. 101

IconsInv == IconsAgree /\ GaugeInv /\ lightCc \in Nat

LEMMA IconsInvStep == IconsInv /\ [Update]_vars => IconsInv'
<1> SUFFICES ASSUME IconsInv, [Update]_vars PROVE IconsInv'
  OBVIOUS
<1>1. CASE Update
  <2>1. (HighLight' = 1 => LowLight' = 1) /\ lightCc' \in Nat
    BY <1>1, TicksOK DEF Update, locUpdateLight, LowOn, IconsInv, IconsAgree
  <2>2. GearSelect' \in {1, 2, 4, 8, 16}
    BY <1>1 DEF Update, locUpdateGearSelect, GearNext, IconsInv, IconsAgree
  <2>3. FuelLevel' \in 0 .. 100
    BY <1>1 DEF Update, locUpdateFuel, FuelNext, IconsInv, IconsAgree
  <2>4. CoolingTemp' \in 0 .. 101 /\ GaugeInv'
    BY <1>1 DEF Update, locUpdateCoolingLiquid, IconsInv, GaugeInv
  <2> QED
    BY <2>1, <2>2, <2>3, <2>4 DEF IconsInv, IconsAgree
<1>2. CASE UNCHANGED vars
  BY <1>2 DEF vars, IconsInv, IconsAgree, GaugeInv
<1> QED
  BY <1>1, <1>2

(* For every choice of ticks: the beams, the gear icons and both gauges    *)
(* agree at every tick (locUpdateLight, locUpdateGearSelect, locUpdateFuel,*)
(* locUpdateCoolingLiquid).                                                *)
THEOREM IconsAgreeHolds == Spec => []IconsAgree
<1>1. Init => IconsInv
  BY DEF Init, IconsInv, IconsAgree, GaugeInv
<1>2. IconsInv => IconsAgree
  BY DEF IconsInv
<1> QED
  BY IconsInvStep, <1>1, <1>2, PTL DEF Spec
-----------------------------------------------------------------------------
(* The signals that burn are given by the tick: left up to the second      *)
(* tick, right up to the fourth, both after the fifth, and both still when *)
(* the counter has started again.                                          *)
Signals(l, r) == Left = l /\ Right = r

TurnInv ==
  /\ turnCc \in Nat
  /\ \/ turnCc <= 1 /\ Signals(0, 0)
     \/ turnCc = 1 /\ Signals(1, 1)
     \/ 1 < turnCc /\ turnCc <= Turn[2] /\ Signals(1, 0)
     \/ Turn[2] < turnCc /\ turnCc <= Turn[3] /\ Signals(0, 0)
     \/ Turn[3] < turnCc /\ turnCc <= Turn[4] /\ Signals(0, 1)
     \/ Turn[4] < turnCc /\ turnCc <= Turn[5] /\ Signals(0, 0)
     \/ Turn[5] < turnCc /\ Signals(1, 1)

LEMMA TurnOrder ==
  /\ \A j \in 1 .. 6 : Turn[j] \in Nat
  /\ Turn[1] = 1 /\ 1 < Turn[2] /\ Turn[2] < Turn[3] /\ Turn[3] < Turn[4]
  /\ Turn[4] < Turn[5] /\ Turn[5] < Turn[6]
  BY TicksOK

(* One tick: which signals burn next.                                      *)
LEMMA TurnStep ==
  ASSUME TurnInv, locUpdateTurnSignals
  PROVE  /\ TurnInv'
         /\ Left = 1 /\ Right = 1 => Left' = 1
         /\ Left = 1 /\ Right = 0 => Right' = 0
         /\ Left = 0 /\ Right = 1 => Left' = 0
<1>1. /\ turnCc \in Nat
      /\ turnCc' = IF turnCc > Turn[6] THEN 1 ELSE turnCc + 1
  BY DEF TurnInv, locUpdateTurnSignals
<1>2. turnCc = 1 => Signals(1, 0)'
  BY TurnOrder DEF locUpdateTurnSignals, RightAtFirst, Signals
<1>3. turnCc \in {Turn[2], Turn[4]} => Signals(0, 0)'
  BY TurnOrder DEF locUpdateTurnSignals, Signals
<1>4. turnCc = Turn[3] => Signals(0, 1)'
  BY TurnOrder DEF locUpdateTurnSignals, Signals
<1>5. turnCc = Turn[5] => Signals(1, 1)'
  BY TurnOrder DEF locUpdateTurnSignals, Signals
<1>6. turnCc \notin {1, Turn[2], Turn[3], Turn[4], Turn[5]} =>
        Left' = Left /\ Right' = Right
  BY TurnOrder DEF locUpdateTurnSignals
<1> QED
  BY <1>1, <1>2, <1>3, <1>4, <1>5, <1>6, TurnOrder DEF TurnInv, Signals

(* For every choice of ticks: never from one side to the other in one      *)
(* tick, and from both to left (locUpdateTurnSignals).                     *)
THEOREM SignalsInOrderHolds == Spec => SignalsInOrder
<1>1. Init => TurnInv
  BY DEF Init, TurnInv, Signals
<1>2. TurnInv /\ [Update]_vars => TurnInv'
  BY TurnStep DEF Update, vars, TurnInv, Signals
<1>3. TurnInv /\ [Update]_vars =>
        [/\ Left = 1 /\ Right = 1 => Left' = 1
         /\ Left = 1 /\ Right = 0 => Right' = 0
         /\ Left = 0 /\ Right = 1 => Left' = 0]_vars
  BY TurnStep DEF Update
<1> QED
  BY <1>1, <1>2, <1>3, PTL DEF Spec, SignalsInOrder
=============================================================================
