------------------------------ MODULE CarLamps ------------------------------
(***************************************************************************)
(* The rest of the simulated car (app_cl_carmodel.c): turn signals, lights *)
(* and warning lamps that follow tick counters of their own, cooling       *)
(* temperature, fuel level and the selected gear.  It shares no variable   *)
(* with the drive (CarDrive); CarModelUpdate updates both once per frame.  *)
(***************************************************************************)
EXTENDS Integers, FiniteSets

CONSTANTS
  Lamps,         \* the warning lamps
  First, Mid, End,   \* of each lamp: the value it starts with, the tick it
                 \* changes at and the tick its counter restarts at
  Turn,          \* the ticks of locUpdateTurnSignals: six of them
  Light          \* the ticks of locUpdateLight: three of them

ASSUME TicksOK ==
  /\ Turn \in [1 .. 6 -> Nat] /\ Light \in [1 .. 3 -> Nat]
  /\ \A l \in Lamps : 0 < Mid[l] /\ Mid[l] < End[l] /\ First[l] \in {0, 1}
  /\ \A j \in 1 .. 4 : 0 < Turn[j] /\ Turn[j] < Turn[j+1]
  /\ Turn[1] = 1 /\ Turn[5] < Turn[6]
  /\ 0 < Light[1] /\ Light[1] < Light[2] /\ Light[2] < Light[3]

VARIABLES
  lamp, lampCc,                \* the lamps and their counters
  Left, Right, turnCc,
  LowLight, HighLight, lightCc,
  CoolingTemp, inc,            \* int8_t
  FuelLevel, fuelCc,           \* uint8_t; the counter modulo 2
  GearSelect, gearCc           \* uint8_t; the counter modulo 50

vars == <<lamp, lampCc, Left, Right, turnCc, LowLight, HighLight, lightCc,
          CoolingTemp, inc, FuelLevel, fuelCc, GearSelect, gearCc>>

Init ==
  /\ lamp = [l \in Lamps |-> 0] /\ lampCc = [l \in Lamps |-> 0]
  /\ Left = 0 /\ Right = 0 /\ turnCc = 0
  /\ LowLight = 0 /\ HighLight = 0 /\ lightCc = 0
  /\ CoolingTemp = 0 /\ inc = 1
  /\ FuelLevel = 0 /\ fuelCc = 0
  /\ GearSelect = 1 /\ gearCc = 0

(* locUpdateFan ... locUpdateWiping: at the end of the period the counter  *)
(* restarts and the lamp keeps its value for one more tick.                *)
LampCcNext(l) == IF lampCc[l] < End[l] THEN lampCc[l] + 1 ELSE 1
UpdateLamps ==
  /\ lamp' = [l \in Lamps |-> IF lampCc[l] < Mid[l] THEN First[l]
                              ELSE IF lampCc[l] < End[l] THEN 1 - First[l]
                              ELSE lamp[l]]
  /\ lampCc' = [l \in Lamps |-> LampCcNext(l)]

(* locUpdateTurnSignals: left, none, right, none, both, and so on.         *)
MutKeepRight == Right
RightAtFirst == 0
locUpdateTurnSignals ==
  /\ Left' = CASE turnCc \in {Turn[1], Turn[5]} -> 1
               [] turnCc \in {Turn[2], Turn[3], Turn[4]} -> 0
               [] OTHER -> Left
  /\ Right' = CASE turnCc = Turn[1] -> RightAtFirst
                [] turnCc \in {Turn[3], Turn[5]} -> 1
                [] turnCc \in {Turn[2], Turn[4]} -> 0
                [] OTHER -> Right
  /\ turnCc' = IF turnCc > Turn[6] THEN 1 ELSE turnCc + 1

(* locUpdateLight: dark, low beam, both beams.                             *)
LowOn == lightCc >= Light[1]
locUpdateLight ==
  /\ IF lightCc < Light[3]
     THEN /\ LowLight' = IF LowOn THEN 1 ELSE 0
          /\ HighLight' = IF lightCc >= Light[2] THEN 1 ELSE 0
     ELSE UNCHANGED <<LowLight, HighLight>>
  /\ lightCc' = IF lightCc < Light[3] THEN lightCc + 1 ELSE 1

(* locUpdateCoolingLiquid.                                                 *)
locUpdateCoolingLiquid ==
  /\ CoolingTemp' = CoolingTemp + inc
  /\ inc' = IF CoolingTemp' > 100 THEN -1
            ELSE IF CoolingTemp' < 20 THEN 1 ELSE inc

(* locUpdateFuel: every second tick; an empty tank is filled first.        *)
MutNoRefill == (FuelLevel + 255) % 256
FuelNext == (IF FuelLevel = 0 THEN 100 ELSE FuelLevel) - 1
locUpdateFuel ==
  /\ fuelCc' = (fuelCc + 1) % 2
  /\ FuelLevel' = IF fuelCc' = 0 THEN FuelNext ELSE FuelLevel

(* locUpdateGearSelect: P, R, N, D, S and P again.                         *)
GearNext == IF 2 * GearSelect > 16 THEN 1 ELSE 2 * GearSelect
locUpdateGearSelect ==
  /\ gearCc' = (gearCc + 1) % 50
  /\ GearSelect' = IF gearCc' = 0 THEN GearNext ELSE GearSelect

Update == UpdateLamps /\ locUpdateTurnSignals /\ locUpdateLight
            /\ locUpdateCoolingLiquid /\ locUpdateFuel /\ locUpdateGearSelect

(* One update per frame, for ever.                                         *)
Spec == Init /\ [][Update]_vars /\ WF_vars(Update)

-----------------------------------------------------------------------------
(* Icons that belong together agree at every tick, restarts included: high *)
(* beam only with low beam, exactly one gear selected, and the gauges on   *)
(* their scales, which locConvertFuel2Angle and locConvertCooling2Angle    *)
(* rely on.                                                                *)
IconsAgree ==
  /\ HighLight = 1 => LowLight = 1
  /\ GearSelect \in {1, 2, 4, 8, 16}
  /\ FuelLevel \in 0 .. 100 /\ CoolingTemp \in 0 .. 101

(* Whoever signals both ways (the hazard icon, locGetHazard) goes on to    *)
(* signal left, and whoever signals one way stops before signalling the    *)
(* other way: never from left to right or back in one tick.                *)
SignalsInOrder ==
  [][/\ Left = 1 /\ Right = 1 => Left' = 1
     /\ Left = 1 /\ Right = 0 => Right' = 0
     /\ Left = 0 /\ Right = 1 => Left' = 0]_vars
=============================================================================
