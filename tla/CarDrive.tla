------------------------------ MODULE CarDrive ------------------------------
(***************************************************************************)
(* The drive of the simulated car (app_cl_carmodel.c: speed, gear, RPM)    *)
(* together with the speed needle that follows it (app_cl_gauge.c).        *)
(* RenderAppCluster moves the needle, then updates the car.                *)
(*                                                                         *)
(* Speed is a single-precision number and the code compares it with 50,    *)
(* 50.95 and 240, so its rounding decides what happens.  It is modelled    *)
(* exactly: the unit is 2^-20 / 5 km/h, in which 0.95 km/h and every       *)
(* single-precision number between 8 and 256 km/h are integers.  A sum is  *)
(* rounded to the spacing of such numbers at its size; it never falls half *)
(* way between two.  The needle angle, 210 degrees less one degree per     *)
(* km/h, is in the same unit; its own rounding, below 2^-14 degrees, is    *)
(* left out.                                                               *)
(***************************************************************************)
EXTENDS Integers

Kmh == 5 * 2^20
LOC_ACCELERATION_FACTOR == 4980736        \* 0.95 km/h
LOC_CM_SPEED_MAX == 240 * Kmh
LOC_CM_SPEED_MID == 50 * Kmh
LOC_CM_SPEED_MIN == 10 * Kmh
LOC_CM_RPM_MAX == 8000
LOC_CM_RPM_MIN == 100
LOC_CM_GEARDOWN_RPM == 2700
LOC_CM_GEARUP_RPM == 5500
LOC_CM_GEAR_MAX == 5
LOC_CM_GEAR_MIN == 1
locGearTrans == <<200, 150, 100, 50, 25>>
PauseTicks == 100

VARIABLES
  pc,                          \* what CarModelUpdate does next
  Speed, Direction, cc,        \* cc: the pause counter of locUpdateSpeed
  Gear, Rpm,
  needle,                      \* NeedleSpeed.CurrentAngleNeedle
  midPauses,                   \* history: pauses at LOC_CM_SPEED_MID since
                               \* the last end of the scale
  locked                       \* history: the needle has shown the speed

vars == <<pc, Speed, Direction, cc, Gear, Rpm, needle, midPauses, locked>>

SpeedAngle(s) == 210 * Kmh - s     \* locConvertSpeed2Angle

(* GaugeScreenInit sets the needle before InitCarModel sets the speed.     *)
Init ==
  /\ pc = "render"
  /\ Speed = 30 * Kmh /\ Direction = 1 /\ cc = 0
  /\ Gear = 1 /\ Rpm = 25
  /\ needle = SpeedAngle(0)
  /\ midPauses = 0 /\ locked = FALSE

-----------------------------------------------------------------------------
(* The spacing of the single-precision numbers around s, and rounding.     *)
Ulp(s) == IF s < 16 * Kmh THEN 5 ELSE IF s < 32 * Kmh THEN 10
          ELSE IF s < 64 * Kmh THEN 20 ELSE IF s < 128 * Kmh THEN 40 ELSE 80
Round(s) == ((s + Ulp(s) \div 2) \div Ulp(s)) * Ulp(s)

(* locFilterGauge.                                                         *)
locFilterGauge(Old, New) ==
  LET hdiff == IF New < Old THEN Old - New ELSE New - Old
      step == IF hdiff > 20 * Kmh THEN 5 * (Kmh \div 4)
              ELSE IF hdiff > 5 * Kmh THEN Kmh ELSE 3 * (Kmh \div 4)
  IN IF hdiff < Kmh THEN New
     ELSE IF New > Old THEN Old + step ELSE Old - step

(* locNeedleSpeedRender.                                                   *)
Render ==
  /\ pc = "render" /\ pc' = "speed"
  /\ needle' = locFilterGauge(needle, SpeedAngle(Speed))
  /\ locked' = (locked \/ needle' = SpeedAngle(Speed))
  /\ UNCHANGED <<Speed, Direction, cc, Gear, Rpm, midPauses>>

(* locUpdateSpeed: a pause of 100 ticks at either end and in the middle,   *)
(* then one step.                                                          *)
MutMidClosed == Speed = LOC_CM_SPEED_MID
AtMid == Speed >= LOC_CM_SPEED_MID
           /\ Speed < LOC_CM_SPEED_MID + LOC_ACCELERATION_FACTOR
AtRest == Speed <= LOC_CM_SPEED_MIN \/ AtMid \/ Speed >= LOC_CM_SPEED_MAX

Pause ==
  /\ pc = "speed" /\ pc' = "rpm"
  /\ AtRest /\ cc + 1 < PauseTicks
  /\ cc' = cc + 1
  /\ UNCHANGED <<Speed, Direction, Gear, Rpm, needle, midPauses, locked>>

MutFaster == Round(Speed + 2 * LOC_ACCELERATION_FACTOR * Direction)
Moved == Round(Speed + LOC_ACCELERATION_FACTOR * Direction)
MutNoTurn == Direction
TurnedAtMin == 1
AfterPause == 0
Move ==
  /\ pc = "speed" /\ pc' = "rpm"
  /\ ~(AtRest /\ cc + 1 < PauseTicks)
  /\ cc' = IF AtRest THEN AfterPause ELSE cc
  /\ CASE Moved > LOC_CM_SPEED_MAX ->
            Speed' = LOC_CM_SPEED_MAX /\ Direction' = -1
       [] Moved <= LOC_CM_SPEED_MIN ->
            Speed' = LOC_CM_SPEED_MIN /\ Direction' = TurnedAtMin
       [] OTHER -> Speed' = Moved /\ UNCHANGED Direction
  /\ midPauses' = IF Direction' # Direction THEN 0
                  ELSE IF AtMid THEN midPauses + 1 ELSE midPauses
  /\ UNCHANGED <<Gear, Rpm, needle, locked>>

(* Speed * locGearTrans[g], rounded to single precision and cut to an      *)
(* integer; the fraction is carried when it rounds up to one.              *)
RpmUlp(r) ==
  LET bits == CHOOSE b \in 8 .. 16 : 2^(b-1) <= r /\ r < 2^b
  IN Kmh \div 2^(24 - bits)
RpmOf(s, g) ==
  LET frac == (s % Kmh) * locGearTrans[g]
      whole == (s \div Kmh) * locGearTrans[g] + frac \div Kmh
      up == (frac % Kmh) + RpmUlp(whole) \div 2 >= Kmh
  IN IF up THEN whole + 1 ELSE whole

(* One turn of the loop of locUpdateRpm, which is repeated while the RPM   *)
(* is out of its range.                                                    *)
MutNoShiftDown(r) == Gear
NextGear(r) ==
  IF r > LOC_CM_GEARUP_RPM /\ Direction > 0 /\ Gear < LOC_CM_GEAR_MAX
  THEN Gear + 1
  ELSE IF r < LOC_CM_GEARDOWN_RPM /\ Direction < 0 /\ Gear > LOC_CM_GEAR_MIN
  THEN Gear - 1 ELSE Gear
UpdateRpm ==
  /\ pc = "rpm"
  /\ Gear' = NextGear(RpmOf(Speed, Gear))
  /\ Rpm' = RpmOf(Speed, Gear')
  /\ pc' = IF Rpm' > LOC_CM_RPM_MAX \/ Rpm' < LOC_CM_RPM_MIN
           THEN "rpm" ELSE "render"
  /\ UNCHANGED <<Speed, Direction, cc, needle, midPauses, locked>>

Next == Render \/ Pause \/ Move \/ UpdateRpm

(* The application thread keeps rendering frames.                          *)
Spec == Init /\ [][Next]_vars /\ WF_vars(Next)

-----------------------------------------------------------------------------
(* The gear box keeps up with the car: one turn of the loop of             *)
(* locUpdateRpm is always enough, so that it never goes round again, and   *)
(* leaves the RPM below the shift-up mark unless in top gear and above the *)
(* shift-down mark unless in bottom gear (app_cl_carmodel.c:107-124).      *)
GearKeepsUp ==
  [][UpdateRpm =>
       /\ pc' = "render"
       /\ Direction > 0 /\ Gear' < LOC_CM_GEAR_MAX => Rpm' <= LOC_CM_GEARUP_RPM
       /\ Direction < 0 /\ Gear' > LOC_CM_GEAR_MIN
            => Rpm' >= LOC_CM_GEARDOWN_RPM]_vars

(* Each sweep between the ends of the scale rests exactly once at medium   *)
(* speed, although the speeds that a sweep meets differ and their rounding *)
(* decides (app_cl_carmodel.c:85-95).                                      *)
OneMidPause == [][Direction' # Direction => midPauses = 1]_vars

(* Once the needle shows the speed it always does when a frame is drawn:   *)
(* the car never gains as much in one frame as the filter follows at once  *)
(* (locFilterGauge, LOC_ACCELERATION_FACTOR).                              *)
NeedleStaysLocked == locked /\ pc = "speed" => needle = SpeedAngle(Speed)

(* The car reaches both ends of the scale again and again, and the needle  *)
(* shows it there (locUpdateSpeed, locNeedleSpeedRender).                  *)
SweepsFullScale ==
  \A s \in {LOC_CM_SPEED_MIN, LOC_CM_SPEED_MAX} :
    []<>(Speed = s /\ needle = SpeedAngle(s))
=============================================================================
