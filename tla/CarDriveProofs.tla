--------------------------- MODULE CarDriveProofs ---------------------------
(***************************************************************************)
(* The needle and the gear box of CarDrive follow the car because of what  *)
(* one step of locUpdateSpeed can do at most, at every speed of the scale  *)
(* and not only at those that the sweeps from 30 km/h happen to meet.      *)
(***************************************************************************)
EXTENDS CarDrive, TLAPS

(* The ranges of what the car moves.                                       *)
DriveOK ==
  /\ pc \in {"render", "speed", "rpm"}
  /\ Speed \in Int /\ LOC_CM_SPEED_MIN <= Speed /\ Speed <= LOC_CM_SPEED_MAX
  /\ Direction \in {-1, 1}
  /\ needle \in Int /\ locked \in BOOLEAN

(* A step and the rounding of its sum stay below 0.951 km/h; a step is     *)
(* towards Direction.                                                      *)
StepMax == 4980776

LEMMA KmhIs == Kmh = 5242880
BY SMT DEF Kmh

LEMMA ScaleIs ==
  /\ LOC_CM_SPEED_MIN = 52428800 /\ LOC_CM_SPEED_MAX = 1258291200
  /\ \A s \in Int : SpeedAngle(s) = 1101004800 - s
BY KmhIs, SMT DEF LOC_CM_SPEED_MIN, LOC_CM_SPEED_MAX, SpeedAngle

LEMMA SpeedRange ==
  ASSUME DriveOK
  PROVE Speed \in Int /\ 52428800 <= Speed /\ Speed <= 1258291200
BY ScaleIs, SMT DEF DriveOK

LEMMA RoundNear ==
  ASSUME NEW s \in Int, s >= 0
  PROVE Round(s) \in Int /\ s - 40 <= Round(s) /\ Round(s) <= s + 40
<1> DEFINE R(u) == ((s + u \div 2) \div u) * u
<1>1. /\ s - 40 <= R(5) /\ R(5) <= s + 40 /\ R(5) \in Int
      /\ s - 40 <= R(10) /\ R(10) <= s + 40 /\ R(10) \in Int
      /\ s - 40 <= R(20) /\ R(20) <= s + 40 /\ R(20) \in Int
      /\ s - 40 <= R(40) /\ R(40) <= s + 40 /\ R(40) \in Int
      /\ s - 40 <= R(80) /\ R(80) <= s + 40 /\ R(80) \in Int
  BY SMT
<1>2. Ulp(s) \in {5, 10, 20, 40, 80} BY SMT DEF Ulp
<1>3. Round(s) = R(Ulp(s)) BY SMT DEF Round
<1> HIDE DEF R
<1> QED BY <1>1, <1>2, <1>3, SMT

LEMMA MovedNear ==
  ASSUME DriveOK
  PROVE /\ Moved \in Int
        /\ Direction = 1 => Speed < Moved /\ Moved <= Speed + StepMax
        /\ Direction = -1 => Moved < Speed /\ Moved >= Speed - StepMax
<1>1. Speed \in Int /\ Speed >= 52428800 /\ Direction \in {-1, 1}
  BY SpeedRange, SMT DEF DriveOK
<1> DEFINE t == Speed + LOC_ACCELERATION_FACTOR * Direction
<1>2. /\ Direction = 1 => t = Speed + 4980736
      /\ Direction = -1 => t = Speed - 4980736
      /\ t \in Int /\ t >= 0
  BY <1>1, SMT DEF LOC_ACCELERATION_FACTOR
<1> HIDE DEF t
<1>3. Moved = Round(t) BY SMT DEF Moved, t
<1>4. Round(t) \in Int /\ t - 40 <= Round(t) /\ Round(t) <= t + 40
  BY <1>2, RoundNear, SMT
<1> QED BY <1>1, <1>2, <1>3, <1>4, SMT DEF StepMax

(* What Move does to the speed.                                            *)
LEMMA MoveFacts ==
  ASSUME DriveOK, Move
  PROVE /\ Speed' \in Int
        /\ LOC_CM_SPEED_MIN <= Speed' /\ Speed' <= LOC_CM_SPEED_MAX
        /\ Direction' \in {-1, 1}
        /\ Speed' <= Speed + StepMax /\ Speed <= Speed' + StepMax
        /\ Direction' = Direction =>
             (Direction = 1 => Speed' >= Speed)
             /\ (Direction = -1 => Speed' <= Speed)
        /\ Direction' # Direction =>
             \/ Direction' = -1 /\ Speed' = LOC_CM_SPEED_MAX
             \/ Direction' = 1 /\ Speed' = LOC_CM_SPEED_MIN
<1> DEFINE lo == LOC_CM_SPEED_MIN
           hi == LOC_CM_SPEED_MAX
<1>1. /\ lo = 52428800 /\ hi = 1258291200 /\ StepMax = 4980776
      /\ Speed \in Int /\ lo <= Speed /\ Speed <= hi /\ Direction \in {-1, 1}
  BY ScaleIs, SpeedRange, SMT DEF DriveOK, StepMax
<1>2. /\ Moved \in Int
      /\ Direction = 1 => Speed < Moved /\ Moved <= Speed + StepMax
      /\ Direction = -1 => Moved < Speed /\ Moved >= Speed - StepMax
  BY MovedNear, SMT
<1>3. \/ Moved > hi /\ Speed' = hi /\ Direction' = -1
      \/ ~(Moved > hi) /\ Moved <= lo /\ Speed' = lo /\ Direction' = 1
      \/ ~(Moved > hi) /\ ~(Moved <= lo) /\ Speed' = Moved
         /\ Direction' = Direction
  <2>1. CASE Moved > hi
    <3>1. ~(Moved <= lo) BY <1>1, <1>2, <2>1, SMT
    <3> QED BY <2>1, <3>1, SMT DEF Move
  <2>2. CASE ~(Moved > hi) /\ Moved <= lo BY <2>2, SMT DEF Move, TurnedAtMin
  <2>3. CASE ~(Moved > hi) /\ ~(Moved <= lo) BY <2>3, SMT DEF Move
  <2> QED BY <2>1, <2>2, <2>3, SMT
<1> HIDE DEF lo, hi
<1>4. /\ Speed' \in Int /\ lo <= Speed' /\ Speed' <= hi
      /\ Direction' \in {-1, 1}
      /\ Speed' <= Speed + StepMax /\ Speed <= Speed' + StepMax
      /\ Direction' = Direction =>
           (Direction = 1 => Speed' >= Speed)
           /\ (Direction = -1 => Speed' <= Speed)
      /\ Direction' # Direction => \/ Direction' = -1 /\ Speed' = hi
                                   \/ Direction' = 1 /\ Speed' = lo
  <2> HIDE DEF StepMax
  <2>1. CASE Direction = 1
    BY ONLY <1>1, <1>2, <1>3, <2>1, SMT
  <2>2. CASE Direction = -1
    BY ONLY <1>1, <1>2, <1>3, <2>2, SMT
  <2> QED BY <1>1, <2>1, <2>2, SMT
<1> QED BY <1>4, SMT DEF lo, hi

(* The filter takes the new angle at once when it is less than one degree  *)
(* away.                                                                   *)
LEMMA FilterSnaps ==
  ASSUME NEW o \in Int, NEW a \in Int
  PROVE /\ locFilterGauge(o, a) \in Int
        /\ o < a + Kmh /\ a < o + Kmh => locFilterGauge(o, a) = a
<1>1. Kmh \div 4 = 1310720 BY KmhIs, SMT
<1> QED BY <1>1, KmhIs, SMT DEF locFilterGauge

(* Between two frames the speed has moved by less than a degree.           *)
NeedleInv ==
  /\ DriveOK
  /\ locked =>
       IF pc = "speed" THEN needle = SpeedAngle(Speed)
       ELSE /\ needle < SpeedAngle(Speed) + Kmh
            /\ SpeedAngle(Speed) < needle + Kmh

LEMMA NeedleInit == Init => NeedleInv
<1> SUFFICES ASSUME Init PROVE NeedleInv OBVIOUS
<1>1. Speed = 157286400 /\ needle \in Int
  BY KmhIs, ScaleIs, SMT DEF Init
<1>2. LOC_CM_SPEED_MIN <= Speed /\ Speed <= LOC_CM_SPEED_MAX
  BY <1>1, ScaleIs, SMT
<1>3. /\ pc \in {"render", "speed", "rpm"}
      /\ Direction \in {-1, 1} /\ Speed \in Int
  BY <1>1, SMT DEF Init
<1>4. locked = FALSE BY DEF Init
<1>5. locked \in BOOLEAN BY ONLY <1>4, Zenon
<1>6. DriveOK BY ONLY <1>1, <1>2, <1>3, <1>5, SMT DEF DriveOK
<1> QED BY ONLY <1>4, <1>6, SMT DEF NeedleInv

(* Two speeds one step apart are shown less than a degree apart.           *)
LEMMA NearAngles ==
  \A x, y \in Int : x <= y + StepMax /\ y <= x + StepMax =>
    /\ SpeedAngle(y) < SpeedAngle(x) + Kmh
    /\ SpeedAngle(x) < SpeedAngle(y) + Kmh
BY KmhIs, ScaleIs, SMT DEF StepMax

LEMMA NeedleStep == NeedleInv /\ [Next]_vars => NeedleInv'
<1> SUFFICES ASSUME NeedleInv, [Next]_vars PROVE NeedleInv'
  BY SMT
<1>0. /\ DriveOK /\ needle \in Int /\ Speed \in Int
      /\ SpeedAngle(Speed) \in Int
      /\ SpeedAngle(Speed) = 1101004800 - Speed /\ Kmh = 5242880
  <2>1. DriveOK /\ needle \in Int BY SMT DEF NeedleInv, DriveOK
  <2>2. Speed \in Int BY <2>1, SpeedRange, SMT
  <2> QED BY <2>1, <2>2, KmhIs, ScaleIs, SMT
<1>1. CASE Render
  <2>1. /\ needle' = locFilterGauge(needle, SpeedAngle(Speed))
        /\ locked' = (locked \/ needle' = SpeedAngle(Speed))
        /\ Speed' = Speed /\ Direction' = Direction
        /\ pc = "render" /\ pc' = "speed"
    BY <1>1, SMT DEF Render
  <2>2. needle' \in Int BY <2>1, <1>0, FilterSnaps, SMT
  <2>3. locked => needle' = SpeedAngle(Speed)
    BY <2>1, <1>0, FilterSnaps, SMT DEF NeedleInv
  <2>4. locked' => needle' = SpeedAngle(Speed') BY <2>1, <2>3, Zenon
  <2>5. DriveOK' BY <2>1, <2>2, <1>0, SMT DEF DriveOK
  <2> QED BY <2>1, <2>4, <2>5, SMT DEF NeedleInv
<1>2. CASE Pause
  <2>1. UNCHANGED <<Speed, Direction, needle, locked>> /\ pc' = "rpm"
        /\ pc = "speed"
    BY <1>2, SMT DEF Pause
  <2>2. DriveOK' BY <2>1, <1>0, SMT DEF DriveOK
  <2>3. SpeedAngle(Speed') = SpeedAngle(Speed) BY <2>1, SMT
  <2> QED BY <2>1, <2>2, <2>3, <1>0, SMT DEF NeedleInv
<1>3. CASE Move
  <2>1. UNCHANGED <<needle, locked>> /\ pc' = "rpm" /\ pc = "speed"
    BY <1>3, SMT DEF Move
  <2>2. /\ Speed' \in Int
        /\ LOC_CM_SPEED_MIN <= Speed' /\ Speed' <= LOC_CM_SPEED_MAX
        /\ Direction' \in {-1, 1}
        /\ Speed' <= Speed + StepMax /\ Speed <= Speed' + StepMax
    BY <1>0, <1>3, MoveFacts, SMT
  <2>4. DriveOK' BY <2>1, <2>2, <1>0, SMT DEF DriveOK
  <2>6. locked => needle = SpeedAngle(Speed) BY <2>1, SMT DEF NeedleInv
  <2>7. ASSUME locked
        PROVE /\ needle < SpeedAngle(Speed') + Kmh
              /\ SpeedAngle(Speed') < needle + Kmh
    <3>1. needle = SpeedAngle(Speed) BY <2>6, <2>7, Zenon
    <3>2. Speed \in Int /\ Speed' \in Int /\ Speed' <= Speed + StepMax
          /\ Speed <= Speed' + StepMax
      BY ONLY <2>2, <1>0, SMT
    <3>3. /\ SpeedAngle(Speed) < SpeedAngle(Speed') + Kmh
          /\ SpeedAngle(Speed') < SpeedAngle(Speed) + Kmh
      BY ONLY <3>2, NearAngles, Zenon
    <3> QED BY ONLY <3>1, <3>3, Zenon
  <2> QED BY <2>1, <2>4, <2>7, SMT DEF NeedleInv
<1>4. CASE UpdateRpm
  <2>1. UNCHANGED <<Speed, Direction, needle, locked>> /\ pc = "rpm"
        /\ pc' \in {"rpm", "render"}
    BY <1>4, SMT DEF UpdateRpm
  <2>2. DriveOK' BY <2>1, <1>0, SMT DEF DriveOK
  <2> QED BY <2>1, <2>2, SMT DEF NeedleInv
<1>5. CASE UNCHANGED vars
  BY <1>5, SMT DEF vars, NeedleInv, DriveOK
<1> QED BY <1>1, <1>2, <1>3, <1>4, <1>5, SMT DEF Next

(* Once the needle shows the speed it does in every frame: one step of the *)
(* car, rounding included, is below the degree that the filter follows at  *)
(* once (locFilterGauge, LOC_ACCELERATION_FACTOR).                         *)
THEOREM NeedleStaysLockedHolds == Spec => []NeedleStaysLocked
<1>1. Init => NeedleInv BY NeedleInit, SMT
<1>2. NeedleInv /\ [Next]_vars => NeedleInv' BY NeedleStep, SMT
<1>3. NeedleInv => NeedleStaysLocked BY SMT DEF NeedleInv, NeedleStaysLocked
<1> QED BY <1>1, <1>2, <1>3, PTL DEF Spec

-----------------------------------------------------------------------------
(* What a gear makes of the speed, before it is rounded to an RPM.         *)
Turn(s, g) == s * locGearTrans[g]

(* In a gear that is not the last one the speed stays below the mark for   *)
(* the next gear, or one step above it before the gear box has seen it;    *)
(* on the way down likewise.  A car that has just been turned at an end of *)
(* the scale is in a gear that fits.  InitCarModel starts at 6000 RPM.     *)
GearBand ==
  /\ Direction = 1 /\ Gear < LOC_CM_GEAR_MAX =>
       Turn(Speed, Gear) <= (IF pc = "rpm" THEN 6200 ELSE 6000) * Kmh
  /\ Direction = -1 => Turn(Speed, Gear) <= 6000 * Kmh
  /\ Direction = -1 /\ Gear > LOC_CM_GEAR_MIN =>
       Turn(Speed, Gear) >= (IF pc = "rpm" THEN 2500 ELSE 2699) * Kmh
GearInv ==
  /\ DriveOK
  /\ Gear \in {1, 2, 3, 4, 5}
  /\ GearBand

LEMMA TransIs ==
  /\ locGearTrans[1] = 200 /\ locGearTrans[2] = 150 /\ locGearTrans[3] = 100
  /\ locGearTrans[4] = 50 /\ locGearTrans[5] = 25
BY SMT DEF locGearTrans

(* The RPM is the speed times the ratio, cut or rounded up.                *)
LEMMA RpmNear ==
  ASSUME NEW s \in Int, s >= 0, NEW g \in {1, 2, 3, 4, 5}
  PROVE /\ RpmOf(s, g) \in Int
        /\ 5242880 * RpmOf(s, g) <= Turn(s, g) + 5242880
        /\ Turn(s, g) < 5242880 * RpmOf(s, g) + 5242880
<1> DEFINE t == locGearTrans[g]
           q == s \div 5242880
           m == s % 5242880
           f == (m * t) \div 5242880
           e == (m * t) % 5242880
           w == q * t + f
           up == e + RpmUlp(w) \div 2 >= 5242880
<1>1. RpmOf(s, g) = IF up THEN w + 1 ELSE w
  BY KmhIs, SMT DEF RpmOf
<1>2. t \in {25, 50, 100, 150, 200} BY TransIs, SMT
<1>3. q \in Int /\ m \in Int /\ s = 5242880 * q + m /\ 0 <= m
  BY SMT
<1>4. Turn(s, g) = s * t BY DEF Turn
<1> HIDE DEF t, q, m
<1>5. /\ f \in Int /\ e \in Int /\ m * t = 5242880 * f + e
      /\ 0 <= e /\ e < 5242880
  <2> DEFINE n == m * t
  <2>1. n \in Int BY <1>2, <1>3, SMT
  <2> HIDE DEF n
  <2>2. n \div 5242880 \in Int /\ n % 5242880 \in Int
        /\ n = 5242880 * (n \div 5242880) + (n % 5242880)
        /\ 0 <= n % 5242880 /\ n % 5242880 < 5242880
    BY <2>1, SMT
  <2> QED BY <2>2, SMT DEF n
<1> HIDE DEF f, e
<1>6. w \in Int /\ s * t = 5242880 * w + e
  BY <1>2, <1>3, <1>5, SMT
<1> HIDE DEF w, up
<1>7. RpmOf(s, g) = w \/ RpmOf(s, g) = w + 1 BY <1>1, SMT
<1> QED BY <1>4, <1>5, <1>6, <1>7, SMT

(* One turn of the loop of locUpdateRpm finds a gear that fits.            *)
LEMMA ShiftFits ==
  ASSUME DriveOK, Gear \in {1, 2, 3, 4, 5}, GearBand, pc = "rpm",
         NEW g, g = NextGear(RpmOf(Speed, Gear))
  PROVE /\ g \in {1, 2, 3, 4, 5}
        /\ Direction = 1 /\ g < 5 => RpmOf(Speed, g) <= 5500
        /\ Direction = -1 /\ g > 1 => RpmOf(Speed, g) >= 2700
        /\ Direction = -1 => Turn(Speed, g) <= 31457280000
        /\ RpmOf(Speed, g) \in Int
        /\ 100 <= RpmOf(Speed, g) /\ RpmOf(Speed, g) <= 8000
<1> DEFINE R(h) == RpmOf(Speed, h)
<1>1. Speed \in Int /\ 52428800 <= Speed /\ Speed <= 1258291200
      /\ Direction \in {-1, 1}
  BY SpeedRange, SMT DEF DriveOK
<1>2. /\ Turn(Speed, 1) = 200 * Speed /\ Turn(Speed, 2) = 150 * Speed
      /\ Turn(Speed, 3) = 100 * Speed /\ Turn(Speed, 4) = 50 * Speed
      /\ Turn(Speed, 5) = 25 * Speed
  BY <1>1, TransIs, SMT DEF Turn
<1>3. \A h \in {1, 2, 3, 4, 5} :
        /\ R(h) \in Int
        /\ 5242880 * R(h) <= Turn(Speed, h) + 5242880
        /\ Turn(Speed, h) < 5242880 * R(h) + 5242880
  BY <1>1, RpmNear, SMT
<1>4. g = IF R(Gear) > 5500 /\ Direction > 0 /\ Gear < 5 THEN Gear + 1
          ELSE IF R(Gear) < 2700 /\ Direction < 0 /\ Gear > 1 THEN Gear - 1
          ELSE Gear
  BY SMT DEF NextGear, LOC_CM_GEARUP_RPM, LOC_CM_GEARDOWN_RPM,
             LOC_CM_GEAR_MAX, LOC_CM_GEAR_MIN
<1>5. /\ Direction = 1 /\ Gear < 5 => Turn(Speed, Gear) <= 32505856000
      /\ Direction = -1 => Turn(Speed, Gear) <= 31457280000
      /\ Direction = -1 /\ Gear > 1 => Turn(Speed, Gear) >= 13107200000
  BY KmhIs, SMT DEF GearBand, LOC_CM_GEAR_MAX, LOC_CM_GEAR_MIN
<1> HIDE DEF R
<1>6. /\ g \in {1, 2, 3, 4, 5}
      /\ Direction = 1 /\ g < 5 => R(g) <= 5500
      /\ Direction = -1 /\ g > 1 => R(g) >= 2700
      /\ Direction = -1 => Turn(Speed, g) <= 31457280000
      /\ 100 <= R(g) /\ R(g) <= 8000
  <2>1. CASE Gear = 1 BY ONLY <2>1, <1>1, <1>2, <1>3, <1>4, <1>5, SMT
  <2>2. CASE Gear = 2 BY ONLY <2>2, <1>1, <1>2, <1>3, <1>4, <1>5, SMT
  <2>3. CASE Gear = 3 BY ONLY <2>3, <1>1, <1>2, <1>3, <1>4, <1>5, SMT
  <2>4. CASE Gear = 4 BY ONLY <2>4, <1>1, <1>2, <1>3, <1>4, <1>5, SMT
  <2>5. CASE Gear = 5 BY ONLY <2>5, <1>1, <1>2, <1>3, <1>4, <1>5, SMT
  <2> QED BY <2>1, <2>2, <2>3, <2>4, <2>5, SMT
<1>7. R(g) \in Int BY <1>3, <1>6, SMT
<1> QED BY <1>6, <1>7, SMT DEF R

(* GearBand at the speed s, with its limits as numbers: up and down are    *)
(* what the speed may be in a gear on the way up and on the way down.      *)
Band(s, d, g, up, down) ==
  /\ d = 1 /\ g < 5 => Turn(s, g) <= up
  /\ d = -1 => Turn(s, g) <= 31457280000
  /\ d = -1 /\ g > 1 => Turn(s, g) >= down

LEMMA BandIs ==
  GearBand <=>
    IF pc = "rpm" THEN Band(Speed, Direction, Gear, 32505856000, 13107200000)
    ELSE Band(Speed, Direction, Gear, 31457280000, 14150533120)
BY KmhIs, SMT DEF GearBand, Band, LOC_CM_GEAR_MAX, LOC_CM_GEAR_MIN

(* A step of the car keeps the speed in the band, one step wider.          *)
LEMMA MoveBand ==
  ASSUME DriveOK, Move, Gear \in {1, 2, 3, 4, 5},
         Band(Speed, Direction, Gear, 31457280000, 14150533120)
  PROVE Band(Speed', Direction', Gear, 32505856000, 13107200000)
<1>1. /\ LOC_CM_SPEED_MIN = 52428800 /\ LOC_CM_SPEED_MAX = 1258291200
      /\ Speed \in Int /\ 52428800 <= Speed /\ Speed <= 1258291200
      /\ Direction \in {-1, 1}
  BY ScaleIs, SpeedRange, SMT DEF DriveOK
<1>2. /\ Speed' \in Int /\ 52428800 <= Speed' /\ Speed' <= 1258291200
      /\ Direction' \in {-1, 1}
      /\ Speed' <= Speed + 4980776 /\ Speed <= Speed' + 4980776
      /\ Direction' = Direction =>
           (Direction = 1 => Speed' >= Speed)
           /\ (Direction = -1 => Speed' <= Speed)
      /\ Direction' # Direction => \/ Direction' = -1 /\ Speed' = 1258291200
                                   \/ Direction' = 1 /\ Speed' = 52428800
  BY <1>1, MoveFacts, SMT DEF StepMax
<1>3. \A s \in Int :
        /\ Turn(s, 1) = 200 * s /\ Turn(s, 2) = 150 * s
        /\ Turn(s, 3) = 100 * s /\ Turn(s, 4) = 50 * s /\ Turn(s, 5) = 25 * s
  BY TransIs, SMT DEF Turn
<1> DEFINE u == Speed'
           d == Direction'
<1>4. /\ u \in Int /\ 52428800 <= u /\ u <= 1258291200 /\ d \in {-1, 1}
      /\ u <= Speed + 4980776 /\ Speed <= u + 4980776
      /\ d = Direction => (Direction = 1 => u >= Speed)
                          /\ (Direction = -1 => u <= Speed)
      /\ d # Direction => \/ d = -1 /\ u = 1258291200
                          \/ d = 1 /\ u = 52428800
  BY <1>2, SMT
<1> HIDE DEF u, d
<1>5. Band(Speed, Direction, Gear, 31457280000, 14150533120) OBVIOUS
<1>6. Band(u, d, Gear, 32505856000, 13107200000)
  <2>1. CASE Gear = 1
    BY ONLY <2>1, <1>1, <1>3, <1>4, <1>5, SMT DEF Band
  <2>2. CASE Gear = 2
    BY ONLY <2>2, <1>1, <1>3, <1>4, <1>5, SMT DEF Band
  <2>3. CASE Gear = 3
    BY ONLY <2>3, <1>1, <1>3, <1>4, <1>5, SMT DEF Band
  <2>4. CASE Gear = 4
    BY ONLY <2>4, <1>1, <1>3, <1>4, <1>5, SMT DEF Band
  <2>5. CASE Gear = 5
    BY ONLY <2>5, <1>1, <1>3, <1>4, <1>5, SMT DEF Band
  <2> QED BY <2>1, <2>2, <2>3, <2>4, <2>5, SMT
<1> QED BY <1>6, SMT DEF u, d

LEMMA GearInit == Init => GearInv
<1> SUFFICES ASSUME Init PROVE GearInv OBVIOUS
<1>1. DriveOK BY NeedleInit, SMT DEF NeedleInv
<1>2. /\ Speed = 157286400 /\ Direction = 1
      /\ Gear = 1 /\ Rpm = 25 /\ pc = "render"
  BY KmhIs, SMT DEF Init
<1>3. Turn(Speed, 1) = 31457280000 BY <1>2, TransIs, SMT DEF Turn
<1>4. GearBand BY <1>2, <1>3, BandIs, SMT DEF Band
<1> QED BY <1>1, <1>2, <1>4, SMT DEF GearInv

(* One turn of the loop of locUpdateRpm: the gear chosen fits the speed,   *)
(* and the loop ends.                                                      *)
LEMMA GearTurn ==
  ASSUME GearInv, UpdateRpm
  PROVE /\ Gear' \in {1, 2, 3, 4, 5}
        /\ Direction = 1 /\ Gear' < 5 => Rpm' <= 5500
        /\ Direction = -1 /\ Gear' > 1 => Rpm' >= 2700
        /\ Direction = -1 => Turn(Speed, Gear') <= 31457280000
        /\ Rpm' \in Int /\ pc' = "render"
<1>1. /\ DriveOK /\ Gear \in {1, 2, 3, 4, 5} /\ GearBand
  BY SMT DEF GearInv
<1>2. /\ pc = "rpm"
      /\ Gear' = NextGear(RpmOf(Speed, Gear)) /\ Rpm' = RpmOf(Speed, Gear')
      /\ pc' = IF Rpm' > 8000 \/ Rpm' < 100 THEN "rpm" ELSE "render"
  BY SMT DEF UpdateRpm, LOC_CM_RPM_MAX, LOC_CM_RPM_MIN
<1>3. /\ Gear' \in {1, 2, 3, 4, 5}
      /\ Direction = 1 /\ Gear' < 5 => Rpm' <= 5500
      /\ Direction = -1 /\ Gear' > 1 => Rpm' >= 2700
      /\ Direction = -1 => Turn(Speed, Gear') <= 31457280000
      /\ Rpm' \in Int /\ 100 <= Rpm' /\ Rpm' <= 8000
  BY <1>1, <1>2, ShiftFits, SMT
<1> QED BY <1>2, <1>3, SMT

LEMMA GearStep == DriveOK' /\ GearInv /\ [Next]_vars => GearInv'
<1> SUFFICES ASSUME DriveOK', GearInv, [Next]_vars PROVE GearInv'
  BY SMT
<1>0. /\ DriveOK /\ Gear \in {1, 2, 3, 4, 5} /\ Direction \in {-1, 1}
      /\ GearBand
  BY SMT DEF GearInv, DriveOK
<1>1. CASE Render
  <2>1. UNCHANGED <<Speed, Direction, Gear>> /\ pc = "render" /\ pc' = "speed"
    BY <1>1, SMT DEF Render
  <2>2. GearBand' BY <2>1, <1>0, SMT DEF GearBand
  <2> QED BY <2>1, <2>2, <1>0, SMT DEF GearInv
<1>2. CASE Pause
  <2>1. UNCHANGED <<Speed, Direction, Gear>> /\ pc = "speed" /\ pc' = "rpm"
    BY <1>2, SMT DEF Pause
  <2>2. Band(Speed, Direction, Gear, 31457280000, 14150533120)
    BY <2>1, <1>0, BandIs, SMT
  <2>3. Turn(Speed, Gear) \in Int BY <1>0, SpeedRange, TransIs, SMT DEF Turn
  <2>4. Band(Speed, Direction, Gear, 32505856000, 13107200000)
    BY ONLY <2>2, <2>3, SMT DEF Band
  <2>5. GearBand'
    BY <2>1, <2>4, KmhIs, SMT DEF GearBand, Band, LOC_CM_GEAR_MAX,
       LOC_CM_GEAR_MIN
  <2> QED BY <2>1, <2>5, <1>0, SMT DEF GearInv
<1>3. CASE Move
  <2>1. Gear' = Gear /\ pc = "speed" /\ pc' = "rpm"
    BY <1>3, SMT DEF Move
  <2>2. Band(Speed, Direction, Gear, 31457280000, 14150533120)
    BY <2>1, <1>0, BandIs, SMT
  <2>3. Band(Speed', Direction', Gear, 32505856000, 13107200000)
    BY <2>2, <1>0, <1>3, MoveBand, SMT
  <2>4. GearBand'
    BY <2>1, <2>3, KmhIs, SMT DEF GearBand, Band, LOC_CM_GEAR_MAX,
       LOC_CM_GEAR_MIN
  <2> QED BY <2>1, <2>4, <1>0, SMT DEF GearInv
<1>4. CASE UpdateRpm
  <2>1. UNCHANGED <<Speed, Direction>> /\ Rpm' = RpmOf(Speed, Gear')
    BY <1>4, SMT DEF UpdateRpm
  <2>2. /\ Gear' \in {1, 2, 3, 4, 5}
        /\ Direction = 1 /\ Gear' < 5 => Rpm' <= 5500
        /\ Direction = -1 /\ Gear' > 1 => Rpm' >= 2700
        /\ Direction = -1 => Turn(Speed, Gear') <= 31457280000
        /\ Rpm' \in Int /\ pc' = "render"
    BY <1>4, GearTurn, SMT
  <2>4. Speed \in Int /\ Speed >= 0 BY <1>0, SpeedRange, SMT
  <2>5. /\ 5242880 * Rpm' <= Turn(Speed, Gear') + 5242880
        /\ Turn(Speed, Gear') < 5242880 * Rpm' + 5242880
        /\ Turn(Speed, Gear') \in Int
    <3> DEFINE g == Gear'
    <3>1. Rpm' = RpmOf(Speed, g) /\ g \in {1, 2, 3, 4, 5} BY <2>1, <2>2, SMT
    <3> HIDE DEF g
    <3>2. /\ 5242880 * RpmOf(Speed, g) <= Turn(Speed, g) + 5242880
          /\ Turn(Speed, g) < 5242880 * RpmOf(Speed, g) + 5242880
      BY <3>1, <2>4, RpmNear, SMT
    <3>3. Turn(Speed, g) \in Int BY <3>1, <2>4, TransIs, SMT DEF Turn
    <3> QED BY <3>1, <3>2, <3>3, SMT DEF g
  <2>6. Band(Speed, Direction, Gear', 31457280000, 14150533120)
    BY ONLY <2>2, <2>5, SMT DEF Band
  <2>7. GearBand'
    BY <2>1, <2>2, <2>6, KmhIs, SMT DEF GearBand, Band, LOC_CM_GEAR_MAX,
       LOC_CM_GEAR_MIN
  <2> QED BY <2>2, <2>7, SMT DEF GearInv
<1>5. CASE UNCHANGED vars
  BY <1>5, SMT DEF vars, GearInv, DriveOK, GearBand
<1> QED BY <1>1, <1>2, <1>3, <1>4, <1>5, SMT DEF Next

(* The gear box keeps up with the car: every turn of the loop of           *)
(* locUpdateRpm is the last one and leaves the RPM between the shift       *)
(* marks, because one step of the car is worth less than 200 RPM and one   *)
(* gear changes the RPM by a quarter to a half                             *)
(* (app_cl_carmodel.c:107-124).                                            *)
THEOREM GearKeepsUpHolds == Spec => GearKeepsUp
<1>1. Init => NeedleInv /\ GearInv BY NeedleInit, GearInit, SMT
<1>2. NeedleInv /\ GearInv /\ [Next]_vars => NeedleInv' /\ GearInv'
  <2>1. NeedleInv /\ [Next]_vars => NeedleInv' BY NeedleStep, SMT
  <2>2. NeedleInv' => DriveOK' BY SMT DEF NeedleInv
  <2> QED BY <2>1, <2>2, GearStep, SMT
<1>3. GearInv /\ [Next]_vars =>
        [UpdateRpm =>
           /\ pc' = "render"
           /\ Direction > 0 /\ Gear' < LOC_CM_GEAR_MAX
                => Rpm' <= LOC_CM_GEARUP_RPM
           /\ Direction < 0 /\ Gear' > LOC_CM_GEAR_MIN
                => Rpm' >= LOC_CM_GEARDOWN_RPM]_vars
  <2> SUFFICES ASSUME GearInv, UpdateRpm
               PROVE /\ pc' = "render"
                     /\ Direction > 0 /\ Gear' < LOC_CM_GEAR_MAX
                          => Rpm' <= LOC_CM_GEARUP_RPM
                     /\ Direction < 0 /\ Gear' > LOC_CM_GEAR_MIN
                          => Rpm' >= LOC_CM_GEARDOWN_RPM
    BY SMT
  <2>1. Direction \in {-1, 1} BY SMT DEF GearInv, DriveOK
  <2> QED
    BY <2>1, GearTurn, SMT DEF LOC_CM_GEAR_MAX, LOC_CM_GEAR_MIN,
       LOC_CM_GEARUP_RPM, LOC_CM_GEARDOWN_RPM
<1> QED BY <1>1, <1>2, <1>3, PTL DEF Spec, GearKeepsUp

-----------------------------------------------------------------------------
(* Between 32 and 64 km/h speeds are multiples of 20 units and 0.95 km/h   *)
(* is not: a step is always rounded to 4980740, a little more than the     *)
(* window of medium speed is wide.  A sweep up has paused once it is above *)
(* the window, a sweep down once it is below.                              *)
OnGrid == 32 * Kmh <= Speed /\ Speed < 64 * Kmh => Speed % 20 = 0
MidInv ==
  /\ DriveOK
  /\ OnGrid
  /\ Direction = 1 => midPauses =
       IF Speed < LOC_CM_SPEED_MID + LOC_ACCELERATION_FACTOR THEN 0 ELSE 1
  /\ Direction = -1 => midPauses = IF Speed >= LOC_CM_SPEED_MID THEN 0 ELSE 1

(* Rounding between 32 and 64 km/h.                                        *)
LEMMA RoundGrid ==
  ASSUME NEW t \in Int, t >= 0
  PROVE /\ 167772160 <= t /\ t < 335544320 =>
             Round(t) = ((t + 10) \div 20) * 20
        /\ 167772160 <= Round(t) /\ Round(t) < 335544320 => Round(t) % 20 = 0
<1>1. Round(t) = LET u == IF t < 83886080 THEN 5 ELSE IF t < 167772160 THEN 10
                          ELSE IF t < 335544320 THEN 20
                          ELSE IF t < 671088640 THEN 40 ELSE 80
                 IN ((t + u \div 2) \div u) * u
  BY KmhIs, SMT DEF Round, Ulp
<1>2. CASE t < 83886080
  <2>1. Round(t) = ((t + 2) \div 5) * 5 BY <1>1, <1>2, SMT
  <2>2. Round(t) \in Int /\ Round(t) < 167772160
    BY ONLY <1>2, <2>1, t \in Int, SMT
  <2> QED BY ONLY <1>2, <2>2, t \in Int, SMT
<1>3. CASE 83886080 <= t /\ t < 167772160
  <2>1. Round(t) = ((t + 5) \div 10) * 10 BY <1>1, <1>3, SMT
  <2>2. Round(t) <= 167772160 BY ONLY <1>3, <2>1, t \in Int, SMT
  <2>3. Round(t) >= 167772160 => Round(t) % 20 = 0
    BY ONLY <2>1, <2>2, t \in Int, SMT
  <2> QED BY ONLY <1>3, <2>3, t \in Int, SMT
<1>4. CASE 167772160 <= t /\ t < 335544320
  <2>1. Round(t) = ((t + 10) \div 20) * 20 BY <1>1, <1>4, SMT
  <2>2. (((t + 10) \div 20) * 20) % 20 = 0 BY ONLY t \in Int, SMT
  <2> QED BY ONLY <1>4, <2>1, <2>2, SMT
<1>5. CASE 335544320 <= t
  <2>1. \/ Round(t) = ((t + 20) \div 40) * 40
        \/ Round(t) = ((t + 40) \div 80) * 80
    BY <1>1, <1>5, SMT
  <2>2. Round(t) \in Int /\ Round(t) >= 335544320
    BY ONLY <1>5, <2>1, t \in Int, SMT
  <2> QED BY ONLY <1>5, <2>2, t \in Int, SMT
<1> QED BY <1>2, <1>3, <1>4, <1>5, SMT

(* A step that starts and ends between 32 and 64 km/h.                     *)
LEMMA MovedGrid ==
  ASSUME DriveOK, OnGrid
  PROVE /\ 167772160 <= Moved /\ Moved < 335544320 => Moved % 20 = 0
        /\ Direction = 1 /\ 167772160 <= Speed /\ Speed < 330000000 =>
             Moved = Speed + 4980740 /\ Speed % 20 = 0
        /\ Direction = -1 /\ 173000000 <= Speed /\ Speed < 335544320 =>
             Moved = Speed - 4980740 /\ Speed % 20 = 0
<1>1. Speed \in Int /\ Speed >= 52428800 /\ Direction \in {-1, 1}
  BY SpeedRange, SMT DEF DriveOK
<1> DEFINE t == Speed + LOC_ACCELERATION_FACTOR * Direction
<1>2. /\ Direction = 1 => t = Speed + 4980736
      /\ Direction = -1 => t = Speed - 4980736
      /\ t \in Int /\ t >= 0
  BY <1>1, SMT DEF LOC_ACCELERATION_FACTOR
<1> HIDE DEF t
<1>3. Moved = Round(t) BY SMT DEF Moved, t
<1>4. /\ 167772160 <= t /\ t < 335544320 => Moved = ((t + 10) \div 20) * 20
      /\ 167772160 <= Moved /\ Moved < 335544320 => Moved % 20 = 0
  BY <1>2, <1>3, RoundGrid, SMT
<1>5. 167772160 <= Speed /\ Speed < 335544320 => Speed % 20 = 0
  BY KmhIs, SMT DEF OnGrid
<1>6. ASSUME NEW s \in Int, s % 20 = 0
      PROVE /\ (((s + 4980736) + 10) \div 20) * 20 = s + 4980740
            /\ (((s - 4980736) + 10) \div 20) * 20 = s - 4980740
  BY ONLY s \in Int, s % 20 = 0, SMT
<1>7. CASE Direction = 1
  <2>1. ASSUME 167772160 <= Speed, Speed < 330000000
        PROVE Moved = Speed + 4980740 /\ Speed % 20 = 0
    <3>1. Speed % 20 = 0 BY <1>1, <1>5, <2>1, SMT
    <3>2. Moved = (((Speed + 4980736) + 10) \div 20) * 20
      BY <1>1, <1>2, <1>4, <1>7, <2>1, SMT
    <3> QED BY <3>1, <3>2, <1>1, <1>6, SMT
  <2> QED BY <1>4, <1>7, <2>1, SMT
<1>8. CASE Direction = -1
  <2>1. ASSUME 173000000 <= Speed, Speed < 335544320
        PROVE Moved = Speed - 4980740 /\ Speed % 20 = 0
    <3>1. Speed % 20 = 0 BY <1>1, <1>5, <2>1, SMT
    <3>2. Moved = (((Speed - 4980736) + 10) \div 20) * 20
      BY <1>1, <1>2, <1>4, <1>8, <2>1, SMT
    <3> QED BY <3>1, <3>2, <1>1, <1>6, SMT
  <2> QED BY <1>4, <1>8, <2>1, SMT
<1> QED BY <1>1, <1>7, <1>8, SMT

(* Where the car is after a step, relative to the window of medium speed.  *)
LEMMA MovePauses ==
  ASSUME MidInv, Move
  PROVE /\ OnGrid'
        /\ Direction' # Direction => midPauses = 1
        /\ Direction' = 1 => midPauses' = IF Speed' < 267124736 THEN 0 ELSE 1
        /\ Direction' = -1 => midPauses' = IF Speed' >= 262144000 THEN 0 ELSE 1
<1> DEFINE u == Speed'
           d == Direction'
<1>1. /\ DriveOK /\ OnGrid
      /\ Speed \in Int /\ 52428800 <= Speed /\ Speed <= 1258291200
      /\ Direction \in {-1, 1}
  BY SpeedRange, SMT DEF MidInv, DriveOK
<1>2. /\ LOC_CM_SPEED_MID = 262144000 /\ LOC_ACCELERATION_FACTOR = 4980736
      /\ LOC_CM_SPEED_MIN = 52428800 /\ LOC_CM_SPEED_MAX = 1258291200
  BY KmhIs, SMT DEF LOC_CM_SPEED_MID, LOC_ACCELERATION_FACTOR,
                    LOC_CM_SPEED_MIN, LOC_CM_SPEED_MAX
<1>3. /\ Direction = 1 => midPauses = IF Speed < 267124736 THEN 0 ELSE 1
      /\ Direction = -1 => midPauses = IF Speed >= 262144000 THEN 0 ELSE 1
  BY <1>2, SMT DEF MidInv
<1>4. AtMid <=> Speed >= 262144000 /\ Speed < 267124736
  BY <1>2, SMT DEF AtMid
<1>5. /\ Moved \in Int
      /\ Direction = 1 => Speed < Moved /\ Moved <= Speed + 4980776
      /\ Direction = -1 => Moved < Speed /\ Moved >= Speed - 4980776
  BY <1>1, MovedNear, SMT DEF StepMax
<1>6. /\ 167772160 <= Moved /\ Moved < 335544320 => Moved % 20 = 0
      /\ Direction = 1 /\ 167772160 <= Speed /\ Speed < 330000000 =>
           Moved = Speed + 4980740 /\ Speed % 20 = 0
      /\ Direction = -1 /\ 173000000 <= Speed /\ Speed < 335544320 =>
           Moved = Speed - 4980740 /\ Speed % 20 = 0
  BY <1>1, MovedGrid, SMT
<1>7. /\ \/ Moved > 1258291200 /\ u = 1258291200 /\ d = -1
         \/ Moved <= 52428800 /\ u = 52428800 /\ d = 1
         \/ /\ ~(Moved > 1258291200) /\ ~(Moved <= 52428800)
            /\ u = Moved /\ d = Direction
      /\ midPauses' = IF d # Direction THEN 0
                      ELSE IF AtMid THEN midPauses + 1 ELSE midPauses
  <2>1. CASE Moved > 1258291200
    <3>1. ~(Moved <= 52428800) BY <1>5, <2>1, SMT
    <3> QED BY <2>1, <3>1, <1>2, SMT DEF Move
  <2>2. CASE ~(Moved > 1258291200) /\ Moved <= 52428800
    BY <2>2, <1>2, SMT DEF Move, TurnedAtMin
  <2>3. CASE ~(Moved > 1258291200) /\ ~(Moved <= 52428800)
    BY <2>3, <1>2, SMT DEF Move
  <2> QED BY <2>1, <2>2, <2>3, SMT
<1> HIDE DEF u, d
<1>8. 167772160 <= u /\ u < 335544320 => u % 20 = 0
  BY ONLY <1>5, <1>6, <1>7, SMT
<1>9. CASE Direction = 1
  <2>1. ~(Moved <= 52428800) BY ONLY <1>1, <1>5, <1>9, SMT
  <2>2. CASE d # Direction
    <3>1. u = 1258291200 /\ d = -1 /\ Moved > 1258291200 /\ midPauses' = 0
      BY ONLY <1>7, <2>1, <2>2, SMT
    <3>2. midPauses = 1 BY ONLY <1>1, <1>3, <1>5, <1>9, <3>1, SMT
    <3> QED BY ONLY <3>1, <3>2, <1>8, KmhIs, SMT DEF OnGrid, u, d
  <2>3. CASE d = Direction
    <3>1. u = Moved /\ midPauses' = IF AtMid THEN midPauses + 1 ELSE midPauses
      BY ONLY <1>7, <1>9, <2>1, <2>3, SMT
    <3>2. CASE Speed < 262144000
      <4>1. Moved < 267124736
        BY ONLY <1>1, <1>5, <1>6, <1>9, <3>2, SMT
      <4> QED BY ONLY <4>1, <3>1, <3>2, <1>1, <1>3, <1>4, <1>9, <2>3,
             <1>8, KmhIs, SMT DEF OnGrid, u, d
    <3>3. CASE AtMid
      <4>1. Moved >= 267124736 /\ midPauses = 0
        BY ONLY <1>1, <1>3, <1>4, <1>5, <1>6, <1>9, <3>3, SMT
      <4> QED BY ONLY <4>1, <3>1, <3>3, <1>1, <1>5, <1>9, <2>3,
             <1>8, KmhIs, SMT DEF OnGrid, u, d
    <3>4. CASE Speed >= 267124736
      <4>1. Moved >= 267124736 /\ midPauses = 1 /\ ~AtMid
        BY ONLY <1>1, <1>3, <1>4, <1>5, <1>9, <3>4, SMT
      <4> QED BY ONLY <4>1, <3>1, <1>1, <1>5, <1>9, <2>3,
             <1>8, KmhIs, SMT DEF OnGrid, u, d
    <3> QED BY <1>1, <1>4, <3>2, <3>3, <3>4, SMT
  <2> QED BY <2>2, <2>3, SMT
<1>10. CASE Direction = -1
  <2>1. ~(Moved > 1258291200) BY ONLY <1>1, <1>5, <1>10, SMT
  <2>2. CASE d # Direction
    <3>1. u = 52428800 /\ d = 1 /\ Moved <= 52428800 /\ midPauses' = 0
      BY ONLY <1>7, <2>1, <2>2, SMT
    <3>2. midPauses = 1 BY ONLY <1>1, <1>3, <1>5, <1>10, <3>1, SMT
    <3> QED BY ONLY <3>1, <3>2, <1>8, KmhIs, SMT DEF OnGrid, u, d
  <2>3. CASE d = Direction
    <3>1. u = Moved /\ midPauses' = IF AtMid THEN midPauses + 1 ELSE midPauses
      BY ONLY <1>7, <1>10, <2>1, <2>3, SMT
    <3>2. CASE Speed >= 267124736
      <4>1. Moved >= 262144000 /\ midPauses = 0 /\ ~AtMid
        BY ONLY <1>1, <1>3, <1>4, <1>5, <1>6, <1>10, <3>2, SMT
      <4> QED BY ONLY <4>1, <3>1, <1>1, <1>5, <1>10, <2>3,
             <1>8, KmhIs, SMT DEF OnGrid, u, d
    <3>3. CASE AtMid
      <4>1. ~(Moved >= 262144000) /\ midPauses = 0
        BY ONLY <1>1, <1>3, <1>4, <1>5, <1>6, <1>10, <3>3, SMT
      <4> QED BY ONLY <4>1, <3>1, <3>3, <1>1, <1>5, <1>10, <2>3,
             <1>8, KmhIs, SMT DEF OnGrid, u, d
    <3>4. CASE Speed < 262144000
      <4>1. ~(Moved >= 262144000) /\ midPauses = 1 /\ ~AtMid
        BY ONLY <1>1, <1>3, <1>4, <1>5, <1>10, <3>4, SMT
      <4> QED BY ONLY <4>1, <3>1, <1>1, <1>5, <1>10, <2>3,
             <1>8, KmhIs, SMT DEF OnGrid, u, d
    <3> QED BY <1>1, <1>4, <3>2, <3>3, <3>4, SMT
  <2> QED BY <2>2, <2>3, SMT
<1> QED BY <1>1, <1>9, <1>10, SMT

LEMMA MidInit == Init => MidInv
<1> SUFFICES ASSUME Init PROVE MidInv OBVIOUS
<1>1. DriveOK BY NeedleInit, SMT DEF NeedleInv
<1>2. Speed = 157286400 /\ Direction = 1 /\ midPauses = 0
  BY KmhIs, SMT DEF Init
<1> QED
  BY <1>1, <1>2, KmhIs, SMT DEF MidInv, OnGrid, LOC_CM_SPEED_MID,
     LOC_ACCELERATION_FACTOR

LEMMA MidStep ==
  DriveOK' /\ MidInv /\ [Next]_vars =>
    MidInv' /\ (Direction' # Direction => midPauses = 1)
<1> SUFFICES ASSUME DriveOK', MidInv, [Next]_vars
             PROVE MidInv' /\ (Direction' # Direction => midPauses = 1)
  BY SMT
<1>1. CASE Move
  <2>1. LOC_CM_SPEED_MID = 262144000 /\ LOC_ACCELERATION_FACTOR = 4980736
    BY KmhIs, SMT DEF LOC_CM_SPEED_MID, LOC_ACCELERATION_FACTOR
  <2>2. /\ OnGrid' /\ (Direction' # Direction => midPauses = 1)
        /\ Direction' = 1 => midPauses' = IF Speed' < 267124736 THEN 0 ELSE 1
        /\ Direction' = -1 => midPauses' = IF Speed' >= 262144000 THEN 0 ELSE 1
    BY <1>1, MovePauses, SMT
  <2> QED BY <2>1, <2>2, SMT DEF MidInv
<1>2. CASE ~Move
  <2>1. UNCHANGED <<Speed, Direction, midPauses>>
    BY <1>2, SMT DEF Next, Render, Pause, UpdateRpm, vars
  <2> QED BY <2>1, SMT DEF MidInv, OnGrid
<1> QED BY <1>1, <1>2, SMT

(* Each sweep between the ends of the scale rests exactly once at medium   *)
(* speed, because of the rounding: a step there is 4980740 units and the   *)
(* window 4980736, which is neither jumped over nor met twice by speeds    *)
(* that are multiples of 20 (app_cl_carmodel.c:85-95).                     *)
THEOREM OneMidPauseHolds == Spec => OneMidPause
<1>1. Init => NeedleInv /\ MidInv BY NeedleInit, MidInit, SMT
<1>2. NeedleInv /\ MidInv /\ [Next]_vars =>
        NeedleInv' /\ MidInv' /\ (Direction' # Direction => midPauses = 1)
  <2>1. NeedleInv /\ [Next]_vars => NeedleInv' BY NeedleStep, SMT
  <2>2. NeedleInv' => DriveOK' BY SMT DEF NeedleInv
  <2> QED BY <2>1, <2>2, MidStep, SMT
<1> QED BY <1>1, <1>2, PTL DEF Spec, OneMidPause
=============================================================================
