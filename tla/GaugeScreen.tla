----------------------------- MODULE GaugeScreen -----------------------------
(***************************************************************************)
(* The gauge screen of the cluster demo (app_cl_gauge.c), drawn by         *)
(* RenderAppCluster into two frame buffers in turn.  A frame repaints only *)
(* the icons whose status differs from what the code remembers of THIS     *)
(* buffer, and at most LOC_EL_MAX_UPDATE + 1 of them; the needle of two    *)
(* frames ago is wiped with the angle the code remembers of it.  The model *)
(* keeps both the memory of the code and what the buffers really show.     *)
(*                                                                         *)
(* Icons are "on" or "off"; angles are in quarters of a degree, the unit   *)
(* of the needle filter's steps.  Of the gauges only the speed needle is   *)
(* kept: in this build (SINGLE_CLUSTER) the RPM needle and the cooling     *)
(* gauge are not drawn, and the fuel gauge is wiped as a whole.            *)
(***************************************************************************)
EXTENDS Integers, Sequences, FiniteSets

CONSTANTS
  locElement,            \* the icon table: a sequence of sets of flags
  LOC_EL_MAX_UPDATE,
  LOC_TURNSIGNAL_FREQ,
  CntMod,                \* the frame counter wraps: 2^32
  Angles                 \* where the car model may put the speed needle

LOC_BUF_NUM == 2
Flags == {"FLASH", "DRAW_ALWAYS"}

ASSUME GaugeOK ==
  /\ Len(locElement) \in Nat \ {0}
  /\ \A i \in 1 .. Len(locElement) : locElement[i] \subseteq Flags
  /\ LOC_EL_MAX_UPDATE \in Nat
  /\ LOC_TURNSIGNAL_FREQ \in Nat \ {0}
  /\ CntMod \in Nat \ {0} /\ CntMod % LOC_BUF_NUM = 0
  /\ Angles \subseteq Int /\ Angles # {}

Buf == 0 .. LOC_BUF_NUM - 1
(* The loops of the code stop one short of the end of the table.           *)
Elements == 1 .. Len(locElement) - 1
Status == {"on", "off"}
Has(i, flag) == flag \in locElement[i]

VARIABLES
  car,           \* the status the car model reports, by icon
  speed,         \* the angle of its speed
  locFrameCnt, locInit, on_counter,
  OldStatus,     \* locElementOldStatus: by icon and buffer
  NeedleSpeed,   \* current, last and last but one angle
  shown,         \* the pixels: what each buffer shows of each icon
  needles,       \* the pixels: the needles visible in each buffer
  baked,         \* the icon images that are opaque, background included
  calm,          \* history: frames rendered since the car last changed
  wrapped        \* history: the frame counter has wrapped

vars == <<car, speed, locFrameCnt, locInit, on_counter, OldStatus,
          NeedleSpeed, shown, needles, baked, calm, wrapped>>

(* Any number of frames from CalmBound on is the same to the properties.   *)
CalmBound == 2 * (Len(locElement) - 1)

(* GaugeScreenInit, on buffers with arbitrary contents ("junk").           *)
Init ==
  /\ car \in [Elements -> Status] /\ speed \in Angles
  /\ locFrameCnt = 0 /\ locInit = 0 /\ on_counter = 0
  /\ OldStatus = [i \in Elements |-> [b \in Buf |-> "off"]]
  /\ \E a \in Angles : NeedleSpeed = [Current |-> a, Last |-> <<a, a>>]
  /\ shown = [b \in Buf |-> [i \in Elements |-> "junk"]]
  /\ needles = [b \in Buf |-> {}]
  /\ baked = {} /\ calm = 0 /\ wrapped = FALSE

-----------------------------------------------------------------------------
idx == locFrameCnt % LOC_BUF_NUM
early == locFrameCnt < LOC_BUF_NUM

Opposite(s) == IF s = "on" THEN "off" ELSE "on"

(* locRenderElements, for icon i: the status remembered of this buffer and *)
(* the one to show, dark in the second half of the flash period.           *)
oldstatus(i) == IF early THEN Opposite(car[i]) ELSE OldStatus[i][idx]
status(i) ==
  IF Has(i, "FLASH") /\ on_counter > LOC_TURNSIGNAL_FREQ THEN "off"
                                                          ELSE car[i]
Wanted(i) == Has(i, "DRAW_ALWAYS") \/ status(i) # oldstatus(i)

(* Whether a wanted icon may be drawn after n others, and how many of the  *)
(* first k icons are drawn.                                                *)
MutLimitOff(i, n) ==
  early \/ n < LOC_EL_MAX_UPDATE \/ Has(i, "DRAW_ALWAYS")
Allowed(i, n) ==
  early \/ n <= LOC_EL_MAX_UPDATE \/ Has(i, "DRAW_ALWAYS")
update[k \in 0 .. Len(locElement) - 1] ==
  IF k = 0 THEN 0
  ELSE update[k-1] + IF Wanted(k) /\ Allowed(k, update[k-1]) THEN 1 ELSE 0
Drawn(i) == Wanted(i) /\ Allowed(i, update[i-1])

(* What is remembered: an icon that was put off keeps its old status.      *)
MutForgetSkipped(i) == status(i)
newstatus(i) == IF Wanted(i) /\ ~Drawn(i) THEN oldstatus(i) ELSE status(i)

(* locFilterGauge: towards New by at most one step, in quarter degrees.    *)
MutSnapLate(Old, New) ==
  LET hdiff == IF New < Old THEN Old - New ELSE New - Old
      step == IF hdiff > 80 THEN 5 ELSE IF hdiff > 20 THEN 4 ELSE 3
  IN IF hdiff = 0 THEN New
     ELSE IF New > Old THEN Old + step ELSE Old - step
locFilterGauge(Old, New) ==
  LET hdiff == IF New < Old THEN Old - New ELSE New - Old
      step == IF hdiff > 80 THEN 5 ELSE IF hdiff > 20 THEN 4 ELSE 3
  IN IF hdiff < 4 THEN New
     ELSE IF New > Old THEN Old + step ELSE Old - step

(* locSetNextNeedlePosition.                                               *)
NextNeedle(n, a) == [Current |-> a, Last |-> <<n.Current, n.Last[1]>>]

(* The angle that locNeedleSpeedRestore wipes.                             *)
MutRestoreCurrent == NeedleSpeed.Current
RestoredAngle == NeedleSpeed.Last[1]

(* on_counter at the end of locRenderElements.                             *)
NextOnCounter ==
  IF on_counter + 1 # 1 /\ on_counter + 1 > 2 * LOC_TURNSIGNAL_FREQ
  THEN 0 ELSE on_counter + 1

(* locElementSetupRender makes one set of images opaque in each of the     *)
(* first two frames: the "on" images, then the "off" ones.                 *)
BakedNow == IF locInit = 0 THEN {"on"}
            ELSE IF locInit = 1 THEN {"on", "off"} ELSE baked

(* An image blended over another one leaves a mixture of both, unless it   *)
(* is opaque.                                                              *)
Blit(base, s) == IF base = "bg" \/ s \in BakedNow THEN s ELSE "mix"

(* The first two frames start from the whole background.                   *)
Base(i) == IF locInit < 2 THEN "bg" ELSE shown[idx][i]

RenderClGaugeScreen ==
  LET a == locFilterGauge(NeedleSpeed.Current, speed)
      left == IF locInit < 2 THEN {} ELSE needles[idx]
  IN /\ locInit' = IF locInit < 2 THEN locInit + 1 ELSE locInit
     /\ baked' = BakedNow
     /\ shown' = [shown EXCEPT ![idx] =
          [i \in Elements |-> IF Drawn(i) THEN Blit(Base(i), status(i))
                                          ELSE Base(i)]]
     /\ OldStatus' =
          [i \in Elements |-> [OldStatus[i] EXCEPT ![idx] = newstatus(i)]]
     /\ on_counter' = NextOnCounter
     /\ needles' = [needles EXCEPT ![idx] = (left \ {RestoredAngle}) \cup {a}]
     /\ NeedleSpeed' = NextNeedle(NeedleSpeed, a)
     /\ locFrameCnt' = (locFrameCnt + 1) % CntMod
     /\ wrapped' = (wrapped \/ locFrameCnt + 1 = CntMod)

(* CarModelUpdate, as far as the screen can tell: anything may change.     *)
CarModelUpdate ==
  /\ car' \in [Elements -> Status] /\ speed' \in Angles
  /\ calm' = IF car' # car THEN 0
             ELSE IF calm < CalmBound THEN calm + 1 ELSE calm

(* RenderAppCluster: a frame, then the car model.                          *)
RenderAppCluster == RenderClGaugeScreen /\ CarModelUpdate

Next == RenderAppCluster
Spec == Init /\ [][Next]_vars

-----------------------------------------------------------------------------
Painted == IF locInit = 0 THEN {} ELSE IF locInit = 1 THEN {0} ELSE Buf

(* Type invariant.                                                         *)
TypeOK ==
  /\ car \in [Elements -> Status] /\ speed \in Angles
  /\ locFrameCnt \in 0 .. CntMod - 1 /\ locInit \in 0 .. 2
  /\ on_counter \in 0 .. 2 * LOC_TURNSIGNAL_FREQ
  /\ OldStatus \in [Elements -> [Buf -> Status]]
  /\ NeedleSpeed \in [Current : Int, Last : Int \X Int]
  /\ shown \in [Buf -> [Elements -> Status \cup {"junk", "bg", "mix"}]]
  /\ needles \in [Buf -> SUBSET Int]
  /\ baked \subseteq Status /\ calm \in Nat /\ wrapped \in BOOLEAN

(* What the code remembers of a buffer is what the buffer shows, for every *)
(* icon put off by the update limit too, and no icon is ever a mixture of  *)
(* two images (locElementOldStatus).  One exception: when the frame        *)
(* counter wraps, the comparison value !status of a flashing icon equals   *)
(* the darkened status, and a lit icon may be taken for dark until the     *)
(* next flash.                                                             *)
RememberedIsShown ==
  \A b \in Painted, i \in Elements :
    \/ shown[b][i] = OldStatus[i][b]
    \/ /\ wrapped /\ Has(i, "FLASH")
       /\ shown[b][i] = "on" /\ OldStatus[i][b] = "off"

(* No ghost needle: each buffer shows exactly one needle, the last drawn   *)
(* buffer at the current angle, the other at the one before it, which is   *)
(* the one the next frame wipes (locNeedleSpeedRestore).                   *)
OneNeedle ==
  \A b \in Painted :
    needles[b] = {IF b = idx THEN NeedleSpeed.Last[1] ELSE NeedleSpeed.Current}

(* The update limit starves nobody: once the car has not changed for       *)
(* SettleFrames frames, both buffers show every steady icon right, however *)
(* many changed at once and although flashing icons go first.              *)
Greedy == {i \in Elements : Has(i, "FLASH") \/ Has(i, "DRAW_ALWAYS")}
SettleFrames ==
  LET share == LOC_EL_MAX_UPDATE + 1 - Cardinality(Greedy)
      steady == Cardinality(Elements \ Greedy)
  IN LOC_BUF_NUM * ((steady + share - 1) \div share)
IconsSettle ==
  calm >= SettleFrames /\ locInit = 2 =>
    \A b \in Buf, i \in Elements \ Greedy : shown[b][i] = car[i]

(* The needle closes in on the speed with every frame and never overshoots *)
(* (locFilterGauge at its thresholds).                                     *)
Between(x, a, b) == (a <= x /\ x <= b) \/ (b <= x /\ x <= a)
NeedleHomes ==
  [][/\ Between(NeedleSpeed'.Current, NeedleSpeed.Current, speed)
     /\ NeedleSpeed'.Current = NeedleSpeed.Current
          => NeedleSpeed.Current = speed]_vars
=============================================================================
