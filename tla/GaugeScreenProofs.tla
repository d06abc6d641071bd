-------------------------- MODULE GaugeScreenProofs --------------------------
(***************************************************************************)
(* Proofs about GaugeScreen, for every icon table, update limit, flash     *)
(* frequency, counter width and set of angles.                             *)
(***************************************************************************)
EXTENDS GaugeScreen, FiniteSetTheorems, WellFoundedInduction, TLAPS

(* How the frame counter, the first-frame counter, the flash counter and   *)
(* the opaque images go together.                                          *)
FrameInv ==
  /\ locInit = 0 => locFrameCnt = 0 /\ on_counter = 0
  /\ locInit = 1 => locFrameCnt = 1 /\ on_counter = 1
  /\ locInit = 2 => baked = Status /\ (wrapped \/ locFrameCnt >= 2)

(* What the assumption on the constants says of the counter's width.       *)
LEMMA ModFacts == CntMod \in Nat /\ CntMod >= 2 /\ CntMod % 2 = 0
BY GaugeOK DEF LOC_BUF_NUM

(* The next frame uses the other buffer, also when the counter wraps.      *)
LEMMA OtherBuffer ==
  ASSUME NEW n \in 0 .. CntMod - 1
  PROVE /\ (n + 1) % CntMod = IF n + 1 = CntMod THEN 0 ELSE n + 1
        /\ (n + 1) % CntMod \in 0 .. CntMod - 1
        /\ n % 2 \in {0, 1}
        /\ ((n + 1) % CntMod) % 2 = 1 - (n % 2)
<1>1. (n + 1) % CntMod = IF n + 1 = CntMod THEN 0 ELSE n + 1
  BY ModFacts
<1>2. n % 2 \in {0, 1} OBVIOUS
<1>3. CASE n + 1 = CntMod
  BY <1>1, <1>3, ModFacts
<1>4. CASE n + 1 # CntMod
  BY <1>1, <1>4, ModFacts
<1> QED BY <1>1, <1>2, <1>3, <1>4, ModFacts

(* The filter moves towards the new angle, never past it, and stands still *)
(* only when it is there (locFilterGauge).                                 *)
LEMMA FilterHomes ==
  ASSUME NEW o \in Int, NEW n \in Int
  PROVE /\ locFilterGauge(o, n) \in Int
        /\ Between(locFilterGauge(o, n), o, n)
        /\ locFilterGauge(o, n) = o => o = n
BY DEF locFilterGauge, Between

(* A frame leaves the two buffers' indices exchanged.                      *)
LEMMA IdxStep ==
  ASSUME TypeOK, RenderClGaugeScreen
  PROVE idx \in Buf /\ idx' = 1 - idx /\ locFrameCnt' \in 0 .. CntMod - 1
BY OtherBuffer DEF TypeOK, RenderClGaugeScreen, idx, Buf, LOC_BUF_NUM

(* Every initial state is well typed.                                      *)
LEMMA TypeInit == Init => TypeOK
<1> SUFFICES ASSUME Init PROVE TypeOK OBVIOUS
<1>1. NeedleSpeed \in [Current : Int, Last : Int \X Int]
  <2>1. PICK a \in Angles : NeedleSpeed = [Current |-> a, Last |-> <<a, a>>]
    BY DEF Init
  <2> QED BY <2>1, GaugeOK
<1>2. /\ shown \in [Buf -> [Elements -> Status \cup {"junk", "bg", "mix"}]]
      /\ needles \in [Buf -> SUBSET Int]
      /\ OldStatus \in [Elements -> [Buf -> Status]]
  BY DEF Init, Status
<1>3. 0 \in 0 .. CntMod - 1 /\ 0 \in 0 .. 2 * LOC_TURNSIGNAL_FREQ
  BY GaugeOK, ModFacts
<1>4. /\ locFrameCnt \in 0 .. CntMod - 1 /\ locInit \in 0 .. 2
      /\ on_counter \in 0 .. 2 * LOC_TURNSIGNAL_FREQ /\ calm \in Nat
  BY <1>3 DEF Init
<1>5. /\ car \in [Elements -> Status] /\ speed \in Angles
      /\ baked \subseteq Status /\ wrapped \in BOOLEAN
  BY DEF Init
<1> QED BY <1>1, <1>2, <1>4, <1>5 DEF TypeOK

(* What the code remembers of an icon is a status.                         *)
LEMMA StatusTypes ==
  ASSUME TypeOK, NEW i \in Elements
  PROVE /\ status(i) \in Status /\ oldstatus(i) \in Status
        /\ newstatus(i) \in Status
<1>1. idx \in Buf BY OtherBuffer DEF TypeOK, idx, Buf, LOC_BUF_NUM
<1>2. OldStatus[i][idx] \in Status BY <1>1 DEF TypeOK
<1>3. car[i] \in Status BY DEF TypeOK
<1> QED BY <1>2, <1>3 DEF status, oldstatus, newstatus, Opposite, Status

(* A frame and the car model's update keep the types.                      *)
LEMMA TypeStep == TypeOK /\ [Next]_vars => TypeOK'
<1> SUFFICES ASSUME TypeOK, [Next]_vars PROVE TypeOK'
  OBVIOUS
<1>1. CASE UNCHANGED vars BY <1>1 DEF vars, TypeOK
<1>2. CASE RenderAppCluster
  <2> USE <1>2 DEF RenderAppCluster
  <2>1. idx \in Buf /\ locFrameCnt' \in 0 .. CntMod - 1 BY IdxStep
  <2>2. car' \in [Elements -> Status] /\ speed' \in Angles /\ calm' \in Nat
    <3>1. CalmBound \in Nat BY GaugeOK DEF CalmBound
    <3> QED BY <3>1 DEF CarModelUpdate, TypeOK
  <2>3. locInit' \in 0 .. 2 BY DEF RenderClGaugeScreen, TypeOK
  <2>4. on_counter' \in 0 .. 2 * LOC_TURNSIGNAL_FREQ
    BY GaugeOK DEF RenderClGaugeScreen, NextOnCounter, TypeOK
  <2>5. OldStatus' \in [Elements -> [Buf -> Status]]
    <3>1. OldStatus' = [i \in Elements |->
             [OldStatus[i] EXCEPT ![idx] = newstatus(i)]]
      BY DEF RenderClGaugeScreen
    <3>2. ASSUME NEW i \in Elements
          PROVE [OldStatus[i] EXCEPT ![idx] = newstatus(i)] \in [Buf -> Status]
      BY <2>1, StatusTypes DEF TypeOK
    <3> QED BY <3>1, <3>2
  <2>6. baked' \subseteq Status
    BY DEF RenderClGaugeScreen, BakedNow, Status, TypeOK
  <2>7. shown' \in [Buf -> [Elements -> Status \cup {"junk", "bg", "mix"}]]
    <3> DEFINE new == [i \in Elements |-> IF Drawn(i)
                        THEN Blit(Base(i), status(i)) ELSE Base(i)]
    <3>1. ASSUME NEW i \in Elements
          PROVE new[i] \in Status \cup {"junk", "bg", "mix"}
      <4>1. Base(i) \in Status \cup {"junk", "bg", "mix"}
        BY <2>1 DEF Base, TypeOK
      <4>2. Blit(Base(i), status(i)) \in Status \cup {"mix"}
        BY StatusTypes DEF Blit
      <4> QED BY <4>1, <4>2
    <3>2. new \in [Elements -> Status \cup {"junk", "bg", "mix"}]
      BY <3>1
    <3>3. shown' = [shown EXCEPT ![idx] = new] BY DEF RenderClGaugeScreen
    <3> HIDE DEF new
    <3> QED BY <3>2, <3>3, <2>1 DEF TypeOK
  <2>8. /\ NeedleSpeed' \in [Current : Int, Last : Int \X Int]
        /\ needles' \in [Buf -> SUBSET Int]
    <3>1. locFilterGauge(NeedleSpeed.Current, speed) \in Int
      BY FilterHomes, GaugeOK DEF TypeOK
    <3>2. NeedleSpeed' =
            NextNeedle(NeedleSpeed, locFilterGauge(NeedleSpeed.Current, speed))
      BY DEF RenderClGaugeScreen
    <3>3. NeedleSpeed' \in [Current : Int, Last : Int \X Int]
      BY <3>1, <3>2 DEF NextNeedle, TypeOK
    <3>4. needles' \in [Buf -> SUBSET Int]
      BY <3>1, <2>1 DEF RenderClGaugeScreen, TypeOK
    <3> QED BY <3>3, <3>4
  <2>9. wrapped' \in BOOLEAN BY DEF RenderClGaugeScreen, TypeOK
  <2> QED BY <2>1, <2>2, <2>3, <2>4, <2>5, <2>6, <2>7, <2>8, <2>9 DEF TypeOK
<1> QED BY <1>1, <1>2 DEF Next

(* The screen's state is well typed: no counter leaves its range, no       *)
(* buffer index its bounds (RenderClGaugeScreen).                          *)
THEOREM TypeCorrect == Spec => []TypeOK
<1>1. Init => TypeOK BY TypeInit
<1>2. TypeOK /\ [Next]_vars => TypeOK' BY TypeStep
<1> QED BY <1>1, <1>2, PTL DEF Spec

(* The counters stay in step.                                              *)
LEMMA FrameStep == TypeOK /\ FrameInv /\ [Next]_vars => FrameInv'
<1> SUFFICES ASSUME TypeOK, FrameInv, [Next]_vars PROVE FrameInv'
  OBVIOUS
<1>1. CASE UNCHANGED vars BY <1>1 DEF vars, FrameInv
<1>2. CASE RenderClGaugeScreen
  <2>1. locFrameCnt' = IF locFrameCnt + 1 = CntMod THEN 0 ELSE locFrameCnt + 1
    BY <1>2, OtherBuffer DEF RenderClGaugeScreen, TypeOK
  <2>2. /\ locInit' = IF locInit < 2 THEN locInit + 1 ELSE locInit
        /\ baked' = BakedNow /\ on_counter' = NextOnCounter
        /\ wrapped' = (wrapped \/ locFrameCnt + 1 = CntMod)
    BY <1>2 DEF RenderClGaugeScreen
  <2>3. /\ locInit \in 0 .. 2 /\ locFrameCnt \in 0 .. CntMod - 1
        /\ on_counter \in Nat /\ wrapped \in BOOLEAN
    BY GaugeOK DEF TypeOK
  <2>4. CASE locInit = 0
    BY <2>1, <2>2, <2>3, <2>4, ModFacts DEF FrameInv, NextOnCounter
  <2>5. CASE locInit = 1
    <3>1. locInit' = 2 /\ baked' = Status
      BY <2>2, <2>5 DEF BakedNow, Status
    <3>2. wrapped' \/ locFrameCnt' >= 2
      <4>1. locFrameCnt + 1 = CntMod \/ locFrameCnt' >= 2
        BY <2>1, <2>5 DEF FrameInv
      <4> QED BY <4>1, <2>2
    <3> QED BY <3>1, <3>2 DEF FrameInv
  <2>6. CASE locInit = 2
    <3>1. locInit' = 2 /\ baked' = Status
      BY <2>2, <2>6 DEF BakedNow, FrameInv
    <3>2. wrapped' \/ locFrameCnt' >= 2
      <4>1. locFrameCnt >= 2 =>
              locFrameCnt + 1 = CntMod \/ locFrameCnt' >= 2
        BY <2>1, <2>3
      <4> QED BY <4>1, <2>2, <2>6 DEF FrameInv
    <3> QED BY <3>1, <3>2 DEF FrameInv
  <2> QED BY <2>3, <2>4, <2>5, <2>6
<1> QED BY <1>1, <1>2 DEF Next, RenderAppCluster

(* A frame keeps one needle per buffer.                                    *)
LEMMA NeedleStep ==
  TypeOK /\ FrameInv /\ OneNeedle /\ [Next]_vars => OneNeedle'
<1> SUFFICES ASSUME TypeOK, FrameInv, OneNeedle, [Next]_vars PROVE OneNeedle'
  OBVIOUS
<1>1. CASE UNCHANGED vars
  BY <1>1 DEF vars, OneNeedle, Painted, idx
<1>2. CASE RenderClGaugeScreen
  <2> DEFINE a == locFilterGauge(NeedleSpeed.Current, speed)
             left == IF locInit < 2 THEN {} ELSE needles[idx]
  <2>1. idx \in Buf /\ idx' = 1 - idx BY <1>2, IdxStep
  <2>2. /\ needles' =
             [needles EXCEPT ![idx] = (left \ {RestoredAngle}) \cup {a}]
        /\ NeedleSpeed' = NextNeedle(NeedleSpeed, a)
        /\ locInit' = IF locInit < 2 THEN locInit + 1 ELSE locInit
    BY <1>2 DEF RenderClGaugeScreen
  <2>3. NeedleSpeed'.Current = a /\ NeedleSpeed'.Last[1] = NeedleSpeed.Current
    BY <2>2 DEF NextNeedle
  <2>4. left \subseteq {RestoredAngle}
    BY <2>1 DEF OneNeedle, Painted, RestoredAngle, TypeOK
  <2>5. needles'[idx] = {a}
    BY <2>1, <2>2, <2>4 DEF TypeOK
  <2>6. ASSUME NEW b \in Painted', b # idx
        PROVE needles'[b] = {NeedleSpeed.Current}
    <3>1. b \in Buf /\ b \in Painted
      BY <2>1, <2>2, <2>6 DEF Painted, FrameInv, TypeOK, idx, Buf, LOC_BUF_NUM
    <3>2. needles[b] = {NeedleSpeed.Current}
      BY <3>1, <2>6 DEF OneNeedle
    <3> QED BY <3>1, <3>2, <2>1, <2>2, <2>6 DEF TypeOK
  <2>7. ASSUME NEW b \in Painted'
        PROVE (b = idx') <=> (b # idx)
    BY <2>1, <2>7 DEF Painted, Buf, LOC_BUF_NUM
  <2> HIDE DEF a, left
  <2> QED BY <2>3, <2>5, <2>6, <2>7 DEF OneNeedle
<1> QED BY <1>1, <1>2 DEF Next, RenderAppCluster

(* When an icon is drawn: only if wanted, and always in an early frame.    *)
LEMMA DrawnFacts ==
  ASSUME NEW i \in Elements
  PROVE /\ Drawn(i) => Wanted(i)
        /\ early /\ Wanted(i) => Drawn(i)
        /\ ~Wanted(i) => status(i) = oldstatus(i) /\ newstatus(i) = status(i)
        /\ Drawn(i) => newstatus(i) = status(i)
        /\ Wanted(i) /\ ~Drawn(i) => newstatus(i) = oldstatus(i)
BY DEF Drawn, Wanted, Allowed, newstatus

(* In the first two frames every icon is drawn: no flashing icon is dark.  *)
LEMMA FirstFrames ==
  ASSUME TypeOK, FrameInv, locInit < 2, NEW i \in Elements
  PROVE Drawn(i)
<1>1. early /\ ~(on_counter > LOC_TURNSIGNAL_FREQ)
  BY GaugeOK DEF FrameInv, TypeOK, early, LOC_BUF_NUM
<1>2. status(i) = car[i] /\ oldstatus(i) = Opposite(car[i])
  BY <1>1 DEF status, oldstatus
<1>3. Opposite(car[i]) # car[i] BY DEF Opposite
<1> QED BY <1>1, <1>2, <1>3, DrawnFacts DEF Wanted

(* A frame keeps the memory of its buffer true.                            *)
LEMMA RememberStep ==
  TypeOK /\ FrameInv /\ RememberedIsShown /\ [Next]_vars
    => RememberedIsShown'
<1> SUFFICES ASSUME TypeOK, FrameInv, RememberedIsShown, [Next]_vars
             PROVE RememberedIsShown'
  OBVIOUS
<1>1. CASE UNCHANGED vars
  BY <1>1 DEF vars, RememberedIsShown, Painted
<1>2. CASE RenderClGaugeScreen
  <2>1. idx \in Buf BY <1>2, IdxStep
  <2>2. wrapped => wrapped' BY <1>2 DEF RenderClGaugeScreen
  <2> SUFFICES ASSUME NEW b \in Painted', NEW i \in Elements
        PROVE \/ shown'[b][i] = OldStatus'[i][b]
              \/ /\ wrapped' /\ Has(i, "FLASH")
                 /\ shown'[b][i] = "on" /\ OldStatus'[i][b] = "off"
    BY DEF RememberedIsShown
  <2>3. b \in Buf BY DEF Painted, Buf, LOC_BUF_NUM
  <2>4. CASE b # idx
    <3>1. b \in Painted
      BY <1>2, <2>1, <2>3, <2>4
         DEF Painted, FrameInv, TypeOK, idx, Buf, LOC_BUF_NUM,
             RenderClGaugeScreen
    <3>2. shown'[b][i] = shown[b][i] /\ OldStatus'[i][b] = OldStatus[i][b]
      BY <1>2, <2>1, <2>3, <2>4 DEF RenderClGaugeScreen, TypeOK
    <3> QED BY <3>1, <3>2, <2>2 DEF RememberedIsShown
  <2>5. CASE b = idx
    <3>1. /\ shown'[b][i] = IF Drawn(i) THEN Blit(Base(i), status(i))
                                        ELSE Base(i)
          /\ OldStatus'[i][b] = newstatus(i)
      BY <1>2, <2>1, <2>5 DEF RenderClGaugeScreen, TypeOK
    <3>2. CASE Drawn(i)
      <4>1. Blit(Base(i), status(i)) = status(i)
        <5>1. CASE locInit < 2 BY <5>1 DEF Blit, Base
        <5>2. CASE locInit = 2
          BY <5>2, StatusTypes DEF Blit, BakedNow, FrameInv
        <5> QED BY <5>1, <5>2 DEF TypeOK
      <4> QED BY <3>1, <3>2, <4>1, DrawnFacts
    <3>3. CASE ~Drawn(i)
      <4>1. locInit = 2 BY <3>3, FirstFrames DEF TypeOK
      <4>2. b \in Painted BY <4>1, <2>3 DEF Painted
      <4>3. shown'[b][i] = shown[b][i]
        BY <3>1, <3>3, <4>1, <2>5 DEF Base
      <4>4. OldStatus'[i][b] = oldstatus(i)
        BY <3>1, <3>3, DrawnFacts
      <4>5. CASE ~early
        BY <4>2, <4>3, <4>4, <4>5, <2>2, <2>5
           DEF oldstatus, RememberedIsShown
      <4>6. CASE early
        <5>1. status(i) = oldstatus(i) /\ oldstatus(i) = Opposite(car[i])
          BY <4>6, <3>3, DrawnFacts DEF oldstatus
        <5>2. Has(i, "FLASH") /\ oldstatus(i) = "off"
          BY <5>1 DEF status, Opposite
        <5>3. wrapped
          BY <4>1, <4>6 DEF FrameInv, early, LOC_BUF_NUM, TypeOK
        <5>4. shown[b][i] \in Status
          BY <4>2, <2>3 DEF RememberedIsShown, TypeOK, Status
        <5> QED BY <5>2, <5>3, <5>4, <4>3, <4>4, <2>2 DEF Status
      <4> QED BY <4>5, <4>6
    <3> QED BY <3>2, <3>3
  <2> QED BY <2>4, <2>5
<1> QED BY <1>1, <1>2 DEF Next, RenderAppCluster

(* What the code remembers of a buffer is what the buffer shows, for every *)
(* icon table and update limit (locElementOldStatus).                      *)
THEOREM RememberedIsShownHolds == Spec => []RememberedIsShown
<1>1. Init => FrameInv /\ RememberedIsShown
  BY DEF Init, FrameInv, RememberedIsShown, Painted
<1>2. TypeOK /\ FrameInv /\ RememberedIsShown /\ [Next]_vars
        => (FrameInv /\ RememberedIsShown)'
  BY FrameStep, RememberStep
<1> QED BY <1>1, <1>2, TypeCorrect, PTL DEF Spec

(* Each buffer shows exactly one needle, the one the next frame wipes      *)
(* (locNeedleSpeedRestore), whatever the speed does.                       *)
THEOREM OneNeedleHolds == Spec => []OneNeedle
<1>1. Init => FrameInv /\ OneNeedle
  BY DEF Init, FrameInv, OneNeedle, Painted
<1>2. TypeOK /\ FrameInv /\ OneNeedle /\ [Next]_vars => (FrameInv /\ OneNeedle)'
  BY FrameStep, NeedleStep
<1> QED BY <1>1, <1>2, TypeCorrect, PTL DEF Spec

(* The needle closes in on the speed and never overshoots it.              *)
THEOREM NeedleHomesHolds == Spec => NeedleHomes
<1>1. TypeOK /\ [Next]_vars =>
        [/\ Between(NeedleSpeed'.Current, NeedleSpeed.Current, speed)
         /\ NeedleSpeed'.Current = NeedleSpeed.Current
              => NeedleSpeed.Current = speed]_vars
  <2> SUFFICES ASSUME TypeOK, RenderAppCluster
        PROVE /\ Between(NeedleSpeed'.Current, NeedleSpeed.Current, speed)
              /\ NeedleSpeed'.Current = NeedleSpeed.Current
                   => NeedleSpeed.Current = speed
    BY DEF Next
  <2>1. NeedleSpeed'.Current = locFilterGauge(NeedleSpeed.Current, speed)
    BY DEF RenderAppCluster, RenderClGaugeScreen, NextNeedle
  <2>2. NeedleSpeed.Current \in Int /\ speed \in Int
    BY GaugeOK DEF TypeOK
  <2> QED BY <2>1, <2>2, FilterHomes
<1> QED BY <1>1, TypeCorrect, PTL DEF Spec, NeedleHomes

-----------------------------------------------------------------------------
(* A set of numbers that is not empty has a least one.                     *)
LEMMA LeastNumber ==
  ASSUME NEW S, S \subseteq Nat, S # {}
  PROVE \E x \in S : \A y \in S : x <= y
<1>1. PICK x \in S : \A y \in S : ~(<<y, x>> \in OpToRel(<, Nat))
  BY NatLessThanWellFounded, WFMin
<1>2. ASSUME NEW y \in S PROVE x <= y
  <2>1. <<y, x>> \in Nat \X Nat /\ <<y, x>>[1] = y /\ <<y, x>>[2] = x
    OBVIOUS
  <2>2. y < x => <<y, x>> \in OpToRel(<, Nat)
    BY <2>1, Zenon DEF OpToRel
  <2>3. ~(y < x) BY <1>1, <2>2, Zenon
  <2> QED BY <2>3, SMT
<1> QED BY <1>2

(* Counts(f, m): f counts the icons drawn among the first m, the way the   *)
(* loop of locRenderElements does.                                         *)
Inc(k, n) == IF Wanted(k) /\ Allowed(k, n) THEN 1 ELSE 0
Counts(f, m) ==
  f = [k \in 0 .. m |-> IF k = 0 THEN 0 ELSE f[k-1] + Inc(k, f[k-1])]

(* Such a count exists for every length (the least length without one      *)
(* would be one more than a length with one), so update is one.            *)
LEMMA CountsExist == \A m \in Nat : \E f : Counts(f, m)
<1> DEFINE Bad == {m \in Nat : ~\E f : Counts(f, m)}
<1>1. SUFFICES ASSUME Bad # {} PROVE FALSE
  OBVIOUS
<1>2. PICK x \in Bad : \A y \in Bad : x <= y
  <2>1. Bad \subseteq Nat OBVIOUS
  <2> HIDE DEF Bad
  <2> QED BY <1>1, <2>1, LeastNumber
<1>3. CASE x = 0
  <2>1. Counts([k \in 0 .. 0 |-> 0], 0)
    BY DEF Counts
  <2> QED BY <1>2, <1>3, <2>1
<1>4. CASE x # 0
  <2>1. x \in Nat /\ x - 1 \in Nat /\ x - 1 \notin Bad BY <1>2, <1>4
  <2>2. PICK g : Counts(g, x - 1) BY <2>1
  <2> DEFINE h == [k \in 0 .. x |-> IF k = x THEN g[x-1] + Inc(x, g[x-1])
                                             ELSE g[k]]
  <2>3. ASSUME NEW k \in 0 .. x
        PROVE h[k] = IF k = 0 THEN 0 ELSE h[k-1] + Inc(k, h[k-1])
    <3>1. CASE k = x
      <4>1. h[k-1] = g[x-1] BY <2>1, <3>1
      <4> QED BY <4>1, <3>1, <1>4
    <3>2. CASE k # x
      <4>1. k \in 0 .. x - 1 BY <2>1, <3>2
      <4>2. g[k] = IF k = 0 THEN 0 ELSE g[k-1] + Inc(k, g[k-1])
        BY <4>1, <2>2 DEF Counts
      <4>3. h[k] = g[k] BY <3>2
      <4>4. k # 0 => h[k-1] = g[k-1] BY <3>2, <2>1
      <4> QED BY <4>2, <4>3, <4>4
    <3> QED BY <3>1, <3>2
  <2>4. h = [k \in 0 .. x |-> IF k = 0 THEN 0 ELSE h[k-1] + Inc(k, h[k-1])]
    <3>1. h = [k \in 0 .. x |-> h[k]] OBVIOUS
    <3> HIDE DEF h
    <3> QED BY <2>3, <3>1
  <2>5. Counts(h, x) BY <2>4 DEF Counts
  <2> QED BY <1>2, <2>5
<1> QED BY <1>3, <1>4

(* update satisfies the equation it is defined by.                         *)
LEMMA UpdateCounts ==
  /\ update[0] = 0
  /\ \A k \in Elements : update[k] = update[k-1] + Inc(k, update[k-1])
<1>1. Len(locElement) - 1 \in Nat BY GaugeOK
<1>2. \E f : Counts(f, Len(locElement) - 1) BY <1>1, CountsExist
<1>3. Counts(update, Len(locElement) - 1)
  BY <1>2 DEF update, Counts, Inc
<1> QED BY <1>1, <1>3 DEF Counts, Elements

(* update[k] is the number of icons drawn among the first k.               *)
DrawnUpTo(k) == {j \in 1 .. k : Drawn(j)}

(* So update[k] is a cardinality.                                          *)
LEMMA UpdateIsCount ==
  \A k \in 0 .. Len(locElement) - 1 : update[k] = Cardinality(DrawnUpTo(k))
<1> DEFINE N == Len(locElement) - 1
           Bad == {k \in Nat : k <= N /\ update[k] # Cardinality(DrawnUpTo(k))}
<1>0. N \in Nat /\ Elements = 1 .. N BY GaugeOK DEF Elements
<1>1. SUFFICES ASSUME Bad # {} PROVE FALSE
  BY <1>0
<1>2. PICK x \in Bad : \A y \in Bad : x <= y
  <2>1. Bad \subseteq Nat OBVIOUS
  <2> HIDE DEF Bad
  <2> QED BY <1>1, <2>1, LeastNumber
<1>3. CASE x = 0
  <2>1. DrawnUpTo(0) = {} BY DEF DrawnUpTo
  <2> QED BY <2>1, <1>2, <1>3, UpdateCounts, FS_EmptySet
<1>4. CASE x # 0
  <2>1. x \in Nat /\ x \in 1 .. N /\ x - 1 \in Nat /\ x - 1 \notin Bad
    BY <1>0, <1>2, <1>4
  <2>2. update[x-1] = Cardinality(DrawnUpTo(x-1)) BY <2>1
  <2>3. update[x] = update[x-1] + Inc(x, update[x-1])
    BY <2>1, <1>0, UpdateCounts
  <2>4. IsFiniteSet(DrawnUpTo(x-1)) /\ x \notin DrawnUpTo(x-1)
    <3>1. DrawnUpTo(x-1) \in SUBSET (1 .. x - 1) /\ 1 \in Int /\ x - 1 \in Int
      BY <2>1 DEF DrawnUpTo
    <3>2. IsFiniteSet(1 .. x - 1) BY <3>1, FS_Interval
    <3>3. IsFiniteSet(DrawnUpTo(x-1)) BY <3>1, <3>2, FS_Subset
    <3> QED BY <3>1, <3>3, <2>1
  <2>5. DrawnUpTo(x) = IF Drawn(x) THEN DrawnUpTo(x-1) \cup {x}
                                   ELSE DrawnUpTo(x-1)
    BY <2>1 DEF DrawnUpTo
  <2>6. Cardinality(DrawnUpTo(x-1) \cup {x}) = Cardinality(DrawnUpTo(x-1)) + 1
    BY <2>4, FS_AddElement
  <2>7. Inc(x, update[x-1]) = IF Drawn(x) THEN 1 ELSE 0
    BY DEF Inc, Drawn
  <2>8. Cardinality(DrawnUpTo(x-1)) \in Nat BY <2>4, FS_CardinalityType
  <2>9. update[x] = Cardinality(DrawnUpTo(x))
    BY <2>2, <2>3, <2>5, <2>6, <2>7, <2>8
  <2> QED BY <1>2, <2>9
<1> QED BY <1>3, <1>4

(* The icons that are neither flashing nor always drawn; those that the    *)
(* code remembers otherwise than the car has them; how many of them a      *)
(* frame draws at least while any is put off.                              *)
Steady == Elements \ Greedy
Share == LOC_EL_MAX_UPDATE + 1 - Cardinality(Greedy)
Wrong(b) == {i \in Steady : OldStatus[i][b] # car[i]}

(* The sets of icons are finite, and how large they can be.                *)
LEMMA SetsFinite ==
  /\ IsFiniteSet(Elements) /\ Cardinality(Elements) = Len(locElement) - 1
  /\ IsFiniteSet(Greedy) /\ Cardinality(Greedy) \in Nat
  /\ IsFiniteSet(Steady) /\ Cardinality(Steady) \in Nat
  /\ Cardinality(Steady) <= Len(locElement) - 1
  /\ \A b : IsFiniteSet(Wrong(b)) /\ Cardinality(Wrong(b)) \in Nat
            /\ Cardinality(Wrong(b)) <= Cardinality(Steady)
<1>1. IsFiniteSet(Elements) /\ Cardinality(Elements) = Len(locElement) - 1
  <2>1. 1 \in Int /\ Len(locElement) - 1 \in Int /\ Len(locElement) \in Nat \ {0}
    BY GaugeOK
  <2>2. /\ IsFiniteSet(1 .. Len(locElement) - 1)
        /\ Cardinality(1 .. Len(locElement) - 1)
             = IF 1 > Len(locElement) - 1 THEN 0 ELSE (Len(locElement) - 1) - 1 + 1
    BY <2>1, FS_Interval
  <2> QED BY <2>1, <2>2 DEF Elements
<1>2. Greedy \in SUBSET Elements /\ Steady \in SUBSET Elements
  BY DEF Greedy, Steady
<1>3. IsFiniteSet(Greedy) /\ IsFiniteSet(Steady)
      /\ Cardinality(Steady) <= Cardinality(Elements)
  BY <1>1, <1>2, FS_Subset
<1>4. ASSUME NEW b
      PROVE IsFiniteSet(Wrong(b)) /\ Cardinality(Wrong(b)) \in Nat
            /\ Cardinality(Wrong(b)) <= Cardinality(Steady)
  <2>1. Wrong(b) \in SUBSET Steady BY DEF Wrong
  <2> QED BY <2>1, <1>3, FS_Subset, FS_CardinalityType
<1> QED BY <1>1, <1>3, <1>4, FS_CardinalityType

(* What a frame does to a steady icon, in an early frame and in any other. *)
LEMMA SteadyIcon ==
  ASSUME TypeOK, NEW i \in Steady
  PROVE /\ status(i) = car[i]
        /\ early => newstatus(i) = car[i]
        /\ ~early => (Wanted(i) <=> i \in Wrong(idx))
        /\ Drawn(i) => newstatus(i) = car[i]
        /\ ~Wanted(i) => newstatus(i) = car[i]
        /\ Wanted(i) /\ ~Drawn(i) => update[i-1] > LOC_EL_MAX_UPDATE
<1>1. i \in Elements /\ ~Has(i, "FLASH") /\ ~Has(i, "DRAW_ALWAYS")
  BY DEF Steady, Greedy
<1>2. status(i) = car[i] BY <1>1 DEF status
<1>3. Drawn(i) => newstatus(i) = car[i] BY <1>1, <1>2, DrawnFacts
<1>4. ~Wanted(i) => newstatus(i) = car[i] BY <1>1, <1>2, DrawnFacts
<1>5. early => newstatus(i) = car[i] BY <1>1, <1>3, <1>4, DrawnFacts
<1>6. ~early => (Wanted(i) <=> i \in Wrong(idx))
  BY <1>1, <1>2 DEF Wanted, oldstatus, Wrong
<1>7. Wanted(i) /\ ~Drawn(i) => update[i-1] > LOC_EL_MAX_UPDATE
  <2>1. update[i-1] \in Nat
    <3>1. i - 1 \in 0 .. Len(locElement) - 1 BY <1>1, GaugeOK DEF Elements
    <3>2. IsFiniteSet(DrawnUpTo(i-1))
      <4>1. DrawnUpTo(i-1) \in SUBSET Elements
        BY <1>1, GaugeOK DEF DrawnUpTo, Elements
      <4> QED BY <4>1, SetsFinite, FS_Subset
    <3> QED BY <3>1, <3>2, UpdateIsCount, FS_CardinalityType
  <2> QED BY <2>1, GaugeOK DEF Drawn, Allowed
<1> QED BY <1>2, <1>3, <1>4, <1>5, <1>6, <1>7

(* A frame that puts a steady icon off draws at least Share others.        *)
LEMMA FrameProgress ==
  ASSUME TypeOK, ~early, idx \in Buf
  PROVE LET Left == {i \in Wrong(idx) : ~Drawn(i)}
        IN Left = {} \/ Cardinality(Left) + Share <= Cardinality(Wrong(idx))
<1> DEFINE Left == {i \in Wrong(idx) : ~Drawn(i)}
<1>1. SUFFICES ASSUME NEW i \in Left
               PROVE Cardinality(Left) + Share <= Cardinality(Wrong(idx))
  OBVIOUS
<1>2. i \in Steady /\ i \in Elements /\ i \in Wrong(idx) /\ ~Drawn(i)
  BY DEF Wrong, Steady
<1>3. update[i-1] > LOC_EL_MAX_UPDATE BY <1>2, SteadyIcon
<1> DEFINE D == DrawnUpTo(i-1)
<1>4. update[i-1] = Cardinality(D)
  <2>1. i - 1 \in 0 .. Len(locElement) - 1 BY <1>2, GaugeOK DEF Elements
  <2> QED BY <2>1, UpdateIsCount
<1>5. D \in SUBSET Elements /\ \A j \in D : Drawn(j)
  BY <1>2, GaugeOK DEF DrawnUpTo, Elements
<1>6. IsFiniteSet(D) /\ Cardinality(D) \in Nat
  BY <1>5, SetsFinite, FS_Subset, FS_CardinalityType
<1>7. D \ Greedy \subseteq Wrong(idx) \ Left
  <2> SUFFICES ASSUME NEW j \in D, j \notin Greedy
               PROVE j \in Wrong(idx) \ Left
    OBVIOUS
  <2>1. j \in Elements /\ Drawn(j) /\ j \in Steady
    BY <1>5 DEF Steady
  <2>2. Wanted(j) BY <2>1, DrawnFacts
  <2>3. j \in Wrong(idx) BY <2>1, <2>2, SteadyIcon
  <2> QED BY <2>1, <2>3
<1> DEFINE W == Wrong(idx)
<1>8. IsFiniteSet(W) /\ Cardinality(W) \in Nat BY SetsFinite
<1>9. Left \in SUBSET W OBVIOUS
<1> HIDE DEF Left, D, W
<1>10. /\ IsFiniteSet(D \ Greedy)
       /\ Cardinality(D \ Greedy) = Cardinality(D) - Cardinality(D \cap Greedy)
  BY <1>6, FS_Difference
<1>11. Cardinality(D \cap Greedy) <= Cardinality(Greedy)
       /\ Cardinality(D \cap Greedy) \in Nat
  <2>1. D \cap Greedy \in SUBSET Greedy OBVIOUS
  <2> QED BY <2>1, SetsFinite, FS_Subset, FS_CardinalityType
<1>12. IsFiniteSet(Left) /\ Cardinality(Left) \in Nat
  BY <1>8, <1>9, FS_Subset, FS_CardinalityType
<1>13. /\ IsFiniteSet(W \ Left)
       /\ Cardinality(W \ Left) = Cardinality(W) - Cardinality(Left)
  <2>1. W \cap Left = Left BY <1>9
  <2> QED BY <1>8, <2>1, FS_Difference
<1>14. Cardinality(D \ Greedy) <= Cardinality(W \ Left)
  <2>1. D \ Greedy \in SUBSET (W \ Left) BY <1>7 DEF W
  <2> QED BY <2>1, <1>13, FS_Subset
<1>15. LOC_EL_MAX_UPDATE \in Nat /\ Cardinality(Greedy) \in Nat
  BY GaugeOK, SetsFinite
<1>16. Cardinality(Left) + Share <= Cardinality(W)
  <2>1. Cardinality(D) >= LOC_EL_MAX_UPDATE + 1
    BY <1>3, <1>4, <1>6, <1>15
  <2>2. Cardinality(D) - Cardinality(Greedy) <= Cardinality(D \ Greedy)
    BY <1>6, <1>10, <1>11, <1>15
  <2>3. Cardinality(D) - Cardinality(Greedy) <= Cardinality(W) - Cardinality(Left)
    BY <2>2, <1>6, <1>8, <1>10, <1>11, <1>12, <1>13, <1>14, <1>15
  <2> QED BY <2>1, <2>3, <1>6, <1>8, <1>12, <1>15 DEF Share
<1> QED BY <1>16 DEF W

(* How often buffer b has been drawn since the car last changed, and what  *)
(* n such frames have put right in it.                                     *)
Turns(b) == IF b = idx THEN calm \div 2 ELSE (calm + 1) \div 2
Progress(b, n) ==
  \/ Wrong(b) = {}
  \/ Share * n + Cardinality(Wrong(b)) <= Cardinality(Steady)
SettleInv == \A b \in Buf : Progress(b, Turns(b))

(* The flashing and the always drawn icons leave room for another one.     *)
RoomForSteady == Cardinality(Greedy) <= LOC_EL_MAX_UPDATE

(* What the proofs need of the products with Share.                        *)
LEMMA ShareFacts ==
  ASSUME RoomForSteady
  PROVE /\ Share \in Nat /\ Share >= 1
        /\ \A n \in Nat : Share * n \in Nat /\ Share * n >= n
        /\ \A n \in Nat : Share * (n + 1) = Share * n + Share
        /\ \A m, n \in Nat : m <= n => Share * m <= Share * n
<1>1. Share \in Nat /\ Share >= 1
  BY SetsFinite, GaugeOK DEF Share, RoomForSteady
<1>2. ASSUME NEW s \in Nat, s >= 1
      PROVE /\ \A n \in Nat : s * n \in Nat /\ s * n >= n
            /\ \A n \in Nat : s * (n + 1) = s * n + s
            /\ \A m, n \in Nat : m <= n => s * m <= s * n
  BY <1>2
<1> QED BY <1>1, <1>2

(* Enough frames put everything right.                                     *)
LEMMA Settled ==
  ASSUME RoomForSteady, NEW b, NEW n \in Nat, Progress(b, n),
         Share * n >= Cardinality(Steady)
  PROVE Wrong(b) = {}
<1>1. SUFFICES ASSUME Wrong(b) # {} PROVE FALSE OBVIOUS
<1>2. /\ Cardinality(Wrong(b)) \in Nat /\ IsFiniteSet(Wrong(b))
      /\ Cardinality(Steady) \in Nat
  BY SetsFinite
<1>3. Share * n \in Nat BY ShareFacts
<1>4. Cardinality(Wrong(b)) = 0 BY <1>1, <1>2, <1>3 DEF Progress
<1> QED BY <1>1, <1>2, <1>4, FS_EmptySet

(* calm stops at CalmBound: by then everything is right.                   *)
LEMMA CalmEnough ==
  ASSUME RoomForSteady, TypeOK, SettleInv, calm >= CalmBound, NEW b \in Buf
  PROVE Wrong(b) = {}
<1>1. Turns(b) \in Nat /\ Turns(b) >= Len(locElement) - 1
  BY GaugeOK DEF Turns, CalmBound, TypeOK
<1>2. Share * Turns(b) >= Turns(b) /\ Share * Turns(b) \in Nat
  BY <1>1, ShareFacts
<1>3. Share * Turns(b) >= Cardinality(Steady)
  <2>1. Cardinality(Steady) \in Nat /\ Cardinality(Steady) <= Len(locElement) - 1
    BY SetsFinite
  <2> QED BY <1>1, <1>2, <2>1, GaugeOK
<1> QED BY <1>1, <1>3, Settled DEF SettleInv

(* A frame while the car stands still, on the buffer it draws and on the   *)
(* other one.                                                              *)
LEMMA FrameWrong ==
  ASSUME RoomForSteady, TypeOK, RenderClGaugeScreen, car' = car, NEW b \in Buf
  PROVE /\ b # idx => Wrong(b)' = Wrong(b)
        /\ Wrong(idx) = {} /\ b = idx => Wrong(b)' = {}
        /\ b = idx => \/ Wrong(b)' = {}
                      \/ Cardinality(Wrong(b)') + Share
                           <= Cardinality(Wrong(idx))
<1>1. idx \in Buf BY IdxStep
<1>2. ASSUME NEW i \in Elements
      PROVE OldStatus'[i][b] = IF b = idx THEN newstatus(i) ELSE OldStatus[i][b]
  BY <1>1 DEF RenderClGaugeScreen, TypeOK
<1>3. Steady \subseteq Elements BY DEF Steady
<1>4. b # idx => Wrong(b)' = Wrong(b) BY <1>2, <1>3 DEF Wrong
<1>5. ASSUME b = idx, early PROVE Wrong(b)' = {}
  BY <1>2, <1>3, <1>5, SteadyIcon DEF Wrong
<1>6. ASSUME b = idx, ~early
      PROVE Wrong(b)' = {i \in Wrong(idx) : ~Drawn(i)}
  <2>1. ASSUME NEW i \in Steady
        PROVE newstatus(i) # car[i] <=> i \in Wrong(idx) /\ ~Drawn(i)
    <3>1. i \in Elements /\ (Wanted(i) <=> i \in Wrong(idx))
      BY <1>3, <1>6, SteadyIcon
    <3>2. CASE Drawn(i) BY <3>2, SteadyIcon
    <3>3. CASE ~Wanted(i) BY <3>1, <3>3, SteadyIcon
    <3>4. CASE Wanted(i) /\ ~Drawn(i)
      BY <3>1, <3>4, <1>6, DrawnFacts DEF oldstatus, Wrong
    <3> QED BY <3>2, <3>3, <3>4
  <2>2. Wrong(b)' = {i \in Steady : newstatus(i) # car[i]}
    BY <1>2, <1>3, <1>6 DEF Wrong
  <2>3. Wrong(idx) \subseteq Steady BY DEF Wrong
  <2> QED BY <2>1, <2>2, <2>3
<1>7. ~early => LET Left == {i \in Wrong(idx) : ~Drawn(i)}
                IN Left = {} \/ Cardinality(Left) + Share <= Cardinality(Wrong(idx))
  BY <1>1, FrameProgress
<1> QED BY <1>4, <1>5, <1>6, <1>7

(* A frame keeps the count of frames and the work they have done in step:  *)
(* a buffer drawn n times has at most Steady - n * Share icons wrong.      *)
LEMMA SettleStep ==
  ASSUME RoomForSteady
  PROVE TypeOK /\ SettleInv /\ [Next]_vars => SettleInv'
<1> SUFFICES ASSUME TypeOK, SettleInv, [Next]_vars PROVE SettleInv'
  OBVIOUS
<1>1. CASE UNCHANGED vars
  BY <1>1 DEF vars, SettleInv, Progress, Turns, Wrong, idx
<1>2. CASE RenderAppCluster
  <2>1. RenderClGaugeScreen /\ CarModelUpdate BY <1>2 DEF RenderAppCluster
  <2>2. idx \in Buf /\ idx' = 1 - idx BY <2>1, IdxStep
  <2> SUFFICES ASSUME NEW b \in Buf PROVE Progress(b, Turns(b))'
    BY DEF SettleInv
  <2>3. b = idx' <=> b # idx BY <2>2 DEF Buf, LOC_BUF_NUM
  <2>4. Turns(b)' = IF b # idx THEN calm' \div 2 ELSE (calm' + 1) \div 2
    BY <2>3 DEF Turns
  <2>5. calm \in Nat BY DEF TypeOK
  <2>6. CASE car' # car
    <3>1. calm' = 0 BY <2>1, <2>6 DEF CarModelUpdate
    <3>2. Turns(b)' = 0 BY <2>4, <3>1
    <3>3. Wrong(b)' \in SUBSET Steady BY DEF Wrong
    <3>4. Cardinality(Wrong(b)') \in Nat
          /\ Cardinality(Wrong(b)') <= Cardinality(Steady)
      BY <3>3, SetsFinite, FS_Subset, FS_CardinalityType
    <3>5. Share * 0 = 0 BY ShareFacts
    <3> QED BY <3>2, <3>4, <3>5, SetsFinite DEF Progress
  <2>7. CASE car' = car /\ calm >= CalmBound
    <3>1. Wrong(b) = {} BY <2>7, CalmEnough
    <3>2. Wrong(b)' = {}
      BY <3>1, <2>1, <2>7, FrameWrong
    <3> QED BY <3>2 DEF Progress
  <2>8. CASE car' = car /\ calm < CalmBound
    <3>1. calm' = calm + 1 BY <2>1, <2>8 DEF CarModelUpdate
    <3>2. CASE b # idx
      <4>1. Turns(b)' = Turns(b) BY <2>4, <3>1, <3>2 DEF Turns
      <4>2. Wrong(b)' = Wrong(b) BY <2>1, <2>8, <3>2, FrameWrong
      <4> QED BY <4>1, <4>2 DEF SettleInv, Progress
    <3>3. CASE b = idx
      <4>1. Turns(b)' = Turns(b) + 1 /\ Turns(b) \in Nat
        BY <2>4, <2>5, <3>1, <3>3 DEF Turns
      <4>2. \/ Wrong(b)' = {}
            \/ Cardinality(Wrong(b)') + Share <= Cardinality(Wrong(b))
        BY <2>1, <2>8, <3>3, FrameWrong
      <4>3. Wrong(b) = {} => Wrong(b)' = {}
        BY <2>1, <2>8, <3>3, FrameWrong
      <4>4. Progress(b, Turns(b)) BY DEF SettleInv
      <4>5. CASE Wrong(b)' = {} BY <4>5 DEF Progress
      <4>6. CASE Wrong(b)' # {}
        <5>1. Share * Turns(b) + Cardinality(Wrong(b)) <= Cardinality(Steady)
          BY <4>3, <4>4, <4>6 DEF Progress
        <5>2. Share * Turns(b)' = Share * Turns(b) + Share
          BY <4>1, ShareFacts
        <5>3. Wrong(b)' \in SUBSET Steady BY DEF Wrong
        <5>4. Cardinality(Wrong(b)') \in Nat
          BY <5>3, SetsFinite, FS_Subset, FS_CardinalityType
        <5>5. /\ Share \in Nat /\ Share * Turns(b) \in Nat
              /\ Cardinality(Wrong(b)) \in Nat /\ Cardinality(Steady) \in Nat
          BY <4>1, SetsFinite, ShareFacts
        <5>6. Share * Turns(b)' + Cardinality(Wrong(b)') <= Cardinality(Steady)
          BY <4>2, <4>6, <5>1, <5>2, <5>4, <5>5
        <5> QED BY <5>6 DEF Progress
      <4> QED BY <4>5, <4>6
    <3> QED BY <3>2, <3>3
  <2>9. CalmBound \in Nat BY GaugeOK DEF CalmBound
  <2> QED BY <2>5, <2>6, <2>7, <2>8, <2>9
<1> QED BY <1>1, <1>2 DEF Next

(* SettleFrames frames are enough for the share of each of them.           *)
LEMMA RoundUp ==
  ASSUME NEW s \in Nat, NEW h \in Nat, h >= 1
  PROVE (s + h - 1) \div h \in Nat /\ h * ((s + h - 1) \div h) >= s
<1> DEFINE q == (s + h - 1) \div h
<1>1. q \in Int /\ s + h - 1 = h * q + ((s + h - 1) % h)
      /\ (s + h - 1) % h \in 0 .. h - 1
  OBVIOUS
<1>2. q >= 0 OBVIOUS
<1> HIDE DEF q
<1>3. h * q >= s BY <1>1, <1>2
<1> QED BY <1>1, <1>2, <1>3 DEF q

(* The invariant gives the property: a steady icon that is remembered      *)
(* right is shown right.                                                   *)
LEMMA SettleImplies ==
  ASSUME RoomForSteady, TypeOK, FrameInv, RememberedIsShown, SettleInv
  PROVE IconsSettle
<1> SUFFICES ASSUME calm >= SettleFrames, locInit = 2, NEW b \in Buf,
                    NEW i \in Elements \ Greedy
             PROVE shown[b][i] = car[i]
  BY DEF IconsSettle
<1> DEFINE q == (Cardinality(Steady) + Share - 1) \div Share
<1>1. q \in Nat /\ Share * q >= Cardinality(Steady)
  BY SetsFinite, ShareFacts, RoundUp
<1>2. SettleFrames = 2 * q
  BY DEF SettleFrames, Share, Steady, LOC_BUF_NUM
<1> HIDE DEF q
<1>3. Turns(b) \in Nat /\ q <= Turns(b)
  BY <1>1, <1>2 DEF Turns, TypeOK
<1>4. Share * Turns(b) >= Cardinality(Steady)
  <2>1. Share * q <= Share * Turns(b) BY <1>1, <1>3, ShareFacts
  <2>2. Share * q \in Nat /\ Share * Turns(b) \in Nat
    BY <1>1, <1>3, ShareFacts
  <2> QED BY <1>1, <2>1, <2>2, SetsFinite
<1>5. Wrong(b) = {} BY <1>3, <1>4, Settled DEF SettleInv
<1>6. OldStatus[i][b] = car[i] BY <1>5 DEF Wrong, Steady
<1>7. shown[b][i] = OldStatus[i][b]
  BY DEF RememberedIsShown, Painted, Greedy
<1> QED BY <1>6, <1>7

(* The update limit starves nobody, for every icon table that leaves room  *)
(* for a steady icon in a frame (the table of app_cl_gauge.c has three     *)
(* flashing icons and one that is always drawn, the limit is 4): when the  *)
(* car has not changed for SettleFrames frames, both buffers show every    *)
(* steady icon right (locRenderElements).                                  *)
THEOREM IconsSettleHolds ==
  ASSUME RoomForSteady PROVE Spec => []IconsSettle
<1>1. Init => FrameInv /\ RememberedIsShown /\ SettleInv
  <2>1. Init => FrameInv /\ RememberedIsShown
    BY DEF Init, FrameInv, RememberedIsShown, Painted
  <2>2. ASSUME Init PROVE SettleInv
    <3>1. calm = 0 BY <2>2 DEF Init
    <3>2. ASSUME NEW b \in Buf PROVE Progress(b, Turns(b))
      <4>1. Turns(b) = 0 BY <3>1 DEF Turns
      <4>2. Share * 0 = 0 BY ShareFacts
      <4> QED BY <4>1, <4>2, SetsFinite DEF Progress
    <3> QED BY <3>2 DEF SettleInv
  <2> QED BY <2>1, <2>2
<1>2. TypeOK /\ FrameInv /\ RememberedIsShown /\ SettleInv /\ [Next]_vars
        => (FrameInv /\ RememberedIsShown /\ SettleInv)'
  BY FrameStep, RememberStep, SettleStep
<1>3. TypeOK /\ FrameInv /\ RememberedIsShown /\ SettleInv => IconsSettle
  BY SettleImplies
<1> QED BY <1>1, <1>2, <1>3, TypeCorrect, PTL DEF Spec
=============================================================================
