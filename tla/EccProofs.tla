----------------------------- MODULE EccProofs ------------------------------
(***************************************************************************)
(* What holds of the ECC set-up for every board, table and memory: the     *)
(* four channels share an area exactly, a fill is over before the next one *)
(* starts, what must have a code gets one, and nothing else is erased.     *)
(***************************************************************************)
EXTENDS EccInit, TLAPS

(* A number four times d and a little more leaves the little more.         *)
LEMMA FourTimes ==
  ASSUME NEW d \in Nat, NEW r \in Nat, r < d
  PROVE  (4 * d + r) % d = r
<1> DEFINE a == 4 * d + r
           q == a \div d
           s == a % d
<1>1. d > 0 /\ a \in Nat
  OBVIOUS
<1>2. q \in Int /\ s \in 0 .. d - 1 /\ a = d * q + s
  BY <1>1, Z3T(30)
<1>3. q = 4
  <2>1. CASE q > 4
    <3>1. q >= 5
      BY <1>2, <2>1
    <3>2. d * q >= d * 5
      BY <1>1, <1>2, <3>1, Z3T(30)
    <3> QED
      BY <1>1, <1>2, <3>2
  <2>2. CASE q < 4
    <3>1. q <= 3
      BY <1>2, <2>2
    <3>2. d * q <= d * 3
      BY <1>1, <1>2, <3>1, Z3T(30)
    <3> QED
      BY <1>1, <1>2, <3>2
  <2> QED
    BY <1>2, <2>1, <2>2
<1> QED
  BY <1>2, <1>3

(* The split of exec_fillDMA: for every length of whole units from sixteen *)
(* units on, the channels' parts follow on each other, the first one       *)
(* starts where the area starts and the last one ends where it ends.       *)
THEOREM FillExact ==
  ASSUME NEW a \in Nat, NEW len \in Nat, len >= 16 * Unit, len % Unit = 0
  PROVE  /\ FillDst(a, len, 1) = a
         /\ \A c \in 1 .. 3 :
              FillDst(a, len, c + 1) = FillDst(a, len, c) + FillLen(len, c)
         /\ FillDst(a, len, 4) + FillLen(len, 4) = a + len
<1> DEFINE d == dmalen(len)
           q == (len \div 4) \div 64
           r == len - 4 * d
<1>1. d = 64 * q /\ q \in Nat /\ q >= 4
  BY DEF dmalen, Unit, DMA_PARALLEL_CH
<1>2. r \in Nat /\ r % 64 = 0 /\ r <= 192
  BY <1>1 DEF Unit
<1>3. len = 4 * d + r /\ r < d /\ d \in Nat
  BY <1>1, <1>2
<1> HIDE DEF d, r, q
<1>4. len % d = r
  BY <1>2, <1>3, FourTimes
<1>5. rem_len(len) = r
  BY <1>2, <1>4 DEF rem_len, d, Unit
<1>6. /\ FillDst(a, len, 1) = a /\ FillDst(a, len, 2) = a + d
      /\ FillDst(a, len, 3) = a + 2 * d /\ FillDst(a, len, 4) = a + 3 * d
  BY <1>3 DEF FillDst, d
<1>7. /\ FillLen(len, 1) = d /\ FillLen(len, 2) = d /\ FillLen(len, 3) = d
      /\ FillLen(len, 4) = d + r
  BY <1>5 DEF FillLen, d, DMA_PARALLEL_CH
<1>8. /\ FillDst(a, len, 4) + FillLen(len, 4) = a + len
      /\ FillDst(a, len, 2) = FillDst(a, len, 1) + FillLen(len, 1)
      /\ FillDst(a, len, 3) = FillDst(a, len, 2) + FillLen(len, 2)
      /\ FillDst(a, len, 4) = FillDst(a, len, 3) + FillLen(len, 3)
  BY <1>2, <1>3, <1>6, <1>7
<1>9. ASSUME NEW c \in 1 .. 3
      PROVE  FillDst(a, len, c + 1) = FillDst(a, len, c) + FillLen(len, c)
  <2>1. c = 1 \/ c = 2 \/ c = 3
    OBVIOUS
  <2> QED
    BY <1>8, <2>1
<1> QED
  BY <1>6, <1>8, <1>9
-----------------------------------------------------------------------------
(* FillsInTurn is not inductive: while a fill is on, the poll loop's       *)
(* result must hold every channel that has units to go, or the loop could  *)
(* end too early.                                                          *)
FillInv ==
  /\ DOMAIN left = Ch /\ sec \subseteq {Number(c) : c \in Ch}
  /\ FillsInTurn
  /\ fill = "busy" => \A c \in Ch : left[c] # 0 => c \in result

LEMMA InitInv == Init => FillInv
  BY DEF Init, FillInit, FillInv, FillsInTurn

LEMMA StepInv == FillInv /\ [Next]_vars => FillInv'
<1> SUFFICES ASSUME FillInv, [Next]_vars PROVE FillInv'
  OBVIOUS
<1> USE DEF FillInv, FillsInTurn
<1>1. CASE UNCHANGED fillVars
  BY <1>1 DEF fillVars
<1>2. ASSUME NEW d, NEW len, exec_fillDMA(d, len) PROVE FillInv'
  BY <1>2 DEF exec_fillDMA
<1>3. ASSUME NEW c \in Ch, ChannelMoves(c) PROVE FillInv'
  BY <1>3 DEF ChannelMoves
<1>4. ASSUME NEW c \in Ch, ChannelFails(c) PROVE FillInv'
  BY <1>4 DEF ChannelFails
<1>5. CASE PollNext
  BY <1>5 DEF PollNext, StillBusy, Done
<1>6. CASE PollAgain
  BY <1>6 DEF PollAgain
<1>7. CASE PollEnd
  <2>1. \A c \in Ch : left[c] = 0
    BY <1>7 DEF PollEnd, StillBusy, Done
  <2>2. SecCleared = {}
    BY DEF SecCleared, Number, DMACH, DMA_PARALLEL_CH, Ch
  <2> QED
    BY <1>7, <2>1, <2>2 DEF PollEnd
<1>8. CASE PollError
  BY <1>8 DEF PollError
<1>9. CASE Start
  BY <1>1, <1>9 DEF Start
<1>10. CASE Single
  <2>1. CASE SingleFill
    BY <1>2, <2>1 DEF SingleFill
  <2>2. CASE SingleArea \/ SingleFillCpu
    BY <2>2 DEF SingleArea, SingleFillCpu
  <2>3. CASE SingleSkip \/ SingleEnd
    BY <1>1, <2>3 DEF SingleSkip, SingleEnd
  <2> QED
    BY <1>10, <2>1, <2>2, <2>3 DEF Single
<1>11. CASE Dual
  <2>1. CASE DualSet
    BY <2>1 DEF DualSet
  <2>2. CASE DualFill
    BY <1>2, <2>2 DEF DualFill
  <2>3. CASE DualSkip \/ DualEnd
    BY <1>1, <2>3 DEF DualSkip, DualEnd
  <2> QED
    BY <1>11, <2>1, <2>2, <2>3 DEF Dual
<1>12. CASE FillReturns
  BY <1>12 DEF FillReturns
<1>13. CASE FillPanics
  BY <1>1, <1>13 DEF FillPanics
<1>14. CASE UNCHANGED vars
  BY <1>1, <1>14 DEF vars, fillVars
<1> QED
  BY <1>3, <1>4, <1>5, <1>6, <1>7, <1>8, <1>9, <1>10, <1>11, <1>12, <1>13,
     <1>14 DEF Next, Cpu, Channel, Polling, Poll

(* For every memory, table and board: between two fills no channel is at   *)
(* work and none is marked as secure (end_fillDMA).                        *)
THEOREM FillsInTurnHolds == Spec => []FillsInTurn
<1>1. FillInv => FillsInTurn
  BY DEF FillInv
<1> QED
  BY InitInv, StepInv, <1>1, PTL DEF Spec
-----------------------------------------------------------------------------
(* Where the channels write.                                               *)
LEMMA Multiple ==
  ASSUME NEW x \in Nat, x % Unit = 0, NEW y \in Nat
  PROVE  x * y \in Nat /\ (x * y) % Unit = 0
<1>1. PICK k \in Nat : x = 64 * k
  <2>1. x \div 64 \in Nat /\ x = 64 * (x \div 64)
    BY DEF Unit
  <2> QED
    BY <2>1
<1>2. k * y \in Nat /\ x * y = 64 * (k * y)
  BY <1>1, Z3T(30)
<1>3. \A z \in Nat : 64 * z \in Nat /\ (64 * z) % 64 = 0
  OBVIOUS
<1> QED
  BY <1>2, <1>3 DEF Unit

(* A channel's part of an area, in whole units, lies in the area.          *)
LEMMA PartInside ==
  ASSUME NEW a \in Nat, a % Unit = 0, NEW len, SharedExactly(len),
         NEW c \in Ch
  PROVE  /\ FillDst(a, len, c) \in Nat /\ FillDst(a, len, c) % Unit = 0
         /\ FillLen(len, c) \div Unit \in Nat
         /\ FillDst(a, len, c) >= a
         /\ FillDst(a, len, c) + Unit * (FillLen(len, c) \div Unit) <= a + len
<1> DEFINE d == dmalen(len)
           r == rem_len(len)
<1>1. len \in Nat /\ d \in Nat /\ d > 0 /\ d % 64 = 0 /\ 4 * d + r = len
  <2>1. len \in Nat
    BY DEF SharedExactly
  <2>2. d \in Nat /\ d % 64 = 0
    BY <2>1 DEF dmalen, Unit, DMA_PARALLEL_CH
  <2> QED
    BY <2>1, <2>2 DEF SharedExactly, DMA_PARALLEL_CH
<1>2. r \in Nat /\ r % 64 = 0
  <2>1. len % d \in Nat
    BY <1>1
  <2> HIDE DEF d
  <2>2. r = (((len % d) + 63) \div 64) * 64
    BY DEF rem_len, d, Unit
  <2> QED
    BY <2>1, <2>2
<1>3. c = 1 \/ c = 2 \/ c = 3 \/ c = 4
  BY DEF Ch, DMA_PARALLEL_CH
<1>4. \/ FillDst(a, len, c) = a /\ FillLen(len, c) = d
      \/ FillDst(a, len, c) = a + d /\ FillLen(len, c) = d
      \/ FillDst(a, len, c) = a + 2 * d /\ FillLen(len, c) = d
      \/ FillDst(a, len, c) = a + 3 * d /\ FillLen(len, c) = d + r
  <2>1. /\ FillDst(a, len, 1) = a /\ FillDst(a, len, 2) = a + d
        /\ FillDst(a, len, 3) = a + 2 * d /\ FillDst(a, len, 4) = a + 3 * d
    BY <1>1 DEF FillDst
  <2>2. /\ FillLen(len, 1) = d /\ FillLen(len, 2) = d
        /\ FillLen(len, 3) = d /\ FillLen(len, 4) = d + r
    BY DEF FillLen, DMA_PARALLEL_CH
  <2> QED
    BY <1>3, <2>1, <2>2
<1> HIDE DEF d, r
<1> QED
  BY <1>1, <1>2, <1>4 DEF Unit

(* Every unit a channel has still to write is to be filled.                *)
WriteInv ==
  /\ tab \in Tables /\ n \in Nat
  /\ pc = "fill" => /\ tab.build = "single" /\ n + 1 \in DOMAIN tab.areas
                    /\ Area.enable /\ Area.fill
  /\ DOMAIN mem = Memory
  /\ dst \in [Ch -> Nat] /\ left \in [Ch -> Nat]
  /\ \A c \in Ch : dst[c] % Unit = 0
                   /\ Span(dst[c], Unit * left[c]) \subseteq Wanted
  /\ OnlyFusaZeroed

(* No table has two split areas.                                           *)
OneSplitOnly ==
  \A t \in Tables : t.build = "dual" => \A i, j \in t.split : i = j

LEMMA SameWanted ==
  ASSUME UNCHANGED <<prr, tab>>
  PROVE  Wanted' = Wanted
  BY DEF Wanted, EccOf, AreaSpan, ExtraSpan, Bases

(* A fill of an area that is to be filled keeps the channels inside.       *)
LEMMA FillInside ==
  ASSUME NEW a \in Nat, a % Unit = 0, NEW len, SharedExactly(len),
         Span(a, len) \subseteq Wanted, exec_fillDMA(a, len),
         UNCHANGED <<prr, tab>>
  PROVE  /\ dst' \in [Ch -> Nat] /\ left' \in [Ch -> Nat]
         /\ \A c \in Ch : dst'[c] % Unit = 0
                          /\ Span(dst'[c], Unit * left'[c]) \subseteq Wanted'
<1>1. \A c \in Ch : /\ dst'[c] = FillDst(a, len, c)
                    /\ left'[c] = FillLen(len, c) \div Unit
  BY DEF exec_fillDMA
<1>2. \A c \in Ch : dst'[c] \in Nat /\ left'[c] \in Nat
  BY <1>1, PartInside
<1>3. dst' \in [Ch -> Nat] /\ left' \in [Ch -> Nat]
  BY <1>2 DEF exec_fillDMA
<1>4. ASSUME NEW c \in Ch
      PROVE  dst'[c] % Unit = 0 /\ Span(dst'[c], Unit * left'[c]) \subseteq Span(a, len)
  <2> DEFINE b == dst'[c]
             e == Unit * left'[c]
  <2>1. b \in Nat /\ e \in Nat /\ b % Unit = 0 /\ b >= a /\ b + e <= a + len
    BY <1>1, <1>2, PartInside DEF Unit
  <2>2. len \in Nat
    BY DEF SharedExactly
  <2> HIDE DEF b, e
  <2>3. Span(b, e) \subseteq Span(a, len)
    BY <2>1, <2>2, FillOK DEF Span, Memory, Unit
  <2> QED
    BY <2>1, <2>3 DEF b, e
<1> QED
  BY <1>3, <1>4, SameWanted

(* An area of the single-channel table that is enabled and filled.         *)
LEMMA AreaWanted ==
  ASSUME tab.build = "single", tab \in Tables, n + 1 \in DOMAIN tab.areas,
         Area.enable, Area.fill
  PROVE  /\ Area.addr \in Nat /\ Area.addr % Unit = 0
         /\ SharedExactly(Area.size)
         /\ Span(Area.addr, Area.size) \subseteq Wanted
<1>1. Area \in AreaEntry
  BY TablesOK DEF Area
<1> QED
  BY <1>1, TablesOK DEF Area, AreaEntry, Wanted

(* A round of the dual-channel loop that fills.                            *)
LEMMA RoundWanted ==
  ASSUME tab.build = "dual", OneSplitOnly, tab \in Tables, n \in Nat,
         Filled
  PROVE  /\ J = 0 =>
              /\ Base + AreaBytes * I \in Nat
              /\ (Base + AreaBytes * I) % Unit = 0
              /\ SharedExactly(AreaBytes)
              /\ Span(Base + AreaBytes * I, AreaBytes) \subseteq Wanted
         /\ J # 0 =>
              /\ Base + AreaBytes * I + ExtraBytes * (J - 1) \in Nat
              /\ (Base + AreaBytes * I + ExtraBytes * (J - 1)) % Unit = 0
              /\ SharedExactly(ExtraBytes)
              /\ Span(Base + AreaBytes * I + ExtraBytes * (J - 1), ExtraBytes)
                   \subseteq Wanted
<1>1. AREA_NUM \in Nat \ {0} /\ I \in Nat /\ J \in Nat
  <2>1. AREA_NUM \in Nat \ {0} /\ 2 * (AREA_NUM + 1) \in Nat \ {0}
    BY EccOK
  <2>2. \A x \in Nat, y \in Nat \ {0} : x \div y \in Nat /\ x % y \in Nat
    OBVIOUS
  <2> QED
    BY <2>1, <2>2 DEF I, J
<1>2. /\ SharedExactly(AreaBytes) /\ SharedExactly(ExtraBytes)
      /\ AreaBytes \in Nat /\ AreaBytes % Unit = 0
      /\ ExtraBytes \in Nat /\ ExtraBytes % Unit = 0
      /\ Base \in Nat /\ Base % Unit = 0
  <2>1. SharedExactly(AreaBytes) /\ SharedExactly(ExtraBytes)
    BY TablesOK DEF AreaBytes
  <2>2. Base \in Nat /\ Base % Unit = 0
    <3>1. ECC_BASE2 \in Nat /\ ECC_BASE2 % 64 = 0
      BY TablesOK, EccOK DEF Unit
    <3>2. 0 \in Nat /\ 0 % 64 = 0
      OBVIOUS
    <3>3. Base = 0 \/ Base = ECC_BASE2
      BY DEF Base
    <3> QED
      BY <3>1, <3>2, <3>3 DEF Unit
  <2> QED
    BY <2>1, <2>2 DEF SharedExactly
<1>3. AreaBytes * I \in Nat /\ (AreaBytes * I) % Unit = 0
  BY <1>1, <1>2, Multiple
<1>4. CASE J = 0
  <2>1. Base + AreaBytes * I \in Nat /\ (Base + AreaBytes * I) % Unit = 0
    BY <1>2, <1>3 DEF Unit
  <2>2. Span(Base + AreaBytes * I, AreaBytes) \subseteq AreaSpan(I)
    BY DEF Filled, AreaSpan
  <2>3. I \in (tab.areaEcc \cap tab.areaFill) \ tab.split
    BY <1>4 DEF Filled, PlainArea
  <2>4. AreaSpan(I) \subseteq Wanted
    BY <2>3 DEF Wanted, EccOf
  <2> QED
    BY <1>2, <1>4, <2>1, <2>2, <2>4
<1>5. CASE J # 0
  <2>1. J - 1 \in Nat
    BY <1>1, <1>5
  <2>2. /\ ExtraBytes * (J - 1) \in Nat
        /\ (ExtraBytes * (J - 1)) % Unit = 0
    BY <1>2, <2>1, Multiple
  <2>3. /\ Base + AreaBytes * I + ExtraBytes * (J - 1) \in Nat
        /\ (Base + AreaBytes * I + ExtraBytes * (J - 1)) % Unit = 0
    BY <1>2, <1>3, <2>2 DEF Unit
  <2>4. Span(Base + AreaBytes * I + ExtraBytes * (J - 1), ExtraBytes)
          \subseteq ExtraSpan(I, J - 1)
    BY DEF Filled, ExtraSpan
  <2>5. /\ I \in {i \in tab.split : \A j \in tab.split : i <= j}
        /\ J - 1 \in tab.extraEcc \cap tab.extraFill
    BY <1>1, <1>5 DEF Filled, OneSplitOnly
  <2>6. ExtraSpan(I, J - 1) \subseteq Wanted
    BY <2>5 DEF Wanted, EccOf
  <2> QED
    BY <1>2, <1>5, <2>3, <2>4, <2>6
<1> QED
  BY <1>4, <1>5

LEMMA WriteInit == Init => WriteInv
<1> SUFFICES ASSUME Init PROVE WriteInv
  OBVIOUS
<1>1. \A c \in Ch : dst[c] = 0 /\ left[c] = 0
  BY DEF Init, FillInit
<1>2. Span(0, Unit * 0) = {}
  BY FillOK DEF Span, Memory, Unit
<1>3. OnlyFusaZeroed
  BY DEF Init, FillInit, OnlyFusaZeroed
<1> QED
  BY <1>1, <1>2, <1>3 DEF Init, FillInit, WriteInv, Unit

(* Steps that leave channels and memory alone.                             *)
LEMMA WriteQuiet ==
  ASSUME WriteInv, UNCHANGED <<mem, dst, left, prr, tab>>, n' \in Nat,
         pc' = "fill" => /\ tab.build = "single" /\ n' + 1 \in DOMAIN tab.areas
                         /\ tab.areas[n' + 1].enable /\ tab.areas[n' + 1].fill
  PROVE  WriteInv'
<1>1. Wanted' = Wanted
  BY SameWanted
<1>2. OnlyFusaZeroed'
  BY <1>1 DEF WriteInv, OnlyFusaZeroed
<1> QED
  BY <1>1, <1>2 DEF WriteInv, Area

LEMMA WriteMoves ==
  ASSUME WriteInv, NEW c \in Ch, ChannelMoves(c), UNCHANGED <<prr, tab, pc, n>>
  PROVE  WriteInv'
<1> DEFINE u == dst[c] \div Unit
<1>1. Wanted' = Wanted
  BY SameWanted
<1>2. dst[c] \in Nat /\ left[c] \in Nat /\ left[c] > 0 /\ dst[c] % Unit = 0
  BY DEF WriteInv, ChannelMoves
<1>3. u \in Memory => u \in Wanted
  <2>1. u * Unit = dst[c]
    BY <1>2 DEF Unit
  <2>2. u \in Memory => u \in Span(dst[c], Unit * left[c])
    BY <1>2, <2>1 DEF Span, Unit
  <2> QED
    BY <2>2 DEF WriteInv
<1>4. OnlyFusaZeroed' /\ DOMAIN mem' = Memory
  BY <1>1, <1>3 DEF WriteInv, OnlyFusaZeroed, ChannelMoves
<1>5. /\ dst' = [dst EXCEPT ![c] = dst[c] + Unit]
      /\ left' = [left EXCEPT ![c] = left[c] - 1]
  BY DEF ChannelMoves
<1>6. dst' \in [Ch -> Nat] /\ left' \in [Ch -> Nat]
  BY <1>2, <1>5 DEF WriteInv, Unit
<1>7. ASSUME NEW b \in Ch
      PROVE  dst'[b] % Unit = 0 /\ Span(dst'[b], Unit * left'[b]) \subseteq Wanted
  <2>1. CASE b # c
    BY <1>5, <2>1 DEF WriteInv
  <2>2. CASE b = c
    <3>1. dst'[b] = dst[c] + Unit /\ left'[b] = left[c] - 1
      BY <1>5, <2>2 DEF WriteInv
    <3>2. Span(dst[c] + Unit, Unit * (left[c] - 1))
            \subseteq Span(dst[c], Unit * left[c])
      BY <1>2, FillOK DEF Span, Unit, Memory
    <3>3. (dst[c] + Unit) % Unit = 0
      BY <1>2 DEF Unit
    <3> QED
      BY <3>1, <3>2, <3>3 DEF WriteInv
  <2> QED
    BY <2>1, <2>2
<1> QED
  BY <1>1, <1>4, <1>6, <1>7 DEF WriteInv, Area

(* A fill starts.                                                          *)
LEMMA WriteStarts ==
  ASSUME WriteInv, NEW a \in Nat, a % Unit = 0, NEW len, SharedExactly(len),
         Span(a, len) \subseteq Wanted, exec_fillDMA(a, len),
         UNCHANGED <<prr, tab, n>>, pc' = "wait"
  PROVE  WriteInv'
<1>1. Wanted' = Wanted /\ mem' = mem
  BY SameWanted DEF exec_fillDMA
<1>2. OnlyFusaZeroed'
  BY <1>1 DEF WriteInv, OnlyFusaZeroed
<1> QED
  BY <1>1, <1>2, FillInside DEF WriteInv

LEMMA WriteStep == OneSplitOnly /\ WriteInv /\ [Next]_vars => WriteInv'
<1> SUFFICES ASSUME OneSplitOnly, WriteInv, [Next]_vars PROVE WriteInv'
  OBVIOUS
<1>1. n \in Nat /\ n + 1 \in Nat /\ tab \in Tables
  BY DEF WriteInv
<1>2. CASE Start
  BY <1>1, <1>2, WriteQuiet DEF Start, fillVars
<1>3. CASE Single
  <2>1. CASE SingleSkip
    BY <1>1, <2>1, WriteQuiet DEF SingleSkip, MoreAreas, fillVars
  <2>2. CASE SingleArea
    <3>1. n + 1 \in DOMAIN tab.areas
      <4>1. tab.areas \in Seq(AreaEntry)
        BY <1>1, <2>2, TablesOK DEF SingleArea, MoreAreas
      <4> QED
        BY <1>1, <2>2, <4>1 DEF SingleArea, MoreAreas
    <3> QED
      BY <1>1, <2>2, <3>1, WriteQuiet DEF SingleArea, MoreAreas, Area
  <2>3. CASE SingleFill
    <3>1. /\ tab.build = "single" /\ n + 1 \in DOMAIN tab.areas
          /\ Area.enable /\ Area.fill
      BY <2>3 DEF SingleFill, WriteInv
    <3> QED
      BY <1>1, <2>3, <3>1, AreaWanted, WriteStarts DEF SingleFill
  <2>4. CASE SingleFillCpu
    <3>1. Span(Area.addr, Area.size) \subseteq Wanted
      BY <1>1, <2>4, AreaWanted DEF SingleFillCpu, WriteInv
    <3>2. Wanted' = Wanted
      BY <2>4, SameWanted DEF SingleFillCpu
    <3>3. OnlyFusaZeroed' /\ DOMAIN mem' = Memory
      BY <2>4, <3>1, <3>2 DEF SingleFillCpu, OnlyFusaZeroed, WriteInv
    <3> QED
      BY <1>1, <2>4, <3>2, <3>3 DEF SingleFillCpu, WriteInv
  <2>5. CASE SingleEnd
    BY <1>1, <2>5, WriteQuiet DEF SingleEnd, fillVars
  <2> QED
    BY <1>3, <2>1, <2>2, <2>3, <2>4, <2>5 DEF Single
<1>4. CASE Dual
  <2>1. CASE DualSet
    BY <1>1, <2>1, WriteQuiet DEF DualSet
  <2>2. CASE DualFill
    <3>1. tab.build = "dual" /\ Filled
      BY <2>2 DEF DualFill
    <3>2. CASE J = 0
      BY <1>1, <2>2, <3>1, <3>2, RoundWanted, WriteStarts DEF DualFill
    <3>3. CASE J # 0
      BY <1>1, <2>2, <3>1, <3>3, RoundWanted, WriteStarts DEF DualFill
    <3> QED
      BY <3>2, <3>3
  <2>3. CASE DualSkip
    BY <1>1, <2>3, WriteQuiet DEF DualSkip, fillVars
  <2>4. CASE DualEnd
    BY <1>1, <2>4, WriteQuiet DEF DualEnd, fillVars
  <2> QED
    BY <1>4, <2>1, <2>2, <2>3, <2>4 DEF Dual
<1>5. CASE FillReturns
  BY <1>1, <1>5, WriteQuiet DEF FillReturns
<1>6. CASE FillPanics
  BY <1>1, <1>6, WriteQuiet DEF FillPanics, fillVars
<1>7. CASE Polling
  <2>1. UNCHANGED <<mem, dst, left, prr, tab, pc, n>>
    BY <1>7 DEF Polling, Poll, PollNext, PollAgain, PollEnd, PollError
  <2> QED
    BY <1>1, <2>1, WriteQuiet DEF WriteInv, Area
<1>8. ASSUME NEW c \in Ch, Channel(c) PROVE WriteInv'
  <2>1. CASE ChannelMoves(c)
    BY <1>8, <2>1, WriteMoves DEF Channel
  <2>2. CASE ChannelFails(c)
    BY <1>1, <1>8, <2>2, WriteQuiet DEF Channel, ChannelFails, WriteInv, Area
  <2> QED
    BY <1>8, <2>1, <2>2 DEF Channel
<1>9. CASE UNCHANGED vars
  BY <1>1, <1>9, WriteQuiet DEF vars, WriteInv, Area
<1> QED
  BY <1>2, <1>3, <1>4, <1>5, <1>6, <1>7, <1>8, <1>9 DEF Next, Cpu

(* For every memory, every board and every table with at most one split    *)
(* area, whatever the channels do: no unit is overwritten that is not to   *)
(* be filled (exec_fillDMA, single_ecc_init, dram_dual_ecc_init).          *)
THEOREM OnlyFusaZeroedHolds ==
  ASSUME OneSplitOnly
  PROVE  Spec => []OnlyFusaZeroed
<1>1. WriteInv => OnlyFusaZeroed
  BY DEF WriteInv
<1>2. WriteInv /\ [Next]_vars => WriteInv'
  BY WriteStep
<1> QED
  BY WriteInit, <1>1, <1>2, PTL DEF Spec
-----------------------------------------------------------------------------
(***************************************************************************)
(* That everything is filled.  The rounds of dram_dual_ecc_init, by their  *)
(* number.                                                                 *)
(***************************************************************************)
RoundI(m) == m \div (2 * (AREA_NUM + 1))
RoundJ(m) == (m \div 2) % (AREA_NUM + 1)
RoundBase(m) == IF m % 2 = 0 THEN 0 ELSE ECC_BASE2
RoundFilled(m) ==
  /\ RoundBase(m) \in Bases
  /\ IF RoundJ(m) = 0
     THEN RoundI(m) \in (tab.areaEcc \cap tab.areaFill) \ tab.split
     ELSE RoundI(m) \in tab.split
          /\ RoundJ(m) - 1 \in tab.extraEcc \cap tab.extraFill
RoundSpan(m) ==
  IF RoundJ(m) = 0
  THEN Span(RoundBase(m) + AreaBytes * RoundI(m), AreaBytes)
  ELSE Span(RoundBase(m) + AreaBytes * RoundI(m)
              + ExtraBytes * (RoundJ(m) - 1), ExtraBytes)

(* The area whose fill is under way, and the areas that are behind it.     *)
Current == IF tab.build = "single" THEN Span(Area.addr, Area.size)
                                   ELSE RoundSpan(n)
Coded(S) == \A u \in S : mem[u] = "coded"
Behind ==
  /\ tab.build = "single" =>
       \A k \in 1 .. n :
         tab.areas[k].enable /\ tab.areas[k].fill =>
           Coded(Span(tab.areas[k].addr, tab.areas[k].size))
  /\ tab.build = "dual" =>
       \A m \in 0 .. n - 1 : RoundFilled(m) => Coded(RoundSpan(m))

(* What a channel has still to write.                                      *)
Pending(c) == Span(dst[c], Unit * left[c])

(* ECC covers whatever a channel writes; an area is covered before it is   *)
(* filled; what is behind has its code; and what is under way has it or a  *)
(* channel will still write it.                                            *)
CodedInv ==
  /\ \A c \in Ch : Pending(c) \subseteq ecc
  /\ pc \in {"start", "set"} => n = 0 /\ ecc = {}
  /\ pc \in {"set", "area", "fill", "wait"} => tab.build \in {"single", "dual"}
  /\ pc = "set" => tab.build = "dual"
  /\ tab.build = "dual" /\ pc \in {"area", "wait", "ret"} => Wanted \subseteq ecc
  /\ tab.build = "single" /\ pc \in {"fill", "wait"} =>
       n + 1 \in DOMAIN tab.areas /\ Current \subseteq ecc
  /\ Behind
  /\ pc = "wait" =>
       \A u \in Current : mem[u] = "coded" \/ \E c \in Ch : u \in Pending(c)
  /\ pc = "ret" =>
       /\ tab.build = "single" => n = Len(tab.areas)
       /\ tab.build = "dual" => n = Rounds

LEMMA CodedInit == Init => CodedInv
<1> SUFFICES ASSUME Init PROVE CodedInv
  OBVIOUS
<1>1. \A c \in Ch : dst[c] = 0 /\ left[c] = 0
  BY DEF Init, FillInit
<1>2. Span(0, Unit * 0) = {}
  BY FillOK DEF Span, Memory, Unit
<1>3. Behind
  BY DEF Init, Behind
<1> QED
  BY <1>1, <1>2, <1>3 DEF Init, FillInit, CodedInv, Pending, Unit

(* A quotient and a remainder are what they were put together from.        *)
LEMMA DivMod ==
  ASSUME NEW d \in Nat \ {0}, NEW q \in Nat, NEW r \in 0 .. d - 1
  PROVE  d * q + r \in Nat /\ (d * q + r) \div d = q /\ (d * q + r) % d = r
<1> DEFINE a == d * q + r
           x == a \div d
           y == a % d
<1>1. d * q \in Nat /\ a \in Nat
  BY Z3T(30)
<1>2. x \in Int /\ y \in 0 .. d - 1 /\ a = d * x + y
  BY <1>1, Z3T(30)
<1> HIDE DEF x, y
<1>3. x = q
  <2>1. CASE x >= q + 1
    <3>1. d * x >= d * (q + 1) /\ d * (q + 1) = d * q + d /\ d * x \in Int
      BY <1>2, <2>1, Z3T(30)
    <3> QED
      BY <1>1, <1>2, <3>1
  <2>2. CASE q >= x + 1
    <3>1. d * q >= d * (x + 1) /\ d * (x + 1) = d * x + d /\ d * x \in Int
      BY <1>2, <2>2, Z3T(30)
    <3> QED
      BY <1>1, <1>2, <3>1
  <2> QED
    BY <1>2, <2>1, <2>2
<1>4. y = r
  BY <1>1, <1>2, <1>3
<1> QED
  BY <1>1, <1>3, <1>4 DEF x, y

(* The round in which area i, as a whole if j is 0, is looked at.          *)
LEMMA RoundOf ==
  ASSUME NEW i \in 0 .. AREA_NUM - 1, NEW j \in 0 .. AREA_NUM, NEW b \in 0 .. 1
  PROVE  \E m \in 0 .. Rounds - 1 :
           RoundI(m) = i /\ RoundJ(m) = j /\ m % 2 = b
<1> DEFINE w == AREA_NUM + 1
           h == w * i + j
           m == 2 * h + b
<1>1. AREA_NUM \in Nat \ {0} /\ w \in Nat \ {0} /\ j \in 0 .. w - 1
      /\ i \in Nat
  BY EccOK
<1> HIDE DEF w
<1>2. h \in Nat /\ h % w = j
  BY <1>1, DivMod
<1>3. w * i \in Nat
  BY <1>1, Z3T(30)
<1>4. m \in Nat /\ m % 2 = b /\ m \div 2 = h
  <2> HIDE DEF h
  <2> QED
    BY <1>2
<1>5. m \div (2 * w) = i
  <2>1. m = (2 * w) * i + (2 * j + b)
    BY <1>1, <1>3, Z3T(30)
  <2>2. 2 * w \in Nat \ {0} /\ 2 * j + b \in 0 .. (2 * w) - 1
    BY <1>1
  <2> HIDE DEF m
  <2> QED
    BY <1>1, <2>1, <2>2, DivMod
<1>6. m \in 0 .. Rounds - 1
  <2>1. Rounds = 2 * (w * AREA_NUM) /\ w * AREA_NUM \in Nat
    BY <1>1, Z3T(30) DEF Rounds, w
  <2>2. w * i + w <= w * AREA_NUM
    <3>1. w * i + w = w * (i + 1) /\ i + 1 <= AREA_NUM
      BY <1>1, Z3T(30)
    <3> QED
      BY <1>1, <3>1, Z3T(30)
  <2> QED
    BY <1>1, <1>3, <1>4, <2>1, <2>2
<1> HIDE DEF m, h
<1>7. RoundI(m) = i /\ RoundJ(m) = j
  BY <1>2, <1>4, <1>5 DEF RoundI, RoundJ, w
<1> QED
  BY <1>4, <1>6, <1>7

(* The channels' parts of an area leave nothing out.                       *)
LEMMA PartsCover ==
  ASSUME NEW a \in Nat, a % Unit = 0, NEW len, SharedExactly(len),
         NEW u \in Span(a, len)
  PROVE  \E c \in Ch : u \in Span(FillDst(a, len, c),
                                  Unit * (FillLen(len, c) \div Unit))
<1> DEFINE d == dmalen(len)
           r == rem_len(len)
<1>1. len \in Nat /\ d \in Nat /\ d > 0 /\ d % 64 = 0 /\ 4 * d + r = len
  <2>1. len \in Nat
    BY DEF SharedExactly
  <2>2. d \in Nat /\ d % 64 = 0
    BY <2>1 DEF dmalen, Unit, DMA_PARALLEL_CH
  <2> QED
    BY <2>1, <2>2 DEF SharedExactly, DMA_PARALLEL_CH
<1>2. r \in Nat /\ r % 64 = 0
  <2>1. len % d \in Nat
    BY <1>1
  <2> HIDE DEF d
  <2>2. r = (((len % d) + 63) \div 64) * 64
    BY DEF rem_len, d, Unit
  <2> QED
    BY <2>1, <2>2
<1>3. /\ FillDst(a, len, 1) = a /\ FillDst(a, len, 2) = a + d
      /\ FillDst(a, len, 3) = a + 2 * d /\ FillDst(a, len, 4) = a + 3 * d
  BY <1>1 DEF FillDst
<1>4. /\ FillLen(len, 1) = d /\ FillLen(len, 2) = d
      /\ FillLen(len, 3) = d /\ FillLen(len, 4) = d + r
  BY DEF FillLen, DMA_PARALLEL_CH
<1> HIDE DEF d, r
<1>5. Unit * (d \div Unit) = d /\ Unit * ((d + r) \div Unit) = d + r
  BY <1>1, <1>2 DEF Unit
<1>6. /\ u \in Memory /\ u * Unit \in Nat
      /\ a <= u * Unit /\ u * Unit < a + (4 * d + r)
  BY <1>1, FillOK DEF Span, Memory, Unit
<1>7. \/ a <= u * Unit /\ u * Unit < a + d
      \/ a + d <= u * Unit /\ u * Unit < (a + d) + d
      \/ a + 2 * d <= u * Unit /\ u * Unit < (a + 2 * d) + d
      \/ a + 3 * d <= u * Unit /\ u * Unit < (a + 3 * d) + (d + r)
  BY <1>1, <1>2, <1>6
<1>8. /\ 1 \in Ch /\ 2 \in Ch /\ 3 \in Ch /\ 4 \in Ch
  BY DEF Ch, DMA_PARALLEL_CH
<1> QED
  BY <1>3, <1>4, <1>5, <1>6, <1>7, <1>8 DEF Span

(* Every unit that is to be filled belongs to a round that fills it.       *)
LEMMA WantedRounds ==
  ASSUME OneSplitOnly, tab \in Tables, tab.build = "dual", NEW u \in Wanted
  PROVE  \E m \in 0 .. Rounds - 1 : RoundFilled(m) /\ u \in RoundSpan(m)
<1>1. /\ tab.split \subseteq 0 .. AREA_NUM - 1
      /\ tab.areaEcc \subseteq 0 .. AREA_NUM - 1
      /\ tab.extraEcc \subseteq 0 .. AREA_NUM - 1
  BY TablesOK
<1>2. {i \in tab.split : \A j \in tab.split : i <= j} = tab.split
  <2>1. \A i, j \in tab.split : i = j /\ i \in Int
    BY <1>1 DEF OneSplitOnly
  <2> QED
    BY <2>1
<1>3. \/ \E i \in (tab.areaEcc \cap tab.areaFill) \ tab.split : u \in AreaSpan(i)
      \/ \E i \in tab.split, j \in tab.extraEcc \cap tab.extraFill :
           u \in ExtraSpan(i, j)
  <2>1. u \in EccOf(tab.split, tab.areaEcc \cap tab.areaFill,
                    tab.extraEcc \cap tab.extraFill)
    BY <1>2 DEF Wanted
  <2> QED
    BY <2>1 DEF EccOf
<1>4. AREA_NUM \in Nat \ {0}
  BY EccOK
<1>5. ASSUME NEW b \in Bases
      PROVE  \E k \in 0 .. 1 : \A m : m % 2 = k => RoundBase(m) = b
  <2>1. CASE b = 0
    <3>1. \A m : m % 2 = 0 => RoundBase(m) = b
      BY <2>1 DEF RoundBase
    <3>2. 0 \in 0 .. 1
      OBVIOUS
    <3> QED
      BY <3>1, <3>2
  <2>2. CASE b = ECC_BASE2
    <3>1. \A m : m % 2 = 1 => RoundBase(m) = b
      BY <2>2 DEF RoundBase
    <3>2. 1 \in 0 .. 1
      OBVIOUS
    <3> QED
      BY <3>1, <3>2
  <2> QED
    BY <2>1, <2>2 DEF Bases
<1>6. ASSUME NEW i \in (tab.areaEcc \cap tab.areaFill) \ tab.split,
             u \in AreaSpan(i)
      PROVE  \E m \in 0 .. Rounds - 1 : RoundFilled(m) /\ u \in RoundSpan(m)
  <2>1. PICK b \in Bases : u \in Span(b + AreaBytes * i, AreaBytes)
    BY <1>6 DEF AreaSpan
  <2>2. PICK k \in 0 .. 1 : \A m : m % 2 = k => RoundBase(m) = b
    BY <1>5
  <2>3. PICK m \in 0 .. Rounds - 1 : RoundI(m) = i /\ RoundJ(m) = 0 /\ m % 2 = k
    BY <1>1, <1>4, RoundOf
  <2> QED
    BY <2>1, <2>2, <2>3 DEF RoundFilled, RoundSpan
<1>7. ASSUME NEW i \in tab.split, NEW j \in tab.extraEcc \cap tab.extraFill,
             u \in ExtraSpan(i, j)
      PROVE  \E m \in 0 .. Rounds - 1 : RoundFilled(m) /\ u \in RoundSpan(m)
  <2>1. PICK b \in Bases :
          u \in Span(b + AreaBytes * i + ExtraBytes * j, ExtraBytes)
    BY <1>7 DEF ExtraSpan
  <2>2. PICK k \in 0 .. 1 : \A m : m % 2 = k => RoundBase(m) = b
    BY <1>5
  <2>3. /\ i \in 0 .. AREA_NUM - 1 /\ j + 1 \in 0 .. AREA_NUM
        /\ j + 1 # 0 /\ (j + 1) - 1 = j
    BY <1>1, <1>4
  <2>4. PICK m \in 0 .. Rounds - 1 :
          RoundI(m) = i /\ RoundJ(m) = j + 1 /\ m % 2 = k
    BY <2>3, RoundOf
  <2> QED
    BY <2>1, <2>2, <2>3, <2>4 DEF RoundFilled, RoundSpan
<1> QED
  BY <1>3, <1>6, <1>7

(* When the loops are through, everything is behind.                       *)
LEMMA AllBehind ==
  ASSUME OneSplitOnly, WriteInv, CodedInv, pc = "ret"
  PROVE  \A u \in Wanted : mem[u] = "coded"
<1> SUFFICES ASSUME NEW u \in Wanted PROVE mem[u] = "coded"
  OBVIOUS
<1>1. CASE tab.build = "single"
  <2>1. tab.areas \in Seq(AreaEntry) /\ n = Len(tab.areas)
    BY <1>1, TablesOK DEF WriteInv, CodedInv
  <2>2. DOMAIN tab.areas = 1 .. n
    BY <2>1
  <2>3. PICK k \in DOMAIN tab.areas :
          /\ tab.areas[k].enable /\ tab.areas[k].fill
          /\ u \in Span(tab.areas[k].addr, tab.areas[k].size)
    BY <1>1 DEF Wanted
  <2> QED
    BY <1>1, <2>2, <2>3 DEF CodedInv, Behind, Coded
<1>2. CASE tab.build = "dual"
  <2>1. PICK m \in 0 .. Rounds - 1 : RoundFilled(m) /\ u \in RoundSpan(m)
    BY <1>2, WantedRounds DEF WriteInv
  <2> QED
    BY <1>2, <2>1 DEF CodedInv, Behind, Coded
<1>3. CASE tab.build \notin {"single", "dual"}
  BY <1>3 DEF Wanted
<1> QED
  BY <1>1, <1>2, <1>3

(* What depends on the tables and the round only.                          *)
LEMMA SameRounds ==
  ASSUME UNCHANGED <<prr, tab>>
  PROVE  \A m : (RoundFilled(m)' <=> RoundFilled(m))
                /\ RoundSpan(m)' = RoundSpan(m)
BY DEF RoundFilled, RoundSpan, RoundI, RoundJ, RoundBase, Bases, Span

(* Steps after which more units have their code, and at most the units     *)
(* that got it are no longer pending.                                      *)
LEMMA CodedMore ==
  ASSUME CodedInv, UNCHANGED <<prr, tab, n>>,
         \A u \in Memory : mem[u] = "coded" => mem'[u] = "coded"
  PROVE  /\ Behind'
         /\ Current' = Current
<1>1. \A m : (RoundFilled(m)' <=> RoundFilled(m)) /\ RoundSpan(m)' = RoundSpan(m)
  BY SameRounds
<1>2. \A a, l : Span(a, l) \subseteq Memory
  BY DEF Span
<1>3. \A m : RoundSpan(m) \subseteq Memory
  BY <1>2 DEF RoundSpan
<1>4. Behind'
  BY <1>1, <1>2, <1>3 DEF CodedInv, Behind, Coded
<1>5. Current' = Current
  BY <1>1 DEF Current, Area
<1> QED
  BY <1>4, <1>5

(* Steps that leave memory and the channels alone and end no area.         *)
LEMMA CodedQuiet ==
  ASSUME CodedInv, UNCHANGED <<mem, dst, left, prr, tab, n, ecc, pc>>
  PROVE  CodedInv'
<1>1. Wanted' = Wanted /\ Behind' /\ Current' = Current
  BY SameWanted, CodedMore
<1>2. \A c \in Ch : Pending(c)' = Pending(c)
  BY DEF Pending
<1> QED
  BY <1>1, <1>2 DEF CodedInv

(* A channel writes units that ECC covers.                                 *)
LEMMA CodedMoves ==
  ASSUME WriteInv, CodedInv, NEW c \in Ch, ChannelMoves(c),
         UNCHANGED <<prr, tab, n, pc>>
  PROVE  CodedInv'
<1> DEFINE u == dst[c] \div Unit
<1>1. /\ dst[c] \in Nat /\ left[c] \in Nat /\ left[c] > 0 /\ dst[c] % Unit = 0
      /\ dst \in [Ch -> Nat] /\ left \in [Ch -> Nat] /\ DOMAIN mem = Memory
  BY DEF WriteInv, ChannelMoves
<1>2. /\ mem' = [mem EXCEPT ![u] = Zeroed(u)] /\ ecc' = ecc
      /\ dst' = [dst EXCEPT ![c] = dst[c] + Unit]
      /\ left' = [left EXCEPT ![c] = left[c] - 1]
  BY DEF ChannelMoves
<1>3. u * Unit = dst[c] /\ u \in Nat
  BY <1>1 DEF Unit
<1>4. u \in Memory => u \in Pending(c) /\ Zeroed(u) = "coded"
  <2>1. u \in Memory => u \in Pending(c)
    BY <1>1, <1>3 DEF Pending, Span, Unit
  <2> QED
    BY <2>1 DEF CodedInv, Zeroed
<1> HIDE DEF u
<1>5. \A v \in Memory : mem[v] = "coded" => mem'[v] = "coded"
  BY <1>1, <1>2, <1>4
<1>6. Wanted' = Wanted /\ Behind' /\ Current' = Current
  BY <1>5, SameWanted, CodedMore
<1>7. /\ Pending(c)' \subseteq Pending(c)
      /\ \A v \in Pending(c) : v \in Pending(c)' \/ v = u
  <2>1. dst'[c] = dst[c] + Unit /\ left'[c] = left[c] - 1
    BY <1>1, <1>2
  <2>2. Span(dst[c] + Unit, Unit * (left[c] - 1))
          \subseteq Span(dst[c], Unit * left[c])
    BY <1>1, FillOK DEF Span, Unit, Memory
  <2>3. ASSUME NEW v \in Span(dst[c], Unit * left[c]), v # u
        PROVE  v \in Span(dst[c] + Unit, Unit * (left[c] - 1))
    BY <1>1, <1>3, <2>3, FillOK DEF Span, Unit, Memory
  <2> QED
    BY <2>1, <2>2, <2>3 DEF Pending
<1>8. \A b \in Ch : b # c => Pending(b)' = Pending(b)
  BY <1>1, <1>2 DEF Pending
<1>9. \A b \in Ch : Pending(b)' \subseteq ecc'
  BY <1>2, <1>7, <1>8 DEF CodedInv
<1>10. ASSUME pc = "wait", NEW v \in Current
       PROVE  mem'[v] = "coded" \/ \E b \in Ch : v \in Pending(b)'
  <2>0. v \in Memory
    BY <1>10 DEF Current, RoundSpan, Span
  <2>1. CASE mem[v] = "coded"
    BY <1>5, <2>0, <2>1
  <2>2. CASE \E b \in Ch : v \in Pending(b)
    <3>1. PICK b \in Ch : v \in Pending(b)
      BY <2>2
    <3>2. CASE b # c
      BY <1>8, <3>1, <3>2
    <3>3. CASE b = c /\ v # u
      BY <1>7, <3>1, <3>3
    <3>4. CASE v = u
      BY <1>1, <1>2, <1>4, <2>0, <3>4
    <3> QED
      BY <3>2, <3>3, <3>4
  <2> QED
    BY <1>10, <2>1, <2>2 DEF CodedInv
<1> QED
  BY <1>2, <1>6, <1>9, <1>10 DEF CodedInv

(* A fill of a covered area starts: all of it is pending.                  *)
LEMMA CodedStarts ==
  ASSUME CodedInv, NEW a \in Nat, a % Unit = 0, NEW len, SharedExactly(len),
         Span(a, len) \subseteq ecc, Current = Span(a, len),
         exec_fillDMA(a, len), UNCHANGED <<prr, tab, n>>, pc' = "wait",
         tab.build \in {"single", "dual"},
         tab.build = "single" => n + 1 \in DOMAIN tab.areas,
         tab.build = "dual" => Wanted \subseteq ecc
  PROVE  CodedInv'
<1>1. mem' = mem /\ ecc' = ecc
  BY DEF exec_fillDMA
<1>2. Wanted' = Wanted /\ Behind' /\ Current' = Current
  BY <1>1, SameWanted, CodedMore
<1>3. ASSUME NEW c \in Ch
      PROVE  Pending(c)' = Span(FillDst(a, len, c),
                                Unit * (FillLen(len, c) \div Unit))
  BY DEF exec_fillDMA, Pending
<1>4. ASSUME NEW c \in Ch PROVE Pending(c)' \subseteq Span(a, len)
  <2> DEFINE b == FillDst(a, len, c)
             e == Unit * (FillLen(len, c) \div Unit)
  <2>0. /\ b \in Nat /\ FillLen(len, c) \div Unit \in Nat
        /\ b >= a /\ b + e <= a + len
    BY PartInside
  <2>1. b \in Nat /\ e \in Nat /\ b >= a /\ b + e <= a + len /\ len \in Nat
    BY <2>0 DEF Unit, SharedExactly
  <2> HIDE DEF b, e
  <2>2. Span(b, e) \subseteq Span(a, len)
    BY <2>1, FillOK DEF Span, Memory, Unit
  <2> QED
    BY <1>3, <2>2 DEF b, e
<1>5. \A u \in Span(a, len) : \E c \in Ch : u \in Pending(c)'
  BY <1>3, PartsCover
<1> QED
  BY <1>1, <1>2, <1>4, <1>5 DEF CodedInv

(* A round is over: what was under way is now behind.                      *)
LEMMA CodedNext ==
  ASSUME CodedInv, WriteInv, tab.build \in {"single", "dual"},
         UNCHANGED <<prr, tab, ecc, dst, left>>, n' = n + 1, pc' = "area",
         \A u \in Memory : mem[u] = "coded" => mem'[u] = "coded",
         tab.build = "single" /\ Area.enable /\ Area.fill =>
           \A u \in Span(Area.addr, Area.size) : mem'[u] = "coded",
         tab.build = "dual" /\ RoundFilled(n) =>
           \A u \in RoundSpan(n) : mem'[u] = "coded",
         tab.build = "dual" => Wanted \subseteq ecc
  PROVE  CodedInv'
<1>0. n \in Nat
  BY DEF WriteInv
<1>1. \A m : (RoundFilled(m)' <=> RoundFilled(m)) /\ RoundSpan(m)' = RoundSpan(m)
  BY SameRounds
<1>2. \A a, l : Span(a, l) \subseteq Memory
  BY DEF Span
<1>3. \A m : RoundSpan(m) \subseteq Memory
  BY <1>2 DEF RoundSpan
<1>4. ASSUME tab.build = "single", NEW k \in 1 .. n + 1, tab.areas[k].enable,
             tab.areas[k].fill,
             NEW u \in Span(tab.areas[k].addr, tab.areas[k].size)
      PROVE  mem'[u] = "coded"
  <2>1. CASE k = n + 1
    BY <1>4, <2>1 DEF Area
  <2>2. CASE k \in 1 .. n
    BY <1>2, <1>4, <2>2 DEF CodedInv, Behind, Coded
  <2> QED
    BY <1>0, <2>1, <2>2
<1>5. ASSUME tab.build = "dual", NEW m \in 0 .. n, RoundFilled(m),
             NEW u \in RoundSpan(m)
      PROVE  mem'[u] = "coded"
  <2>1. CASE m = n
    BY <1>5, <2>1
  <2>2. CASE m \in 0 .. n - 1
    BY <1>3, <1>5, <2>2 DEF CodedInv, Behind, Coded
  <2> QED
    BY <1>0, <2>1, <2>2
<1>6. (n + 1) - 1 = n
  BY <1>0
<1>7. Behind'
  BY <1>1, <1>4, <1>5, <1>6 DEF Behind, Coded
<1>8. Wanted' = Wanted /\ \A c \in Ch : Pending(c)' = Pending(c)
  BY SameWanted DEF Pending
<1> QED
  BY <1>7, <1>8 DEF CodedInv

LEMMA CodedStep ==
  OneSplitOnly /\ FillInv /\ WriteInv /\ CodedInv /\ [Next]_vars => CodedInv'
<1> SUFFICES ASSUME OneSplitOnly, FillInv, WriteInv, CodedInv, [Next]_vars
             PROVE  CodedInv'
  OBVIOUS
<1>1. n \in Nat /\ n + 1 \in Nat /\ tab \in Tables
      /\ tab.build \in {"disable", "single", "dual"}
  BY TablesOK DEF WriteInv
<1>2. ASSUME UNCHANGED <<mem, dst, left, prr, tab, n, ecc>>
      PROVE  /\ Wanted' = Wanted /\ Behind' /\ Current' = Current
             /\ \A c \in Ch : Pending(c)' = Pending(c)
  BY <1>2, SameWanted, CodedMore DEF Pending
<1>3. CASE Start
  <2>1. /\ UNCHANGED <<mem, dst, left, prr, tab, n, ecc>> /\ pc = "start"
        /\ pc' \in {"ret", "dead", "area", "set"}
        /\ pc' = "ret" => tab.build = "disable"
        /\ pc' = "area" => tab.build = "single"
        /\ pc' = "set" => tab.build = "dual"
    BY <1>1, <1>3 DEF Start, Supported, fillVars
  <2> QED
    BY <1>2, <2>1 DEF CodedInv
<1>4. CASE Single
  <2>1. CASE SingleSkip
    <3>1. /\ UNCHANGED <<mem, prr, tab, ecc, dst, left>> /\ n' = n + 1
          /\ pc' = "area" /\ tab.build = "single" /\ ~Area.enable
      BY <2>1 DEF SingleSkip, MoreAreas, fillVars
    <3> QED
      BY <3>1, CodedNext
  <2>2. CASE SingleArea
    <3>0. /\ UNCHANGED <<mem, dst, left, prr, tab>> /\ Area.enable
          /\ ecc' = ecc \cup Span(Area.addr, Area.size) /\ pc = "area"
          /\ tab.build = "single" /\ n < Len(tab.areas)
          /\ \/ Area.fill /\ pc' = "fill" /\ n' = n
             \/ ~Area.fill /\ n' = n + 1 /\ pc' = "area"
      BY <2>2 DEF SingleArea, MoreAreas, Covered
    <3>1. n + 1 \in DOMAIN tab.areas
      <4>1. tab.areas \in Seq(AreaEntry)
        BY <1>1, <3>0, TablesOK
      <4> QED
        BY <1>1, <3>0, <4>1
    <3>2. \A c \in Ch : Pending(c)' = Pending(c) /\ Pending(c) \subseteq ecc'
      BY <3>0 DEF Pending, CodedInv
    <3>3. CASE Area.fill
      <4>1. n' = n /\ pc' = "fill"
        BY <3>0, <3>3
      <4>2. Behind' /\ Current' = Current
        BY <3>0, <4>1, CodedMore
      <4>3. Current \subseteq ecc'
        BY <3>0 DEF Current
      <4> QED
        BY <3>0, <3>1, <3>2, <4>1, <4>2, <4>3 DEF CodedInv
    <3>4. CASE ~Area.fill
      <4>1. n' = n + 1 /\ pc' = "area"
        BY <3>0, <3>4
      <4>2. Behind'
        <5>1. ASSUME NEW k \in 1 .. n + 1, tab.areas[k].enable,
                     tab.areas[k].fill
              PROVE  k \in 1 .. n
          BY <1>1, <3>4, <5>1 DEF Area
        <5> QED
          BY <3>0, <4>1, <5>1 DEF CodedInv, Behind, Coded
      <4> QED
        BY <3>0, <3>2, <4>1, <4>2 DEF CodedInv
    <3> QED
      BY <3>3, <3>4
  <2>3. CASE SingleFill
    <3>1. /\ tab.build = "single" /\ n + 1 \in DOMAIN tab.areas
          /\ Area.enable /\ Area.fill /\ Current = Span(Area.addr, Area.size)
          /\ Current \subseteq ecc
      BY <2>3 DEF SingleFill, WriteInv, CodedInv, Current
    <3>2. /\ Area.addr \in Nat /\ Area.addr % Unit = 0
          /\ SharedExactly(Area.size)
      BY <1>1, <3>1, AreaWanted
    <3> QED
      BY <2>3, <3>1, <3>2, CodedStarts DEF SingleFill
  <2>4. CASE SingleFillCpu
    <3>1. /\ tab.build = "single" /\ Span(Area.addr, Area.size) \subseteq ecc
          /\ UNCHANGED <<prr, tab, ecc, dst, left>> /\ n' = n + 1
          /\ pc' = "area"
      BY <2>4 DEF SingleFillCpu, WriteInv, CodedInv, Current
    <3>2. /\ \A u \in Memory : mem[u] = "coded" => mem'[u] = "coded"
          /\ \A u \in Span(Area.addr, Area.size) : mem'[u] = "coded"
      BY <2>4, <3>1 DEF SingleFillCpu, Zeroed, Span
    <3> QED
      BY <3>1, <3>2, CodedNext
  <2>5. CASE SingleEnd
    <3>1. /\ UNCHANGED <<mem, dst, left, prr, tab, n, ecc>> /\ pc' = "ret"
          /\ tab.build = "single" /\ n = Len(tab.areas)
      BY <2>5 DEF SingleEnd, fillVars
    <3> QED
      BY <1>2, <3>1 DEF CodedInv
  <2> QED
    BY <1>4, <2>1, <2>2, <2>3, <2>4, <2>5 DEF Single
<1>5. CASE Dual
  <2>1. CASE DualSet
    <3>1. /\ UNCHANGED <<mem, dst, left, prr, tab, n>> /\ pc = "set"
          /\ tab.build = "dual" /\ pc' \in {"dead", "area"} /\ ecc = {}
          /\ pc' = "area" => ecc' = EccOf(EffectiveSplit, tab.areaEcc, tab.extraEcc)
      BY <2>1 DEF DualSet, CodedInv
    <3>2. /\ Wanted' = Wanted /\ Behind'
          /\ \A c \in Ch : Pending(c)' = Pending(c) /\ Pending(c) = {}
      BY <3>1, SameWanted, CodedMore DEF Pending, CodedInv
    <3>3. pc' = "area" => Wanted \subseteq ecc'
      BY <3>1 DEF Wanted, EccOf, EffectiveSplit
    <3> QED
      BY <3>1, <3>2, <3>3 DEF CodedInv
  <2>2. CASE DualFill
    <3>1. /\ tab.build = "dual" /\ Filled /\ pc = "area" /\ pc' = "wait"
          /\ UNCHANGED <<prr, tab, n>> /\ Wanted \subseteq ecc
      BY <2>2 DEF DualFill, CodedInv
    <3>2. /\ J = RoundJ(n) /\ I = RoundI(n) /\ Base = RoundBase(n)
          /\ Current = RoundSpan(n)
      BY <3>1 DEF J, I, Base, RoundJ, RoundI, RoundBase, Current
    <3>3. CASE J = 0
      <4>1. exec_fillDMA(Base + AreaBytes * I, AreaBytes)
        BY <2>2, <3>3 DEF DualFill
      <4>2. Current = Span(Base + AreaBytes * I, AreaBytes)
        BY <3>2, <3>3 DEF RoundSpan
      <4> QED
        BY <1>1, <3>1, <3>3, <4>1, <4>2, RoundWanted, CodedStarts
    <3>4. CASE J # 0
      <4>1. exec_fillDMA(Base + AreaBytes * I + ExtraBytes * (J - 1), ExtraBytes)
        BY <2>2, <3>4 DEF DualFill
      <4>2. Current = Span(Base + AreaBytes * I + ExtraBytes * (J - 1), ExtraBytes)
        BY <3>2, <3>4 DEF RoundSpan
      <4> QED
        BY <1>1, <3>1, <3>4, <4>1, <4>2, RoundWanted, CodedStarts
    <3> QED
      BY <3>3, <3>4
  <2>3. CASE DualSkip
    <3>1. /\ UNCHANGED <<mem, prr, tab, ecc, dst, left>> /\ n' = n + 1
          /\ pc = "area" /\ pc' = "area" /\ tab.build = "dual" /\ ~Filled
          /\ Wanted \subseteq ecc
      BY <2>3 DEF DualSkip, fillVars, CodedInv
    <3>2. ~RoundFilled(n)
      BY <3>1 DEF Filled, PlainArea, RoundFilled, J, I, Base, RoundJ, RoundI,
         RoundBase
    <3> QED
      BY <3>1, <3>2, CodedNext
  <2>4. CASE DualEnd
    <3>1. /\ UNCHANGED <<mem, dst, left, prr, tab, n, ecc>> /\ pc' = "ret"
          /\ tab.build = "dual" /\ n = Rounds /\ pc = "area"
      BY <2>4 DEF DualEnd, fillVars
    <3> QED
      BY <1>2, <3>1 DEF CodedInv
  <2> QED
    BY <1>5, <2>1, <2>2, <2>3, <2>4 DEF Dual
<1>6. CASE FillReturns
  <2>1. /\ UNCHANGED <<mem, prr, tab, ecc, dst, left>> /\ n' = n + 1
        /\ pc = "wait" /\ pc' = "area" /\ fill = "done"
        /\ tab.build \in {"single", "dual"}
        /\ tab.build = "dual" => Wanted \subseteq ecc
    BY <1>6 DEF FillReturns, CodedInv
  <2>2. ASSUME NEW c \in Ch PROVE Pending(c) = {}
    <3>1. left[c] = 0 /\ dst[c] \in Nat
      BY <2>1 DEF FillInv, FillsInTurn, WriteInv
    <3>2. Span(dst[c], Unit * 0) = {}
      BY <3>1, FillOK DEF Span, Memory, Unit
    <3> QED
      BY <3>1, <3>2 DEF Pending
  <2>3. \A u \in Current : mem'[u] = "coded"
    BY <2>1, <2>2 DEF CodedInv
  <2> QED
    BY <2>1, <2>3, CodedNext DEF Current
<1>7. CASE FillPanics
  <2>1. UNCHANGED <<mem, dst, left, prr, tab, n, ecc>> /\ pc' = "dead"
    BY <1>7 DEF FillPanics, fillVars
  <2> QED
    BY <1>2, <2>1 DEF CodedInv
<1>8. CASE Polling
  <2>1. UNCHANGED <<mem, dst, left, prr, tab, n, ecc, pc>>
    BY <1>8 DEF Polling, Poll, PollNext, PollAgain, PollEnd, PollError
  <2> QED
    BY <2>1, CodedQuiet
<1>9. ASSUME NEW c \in Ch, Channel(c) PROVE CodedInv'
  <2>1. CASE ChannelMoves(c)
    BY <1>9, <2>1, CodedMoves DEF Channel
  <2>2. CASE ChannelFails(c)
    BY <1>9, <2>2, CodedQuiet DEF Channel, ChannelFails
  <2> QED
    BY <1>9, <2>1, <2>2 DEF Channel
<1>10. CASE UNCHANGED vars
  BY <1>10, CodedQuiet DEF vars
<1> QED
  BY <1>3, <1>4, <1>5, <1>6, <1>7, <1>8, <1>9, <1>10 DEF Next, Cpu

(* For every memory, board and table with at most one split area: when     *)
(* ecc_init returns, every unit that is to be filled was written after ECC *)
(* covered it, whichever way the four channels and the poll loop           *)
(* interleave.                                                             *)
THEOREM FusaCodedHolds ==
  ASSUME OneSplitOnly
  PROVE  Spec => []FusaCoded
<1>1. WriteInv /\ CodedInv => FusaCoded
  BY AllBehind DEF FusaCoded
<1>2. FillInv /\ WriteInv /\ CodedInv /\ [Next]_vars
        => (FillInv /\ WriteInv /\ CodedInv)'
  BY StepInv, WriteStep, CodedStep
<1> QED
  BY InitInv, WriteInit, CodedInit, <1>1, <1>2, PTL DEF Spec
=============================================================================
