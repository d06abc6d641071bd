--------------------------- MODULE ClusterProofs ----------------------------
(***************************************************************************)
(* The cluster demo for every set of images, every number of slots and     *)
(* handles, every width of the frame counter and every set of calls that   *)
(* may fail: what the application thread needs is there while it runs, the *)
(* engine neither draws into the visible buffer nor reads a freed image,   *)
(* everything is given back, and the frames shown are those of FrameStream.*)
(***************************************************************************)
EXTENDS ClusterSystem, FiniteSetTheorems, SequenceTheorems,
        WellFoundedInduction, TLAPS

(* SupportsApp needs the order in which the threads come into being: the   *)
(* memory manager before the cluster thread, the cluster thread before     *)
(* main_thread, the DHD server before the application thread; and that the *)
(* joins of start_thread never return.                                     *)
StartInv ==
  /\ DOMAIN thread = Workers /\ \A t \in Workers : thread[t] # "end"
  /\ start \in {"cio", "cluster", "taurus", "join"} => mmngr
  /\ thread["cluster"] # "none" =>
       mmngr /\ start \notin {"osal", "mmngr", "cio", "cluster"}
  /\ main # "none" => thread["cluster"] = "sleep"
  /\ main \in {"create", "join", "end"} => dhd
  /\ pc # "none" => main \in {"join", "end"}

LEMMA StartInvInit == Init => StartInv
  BY DEF Init, AppStart, StartInv, Workers

(* The application thread acts only when it has been created.              *)
LEMMA AppRuns == ASSUME AppThread PROVE pc # "none"
<1>1. CASE AppInit
  BY <1>1 DEF AppInit, WmInit, Drw2DInit, LoadBegin, LoadSkip, LoadEnd,
              LoadHang, Goto
<1>2. CASE AllocFb(mmngr)
  BY <1>2 DEF AllocFb
<1>3. CASE AppFrame
  BY <1>3 DEF AppFrame, FramebufferSet, Render, GpuFinish,
              SurfacePropertySet, Flush, FrameEnd, LoopExit, Goto
<1>4. CASE AppDeInit
  BY <1>4 DEF AppDeInit, SurfaceReleaseCall, DevDeinitCall, FreeImage,
              Drw2DDeinit, Goto
<1> QED
  BY <1>1, <1>2, <1>3, <1>4 DEF AppThread, AppStep

LEMMA StartInvStep == StartInv /\ [Next]_vars => StartInv'
<1> SUFFICES ASSUME StartInv, [Next]_vars PROVE StartInv'
  OBVIOUS
<1> USE DEF StartInv
<1>1. CASE StartStep
  <2>1. start # "join"
    BY <1>1 DEF StartStep, Joined, Workers
  <2>2. pc' = pc /\ main' = main /\ dhd' = dhd
    BY <1>1 DEF StartStep, app
  <2>3. mmngr' = (mmngr \/ start = "mmngr")
    BY <1>1, <2>1 DEF StartStep
  <2>4. thread' = [t \in Workers |-> IF t = start THEN "run" ELSE thread[t]]
    BY <1>1 DEF StartStep
  <2>5. \/ start = "osal" /\ start' = "mmngr"
        \/ start = "mmngr" /\ start' = "cio"
        \/ start = "cio" /\ start' = "cluster"
        \/ start = "cluster" /\ start' = "taurus"
        \/ start = "taurus" /\ start' = "join"
    <3>1. start \in {"osal", "mmngr", "cio", "cluster", "taurus", "join"}
      BY <1>1 DEF StartStep, StartNext
    <3>2. /\ StartNext["osal"] = "mmngr" /\ StartNext["mmngr"] = "cio"
          /\ StartNext["cio"] = "cluster" /\ StartNext["cluster"] = "taurus"
          /\ StartNext["taurus"] = "join"
      BY DEF StartNext
    <3>3. start' = StartNext[start]
      BY <1>1 DEF StartStep
    <3> QED
      BY <2>1, <3>1, <3>2, <3>3
  <2>6. thread'["cluster"] # "none" =>
          mmngr' /\ start' \notin {"osal", "mmngr", "cio", "cluster"}
    BY <2>3, <2>4, <2>5 DEF Workers
  <2>7. main # "none" => start # "cluster"
    OBVIOUS
  <2>8. start' \in {"cio", "cluster", "taurus", "join"} => mmngr'
    BY <2>3, <2>5
  <2> QED
    BY <2>2, <2>4, <2>6, <2>7, <2>8 DEF Workers
<1>2. CASE StartFails
  BY <1>2 DEF StartFails, MmngrAfterFailure, app
<1>3. ASSUME NEW t \in Workers, WorkerStep(t) PROVE StartInv'
  BY <1>3 DEF WorkerStep, AfterMain, Workers, app
<1>4. CASE MainThread
  BY <1>4 DEF MainThread, MainDhd, MainCreate, MainCreateFails, MainJoin,
              DhdStarted, Goto, app
<1>5. CASE AppThread
  BY <1>5, AppRuns DEF AppThread, Threads
<1>6. CASE Engine \/ Screen
  BY <1>6 DEF Engine, Screen, Threads, app
<1>7. CASE UNCHANGED vars
  BY <1>7 DEF vars, app
<1> QED
  BY <1>1, <1>2, <1>3, <1>4, <1>5, <1>6, <1>7 DEF Next

(* For every set of threads and calls that may fail: the memory manager is *)
(* open and the DHD server runs while the application thread exists        *)
(* (start_thread, main_thread).                                            *)
THEOREM SupportsAppHolds == Spec => []SupportsApp
<1>1. StartInv => SupportsApp
  BY DEF StartInv, SupportsApp
<1> QED
  BY StartInvInit, StartInvStep, <1>1, PTL DEF Spec
-----------------------------------------------------------------------------
(* NoTearing needs the state of engine, surface and screen at each point   *)
(* of the loop.  While no DRW2D call of the frame has failed: the engine   *)
(* is busy only between Render and GpuFinish, with the buffer of the       *)
(* frame's parity, and until the flush the screen shows another one.       *)
BeforeLoop == {"none", "wm", "alloc", "drw2d", "load", "copy"}
InLoop == {"set", "render", "finish", "buffer", "flush", "vsync", "next"}

Away == scan # idx /\ ~flip

FrameInv ==
  /\ gpu.busy => pc \in {"finish", "hang"} /\ gpu.into = idx /\ Away
  /\ pc \in {"render", "finish", "buffer"} => Away
  /\ pc = "set" /\ ~wmErr => Away
  /\ pc = "render" => target = idx
  /\ pc = "flush" /\ ~wmErr => pending = idx
  /\ pc = "vsync" /\ ~wmErr => pending = idx /\ (flip \/ scan = idx)
  /\ pc = "next" => wmErr

TearInv ==
  /\ cnt \in Cnt
  /\ pc \in BeforeLoop => scan = NoBuf /\ ~flip /\ ~gpu.busy
  /\ pc \in InLoop \cup {"alloc", "drw2d", "load", "copy"} => surf
  /\ ~ret => FrameInv

LEMMA IdxRange == ASSUME cnt \in Cnt PROVE idx \in {0, 1} /\ idx # NoBuf
  BY CntOK DEF Cnt, idx, NoBuf, MAX_NR_FBUF

(* The counter wraps to even after odd.                                    *)
LEMMA IdxTurns ==
  ASSUME cnt \in Cnt
  PROVE  NextCnt \in Cnt /\ NextCnt % 2 # idx
<1>1. CntMod \in Nat /\ CntMod % 2 = 0 /\ cnt \in Nat /\ cnt < CntMod
  BY CntOK DEF Cnt
<1>2. CASE cnt + 1 < CntMod
  <2>1. (cnt + 1) % CntMod = cnt + 1
    BY <1>1, <1>2
  <2> QED
    BY <1>1, <1>2, <2>1 DEF NextCnt, Cnt, idx
<1>3. CASE cnt + 1 = CntMod
  <2>1. (cnt + 1) % CntMod = 0
    BY <1>1, <1>3
  <2> QED
    BY <1>1, <1>3, <2>1 DEF NextCnt, Cnt, idx
<1> QED
  BY <1>1, <1>2, <1>3

LEMMA TearInvInit == Init => TearInv
  BY CntOK DEF Init, HwInit, AppStart, TearInv, FrameInv, Away, BeforeLoop,
              InLoop, Cnt, Resting

(* Steps that change neither the frame nor engine and screen.              *)
LEMMA TearQuiet ==
  ASSUME TearInv, UNCHANGED <<pc, cnt, ret, wmErr>>, UNCHANGED hw
  PROVE  TearInv'
  BY DEF TearInv, FrameInv, Away, idx, hw

LEMMA TearAppInit ==
  ASSUME TearInv, AppInit \/ AllocFb(mmngr) PROVE TearInv'
<1> USE DEF TearInv, BeforeLoop, InLoop, FrameInv, Away, hw
<1>0. idx \in {0, 1} /\ idx # NoBuf
  BY IdxRange
<1>1. CASE WmInit
  BY <1>1 DEF WmInit, DevKept
<1>2. CASE AllocFb(mmngr)
  BY <1>2 DEF AllocFb
<1>3. CASE Drw2DInit
  BY <1>3 DEF Drw2DInit, Goto
<1>4. CASE LoadBegin
  BY <1>4 DEF LoadBegin, Goto
<1>5. CASE LoadSkip \/ LoadEnd
  <2>1. /\ pc \in {"load", "copy"} /\ pc' \in {"load", "set"}
        /\ UNCHANGED <<cnt, ret, wmErr>> /\ UNCHANGED hw
    BY <1>5 DEF LoadSkip, LoadEnd, NextImage
  <2> QED
    BY <1>0, <2>1 DEF idx
<1>6. CASE LoadHang
  BY <1>6 DEF LoadHang, LoadFailed
<1> QED
  BY <1>1, <1>2, <1>3, <1>4, <1>5, <1>6 DEF AppInit

LEMMA TearAppFrame ==
  ASSUME TearInv, AppFrame PROVE TearInv'
<1> USE DEF TearInv, BeforeLoop, InLoop, FrameInv, Away, hw
<1>1. CASE FramebufferSet
  BY <1>1 DEF FramebufferSet, LoopOn, idx
<1>2. CASE Render
  BY <1>2 DEF Render, Submit, idx
<1>3. CASE GpuFinish
  BY <1>3 DEF GpuFinish, EngineIdle, Goto, idx
<1>4. CASE SurfacePropertySet
  BY <1>4 DEF SurfacePropertySet, Goto, idx
<1>5. CASE Flush
  <2>1. PICK ok \in BOOLEAN :
          /\ pc' = IF ok THEN "vsync" ELSE "next"
          /\ wmErr' = (wmErr \/ ~ok)
          /\ ok => flip' = TRUE
    BY <1>5 DEF Flush, Outcome
  <2>2. /\ pc = "flush" /\ UNCHANGED <<cnt, ret, surf, pending, scan, gpu>>
    BY <1>5 DEF Flush
  <2>3. pc' \in {"vsync", "next"} /\ (pc' = "next" => wmErr')
    BY <2>1
  <2>4. ~ret /\ pc' = "vsync" /\ ~wmErr' => pending' = idx' /\ flip'
    BY <2>1, <2>2 DEF idx
  <2> QED
    BY <2>2, <2>3, <2>4 DEF idx
<1>6. CASE FrameEnd
  <2>1. NextCnt \in Cnt /\ NextCnt % 2 # idx
    BY IdxTurns
  <2> QED
    BY <1>6, <2>1 DEF FrameEnd, Flipped, idx
<1>7. CASE LoopExit
  BY <1>7 DEF LoopExit, LoopOn, Goto, idx
<1> QED
  BY <1>1, <1>2, <1>3, <1>4, <1>5, <1>6, <1>7 DEF AppFrame

LEMMA TearAppDeInit ==
  ASSUME TearInv, AppDeInit PROVE TearInv'
<1> USE DEF TearInv, BeforeLoop, InLoop, FrameInv, Away, hw
<1>1. CASE SurfaceReleaseCall
  BY <1>1 DEF SurfaceReleaseCall, SurfaceRelease, Goto, idx
<1>2. CASE DevDeinitCall
  BY <1>2 DEF DevDeinitCall, DevDeinit, Goto, idx
<1>3. CASE FreeImage
  BY <1>3, TearQuiet DEF FreeImage
<1>4. CASE Drw2DDeinit
  BY <1>4 DEF Drw2DDeinit, Goto, idx
<1> QED
  BY <1>1, <1>2, <1>3, <1>4 DEF AppDeInit

LEMMA TearInvStep == TearInv /\ [Next]_vars => TearInv'
<1> SUFFICES ASSUME TearInv, [Next]_vars PROVE TearInv'
  OBVIOUS
<1>1. CASE StartStep \/ StartFails \/ \E t \in Workers : WorkerStep(t)
  BY <1>1, TearQuiet DEF StartStep, StartFails, WorkerStep, app
<1>2. CASE MainDhd \/ MainCreateFails \/ MainJoin
  BY <1>2, TearQuiet DEF MainDhd, MainCreateFails, MainJoin, app
<1>3. CASE MainCreate
  BY <1>3 DEF MainCreate, Goto, TearInv, BeforeLoop, InLoop, FrameInv, Away,
              hw, idx
<1>4. CASE AppThread
  BY <1>4, TearAppInit, TearAppFrame, TearAppDeInit DEF AppThread, AppStep
<1>5. CASE Engine
  BY <1>5 DEF Engine, GpuDone, Resting, app, TearInv, BeforeLoop, InLoop,
              FrameInv, Away, idx
<1>6. CASE Screen
  BY <1>6 DEF Screen, Vsync, app, TearInv, BeforeLoop, InLoop, FrameInv, Away,
              idx
<1>7. CASE UNCHANGED vars
  BY <1>7, TearQuiet DEF vars, app
<1> QED
  BY <1>1, <1>2, <1>3, <1>4, <1>5, <1>6, <1>7 DEF Next, MainThread

(* For every set of images and faults and every even counter width: the    *)
(* engine does not draw into the visible buffer while no DRW2D call of the *)
(* frame has failed (AppLoop).                                             *)
THEOREM NoTearingHolds == Spec => []NoTearing
<1>1. TearInv => NoTearing
  BY DEF TearInv, FrameInv, Away, NoTearing
<1> QED
  BY TearInvInit, TearInvStep, <1>1, PTL DEF Spec
-----------------------------------------------------------------------------
(* The images.  A slot, a handle or a pointer is always held for one       *)
(* reason: the image that points to the slot, or the load under way.       *)
StoreTypes ==
  /\ alloced \in [Slots -> BOOLEAN]
  /\ vidmem \in [Slots -> ImageSet \cup {"none"}]
  /\ InUse \in [Handles -> BOOLEAN]
  /\ Data \in [ImageSet -> Pointers]
  /\ backup = [i \in ImageSet |-> Null]
  /\ k \in Nat \ {0}

Owned(s) ==
  /\ vidmem[s] \in ImageSet
  /\ Data[vidmem[s]] = s \/ (loading.img = vidmem[s] /\ loading.slot = s)

Held ==
  /\ \A i \in ImageSet : Data[i] \in Slots =>
       i \notin Persistent /\ alloced[Data[i]] /\ vidmem[Data[i]] = i
  /\ \A i \in ImageSet : Data[i] = Rom => i \in Persistent
  /\ \A s \in Slots : ~alloced[s] => vidmem[s] = "none"
  /\ pc # "hang" => \A s \in Slots : alloced[s] => Owned(s)
  /\ \A h \in Handles : InUse[h] => loading.fp = h

Opened ==
  /\ pc # "copy" => loading = Idle
  /\ pc = "copy" =>
       /\ loading.img = Images[k] /\ loading.fp \in Handles /\ CanLoad
       /\ IF Images[k] \in Persistent
          THEN loading.slot = 0
          ELSE /\ loading.slot \in Slots
               /\ alloced[loading.slot] /\ vidmem[loading.slot] = Images[k]

(* How far loading and freeing have come.  Without a device only images    *)
(* used from flash can be loaded, and the background is none of them: the  *)
(* loop is not reached.                                                    *)
Progress ==
  /\ pc \in {"none", "wm", "alloc", "drw2d"} => k = 1
  /\ pc \in {"load", "copy"} => k <= Len(Images)
  /\ pc \in BeforeLoop => \A n \in k .. Len(Images) : Data[Images[n]] = Null
  /\ pc \in {"load", "copy"} => \A n \in 1 .. k - 1 :
       /\ ~drw2d => Images[n] \in Persistent
       /\ Images[n] \in Persistent => Data[Images[n]] = Rom
  /\ pc \in InLoop => drw2d /\ \A i \in Persistent : Data[i] = Rom
  /\ pc \in {"free", "end"} => \A n \in 1 .. Len(Images) :
       n < k => Data[DeinitOrder[n]] = Null
  /\ pc = "end" => k > Len(Images)

StoreInv == StoreTypes /\ Held /\ Opened /\ Progress

(* GaugeScreenDeInit visits every image.                                   *)
LEMMA DeinitVisits ==
  /\ \A n \in 1 .. Len(Images) : DeinitOrder[n] \in ImageSet
  /\ \A i \in ImageSet : \E n \in 1 .. Len(Images) : DeinitOrder[n] = i
<1> DEFINE L == Len(Images)
<1>0. L \in Nat /\ L >= 2
  BY ImagesOK
<1>1. Images \in Seq(ImageSet) /\ L \in Nat /\ L >= 2
  BY ImagesOK
<1> DEFINE elements == SubSeq(Images, 3, L)
<1>2. /\ elements \in Seq(ImageSet) /\ Len(elements) = L - 2
      /\ \A n \in 1 .. L - 2 : elements[n] = Images[n + 2]
  <2>1. 3 \in Int /\ L \in Int /\ \A n \in 3 .. L : Images[n] \in ImageSet
    BY ONLY <1>1
  <2>2. /\ elements \in Seq(ImageSet)
        /\ Len(elements) = IF 3 <= L THEN L - 3 + 1 ELSE 0
        /\ \A n \in 1 .. L - 3 + 1 : elements[n] = Images[3 + n - 1]
    BY <2>1, SubSeqProperties
  <2>3. L - 3 + 1 = L - 2 /\ (L < 3 => L - 2 = 0)
    <3> HIDE DEF L
    <3> QED
      BY <1>0
  <2>4. ASSUME NEW n \in 1 .. L - 2 PROVE elements[n] = Images[n + 2]
    <3>1. 3 + n - 1 = n + 2
      BY <1>1
    <3> HIDE DEF elements
    <3> QED
      BY <2>2, <2>3, <3>1
  <2>5. Len(elements) = L - 2
    <3> HIDE DEF elements, L
    <3> QED
      BY <1>1, <2>1, <2>2, <2>3
  <2> QED
    BY <2>2, <2>4, <2>5
<1>3. Images[1] \in ImageSet /\ Images[2] \in ImageSet
  BY <1>1 DEF ImageSet
<1> DEFINE last == <<Images[2], Images[1]>>
<1>4. last \in Seq(ImageSet) /\ Len(last) = 2 /\ last[1] = Images[2]
        /\ last[2] = Images[1]
  BY <1>3
<1>5. /\ DeinitOrder = elements \o last
      /\ \A n \in 1 .. L - 2 : DeinitOrder[n] = Images[n + 2]
      /\ DeinitOrder[L - 1] = Images[2] /\ DeinitOrder[L] = Images[1]
  <2>1. DeinitOrder = elements \o last
    BY DEF DeinitOrder
  <2>2. \A n \in 1 .. L : DeinitOrder[n] =
          IF n <= L - 2 THEN elements[n] ELSE last[n - (L - 2)]
    BY ONLY <1>1, <1>2, <1>4, <2>1
  <2>3. ASSUME NEW n \in 1 .. L - 2 PROVE DeinitOrder[n] = Images[n + 2]
    <3>1. n \in 1 .. L /\ n <= L - 2
      BY <1>1
    <3> QED
      BY <1>2, <2>2, <3>1
  <2>4. /\ L - 1 \in 1 .. L /\ ~(L - 1 <= L - 2) /\ (L - 1) - (L - 2) = 1
        /\ L \in 1 .. L /\ ~(L <= L - 2) /\ L - (L - 2) = 2
    BY <1>1
  <2> HIDE DEF elements, last
  <2> QED
    BY <1>4, <2>1, <2>2, <2>3, <2>4
<1>6. \A n \in 1 .. L : Images[n] \in ImageSet
  BY DEF ImageSet
<1>7. ASSUME NEW n \in 1 .. L PROVE DeinitOrder[n] \in ImageSet
  <2>1. n \in 1 .. L - 2 \/ n = L - 1 \/ n = L
    BY <1>1
  <2>2. n \in 1 .. L - 2 => n + 2 \in 1 .. L
    BY <1>1
  <2> QED
    BY <1>3, <1>5, <1>6, <2>1, <2>2
<1>8. ASSUME NEW i \in ImageSet
      PROVE  \E n \in 1 .. L : DeinitOrder[n] = i
  <2>1. PICK m \in 1 .. L : Images[m] = i
    BY DEF ImageSet
  <2>2. CASE m = 1
    BY <1>1, <1>5, <2>1, <2>2
  <2>3. CASE m = 2
    <3>1. L - 1 \in 1 .. L
      BY <1>0
    <3> QED
      BY <1>5, <2>1, <2>3, <3>1
  <2>4. CASE m > 2
    <3>1. m - 2 \in 1 .. L - 2 /\ m - 2 \in 1 .. L /\ (m - 2) + 2 = m
      BY <1>1, <2>4
    <3> QED
      BY <1>5, <2>1, <3>1
  <2>5. m \in Nat /\ m >= 1
    BY <2>1
  <2> HIDE DEF L
  <2> QED
    BY <2>2, <2>3, <2>4, <2>5
<1> QED
  BY <1>7, <1>8

(* The first of a set of slots or handles that is not empty.               *)
LEMMA LeastIn ==
  ASSUME NEW S, S \subseteq Nat, S # {} PROVE Least(S) \in S
<1>1. \E x \in S : \A y \in S : x <= y
  <2>1. PICK x \in S : \A y \in S : ~(<<y, x>> \in OpToRel(<, Nat))
    BY NatLessThanWellFounded, WFMin
  <2>2. ASSUME NEW y \in S PROVE x <= y
    <3>1. <<y, x>> \in Nat \X Nat /\ <<y, x>>[1] = y /\ <<y, x>>[2] = x
      OBVIOUS
    <3>2. y < x => <<y, x>> \in OpToRel(<, Nat)
      BY <3>1, Zenon DEF OpToRel
    <3>3. ~(y < x)
      BY <2>1, <3>2, Zenon
    <3> QED
      BY <3>3, SMT
  <2> QED
    BY <2>2
<1> QED
  BY <1>1 DEF Least

LEMMA FirstFree ==
  /\ FreeSlots # {} => Least(FreeSlots) \in Slots /\ ~alloced[Least(FreeSlots)]
  /\ FreeHandles # {} =>
       Least(FreeHandles) \in Handles /\ ~InUse[Least(FreeHandles)]
<1>1. FreeSlots \subseteq Nat /\ FreeHandles \subseteq Nat
  BY ImagesOK DEF FreeSlots, FreeHandles, Slots, Handles
<1>2. FreeSlots # {} => Least(FreeSlots) \in FreeSlots
  BY <1>1, LeastIn
<1>3. FreeHandles # {} => Least(FreeHandles) \in FreeHandles
  BY <1>1, LeastIn
<1> QED
  BY <1>2, <1>3 DEF FreeSlots, FreeHandles

LEMMA PointerKinds ==
  Null \notin Slots /\ Rom \notin Slots /\ Null # Rom /\ 0 \notin Handles
  BY ImagesOK DEF Null, Rom, Slots, Handles

LEMMA StoreInvInit == Init => StoreInv
<1> SUFFICES ASSUME Init PROVE StoreInv
  OBVIOUS
<1>1. StoreInit /\ pc = "none" /\ k = 1
  BY DEF Init, AppStart
<1>2. \A n \in 1 .. Len(Images) : Images[n] \in ImageSet
  BY DEF ImageSet
<1>3. StoreTypes
  BY <1>1 DEF StoreInit, StoreTypes, Pointers
<1>4. Held
  BY <1>1, PointerKinds DEF StoreInit, Held
<1>5. Opened /\ Progress
  BY <1>1, <1>2 DEF StoreInit, Opened, Progress, BeforeLoop, InLoop
<1> QED
  BY <1>3, <1>4, <1>5 DEF StoreInv

(* Steps that leave the images alone.                                      *)
LEMMA StoreQuiet ==
  ASSUME StoreInv, UNCHANGED store, UNCHANGED <<k, drw2d>>,
         \/ pc' = pc
         \/ /\ pc \notin {"copy", "hang"}
            /\ pc' \notin {"load", "copy", "free", "end"}
            /\ pc' \in InLoop => pc \in InLoop
            /\ pc' \in BeforeLoop => pc \in {"none", "wm", "alloc", "drw2d"}
  PROVE  StoreInv'
<1> USE DEF StoreInv, store
<1>1. StoreTypes'
  BY DEF StoreTypes
<1>2. Held'
  BY DEF Held, Owned
<1>3. Opened'
  BY DEF Opened, CanLoad
<1>4. Progress'
  BY DEF Progress, BeforeLoop, InLoop
<1> QED
  BY <1>1, <1>2, <1>3, <1>4

LEMMA ImageAt ==
  /\ \A n \in 1 .. Len(Images) : Images[n] \in ImageSet
  /\ \A i \in ImageSet : \E n \in 1 .. Len(Images) : Images[n] = i
  BY DEF ImageSet

(* Nothing is open between two loads.                                      *)
LEMMA BetweenLoads ==
  ASSUME StoreInv, loading = Idle
  PROVE  /\ \A h \in Handles : ~InUse[h]
         /\ FreeHandles # {}
         /\ \A s \in Slots : Owned(s) => Data[vidmem[s]] = s
<1>1. \A h \in Handles : ~InUse[h]
  BY PointerKinds DEF StoreInv, Held, Idle
<1>2. 1 \in Handles
  BY ImagesOK DEF Handles
<1>3. \A s \in Slots : Owned(s) => Data[vidmem[s]] = s
  BY ImagesOK DEF Owned, Idle
<1> QED
  BY <1>1, <1>2, <1>3 DEF FreeHandles

LEMMA StoreLoadBegin == ASSUME StoreInv, LoadBegin PROVE StoreInv'
<1> DEFINE i == Images[k]
<1> DEFINE f == Least(FreeHandles)
<1> DEFINE t == Least(FreeSlots)
<1>1. /\ pc = "load" /\ pc' = "copy" /\ k' = k /\ drw2d' = drw2d
      /\ CanLoad /\ loading = Idle /\ FOpens(i) /\ Data' = Data /\ backup' = backup
      /\ InUse' = [InUse EXCEPT ![f] = TRUE]
  BY DEF LoadBegin, LoadOpen, Goto, eeRomFs_FOpen
<1>2. StoreTypes /\ k \in 1 .. Len(Images) /\ i \in ImageSet /\ Data[i] = Null
  <2>1. StoreTypes /\ k \in 1 .. Len(Images)
    BY <1>1, ImagesOK DEF StoreInv, StoreTypes, Progress
  <2>2. k \in k .. Len(Images)
    BY <2>1, ImagesOK
  <2> QED
    BY <1>1, <2>1, <2>2, ImageAt DEF StoreInv, Progress, BeforeLoop
<1>3. f \in Handles /\ ~InUse[f] /\ \A h \in Handles : ~InUse[h]
  BY <1>1, FirstFree, BetweenLoads DEF FOpens
<1>4. \A s \in Slots : alloced[s] => vidmem[s] \in ImageSet
                                       /\ Data[vidmem[s]] = s
  BY <1>1, BetweenLoads DEF StoreInv, Held, Owned
<1>5. InUse' \in [Handles -> BOOLEAN] /\ \A h \in Handles : InUse'[h] => h = f
  BY <1>1, <1>2, <1>3 DEF StoreTypes
<1>6. Progress'
  BY <1>1 DEF StoreInv, Progress, BeforeLoop, InLoop
<1>7. CASE i \in Persistent
  <2>1. /\ loading' = [img |-> i, slot |-> 0, fp |-> f]
        /\ alloced' = alloced /\ vidmem' = vidmem
    BY <1>7 DEF LoadBegin, LoadOpen
  <2>2. StoreTypes'
    BY <1>1, <1>2, <1>5, <2>1 DEF StoreTypes
  <2>3. Held'
    BY <1>1, <1>4, <1>5, <2>1 DEF StoreInv, Held, Owned
  <2>4. Opened'
    BY <1>1, <1>3, <1>7, <2>1 DEF Opened, CanLoad
  <2> QED
    BY <1>6, <2>2, <2>3, <2>4 DEF StoreInv
<1>8. CASE i \notin Persistent
  <2>1. /\ loading' = [img |-> i, slot |-> t, fp |-> f] /\ FreeSlots # {}
        /\ alloced' = [alloced EXCEPT ![t] = TRUE]
        /\ vidmem' = [vidmem EXCEPT ![t] = i]
    BY <1>8 DEF LoadBegin, LoadOpen, demo_allocvidmem
  <2>2. t \in Slots /\ ~alloced[t]
    BY <2>1, FirstFree
  <2>3. StoreTypes'
    BY <1>1, <1>2, <1>5, <2>1, <2>2 DEF StoreTypes
  <2>4. \A s \in Slots : s # t => alloced'[s] = alloced[s]
                                    /\ vidmem'[s] = vidmem[s]
    BY <1>2, <2>1 DEF StoreTypes
  <2>5. alloced'[t] /\ vidmem'[t] = i
    BY <1>2, <2>1, <2>2 DEF StoreTypes
  <2>6. Held'
    <3>1. ASSUME NEW j \in ImageSet, Data[j] \in Slots
          PROVE  j \notin Persistent /\ alloced'[Data[j]] /\ vidmem'[Data[j]] = j
      BY <2>2, <2>4, <3>1 DEF StoreInv, Held
    <3>2. ASSUME NEW s \in Slots, alloced'[s] PROVE Owned(s)'
      BY <1>1, <1>2, <1>4, <2>1, <2>4, <2>5, <3>2 DEF Owned
    <3>3. ASSUME NEW s \in Slots, ~(alloced'[s]) PROVE vidmem'[s] = "none"
      BY <2>4, <2>5, <3>3 DEF StoreInv, Held
    <3>4. \A h \in Handles : InUse'[h] => loading'.fp = h
      BY <1>5, <2>1
    <3> QED
      BY <1>1, <3>1, <3>2, <3>3, <3>4 DEF StoreInv, Held
  <2>7. Opened'
    BY <1>1, <1>3, <1>8, <2>1, <2>2, <2>5 DEF Opened, CanLoad
  <2> QED
    BY <1>6, <2>3, <2>6, <2>7 DEF StoreInv
<1> QED
  BY <1>7, <1>8

(* What NextImage needs to know of the image it leaves behind.             *)
LEMMA ProgressNext ==
  ASSUME StoreInv, pc \in {"load", "copy"}, NextImage, drw2d' = drw2d,
         ~drw2d => Images[k] \in Persistent,
         Images[k] \in Persistent => Data'[Images[k]] = Rom,
         \A n \in 1 .. Len(Images) :
           n # k => Data'[Images[n]] = Data[Images[n]]
  PROVE  Progress' /\ k' \in Nat \ {0}
<1> DEFINE L == Len(Images)
<1>1. k \in Nat /\ k >= 1 /\ k <= L /\ L \in Nat /\ k' = k + 1
  BY ImagesOK DEF StoreInv, StoreTypes, Progress, NextImage
<1>2. ASSUME NEW n \in 1 .. k
      PROVE  /\ ~drw2d => Images[n] \in Persistent
             /\ Images[n] \in Persistent => Data'[Images[n]] = Rom
  <2>1. n = k \/ n \in 1 .. k - 1
    BY <1>1
  <2>2. n \in 1 .. L /\ (n \in 1 .. k - 1 => n # k)
    BY <1>1
  <2> QED
    BY <2>1, <2>2 DEF StoreInv, Progress
<1>3. ASSUME NEW n \in k + 1 .. L PROVE Data'[Images[n]] = Null
  <2>1. n \in 1 .. L /\ n # k /\ n \in k .. L
    BY <1>1
  <2> QED
    BY <2>1 DEF StoreInv, Progress, BeforeLoop
<1>4. CASE k = L
  <2>1. pc' = "set"
    BY <1>4 DEF NextImage
  <2>2. 1 \in 1 .. k
    BY <1>1
  <2>3. drw2d
    BY <1>2, <2>2, ImagesOK
  <2>4. ASSUME NEW i \in Persistent PROVE Data'[i] = Rom
    <3>1. PICK n \in 1 .. L : Images[n] = i
      BY ImageAt, ImagesOK
    <3> QED
      BY <1>2, <1>4, <3>1
  <2> QED
    BY <1>1, <2>1, <2>3, <2>4 DEF Progress, BeforeLoop, InLoop
<1>5. CASE k # L
  <2>1. pc' = "load" /\ k' <= L /\ k' - 1 = k
    BY <1>1, <1>5 DEF NextImage
  <2> QED
    BY <1>1, <1>2, <1>3, <2>1 DEF Progress, BeforeLoop, InLoop
<1> QED
  BY <1>4, <1>5

LEMMA StoreLoadSkip == ASSUME StoreInv, LoadSkip PROVE StoreInv'
<1> DEFINE i == Images[k]
<1>1. /\ pc = "load" /\ CanLoad /\ NextImage /\ drw2d' = drw2d
      /\ loading = Idle /\ ~FOpens(i) /\ Data' = Data
      /\ backup' = [backup EXCEPT ![i] = Null]
      /\ UNCHANGED <<alloced, vidmem, InUse, loading>>
  BY DEF LoadSkip, LoadMissing
<1>2. i \notin Persistent
  BY <1>1, BetweenLoads, ImagesOK DEF FOpens
<1>3. Progress' /\ k' \in Nat \ {0}
  BY <1>1, <1>2, ProgressNext DEF CanLoad
<1>4. pc' # "copy" /\ pc' # "hang"
  BY <1>1 DEF NextImage
<1>5. StoreTypes'
  BY <1>1, <1>3 DEF StoreInv, StoreTypes
<1>6. Held' /\ Opened'
  BY <1>1, <1>4 DEF StoreInv, Held, Owned, Opened
<1> QED
  BY <1>3, <1>5, <1>6 DEF StoreInv

LEMMA StoreLoadEnd == ASSUME StoreInv, LoadEnd PROVE StoreInv'
<1> DEFINE i == Images[k]
<1>1. /\ pc = "copy" /\ NextImage /\ drw2d' = drw2d
      /\ loading.img = i /\ loading' = Idle
      /\ UNCHANGED <<alloced, vidmem>>
      /\ InUse' = [InUse EXCEPT ![loading.fp] = FALSE]
  BY DEF LoadEnd, LoadCopy, eeRomFs_FClose, StoreInv, Opened
<1>2. /\ backup' = [backup EXCEPT ![i] = Data[i]]
      /\ Data' = [Data EXCEPT ![i] = IF i \in Persistent THEN Rom
                                                         ELSE loading.slot]
  BY <1>1 DEF LoadEnd, LoadCopy
<1>3. StoreTypes /\ k \in 1 .. Len(Images) /\ i \in ImageSet /\ Data[i] = Null
  <2>1. StoreTypes /\ k \in 1 .. Len(Images)
    BY <1>1, ImagesOK DEF StoreInv, StoreTypes, Progress
  <2>2. k \in k .. Len(Images)
    BY <2>1, ImagesOK
  <2> QED
    BY <1>1, <2>1, <2>2, ImageAt DEF StoreInv, Progress, BeforeLoop
<1>4. /\ i \notin Persistent => /\ loading.slot \in Slots
                                /\ alloced[loading.slot]
                                /\ vidmem[loading.slot] = i
      /\ i \in Persistent => loading.slot = 0
  BY <1>1 DEF StoreInv, Opened
<1>5. /\ Data' \in [ImageSet -> Pointers]
      /\ \A j \in ImageSet : j # i => Data'[j] = Data[j]
      /\ Data'[i] = IF i \in Persistent THEN Rom ELSE loading.slot
  BY <1>2, <1>3, <1>4 DEF StoreTypes, Pointers
<1>6. Progress' /\ k' \in Nat \ {0}
  <2>1. \A n \in 1 .. Len(Images) : n # k => Images[n] # i
    BY <1>3, ImagesOK
  <2>2. ~drw2d => i \in Persistent
    BY <1>1 DEF StoreInv, Opened, CanLoad
  <2> QED
    BY <1>1, <1>5, <2>1, <2>2, ImageAt, ProgressNext
<1>7. pc' # "copy" /\ pc' # "hang"
  BY <1>1 DEF NextImage
<1>8. StoreTypes'
  BY <1>1, <1>2, <1>3, <1>5, <1>6 DEF StoreTypes
<1>9. Held'
  <2>1. ASSUME NEW j \in ImageSet, Data'[j] \in Slots
        PROVE  j \notin Persistent /\ alloced[Data'[j]] /\ vidmem[Data'[j]] = j
    BY <1>4, <1>5, <2>1, PointerKinds DEF StoreInv, Held
  <2>2. ASSUME NEW j \in ImageSet, Data'[j] = Rom PROVE j \in Persistent
    BY <1>4, <1>5, <2>2, PointerKinds DEF StoreInv, Held
  <2>3. ASSUME NEW s \in Slots, alloced[s]
        PROVE  vidmem[s] \in ImageSet /\ Data'[vidmem[s]] = s
    <3>1. Owned(s)
      BY <1>1, <2>3 DEF StoreInv, Held
    <3>2. CASE vidmem[s] = i
      BY <1>1, <1>3, <1>4, <1>5, <3>1, <3>2, PointerKinds DEF Owned, Null
    <3>3. CASE vidmem[s] # i
      BY <1>1, <1>5, <3>1, <3>3 DEF Owned
    <3> QED
      BY <3>2, <3>3
  <2>4. \A h \in Handles : ~(InUse'[h])
    BY <1>1, <1>3 DEF StoreInv, Held, StoreTypes
  <2>5. \A s \in Slots : ~alloced[s] => vidmem[s] = "none"
    BY DEF StoreInv, Held
  <2> QED
    BY <1>1, <2>1, <2>2, <2>3, <2>4, <2>5 DEF Held, Owned
<1>10. Opened'
  BY <1>1, <1>7 DEF Opened
<1> QED
  BY <1>6, <1>8, <1>9, <1>10 DEF StoreInv

LEMMA StoreLoadHang == ASSUME StoreInv, LoadHang PROVE StoreInv'
<1>1. /\ pc = "load" /\ pc' = "hang" /\ k' = k /\ loading = Idle
      /\ UNCHANGED <<InUse, Data, backup, loading, drw2d>>
  BY DEF LoadHang, LoadFailed, LoadNoMemory
<1>2. /\ alloced' \in [Slots -> BOOLEAN] /\ vidmem' = vidmem
      /\ \A s \in Slots : alloced[s] => alloced'[s]
  <2>1. CASE FreeSlots = {}
    BY <2>1 DEF LoadHang, LoadNoMemory, StoreInv, StoreTypes
  <2>2. CASE FreeSlots # {}
    BY <2>2, FirstFree DEF LoadHang, LoadNoMemory, demo_allocvidmem,
                           StoreInv, StoreTypes
  <2> QED
    BY <2>1, <2>2
<1>3. StoreTypes'
  BY <1>1, <1>2 DEF StoreInv, StoreTypes
<1>4. Held'
  BY <1>1, <1>2 DEF StoreInv, Held
<1>5. Opened' /\ Progress'
  BY <1>1 DEF StoreInv, Opened, Progress, BeforeLoop, InLoop
<1> QED
  BY <1>3, <1>4, <1>5 DEF StoreInv

LEMMA StoreFreeImage == ASSUME StoreInv, FreeImage PROVE StoreInv'
<1> DEFINE i == DeinitOrder[k]
<1>1. /\ pc = "free" /\ pc' = "free" /\ k <= Len(Images) /\ k' = k + 1
      /\ loading = Idle /\ UNCHANGED <<InUse, backup, loading, drw2d>>
      /\ Data' = [Data EXCEPT ![i] = backup[i]]
  BY ImagesOK DEF FreeImage, FreedAll, Deinit2DImg, StoreInv, StoreTypes, Opened
<1>2. StoreTypes /\ k \in 1 .. Len(Images) /\ i \in ImageSet
  BY <1>1, ImagesOK, DeinitVisits, SMTT(20) DEF StoreInv, StoreTypes
<1>3. /\ Data' \in [ImageSet -> Pointers] /\ Data'[i] = Null
      /\ \A j \in ImageSet : j # i => Data'[j] = Data[j]
  BY <1>1, <1>2 DEF StoreTypes, Pointers
<1>4. /\ alloced' \in [Slots -> BOOLEAN]
      /\ vidmem' \in [Slots -> ImageSet \cup {"none"}]
      /\ \A s \in Slots :
           IF s = Data[i] THEN ~(alloced'[s]) /\ vidmem'[s] = "none"
                          ELSE alloced'[s] = alloced[s] /\ vidmem'[s] = vidmem[s]
  <2>1. CASE i \in Persistent
    <3>1. Data[i] \notin Slots
      BY <1>2, <2>1 DEF StoreInv, Held
    <3> QED
      BY <1>2, <2>1, <3>1 DEF FreeImage, Deinit2DImg, StoreTypes
  <2>2. CASE i \notin Persistent
    BY <1>2, <2>2, ZenonT(20) DEF FreeImage, Deinit2DImg, demo_freevidmem, StoreTypes
  <2> QED
    BY <2>1, <2>2
<1>5. StoreTypes'
  BY <1>1, <1>2, <1>3, <1>4 DEF StoreTypes
<1>6. Held'
  <2>1. ASSUME NEW j \in ImageSet, Data'[j] \in Slots
        PROVE  /\ j \notin Persistent
               /\ alloced'[Data'[j]] /\ vidmem'[Data'[j]] = j
    <3>1. j # i /\ Data'[j] = Data[j]
      BY <1>3, <2>1, PointerKinds
    <3>2. j \notin Persistent /\ alloced[Data[j]] /\ vidmem[Data[j]] = j
      BY <2>1, <3>1 DEF StoreInv, Held
    <3>3. Data[j] # Data[i]
      BY <1>2, <2>1, <3>1, <3>2 DEF StoreInv, Held
    <3> QED
      BY <1>4, <2>1, <3>1, <3>2, <3>3
  <2>2. ASSUME NEW j \in ImageSet, Data'[j] = Rom PROVE j \in Persistent
    BY <1>3, <2>2, PointerKinds DEF StoreInv, Held
  <2>3. ASSUME NEW s \in Slots, alloced'[s] PROVE Owned(s)'
    <3>1. s # Data[i] /\ alloced[s] /\ vidmem'[s] = vidmem[s]
      BY <1>4, <2>3
    <3>2. vidmem[s] \in ImageSet /\ Data[vidmem[s]] = s
      BY <1>1, <3>1, BetweenLoads DEF StoreInv, Held, Owned
    <3> QED
      BY <1>3, <3>1, <3>2 DEF Owned
  <2>4. \A s \in Slots : ~(alloced'[s]) => vidmem'[s] = "none"
    BY <1>4 DEF StoreInv, Held
  <2> QED
    BY <1>1, <2>1, <2>2, <2>3, <2>4 DEF StoreInv, Held
<1>7. Opened'
  BY <1>1 DEF StoreInv, Opened
<1>8. Progress'
  <2>1. ASSUME NEW n \in 1 .. Len(Images), n < k + 1
        PROVE  Data'[DeinitOrder[n]] = Null
    <3>1. n = k \/ n < k
      BY <1>2, <2>1, ImagesOK
    <3>2. DeinitOrder[n] \in ImageSet
      BY DeinitVisits
    <3> QED
      BY <1>1, <1>3, <3>1, <3>2 DEF StoreInv, Progress
  <2> QED
    BY <1>1, <2>1 DEF Progress, BeforeLoop, InLoop
<1> QED
  BY <1>5, <1>6, <1>7, <1>8 DEF StoreInv

LEMMA StoreAppFrame == ASSUME StoreInv, AppFrame PROVE StoreInv'
<1>1. /\ pc \in InLoop /\ pc' \in InLoop \cup {"hang", "release"}
      /\ UNCHANGED store /\ UNCHANGED <<k, drw2d>>
  <2>1. CASE FramebufferSet \/ Render
    BY <2>1 DEF FramebufferSet, Render, InLoop
  <2>2. CASE GpuFinish \/ SurfacePropertySet \/ Flush
    BY <2>2 DEF GpuFinish, SurfacePropertySet, Flush, Goto, InLoop
  <2>3. CASE FrameEnd \/ LoopExit
    BY <2>3 DEF FrameEnd, LoopExit, Goto, InLoop
  <2> QED
    BY <2>1, <2>2, <2>3 DEF AppFrame
<1> QED
  BY <1>1, StoreQuiet DEF InLoop, BeforeLoop

LEMMA StoreInvStep == StoreInv /\ [Next]_vars => StoreInv'
<1> SUFFICES ASSUME StoreInv, [Next]_vars PROVE StoreInv'
  OBVIOUS
<1>1. CASE StartStep \/ StartFails \/ \E t \in Workers : WorkerStep(t)
  BY <1>1, StoreQuiet DEF StartStep, StartFails, WorkerStep, app
<1>2. CASE MainDhd \/ MainCreateFails \/ MainJoin
  BY <1>2, StoreQuiet DEF MainDhd, MainCreateFails, MainJoin, app
<1>3. CASE MainCreate
  BY <1>3, StoreQuiet DEF MainCreate, Goto, BeforeLoop, InLoop
<1>4. CASE AppInit \/ AllocFb(mmngr)
  <2>1. CASE WmInit \/ AllocFb(mmngr)
    BY <2>1, StoreQuiet DEF WmInit, AllocFb, BeforeLoop, InLoop
  <2>2. CASE Drw2DInit
    <3>1. pc = "drw2d" /\ pc' = "load" /\ UNCHANGED store /\ k' = k
      BY <2>2 DEF Drw2DInit, Goto
    <3>2. k = 1 /\ k <= Len(Images)
      BY <3>1, ImagesOK DEF StoreInv, Progress
    <3>3. StoreTypes' /\ Held' /\ Opened'
      BY <3>1 DEF StoreInv, StoreTypes, Held, Owned, Opened, store
    <3>4. Progress'
      BY <3>1, <3>2 DEF StoreInv, Progress, BeforeLoop, InLoop, store
    <3> QED
      BY <3>3, <3>4 DEF StoreInv
  <2> QED
    BY <1>4, <2>1, <2>2, StoreLoadBegin, StoreLoadSkip, StoreLoadEnd,
       StoreLoadHang DEF AppInit
<1>5. CASE AppDeInit
  <2>1. CASE SurfaceReleaseCall
    BY <2>1, StoreQuiet DEF SurfaceReleaseCall, Goto, BeforeLoop, InLoop
  <2>2. CASE DevDeinitCall
    BY <2>2 DEF DevDeinitCall, Goto, StoreInv, StoreTypes, Held, Owned, Opened,
                Progress, BeforeLoop, InLoop, store
  <2>3. CASE Drw2DDeinit
    BY <2>3 DEF Drw2DDeinit, Goto, FreedAll, StoreInv, StoreTypes, Held, Owned,
                Opened, Progress, BeforeLoop, InLoop, store
  <2> QED
    BY <1>5, <2>1, <2>2, <2>3, StoreFreeImage DEF AppDeInit
<1>6. CASE Engine \/ Screen
  BY <1>6, StoreQuiet DEF Engine, Screen, app
<1>7. CASE UNCHANGED vars
  BY <1>7, StoreQuiet DEF vars, app
<1> QED
  BY <1>1, <1>2, <1>3, <1>4, <1>5, <1>6, <1>7, StoreAppFrame
     DEF Next, MainThread, AppThread, AppStep

(* For every number of images, slots and handles: no marked slot is lost   *)
(* while the demo goes on (demo_allocvidmem, demo_freevidmem, Init2DImg,   *)
(* Deinit2DImg).                                                           *)
THEOREM SlotsAccountedForHolds == Spec => []SlotsAccountedFor
<1>1. StoreInv => SlotsAccountedFor
  <2> SUFFICES ASSUME StoreInv, NEW s \in Slots, alloced[s], pc # "hang"
               PROVE  Cardinality({i \in ImageSet :
                        Data[i] = s \/ (loading.img = i /\ loading.slot = s)}) = 1
    BY DEF SlotsAccountedFor
  <2> DEFINE owners == {i \in ImageSet :
                        Data[i] = s \/ (loading.img = i /\ loading.slot = s)}
  <2>1. Owned(s)
    BY DEF StoreInv, Held
  <2>2. ASSUME NEW i \in ImageSet, Data[i] = s PROVE vidmem[s] = i
    BY <2>2 DEF StoreInv, Held
  <2>3. ASSUME NEW i \in ImageSet, loading.img = i, loading.slot = s
        PROVE  vidmem[s] = i
    <3>1. pc = "copy"
      BY <2>3, ImagesOK DEF StoreInv, Opened, Idle
    <3>2. i \notin Persistent
      BY <2>3, <3>1, PointerKinds DEF StoreInv, Opened, Null
    <3> QED
      BY <2>3, <3>1, <3>2 DEF StoreInv, Opened
  <2>4. owners = {vidmem[s]}
    BY <2>1, <2>2, <2>3 DEF Owned
  <2> QED
    BY <2>4, FS_Singleton
<1> QED
  BY StoreInvInit, StoreInvStep, <1>1, PTL DEF Spec
-----------------------------------------------------------------------------
(* The engine reads while the images stay where they are: it is busy       *)
(* between Render and GpuFinish only, or a DRW2D call has failed.          *)
ReadInv ==
  gpu.busy /\ ~ret =>
    drw2d /\ gpu.reads \subseteq ImageSet /\ \A i \in gpu.reads : Readable(i)

LEMMA ReadQuiet ==
  ASSUME ReadInv, UNCHANGED store, drw2d' = drw2d, gpu' = gpu, ret => ret'
  PROVE  ReadInv'
  BY DEF ReadInv, Readable, store

LEMMA ReadRender ==
  ASSUME StoreInv, Render PROVE ReadInv'
<1>1. pc = "render" /\ UNCHANGED store /\ drw2d' = drw2d
  BY DEF Render
<1>2. PICK reads \in SUBSET ImageSet :
        gpu'.reads = {i \in reads : Drawable(i)}
  BY DEF Render, Submit
<1>3. drw2d /\ \A i \in Persistent : Data[i] = Rom
  BY <1>1 DEF StoreInv, Progress, InLoop
<1>4. ASSUME NEW i \in ImageSet, Drawable(i) PROVE Readable(i)'
  <2>1. CASE i \in Persistent
    BY <1>1, <1>3, <2>1 DEF Readable, store
  <2>2. CASE i \notin Persistent
    <3>1. Data[i] \in Slots
      BY <1>4, <2>2 DEF Drawable, StoreInv, StoreTypes, Pointers, Held
    <3> QED
      BY <1>1, <2>2, <3>1 DEF Readable, StoreInv, Held, store
  <2> QED
    BY <2>1, <2>2
<1> QED
  BY <1>1, <1>2, <1>3, <1>4 DEF ReadInv

LEMMA ReadInvStep ==
  StoreInv /\ TearInv /\ ReadInv /\ [Next]_vars => ReadInv'
<1> SUFFICES ASSUME StoreInv, TearInv, ReadInv, [Next]_vars PROVE ReadInv'
  OBVIOUS
<1>1. CASE ~AppThread
  <2>1. UNCHANGED store /\ UNCHANGED <<drw2d, ret>>
    BY <1>1 DEF Next, StartStep, StartFails, WorkerStep, MainThread, MainDhd,
                MainCreate, MainCreateFails, MainJoin, Engine, Screen, app, vars
  <2>2. gpu' = gpu \/ gpu' = Resting
    BY <1>1 DEF Next, StartStep, StartFails, WorkerStep, MainThread, MainDhd,
                MainCreate, MainCreateFails, MainJoin, Engine, GpuDone, Screen,
                Vsync, hw, vars
  <2> QED
    BY <2>1, <2>2, ReadQuiet DEF ReadInv, Resting
<1>2. CASE AppInit \/ AllocFb(mmngr)
  <2>1. pc \in BeforeLoop /\ gpu' = gpu
    BY <1>2 DEF AppInit, WmInit, AllocFb, Drw2DInit, LoadBegin, LoadSkip,
                LoadEnd, LoadHang, Goto, BeforeLoop, hw
  <2> QED
    BY <2>1 DEF TearInv, ReadInv
<1>3. CASE AppFrame
  <2>1. CASE Render
    BY <2>1, ReadRender
  <2>2. CASE FramebufferSet
    <3>1. ~gpu.busy /\ gpu' = gpu
      BY <2>2 DEF FramebufferSet, LoopOn, TearInv, FrameInv
    <3> QED
      BY <3>1 DEF ReadInv
  <2>3. CASE GpuFinish \/ SurfacePropertySet \/ Flush \/ FrameEnd \/ LoopExit
    <3>1. UNCHANGED store /\ UNCHANGED <<drw2d, gpu>>
      BY <2>3 DEF GpuFinish, SurfacePropertySet, Flush, FrameEnd, LoopExit, hw
    <3>2. ret => ret'
      BY <2>3 DEF GpuFinish, SurfacePropertySet, Flush, FrameEnd, LoopExit
    <3> QED
      BY <3>1, <3>2, ReadQuiet
  <2> QED
    BY <1>3, <2>1, <2>2, <2>3 DEF AppFrame
<1>4. CASE AppDeInit
  <2>1. /\ pc \in {"release", "devdeinit", "free"}
        /\ gpu' = gpu /\ ret' = ret /\ drw2d' = drw2d
    BY <1>4 DEF AppDeInit, SurfaceReleaseCall, DevDeinitCall, FreeImage,
                Drw2DDeinit, Goto, hw
  <2>2. gpu.busy => ret
    BY <2>1 DEF TearInv, FrameInv
  <2> QED
    BY <2>1, <2>2 DEF ReadInv
<1> QED
  BY <1>1, <1>2, <1>3, <1>4 DEF AppThread, AppStep

(* For every set of images and faults: the engine draws with an open       *)
(* device and from loaded images, although AppInit ignores the result of   *)
(* Drw2DInit and images may be missing.                                    *)
THEOREM EngineReadsImagesHolds == Spec => []EngineReadsImages
<1>1. Init => ReadInv
  BY DEF Init, HwInit, Resting, ReadInv
<1>2. ReadInv => EngineReadsImages
  BY DEF ReadInv, EngineReadsImages
<1> QED
  BY StoreInvInit, StoreInvStep, TearInvInit, TearInvStep, ReadInvStep,
     <1>1, <1>2, PTL DEF Spec
-----------------------------------------------------------------------------
(* After the surface was released nothing brings the screen back: a        *)
(* vertical blank that is still due finds no surface.                      *)
OffInv ==
  /\ pc \in {"devdeinit", "free", "end"} => surf = FALSE /\ scan = NoBuf
  /\ pc \in {"free", "end"} => dev = FALSE

LEMMA OffInvStep == OffInv /\ [Next]_vars => OffInv'
<1> SUFFICES ASSUME OffInv, [Next]_vars PROVE OffInv'
  OBVIOUS
<1> USE DEF OffInv
<1>1. CASE ~AppThread
  <2>1. CASE Screen
    BY <2>1 DEF Screen, Vsync, app
  <2>2. CASE ~Screen
    BY <1>1, <2>2 DEF Next, StartStep, StartFails, WorkerStep, MainThread,
       MainDhd, MainCreate, MainCreateFails, MainJoin, Goto, Engine, GpuDone,
       app, hw, vars
  <2> QED
    BY <2>1, <2>2
<1>2. CASE AppInit \/ AllocFb(mmngr)
  <2>1. pc' \in BeforeLoop \cup {"set", "hang", "release"}
    BY <1>2 DEF AppInit, WmInit, AllocFb, Drw2DInit, LoadBegin, LoadSkip,
                LoadEnd, LoadHang, LoadFailed, NextImage, Goto, BeforeLoop
  <2> QED
    BY <2>1 DEF BeforeLoop
<1>3. CASE AppFrame
  <2>1. pc' \in InLoop \cup {"hang", "release"}
    BY <1>3 DEF AppFrame, FramebufferSet, Render, GpuFinish,
                SurfacePropertySet, Flush, FrameEnd, LoopExit, Goto, InLoop
  <2> QED
    BY <2>1 DEF InLoop
<1>4. CASE AppDeInit
  BY <1>4 DEF AppDeInit, SurfaceReleaseCall, SurfaceRelease, DevDeinitCall,
              DevDeinit, FreeImage, Drw2DDeinit, Goto, hw
<1> QED
  BY <1>1, <1>2, <1>3, <1>4 DEF AppThread, AppStep

(* For every set of images and faults, wherever AppInit gave up: when the  *)
(* application thread has ended nothing is held any more (AppDeInit,       *)
(* DeInitAppCluster).                                                      *)
THEOREM EndReleasesAllHolds == Spec => []EndReleasesAll
<1>1. Init => OffInv
  BY DEF Init, AppStart, OffInv
<1>2. StoreInv /\ OffInv => EndReleasesAll
  <2> SUFFICES ASSUME StoreInv, OffInv, pc = "end"
               PROVE  /\ \A s \in Slots : ~alloced[s] /\ vidmem[s] = "none"
                      /\ \A h \in Handles : ~InUse[h]
                      /\ \A i \in ImageSet : Data[i] = Null
    BY DEF EndReleasesAll, OffInv
  <2>1. loading = Idle
    BY DEF StoreInv, Opened
  <2>2. ASSUME NEW i \in ImageSet PROVE Data[i] = Null
    <3>1. PICK n \in 1 .. Len(Images) : DeinitOrder[n] = i
      BY DeinitVisits
    <3>2. n < k
      BY ImagesOK DEF StoreInv, StoreTypes, Progress
    <3> QED
      BY <3>1, <3>2 DEF StoreInv, Progress
  <2>3. ASSUME NEW s \in Slots PROVE ~alloced[s]
    BY <2>1, <2>2, BetweenLoads, PointerKinds DEF StoreInv, Held, Owned
  <2>4. ASSUME NEW s \in Slots PROVE vidmem[s] = "none"
    BY <2>3 DEF StoreInv, Held
  <2> QED
    BY <2>1, <2>2, <2>3, <2>4, BetweenLoads
<1> QED
  BY StoreInvInit, StoreInvStep, OffInvStep, <1>1, <1>2, PTL DEF Spec
-----------------------------------------------------------------------------
(* ShownComplete needs what is in both buffers at each point of the loop:  *)
(* until the flush the visible one holds the frame before, then the buffer *)
(* of this frame's parity holds this frame.                                *)
LastFrame == (cnt - 1) % CntMod
HoldsLast(b) == b \in Buf => px[b].done /\ px[b].frame = LastFrame

ShownFrame ==
  /\ scan \in Buf => px[scan].done
  /\ pending \in Buf => px[pending].done
  /\ pc \in {"set", "render", "finish", "buffer"} /\ ~wmErr =>
       pending = scan /\ HoldsLast(scan)
  /\ pc \in {"render", "finish", "buffer"} => ~wmErr
  /\ pc = "hang" => wmErr \/ (pending = scan /\ HoldsLast(scan))
  /\ pc = "finish" => px[idx].frame = cnt /\ (gpu.busy \/ px[idx].done)
  /\ pc \in {"buffer", "flush", "vsync"} => px[idx].frame = cnt /\ px[idx].done
  /\ pc = "flush" => ~flip
  /\ pc = "flush" \/ (pc = "vsync" /\ flip) => wmErr \/ HoldsLast(scan)
  /\ pc \in {"release", "devdeinit", "free", "end"} => wmErr

ShownTypes ==
  /\ pc \in BeforeLoop \cup InLoop
             \cup {"hang", "release", "devdeinit", "free", "end"}
  /\ px \in [Buf -> [frame : Cnt, done : BOOLEAN]]
  /\ scan \in Buf \cup {NoBuf} /\ pending \in Buf \cup {NoBuf}
  /\ pc \in BeforeLoop => pending = NoBuf
  /\ pc \in InLoop \cup {"drw2d", "load", "copy"} => fbuf = Buf
  /\ scan # NoBuf \/ pending # NoBuf => fbuf = Buf

ShownInv == ShownTypes /\ (~ret => ShownFrame)

LEMMA BufSet == Buf = {0, 1} /\ NoBuf = 2 /\ (cnt \in Cnt => idx \in Buf)
  BY IdxRange DEF Buf, NoBuf, MAX_NR_FBUF

LEMMA ShownInvInit == Init => ShownInv
  BY CntOK DEF Init, HwInit, AppStart, ShownInv, ShownTypes, ShownFrame,
               HoldsLast, BeforeLoop, InLoop, NoBuf, Buf, MAX_NR_FBUF, Cnt

LEMMA ShownQuiet ==
  ASSUME ShownInv, UNCHANGED <<pc, cnt, ret, wmErr, fbuf>>, UNCHANGED hw
  PROVE  ShownInv'
  BY DEF ShownInv, ShownTypes, ShownFrame, HoldsLast, LastFrame, idx, hw

LEMMA ShownAppInit ==
  ASSUME TearInv, ShownInv, AppInit \/ AllocFb(mmngr) PROVE ShownInv'
<1> USE DEF ShownInv, ShownTypes, BeforeLoop, InLoop
<1>1. /\ pc \in BeforeLoop /\ pc' \in BeforeLoop \cup {"set", "hang", "release"}
      /\ UNCHANGED <<cnt, pending, scan, px, wmErr>>
      /\ pc' = "release" => ret'
  BY DEF AppInit, WmInit, AllocFb, AllocFailed, Drw2DInit, LoadBegin, LoadSkip,
         LoadEnd, LoadHang, LoadFailed, NextImage, Goto, hw
<1>2. scan = NoBuf /\ pending = NoBuf
  BY <1>1 DEF TearInv
<1>3. pc' \in InLoop \cup {"drw2d", "load", "copy"} => fbuf' = Buf
  BY DEF AppInit, WmInit, AllocFb, AllocFailed, Drw2DInit, LoadBegin, LoadSkip,
         LoadEnd, LoadHang, LoadFailed, NextImage, Goto
<1>4. ~(ret') => ShownFrame'
  <2>1. NoBuf \notin Buf
    BY BufSet
  <2>2. pc' \notin {"render", "finish", "buffer", "flush", "vsync", "release",
                    "devdeinit", "free", "end"} \/ ret'
    BY <1>1
  <2> QED
    BY <1>1, <1>2, <2>1, <2>2 DEF ShownFrame, HoldsLast
<1> QED
  BY <1>1, <1>2, <1>3, <1>4

LEMMA LastOfNext == ASSUME cnt \in Cnt PROVE (NextCnt - 1) % CntMod = cnt
<1>1. CntMod \in Nat /\ cnt \in Nat /\ cnt < CntMod
  BY CntOK DEF Cnt
<1>2. CASE cnt + 1 < CntMod
  <2>1. (cnt + 1) % CntMod = cnt + 1 /\ cnt % CntMod = cnt
    BY <1>1, <1>2
  <2> QED
    BY <1>1, <2>1 DEF NextCnt
<1>3. CASE cnt + 1 = CntMod
  <2>1. (cnt + 1) % CntMod = 0 /\ (-1) % CntMod = CntMod - 1
    BY <1>1, <1>3
  <2> QED
    BY <1>1, <1>3, <2>1 DEF NextCnt
<1> QED
  BY <1>1, <1>2, <1>3

LEMMA ShownAppFrame ==
  ASSUME TearInv, ShownInv, AppFrame PROVE ShownInv'
<1> USE DEF ShownInv, ShownTypes, BeforeLoop, InLoop
<1>0. cnt \in Cnt /\ idx \in Buf /\ Buf = {0, 1} /\ NoBuf = 2
  BY BufSet DEF TearInv
<1>1. CASE FramebufferSet
  <2>1. /\ pc = "set" /\ ~ret /\ ~wmErr /\ pc' = "render"
        /\ UNCHANGED <<cnt, wmErr, fbuf, pending, scan, px>>
    BY <1>1 DEF FramebufferSet, LoopOn
  <2> QED
    BY <2>1 DEF ShownFrame, HoldsLast, LastFrame
<1>2. CASE Render
  <2>1. /\ pc = "render" /\ pc' \in {"finish", "hang"} /\ gpu'.busy
        /\ UNCHANGED <<cnt, ret, wmErr, fbuf, pending, scan, flip>>
        /\ px' = [b \in Buf |-> IF b = target
                                THEN [frame |-> cnt, done |-> FALSE]
                                ELSE px[b]]
    BY <1>2 DEF Render, Submit
  <2>2. px' \in [Buf -> [frame : Cnt, done : BOOLEAN]]
    BY <1>0, <2>1
  <2>3. CASE ~ret
    <3>1. target = idx /\ scan # idx /\ ~wmErr /\ pending = scan /\ HoldsLast(scan)
      BY <2>1, <2>3 DEF TearInv, FrameInv, Away, ShownFrame
    <3>2. px'[idx].frame = cnt /\ (scan \in Buf => px'[scan] = px[scan])
      BY <1>0, <2>1, <3>1
    <3> QED
      BY <2>1, <2>2, <2>3, <3>1, <3>2 DEF ShownFrame, HoldsLast, LastFrame, idx
  <2> QED
    BY <2>1, <2>2, <2>3
<1>3. CASE GpuFinish
  <2>1. /\ pc = "finish" /\ pc' = "buffer" /\ (~(ret') => ~ret /\ ~gpu.busy)
        /\ UNCHANGED <<cnt, wmErr, fbuf, pending, scan, flip, px>>
    BY <1>3 DEF GpuFinish, EngineIdle, Goto, hw
  <2> QED
    BY <2>1 DEF ShownFrame, HoldsLast, LastFrame, idx
<1>4. CASE SurfacePropertySet
  <2>1. /\ pc = "buffer" /\ pc' = "flush"
        /\ UNCHANGED <<cnt, ret, fbuf, scan, flip, px>>
        /\ pending' \in {idx, pending}
    BY <1>4 DEF SurfacePropertySet, Goto
  <2>2. fbuf = Buf
    BY <2>1
  <2>3. CASE ~ret
    <3>1. ~wmErr /\ ~flip /\ HoldsLast(scan)
      BY <2>1, <2>3 DEF ShownFrame, TearInv, FrameInv, Away
    <3> QED
      BY <1>0, <2>1, <2>2, <2>3, <3>1 DEF ShownFrame, HoldsLast, LastFrame, idx
  <2> QED
    BY <1>0, <2>1, <2>2, <2>3
<1>5. CASE Flush
  <2>1. /\ pc = "flush" /\ pc' \in {"vsync", "next"}
        /\ UNCHANGED <<cnt, ret, fbuf, pending, scan, px>>
        /\ wmErr => wmErr'
    BY <1>5 DEF Flush
  <2> QED
    BY <2>1 DEF ShownFrame, HoldsLast, LastFrame, idx
<1>6. CASE FrameEnd
  <2>1. /\ pc = "next" \/ (pc = "vsync" /\ ~flip)
        /\ pc' = "set" /\ cnt' = NextCnt
        /\ UNCHANGED <<ret, wmErr, fbuf, pending, scan, flip, px>>
    BY <1>6 DEF FrameEnd, Flipped, hw
  <2>2. ASSUME ~ret, ~wmErr
        PROVE  pending = scan /\ px[scan].done /\ px[scan].frame = cnt
    BY <2>1, <2>2 DEF ShownFrame, TearInv, FrameInv
  <2>3. LastFrame' = cnt
    BY <1>0, <2>1, LastOfNext DEF LastFrame
  <2> QED
    BY <2>1, <2>2, <2>3 DEF ShownFrame, HoldsLast
<1>7. CASE LoopExit
  <2>1. /\ pc = "set" /\ pc' = "release" /\ (ret \/ wmErr)
        /\ UNCHANGED <<cnt, ret, wmErr, fbuf, pending, scan, flip, px>>
    BY <1>7 DEF LoopExit, LoopOn, Goto, hw
  <2> QED
    BY <2>1 DEF ShownFrame
<1> QED
  BY <1>1, <1>2, <1>3, <1>4, <1>5, <1>6, <1>7 DEF AppFrame

LEMMA ShownHw ==
  ASSUME TearInv, ShownInv, Engine \/ Screen PROVE ShownInv'
<1> USE DEF ShownInv, ShownTypes
<1>0. cnt \in Cnt /\ idx \in Buf /\ Buf = {0, 1} /\ NoBuf = 2
  BY BufSet DEF TearInv
<1>1. CASE Engine
  <2>1. /\ UNCHANGED <<pc, cnt, ret, wmErr, fbuf, pending, scan, flip>>
        /\ gpu.busy
        /\ px' = [b \in Buf |-> IF b = gpu.into THEN [px[b] EXCEPT !.done = TRUE]
                                                ELSE px[b]]
    BY <1>1 DEF Engine, GpuDone, app
  <2>2. /\ px' \in [Buf -> [frame : Cnt, done : BOOLEAN]]
        /\ \A b \in Buf : /\ px'[b].frame = px[b].frame
                          /\ px[b].done \/ b = gpu.into => px'[b].done
    BY <2>1
  <2>3. ~ret => pc \in {"finish", "hang"} /\ gpu.into = idx
    BY <2>1 DEF TearInv, FrameInv
  <2> QED
    BY <1>0, <2>1, <2>2, <2>3 DEF ShownFrame, HoldsLast, LastFrame, idx
<1>2. CASE Screen
  <2>1. /\ UNCHANGED <<pc, cnt, ret, wmErr, fbuf, pending, gpu, px>>
        /\ flip /\ flip' = FALSE /\ scan' \in {pending, scan}
    BY <1>2 DEF Screen, Vsync, app
  <2>2. CASE ~ret
    <3>1. ~wmErr => pc \notin {"set", "render", "finish", "buffer", "flush"}
      BY <2>1, <2>2 DEF ShownFrame, TearInv, FrameInv, Away
    <3> QED
      BY <1>0, <2>1, <2>2, <3>1 DEF ShownFrame, HoldsLast, LastFrame, idx
  <2> QED
    BY <1>0, <2>1, <2>2
<1> QED
  BY <1>1, <1>2

LEMMA ShownInvStep == TearInv /\ ShownInv /\ [Next]_vars => ShownInv'
<1> SUFFICES ASSUME TearInv, ShownInv, [Next]_vars PROVE ShownInv'
  OBVIOUS
<1>1. CASE StartStep \/ StartFails \/ \E t \in Workers : WorkerStep(t)
  BY <1>1, ShownQuiet DEF StartStep, StartFails, WorkerStep, app
<1>2. CASE MainDhd \/ MainCreateFails \/ MainJoin
  BY <1>2, ShownQuiet DEF MainDhd, MainCreateFails, MainJoin, app
<1>3. CASE MainCreate
  BY <1>3 DEF MainCreate, Goto, ShownInv, ShownTypes, ShownFrame, HoldsLast,
              LastFrame, BeforeLoop, InLoop, hw
<1>4. CASE AppDeInit
  <2>1. /\ pc \in {"release", "devdeinit", "free"}
        /\ pc' \in {"devdeinit", "free", "end"}
        /\ UNCHANGED <<cnt, ret, wmErr, fbuf, pending, px>>
        /\ scan' \in {scan, NoBuf}
    BY <1>4 DEF AppDeInit, SurfaceReleaseCall, SurfaceRelease, DevDeinitCall,
                FreeImage, Drw2DDeinit, Goto, hw
  <2> QED
    BY <2>1, BufSet DEF ShownInv, ShownTypes, ShownFrame, BeforeLoop, InLoop
<1>5. CASE UNCHANGED vars
  BY <1>5, ShownQuiet DEF vars, app
<1> QED
  BY <1>1, <1>2, <1>3, <1>4, <1>5, ShownAppInit, ShownAppFrame, ShownHw
     DEF Next, MainThread, AppThread, AppStep

(* For every set of images and faults and every even counter width: the    *)
(* screen shows all of the current or the last frame (AppLoop).            *)
THEOREM ShownCompleteHolds == Spec => []ShownComplete
<1>1. TearInv /\ ShownInv => ShownComplete
  <2> SUFFICES ASSUME TearInv, ShownInv, scan \in Buf, ~ret
               PROVE  /\ px[scan].done /\ scan \in fbuf
                      /\ wmErr \/ px[scan].frame \in {cnt, LastFrame}
    BY DEF ShownComplete, LastFrame
  <2>1. px[scan].done /\ scan \in fbuf
    BY BufSet DEF ShownInv, ShownTypes, ShownFrame
  <2>2. pc \notin BeforeLoop
    BY BufSet DEF TearInv
  <2>3. CASE pc = "vsync" /\ ~flip
    BY <2>1, <2>3 DEF TearInv, FrameInv, ShownInv, ShownFrame
  <2>4. CASE pc = "next"
    BY <2>1, <2>4 DEF TearInv, FrameInv
  <2>5. CASE pc \in {"set", "render", "finish", "buffer", "flush", "hang"}
               \/ (pc = "vsync" /\ flip)
    BY <2>1, <2>5 DEF ShownInv, ShownFrame, HoldsLast
  <2>6. CASE pc \in {"release", "devdeinit", "free", "end"}
    BY <2>1, <2>6 DEF ShownInv, ShownFrame
  <2>7. pc \in BeforeLoop \cup InLoop
          \cup {"hang", "release", "devdeinit", "free", "end"}
    BY DEF ShownInv, ShownTypes
  <2> QED
    BY <2>1, <2>2, <2>3, <2>4, <2>5, <2>6, <2>7 DEF InLoop
<1> QED
  BY TearInvInit, TearInvStep, ShownInvInit, ShownInvStep, <1>1, PTL DEF Spec
-----------------------------------------------------------------------------
(* FrameStream without its fairness: what may ever be seen.                *)
ShowsFramesSafely ==
  Stream!StreamInit /\ [][Stream!StreamNext]_(Stream!stream)

(* The mapping needs one more fact: errors are not forgotten.  AppInit     *)
(* assigns ret, and the loop assigns wmErr, only while both are zero.      *)
NoErrorYet == pc \in BeforeLoop => ~ret /\ ~wmErr

StreamInv == StartInv /\ TearInv /\ ShownInv /\ NoErrorYet

LEMMA NoErrorYetStep == TearInv /\ NoErrorYet /\ [Next]_vars => NoErrorYet'
<1> SUFFICES ASSUME NoErrorYet, [Next]_vars PROVE NoErrorYet'
  OBVIOUS
<1> USE DEF NoErrorYet
<1>1. CASE ~AppThread
  BY <1>1 DEF Next, StartStep, StartFails, WorkerStep, MainThread, MainDhd,
     MainCreate, MainCreateFails, MainJoin, Goto, Engine, Screen, BeforeLoop,
     app, vars
<1>2. CASE AppInit \/ AllocFb(mmngr)
  <2>1. /\ pc \in BeforeLoop /\ wmErr' = wmErr
        /\ pc' \in BeforeLoop /\ ~ret => ~(ret')
    <3>1. CASE WmInit \/ AllocFb(mmngr)
      BY <3>1 DEF WmInit, AllocFb, BeforeLoop
    <3>2. CASE Drw2DInit \/ LoadBegin \/ LoadSkip \/ LoadEnd \/ LoadHang
      BY <3>2 DEF Drw2DInit, LoadBegin, LoadSkip, LoadEnd, LoadHang, Goto,
                  BeforeLoop
    <3> QED
      BY <1>2, <3>1, <3>2 DEF AppInit
  <2> QED
    BY <2>1
<1>3. CASE AppFrame \/ AppDeInit
  <2>1. pc' \notin BeforeLoop
    BY <1>3 DEF AppFrame, FramebufferSet, Render, GpuFinish,
       SurfacePropertySet, Flush, FrameEnd, LoopExit, AppDeInit,
       SurfaceReleaseCall, DevDeinitCall, FreeImage, Drw2DDeinit, Goto,
       BeforeLoop
  <2> QED
    BY <2>1
<1> QED
  BY <1>1, <1>2, <1>3 DEF AppThread, AppStep

LEMMA StreamInvHolds == Spec => []StreamInv
<1>1. Init => NoErrorYet
  BY DEF Init, AppStart, NoErrorYet
<1> QED
  BY StartInvInit, StartInvStep, TearInvInit, TearInvStep, ShownInvInit,
     ShownInvStep, NoErrorYetStep, <1>1, PTL DEF Spec, StreamInv

(* Once the stream is lost it stays lost.                                  *)
LEMMA StaysFailed == StreamInv /\ Failed /\ [Next]_vars => Failed'
<1> SUFFICES ASSUME StreamInv, Failed, [Next]_vars PROVE Failed'
  OBVIOUS
<1> USE DEF Failed, NeverStarts
<1>1. CASE AppThread
  <2>1. pc # "none" /\ UNCHANGED Threads
    BY <1>1, AppRuns DEF AppThread
  <2>2. CASE NeverStarts
    BY <2>1, <2>2 DEF Threads
  <2>3. CASE ret \/ wmErr \/ pc = "hang"
    <3>1. CASE AppInit \/ AllocFb(mmngr)
      <4>1. pc \in BeforeLoop /\ pc # "hang"
        BY <3>1 DEF AppInit, WmInit, AllocFb, Drw2DInit, LoadBegin, LoadSkip,
                    LoadEnd, LoadHang, Goto, BeforeLoop
      <4> QED
        BY <2>3, <4>1 DEF StreamInv, NoErrorYet
    <3>2. CASE AppFrame
      <4>1. pc # "hang" /\ (ret => ret')
        <5>0. CASE FramebufferSet
          BY <5>0 DEF FramebufferSet, LoopOn
        <5>1. CASE GpuFinish
          <6>1. pc = "finish"
            BY <5>1 DEF GpuFinish, Goto
          <6>2. PICK ok : ret' = (ret \/ ~ok)
            BY <5>1 DEF GpuFinish
          <6> QED
            BY <6>1, <6>2
        <5>2. CASE Render \/ SurfacePropertySet \/ Flush
          <6>1. pc # "hang"
            BY <5>2 DEF Render, SurfacePropertySet, Flush, Goto
          <6>2. ret' = ret
            BY <5>2 DEF Render, SurfacePropertySet, Flush
          <6> QED
            BY <6>1, <6>2
        <5>3. CASE FrameEnd \/ LoopExit
          BY <5>3 DEF FrameEnd, LoopExit, Goto
        <5> QED
          BY <3>2, <5>0, <5>1, <5>2, <5>3 DEF AppFrame
      <4>2. wmErr /\ ~ret => wmErr'
        <5>1. wmErr /\ ~ret => ~SurfacePropertySet
          BY DEF SurfacePropertySet, Goto, StreamInv, ShownInv, ShownFrame
        <5> QED
          BY <3>2, <5>1 DEF AppFrame, FramebufferSet, LoopOn, Render,
             GpuFinish, Flush, FrameEnd, LoopExit
      <4> QED
        BY <2>3, <4>1, <4>2
    <3>3. CASE AppDeInit
      BY <2>3, <3>3 DEF AppDeInit, SurfaceReleaseCall, DevDeinitCall,
                        FreeImage, Drw2DDeinit, Goto
    <3> QED
      BY <1>1, <3>1, <3>2, <3>3 DEF AppThread, AppStep
  <2> QED
    BY <2>2, <2>3
<1>2. CASE ~AppThread
  <2>1. UNCHANGED <<ret, wmErr>> /\ (pc = "hang" => pc' = pc)
    BY <1>2 DEF Next, StartStep, StartFails, WorkerStep, MainThread, MainDhd,
       MainCreate, MainCreateFails, MainJoin, Goto, Engine, Screen, app, vars
  <2>2. NeverStarts => NeverStarts'
    <3>1. CASE StartStep
      <4>1. StreamInv /\ start # "returned"
        BY <3>1 DEF StartStep, StartNext
      <4>2. main' = main /\ (thread["cluster"] # "none" => start # "cluster")
        BY <3>1 DEF StartStep, StreamInv, StartInv
      <4>3. thread["cluster"] = "sleep" => thread'["cluster"] = "sleep"
        BY <3>1, <4>2 DEF StartStep, Workers
      <4> QED
        BY <4>1, <4>2, <4>3
    <3>2. CASE StartFails
      BY <3>2 DEF StartFails
    <3>3. ASSUME NEW t \in Workers, WorkerStep(t)
          PROVE  NeverStarts => NeverStarts'
      BY <3>3 DEF WorkerStep, Workers, StreamInv, StartInv
    <3>4. CASE MainThread
      BY <3>4 DEF MainThread, MainDhd, MainCreate, MainCreateFails, MainJoin
    <3>5. CASE Engine \/ Screen \/ UNCHANGED vars
      BY <3>5 DEF Engine, Screen, Threads, vars
    <3> QED
      BY <1>2, <3>1, <3>2, <3>3, <3>4, <3>5 DEF Next
  <2> QED
    BY <2>1, <2>2
<1> QED
  BY <1>1, <1>2

(* The stream as it is seen while nothing has failed.                      *)
ViewOK == viewNext \in Stream!Frames /\ viewScreen \in Stream!Frames \cup {-1}

LEMMA ViewTypes == StreamInv => ViewOK
<1> SUFFICES ASSUME StreamInv PROVE ViewOK
  OBVIOUS
<1>1. cnt \in Cnt /\ NextCnt \in Cnt /\ Stream!Frames = Cnt
  BY IdxTurns DEF StreamInv, TearInv, Stream!Frames, Cnt
<1>2. scan # NoBuf => px[scan].frame \in Cnt
  BY DEF StreamInv, ShownInv, ShownTypes
<1> QED
  BY <1>1, <1>2 DEF ViewOK, viewNext, viewScreen, NextCnt

(* Where the thread is when a frame is being drawn, or a flip is due.      *)
LEMMA ViewPoints ==
  ASSUME StreamInv, ~Failed
  PROVE  /\ gpu.busy => pc = "finish"
         /\ flip => pc = "vsync"
         /\ pc \notin {"next", "release", "devdeinit", "free", "end"}
<1> USE DEF Failed
<1>1. pc \notin {"next", "release", "devdeinit", "free", "end"}
  BY DEF StreamInv, TearInv, FrameInv, ShownInv, ShownFrame
<1>2. gpu.busy => pc = "finish"
  BY DEF StreamInv, TearInv, FrameInv
<1>3. flip => pc = "vsync"
  <2>1. pc \in BeforeLoop \cup InLoop
    BY <1>1 DEF StreamInv, ShownInv, ShownTypes
  <2>2. pc \in BeforeLoop \cup {"set", "render", "finish", "buffer"} => ~flip
    BY DEF StreamInv, TearInv, FrameInv, Away
  <2>3. pc = "flush" => ~flip
    BY DEF StreamInv, ShownInv, ShownFrame
  <2> QED
    BY <1>1, <2>1, <2>2, <2>3 DEF InLoop
<1> QED
  BY <1>1, <1>2, <1>3

LEMMA StreamStep ==
  StreamInv /\ ViewOK' /\ [Next]_vars =>
    [Stream!StreamNext]_(Stream!stream)
<1> SUFFICES ASSUME StreamInv, ViewOK', [Next]_vars
             PROVE  [Stream!StreamNext]_(Stream!stream)
  OBVIOUS
<1>1. CASE Failed'
  <2>1. viewPhase' = "lost"
    BY <1>1 DEF viewPhase
  <2>2. viewNext' \in Stream!Frames /\ viewScreen' \in Stream!Frames \cup {-1}
    BY DEF ViewOK
  <2> QED
    BY <2>1, <2>2 DEF Stream!StreamNext, Stream!Lose
<1>2. CASE ~(Failed')
  <2>0. /\ ~Failed /\ ~ret /\ ~(ret') /\ ~wmErr /\ ~(wmErr')
        /\ pc' # "hang" /\ cnt \in Cnt
    BY <1>2, StaysFailed DEF Failed, StreamInv, TearInv
  <2>1. /\ gpu.busy => pc = "finish"
        /\ flip => pc = "vsync"
        /\ pc \notin {"next", "release", "devdeinit", "free", "end"}
    BY <2>0, ViewPoints
  <2>2. viewPhase = IF gpu.busy THEN "draw"
                    ELSE IF \/ pc \in {"finish", "buffer", "flush"}
                            \/ pc = "vsync" /\ flip
                         THEN "done" ELSE "idle"
    BY <2>0 DEF viewPhase
  <2>3. viewPhase' = IF gpu'.busy THEN "draw"
                     ELSE IF \/ pc' \in {"finish", "buffer", "flush"}
                             \/ pc' = "vsync" /\ flip'
                          THEN "done" ELSE "idle"
    BY <1>2 DEF viewPhase
  <2> DEFINE Stays == UNCHANGED <<viewPhase, viewNext, viewScreen>>
  <2>4. Stays => UNCHANGED Stream!stream
    BY DEF Stream!stream
  <2>5. CASE UNCHANGED <<gpu, flip, scan, px, cnt>>
               /\ \/ pc' = pc
                  \/ pc \in BeforeLoop \cup {"set"} /\
                       pc' \in BeforeLoop \cup {"set", "render"}
                  \/ pc \in {"finish", "buffer"} /\ pc' \in {"buffer", "flush"}
    <3>1. viewPhase' = viewPhase
      BY <2>1, <2>2, <2>3, <2>5 DEF BeforeLoop
    <3>2. viewNext' = viewNext /\ viewScreen' = viewScreen
      BY <2>5 DEF viewNext, viewScreen, Visible, BeforeLoop
    <3> QED
      BY <2>4, <3>1, <3>2
  <2>6. CASE Render
    <3>1. /\ pc = "render" /\ pc' = "finish" /\ gpu'.busy
          /\ UNCHANGED <<cnt, scan>>
          /\ px' = [b \in Buf |-> IF b = target
                                  THEN [frame |-> cnt, done |-> FALSE]
                                  ELSE px[b]]
      BY <2>0, <2>6 DEF Render, Submit
    <3>2. scan # NoBuf => scan \in Buf /\ scan # target
      BY <2>0, <3>1 DEF StreamInv, ShownInv, ShownTypes, TearInv, FrameInv, Away
    <3>3. viewScreen' = viewScreen /\ viewNext' = viewNext
      BY <3>1, <3>2 DEF viewScreen, viewNext, Visible
    <3>4. viewPhase = "idle" /\ viewPhase' = "draw"
      BY <2>1, <2>2, <2>3, <3>1
    <3> QED
      BY <3>3, <3>4 DEF Stream!StreamNext, Stream!Draw
  <2>7. CASE Flush
    <3>1. /\ pc = "flush" /\ pc' = "vsync" /\ flip' = TRUE
          /\ UNCHANGED <<cnt, scan, gpu, px>>
      BY <2>0, <2>7 DEF Flush, Outcome
    <3>2. viewPhase' = viewPhase /\ viewNext' = viewNext
            /\ viewScreen' = viewScreen
      BY <2>1, <2>2, <2>3, <3>1 DEF viewNext, viewScreen, Visible
    <3> QED
      BY <2>4, <3>2
  <2>8. CASE FrameEnd
    <3>1. /\ pc = "vsync" /\ ~flip /\ pc' = "set" /\ cnt' = NextCnt
          /\ UNCHANGED <<scan, gpu, px>>
      BY <2>1, <2>8 DEF FrameEnd, Flipped, hw
    <3>2. viewPhase' = viewPhase /\ viewNext' = viewNext
            /\ viewScreen' = viewScreen
      BY <2>1, <2>2, <2>3, <3>1 DEF viewNext, viewScreen, Visible, NextCnt
    <3> QED
      BY <2>4, <3>2
  <2>9. CASE Engine
    <3>1. /\ UNCHANGED <<pc, cnt, scan>> /\ gpu.busy /\ ~(gpu'.busy)
          /\ px' = [b \in Buf |-> IF b = gpu.into
                                  THEN [px[b] EXCEPT !.done = TRUE] ELSE px[b]]
      BY <2>9 DEF Engine, GpuDone, Resting, app
    <3>2. scan # NoBuf => px'[scan].frame = px[scan].frame
      BY <3>1 DEF StreamInv, ShownInv, ShownTypes
    <3>3. viewScreen' = viewScreen /\ viewNext' = viewNext
      BY <2>1, <3>1, <3>2 DEF viewScreen, viewNext, Visible
    <3>4. viewPhase = "draw" /\ viewPhase' = "done"
      BY <2>1, <2>2, <2>3, <3>1
    <3> QED
      BY <3>3, <3>4 DEF Stream!StreamNext, Stream!Complete
  <2>10. CASE Screen
    <3>1. /\ UNCHANGED <<pc, cnt, gpu, px>> /\ flip /\ ~(flip')
          /\ scan' = IF surf THEN pending ELSE scan
      BY <2>10 DEF Screen, Vsync, app
    <3>2. pc = "vsync" /\ ~gpu.busy
      BY <2>1, <3>1
    <3>3. surf /\ pending = idx /\ px[idx].frame = cnt /\ idx # NoBuf
      BY <2>0, <3>2, IdxRange DEF StreamInv, TearInv, FrameInv, InLoop,
                                  ShownInv, ShownFrame
    <3>4. viewScreen' = cnt
      BY <3>1, <3>3 DEF viewScreen
    <3>5. viewNext = cnt /\ viewNext' = (cnt + 1) % CntMod
      BY <3>1, <3>2 DEF viewNext, Visible
    <3>6. viewPhase = "done" /\ viewPhase' = "idle"
      BY <2>2, <2>3, <3>1, <3>2
    <3> QED
      BY <3>4, <3>5, <3>6 DEF Stream!StreamNext, Stream!Show
  <2>11. CASE AppInit \/ AllocFb(mmngr)
    <3>1. /\ pc \in BeforeLoop
          /\ pc' \in BeforeLoop \cup {"set", "hang"} \/ ret'
          /\ UNCHANGED <<cnt, flip, scan, gpu, px>>
      BY <2>11 DEF AppInit, WmInit, AllocFb, Drw2DInit, LoadBegin, LoadSkip,
         LoadEnd, LoadHang, LoadFailed, NextImage, Goto, BeforeLoop, hw
    <3> QED
      BY <2>0, <2>5, <3>1
  <2>12. CASE FramebufferSet \/ GpuFinish \/ SurfacePropertySet
    <3>1. /\ UNCHANGED <<cnt, flip, scan, gpu, px>>
          /\ \/ pc = "set" /\ pc' = "render"
             \/ pc = "finish" /\ pc' = "buffer"
             \/ pc = "buffer" /\ pc' = "flush"
      BY <2>12 DEF FramebufferSet, GpuFinish, SurfacePropertySet, Goto, hw
    <3>2. CASE pc # "finish"
      BY <2>5, <3>1, <3>2
    <3>3. CASE pc = "finish"
      BY <2>5, <3>1, <3>3
    <3> QED
      BY <3>2, <3>3
  <2>13. CASE LoopExit \/ AppDeInit
    BY <2>0, <2>1, <2>13 DEF LoopExit, LoopOn, AppDeInit, SurfaceReleaseCall,
       DevDeinitCall, FreeImage, Drw2DDeinit, Goto
  <2>14. CASE MainCreate
    BY <2>5, <2>14 DEF MainCreate, Goto, BeforeLoop, hw
  <2>15. CASE ~AppThread /\ ~MainCreate /\ ~Engine /\ ~Screen
    <3>1. UNCHANGED <<pc, cnt, flip, scan, gpu, px>>
      BY <2>15 DEF Next, StartStep, StartFails, WorkerStep, MainThread,
         MainDhd, MainCreateFails, MainJoin, app, hw, vars
    <3> QED
      BY <2>5, <3>1
  <2> QED
    BY <2>6, <2>7, <2>8, <2>9, <2>10, <2>11, <2>12, <2>13, <2>14, <2>15
       DEF AppThread, AppStep, AppFrame
<1> QED
  BY <1>1, <1>2

(* For every set of images and faults and every even counter width: frames *)
(* are drawn out of sight, completed and shown in order and none left out, *)
(* until a call fails (AppLoop).  The safety part of ShowsFrames.          *)
THEOREM ShowsFramesSafelyHolds == Spec => ShowsFramesSafely
<1>1. Init => Stream!StreamInit
  <2> SUFFICES ASSUME Init PROVE Stream!StreamInit
    OBVIOUS
  <2>1. ~Failed
    BY DEF Init, AppStart, Failed, NeverStarts, Workers
  <2>2. /\ pc = "none" /\ cnt = 0 /\ scan = NoBuf /\ ~gpu.busy
    BY DEF Init, AppStart, HwInit, Resting
  <2>3. viewPhase = "idle" /\ viewNext = 0 /\ viewScreen = -1
    BY <2>1, <2>2 DEF viewPhase, viewNext, viewScreen, Visible
  <2> QED
    BY <2>3 DEF Stream!StreamInit
<1> QED
  BY StreamInvHolds, ViewTypes, StreamStep, <1>1, PTL DEF Spec, ShowsFramesSafely
=============================================================================
