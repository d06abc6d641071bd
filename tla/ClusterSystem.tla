--------------------------- MODULE ClusterSystem ---------------------------
(***************************************************************************)
(* The cluster demo with the threads that start it: start_thread and the   *)
(* cluster thread of cluster_wrapper/src/main.c, x2dwow_main and           *)
(* main_thread of 2dwow_main.c, and the application thread (ClusterApp)    *)
(* with the screen and the drawing engine (WmGpu).  The CIO and Taurus     *)
(* threads only matter for being created and joined.                       *)
(***************************************************************************)
EXTENDS ClusterApp

CONSTANT ThreadFaults     \* the threads whose creation may fail

VARIABLES
  start,      \* where start_thread is
  mmngr,      \* the memory manager is open (g_hndl_mmngr)
  thread,     \* of each thread of start_thread: "none", "run", "sleep", "end"
  main,       \* where main_thread is
  dhd         \* the DHD server runs

vars == <<start, mmngr, thread, main, dhd, app, store, hw>>

Workers == {"cio", "cluster", "taurus"}
ASSUME ThreadsOK == ThreadFaults \subseteq Workers \cup
                      {"osal", "mmngr", "main", "app"}

Init ==
  /\ StoreInit /\ HwInit /\ AppStart
  /\ start = "osal" /\ mmngr = FALSE
  /\ thread = [t \in Workers |-> "none"]
  /\ main = "none" /\ dhd = FALSE

(* start_thread, one call after the other: what each one starts, and the   *)
(* call after it.  The three joins are one step: they return when all the  *)
(* threads have ended.                                                     *)
StartNext == [osal |-> "mmngr", mmngr |-> "cio", cio |-> "cluster",
              cluster |-> "taurus", taurus |-> "join", join |-> "end"]
Joined == \A t \in Workers : thread[t] = "end"

StartStep ==
  /\ start \in DOMAIN StartNext
  /\ start = "join" => Joined
  /\ start' = StartNext[start]
  /\ mmngr' = (start # "join" /\ (mmngr \/ start = "mmngr"))
  /\ thread' = [t \in Workers |-> IF t = start THEN "run" ELSE thread[t]]
  /\ UNCHANGED <<main, dhd, app, store, hw>>

(* A failed call: start_thread returns, and nothing is undone.             *)
MmngrAfterFailure == mmngr
StartFails ==
  /\ start \in ThreadFaults \cap DOMAIN StartNext
  /\ start' = "returned"
  /\ mmngr' = MmngrAfterFailure
  /\ UNCHANGED <<thread, main, dhd, app, store, hw>>

(* loc_CioServerThread, loc_ClusterThread, loc_TaurusThread: after their   *)
(* main function they sleep for ever.  x2dwow_main creates main_thread and *)
(* does not look whether it could.                                         *)
MutThreadReturns == "end"
AfterMain == "sleep"
WorkerStep(t) ==
  /\ thread[t] = "run"
  /\ thread' = [thread EXCEPT ![t] = AfterMain]
  /\ IF t = "cluster"
     THEN \E ok \in {TRUE, "main" \notin ThreadFaults} :
            main' = IF ok THEN "dhd" ELSE "none"
     ELSE UNCHANGED main
  /\ UNCHANGED <<start, mmngr, dhd, app, store, hw>>

(* main_thread: the DHD server, then the application thread, then a join   *)
(* with the application thread alone.                                      *)
DhdStarted == TRUE
MainDhd ==
  /\ main = "dhd" /\ main' = "create"
  /\ dhd' = DhdStarted
  /\ UNCHANGED <<start, mmngr, thread, app, store, hw>>
MainCreate ==
  /\ main = "create" /\ main' = "join"
  /\ Goto("none", "wm")
  /\ UNCHANGED <<start, mmngr, thread, dhd, store, hw>>
  /\ UNCHANGED <<cnt, ret, wmErr, fbuf, drw2d, k>>
MainCreateFails ==
  /\ main = "create" /\ "app" \in ThreadFaults
  /\ main' = "hang"
  /\ UNCHANGED <<start, mmngr, thread, dhd, app, store, hw>>
MainJoin ==
  /\ main = "join" /\ pc = "end" /\ main' = "end"
  /\ UNCHANGED <<start, mmngr, thread, dhd, app, store, hw>>

Threads == <<start, mmngr, thread, main, dhd>>
AppThread == AppStep(mmngr) /\ UNCHANGED <<Threads>>
Engine == GpuDone /\ UNCHANGED <<Threads, app, store>>
Screen == Vsync /\ UNCHANGED <<Threads, app, store>>
MainThread == MainDhd \/ MainCreate \/ MainCreateFails \/ MainJoin

Next ==
  \/ StartStep \/ StartFails
  \/ \E t \in Workers : WorkerStep(t)
  \/ MainThread \/ AppThread \/ Engine \/ Screen

Spec == Init /\ [][Next]_vars
(* Every thread is scheduled, the engine finishes what it was given, the   *)
(* screen keeps refreshing.                                                *)
FairSpec ==
  /\ Spec
  /\ WF_vars(StartStep) /\ \A t \in Workers : WF_vars(WorkerStep(t))
  /\ WF_vars(MainThread) /\ WF_vars(AppThread)
  /\ WF_vars(Engine) /\ WF_vars(Screen)

-----------------------------------------------------------------------------
(* The engine never draws into the buffer that is on the screen, unless a  *)
(* DRW2D call of this frame failed (AppLoop, 2dwow_main.c:288-304).        *)
NoTearing == gpu.busy /\ gpu.into = scan => ret \/ scan = NoBuf

(* What is on the screen is all of one frame, in an allocated buffer, and  *)
(* no older than the frame before the current one unless the window        *)
(* manager refused a buffer or a flush (AppLoop).                          *)
ShownComplete ==
  scan \in Buf /\ ~ret =>
    /\ px[scan].done /\ scan \in fbuf
    /\ wmErr \/ px[scan].frame \in {cnt, (cnt - 1) % CntMod}

(* The memory manager is open and the DHD server runs as long as the       *)
(* application thread does: it allocates its buffers and images from them  *)
(* (start_thread, main_thread), also when start_thread returned early.     *)
SupportsApp == pc # "none" => mmngr /\ dhd

(* The engine reads only images that are loaded, and draws only with an    *)
(* open device although AppInit ignores the result of Drw2DInit, unless    *)
(* the wait for the engine failed (texture.c, demo_cluster.c, AppDeInit).  *)
EngineReadsImages ==
  gpu.busy /\ ~ret => drw2d /\ \A i \in gpu.reads : Readable(i)

(* A slot is marked for exactly one image: the image that points to it or  *)
(* the one being loaded.  A slot lost to a failed allocation stops the     *)
(* demo, so that lost slots cannot add up (demo_cluster.c:131-165).        *)
SlotsAccountedFor ==
  \A s \in Slots :
    alloced[s] =>
      \/ pc = "hang"
      \/ Cardinality({i \in ImageSet :
           Data[i] = s \/ (loading.img = i /\ loading.slot = s)}) = 1

(* When the application thread has ended, everything DeInitAppCluster and  *)
(* AppDeInit give back is given back: slots, video memory, file handles,   *)
(* image pointers, surface and device (app_cluster.c:109-116).             *)
EndReleasesAll ==
  pc = "end" =>
    /\ \A s \in Slots : ~alloced[s] /\ vidmem[s] = "none"
    /\ \A h \in Handles : ~InUse[h]
    /\ \A i \in ImageSet : Data[i] = Null
    /\ ~surf /\ ~dev /\ scan = NoBuf

-----------------------------------------------------------------------------
(* The frames as the viewer knows them (FrameStream).                      *)
NeverStarts ==
  \/ main = "hang"
  \/ main = "none" /\ thread["cluster"] = "sleep"
  \/ start = "returned" /\ thread["cluster"] = "none"
Failed == ret \/ wmErr \/ pc = "hang" \/ NeverStarts
Visible == pc = "vsync" /\ ~flip
viewPhase ==
  IF Failed THEN "lost"
  ELSE IF gpu.busy THEN "draw"
  ELSE IF pc \in {"finish", "buffer", "flush"} \/ (pc = "vsync" /\ flip)
       THEN "done" ELSE "idle"
viewNext == IF Visible THEN (cnt + 1) % CntMod ELSE cnt
viewScreen == IF scan = NoBuf THEN -1 ELSE px[scan].frame

Stream == INSTANCE FrameStream
            WITH phase <- viewPhase, next <- viewNext, screen <- viewScreen

(* The demo keeps the promise of FrameStream: complete frames, in order,   *)
(* none skipped, for ever, until a library call fails or a thread cannot   *)
(* be created (AppLoop).                                                   *)
ShowsFrames == Stream!StreamSpec

(* Once a call has failed the application thread gives everything back and *)
(* main_thread ends, unless the demo hangs (AppLoop, main_thread).         *)
StopsAfterError == (ret \/ wmErr) ~> (main = "end" \/ pc = "hang")
=============================================================================
