----------------------------- MODULE ClusterApp -----------------------------
(***************************************************************************)
(* The application thread of the cluster demo: AppLoop of 2dwow_main.c,    *)
(* with AppInit, the rendering of one frame after the other into two frame *)
(* buffers in turn, and AppDeInit.  Every call of a library may fail, if   *)
(* its name is in Faults; the error paths are those of the code.           *)
(***************************************************************************)
EXTENDS ImageStore, WmGpu

CONSTANT Faults

Calls == {"WmInit", "MmngrAlloc", "Drw2DInit", "vidmem", "FramebufferSet",
          "GpuFinish", "SurfacePropertySet", "Flush"}
ASSUME FaultsOK == Faults \subseteq Calls

VARIABLES
  pc,           \* where the thread is
  cnt,          \* the frame counter of AppLoop
  ret, wmErr,   \* its two error variables, TRUE when not zero
  fbuf,         \* the frame buffers that were allocated
  drw2d,        \* the DRW2D device is open
  k             \* the image being loaded or freed

app == <<pc, cnt, ret, wmErr, fbuf, drw2d, k>>

AppStart ==
  /\ pc = "none" /\ cnt = 0 /\ ret = FALSE /\ wmErr = FALSE
  /\ fbuf = {} /\ drw2d = FALSE /\ k = 1

(* A call that may fail: its outcome.                                      *)
Outcome(call) == IF call \in Faults THEN {TRUE, FALSE} ELSE {TRUE}

Goto(a, b) == pc = a /\ pc' = b

-----------------------------------------------------------------------------
(* loc_WmInit.  When a call after R_WM_DevInit fails, what was acquired is *)
(* given back; either way a failure leaves nothing held.                   *)
DevKept(ok) == ok        \* a success skips the clean-up
WmInit ==
  /\ pc = "wm"
  /\ \E ok \in Outcome("WmInit") :
       /\ dev' = DevKept(ok) /\ surf' = ok /\ ret' = ~ok
       /\ pc' = IF ok THEN "alloc" ELSE "release"
  /\ UNCHANGED <<cnt, wmErr, fbuf, drw2d, k, store, pending, flip,
                 scan, target, gpu, px>>

(* The frame buffers.  One failure is enough to give up, and the loop goes *)
(* on to the next buffer after it.                                         *)
MutLastResult(got) == MAX_NR_FBUF - 1 \notin got
AllocFailed(got) == got # Buf
AllocFb(mmngr) ==
  /\ pc = "alloc"
  /\ \E got \in SUBSET Buf :
       /\ ~mmngr => got = {}
       /\ mmngr /\ "MmngrAlloc" \notin Faults => got = Buf
       /\ fbuf' = got
       /\ ret' = AllocFailed(got)
       /\ pc' = IF AllocFailed(got) THEN "release" ELSE "drw2d"
  /\ UNCHANGED <<cnt, wmErr, drw2d, k, store, hw>>

(* Drw2DInit: its result is not looked at.                                 *)
Drw2DInit ==
  /\ Goto("drw2d", "load")
  /\ drw2d' \in Outcome("Drw2DInit")
  /\ UNCHANGED <<cnt, ret, wmErr, fbuf, k, store, hw>>

(* demo_init: InitAppCluster loads the images, then resets the car model.  *)
(* Without a device the driver has no video memory to give.                *)
CanLoad == drw2d \/ Images[k] \in Persistent
NextImage == k' = k + 1 /\ pc' = IF k = Len(Images) THEN "set" ELSE "load"

LoadBegin ==
  /\ Goto("load", "copy") /\ CanLoad
  /\ LoadOpen(Images[k])
  /\ UNCHANGED <<cnt, ret, wmErr, fbuf, drw2d, k, hw>>
LoadSkip ==
  /\ pc = "load" /\ CanLoad
  /\ LoadMissing(Images[k]) /\ NextImage
  /\ UNCHANGED <<cnt, ret, wmErr, fbuf, drw2d, hw>>
LoadEnd ==
  /\ pc = "copy"
  /\ LoadCopy /\ NextImage
  /\ UNCHANGED <<cnt, ret, wmErr, fbuf, drw2d, hw>>
MutGoOn == NextImage
LoadFailed == pc' = "hang" /\ k' = k
LoadHang ==
  /\ pc = "load" /\ LoadNoMemory(Images[k], "vidmem" \in Faults \/ ~drw2d)
  /\ LoadFailed
  /\ UNCHANGED <<cnt, ret, wmErr, fbuf, drw2d, hw>>

-----------------------------------------------------------------------------
(* The frame loop.                                                         *)
idx == cnt % 2
MutOneError == ~ret
LoopOn == ~ret /\ ~wmErr

FramebufferSet ==
  /\ pc = "set" /\ LoopOn
  /\ \E ok \in Outcome("FramebufferSet") :
       /\ target' = IF ok THEN idx ELSE target
       /\ ret' = ~ok
  /\ pc' = "render"
  /\ UNCHANGED <<cnt, wmErr, fbuf, drw2d, k, store,
                 dev, surf, pending, flip, scan, gpu, px>>

(* demo_render, also after FramebufferSet failed: the needle and those     *)
(* other images that this frame shows.  The car model is updated with it.  *)
Render ==
  /\ pc = "render"
  /\ \E reads \in SUBSET ImageSet :
       /\ Images[2] \in reads
       /\ Submit(cnt, {i \in reads : Drawable(i)})
       /\ pc' = IF \A i \in reads : Drawable(i) THEN "finish" ELSE "hang"
  /\ UNCHANGED <<cnt, ret, wmErr, fbuf, drw2d, k, store,
                 dev, surf, pending, flip, scan, target>>

(* R_DRW2D_GpuFinish with FINISH_WAIT: returns when the engine is done, or *)
(* with an error at any time.                                              *)
EngineIdle == ~gpu.busy
GpuFinish ==
  /\ Goto("finish", "buffer")
  /\ \E ok \in Outcome("GpuFinish") :
       /\ ok => EngineIdle
       /\ ret' = (ret \/ ~ok)
  /\ UNCHANGED <<cnt, wmErr, fbuf, drw2d, k, store, hw>>

(* The frame is given to the surface, whatever GpuFinish said.             *)
SurfacePropertySet ==
  /\ Goto("buffer", "flush")
  /\ \E ok \in Outcome("SurfacePropertySet") :
       /\ pending' = IF ok THEN idx ELSE pending
       /\ wmErr' = ~ok
  /\ UNCHANGED <<cnt, ret, fbuf, drw2d, k, store,
                 dev, surf, flip, scan, target, gpu, px>>

(* R_WM_ScreenSurfacesFlush, blocking: asks for the flip, then waits for   *)
(* it.  A failed one may have asked for it all the same.                   *)
Flush ==
  /\ pc = "flush"
  /\ \E ok \in Outcome("Flush") :
       /\ pc' = IF ok THEN "vsync" ELSE "next"
       /\ wmErr' = (wmErr \/ ~ok)
       /\ \E asked \in {TRUE, ok} : flip' = asked
  /\ UNCHANGED <<cnt, ret, fbuf, drw2d, k, store,
                 dev, surf, pending, scan, target, gpu, px>>
MutNoBlock == TRUE
Flipped == ~flip
MutCntOdd == (cnt + 1) % (CntMod - 1)
NextCnt == (cnt + 1) % CntMod
FrameEnd ==
  /\ pc = "next" \/ (pc = "vsync" /\ Flipped)
  /\ pc' = "set"
  /\ cnt' = NextCnt
  /\ UNCHANGED <<ret, wmErr, fbuf, drw2d, k, store, hw>>

LoopExit ==
  /\ Goto("set", "release") /\ ~LoopOn
  /\ UNCHANGED <<cnt, ret, wmErr, fbuf, drw2d, k, store, hw>>

-----------------------------------------------------------------------------
(* AppDeInit, after the loop and after a failed AppInit alike.  The frame  *)
(* buffers are not given back.                                             *)
SurfaceReleaseCall ==
  /\ Goto("release", "devdeinit")
  /\ SurfaceRelease
  /\ UNCHANGED <<cnt, ret, wmErr, fbuf, drw2d, k, store,
                 dev, pending, flip, target, gpu, px>>
DevDeinitCall ==
  /\ Goto("devdeinit", "free")
  /\ DevDeinit
  /\ k' = 1
  /\ UNCHANGED <<cnt, ret, wmErr, fbuf, drw2d, store,
                 surf, pending, flip, scan, target, gpu, px>>
FreedAll == k > Len(Images)
FreeImage ==
  /\ pc = "free" /\ ~FreedAll
  /\ Deinit2DImg(DeinitOrder[k])
  /\ k' = k + 1
  /\ UNCHANGED <<pc, cnt, ret, wmErr, fbuf, drw2d, hw>>
Drw2DDeinit ==
  /\ Goto("free", "end") /\ FreedAll
  /\ UNCHANGED <<cnt, ret, wmErr, fbuf, drw2d, k, store, hw>>

AppInit == WmInit \/ Drw2DInit \/ LoadBegin \/ LoadSkip \/ LoadEnd \/ LoadHang
AppFrame == FramebufferSet \/ Render \/ GpuFinish \/ SurfacePropertySet
              \/ Flush \/ FrameEnd \/ LoopExit
AppDeInit == SurfaceReleaseCall \/ DevDeinitCall \/ FreeImage \/ Drw2DDeinit
AppStep(mmngr) == AppInit \/ AllocFb(mmngr) \/ AppFrame \/ AppDeInit
=============================================================================
