------------------------------- MODULE WmGpu -------------------------------
(***************************************************************************)
(* The window manager (R_WM_...) and the drawing engine (R_DRW2D_..., DHD) *)
(* as the cluster demo uses them: libraries and hardware outside the       *)
(* repository.  The engine draws on its own after a frame was handed to    *)
(* it; the screen shows one buffer and changes to another one only at a    *)
(* vertical blank after a flush.                                           *)
(***************************************************************************)
EXTENDS Integers

CONSTANT CntMod     \* frames are counted modulo 2^32

ASSUME CntOK == CntMod \in Nat \ {0} /\ CntMod % 2 = 0

MAX_NR_FBUF == 2
Buf == 0 .. MAX_NR_FBUF - 1
NoBuf == MAX_NR_FBUF
Cnt == 0 .. CntMod - 1

VARIABLES
  dev, surf,  \* the device is initialised, the surface is held
  pending,    \* the buffer last given to the surface
  flip,       \* a flush waits for the vertical blank
  scan,       \* the buffer on the screen
  target,     \* the buffer the engine was last told to draw into
  gpu,        \* the frame being drawn: into which buffer, from which images
  px          \* each buffer's contents: of which frame, and all of it?

hw == <<dev, surf, pending, flip, scan, target, gpu, px>>

Resting == [into |-> NoBuf, reads |-> {}, busy |-> FALSE]

HwInit ==
  /\ dev = FALSE /\ surf = FALSE /\ flip = FALSE
  /\ pending = NoBuf /\ scan = NoBuf /\ target = NoBuf
  /\ gpu = Resting
  /\ px = [b \in Buf |-> [frame |-> 0, done |-> FALSE]]

(* Commands for frame f that use the images in `reads' reach the engine.   *)
Submit(f, reads) ==
  /\ gpu' = [into |-> target, reads |-> reads, busy |-> TRUE]
  /\ px' = [b \in Buf |-> IF b = target THEN [frame |-> f, done |-> FALSE]
                                        ELSE px[b]]

(* The engine has executed all it was given.                               *)
GpuDone ==
  /\ gpu.busy
  /\ gpu' = Resting
  /\ px' = [b \in Buf |-> IF b = gpu.into THEN [px[b] EXCEPT !.done = TRUE]
                                          ELSE px[b]]
  /\ UNCHANGED <<dev, surf, pending, flip, scan, target>>

(* The vertical blank: a flushed buffer becomes the visible one.           *)
Vsync ==
  /\ flip
  /\ flip' = FALSE
  /\ scan' = IF surf THEN pending ELSE scan
  /\ UNCHANGED <<dev, surf, pending, target, gpu, px>>

(* Releasing the surface takes its buffer off the screen.                  *)
SurfaceRelease == surf' = FALSE /\ scan' = NoBuf
DevDeinit == dev' = FALSE
=============================================================================
