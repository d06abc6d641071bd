------------------------------ MODULE FillDma -------------------------------
(***************************************************************************)
(* The zero fill of the CR7 loader's DMA driver (dma_driver.c): four       *)
(* channels, each with a quarter of the area, that run while the processor *)
(* polls them.  Addresses and lengths are in bytes, memory is kept in the  *)
(* 64-byte units the channels transfer.  Writing a unit that ECC covers    *)
(* generates its code.                                                     *)
(***************************************************************************)
EXTENDS Integers, FiniteSets

CONSTANTS
  MemUnits,      \* the units of memory
  DmaFaults      \* may a channel meet an address error?

ASSUME FillOK == MemUnits \in Nat /\ DmaFaults \in BOOLEAN

DMACH == 1
DMA_PARALLEL_CH == 4
Unit == 64
Ch == 1 .. DMA_PARALLEL_CH
Number(c) == DMACH + c - 1       \* its number in the registers

VARIABLES
  mem,           \* each unit: "old", "zero", or "coded": zero with its code
  ecc,           \* the units that ECC covers
  fill,          \* what exec_fillDMA is doing
  dst, left,     \* of each channel: where it writes next, units to go
  cae,           \* the channels that met an address error
  sec,           \* RDMSEC: the channels marked as secure
  loop, result   \* end_fillDMA: the channel to look at, those not yet done

fillVars == <<mem, ecc, fill, dst, left, cae, sec, loop, result>>

Memory == 0 .. MemUnits - 1

FillInit ==
  /\ mem = [u \in Memory |-> "old"] /\ ecc = {}
  /\ fill = "idle"
  /\ dst = [c \in Ch |-> 0] /\ left = [c \in Ch |-> 0]
  /\ cae = {} /\ sec = {}
  /\ loop = 1 /\ result = {}

(* exec_fillDMA: a quarter, rounded down to whole units, for each channel; *)
(* the last one also gets the remainder.                                   *)
dmalen(len) == ((len \div DMA_PARALLEL_CH) \div Unit) * Unit
rem_len(len) == (((len % dmalen(len)) + Unit - 1) \div Unit) * Unit
FillDst(d, len, c) == d + dmalen(len) * (c - 1)
MutOneMore(len, c) == dmalen(len) + Unit
FillLen(len, c) ==
  IF c = DMA_PARALLEL_CH THEN dmalen(len) + rem_len(len) ELSE dmalen(len)

(* The four parts make up the whole: true of every power of two from 256   *)
(* bytes on, and of every length of whole units from 1024 bytes on.        *)
SharedExactly(len) ==
  /\ len \in Nat /\ len % Unit = 0 /\ dmalen(len) > 0
  /\ DMA_PARALLEL_CH * dmalen(len) + rem_len(len) = len

exec_fillDMA(d, len) ==
  /\ fill = "idle" /\ fill' = "busy"
  /\ dst' = [c \in Ch |-> FillDst(d, len, c)]
  /\ left' = [c \in Ch |-> FillLen(len, c) \div Unit]
  /\ cae' = {} /\ sec' = sec \cup {Number(c) : c \in Ch}
  /\ loop' = 1 /\ result' = Ch
  /\ UNCHANGED <<mem, ecc>>

(* The hardware: a channel moves a unit, or meets an address error.  It    *)
(* goes on when the processor has given up.                                *)
Zeroed(u) == IF u \in ecc THEN "coded" ELSE "zero"
ChannelMoves(c) ==
  /\ left[c] > 0 /\ c \notin cae
  /\ mem' = [mem EXCEPT ![dst[c] \div Unit] = Zeroed(dst[c] \div Unit)]
  /\ dst' = [dst EXCEPT ![c] = @ + Unit]
  /\ left' = [left EXCEPT ![c] = @ - 1]
  /\ UNCHANGED <<ecc, fill, cae, sec, loop, result>>

ChannelFails(c) ==
  /\ DmaFaults /\ left[c] > 0 /\ c \notin cae
  /\ cae' = cae \cup {c}
  /\ UNCHANGED <<mem, ecc, fill, dst, left, sec, loop, result>>

(* end_fillDMA looks at one channel after the other, starts over until a   *)
(* round finds all of them done, and clears them.  ~1 << n clears the      *)
(* secure bits of every channel up to n.                                   *)
Done(c) == left[c] = 0
MutLastOnly(c) == IF c = DMA_PARALLEL_CH /\ Done(c) THEN {} ELSE result
MutNeverFirst(c) == IF Done(c) /\ c # 1 THEN result \ {c} ELSE result
StillBusy(c) == IF Done(c) THEN result \ {c} ELSE result
SecCleared == {n \in sec : n > Number(DMA_PARALLEL_CH)}

PollNext ==
  /\ fill = "busy" /\ loop \notin cae
  /\ loop < DMA_PARALLEL_CH
  /\ loop' = loop + 1 /\ result' = StillBusy(loop)
  /\ UNCHANGED <<mem, ecc, fill, dst, left, cae, sec>>

PollAgain ==
  /\ fill = "busy" /\ loop \notin cae
  /\ loop = DMA_PARALLEL_CH /\ StillBusy(loop) # {}
  /\ loop' = 1 /\ result' = Ch
  /\ UNCHANGED <<mem, ecc, fill, dst, left, cae, sec>>

PollEnd ==
  /\ fill = "busy" /\ loop \notin cae
  /\ loop = DMA_PARALLEL_CH /\ StillBusy(loop) = {}
  /\ fill' = "done" /\ sec' = SecCleared /\ result' = {}
  /\ UNCHANGED <<mem, ecc, dst, left, cae, loop>>

PollError ==
  /\ fill = "busy" /\ loop \in cae
  /\ fill' = "panic"
  /\ UNCHANGED <<mem, ecc, dst, left, cae, sec, loop, result>>

Poll == PollNext \/ PollAgain \/ PollEnd \/ PollError
=============================================================================
