------------------------------- MODULE DmaRpc -------------------------------
(***************************************************************************)
(* The flash-to-memory path: dma_driver.c (execDMA, startDMA, endDMA) and  *)
(* rpc_driver.c (wait_endRPC), with the DMA channel and the RPC flash      *)
(* controller they drive.  Memory is a function from 64-byte cells to the  *)
(* flash cell whose contents they hold, NoData before anything is written. *)
(***************************************************************************)
EXTENDS Cr7Map, Cr7Core

VARIABLES
  mem,            \* contents of memory
  dma,            \* RDMCHCR: "idle", "run", "te" (end) or "cae" (error)
  dar, sar, tcr,  \* destination, source, bursts left
  rdmsec,         \* RDMSEC bit of the channel: "clear" or "set"
  rpc             \* RPC_CMNSR.TEND: "end" or "busy"

dmaVars == <<dma, dar, sar, tcr, rdmsec, rpc>>

NoData == -1

DmaTypeOK ==
  /\ mem \in [Cells -> Int]
  /\ dma \in {"idle", "run", "te", "cae"}
  /\ dar \in 0 .. AddrSpace - 1
  /\ sar \in Nat /\ tcr \in Nat
  /\ rdmsec \in {"clear", "set"} /\ rpc \in {"end", "busy"}

DmaInit ==
  /\ mem = [c \in Cells |-> NoData]
  /\ dma = "idle" /\ dar = 0 /\ sar = 0 /\ tcr = 0
  /\ rdmsec = "clear" /\ rpc = "end"

(* Memory from dst on holds the first len bytes of flash from src on.      *)
Holds(dst, src, len) ==
  \A k \in 0 .. Cell(len + Burst - 1) - 1 :
    /\ Cell(dst) + k \in Cells
    /\ mem[Cell(dst) + k] = Cell(src) + k

-----------------------------------------------------------------------------
(* The hardware: one burst, the end of the transfer, a channel address     *)
(* error, and the end of the flash controller's own transfer.              *)
DmaBurst ==
  /\ dma = "run" /\ tcr > 0
  /\ mem' = [mem EXCEPT ![Cell(dar)] = Cell(sar)]
  /\ dar' = u32(dar + Burst) /\ sar' = sar + Burst /\ tcr' = tcr - 1
  /\ UNCHANGED <<dma, rdmsec, rpc, coreVars>>

DmaEnd ==
  /\ dma = "run" /\ tcr = 0 /\ dma' = "te"
  /\ UNCHANGED <<mem, dar, sar, tcr, rdmsec, rpc, coreVars>>

DmaAddressError ==
  /\ dma = "run" /\ dma' = "cae"
  /\ UNCHANGED <<mem, dar, sar, tcr, rdmsec, rpc, coreVars>>

RpcEnd ==
  /\ rpc = "busy" /\ dma # "run" /\ rpc' = "end"
  /\ UNCHANGED <<mem, dma, dar, sar, tcr, rdmsec, coreVars>>

DmaHardware == DmaBurst \/ DmaEnd \/ DmaAddressError \/ RpcEnd

-----------------------------------------------------------------------------
(* execDMA, called at label "at", up to the wait in endDMA.                *)
execDMA(at, dst, src, len, next) ==
  /\ pc = at
  /\ UNCHANGED <<mem, irq>>
  /\ \/ /\ ~(Aligned(src) /\ Aligned(dst))
        /\ panic
        /\ UNCHANGED <<ret, dmaVars>>
     \/ /\ Aligned(src) /\ Aligned(dst)
        /\ rdmsec' = "set" /\ dar' = dst /\ sar' = src
        /\ tcr' = dmalen(len) \div Burst
        /\ dma' = "run" /\ rpc' = "busy"
        /\ Goto("endDMA") /\ ret' = next

(* endDMA: poll the channel; an address error panics.                      *)
endDMA ==
  /\ pc = "endDMA"
  /\ \/ dma = "te" /\ Goto("wait_endRPC")
     \/ dma = "cae" /\ panic
  /\ UNCHANGED <<ret, irq, mem, dmaVars>>

(* wait_endRPC, then the end of endDMA: clear the channel and its RDMSEC.  *)
wait_endRPC ==
  /\ rpc = "end"
  /\ Step("wait_endRPC", ret)
  /\ dma' = "idle" /\ rdmsec' = "clear"
  /\ UNCHANGED <<mem, dar, sar, tcr, rpc>>
=============================================================================
