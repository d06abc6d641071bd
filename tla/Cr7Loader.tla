------------------------------ MODULE Cr7Loader ------------------------------
(***************************************************************************)
(* loader_main: the first stage, from the reset handler to the jump to the *)
(* TCM loader.  The register tables it writes (clocks, pins, DDR, QoS) are *)
(* not modelled; the order, the error exits and the watchdog set-up are.   *)
(***************************************************************************)
EXTENDS Swdt

VARIABLE dram    \* "off" or "ok": whether InitDram has succeeded

LoaderInit == pc = "hw_init" /\ ret = "panic" /\ dram = "off"

(* cpg_init, pfc_init, console_init, aif_enable_a.                         *)
hw_init ==
  /\ Step("hw_init", "arm_gic_setup")
  /\ UNCHANGED <<dram, swdtVars>>

(* The product check: an image built for another product panics.           *)
prr_check ==
  /\ pc = "prr_check"
  /\ panic \/ Goto("InitDram")
  /\ UNCHANGED <<ret, irq, dram, swdtVars>>

InitDram ==
  /\ pc = "InitDram"
  /\ \/ panic /\ UNCHANGED dram
     \/ dram' = "ok" /\ Goto("loader_end")
  /\ UNCHANGED <<ret, irq, swdtVars>>

(* qos_init, the RWDT reset unmasked, CPG and MFIS write protection; the   *)
(* write of WDTRSTCR keeps the SWDT mask bit.                              *)
MutUnmaskBoth ==
  /\ Step("loader_end", "get_cert_info")
  /\ rstmsk' = {}
  /\ UNCHANGED <<dram, wdt, wrflg, gic>>
loader_end ==
  /\ Step("loader_end", "get_cert_info")
  /\ rstmsk' = rstmsk \ {"RWDT"}
  /\ UNCHANGED <<dram, wdt, wrflg, gic>>

LoaderCode == hw_init \/ prr_check \/ InitDram \/ loader_end
=============================================================================
