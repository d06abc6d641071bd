-------------------------------- MODULE Swdt --------------------------------
(***************************************************************************)
(* The system watchdog, the interrupt path that serves it and the code of  *)
(* swdt.c, arm_gic.c and report_exception.S: started by loader_main,       *)
(* released by tcm_loader_main before the hand-off, or served by           *)
(* irq_exception when it overflows first.                                  *)
(***************************************************************************)
EXTENDS Cr7Core

VARIABLES
  wdt,      \* the timer: "stop", "run" or "ovf" (overflow flag raised)
  wrflg,    \* WTCSRA.WRFLG: a write of WTCNT is still being reflected
  rstmsk,   \* WDTRSTCR: the watchdogs whose overflow does NOT reset the SoC
  gic       \* the gates that are open between interrupt 173 and the core

swdtVars == <<wdt, wrflg, rstmsk, gic>>

GicGates == {"irq173", "dist", "cpuif", "pmr"}

SwdtTypeOK ==
  /\ wdt \in {"stop", "run", "ovf"}
  /\ wrflg \in {"busy", "done"}
  /\ rstmsk \subseteq {"RWDT", "SWDT"}
  /\ gic \subseteq GicGates
  /\ irq \in {"masked", "enabled"}

SwdtInit ==
  /\ wdt \in {"stop", "run"}      \* the boot ROM may have left it running
  /\ wrflg = "done"
  /\ rstmsk \in SUBSET {"RWDT", "SWDT"}
  /\ gic = {}
  /\ irq = "masked"

(* The boot has failed: a handler or panic() is running.                   *)
Dead == \/ pc \in {"panic", "irq_exception", "swdt_exec"}
        \/ /\ pc \in {"swdt_release", "swdt_disable", "gic_release"}
           /\ ret = "panic"

IrqPending == wdt = "ovf" /\ gic = GicGates

-----------------------------------------------------------------------------
(* The hardware.  An overflow before swdt_init has masked the SWDT reset   *)
(* may also reset the SoC: the boot then starts again from Init, which is  *)
(* not a step of this model.                                               *)
SwdtOverflow ==
  /\ wdt = "run" /\ wdt' = "ovf"
  /\ UNCHANGED <<wrflg, rstmsk, gic, coreVars>>

WtcntReflected ==
  /\ wrflg = "busy" /\ wrflg' = "done"
  /\ UNCHANGED <<wdt, rstmsk, gic, coreVars>>

(* Exception entry masks IRQ; the interrupted code is never resumed.       *)
TakeIrq ==
  /\ IrqPending /\ irq = "enabled"
  /\ irq' = "masked" /\ Goto("irq_exception")
  /\ UNCHANGED <<ret, swdtVars>>

(* Any other exception (undefined instruction, FIQ, aborts) is handled in  *)
(* error_output.c: swdt_release(), report, panic().  Its entry masks IRQ   *)
(* and asynchronous aborts, so that a handler is not interrupted; a core   *)
(* that reached panic() from the main code still takes exceptions.         *)
MutReportOnly ==
  /\ pc # "rtos" /\ (~Dead \/ (pc = "panic" /\ irq = "enabled"))
  /\ irq' = "masked" /\ Goto("panic") /\ ret' = "panic"
  /\ UNCHANGED swdtVars
TakeException ==
  /\ pc # "rtos" /\ (~Dead \/ (pc = "panic" /\ irq = "enabled"))
  /\ irq' = "masked" /\ Goto("swdt_release") /\ ret' = "panic"
  /\ UNCHANGED swdtVars

-----------------------------------------------------------------------------
(* arm_gic_init and arm_gic_setup: CPU interface, then distributor.        *)
arm_gic_setup ==
  /\ Step("arm_gic_setup", "swdt_init")
  /\ gic' = GicGates
  /\ UNCHANGED <<wdt, wrflg, rstmsk>>

(* swdt_init up to the wait: stop, set up, mask the SWDT reset.            *)
swdt_init ==
  /\ Step("swdt_init", "swdt_start")
  /\ wdt' = "stop" /\ wrflg' = "busy"
  /\ rstmsk' = rstmsk \cup {"SWDT"}
  /\ UNCHANGED gic

(* ... and from the end of the wait for WTCNT to the start of the timer.   *)
swdt_start ==
  /\ wrflg = "done"
  /\ Step("swdt_start", "aif_enable_i")
  /\ wdt' = "run"
  /\ UNCHANGED <<wrflg, rstmsk, gic>>

MutNoIrqEnable ==
  /\ pc = "aif_enable_i" /\ Goto("prr_check")
  /\ UNCHANGED <<ret, irq, swdtVars>>
aif_enable_i ==
  /\ pc = "aif_enable_i" /\ Goto("prr_check")
  /\ irq' = "enabled"
  /\ UNCHANGED <<ret, swdtVars>>

(* irq_exception: acknowledge, dispatch on the interrupt number.  Any but  *)
(* the watchdog's is interrupt_error_id: swdt_release(), report, panic().  *)
irq_exception ==
  /\ pc = "irq_exception"
  /\ \/ Goto("swdt_exec") /\ UNCHANGED ret
     \/ Goto("swdt_release") /\ ret' = "panic"
  /\ UNCHANGED <<irq, swdtVars>>

(* swdt_exec: end of interrupt, swdt_release(), report, panic().           *)
MutExecReturns ==
  /\ pc = "swdt_exec" /\ Goto("swdt_release") /\ ret' = "gic_security_setting"
  /\ UNCHANGED <<irq, swdtVars>>
swdt_exec ==
  /\ pc = "swdt_exec" /\ Goto("swdt_release") /\ ret' = "panic"
  /\ UNCHANGED <<irq, swdtVars>>

(* swdt_release, in its three steps: aif_disable_i; swdt_disable; and the  *)
(* GIC: deactivate the CPU interface, then clear target, distributor and   *)
(* CPU interface control and the priority mask.                            *)
MutNoMask ==
  /\ pc = "swdt_release" /\ Goto("swdt_disable")
  /\ UNCHANGED <<ret, irq, swdtVars>>
swdt_release ==
  /\ pc = "swdt_release" /\ Goto("swdt_disable")
  /\ irq' = "masked"
  /\ UNCHANGED <<ret, swdtVars>>

swdt_disable ==
  /\ Step("swdt_disable", "gic_release")
  /\ rstmsk' = rstmsk \cup {"SWDT"}
  /\ wdt' = "stop" /\ wrflg' = "busy"
  /\ gic' = gic \ {"irq173"}

gic_release ==
  /\ Step("gic_release", ret)
  /\ gic' = {}
  /\ UNCHANGED <<wdt, wrflg, rstmsk>>

(* gic_security_setting: opens the priority mask for the RTOS.             *)
gic_security_setting ==
  /\ Step("gic_security_setting", "lifec_init")
  /\ gic' = gic \cup {"pmr"}
  /\ UNCHANGED <<wdt, wrflg, rstmsk>>

SwdtCode == \/ arm_gic_setup \/ swdt_init \/ swdt_start \/ aif_enable_i
            \/ irq_exception \/ swdt_exec
            \/ swdt_release \/ swdt_disable \/ gic_release
            \/ gic_security_setting

SwdtHardware == SwdtOverflow \/ WtcntReflected
=============================================================================
