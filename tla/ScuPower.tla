------------------------------ MODULE ScuPower ------------------------------
(***************************************************************************)
(* rcar_pwrc.c: powering up the SCU of the Cortex-A57 cluster through the  *)
(* system controller (SYSC), waking core 0 through the APMU and releasing  *)
(* its reset.  The polling loops run after the watchdog has been released. *)
(***************************************************************************)
EXTENDS Cr7Core, Integers

VARIABLES
  scu,      \* PWRSR: "off", "resuming" or "on"
  syscsr,   \* SYSCSR: "busy" or "ready" to take a resume request
  pwrer,    \* PWRER: the last request was refused ("err") or not ("ok")
  syscisr,  \* SYSCISR bit of the SCU: "0" or "1"
  wupcr,    \* WUPCR bit of core 0: "0" or "1" (wake-up in progress)
  bar,      \* CA5XCPU0BAR: boot address, -1 before it is written
  ca5x      \* core 0 of the main CPU: "reset" or "run"

scuVars == <<scu, syscsr, pwrer, syscisr, wupcr, bar, ca5x>>

ScuTypeOK ==
  /\ scu \in {"off", "resuming", "on"}
  /\ syscsr \in {"busy", "ready"} /\ pwrer \in {"ok", "err"}
  /\ syscisr \in {"0", "1"} /\ wupcr \in {"0", "1"}
  /\ bar \in Int /\ ca5x \in {"reset", "run"}

ScuInit ==
  /\ scu \in {"off", "on"}
  /\ syscsr \in {"busy", "ready"}
  /\ pwrer = "ok" /\ syscisr = "0" /\ wupcr = "0"
  /\ bar = -1 /\ ca5x = "reset"

-----------------------------------------------------------------------------
(* The hardware: another domain's transition ends, the SCU has resumed,    *)
(* the core's wake-up sequence has been accepted.                          *)
SyscReady ==
  /\ syscsr = "busy" /\ scu # "resuming" /\ syscsr' = "ready"
  /\ UNCHANGED <<scu, pwrer, syscisr, wupcr, bar, ca5x, coreVars>>

ScuResumed ==
  /\ scu = "resuming"
  /\ scu' = "on" /\ syscisr' = "1" /\ syscsr' = "ready"
  /\ UNCHANGED <<pwrer, wupcr, bar, ca5x, coreVars>>

CoreWoken ==
  /\ wupcr = "1" /\ scu = "on" /\ wupcr' = "0"
  /\ UNCHANGED <<scu, syscsr, pwrer, syscisr, bar, ca5x, coreVars>>

ScuHardware == SyscReady \/ ScuResumed \/ CoreWoken

-----------------------------------------------------------------------------
(* rcar_pwrc_cpuon up to SCU_power_up: the product may lack the CPUs.      *)
rcar_pwrc_cpuon(boot_addr) ==
  /\ pc = "rcar_pwrc_cpuon"
  /\ \/ panic /\ UNCHANGED bar
     \/ bar' = boot_addr /\ Goto("SCU_power_up")
  /\ UNCHANGED <<ret, irq, scu, syscsr, pwrer, syscisr, wupcr, ca5x>>

SCU_power_up ==
  /\ Step("SCU_power_up", IF scu = "off" THEN "scu_request" ELSE "wupcr")
  /\ UNCHANGED scuVars

(* Wait for SYSCSR, write PWRONCR: the request is taken or refused.        *)
scu_request ==
  /\ syscsr = "ready"
  /\ Step("scu_request", "scu_check")
  /\ \/ pwrer' = "err" /\ UNCHANGED <<scu, syscsr>>
     \/ pwrer' = "ok" /\ scu' = "resuming" /\ syscsr' = "busy"
  /\ UNCHANGED <<syscisr, wupcr, bar, ca5x>>

(* Repeat while PWRER reports an error.                                    *)
scu_check ==
  /\ Step("scu_check", IF pwrer = "err" THEN "scu_request" ELSE "scu_wait")
  /\ UNCHANGED scuVars

scu_wait ==
  /\ syscisr = "1"
  /\ Step("scu_wait", "wupcr")
  /\ syscisr' = "0"
  /\ UNCHANGED <<scu, syscsr, pwrer, wupcr, bar, ca5x>>

(* The end of rcar_pwrc_cpuon: wake core 0, poll, release its reset.       *)
write_wupcr ==
  /\ Step("wupcr", "wupcr_wait")
  /\ wupcr' = "1"
  /\ UNCHANGED <<scu, syscsr, pwrer, syscisr, bar, ca5x>>

release_reset ==
  /\ wupcr = "0"
  /\ Step("wupcr_wait", "lifec_cr7_setting")
  /\ ca5x' = "run"
  /\ UNCHANGED <<scu, syscsr, pwrer, syscisr, wupcr, bar>>

ScuCode(boot_addr) == \/ rcar_pwrc_cpuon(boot_addr) \/ SCU_power_up
                      \/ scu_request \/ scu_check \/ scu_wait
                      \/ write_wupcr \/ release_reset
=============================================================================
