------------------------------- MODULE Cr7Boot -------------------------------
(***************************************************************************)
(* The boot of the Cortex-R7, from reset to the RTOS: the two loader       *)
(* stages on the core, interleaved with the watchdog, the DMA channel, the *)
(* flash controller and the system controller.                             *)
(***************************************************************************)
EXTENDS Cr7Loader, TcmLoader, ScuPower

vars == <<coreVars, swdtVars, dram, tcmVars, mem, dmaVars, scuVars>>

Init == LoaderInit /\ SwdtInit /\ DmaInit /\ TcmInit /\ ScuInit

(* One step of the program that runs on the core.                          *)
Code ==
  \/ LoaderCode /\ UNCHANGED <<tcmVars, mem, dmaVars, scuVars>>
  \/ SwdtCode /\ UNCHANGED <<dram, tcmVars, mem, dmaVars, scuVars>>
  \/ TcmCode /\ UNCHANGED <<swdtVars, dram, scuVars>>
  \/ (endDMA \/ wait_endRPC) /\ UNCHANGED <<swdtVars, dram, tcmVars, scuVars>>
  \/ /\ ScuCode(load["CA5X"])
     /\ UNCHANGED <<swdtVars, dram, tcmVars, mem, dmaVars>>

Interrupt == TakeIrq /\ UNCHANGED <<dram, tcmVars, mem, dmaVars, scuVars>>
Exception ==
  TakeException /\ UNCHANGED <<dram, tcmVars, mem, dmaVars, scuVars>>

Watchdog == SwdtHardware /\ UNCHANGED <<dram, tcmVars, mem, dmaVars, scuVars>>
Transfer == DmaHardware /\ UNCHANGED <<swdtVars, dram, tcmVars, scuVars>>
Sysc == ScuHardware /\ UNCHANGED <<swdtVars, dram, tcmVars, mem, dmaVars>>

Next == Code \/ Interrupt \/ Exception \/ Watchdog \/ Transfer \/ Sysc

Spec == Init /\ [][Next]_vars

(* Fairness.  The core executes; a timer that runs overflows; a pending    *)
(* interrupt that is not masked is taken; WTCNT is reflected.  Nothing is  *)
(* assumed of the DMA channel and the flash controller.                    *)
Fairness == /\ WF_vars(Code) /\ WF_vars(Interrupt) /\ WF_vars(Watchdog)
LiveSpec == Spec /\ Fairness

(* The system controller's part of the hand-off has no watchdog behind it: *)
(* it is assumed to react, and not to refuse every request for ever.       *)
SyscFairness ==
  /\ WF_vars(Sysc)
  /\ SF_vars(Code /\ scu = "off" /\ scu' = "resuming")
KickSpec == LiveSpec /\ SyscFairness

-----------------------------------------------------------------------------
(* Where the boot has got to.                                              *)
Started == {i \in Image : \/ i = "RTOS" /\ pc = "rtos"
                          \/ i = "CA5X" /\ ca5x = "run"}
(* The end of the load area of i, as check_load_area computes it, fits in   *)
(* 32 bits.                                                                *)
NoWrap(i) == load[i] + size[i] < AddrSpace
(* The size checks and check_load_area accept i where it is to be loaded.  *)
Accepted(i) ==
  SizeOK(size[i], i) /\ check_load_area(load[i], FlashImage(i), size[i], i)
(* It lies there complete.                                                 *)
Placed(i) == Accepted(i) /\ ImageHeld(i)

Labels ==
  {"hw_init", "arm_gic_setup", "swdt_init", "swdt_start", "aif_enable_i",
   "prr_check", "InitDram", "loader_end",
   "get_cert_info", "tcm_hw_init", "lcs", "key_cert", "cert", "info",
   "image", "auth", "console_wait", "endDMA", "wait_endRPC",
   "swdt_release", "swdt_disable", "gic_release", "gic_security_setting",
   "lifec_init", "rcar_pwrc_cpuon", "SCU_power_up", "scu_request",
   "scu_check", "scu_wait", "wupcr", "wupcr_wait", "lifec_cr7_setting",
   "rtos", "irq_exception", "swdt_exec", "panic"}

(* Type invariant of the composed state.                                   *)
TypeOK ==
  /\ pc \in Labels
  /\ ret \in {"panic", "cert", "info", "auth", "gic_security_setting"}
  /\ SwdtTypeOK /\ DmaTypeOK /\ TcmTypeOK /\ ScuTypeOK
  /\ dram \in {"off", "ok"}

(* What is started is what flash holds.  When the RTOS is entered or the   *)
(* CA5x core released, the whole image is in memory, byte for byte what    *)
(* was read from flash and nothing loaded since has touched it, and in     *)
(* secure boot the ROM has authenticated it (tcm_loader_main).             *)
StartedIntact ==
  \A i \in Started :
    /\ NoWrap(i) => ImageHeld(i)
    /\ secure = "ROM" => i \in verified

(* Memory is only ever written where check_load_area allows: no transfer,  *)
(* the 256-byte round-up of execDMA included, writes outside DRAM and      *)
(* System RAM.  Stated for load addresses whose end is below 2^32.         *)
InRange(c, base, end) == Cell(base) <= c /\ c < Cell(end)
Confined(c) ==
  \/ InRange(c, DRAM_BASE, DRAM_END)
  \/ InRange(c, SYSRAM_BASE, SYSRAM_END)
MemoryConfined ==
  (\A i \in Image : NoWrap(i)) =>
    \A c \in Cells : mem[c] # NoData => Confined(c)

(* check_load_area's own comment, taken at its word: the destination is in *)
(* System RAM or SDRAM, whatever the certificate says.                     *)
LoadAreaRespected == \A c \in Cells : mem[c] # NoData => Confined(c)

(* The hand-off leaves nothing behind: when the RTOS runs, or the CA5x     *)
(* core does, the watchdog is stopped, its interrupt closed and IRQ masked *)
(* (swdt_release).                                                         *)
HandoffQuiet ==
  Started # {} => wdt = "stop" /\ irq = "masked" /\ "irq173" \notin gic

(* A transfer is over when execDMA returns: outside endDMA the channel is  *)
(* clear, its secure attribute dropped and the flash controller idle.      *)
DmaReleased ==
  ~Dead /\ pc \notin {"endDMA", "wait_endRPC"} =>
    dma = "idle" /\ rdmsec = "clear" /\ rpc = "end"

(* From swdt_init on a watchdog overflow raises the interrupt and never    *)
(* resets the SoC, although loader_main rewrites WDTRSTCR to unmask RWDT;  *)
(* a core in panic() has the SWDT reset masked wherever it came from.      *)
NoSwdtReset ==
  /\ pc \notin {"hw_init", "arm_gic_setup", "swdt_init"} /\ ~Dead
       => "SWDT" \in rstmsk
  /\ pc = "panic" => "SWDT" \in rstmsk

(* The CA5x core leaves reset only with its SCU powered, its wake-up       *)
(* accepted, the boot address of the loaded image and, in a build that     *)
(* sets LifeC up, the protection in place (rcar_pwrc_cpuon).               *)
CoreReleasedSafely ==
  ca5x = "run" => /\ scu = "on" /\ wupcr = "0" /\ bar = load["CA5X"]
                  /\ RCAR_LIFEC_SETTING => lifec # "reset"

(* A panic or a watchdog overflow is final: from then on nothing is        *)
(* started, although the handler runs swdt_release like the hand-off does. *)
DeadIsFinal == [][Dead => Dead' /\ Started' = Started]_vars

(* The boot ends: in the RTOS or in panic(), however long flash and DMA    *)
(* take, because the watchdog bounds every wait before its release.        *)
BootEnds == <>(pc \in {"panic", "rtos"})

(* A core that panics with the watchdog running does not leave it running: *)
(* the overflow is served and the timer stopped.                           *)
PanicQuiesces == (pc = "panic") ~> (pc = "panic" /\ wdt = "stop")

(* Refinement: what each state means to BootPolicy.                        *)
Policy == INSTANCE BootPolicy WITH
  Images <- Image,
  policy <- CASE secure = "unset" -> "undecided"
              [] secure = "NULL" -> "normal"
              [] secure = "ROM" -> "secure",
  placed <- {i \in Image : Placed(i)},
  checked <- verified,
  started <- Started,
  stopped <- Dead

(* The loader implements BootPolicy.                                       *)
ImplementsPolicy == Policy!PolicySpec
=============================================================================
