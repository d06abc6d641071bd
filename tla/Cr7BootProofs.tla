---------------------------- MODULE Cr7BootProofs ----------------------------
(***************************************************************************)
(* Proofs about Cr7Boot, for every memory map and every certificate.       *)
(***************************************************************************)
EXTENDS Cr7Boot, TLAPS

(* The sizes and addresses of the map are natural numbers.                 *)
LEMMA MapTypes ==
  /\ AddrSpace \in Nat /\ AddrSpace > 0
  /\ FLASH_BASE \in Nat /\ FLASH_SIZE \in Nat /\ FLASH_CERT_SIZE \in Nat
  /\ DRAM_BASE \in Nat /\ DRAM_END \in Nat
  /\ SYSRAM_BASE \in Nat /\ SYSRAM_END \in Nat /\ RTOS_CERT_ADDR \in Nat
BY MapOK DEF MapAssumption

(* u32 always lands in the 32-bit range.                                   *)
LEMMA U32Type == ASSUME NEW x \in Nat PROVE u32(x) \in 0 .. AddrSpace - 1
BY MapTypes DEF u32

(* Below AddrSpace u32 changes nothing.                                    *)
LEMMA U32Small == ASSUME NEW x \in Nat, x < AddrSpace PROVE u32(x) = x
BY MapTypes DEF u32

(* One wrap past the end of the address space (check_load_area).           *)
LEMMA U32Wrap ==
  ASSUME NEW x \in Nat, x >= AddrSpace, x < 2 * AddrSpace
  PROVE u32(x) = x - AddrSpace
BY MapTypes DEF u32

(* The arguments of the transfers that do not depend on a certificate.     *)
LEMMA KeyCertArgs ==
  ASSUME NEW m
  PROVE /\ SEC_BOOT_CERT_ADDR(boot_cert_addr(m)) \in 0 .. AddrSpace - 1
        /\ FLASH_BASE + boot_cert_addr(m) \in Nat
        /\ boot_cert_size(m) \in Nat
BY MapOK DEF MapAssumption, SEC_BOOT_CERT_ADDR, boot_cert_addr,
             boot_cert_size

(* Where the certificate and the image of i are in flash, and its limit.   *)
LEMMA ImageArgs ==
  ASSUME NEW i \in Image
  PROVE /\ FlashCert(i) \in Nat /\ FlashImage(i) \in Nat
        /\ MaxSize(i) \in Nat /\ RTOS_CERT_ADDR \in 0 .. AddrSpace - 1
BY MapOK DEF MapAssumption, FlashCert, FlashImage, MaxSize, Image

(* The rounded length of execDMA is a natural number.                      *)
LEMMA DmalenType == ASSUME NEW len \in Nat PROVE dmalen(len) \in Nat
<1>1. (len + 256) - ((len + 256) % 256) \in Nat
  OBVIOUS
<1>2. u32((len + 256) - ((len + 256) % 256)) \in Nat
  BY <1>1, U32Type, MapTypes
<1> QED BY <1>2 DEF dmalen, DMA_SIZE_UNIT

(* Whatever a certificate holds, what get_info_from_cert reads of it fits  *)
(* in 32 bits.                                                             *)
LEMMA CertFields ==
  ASSUME NEW c \in Cert, NEW m
  PROVE /\ cert_size(c, m) \in 0 .. AddrSpace - 1
        /\ cert_dest(c, m) \in 0 .. AddrSpace - 1
<1>1. CertOffset(c, m) \in 0..3
  BY DEF CertOffset, Cert
<1>2. ASSUME CertOffset(c, m) # 3
      PROVE /\ c.word[CertOffset(c, m)] * 4 \in Nat
            /\ c.dst[CertOffset(c, m)] \in 0 .. AddrSpace - 1
  <2>1. CertOffset(c, m) \in 0..2 BY <1>1, <1>2
  <2> QED BY <2>1, MapTypes DEF Cert
<1> QED BY <1>2, U32Type, MapTypes DEF cert_size, cert_dest

(* A transfer started by execDMA has well-typed registers.                 *)
LEMMA ExecDmaType ==
  ASSUME TypeOK, NEW at, NEW dst \in 0 .. AddrSpace - 1, NEW src \in Nat,
         NEW len \in Nat, NEW next \in {"cert", "info", "auth"},
         execDMA(at, dst, src, len, next)
  PROVE DmaTypeOK' /\ (pc \in Labels)' /\ irq' = irq
        /\ ret' \in {"panic", "cert", "info", "auth", "gic_security_setting"}
<1>1. dmalen(len) \div Burst \in Nat
  BY DmalenType DEF Burst
<1> QED BY <1>1 DEF TypeOK, DmaTypeOK, execDMA, panic, Goto, Labels, dmaVars

(* Every initial state is well typed.                                      *)
LEMMA TypeInit == Init => TypeOK
<1> SUFFICES ASSUME Init PROVE TypeOK OBVIOUS
<1>1. (0 \in 0 .. AddrSpace - 1) BY MapTypes
<1>2. DmaTypeOK BY <1>1 DEF Init, DmaInit, DmaTypeOK, NoData
<1>3. TcmTypeOK BY <1>1 DEF Init, TcmInit, TcmTypeOK, Image
<1>4. SwdtTypeOK BY DEF Init, SwdtInit, SwdtTypeOK
<1>5. ScuTypeOK BY DEF Init, ScuInit, ScuTypeOK
<1> QED BY <1>2, <1>3, <1>4, <1>5 DEF Init, LoaderInit, TypeOK, Labels

(* Every step, of the code, an exception or a device, keeps the types.     *)
LEMMA TypeStep == TypeOK /\ [Next]_vars => TypeOK'
<1> SUFFICES ASSUME TypeOK, [Next]_vars PROVE TypeOK'
  OBVIOUS
<1> USE DEF TypeOK, Labels, Step, Goto, panic, coreVars
<1>1. CASE LoaderCode /\ UNCHANGED <<tcmVars, mem, dmaVars, scuVars>>
  <2>1. DmaTypeOK' /\ TcmTypeOK' /\ ScuTypeOK'
    BY <1>1 DEF tcmVars, dmaVars, scuVars, DmaTypeOK, TcmTypeOK, ScuTypeOK
  <2>2. CASE hw_init
    BY <2>1, <2>2 DEF hw_init, swdtVars, SwdtTypeOK
  <2>3. CASE prr_check
    BY <2>1, <2>3 DEF prr_check, swdtVars, SwdtTypeOK
  <2>4. CASE InitDram
    BY <2>1, <2>4 DEF InitDram, swdtVars, SwdtTypeOK
  <2>5. CASE loader_end
    BY <2>1, <2>5 DEF loader_end, SwdtTypeOK
  <2> QED BY <1>1, <2>2, <2>3, <2>4, <2>5 DEF LoaderCode
<1>2. CASE SwdtCode /\ UNCHANGED <<dram, tcmVars, mem, dmaVars, scuVars>>
  <2>1. DmaTypeOK' /\ TcmTypeOK' /\ ScuTypeOK' /\ dram' = dram
    BY <1>2 DEF tcmVars, dmaVars, scuVars, DmaTypeOK, TcmTypeOK, ScuTypeOK
  <2>2. CASE arm_gic_setup
    BY <2>1, <2>2 DEF arm_gic_setup, SwdtTypeOK
  <2>3. CASE swdt_init
    BY <2>1, <2>3 DEF swdt_init, SwdtTypeOK
  <2>4. CASE swdt_start
    BY <2>1, <2>4 DEF swdt_start, SwdtTypeOK
  <2>5. CASE aif_enable_i
    BY <2>1, <2>5 DEF aif_enable_i, swdtVars, SwdtTypeOK
  <2>6. CASE irq_exception
    BY <2>1, <2>6 DEF irq_exception, swdtVars, SwdtTypeOK
  <2>7. CASE swdt_exec
    BY <2>1, <2>7 DEF swdt_exec, swdtVars, SwdtTypeOK
  <2>8. CASE swdt_release
    BY <2>1, <2>8 DEF swdt_release, swdtVars, SwdtTypeOK
  <2>9. CASE swdt_disable
    BY <2>1, <2>9 DEF swdt_disable, SwdtTypeOK
  <2>10. CASE gic_release
    BY <2>1, <2>10 DEF gic_release, SwdtTypeOK
  <2>11. CASE gic_security_setting
    BY <2>1, <2>11 DEF gic_security_setting, SwdtTypeOK, GicGates
  <2> QED BY <1>2, <2>2, <2>3, <2>4, <2>5, <2>6, <2>7, <2>8, <2>9, <2>10,
             <2>11 DEF SwdtCode
<1>3. CASE TcmCode /\ UNCHANGED <<swdtVars, dram, scuVars>>
  <2>0. ScuTypeOK' /\ dram' = dram
    BY <1>3 DEF scuVars, ScuTypeOK
  <2>1. ASSUME UNCHANGED <<mem, dmaVars>> PROVE DmaTypeOK'
    BY <2>1 DEF dmaVars, DmaTypeOK
  <2>6. ASSUME irq' = irq PROVE SwdtTypeOK'
    BY <1>3, <2>6 DEF swdtVars, SwdtTypeOK
  <2>7. CASE get_cert_info
    <3>1. TcmTypeOK' BY <2>7 DEF get_cert_info, TcmTypeOK
    <3> QED BY <2>0, <2>1, <2>6, <2>7, <3>1 DEF get_cert_info
  <2>8. CASE tcm_hw_init
    <3>1. TcmTypeOK' BY <2>8 DEF tcm_hw_init, TcmTypeOK
    <3>2. DmaTypeOK' BY <2>8 DEF tcm_hw_init, DmaTypeOK
    <3> QED BY <2>0, <2>6, <2>8, <3>1, <3>2 DEF tcm_hw_init
  <2>9. CASE lcs_judgement
    <3>1. TcmTypeOK' BY <2>9 DEF lcs_judgement, TcmTypeOK
    <3> QED BY <2>0, <2>1, <2>6, <2>9, <3>1 DEF lcs_judgement
  <2>10. CASE authenticate
    <3>1. TcmTypeOK'
      BY <2>10 DEF authenticate, NextBlock, TcmTypeOK, Image
    <3> QED BY <2>0, <2>1, <2>6, <2>10, <3>1 DEF authenticate, NextBlock
  <2>11. CASE console_wait
    <3>1. TcmTypeOK' BY <2>11 DEF console_wait, tcmVars, TcmTypeOK
    <3> QED BY <2>0, <2>1, <2>6, <2>11, <3>1 DEF console_wait
  <2>12. CASE lifec_init \/ lifec_cr7_setting
    <3>1. TcmTypeOK'
      BY <2>12 DEF lifec_init, lifec_cr7_setting, TcmTypeOK
    <3> QED BY <2>0, <2>1, <2>6, <2>12, <3>1 DEF lifec_init, lifec_cr7_setting
  <2>2. CASE load_key_cert
    <3>1. DmaTypeOK' /\ (pc \in Labels)' /\ irq' = irq
          /\ ret' \in {"panic", "cert", "info", "auth",
                       "gic_security_setting"}
      BY <2>2, KeyCertArgs, ExecDmaType DEF load_key_cert
    <3> QED BY <1>3, <2>0, <2>2, <3>1 DEF load_key_cert, tcmVars, swdtVars,
               SwdtTypeOK, TcmTypeOK
  <2>3. CASE load_cert
    <3>1. DmaTypeOK' /\ (pc \in Labels)' /\ irq' = irq
          /\ ret' \in {"panic", "cert", "info", "auth",
                       "gic_security_setting"}
      BY <2>3, ImageArgs, MapTypes, ExecDmaType DEF load_cert, TcmTypeOK
    <3> QED BY <1>3, <2>0, <2>3, <3>1 DEF load_cert, tcmVars, swdtVars,
               SwdtTypeOK, TcmTypeOK
  <2>4. CASE load_image
    <3>1. DmaTypeOK' /\ (pc \in Labels)' /\ irq' = irq
          /\ ret' \in {"panic", "cert", "info", "auth",
                       "gic_security_setting"}
      BY <2>4, ImageArgs, MapTypes, ExecDmaType DEF load_image, TcmTypeOK
    <3> QED BY <1>3, <2>0, <2>4, <3>1 DEF load_image, tcmVars, swdtVars,
               SwdtTypeOK, TcmTypeOK
  <2>5. CASE get_info
    <3>1. PICK i \in Image :
            /\ size' = [size EXCEPT ![img] = cert_size(cert[i], magic)]
            /\ load' = [load EXCEPT ![img] = cert_dest(cert[i], magic)]
      BY <2>5 DEF get_info
    <3>2. cert[i] \in Cert
      BY BuildOK DEF TcmTypeOK
    <3>3. size' \in [Image -> 0 .. AddrSpace - 1]
          /\ load' \in [Image -> 0 .. AddrSpace - 1]
      BY <3>1, <3>2, CertFields DEF TcmTypeOK
    <3> QED BY <1>3, <2>0, <2>5, <3>3 DEF get_info, tcmVars, dmaVars, swdtVars,
               SwdtTypeOK, TcmTypeOK, DmaTypeOK
  <2> QED BY <1>3, <2>2, <2>3, <2>4, <2>5, <2>7, <2>8, <2>9, <2>10, <2>11,
             <2>12 DEF TcmCode
<1>4. CASE (endDMA \/ wait_endRPC)
           /\ UNCHANGED <<swdtVars, dram, tcmVars, scuVars>>
  BY <1>4 DEF endDMA, wait_endRPC, swdtVars, tcmVars, scuVars, dmaVars,
     SwdtTypeOK, DmaTypeOK, TcmTypeOK, ScuTypeOK
<1>5. CASE ScuCode(load["CA5X"])
           /\ UNCHANGED <<swdtVars, dram, tcmVars, mem, dmaVars>>
  <2>1. SwdtTypeOK' /\ DmaTypeOK' /\ TcmTypeOK' /\ dram' = dram
    BY <1>5 DEF ScuCode, rcar_pwrc_cpuon, SCU_power_up, scu_request,
       scu_check, scu_wait, write_wupcr, release_reset,
       swdtVars, tcmVars, dmaVars, SwdtTypeOK, DmaTypeOK, TcmTypeOK
  <2>2. load["CA5X"] \in Int
    BY MapTypes DEF TcmTypeOK, Image
  <2>3. (pc \in Labels)' /\ ScuTypeOK' /\ ret' = ret
    BY <1>5, <2>2 DEF ScuCode, rcar_pwrc_cpuon, SCU_power_up, scu_request,
       scu_check, scu_wait, write_wupcr, release_reset, scuVars, ScuTypeOK
  <2> QED BY <2>1, <2>3
<1>6. CASE Interrupt \/ Exception
  BY <1>6 DEF Interrupt, TakeIrq, Exception, TakeException, swdtVars, tcmVars,
     dmaVars, scuVars, SwdtTypeOK, DmaTypeOK, TcmTypeOK, ScuTypeOK
<1>7. CASE Watchdog
  <2>1. DmaTypeOK' /\ TcmTypeOK' /\ ScuTypeOK' /\ dram' = dram
    BY <1>7 DEF Watchdog, tcmVars, dmaVars, scuVars, DmaTypeOK, TcmTypeOK,
       ScuTypeOK
  <2>2. SwdtTypeOK' /\ pc' = pc /\ ret' = ret
    BY <1>7 DEF Watchdog, SwdtHardware, SwdtOverflow, WtcntReflected,
       SwdtTypeOK
  <2> QED BY <2>1, <2>2
<1>8. CASE Transfer
  <2>1. CASE DmaBurst
    <3>1. u32(dar + Burst) \in 0 .. AddrSpace - 1
      BY U32Type, MapTypes DEF DmaTypeOK, Burst
    <3>2. Cell(sar) \in Int
      BY DEF Cell, DmaTypeOK, Burst
    <3>3. DmaTypeOK'
      <4>1. (mem \in [Cells -> Int])'
        BY <2>1, <3>2 DEF DmaBurst, DmaTypeOK
      <4>2. (sar \in Nat /\ tcr \in Nat)'
        BY <2>1 DEF DmaBurst, DmaTypeOK, Burst
      <4> QED BY <2>1, <3>1, <4>1, <4>2 DEF DmaBurst, DmaTypeOK
    <3> QED BY <1>8, <2>1, <3>3 DEF Transfer, DmaBurst, swdtVars, tcmVars,
               scuVars, SwdtTypeOK, TcmTypeOK, ScuTypeOK
  <2>2. CASE DmaEnd \/ DmaAddressError \/ RpcEnd
    <3>1. DmaTypeOK' /\ pc' = pc /\ ret' = ret /\ irq' = irq
      <4>1. CASE DmaEnd BY <4>1 DEF DmaEnd, DmaTypeOK
      <4>2. CASE DmaAddressError BY <4>2 DEF DmaAddressError, DmaTypeOK
      <4>3. CASE RpcEnd BY <4>3 DEF RpcEnd, DmaTypeOK
      <4> QED BY <2>2, <4>1, <4>2, <4>3
    <3> QED BY <1>8, <3>1 DEF Transfer, swdtVars, tcmVars, scuVars,
               SwdtTypeOK, TcmTypeOK, ScuTypeOK
  <2> QED BY <1>8, <2>1, <2>2 DEF Transfer, DmaHardware
<1>9. CASE Sysc
  BY <1>9 DEF Sysc, ScuHardware, SyscReady, ScuResumed, CoreWoken, swdtVars,
     tcmVars, dmaVars, SwdtTypeOK, DmaTypeOK, TcmTypeOK, ScuTypeOK
<1>10. CASE UNCHANGED vars
  BY <1>10 DEF vars, swdtVars, tcmVars, dmaVars, scuVars, SwdtTypeOK,
     DmaTypeOK, TcmTypeOK, ScuTypeOK
<1> QED BY <1>1, <1>2, <1>3, <1>4, <1>5, <1>6, <1>7, <1>8, <1>9, <1>10
        DEF Next, Code

(* Type correctness of the composed boot, for every map and certificate.   *)
THEOREM TypeCorrect == Spec => []TypeOK
BY TypeInit, TypeStep, PTL DEF Spec

-----------------------------------------------------------------------------
(***************************************************************************)
(* The control invariant: where the core is determines the state of the    *)
(* watchdog path, of the DMA channel and of the system controller.         *)
(***************************************************************************)
Early == {"hw_init", "arm_gic_setup", "swdt_init"}
Released == {"gic_security_setting", "lifec_init", "rcar_pwrc_cpuon",
             "SCU_power_up", "scu_request", "scu_check", "scu_wait", "wupcr",
             "wupcr_wait", "lifec_cr7_setting", "rtos"}
BarSet == {"SCU_power_up", "scu_request", "scu_check", "scu_wait", "wupcr",
           "wupcr_wait"}

(* Return addresses belong to the routine that is running.                 *)
RetInv ==
  /\ pc \in {"swdt_release", "swdt_disable", "gic_release"} =>
       ret \in {"panic", "gic_security_setting"}
  /\ pc \in {"endDMA", "wait_endRPC"} => ret \in {"cert", "info", "auth"}

(* IRQ is masked before the watchdog is served and after its release.      *)
SwdtInv ==
  /\ pc \notin Early /\ ~Dead => "SWDT" \in rstmsk
  /\ pc \in {"gic_release", "panic"} => "SWDT" \in rstmsk
  /\ pc \in Early \cup Released
             \cup {"swdt_start", "aif_enable_i", "irq_exception", "swdt_exec",
                   "swdt_disable", "gic_release"} => irq = "masked"
  /\ pc \in Released \cup {"gic_release"} =>
       wdt = "stop" /\ "irq173" \notin gic
  /\ ca5x = "run" => wdt = "stop" /\ irq = "masked" /\ "irq173" \notin gic

DmaInv ==
  /\ DmaReleased
  /\ pc = "wait_endRPC" => dma = "te"

ScuInv ==
  /\ scu = "resuming" => pc \in {"scu_check", "scu_wait"} \/ Dead
  /\ pc = "scu_request" => scu = "off"
  /\ pc = "scu_check" => IF pwrer = "err" THEN scu = "off" ELSE scu # "off"
  /\ pc = "scu_wait" => scu # "off"
  /\ syscisr = "1" => scu = "on"
  /\ pc \in {"wupcr", "wupcr_wait"} => scu = "on"
  /\ pc \in BarSet => bar = load["CA5X"]
  /\ pc \in BarSet \cup {"rcar_pwrc_cpuon"} /\ RCAR_LIFEC_SETTING
       => lifec # "reset"
  /\ ca5x = "run" => pc \in {"lifec_cr7_setting", "rtos"} \/ Dead
  /\ CoreReleasedSafely

CtlInv == RetInv /\ SwdtInv /\ DmaInv /\ ScuInv

(* Every initial state satisfies the control invariant.                    *)
LEMMA CtlInit == Init => CtlInv
BY DEF Init, LoaderInit, SwdtInit, DmaInit, TcmInit, ScuInit, CtlInv, RetInv,
   SwdtInv, DmaInv, ScuInv, DmaReleased, CoreReleasedSafely, Early, Released,
   BarSet, Dead

(* Return addresses: every step keeps RetInv.                              *)
LEMMA RetStep == TypeOK /\ CtlInv /\ [Next]_vars => RetInv'
<1> SUFFICES ASSUME TypeOK, CtlInv, [Next]_vars PROVE RetInv'
  OBVIOUS
<1> USE DEF RetInv, Step, Goto, panic
<1>0. ASSUME UNCHANGED <<pc, ret>> PROVE RetInv'
  BY <1>0 DEF CtlInv
<1>1. CASE LoaderCode
  BY <1>1 DEF LoaderCode, hw_init, prr_check, InitDram, loader_end
<1>2. CASE SwdtCode
  BY <1>2 DEF CtlInv, SwdtCode, arm_gic_setup, swdt_init, swdt_start,
     aif_enable_i, irq_exception, swdt_exec, swdt_release, swdt_disable,
     gic_release, gic_security_setting
<1>3. CASE TcmCode
  BY <1>3 DEF TcmCode, get_cert_info, tcm_hw_init, lcs_judgement,
     load_key_cert, load_cert, get_info, load_image, execDMA, authenticate,
     NextBlock, console_wait, lifec_init, lifec_cr7_setting
<1>4. CASE endDMA \/ wait_endRPC
  BY <1>4 DEF CtlInv, endDMA, wait_endRPC
<1>5. CASE ScuCode(load["CA5X"])
  BY <1>5 DEF ScuCode, rcar_pwrc_cpuon, SCU_power_up, scu_request, scu_check,
     scu_wait, write_wupcr, release_reset
<1>6. CASE Interrupt \/ Exception
  BY <1>6 DEF Interrupt, TakeIrq, Exception, TakeException
<1>7. CASE Watchdog \/ Transfer \/ Sysc \/ UNCHANGED vars
  BY <1>0, <1>7 DEF Watchdog, SwdtHardware, SwdtOverflow, WtcntReflected,
     Transfer, DmaHardware, DmaBurst, DmaEnd, DmaAddressError, RpcEnd, Sysc,
     ScuHardware, SyscReady, ScuResumed, CoreWoken, vars, coreVars
<1> QED BY <1>1, <1>2, <1>3, <1>4, <1>5, <1>6, <1>7 DEF Next, Code

(* The watchdog path: swdt_init, swdt_release and the handlers.            *)
LEMMA SwdtStep == TypeOK /\ CtlInv /\ [Next]_vars => SwdtInv'
<1> SUFFICES ASSUME TypeOK, CtlInv, [Next]_vars PROVE SwdtInv'
  OBVIOUS
<1> USE DEF SwdtInv, ScuInv, Dead, Step, Goto, panic, Early, Released
<1>1. CASE LoaderCode /\ UNCHANGED scuVars
  BY <1>1 DEF CtlInv, LoaderCode, hw_init, prr_check, InitDram, loader_end,
     swdtVars, scuVars
<1>2. CASE SwdtCode /\ UNCHANGED scuVars
  BY <1>2 DEF CtlInv, RetInv, SwdtCode, arm_gic_setup, swdt_init, swdt_start,
     aif_enable_i, irq_exception, swdt_exec, swdt_release, swdt_disable,
     gic_release, gic_security_setting, swdtVars, scuVars
<1>3. CASE TcmCode /\ UNCHANGED <<swdtVars, scuVars>>
  BY <1>3 DEF CtlInv, TcmCode, get_cert_info, tcm_hw_init, lcs_judgement,
     load_key_cert, load_cert, get_info, load_image, execDMA, authenticate,
     NextBlock, console_wait, lifec_init, lifec_cr7_setting, swdtVars, scuVars
<1>4. CASE (endDMA \/ wait_endRPC) /\ UNCHANGED <<swdtVars, scuVars>>
  BY <1>4 DEF CtlInv, RetInv, endDMA, wait_endRPC, swdtVars, scuVars
<1>5. CASE ScuCode(load["CA5X"]) /\ UNCHANGED swdtVars
  BY <1>5 DEF CtlInv, ScuCode, rcar_pwrc_cpuon, SCU_power_up, scu_request,
     scu_check, scu_wait, write_wupcr, release_reset, swdtVars, scuVars
<1>6. CASE Interrupt \/ Exception
  BY <1>6 DEF CtlInv, Interrupt, TakeIrq, Exception, TakeException, swdtVars,
     scuVars
<1>7. CASE Watchdog
  BY <1>7 DEF CtlInv, Watchdog, SwdtHardware, SwdtOverflow, WtcntReflected,
     coreVars, scuVars
<1>8. CASE (Transfer \/ Sysc \/ UNCHANGED vars)
  BY <1>8 DEF CtlInv, Transfer, DmaHardware, DmaBurst, DmaEnd,
     DmaAddressError, RpcEnd, Sysc, ScuHardware, SyscReady, ScuResumed,
     CoreWoken, vars, coreVars, swdtVars, scuVars
<1> QED BY <1>1, <1>2, <1>3, <1>4, <1>5, <1>6, <1>7, <1>8 DEF Next, Code

(* The DMA channel and the flash controller: execDMA and endDMA.           *)
LEMMA DmaStep == TypeOK /\ CtlInv /\ [Next]_vars => DmaInv'
<1> SUFFICES ASSUME TypeOK, CtlInv, [Next]_vars PROVE DmaInv'
  OBVIOUS
<1> USE DEF DmaInv, DmaReleased, Dead, Step, Goto, panic
<1>1. CASE LoaderCode /\ UNCHANGED dmaVars
  BY <1>1 DEF CtlInv, LoaderCode, hw_init, prr_check, InitDram, loader_end,
     dmaVars
<1>2. CASE SwdtCode /\ UNCHANGED dmaVars
  BY <1>2 DEF CtlInv, RetInv, SwdtCode, arm_gic_setup, swdt_init, swdt_start,
     aif_enable_i, irq_exception, swdt_exec, swdt_release, swdt_disable,
     gic_release, gic_security_setting, dmaVars
<1>3. CASE TcmCode
  BY <1>3 DEF CtlInv, TcmCode, get_cert_info, tcm_hw_init, lcs_judgement,
     load_key_cert, load_cert, get_info, load_image, execDMA, authenticate,
     NextBlock, console_wait, lifec_init, lifec_cr7_setting, dmaVars
<1>4. CASE endDMA \/ wait_endRPC
  BY <1>4 DEF CtlInv, RetInv, endDMA, wait_endRPC, dmaVars
<1>5. CASE ScuCode(load["CA5X"]) /\ UNCHANGED dmaVars
  BY <1>5 DEF CtlInv, ScuCode, rcar_pwrc_cpuon, SCU_power_up, scu_request,
     scu_check, scu_wait, write_wupcr, release_reset, dmaVars
<1>6. CASE Interrupt \/ Exception
  BY <1>6 DEF Interrupt, TakeIrq, Exception, TakeException
<1>7. CASE Transfer
  BY <1>7 DEF CtlInv, Transfer, DmaHardware, DmaBurst, DmaEnd,
     DmaAddressError, RpcEnd, coreVars
<1>8. CASE Watchdog \/ Sysc \/ UNCHANGED vars
  BY <1>8 DEF CtlInv, Watchdog, SwdtHardware, SwdtOverflow, WtcntReflected,
     Sysc, ScuHardware, SyscReady, ScuResumed, CoreWoken, vars, coreVars,
     dmaVars
<1> QED BY <1>1, <1>2, <1>3, <1>4, <1>5, <1>6, <1>7, <1>8 DEF Next, Code

(* The system controller: rcar_pwrc_cpuon and SCU_power_up.                *)
LEMMA ScuStep == TypeOK /\ CtlInv /\ [Next]_vars => ScuInv'
<1> SUFFICES ASSUME TypeOK, CtlInv, [Next]_vars PROVE ScuInv'
  OBVIOUS
<1> USE DEF ScuInv, CoreReleasedSafely, Dead, BarSet, Step, Goto, panic
<1>1. CASE LoaderCode /\ UNCHANGED <<tcmVars, scuVars>>
  BY <1>1 DEF CtlInv, LoaderCode, hw_init, prr_check, InitDram, loader_end,
     tcmVars, scuVars
<1>2. CASE SwdtCode /\ UNCHANGED <<tcmVars, scuVars>>
  BY <1>2 DEF CtlInv, RetInv, SwdtCode, arm_gic_setup, swdt_init, swdt_start,
     aif_enable_i, irq_exception, swdt_exec, swdt_release, swdt_disable,
     gic_release, gic_security_setting, tcmVars, scuVars
<1>3. CASE TcmCode /\ UNCHANGED scuVars
  BY <1>3 DEF CtlInv, TcmCode, get_cert_info, tcm_hw_init, lcs_judgement,
     load_key_cert, load_cert, get_info, load_image, execDMA, authenticate,
     NextBlock, console_wait, lifec_init, lifec_cr7_setting, tcmVars, scuVars
<1>4. CASE (endDMA \/ wait_endRPC) /\ UNCHANGED <<tcmVars, scuVars>>
  BY <1>4 DEF CtlInv, RetInv, endDMA, wait_endRPC, tcmVars, scuVars
<1>5. CASE ScuCode(load["CA5X"]) /\ UNCHANGED tcmVars
  BY <1>5 DEF CtlInv, TypeOK, ScuTypeOK, ScuCode, rcar_pwrc_cpuon,
     SCU_power_up, scu_request, scu_check, scu_wait, write_wupcr,
     release_reset, tcmVars, scuVars
<1>6. CASE Interrupt \/ Exception
  BY <1>6 DEF CtlInv, SwdtInv, Released, Interrupt, TakeIrq, Exception,
     TakeException, tcmVars, scuVars
<1>7. CASE Sysc
  BY <1>7 DEF CtlInv, Sysc, ScuHardware, SyscReady, ScuResumed, CoreWoken,
     coreVars, tcmVars
<1>8. CASE Watchdog \/ Transfer \/ UNCHANGED vars
  BY <1>8 DEF CtlInv, Watchdog, SwdtHardware, SwdtOverflow, WtcntReflected,
     Transfer, DmaHardware, DmaBurst, DmaEnd, DmaAddressError, RpcEnd, vars,
     coreVars, tcmVars, scuVars
<1> QED BY <1>1, <1>2, <1>3, <1>4, <1>5, <1>6, <1>7, <1>8 DEF Next, Code

(* The control invariant holds in every reachable state.                   *)
THEOREM Control == Spec => [](TypeOK /\ CtlInv)
<1>1. Init => TypeOK /\ CtlInv
  BY TypeInit, CtlInit
<1>2. (TypeOK /\ CtlInv) /\ [Next]_vars => (TypeOK /\ CtlInv)'
  BY TypeStep, RetStep, SwdtStep, DmaStep, ScuStep DEF CtlInv
<1> QED BY <1>1, <1>2, PTL DEF Spec

(* When execDMA has returned the channel is clear, no longer secure, and   *)
(* the flash controller idle.                                              *)
THEOREM DmaReleasedHolds == Spec => []DmaReleased
BY Control, PTL DEF CtlInv, DmaInv

(* The CA5x core leaves reset only with its SCU on, its wake-up accepted   *)
(* and the boot address of the loaded image.                               *)
THEOREM CoreReleasedSafelyHolds == Spec => []CoreReleasedSafely
BY Control, PTL DEF CtlInv, ScuInv

(* From swdt_init on the watchdog interrupts and does not reset the SoC.   *)
THEOREM NoSwdtResetHolds == Spec => []NoSwdtReset
<1>1. CtlInv => NoSwdtReset
  BY DEF CtlInv, SwdtInv, NoSwdtReset, Early
<1> QED BY <1>1, Control, PTL

(* Neither a failed boot nor its handler starts anything.                  *)
THEOREM DeadIsFinalHolds == Spec => DeadIsFinal
<1>1. CtlInv /\ [Next]_vars => [Dead => Dead' /\ Started' = Started]_vars
  <2> SUFFICES ASSUME CtlInv, Next, Dead PROVE Dead' /\ Started' = Started
    OBVIOUS
  <2> USE DEF Dead, Started, Step, Goto, panic
  <2>1. CASE SwdtCode /\ UNCHANGED scuVars
    BY <2>1 DEF SwdtCode, arm_gic_setup, swdt_init, swdt_start,
       aif_enable_i, irq_exception, swdt_exec, swdt_release, swdt_disable,
       gic_release, gic_security_setting, scuVars
  <2>2. CASE LoaderCode \/ TcmCode \/ endDMA \/ wait_endRPC
             \/ ScuCode(load["CA5X"])
    BY <2>2 DEF LoaderCode, hw_init, prr_check, InitDram, loader_end,
       TcmCode, get_cert_info, tcm_hw_init, lcs_judgement, load_key_cert,
       load_cert, get_info, load_image, execDMA, authenticate, console_wait,
       lifec_init, lifec_cr7_setting, endDMA, wait_endRPC, ScuCode,
       rcar_pwrc_cpuon, SCU_power_up, scu_request, scu_check, scu_wait,
       write_wupcr, release_reset
  <2>3. CASE Interrupt \/ Exception
    BY <2>3 DEF Interrupt, TakeIrq, Exception, TakeException, scuVars
  <2>4. CASE Watchdog \/ Transfer \/ Sysc
    BY <2>4 DEF Watchdog, SwdtHardware, SwdtOverflow, WtcntReflected,
       Transfer, DmaHardware, DmaBurst, DmaEnd, DmaAddressError, RpcEnd,
       Sysc, ScuHardware, SyscReady, ScuResumed, CoreWoken, coreVars, scuVars
  <2> QED BY <2>1, <2>2, <2>3, <2>4 DEF Next, Code
<1> QED BY <1>1, Control, PTL DEF Spec, DeadIsFinal

(* Whoever is started finds the watchdog stopped and its interrupt closed. *)
THEOREM HandoffQuietHolds == Spec => []HandoffQuiet
<1>1. CtlInv => HandoffQuiet
  BY DEF CtlInv, SwdtInv, ScuInv, Released, HandoffQuiet, Started, Image
<1> QED BY <1>1, Control, PTL

-----------------------------------------------------------------------------
(***************************************************************************)
(* What the boot does to memory: where it writes, that what it starts is   *)
(* what flash holds, and that it implements BootPolicy.                    *)
(***************************************************************************)

(***************************************************************************)
(* The flow of the two image blocks.  An image is Reading until its        *)
(* certificate has been evaluated; its size and load address are then      *)
(* accepted or the boot is dead.                                           *)
(***************************************************************************)
BeforeTcm == {"hw_init", "arm_gic_setup", "swdt_init", "swdt_start",
              "aif_enable_i", "prr_check", "InitDram", "loader_end",
              "get_cert_info", "tcm_hw_init"}
Reading ==
  \/ pc \in BeforeTcm \cup {"lcs", "key_cert", "cert", "info"}
  \/ pc \in {"endDMA", "wait_endRPC"} /\ ret # "auth"
Releasing == {"console_wait", "swdt_release", "swdt_disable", "gic_release",
              "gic_security_setting", "lifec_init"}

FlowInv ==
  /\ pc \in BeforeTcm => secure = "unset"
  /\ pc = "lcs" => secure = "NULL"
  /\ secure = "unset" => (pc \in BeforeTcm \/ Dead) /\ dma = "idle"
  /\ pc \in BeforeTcm \cup {"lcs", "key_cert"} => img = "RTOS"
  /\ Reading => size[img] = 0 /\ load[img] = 0
  /\ ~Dead /\ ~Reading => Accepted(img)
  /\ img = "RTOS" => size["CA5X"] = 0 /\ load["CA5X"] = 0
  /\ pc \in Releasing /\ ~Dead /\ RCAR_KICK_MAIN_CPU => img = "CA5X"
  /\ pc \in BarSet \cup {"rcar_pwrc_cpuon"} \/ ca5x = "run" => img = "CA5X"

(* In secure boot the ROM has accepted every image whose block is over.    *)
AuthInv ==
  secure = "ROM" =>
    /\ img = "CA5X" => "RTOS" \in verified
    /\ pc \in Releasing \cup Released /\ ~Dead => img \in verified
    /\ ca5x = "run" => "CA5X" \in verified

(***************************************************************************)
(* The transfer under way, also when the core that started it is dead: of  *)
(* a certificate into its buffer; of an image, k bursts of which have been *)
(* made and are in memory; or of an image whose end wraps, which may go    *)
(* anywhere but, for the second image, not to DRAM.                        *)
(***************************************************************************)
CertTransfer ==
  /\ size[img] = 0 /\ dar % Burst = 0
  /\ SYSRAM_BASE <= dar /\ dar + Burst * tcr <= SYSRAM_END

ImageTransfer ==
  /\ Accepted(img) /\ NoWrap(img) /\ Aligned(load[img])
  /\ \E k \in Nat :
       /\ dar = load[img] + Burst * k /\ sar = FlashImage(img) + Burst * k
       /\ Burst * (k + tcr) = dmalen(size[img])
       /\ \A j \in 0 .. k - 1 :
            mem[Cell(load[img]) + j] = Cell(FlashImage(img)) + j

WrapTransfer ==
  /\ ~NoWrap(img) /\ dar % Burst = 0
  /\ img = "CA5X" =>
       \/ SYSRAM_BASE <= dar /\ dar + Burst * tcr <= AddrSpace + DRAM_BASE
       \/ dar + Burst * tcr <= DRAM_BASE

TransferInv ==
  dma = "run" => /\ CertTransfer \/ ImageTransfer \/ WrapTransfer
                 /\ ca5x # "run"

(* What has been loaded stays as it was loaded.                            *)
PlacedInv ==
  /\ ~Dead /\ ~Reading /\ pc # "image" /\ dma \in {"idle", "te"}
       /\ NoWrap(img) => Placed(img)
  /\ img = "CA5X" /\ NoWrap("RTOS") => Placed("RTOS")
  /\ ca5x = "run" => dma = "idle" /\ (NoWrap("CA5X") => Placed("CA5X"))

DataInv ==
  FlowInv /\ AuthInv /\ TransferInv /\ PlacedInv /\ MemoryConfined

(* Every initial state satisfies the data invariant.                       *)
LEMMA DataInit == Init => DataInv
<1> SUFFICES ASSUME Init PROVE DataInv
  OBVIOUS
<1> USE DEF Init, LoaderInit, SwdtInit, DmaInit, TcmInit, ScuInit
<1>1. FlowInv
  BY DEF FlowInv, Reading, BeforeTcm, Releasing, BarSet, Dead, Image
<1>2. AuthInv /\ TransferInv
  BY DEF AuthInv, TransferInv
<1>3. PlacedInv
  BY DEF PlacedInv, Reading, BeforeTcm
<1>4. MemoryConfined
  BY DEF MemoryConfined
<1> QED
  BY <1>1, <1>2, <1>3, <1>4 DEF DataInv

-----------------------------------------------------------------------------
(* Steps that touch neither memory nor what is known of the images.        *)
Quiet == UNCHANGED <<tcmVars, mem, dmaVars>>

LEMMA QuietSteps ==
  [Next]_vars =>
    \/ Quiet
    \/ TcmCode /\ UNCHANGED <<swdtVars, dram, scuVars>>
    \/ (endDMA \/ wait_endRPC) /\ UNCHANGED <<swdtVars, dram, tcmVars, scuVars>>
    \/ Transfer
BY DEF Next, Code, Interrupt, Exception, Watchdog, Sysc, Quiet, vars

(* What is said of the images depends on these variables only.             *)
LEMMA SameImages ==
  ASSUME UNCHANGED <<size, load>>, NEW i \in Image
  PROVE  (NoWrap(i)' <=> NoWrap(i)) /\ (Accepted(i)' <=> Accepted(i))
BY DEF NoWrap, Accepted

LEMMA SamePlaced ==
  ASSUME UNCHANGED <<size, load, mem>>, NEW i \in Image
  PROVE  Placed(i)' <=> Placed(i)
BY DEF Placed, Accepted, ImageHeld, Holds

(* get_info: the image's size and address are those of some certificate,   *)
(* and the boot goes on only when they are accepted.                       *)
LEMMA GetInfoEffect ==
  ASSUME TypeOK, get_info
  PROVE  /\ size' = [size EXCEPT ![img] = size'[img]]
         /\ load' = [load EXCEPT ![img] = load'[img]]
         /\ \/ pc' = "image" /\ Accepted(img)'
            \/ pc' = "panic" /\ ~(Accepted(img)')
         /\ pc = "info" /\ img' = img /\ ret' = ret
<1>1. PICK i \in Image :
        /\ size' = [size EXCEPT ![img] = cert_size(cert[i], magic)]
        /\ load' = [load EXCEPT ![img] = cert_dest(cert[i], magic)]
        /\ IF /\ SizeOK(cert_size(cert[i], magic), img)
              /\ check_load_area(cert_dest(cert[i], magic), FlashImage(img),
                                 cert_size(cert[i], magic), img)
           THEN pc' = "image" ELSE pc' = "panic"
  BY DEF get_info, Goto, panic
<1>2. /\ size'[img] = cert_size(cert[i], magic)
      /\ load'[img] = cert_dest(cert[i], magic)
  BY <1>1 DEF TypeOK, TcmTypeOK
<1>3. pc = "info" /\ img' = img /\ ret' = ret
  BY DEF get_info
<1>4. \/ pc' = "image" /\ Accepted(img)'
      \/ pc' = "panic" /\ ~(Accepted(img)')
  BY <1>1, <1>2, <1>3 DEF Accepted
<1> QED
  BY <1>1, <1>2, <1>3, <1>4

(* The flow of the image blocks: every step keeps FlowInv.                 *)
LEMMA FlowStep == TypeOK /\ CtlInv /\ FlowInv /\ [Next]_vars => FlowInv'
<1> SUFFICES ASSUME TypeOK, CtlInv, FlowInv, [Next]_vars PROVE FlowInv'
  OBVIOUS
<1> USE DEF FlowInv, Reading, BeforeTcm, Releasing, BarSet, Dead, Step, Goto,
            panic
<1>0. img \in Image
  BY DEF TypeOK, TcmTypeOK
<1>1. ASSUME UNCHANGED <<size, load>>, img' = img
      PROVE  Accepted(img)' <=> Accepted(img)
  BY <1>0, <1>1, SameImages
<1>2. CASE LoaderCode /\ UNCHANGED <<tcmVars, mem, dmaVars, scuVars>>
  BY <1>1, <1>2 DEF LoaderCode, hw_init, prr_check, InitDram, loader_end,
     tcmVars, dmaVars, scuVars
<1>3. CASE SwdtCode /\ UNCHANGED <<dram, tcmVars, mem, dmaVars, scuVars>>
  BY <1>1, <1>3 DEF CtlInv, RetInv, SwdtCode, arm_gic_setup, swdt_init,
     swdt_start, aif_enable_i, irq_exception, swdt_exec, swdt_release,
     swdt_disable, gic_release, gic_security_setting, tcmVars, dmaVars, scuVars
<1>4. CASE TcmCode /\ UNCHANGED scuVars
  <2>1. CASE get_cert_info \/ tcm_hw_init
    BY <1>1, <1>4, <2>1 DEF get_cert_info, tcm_hw_init, dmaVars, scuVars
  <2>2. CASE lcs_judgement
    BY <1>1, <1>4, <2>2 DEF lcs_judgement, dmaVars, scuVars
  <2>3. CASE load_key_cert \/ load_cert
    BY <1>1, <1>4, <2>3 DEF load_key_cert, load_cert, execDMA, tcmVars, dmaVars,
       scuVars
  <2>4. CASE load_image
    BY <1>1, <1>4, <2>4 DEF load_image, execDMA, tcmVars, dmaVars, scuVars
  <2>5. CASE get_info
    <3>1. UNCHANGED <<secure, dma, ca5x>>
      BY <1>4, <2>5 DEF get_info, scuVars, dmaVars
    <3> QED
      <4>1. \/ size'["CA5X"] = size["CA5X"] /\ load'["CA5X"] = load["CA5X"]
            \/ img = "CA5X"
        BY <1>0, <2>5, GetInfoEffect DEF TypeOK, TcmTypeOK, Image
      <4> QED
        BY <1>0, <2>5, <3>1, <4>1, GetInfoEffect DEF Image
  <2>6. CASE authenticate
    <3>1. UNCHANGED <<secure, dma, ca5x, size, load, ret>> /\ pc = "auth"
      BY <1>4, <2>6 DEF authenticate, scuVars, dmaVars
    <3>2. CASE img' = img /\ (pc' = "console_wait" \/ pc' = "panic")
      BY <1>1, <2>6, <3>1, <3>2 DEF authenticate, NextBlock, CtlInv, ScuInv,
         Image, TypeOK, TcmTypeOK
    <3>3. CASE img = "RTOS" /\ img' = "CA5X" /\ pc' = "cert"
      BY <3>1, <3>3
    <3> QED
      BY <2>6, <3>2, <3>3 DEF authenticate, NextBlock
  <2>7. CASE console_wait
    BY <1>1, <1>4, <2>7 DEF console_wait, tcmVars, dmaVars, scuVars
  <2>8. CASE lifec_init \/ lifec_cr7_setting
    BY <1>1, <1>4, <2>8 DEF lifec_init, lifec_cr7_setting, dmaVars, scuVars
  <2> QED
    BY <1>4, <2>1, <2>2, <2>3, <2>4, <2>5, <2>6, <2>7, <2>8 DEF TcmCode
<1>5. CASE (endDMA \/ wait_endRPC) /\ UNCHANGED <<tcmVars, scuVars>>
  BY <1>1, <1>5 DEF CtlInv, RetInv, endDMA, wait_endRPC, tcmVars, dmaVars,
     scuVars
<1>6. CASE ScuCode(load["CA5X"]) /\ UNCHANGED <<tcmVars, mem, dmaVars>>
  BY <1>1, <1>6 DEF ScuCode, rcar_pwrc_cpuon, SCU_power_up, scu_request,
     scu_check, scu_wait, write_wupcr, release_reset, tcmVars, dmaVars, scuVars
<1>7. CASE Interrupt \/ Exception
  BY <1>1, <1>7 DEF Interrupt, TakeIrq, Exception, TakeException, tcmVars,
     dmaVars, scuVars
<1>8. CASE Watchdog \/ Sysc \/ UNCHANGED vars
  BY <1>1, <1>8 DEF Watchdog, SwdtHardware, SwdtOverflow, WtcntReflected, Sysc,
     ScuHardware, SyscReady, ScuResumed, CoreWoken, vars, coreVars, tcmVars,
     dmaVars, scuVars
<1>9. CASE Transfer
  BY <1>1, <1>9 DEF Transfer, DmaHardware, DmaBurst, DmaEnd, DmaAddressError,
     RpcEnd, coreVars, tcmVars, scuVars
<1> QED
  BY <1>2, <1>3, <1>4, <1>5, <1>6, <1>7, <1>8, <1>9 DEF Next, Code

(* The verdicts of the ROM: every step keeps AuthInv.                      *)
LEMMA AuthStep ==
  TypeOK /\ CtlInv /\ FlowInv /\ AuthInv /\ [Next]_vars => AuthInv'
<1> SUFFICES ASSUME TypeOK, CtlInv, FlowInv, AuthInv, [Next]_vars
             PROVE  AuthInv'
  OBVIOUS
<1> USE DEF AuthInv, Releasing, Released, Dead, Step, Goto, panic
<1>1. CASE LoaderCode /\ UNCHANGED <<tcmVars, scuVars>>
  BY <1>1 DEF LoaderCode, hw_init, prr_check, InitDram, loader_end, tcmVars,
     scuVars
<1>2. CASE SwdtCode /\ UNCHANGED <<tcmVars, scuVars>>
  BY <1>2 DEF CtlInv, RetInv, SwdtCode, arm_gic_setup, swdt_init, swdt_start,
     aif_enable_i, irq_exception, swdt_exec, swdt_release, swdt_disable,
     gic_release, gic_security_setting, tcmVars, scuVars
<1>3. CASE TcmCode /\ UNCHANGED scuVars
  <2>1. CASE authenticate
    BY <1>3, <2>1 DEF authenticate, NextBlock, CtlInv, ScuInv, TypeOK,
       TcmTypeOK, Image, scuVars
  <2>2. CASE lcs_judgement
    BY <1>3, <2>2 DEF lcs_judgement, FlowInv, BeforeTcm, CtlInv, ScuInv, scuVars
  <2>3. CASE get_cert_info \/ tcm_hw_init \/ load_key_cert \/ load_cert
               \/ get_info \/ load_image
    BY <1>3, <2>3 DEF get_cert_info, tcm_hw_init, load_key_cert, load_cert,
       get_info, load_image, execDMA, tcmVars, scuVars
  <2>4. CASE console_wait \/ lifec_init \/ lifec_cr7_setting
    BY <1>3, <2>4 DEF console_wait, lifec_init, lifec_cr7_setting, tcmVars,
       scuVars
  <2> QED
    BY <1>3, <2>1, <2>2, <2>3, <2>4 DEF TcmCode
<1>4. CASE (endDMA \/ wait_endRPC) /\ UNCHANGED <<tcmVars, scuVars>>
  BY <1>4 DEF CtlInv, RetInv, endDMA, wait_endRPC, tcmVars, scuVars
<1>5. CASE ScuCode(load["CA5X"]) /\ UNCHANGED tcmVars
  BY <1>5 DEF FlowInv, BarSet, ScuCode, rcar_pwrc_cpuon, SCU_power_up,
     scu_request, scu_check, scu_wait, write_wupcr, release_reset, tcmVars,
     scuVars
<1>6. CASE Interrupt \/ Exception
  BY <1>6 DEF Interrupt, TakeIrq, Exception, TakeException, tcmVars, scuVars
<1>7. CASE Watchdog \/ Transfer \/ Sysc \/ UNCHANGED vars
  BY <1>7 DEF Watchdog, SwdtHardware, SwdtOverflow, WtcntReflected, Transfer,
     DmaHardware, DmaBurst, DmaEnd, DmaAddressError, RpcEnd, Sysc, ScuHardware,
     SyscReady, ScuResumed, CoreWoken, vars, coreVars, tcmVars, scuVars
<1> QED
  BY <1>1, <1>2, <1>3, <1>4, <1>5, <1>6, <1>7 DEF Next, Code

-----------------------------------------------------------------------------
(***************************************************************************)
(* Addresses.  What follows uses of the map only that these bounds are     *)
(* 256-byte aligned and in this order.                                     *)
(***************************************************************************)
LEMMA MapBounds ==
  /\ \A e \in {DRAM_BASE, DRAM_END, SYSRAM_BASE, SYSRAM_END, RTOS_CERT_ADDR,
               AddrSpace} : e \in Nat /\ e % 256 = 0
  /\ \A i \in Image : /\ FlashImage(i) \in Nat /\ FlashImage(i) % 256 = 0
                      /\ MaxSize(i) \in Nat /\ MaxSize(i) <= DRAM_BASE
                      /\ topadd(i) \in Nat /\ endadd(i) \in Nat
                      /\ endadd(i) % 256 = 0 /\ endadd(i) < AddrSpace
  /\ DRAM_BASE < DRAM_END /\ DRAM_END <= SYSRAM_BASE
  /\ SYSRAM_BASE <= RTOS_CERT_ADDR /\ SYSRAM_END < AddrSpace
  /\ SYSRAM_BASE < SYSRAM_END
  /\ RTOS_CERT_ADDR + FLASH_CERT_SIZE <= SYSRAM_END
<1>1. \A e \in {DRAM_BASE, DRAM_END, SYSRAM_BASE, SYSRAM_END, RTOS_CERT_ADDR,
                AddrSpace, FLASH_RTOS_IMAGE_ADDR, FLASH_CA5X_IMAGE_ADDR} :
        e \in Nat /\ e % 256 = 0
  BY MapOK DEF MapAssumption, Aligned, DMA_SIZE_UNIT
<1>2. /\ DRAM_BASE < DRAM_END /\ DRAM_END <= SYSRAM_BASE
      /\ SYSRAM_BASE <= RTOS_CERT_ADDR /\ SYSRAM_END < AddrSpace
      /\ RTOS_CERT_ADDR + FLASH_CERT_SIZE <= SYSRAM_END
      /\ SYSRAM_BASE < SYSRAM_END
  BY MapOK DEF MapAssumption
<1>3. \A i \in Image : MaxSize(i) \in Nat /\ MaxSize(i) <= DRAM_BASE
  <2> SUFFICES ASSUME NEW i \in Image
               PROVE  MaxSize(i) \in Nat /\ MaxSize(i) <= DRAM_BASE
    OBVIOUS
  <2>1. /\ FlashImage(i) + MaxSize(i) <= FLASH_BASE + FLASH_SIZE
        /\ FLASH_BASE + FLASH_SIZE <= DRAM_BASE
    BY MapOK DEF MapAssumption
  <2> QED
    BY <2>1, ImageArgs, MapTypes
<1> QED
  BY <1>1, <1>2, <1>3 DEF FlashImage, topadd, endadd, Image

(* A length that the channel can transfer, burst by burst.                 *)
WholeBursts(n) == n % 64 = 0

(* The 256-byte round-up of execDMA stays below every aligned bound that   *)
(* the length itself stays below, and never shortens the transfer.         *)
LEMMA RoundUp ==
  ASSUME NEW len \in Nat, NEW dst \in Nat, NEW end \in Nat,
         Aligned(dst), Aligned(end), dst + len <= end, end < AddrSpace
  PROVE  /\ dmalen(len) \in Nat /\ dst + dmalen(len) <= end
         /\ len <= dmalen(len) /\ WholeBursts(dmalen(len))
<1> USE DEF Aligned, DMA_SIZE_UNIT, WholeBursts
<1> DEFINE up == (len + 256) - ((len + 256) % 256)
<1>1. CASE len % 256 = 0
  BY <1>1 DEF dmalen, DMA_SIZE_UNIT
<1>2. CASE len % 256 # 0
  <2>1. PICK q \in Nat, r \in 0 .. 255 : len = 256 * q + r /\ r = len % 256
    <3>1. len = 256 * (len \div 256) + (len % 256) /\ len \div 256 \in Nat
          /\ len % 256 \in 0 .. 255
      OBVIOUS
    <3> QED
      BY <3>1
  <2>2. PICK d \in Nat : dst = 256 * d
    <3>1. dst = 256 * (dst \div 256) /\ dst \div 256 \in Nat
      OBVIOUS
    <3> QED
      BY <3>1
  <2>3. PICK e \in Nat : end = 256 * e
    <3>1. end = 256 * (end \div 256) /\ end \div 256 \in Nat
      OBVIOUS
    <3> QED
      BY <3>1
  <2>4. up = 256 * q + 256
    BY <2>1
  <2>5. d + q + 1 <= e
    BY <1>2, <2>1, <2>2, <2>3
  <2>6. dst + up <= end /\ up \in Nat /\ up < AddrSpace
    BY <2>1, <2>2, <2>3, <2>4, <2>5, MapTypes
  <2>7. dmalen(len) = up
    BY <1>2, <2>6, U32Small DEF dmalen, DMA_SIZE_UNIT
  <2>8. up % 64 = 0 /\ len <= up
    BY <2>1, <2>4
  <2> QED
    BY <2>6, <2>7, <2>8
<1> QED
  BY <1>1, <1>2

(* An accepted area that does not wrap lies where add_list says.           *)
LEMMA AcceptedArea ==
  ASSUME TypeOK, NEW i \in Image, Accepted(i)
  PROVE  /\ size[i] \in Nat /\ load[i] \in Nat /\ size[i] > 0
         /\ size[i] <= MaxSize(i) /\ topadd(i) <= load[i]
         /\ NoWrap(i) => load[i] + size[i] <= endadd(i)
<1>1. /\ size[i] \in Nat /\ load[i] \in Nat
  BY MapTypes DEF TypeOK, TcmTypeOK
<1>2. ASSUME NoWrap(i) PROVE load[i] + size[i] <= endadd(i)
  <2>1. u32(load[i] + size[i]) = load[i] + size[i]
    BY <1>1, <1>2, U32Small DEF NoWrap
  <2> QED
    BY <2>1 DEF Accepted, check_load_area
<1> QED
  BY <1>1, <1>2 DEF Accepted, check_load_area, SizeOK

(* Of an image whose load address passes execDMA's alignment check, the    *)
(* bytes transferred.                                                      *)
LEMMA ImageLength ==
  ASSUME TypeOK, NEW i \in Image, Accepted(i)
  PROVE  /\ dmalen(size[i]) \in Nat /\ size[i] <= dmalen(size[i])
         /\ dmalen(size[i]) % 64 = 0 /\ dmalen(size[i]) <= DRAM_BASE
         /\ NoWrap(i) /\ Aligned(load[i]) =>
              load[i] + dmalen(size[i]) <= endadd(i)
<1>1. size[i] \in Nat /\ load[i] \in Nat /\ 0 + size[i] <= DRAM_BASE
  BY AcceptedArea, MapBounds
<1>2. DRAM_BASE \in Nat /\ DRAM_BASE % 256 = 0 /\ DRAM_BASE < AddrSpace
  BY MapBounds
<1>3. /\ dmalen(size[i]) \in Nat /\ 0 + dmalen(size[i]) <= DRAM_BASE
      /\ size[i] <= dmalen(size[i]) /\ dmalen(size[i]) % 64 = 0
  <2>1. Aligned(0) /\ Aligned(DRAM_BASE)
    BY <1>2 DEF Aligned, DMA_SIZE_UNIT
  <2>2. /\ dmalen(size[i]) \in Nat /\ 0 + dmalen(size[i]) <= DRAM_BASE
        /\ size[i] <= dmalen(size[i]) /\ WholeBursts(dmalen(size[i]))
    BY <1>1, <1>2, <2>1, RoundUp
  <2> QED
    BY <2>2 DEF WholeBursts
<1>4. ASSUME NoWrap(i), Aligned(load[i])
      PROVE  load[i] + dmalen(size[i]) <= endadd(i)
  <2>1. load[i] + size[i] <= endadd(i)
    BY <1>4, AcceptedArea
  <2>2. endadd(i) \in Nat /\ Aligned(endadd(i)) /\ endadd(i) < AddrSpace
    BY MapBounds DEF Aligned, DMA_SIZE_UNIT
  <2> QED
    BY <1>1, <1>4, <2>1, <2>2, RoundUp
<1> QED
  BY <1>3, <1>4

(* Cells keep the order of addresses.                                      *)
LEMMA CellOrder ==
  ASSUME NEW a \in Nat, NEW b \in Nat
  PROVE  /\ Cell(a) \in Nat
         /\ a <= b => Cell(a) <= Cell(b)
         /\ b % 64 = 0 /\ a < b => Cell(a) < Cell(b)
BY DEF Cell, Burst

(* Multiples of the alignment are multiples of a burst.                    *)
LEMMA BurstAligned == \A a \in Nat : a % 256 = 0 => a % 64 = 0
OBVIOUS

(* A burst that starts and ends within a region writes a cell of it.       *)
LEMMA InRegion ==
  ASSUME NEW a \in Nat, NEW base \in Nat, NEW end \in Nat, end % 256 = 0,
         base <= a, a < end
  PROVE  InRange(Cell(a), base, end)
<1>1. end % 64 = 0
  BY BurstAligned
<1> QED
  BY <1>1, CellOrder DEF InRange

(* And one outside DRAM does not touch it.                                 *)
LEMMA OutsideDram ==
  ASSUME NEW a \in Nat, DRAM_END <= a \/ a < DRAM_BASE
  PROVE  ~InRange(Cell(a), DRAM_BASE, DRAM_END)
<1>1. /\ DRAM_BASE \in Nat /\ DRAM_BASE % 64 = 0
      /\ DRAM_END \in Nat /\ DRAM_END % 64 = 0
  BY MapBounds, BurstAligned
<1>2. CASE DRAM_END <= a
  BY <1>1, <1>2, CellOrder DEF InRange
<1>3. CASE a < DRAM_BASE
  BY <1>1, <1>3, CellOrder DEF InRange
<1> QED
  BY <1>2, <1>3

(* The registers during the transfer of an image that does not wrap.       *)
LEMMA ImageRegisters ==
  ASSUME TypeOK, ImageTransfer, tcr > 0
  PROVE  topadd(img) <= dar /\ dar + 64 <= endadd(img)
<1>1. img \in Image /\ tcr \in Nat
  BY DEF TypeOK, TcmTypeOK, DmaTypeOK
<1>2. PICK k \in Nat : dar = load[img] + 64 * k
                       /\ 64 * (k + tcr) = dmalen(size[img])
  BY DEF ImageTransfer, Burst
<1>3. /\ load[img] \in Nat /\ topadd(img) <= load[img]
      /\ load[img] + dmalen(size[img]) <= endadd(img)
  BY <1>1, AcceptedArea, ImageLength DEF ImageTransfer
<1>4. topadd(img) \in Nat /\ endadd(img) \in Nat
  BY <1>1, MapBounds
<1> QED
  BY <1>1, <1>2, <1>3, <1>4

(* Where a burst may write.                                                *)
LEMMA BurstCell ==
  ASSUME TypeOK, TransferInv, dma = "run", tcr > 0
  PROVE  /\ Cell(dar) \in Cells
         /\ NoWrap(img) => Confined(Cell(dar))
         /\ img = "CA5X" => ~InRange(Cell(dar), DRAM_BASE, DRAM_END)
<1>1. /\ dar \in Nat /\ dar < AddrSpace /\ tcr \in Nat /\ img \in Image
  BY MapTypes DEF TypeOK, DmaTypeOK, TcmTypeOK
<1>2. Cell(dar) \in Cells
  <2>1. AddrSpace \in Nat /\ AddrSpace % 64 = 0
    BY MapBounds, BurstAligned
  <2> QED
    BY <1>1, <2>1, CellOrder DEF Cells
<1>3. /\ SYSRAM_BASE \in Nat /\ SYSRAM_END \in Nat /\ SYSRAM_END % 256 = 0
      /\ DRAM_BASE \in Nat /\ DRAM_END \in Nat /\ DRAM_END % 256 = 0
      /\ DRAM_END <= SYSRAM_BASE /\ AddrSpace \in Nat
  BY MapBounds
<1>4. CASE CertTransfer
  <2>1. SYSRAM_BASE <= dar /\ dar < SYSRAM_END
    BY <1>1, <1>3, <1>4 DEF CertTransfer, Burst
  <2>2. InRange(Cell(dar), SYSRAM_BASE, SYSRAM_END)
    BY <1>1, <1>3, <2>1, InRegion
  <2>3. ~InRange(Cell(dar), DRAM_BASE, DRAM_END)
    BY <1>1, <1>3, <2>1, OutsideDram
  <2> QED
    BY <1>2, <2>2, <2>3 DEF Confined
<1>5. CASE ImageTransfer
  <2>1. topadd(img) <= dar /\ dar < endadd(img) /\ endadd(img) \in Nat
        /\ topadd(img) \in Nat /\ endadd(img) % 256 = 0
    BY <1>1, <1>5, ImageRegisters, MapBounds
  <2>2. InRange(Cell(dar), topadd(img), endadd(img))
    BY <1>1, <2>1, InRegion
  <2>3. Confined(Cell(dar))
    BY <1>1, <2>2 DEF topadd, endadd, Image, Confined
  <2>4. ASSUME img = "CA5X" PROVE DRAM_END <= dar
    BY <1>1, <1>3, <2>1, <2>4 DEF topadd
  <2> QED
    BY <1>1, <1>2, <2>3, <2>4, OutsideDram
<1>6. CASE WrapTransfer
  <2>1. ASSUME img = "CA5X" PROVE DRAM_END <= dar \/ dar < DRAM_BASE
    BY <1>1, <1>3, <1>6, <2>1 DEF WrapTransfer, Burst
  <2> QED
    BY <1>1, <1>2, <1>6, <2>1, OutsideDram DEF WrapTransfer
<1> QED
  BY <1>4, <1>5, <1>6 DEF TransferInv

-----------------------------------------------------------------------------
(* Moving an address by k bursts moves its cell by k.                      *)
LEMMA CellShift ==
  ASSUME NEW a \in Nat, NEW k \in Nat
  PROVE  Cell(a + 64 * k) = Cell(a) + k
BY DEF Cell, Burst

(* execDMA into a certificate buffer: it starts a transfer that stays in   *)
(* System RAM.                                                             *)
LEMMA StartCert ==
  ASSUME TypeOK, NEW at, NEW d \in Nat, NEW src, NEW n \in Nat, NEW next,
         NEW e \in Nat, e % 256 = 0, d + n <= e, e <= SYSRAM_END,
         SYSRAM_BASE <= d, size[img] = 0, UNCHANGED tcmVars, dma # "run",
         execDMA(at, d, src, n, next)
  PROVE  dma' = "run" => CertTransfer'
<1>0. SYSRAM_END \in Nat /\ SYSRAM_END < AddrSpace /\ AddrSpace \in Nat
  BY MapBounds
<1> SUFFICES ASSUME dma' = "run" PROVE CertTransfer'
  OBVIOUS
<1>1. d % 256 = 0 /\ dar' = d /\ tcr' = dmalen(n) \div 64
  BY DEF execDMA, dmaVars, Aligned, DMA_SIZE_UNIT, Burst
<1>2. /\ dmalen(n) \in Nat /\ d + dmalen(n) <= e
      /\ dmalen(n) % 64 = 0
  <2>1. e < AddrSpace /\ Aligned(d) /\ Aligned(e)
    BY <1>0, <1>1 DEF Aligned, DMA_SIZE_UNIT
  <2>2. /\ dmalen(n) \in Nat /\ d + dmalen(n) <= e
        /\ WholeBursts(dmalen(n))
    BY <2>1, RoundUp
  <2> QED
    BY <2>2 DEF WholeBursts
<1>3. 64 * (dmalen(n) \div 64) = dmalen(n)
  BY <1>2
<1>4. d % 64 = 0
  BY <1>1, BurstAligned
<1>5. SYSRAM_BASE <= dar' /\ dar' % 64 = 0
  BY <1>1, <1>4
<1>6. dar' + 64 * tcr' <= SYSRAM_END
  BY <1>0, <1>1, <1>2, <1>3
<1>7. size'[img'] = 0
  BY DEF tcmVars
<1> QED
  BY <1>5, <1>6, <1>7 DEF CertTransfer, Burst

(* execDMA of an accepted image.                                           *)
LEMMA StartImage ==
  ASSUME TypeOK, Accepted(img), UNCHANGED tcmVars, dma # "run",
         execDMA("image", load[img], FlashImage(img), size[img], "auth")
  PROVE  dma' = "run" => ImageTransfer' \/ WrapTransfer'
<1> SUFFICES ASSUME dma' = "run" PROVE ImageTransfer' \/ WrapTransfer'
  OBVIOUS
<1>0. img \in Image
  BY DEF TypeOK, TcmTypeOK
<1>1. /\ Aligned(load[img]) /\ dar' = load[img] /\ sar' = FlashImage(img)
      /\ tcr' = dmalen(size[img]) \div 64
  BY DEF execDMA, dmaVars, Burst
<1>2. /\ load[img] \in Nat /\ load[img] < AddrSpace /\ topadd(img) <= load[img]
      /\ dmalen(size[img]) \in Nat /\ dmalen(size[img]) % 64 = 0
      /\ dmalen(size[img]) <= DRAM_BASE
      /\ FlashImage(img) \in Nat
  BY <1>0, AcceptedArea, ImageLength, MapBounds DEF TypeOK, TcmTypeOK
<1>3. 64 * (dmalen(size[img]) \div 64) = dmalen(size[img])
      /\ dmalen(size[img]) \div 64 \in Nat
  BY <1>2
<1>4. /\ img' = img /\ UNCHANGED <<size, load>>
      /\ (NoWrap(img)' <=> NoWrap(img)) /\ (Accepted(img)' <=> Accepted(img))
  BY <1>0, SameImages DEF tcmVars
<1>5. CASE NoWrap(img)
  <2>1. /\ Accepted(img)' /\ NoWrap(img)' /\ Aligned(load[img])'
    BY <1>1, <1>4, <1>5
  <2>2. /\ dar' = load[img]' + 64 * 0 /\ sar' = FlashImage(img)' + 64 * 0
        /\ 64 * (0 + tcr') = dmalen(size[img])'
        /\ \A j \in 0 .. 0 - 1 :
             mem'[Cell(load'[img']) + j] = Cell(FlashImage(img')) + j
    BY <1>1, <1>2, <1>3, <1>4
  <2> QED
    BY <2>1, <2>2 DEF ImageTransfer, Burst
<1>6. CASE ~NoWrap(img)
  <2>1. dar' % 64 = 0
    BY <1>1, <1>2, BurstAligned DEF Aligned, DMA_SIZE_UNIT
  <2>2. ASSUME img = "CA5X"
        PROVE  SYSRAM_BASE <= dar' /\ dar' + 64 * tcr' <= AddrSpace + DRAM_BASE
    <3>1. AddrSpace \in Nat /\ DRAM_BASE \in Nat /\ SYSRAM_BASE \in Nat
      BY MapBounds
    <3> QED
      BY <1>1, <1>2, <1>3, <2>2, <3>1 DEF topadd
  <2> QED
    BY <1>4, <1>6, <2>1, <2>2 DEF WrapTransfer, Burst
<1> QED
  BY <1>5, <1>6

(* One burst keeps each kind of transfer.                                  *)
LEMMA BurstKeeps ==
  ASSUME TypeOK, TransferInv, DmaBurst, UNCHANGED tcmVars
  PROVE  CertTransfer' \/ ImageTransfer' \/ WrapTransfer'
<1>1. /\ dma = "run" /\ tcr > 0 /\ tcr \in Nat /\ dar \in Nat /\ sar \in Nat
      /\ dar < AddrSpace /\ img \in Image
      /\ dar' = u32(dar + 64) /\ sar' = sar + 64 /\ tcr' = tcr - 1
      /\ mem' = [mem EXCEPT ![Cell(dar)] = Cell(sar)]
      /\ mem \in [Cells -> Int]
      /\ img' = img /\ UNCHANGED <<size, load>>
  BY MapTypes DEF TypeOK, DmaTypeOK, TcmTypeOK, DmaBurst, tcmVars, Burst
<1>2. /\ (NoWrap(img)' <=> NoWrap(img)) /\ (Accepted(img)' <=> Accepted(img))
  BY <1>1, SameImages
<1>3. /\ AddrSpace \in Nat /\ AddrSpace % 64 = 0 /\ DRAM_BASE \in Nat
      /\ DRAM_BASE < AddrSpace /\ SYSRAM_BASE \in Nat /\ SYSRAM_END \in Nat
      /\ SYSRAM_END < AddrSpace
  BY MapBounds, BurstAligned
<1>4. CASE CertTransfer
  <2>1. dar + 64 <= SYSRAM_END
    BY <1>1, <1>3, <1>4 DEF CertTransfer, Burst
  <2>2. dar' = dar + 64
    BY <1>1, <1>3, <2>1, U32Small
  <2> QED
    BY <1>1, <1>3, <1>4, <2>1, <2>2 DEF CertTransfer, Burst
<1>5. CASE ImageTransfer
  <2>1. dar + 64 <= endadd(img) /\ endadd(img) < AddrSpace
        /\ endadd(img) \in Nat
    BY <1>1, <1>5, ImageRegisters, MapBounds
  <2>2. dar' = dar + 64
    BY <1>1, <1>3, <2>1, U32Small
  <2>3. PICK k \in Nat :
          /\ dar = load[img] + 64 * k /\ sar = FlashImage(img) + 64 * k
          /\ 64 * (k + tcr) = dmalen(size[img])
          /\ \A j \in 0 .. k - 1 :
               mem[Cell(load[img]) + j] = Cell(FlashImage(img)) + j
    BY <1>5 DEF ImageTransfer, Burst
  <2>4. load[img] \in Nat /\ FlashImage(img) \in Nat
    BY <1>1, <1>5, AcceptedArea, MapBounds DEF ImageTransfer
  <2>5. /\ Cell(dar) = Cell(load[img]) + k /\ Cell(load[img]) \in Nat
        /\ Cell(sar) = Cell(FlashImage(img)) + k
        /\ Cell(dar) \in Cells /\ Cell(AddrSpace) \in Nat
    BY <1>1, <1>3, <2>3, <2>4, CellShift, CellOrder, BurstCell
  <2>6. ASSUME NEW j \in 0 .. k
        PROVE  mem'[Cell(load[img]) + j] = Cell(FlashImage(img)) + j
    <3>1. Cell(load[img]) + j \in Cells
      BY <2>5 DEF Cells
    <3>2. CASE j = k
      BY <1>1, <2>5, <3>2
    <3>3. CASE j # k
      <4>1. j \in 0 .. k - 1 /\ Cell(load[img]) + j # Cell(dar)
        BY <2>5, <3>3
      <4>2. mem'[Cell(load[img]) + j] = mem[Cell(load[img]) + j]
        BY <1>1, <3>1, <4>1
      <4> QED
        BY <2>3, <4>1, <4>2
    <3> QED
      BY <3>2, <3>3
  <2>7. /\ dar' = load[img] + 64 * (k + 1)
        /\ sar' = FlashImage(img) + 64 * (k + 1)
        /\ 64 * ((k + 1) + tcr') = dmalen(size[img])
        /\ k + 1 \in Nat /\ (k + 1) - 1 = k
    BY <1>1, <2>2, <2>3, <2>4
  <2>8. \E m \in Nat :
          /\ dar' = load[img] + 64 * m /\ sar' = FlashImage(img) + 64 * m
          /\ 64 * (m + tcr') = dmalen(size[img])
          /\ \A j \in 0 .. m - 1 :
               mem'[Cell(load[img]) + j] = Cell(FlashImage(img)) + j
    <3> WITNESS k + 1 \in Nat
    <3> QED
      BY <2>6, <2>7
  <2>9. Accepted(img)' /\ NoWrap(img)' /\ Aligned(load'[img'])
    BY <1>1, <1>2, <1>5 DEF ImageTransfer
  <2> QED
    BY <1>1, <2>8, <2>9 DEF ImageTransfer, Burst
<1>6. CASE WrapTransfer
  <2>1. ~NoWrap(img)' /\ dar % 64 = 0
    BY <1>2, <1>6 DEF WrapTransfer, Burst
  <2>2. CASE dar + 64 < AddrSpace
    <3>1. dar' = dar + 64
      BY <1>1, <2>2, U32Small
    <3> QED
      BY <1>1, <1>3, <1>6, <2>1, <3>1 DEF WrapTransfer, Burst
  <2>3. CASE dar + 64 >= AddrSpace
    <3>1. dar + 64 = AddrSpace
      <4>1. dar = 64 * (dar \div 64) /\ dar \div 64 \in Nat
        BY <1>1, <2>1
      <4>2. AddrSpace = 64 * (AddrSpace \div 64) /\ AddrSpace \div 64 \in Nat
        BY <1>3
      <4> QED
        BY <1>1, <1>3, <2>3, <4>1, <4>2
    <3>2. dar' = 0
      BY <1>1, <1>3, <3>1, U32Wrap
    <3> QED
      BY <1>1, <1>3, <1>6, <2>1, <3>1, <3>2 DEF WrapTransfer, Burst
  <2> QED
    BY <1>1, <1>3, <2>2, <2>3
<1> QED
  BY <1>1, <1>4, <1>5, <1>6 DEF TransferInv

(* Every step keeps the transfer under way within its bounds.              *)
LEMMA TransferStep ==
  TypeOK /\ CtlInv /\ FlowInv /\ TransferInv /\ [Next]_vars => TransferInv'
<1> SUFFICES ASSUME TypeOK, CtlInv, FlowInv, TransferInv, [Next]_vars
             PROVE  TransferInv'
  OBVIOUS
<1>0. img \in Image
  BY DEF TypeOK, TcmTypeOK
<1>1. CASE Quiet
  <2>1. ASSUME dma = "run", ca5x # "run" PROVE ca5x' # "run"
    <3>1. ~release_reset
      BY <2>1 DEF release_reset, Step, CtlInv, DmaInv, DmaReleased, Dead
    <3> QED
      BY <2>1, <3>1 DEF Next, Code, ScuCode, rcar_pwrc_cpuon, SCU_power_up,
         scu_request, scu_check, scu_wait, write_wupcr, scuVars, Interrupt,
         Exception, Watchdog, Transfer, Sysc, ScuHardware, SyscReady,
         ScuResumed, CoreWoken, vars
  <2>2. (NoWrap(img)' <=> NoWrap(img)) /\ (Accepted(img)' <=> Accepted(img))
    BY <1>0, <1>1, SameImages DEF Quiet, tcmVars
  <2> QED
    BY <1>1, <2>1, <2>2 DEF TransferInv, CertTransfer, ImageTransfer,
       WrapTransfer, Quiet, tcmVars, dmaVars
<1>2. CASE TcmCode /\ UNCHANGED scuVars
  <2>1. /\ pc \in {"key_cert", "cert", "image"} => dma = "idle" /\ ca5x # "run"
        /\ pc \in {"get_cert_info", "tcm_hw_init", "lcs", "info", "auth",
                   "console_wait", "lifec_init", "lifec_cr7_setting"} =>
             dma = "idle"
    BY DEF CtlInv, DmaInv, DmaReleased, ScuInv, Dead
  <2>2. ca5x' = ca5x
    BY <1>2 DEF scuVars
  <2>3. CASE load_key_cert
    <3>1. pc = "key_cert" /\ size[img] = 0 /\ UNCHANGED tcmVars
      BY <2>3 DEF load_key_cert, execDMA, FlowInv, Reading
    <3>2. /\ SEC_BOOT_CERT_ADDR(boot_cert_addr(magic)) \in Nat
          /\ boot_cert_size(magic) \in Nat
          /\ SYSRAM_BASE <= SEC_BOOT_CERT_ADDR(boot_cert_addr(magic))
          /\ SEC_BOOT_CERT_ADDR(boot_cert_addr(magic)) + boot_cert_size(magic)
               <= RTOS_CERT_ADDR
          /\ RTOS_CERT_ADDR \in Nat /\ RTOS_CERT_ADDR % 256 = 0
          /\ RTOS_CERT_ADDR <= SYSRAM_END
      BY MapOK, MapBounds, KeyCertArgs DEF MapAssumption, SEC_BOOT_CERT_ADDR,
         boot_cert_addr, boot_cert_size
    <3>3. dma' = "run" => CertTransfer'
      BY <2>1, <2>3, <3>1, <3>2, StartCert DEF load_key_cert
    <3> QED
      BY <2>1, <2>2, <3>1, <3>3 DEF TransferInv
  <2>4. CASE load_cert
    <3>1. pc = "cert" /\ size[img] = 0 /\ UNCHANGED tcmVars
      BY <2>4 DEF load_cert, execDMA, FlowInv, Reading
    <3>2. /\ RTOS_CERT_ADDR \in Nat /\ FLASH_CERT_SIZE \in Nat
          /\ SYSRAM_BASE <= RTOS_CERT_ADDR
          /\ RTOS_CERT_ADDR + FLASH_CERT_SIZE <= SYSRAM_END
          /\ SYSRAM_END \in Nat /\ SYSRAM_END % 256 = 0
          /\ SYSRAM_END <= SYSRAM_END
      BY MapTypes, MapBounds
    <3>3. dma' = "run" => CertTransfer'
      BY <2>1, <2>4, <3>1, <3>2, StartCert DEF load_cert
    <3> QED
      BY <2>1, <2>2, <3>1, <3>3 DEF TransferInv
  <2>5. CASE load_image
    <3>1. pc = "image" /\ Accepted(img)
      BY <2>5 DEF load_image, execDMA, FlowInv, Reading, BeforeTcm, Dead
    <3> QED
      BY <2>1, <2>2, <2>5, <3>1, StartImage DEF load_image, TransferInv
  <2>6. CASE get_cert_info \/ tcm_hw_init \/ lcs_judgement \/ get_info
    BY <2>1, <2>6 DEF get_cert_info, tcm_hw_init, lcs_judgement, get_info,
       Step, dmaVars, TransferInv
  <2>7. CASE authenticate \/ console_wait \/ lifec_init \/ lifec_cr7_setting
    BY <2>1, <2>7 DEF authenticate, console_wait, lifec_init,
       lifec_cr7_setting, Step, dmaVars, TransferInv
  <2> QED
    BY <1>2, <2>3, <2>4, <2>5, <2>6, <2>7 DEF TcmCode
<1>3. CASE endDMA \/ wait_endRPC
  BY <1>3 DEF endDMA, wait_endRPC, dmaVars, TransferInv
<1>4. CASE Transfer
  <2>1. CASE DmaBurst
    <3>1. UNCHANGED <<tcmVars, ca5x>>
      BY <1>4 DEF Transfer, scuVars
    <3> QED
      BY <2>1, <3>1, BurstKeeps DEF TransferInv, DmaBurst
  <2>2. CASE DmaEnd \/ DmaAddressError \/ RpcEnd
    BY <2>2 DEF DmaEnd, DmaAddressError, RpcEnd, TransferInv
  <2> QED
    BY <1>4, <2>1, <2>2 DEF Transfer, DmaHardware
<1> QED
  BY <1>1, <1>2, <1>3, <1>4, QuietSteps

(* Every step keeps memory confined.                                       *)
LEMMA ConfinedStep ==
  TypeOK /\ CtlInv /\ FlowInv /\ TransferInv /\ MemoryConfined /\ [Next]_vars
    => MemoryConfined'
<1> SUFFICES ASSUME TypeOK, CtlInv, FlowInv, TransferInv, MemoryConfined,
                    [Next]_vars
             PROVE  MemoryConfined'
  OBVIOUS
<1>0. /\ img \in Image /\ mem \in [Cells -> Int]
      /\ size \in [Image -> 0 .. AddrSpace - 1]
      /\ load \in [Image -> 0 .. AddrSpace - 1]
  BY DEF TypeOK, TcmTypeOK, DmaTypeOK
<1>1. ASSUME UNCHANGED mem, \A i \in Image : NoWrap(i)' => NoWrap(i)
      PROVE  MemoryConfined'
  BY <1>1 DEF MemoryConfined
<1>2. ASSUME UNCHANGED <<mem, size, load>> PROVE MemoryConfined'
  BY <1>1, <1>2 DEF NoWrap
<1>3. CASE Quiet
  BY <1>2, <1>3 DEF Quiet, tcmVars
<1>4. CASE TcmCode
  <2>1. CASE get_info
    <3>1. mem' = mem /\ pc = "info" /\ size[img] = 0 /\ load[img] = 0
      BY <2>1 DEF get_info, FlowInv, Reading
    <3>2. NoWrap(img)
      BY <3>1, MapTypes DEF NoWrap
    <3>3. ASSUME NEW i \in Image, NoWrap(i)', i # img PROVE NoWrap(i)
      BY <1>0, <2>1, <3>3, GetInfoEffect DEF NoWrap
    <3> QED
      BY <1>1, <3>1, <3>2, <3>3
  <2>2. CASE ~get_info
    BY <1>2, <1>4, <2>2 DEF TcmCode, get_cert_info, tcm_hw_init,
       lcs_judgement, load_key_cert, load_cert, load_image, execDMA,
       authenticate, console_wait, lifec_init, lifec_cr7_setting, tcmVars
  <2> QED
    BY <2>1, <2>2
<1>5. CASE (endDMA \/ wait_endRPC) /\ UNCHANGED tcmVars
  BY <1>2, <1>5 DEF endDMA, wait_endRPC, tcmVars
<1>6. CASE Transfer
  <2>1. UNCHANGED <<size, load, img>>
    BY <1>6 DEF Transfer, tcmVars
  <2>2. CASE DmaBurst
    <3>1. dma = "run" /\ tcr > 0 /\ mem' = [mem EXCEPT ![Cell(dar)] = Cell(sar)]
      BY <2>2 DEF DmaBurst
    <3>2. Cell(dar) \in Cells /\ (NoWrap(img) => Confined(Cell(dar)))
      BY <3>1, BurstCell
    <3> SUFFICES ASSUME \A i \in Image : NoWrap(i)', NEW c \in Cells,
                        mem'[c] # NoData
                 PROVE  Confined(c)
      BY DEF MemoryConfined
    <3>3. \A i \in Image : NoWrap(i)
      BY <2>1, SameImages
    <3>4. CASE c = Cell(dar)
      BY <1>0, <3>2, <3>3, <3>4
    <3>5. CASE c # Cell(dar)
      BY <1>0, <3>1, <3>3, <3>5 DEF MemoryConfined
    <3> QED
      BY <3>4, <3>5
  <2>3. CASE DmaEnd \/ DmaAddressError \/ RpcEnd
    BY <1>2, <2>1, <2>3 DEF DmaEnd, DmaAddressError, RpcEnd
  <2> QED
    BY <1>6, <2>2, <2>3 DEF Transfer, DmaHardware
<1> QED
  BY <1>3, <1>4, <1>5, <1>6, QuietSteps

(* When the channel reports the end, the whole image is in memory.         *)
LEMMA EndPlaces ==
  ASSUME TypeOK, ImageTransfer, tcr = 0
  PROVE  Placed(img)
<1>0. img \in Image
  BY DEF TypeOK, TcmTypeOK
<1>1. PICK k \in Nat :
        /\ dar = load[img] + 64 * k /\ 64 * (k + tcr) = dmalen(size[img])
        /\ \A j \in 0 .. k - 1 :
             mem[Cell(load[img]) + j] = Cell(FlashImage(img)) + j
  BY DEF ImageTransfer, Burst
<1>2. /\ Accepted(img) /\ size[img] \in Nat /\ size[img] > 0
      /\ load[img] \in Nat /\ dmalen(size[img]) \in Nat
      /\ size[img] <= dmalen(size[img])
      /\ load[img] + dmalen(size[img]) < AddrSpace
      /\ AddrSpace \in Nat /\ AddrSpace % 64 = 0
  BY <1>0, AcceptedArea, ImageLength, MapBounds, BurstAligned
     DEF ImageTransfer
<1>3. Cell(size[img] + Burst - 1) <= k
  BY <1>1, <1>2 DEF Cell, Burst
<1>4. ASSUME NEW j \in 0 .. k - 1 PROVE Cell(load[img]) + j \in Cells
  <2>0. j \in Nat
    BY <1>4
  <2>1. Cell(load[img] + 64 * j) = Cell(load[img]) + j
    BY <1>2, <2>0, CellShift
  <2>2. load[img] + 64 * j \in Nat /\ load[img] + 64 * j < AddrSpace
    BY <1>1, <1>2
  <2> QED
    BY <1>2, <2>1, <2>2, CellOrder DEF Cells
<1>5. \A j \in 0 .. Cell(size[img] + Burst - 1) - 1 : j \in 0 .. k - 1
  <2>1. Cell(size[img] + Burst - 1) \in Int
    BY <1>2 DEF Cell, Burst
  <2> QED
    BY <1>3, <2>1
<1> QED
  BY <1>1, <1>2, <1>4, <1>5 DEF Placed, ImageHeld, Holds

(* A burst of the second image leaves the first one as it was.             *)
LEMMA BurstSpares ==
  ASSUME TypeOK, TransferInv, DmaBurst, img = "CA5X", NoWrap("RTOS"),
         Placed("RTOS"), UNCHANGED <<size, load>>
  PROVE  Placed("RTOS")'
<1>1. /\ dma = "run" /\ tcr > 0 /\ mem' = [mem EXCEPT ![Cell(dar)] = Cell(sar)]
      /\ mem \in [Cells -> Int] /\ "RTOS" \in Image
  BY DEF DmaBurst, TypeOK, DmaTypeOK, Image
<1>2. ~InRange(Cell(dar), DRAM_BASE, DRAM_END)
  BY <1>1, BurstCell
<1>3. /\ Accepted("RTOS") /\ size["RTOS"] \in Nat /\ load["RTOS"] \in Nat
      /\ DRAM_BASE <= load["RTOS"] /\ load["RTOS"] + size["RTOS"] <= DRAM_END
      /\ DRAM_BASE \in Nat /\ DRAM_END \in Nat /\ DRAM_END % 256 = 0
  BY <1>1, AcceptedArea, MapBounds DEF Placed, topadd, endadd
<1>4. ASSUME NEW k \in 0 .. Cell(size["RTOS"] + Burst - 1) - 1
      PROVE  InRange(Cell(load["RTOS"]) + k, DRAM_BASE, DRAM_END)
  <2>1. 64 * k < size["RTOS"] /\ k \in Nat
    BY <1>3, <1>4 DEF Cell, Burst
  <2>2. load["RTOS"] + 64 * k \in Nat /\ DRAM_BASE <= load["RTOS"] + 64 * k
        /\ load["RTOS"] + 64 * k < DRAM_END
    BY <1>3, <2>1
  <2>3. Cell(load["RTOS"] + 64 * k) = Cell(load["RTOS"]) + k
    BY <1>3, <2>1, CellShift
  <2>4. InRange(Cell(load["RTOS"] + 64 * k), DRAM_BASE, DRAM_END)
    BY <1>3, <2>2, InRegion
  <2> QED
    BY <2>3, <2>4
<1>5. ASSUME NEW k \in 0 .. Cell(size["RTOS"] + Burst - 1) - 1
      PROVE  mem'[Cell(load["RTOS"]) + k] = mem[Cell(load["RTOS"]) + k]
  <2>1. Cell(load["RTOS"]) + k # Cell(dar)
    BY <1>2, <1>4
  <2>2. Cell(load["RTOS"]) + k \in Cells
    BY DEF Placed, ImageHeld, Holds
  <2> QED
    BY <1>1, <2>1, <2>2
<1>6. Accepted("RTOS")'
  BY <1>1, <1>3, SameImages
<1>7. ImageHeld("RTOS")'
  BY <1>5 DEF Placed, ImageHeld, Holds
<1> QED
  BY <1>6, <1>7 DEF Placed

(* Every step keeps what has been loaded.                                  *)
LEMMA PlacedStep ==
  TypeOK /\ CtlInv /\ FlowInv /\ TransferInv /\ PlacedInv /\ [Next]_vars
    => PlacedInv'
<1> SUFFICES ASSUME TypeOK, CtlInv, FlowInv, TransferInv, PlacedInv,
                    [Next]_vars
             PROVE  PlacedInv'
  OBVIOUS
<1>0. img \in Image /\ "RTOS" \in Image /\ "CA5X" \in Image
  BY DEF TypeOK, TcmTypeOK, Image
<1>1. ASSUME UNCHANGED <<size, load, mem, img>>
      PROVE  /\ \A i \in Image : (NoWrap(i)' <=> NoWrap(i))
                                 /\ (Placed(i)' <=> Placed(i))
             /\ (NoWrap(img)' <=> NoWrap(img)) /\ (Placed(img)' <=> Placed(img))
  BY <1>0, <1>1, SameImages, SamePlaced
<1>2. ~Dead /\ pc \notin {"endDMA", "wait_endRPC"} => dma = "idle"
  BY DEF CtlInv, DmaInv, DmaReleased
<1> USE DEF PlacedInv, Reading, BeforeTcm, Dead, Step, Goto, panic
<1>3. CASE LoaderCode /\ UNCHANGED <<tcmVars, mem, dmaVars, scuVars>>
  BY <1>0, <1>1, <1>3 DEF LoaderCode, hw_init, prr_check, InitDram, loader_end,
     tcmVars, dmaVars, scuVars
<1>4. CASE SwdtCode /\ UNCHANGED <<tcmVars, mem, dmaVars, scuVars>>
  BY <1>0, <1>1, <1>4 DEF CtlInv, RetInv, SwdtCode, arm_gic_setup, swdt_init,
     swdt_start, aif_enable_i, irq_exception, swdt_exec, swdt_release,
     swdt_disable, gic_release, gic_security_setting, tcmVars, dmaVars, scuVars
<1>5. CASE TcmCode /\ UNCHANGED scuVars
  <2>0. ca5x' = ca5x /\ (ca5x = "run" => pc \in {"lifec_cr7_setting", "rtos"}
                                         \/ Dead)
    BY <1>5 DEF scuVars, CtlInv, ScuInv
  <2>1. CASE get_cert_info \/ tcm_hw_init \/ lcs_judgement
    BY <1>0, <1>1, <2>0, <2>1 DEF get_cert_info, tcm_hw_init, lcs_judgement,
       dmaVars
  <2>2. CASE load_key_cert \/ load_cert \/ load_image
    BY <1>0, <1>1, <2>0, <2>2 DEF load_key_cert, load_cert, load_image,
       execDMA, tcmVars, dmaVars
  <2>3. CASE get_info
    <3>1. /\ img' = img /\ mem' = mem /\ pc = "info"
          /\ pc' \in {"image", "panic"}
          /\ size' = [size EXCEPT ![img] = size'[img]]
          /\ load' = [load EXCEPT ![img] = load'[img]]
      BY <2>3, GetInfoEffect DEF get_info
    <3>2. ASSUME img = "CA5X"
          PROVE  (NoWrap("RTOS")' <=> NoWrap("RTOS"))
                 /\ (Placed("RTOS")' <=> Placed("RTOS"))
      <4>1. size'["RTOS"] = size["RTOS"] /\ load'["RTOS"] = load["RTOS"]
        BY <1>0, <3>1, <3>2 DEF TypeOK, TcmTypeOK
      <4> QED
        BY <3>1, <4>1 DEF NoWrap, Placed, Accepted, ImageHeld, Holds
    <3> QED
      BY <2>0, <3>1, <3>2
  <2>4. CASE authenticate
    <3>1. UNCHANGED <<mem, size, load, ret, dma>> /\ pc = "auth"
      BY <2>4 DEF authenticate, dmaVars
    <3>2. CASE img' = img /\ (pc' = "console_wait" \/ pc' = "panic")
      BY <1>0, <1>1, <1>2, <2>0, <3>1, <3>2
    <3>3. CASE img = "RTOS" /\ img' = "CA5X" /\ pc' = "cert"
      <4>1. (NoWrap("RTOS")' <=> NoWrap("RTOS"))
            /\ (Placed("RTOS")' <=> Placed("RTOS"))
        BY <1>0, <3>1, SameImages, SamePlaced
      <4> QED
        BY <1>2, <2>0, <3>1, <3>3, <4>1
    <3> QED
      BY <2>4, <3>2, <3>3 DEF authenticate, NextBlock
  <2>5. CASE console_wait \/ lifec_init \/ lifec_cr7_setting
    BY <1>0, <1>1, <2>0, <2>5 DEF console_wait, lifec_init, lifec_cr7_setting,
       tcmVars, dmaVars
  <2> QED
    BY <1>5, <2>1, <2>2, <2>3, <2>4, <2>5 DEF TcmCode
<1>6. CASE (endDMA \/ wait_endRPC) /\ UNCHANGED <<tcmVars, scuVars>>
  BY <1>0, <1>1, <1>6 DEF CtlInv, RetInv, DmaInv, endDMA, wait_endRPC, tcmVars,
     dmaVars, scuVars
<1>7. CASE ScuCode(load["CA5X"]) /\ UNCHANGED <<tcmVars, mem, dmaVars>>
  BY <1>0, <1>1, <1>2, <1>7 DEF FlowInv, BarSet, ScuCode, rcar_pwrc_cpuon,
     SCU_power_up, scu_request, scu_check, scu_wait, write_wupcr,
     release_reset, tcmVars, dmaVars, scuVars
<1>8. CASE Interrupt \/ Exception
  BY <1>0, <1>1, <1>8 DEF Interrupt, TakeIrq, Exception, TakeException,
     tcmVars, dmaVars, scuVars
<1>9. CASE Watchdog \/ Sysc \/ UNCHANGED vars
  BY <1>0, <1>1, <1>9 DEF Watchdog, SwdtHardware, SwdtOverflow,
     WtcntReflected, Sysc, ScuHardware, SyscReady, ScuResumed, CoreWoken, vars,
     coreVars, tcmVars, dmaVars, scuVars
<1>10. CASE Transfer
  <2>0. UNCHANGED <<coreVars, tcmVars, ca5x>>
    BY <1>10 DEF Transfer, DmaHardware, DmaBurst, DmaEnd, DmaAddressError,
       RpcEnd, scuVars
  <2>1. CASE DmaBurst
    <3>1. dma = "run" /\ dma' = "run" /\ ca5x # "run"
      BY <2>1 DEF DmaBurst, TransferInv
    <3>2. ASSUME img = "CA5X", NoWrap("RTOS") PROVE Placed("RTOS")'
      BY <2>0, <2>1, <3>2, BurstSpares DEF tcmVars
    <3>3. NoWrap("RTOS")' <=> NoWrap("RTOS")
      BY <1>0, <2>0, SameImages DEF tcmVars
    <3> QED
      BY <2>0, <3>1, <3>2, <3>3 DEF tcmVars
  <2>2. CASE DmaEnd
    <3>1. /\ dma = "run" /\ tcr = 0 /\ dma' = "te" /\ mem' = mem
          /\ ca5x # "run"
      BY <2>2 DEF DmaEnd, TransferInv
    <3>2. ASSUME ~Dead, ~Reading, NoWrap(img) PROVE Placed(img)
      <4>1. ~CertTransfer /\ ~WrapTransfer
        BY <3>2 DEF FlowInv, Accepted, SizeOK, CertTransfer, WrapTransfer
      <4> QED
        BY <3>1, <4>1, EndPlaces DEF TransferInv
    <3> QED
      BY <1>0, <1>1, <2>0, <3>1, <3>2 DEF coreVars, tcmVars
  <2>3. CASE DmaAddressError \/ RpcEnd
    BY <1>0, <1>1, <2>0, <2>3 DEF DmaAddressError, RpcEnd, TransferInv,
       coreVars, tcmVars
  <2> QED
    BY <1>10, <2>1, <2>2, <2>3 DEF Transfer, DmaHardware
<1> QED
  BY <1>3, <1>4, <1>5, <1>6, <1>7, <1>8, <1>9, <1>10 DEF Next, Code

-----------------------------------------------------------------------------
(* The data invariant holds in every reachable state.                      *)
THEOREM Data == Spec => [](TypeOK /\ CtlInv /\ DataInv)
<1>1. Init => DataInv
  BY DataInit
<1>2. TypeOK /\ CtlInv /\ DataInv /\ [Next]_vars => DataInv'
  BY FlowStep, AuthStep, TransferStep, PlacedStep, ConfinedStep DEF DataInv
<1> QED
  BY <1>1, <1>2, Control, PTL DEF Spec

(* Memory is written only where check_load_area allows, the round-up of    *)
(* execDMA and a transfer that outlives a panic included.                  *)
THEOREM MemoryConfinedHolds == Spec => []MemoryConfined
BY Data, PTL DEF DataInv

(* What is started is what flash holds, authenticated in secure boot.      *)
THEOREM StartedIntactHolds == Spec => []StartedIntact
<1>1. TypeOK /\ CtlInv /\ DataInv => StartedIntact
  <2> SUFFICES ASSUME TypeOK, CtlInv, DataInv, NEW i \in Started
               PROVE  (NoWrap(i) => ImageHeld(i))
                      /\ (secure = "ROM" => i \in verified)
    BY DEF StartedIntact
  <2>1. CASE i = "CA5X" /\ ca5x = "run"
    BY <2>1 DEF DataInv, PlacedInv, AuthInv, Placed
  <2>2. CASE i = "RTOS" /\ pc = "rtos"
    <3>1. /\ ~Dead /\ ~Reading /\ dma = "idle" /\ img \in Image
          /\ pc \in Released /\ pc # "image"
      BY <2>2 DEF Dead, Reading, BeforeTcm, CtlInv, DmaInv, DmaReleased,
         TypeOK, TcmTypeOK, Released
    <3> QED
      BY <2>2, <3>1 DEF DataInv, PlacedInv, AuthInv, Placed, Image
  <2> QED
    BY <2>1, <2>2 DEF Started
<1> QED
  BY <1>1, Data, PTL

-----------------------------------------------------------------------------
(***************************************************************************)
(* The refinement, for every boot in which no load area wraps: the code's  *)
(* own check lets such a certificate through (cr7_wrap), and nothing is    *)
(* promised then.                                                          *)
(***************************************************************************)
NoneWraps == \A i \in Image : NoWrap(i)

(* Facts of a state that BootPolicy relies on.                             *)
LEMMA PolicyFacts ==
  ASSUME TypeOK, CtlInv, DataInv
  PROVE  /\ Started # {} => dma = "idle"
         /\ ~Dead /\ pc \notin Released => Started = {}
         /\ img = "RTOS" => ~Placed("CA5X")
         /\ Reading => ~Placed(img)
<1>1. Started # {} => dma = "idle"
  BY DEF Started, Image, DataInv, PlacedInv, CtlInv, DmaInv, DmaReleased, Dead
<1>2. ~Dead /\ pc \notin Released => Started = {}
  BY DEF Started, Image, CtlInv, ScuInv, Released, Dead
<1>3. img = "RTOS" => ~Placed("CA5X")
  BY DEF DataInv, FlowInv, Placed, ImageHeld
<1>4. Reading => ~Placed(img)
  BY DEF DataInv, FlowInv, Placed, ImageHeld
<1> QED
  BY <1>1, <1>2, <1>3, <1>4

(* A step that changes no image, decides nothing and starts nothing maps   *)
(* to a stutter or to Stop.                                                *)
LEMMA StopOrStutter ==
  ASSUME TypeOK, CtlInv, UNCHANGED <<secure, size, load, mem, verified>>,
         Started' = Started, Dead => Dead', pc = "rtos" => ~Dead'
  PROVE  [Policy!PolicyNext]_(Policy!policyVars)
<1>1. {i \in Image : Placed(i)}' = {i \in Image : Placed(i)}
  BY SamePlaced
<1>2. Dead' = Dead \/ (~Dead /\ Dead')
  BY DEF Dead
<1>3. "RTOS" \in Started <=> pc = "rtos"
  BY DEF Started, Image
<1> QED
  BY <1>1, <1>2, <1>3 DEF Policy!PolicyNext, Policy!policyVars, Policy!Stop

(* A burst leaves every placed image placed, and may complete only the one *)
(* it belongs to.                                                          *)
LEMMA BurstPlaces ==
  ASSUME TypeOK, CtlInv, DataInv, NoneWraps, DmaBurst, UNCHANGED tcmVars
  PROVE  {i \in Image : Placed(i)}' = {i \in Image : Placed(i)}
         \/ /\ ~Placed(img)
            /\ {i \in Image : Placed(i)}' = {i \in Image : Placed(i)} \cup {img}
<1>0. /\ img \in Image /\ NoWrap(img) /\ NoWrap("RTOS") /\ TransferInv
      /\ UNCHANGED <<size, load, img>> /\ dma = "run" /\ tcr > 0
      /\ mem' = [mem EXCEPT ![Cell(dar)] = Cell(sar)] /\ mem \in [Cells -> Int]
  BY DEF TypeOK, TcmTypeOK, DmaTypeOK, NoneWraps, Image, DataInv, tcmVars,
     DmaBurst
<1>1. ASSUME NEW i \in Image, i # img PROVE Placed(i)' <=> Placed(i)
  <2>1. CASE i = "CA5X"
    BY <1>0, <1>1, <2>1 DEF Image, DataInv, FlowInv, Placed, ImageHeld
  <2>2. CASE i = "RTOS"
    <3>1. img = "CA5X" /\ Placed("RTOS")
      BY <1>0, <1>1, <2>2 DEF Image, DataInv, PlacedInv
    <3> QED
      BY <1>0, <2>2, <3>1, BurstSpares
  <2> QED
    BY <2>1, <2>2 DEF Image
<1>2. ASSUME Placed(img) PROVE Placed(img)'
  <2>1. /\ Accepted(img) /\ size[img] # 0
        /\ Holds(load[img], FlashImage(img), size[img])
    BY <1>2 DEF Placed, ImageHeld
  <2>2. ImageTransfer
    BY <1>0, <2>1 DEF TransferInv, CertTransfer, WrapTransfer
  <2>3. PICK k \in Nat :
          dar = load[img] + 64 * k /\ sar = FlashImage(img) + 64 * k
    BY <2>2 DEF ImageTransfer, Burst
  <2>4. load[img] \in Nat /\ FlashImage(img) \in Nat
    BY <1>0, <2>1, AcceptedArea, MapBounds
  <2>5. /\ Cell(dar) = Cell(load[img]) + k
        /\ Cell(sar) = Cell(FlashImage(img)) + k
        /\ Cell(load[img]) \in Nat /\ Cell(FlashImage(img)) \in Nat
    BY <2>3, <2>4, CellShift, CellOrder
  <2>6. ASSUME NEW j \in 0 .. Cell(size[img] + Burst - 1) - 1
        PROVE  /\ Cell(load[img]) + j \in Cells
               /\ mem'[Cell(load[img]) + j] = Cell(FlashImage(img)) + j
    <3>1. /\ Cell(load[img]) + j \in Cells
          /\ mem[Cell(load[img]) + j] = Cell(FlashImage(img)) + j
      BY <2>1 DEF Holds
    <3>2. CASE j = k
      BY <1>0, <2>5, <3>1, <3>2
    <3>3. CASE j # k
      <4>1. Cell(load[img]) + j # Cell(dar)
        BY <2>5, <3>3
      <4> QED
        BY <1>0, <3>1, <4>1
    <3> QED
      BY <3>2, <3>3
  <2>7. Accepted(img)'
    BY <1>0, <2>1, SameImages
  <2> QED
    BY <1>0, <2>1, <2>6, <2>7 DEF Placed, ImageHeld, Holds
<1> QED
  BY <1>0, <1>1, <1>2

(* Every step of the boot maps to a step of BootPolicy or to a stutter.    *)
LEMMA PolicyStep ==
  ASSUME TypeOK, CtlInv, DataInv, NoneWraps, [Next]_vars
  PROVE  [Policy!PolicyNext]_(Policy!policyVars)
<1>0. /\ img \in Image /\ secure \in {"unset", "NULL", "ROM"}
      /\ "RTOS" \in Image /\ "CA5X" \in Image
      /\ verified \subseteq Image
  BY DEF TypeOK, TcmTypeOK, Image
<1>1. FlowInv /\ AuthInv /\ TransferInv /\ PlacedInv
  BY DEF DataInv
<1>2. ~Dead /\ pc \notin {"endDMA", "wait_endRPC"} => dma = "idle"
  BY DEF CtlInv, DmaInv, DmaReleased
<1>3. CASE LoaderCode /\ UNCHANGED <<tcmVars, mem, dmaVars, scuVars>>
  BY <1>3, StopOrStutter DEF LoaderCode, hw_init, prr_check, InitDram,
     loader_end, tcmVars, scuVars, Started, Dead, Step, Goto, panic
<1>4. CASE SwdtCode /\ UNCHANGED <<tcmVars, mem, dmaVars, scuVars>>
  BY <1>4, StopOrStutter DEF CtlInv, RetInv, SwdtCode, arm_gic_setup,
     swdt_init, swdt_start, aif_enable_i, irq_exception, swdt_exec,
     swdt_release, swdt_disable, gic_release, gic_security_setting, tcmVars,
     scuVars, Started, Dead, Step, Goto, panic
<1>5. CASE TcmCode /\ UNCHANGED scuVars
  <2>0. ca5x' = ca5x
    BY <1>5 DEF scuVars
  <2>1. CASE get_cert_info
    BY <2>0, <2>1, StopOrStutter DEF get_cert_info, Started, Dead, Step, Goto
  <2>2. CASE load_key_cert \/ load_cert \/ load_image
    BY <2>0, <2>2, StopOrStutter DEF load_key_cert, load_cert, load_image,
       execDMA, tcmVars, Started, Dead, Goto, panic
  <2>3. CASE console_wait \/ lifec_init
    BY <2>0, <2>3, StopOrStutter DEF console_wait, lifec_init, tcmVars,
       Started, Dead, Step, Goto
  <2>4. CASE tcm_hw_init \/ lcs_judgement
    <3>1. /\ UNCHANGED <<size, load, mem, verified>> /\ ~Dead
          /\ Started' = Started
      BY <2>0, <2>4 DEF tcm_hw_init, lcs_judgement, Started, Dead, Step, Goto,
         panic
    <3>2. {i \in Image : Placed(i)} = {} /\ {i \in Image : Placed(i)}' = {}
      <4>1. Reading /\ img = "RTOS"
        BY <1>1, <2>4 DEF tcm_hw_init, lcs_judgement, Step, FlowInv, Reading,
           BeforeTcm
      <4>2. ~Placed("RTOS") /\ ~Placed("CA5X")
        BY <4>1, PolicyFacts
      <4> QED
        BY <3>1, <4>2, SamePlaced DEF Image
    <3>3. CASE pc' = "panic"
      BY <2>4, <3>1, <3>3, StopOrStutter DEF tcm_hw_init, lcs_judgement, Step,
         Goto, Dead, panic
    <3>4. CASE pc' # "panic"
      <4>1. /\ secure \in {"unset", "NULL"} /\ secure' \in {"NULL", "ROM"}
            /\ Dead = FALSE /\ Dead' = FALSE
        BY <1>0, <1>1, <2>4, <3>4 DEF FlowInv, BeforeTcm, tcm_hw_init,
           lcs_judgement, Step, Goto, panic, Dead
      <4> QED
        BY <3>1, <3>2, <4>1 DEF Policy!PolicyNext, Policy!Decide
    <3> QED
      BY <3>3, <3>4
  <2>5. CASE get_info
    <3>1. /\ UNCHANGED <<secure, mem, verified, img, ca5x>> /\ pc = "info"
          /\ \/ pc' = "image" /\ Accepted(img)'
             \/ pc' = "panic" /\ ~(Accepted(img)')
      BY <2>0, <2>5, GetInfoEffect DEF get_info
    <3>2. /\ ~Dead /\ Started = {} /\ Started' = {} /\ secure # "unset"
      BY <1>0, <1>1, <3>1, PolicyFacts DEF Dead, Started, Released, FlowInv,
         BeforeTcm
    <3>3. ~Placed(img) /\ (pc' = "panic" => ~(Placed(img)'))
      BY <3>1, PolicyFacts DEF Reading, Placed
    <3>4. ASSUME NEW i \in Image, i # img PROVE Placed(i)' <=> Placed(i)
      <4>1. size'[i] = size[i] /\ load'[i] = load[i]
        BY <1>0, <2>5, <3>4, GetInfoEffect DEF TypeOK, TcmTypeOK
      <4> QED
        BY <3>1, <4>1 DEF Placed, Accepted, ImageHeld, Holds
    <3>5. CASE Placed(img)'
      <4>1. {i \in Image : Placed(i)}' = {i \in Image : Placed(i)} \cup {img}
            /\ img \notin {i \in Image : Placed(i)}
            /\ Dead = FALSE /\ Dead' = FALSE
        BY <1>0, <3>1, <3>3, <3>4, <3>5 DEF Dead
      <4> QED
        BY <1>0, <3>1, <3>2, <4>1 DEF Policy!PolicyNext, Policy!Place
    <3>6. CASE ~(Placed(img)')
      <4>1. {i \in Image : Placed(i)}' = {i \in Image : Placed(i)}
        BY <1>0, <3>1, <3>3, <3>4, <3>6
      <4>2. Dead' \/ Dead' = Dead
        BY <3>1 DEF Dead
      <4> QED
        BY <3>1, <3>2, <4>1, <4>2 DEF Policy!PolicyNext, Policy!Stop,
           Policy!policyVars
    <3> QED
      BY <3>5, <3>6
  <2>6. CASE authenticate
    <3>1. /\ UNCHANGED <<secure, size, load, mem, ca5x>> /\ pc = "auth"
          /\ pc' \in {"cert", "console_wait", "panic"}
      BY <2>0, <2>6 DEF authenticate, NextBlock, Goto, panic
    <3>2. /\ ~Dead /\ Started = {} /\ Started' = {}
          /\ Accepted(img)
      BY <1>0, <1>1, <3>1, PolicyFacts DEF Dead, Started, Released, FlowInv,
         Reading, BeforeTcm
    <3>3. {i \in Image : Placed(i)}' = {i \in Image : Placed(i)}
      BY <3>1, SamePlaced
    <3>4. CASE verified' = verified
      BY <3>1, <3>2, <3>4, StopOrStutter
    <3>5. CASE /\ secure = "ROM" /\ ImageHeld(img) /\ NextBlock
               /\ verified' = verified \cup {img}
      <4>1. /\ img \in {i \in Image : Placed(i)}
            /\ Dead = FALSE /\ Dead' = FALSE
        BY <1>0, <3>2, <3>5 DEF Placed, NextBlock, Goto, Dead
      <4> QED
        BY <1>0, <3>1, <3>2, <3>3, <3>5, <4>1 DEF Policy!PolicyNext,
           Policy!Check
    <3> QED
      BY <2>6, <3>4, <3>5 DEF authenticate
  <2>7. CASE lifec_cr7_setting
    <3>1. /\ UNCHANGED <<secure, size, load, mem, verified, img, ca5x>>
          /\ pc = "lifec_cr7_setting" /\ pc' = "rtos"
      BY <2>0, <2>7 DEF lifec_cr7_setting, Step, Goto
    <3>2. /\ Started' = Started \cup {"RTOS"} /\ "RTOS" \notin Started
          /\ Dead = FALSE /\ Dead' = FALSE /\ dma = "idle"
      BY <1>2, <3>1 DEF Started, Image, Dead
    <3>3. Placed("RTOS")
      BY <1>0, <1>1, <3>1, <3>2 DEF PlacedInv, Reading, BeforeTcm, NoneWraps,
         Image
    <3>4. /\ secure # "unset" /\ (secure = "ROM" => "RTOS" \in verified)
      BY <1>0, <1>1, <3>1, <3>2 DEF FlowInv, BeforeTcm, AuthInv, Released,
         Image
    <3>5. {i \in Image : Placed(i)}' = {i \in Image : Placed(i)}
      BY <3>1, SamePlaced
    <3> QED
      BY <1>0, <3>1, <3>2, <3>3, <3>4, <3>5 DEF Policy!PolicyNext,
         Policy!Start
  <2> QED
    BY <1>5, <2>1, <2>2, <2>3, <2>4, <2>5, <2>6, <2>7 DEF TcmCode
<1>6. CASE (endDMA \/ wait_endRPC) /\ UNCHANGED <<tcmVars, scuVars>>
  BY <1>6, StopOrStutter DEF CtlInv, RetInv, endDMA, wait_endRPC, tcmVars,
     scuVars, Started, Dead, Step, Goto, panic
<1>7. CASE ScuCode(load["CA5X"]) /\ UNCHANGED <<tcmVars, mem, dmaVars>>
  <2>1. CASE release_reset
    <3>1. /\ UNCHANGED <<secure, size, load, mem, verified, img>>
          /\ pc = "wupcr_wait" /\ pc' = "lifec_cr7_setting" /\ ca5x' = "run"
      BY <1>7, <2>1 DEF release_reset, Step, Goto, tcmVars
    <3>2. /\ Started' = Started \cup {"CA5X"} /\ Started = {}
          /\ Dead = FALSE /\ Dead' = FALSE /\ dma = "idle"
      BY <1>2, <3>1 DEF Started, Image, Dead, CtlInv, ScuInv
    <3>3. img = "CA5X" /\ Placed("CA5X")
      BY <1>0, <1>1, <3>1, <3>2 DEF FlowInv, BarSet, PlacedInv, Reading,
         BeforeTcm, NoneWraps
    <3>4. /\ secure # "unset" /\ (secure = "ROM" => "CA5X" \in verified)
      BY <1>0, <1>1, <3>1, <3>2, <3>3 DEF FlowInv, BeforeTcm, AuthInv,
         Released
    <3>5. {i \in Image : Placed(i)}' = {i \in Image : Placed(i)}
      BY <3>1, SamePlaced
    <3> QED
      BY <1>0, <3>1, <3>2, <3>3, <3>4, <3>5 DEF Policy!PolicyNext,
         Policy!Start
  <2>2. CASE ~release_reset
    BY <1>7, <2>2, StopOrStutter DEF ScuCode, rcar_pwrc_cpuon, SCU_power_up,
       scu_request, scu_check, scu_wait, write_wupcr, scuVars, tcmVars,
       Started, Dead, Step, Goto, panic
  <2> QED
    BY <2>1, <2>2
<1>8. CASE Interrupt \/ Exception
  BY <1>8, StopOrStutter DEF Interrupt, TakeIrq, Exception, TakeException,
     CtlInv, SwdtInv, Released, tcmVars, scuVars, Started, Dead, Goto
<1>9. CASE Watchdog \/ Sysc \/ UNCHANGED vars
  BY <1>9, StopOrStutter DEF Watchdog, SwdtHardware, SwdtOverflow,
     WtcntReflected, Sysc, ScuHardware, SyscReady, ScuResumed, CoreWoken, vars,
     coreVars, tcmVars, scuVars, Started, Dead
<1>10. CASE Transfer
  <2>0. UNCHANGED <<coreVars, tcmVars, ca5x>>
    BY <1>10 DEF Transfer, DmaHardware, DmaBurst, DmaEnd, DmaAddressError,
       RpcEnd, scuVars
  <2>1. CASE DmaBurst
    <3>1. /\ Started' = Started /\ Dead' = Dead /\ Started = {}
          /\ secure # "unset" /\ UNCHANGED <<secure, verified>>
      BY <1>1, <2>0, <2>1, PolicyFacts DEF Started, Dead, DmaBurst, FlowInv,
         coreVars, tcmVars
    <3> QED
      BY <1>0, <2>0, <2>1, <3>1, BurstPlaces DEF Policy!PolicyNext,
         Policy!Place, Policy!policyVars
  <2>2. CASE DmaEnd \/ DmaAddressError \/ RpcEnd
    BY <2>0, <2>2, StopOrStutter DEF DmaEnd, DmaAddressError, RpcEnd, Started,
       Dead, coreVars, tcmVars
  <2> QED
    BY <1>10, <2>1, <2>2 DEF Transfer, DmaHardware
<1> QED
  BY <1>3, <1>4, <1>5, <1>6, <1>7, <1>8, <1>9, <1>10 DEF Next, Code

(* Whatever the interleaving of core, watchdog, DMA and system controller, *)
(* a boot in which no load area wraps implements BootPolicy.               *)
THEOREM RefinesPolicy == Spec /\ []NoneWraps => ImplementsPolicy
<1>1. Init => Policy!PolicyInit
  BY DEF Init, LoaderInit, TcmInit, ScuInit, Policy!PolicyInit, Placed,
     ImageHeld, Started, Dead, Image
<1>2. TypeOK /\ CtlInv /\ DataInv /\ NoneWraps /\ [Next]_vars
        => [Policy!PolicyNext]_(Policy!policyVars)
  BY PolicyStep
<1> QED
  BY <1>1, <1>2, Data, PTL DEF Spec, ImplementsPolicy, Policy!PolicySpec

(* Certificates whose size and address, as get_info_from_cert reads them,  *)
(* name an area that ends below 2^32.                                      *)
CertsFit ==
  \A c \in CertChoices, i \in Image, m \in {"none", "old", "new"} :
    cert_dest(c[i], m) + cert_size(c[i], m) < AddrSpace

(* The same as a condition on the certificates: flash that holds fitting   *)
(* ones always boots as BootPolicy says.                                   *)
THEOREM FittingCertsRefine == CertsFit => (Spec => ImplementsPolicy)
<1> SUFFICES ASSUME CertsFit PROVE Spec => ImplementsPolicy
  OBVIOUS
<1>1. Init => NoneWraps
  BY MapTypes DEF Init, TcmInit, NoneWraps, NoWrap
<1>2. TypeOK /\ NoneWraps /\ [Next]_vars => NoneWraps'
  <2> SUFFICES ASSUME TypeOK, NoneWraps, [Next]_vars PROVE NoneWraps'
    OBVIOUS
  <2>1. CASE get_info
    <3>1. PICK j \in Image :
            /\ size' = [size EXCEPT ![img] = cert_size(cert[j], magic)]
            /\ load' = [load EXCEPT ![img] = cert_dest(cert[j], magic)]
      BY <2>1 DEF get_info
    <3>2. cert_dest(cert[j], magic) + cert_size(cert[j], magic) < AddrSpace
      BY DEF CertsFit, TypeOK, TcmTypeOK
    <3> QED
      BY <3>1, <3>2 DEF NoneWraps, NoWrap, TypeOK, TcmTypeOK
  <2>2. CASE ~get_info
    <3>1. UNCHANGED <<size, load>>
      BY <2>2, QuietSteps DEF Quiet, TcmCode, get_cert_info, tcm_hw_init,
         lcs_judgement, load_key_cert, load_cert, load_image, authenticate,
         console_wait, lifec_init, lifec_cr7_setting, Transfer, tcmVars
    <3> QED
      BY <3>1 DEF NoneWraps, NoWrap
  <2> QED
    BY <2>1, <2>2
<1>3. Spec => []NoneWraps
  BY <1>1, <1>2, TypeCorrect, PTL DEF Spec
<1> QED
  BY <1>3, RefinesPolicy, PTL
=============================================================================
