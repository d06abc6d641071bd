------------------------------ MODULE TcmLoader ------------------------------
(***************************************************************************)
(* tcm_loader_main: the second stage.  It decides between secure and       *)
(* normal boot, loads the RTOS (and, when RCAR_KICK_MAIN_CPU is set, the   *)
(* CA5x loader) from flash, authenticates them in secure boot, releases    *)
(* the watchdog and returns the RTOS's load address, where tcm_loader.S    *)
(* jumps.  The code repeats one block for the two images: here img says    *)
(* for which image the block runs.                                         *)
(***************************************************************************)
EXTENDS DmaRpc, FiniteSets

CONSTANTS
  RCAR_SECURE_BOOT,     \* BOOLEAN: build option
  RCAR_KICK_MAIN_CPU,   \* BOOLEAN: a CA57/CA53 loader is started too
  RCAR_LIFEC_SETTING,   \* BOOLEAN: LifeC protection is set up
  CertChoices           \* the pairs of content certificates flash may hold

ASSUME BuildOK ==
  /\ RCAR_SECURE_BOOT \in BOOLEAN /\ RCAR_KICK_MAIN_CPU \in BOOLEAN
  /\ RCAR_LIFEC_SETTING \in BOOLEAN
  /\ CertChoices \subseteq [Image -> Cert]

VARIABLES
  cert,       \* the content certificates in flash, by image
  magic,      \* format of the boot key certificate: "none", "old", "new"
  secure,     \* sbrom_SecureBootAPI: "unset", "NULL" or "ROM"
  img,        \* the image being processed
  size, load, \* by image: size and load address, once read
  verified,   \* history: the images the ROM has authenticated
  lifec       \* protection set up so far: "reset", "set", "nonsecure"

tcmVars == <<cert, magic, secure, img, size, load, verified, lifec>>

TcmTypeOK ==
  /\ cert \in CertChoices
  /\ magic \in {"none", "old", "new"}
  /\ secure \in {"unset", "NULL", "ROM"}
  /\ img \in Image
  /\ size \in [Image -> 0 .. AddrSpace - 1]
  /\ load \in [Image -> 0 .. AddrSpace - 1]
  /\ verified \subseteq Image
  /\ lifec \in {"reset", "set", "nonsecure"}

TcmInit ==
  /\ cert \in CertChoices
  /\ magic = "none" /\ secure = "unset" /\ img = "RTOS"
  /\ size = [i \in Image |-> 0] /\ load = [i \in Image |-> 0]
  /\ verified = {} /\ lifec = "reset"

(* The boot key certificate and the certificate of image i are in their    *)
(* buffers; image i is in memory as flash holds it.                        *)
KeyCertHeld ==
  Holds(SEC_BOOT_CERT_ADDR(boot_cert_addr(magic)),
        FLASH_BASE + boot_cert_addr(magic), boot_cert_size(magic))
CertHeld(i) == Holds(RTOS_CERT_ADDR, FlashCert(i), FLASH_CERT_SIZE)
ImageHeld(i) == size[i] # 0 /\ Holds(load[i], FlashImage(i), size[i])

-----------------------------------------------------------------------------
(* get_cert_info: the magic number the boot ROM left in System RAM.        *)
get_cert_info ==
  /\ Step("get_cert_info", "tcm_hw_init")
  /\ IF RCAR_SECURE_BOOT THEN magic' \in {"old", "new"} ELSE UNCHANGED magic
  /\ UNCHANGED <<cert, secure, img, size, load, verified, lifec, mem, dmaVars>>

(* ecc_init (a no-op in the default build), initRPC, initDMA.              *)
tcm_hw_init ==
  /\ Step("tcm_hw_init", IF RCAR_SECURE_BOOT THEN "lcs" ELSE "cert")
  /\ secure' = "NULL"
  /\ dma' = "idle"
  /\ UNCHANGED <<cert, magic, img, size, load, verified, lifec,
                 mem, dar, sar, tcr, rdmsec, rpc>>

(* The LCS judgement: ROM_GetLcs may fail; otherwise the life-cycle state  *)
(* and the mode bits decide.                                               *)
SecureBoot(lcs, md, softmd) ==
  IF lcs = "SE" THEN softmd # 1 ELSE lcs # "SD" /\ md = 0
lcs_judgement ==
  /\ pc = "lcs"
  /\ \/ panic /\ UNCHANGED secure
     \/ \E lcs \in {"CM", "DM", "SD", "SE", "FA"}, md, softmd \in 0..1 :
          IF SecureBoot(lcs, md, softmd)
          THEN secure' = "ROM" /\ Goto("key_cert")
          ELSE secure' = "NULL" /\ Goto("cert")
  /\ UNCHANGED <<ret, irq, cert, magic, img, size, load, verified, lifec,
                 mem, dmaVars>>

load_key_cert ==
  /\ execDMA("key_cert", SEC_BOOT_CERT_ADDR(boot_cert_addr(magic)),
             FLASH_BASE + boot_cert_addr(magic), boot_cert_size(magic),
             "cert")
  /\ UNCHANGED tcmVars

load_cert ==
  /\ execDMA("cert", RTOS_CERT_ADDR, FlashCert(img), FLASH_CERT_SIZE, "info")
  /\ UNCHANGED tcmVars

(* get_info_from_cert on whatever certificate the buffer holds, the size   *)
(* checks and check_load_area.                                             *)
CertInBuffer(i) == mem[Cell(RTOS_CERT_ADDR)] = Cell(FlashCert(i))
get_info ==
  /\ pc = "info"
  /\ \E i \in Image :
       LET len == cert_size(cert[i], magic)
           dst == cert_dest(cert[i], magic)
       IN /\ CertInBuffer(i)
          /\ size' = [size EXCEPT ![img] = len]
          /\ load' = [load EXCEPT ![img] = dst]
          /\ IF /\ SizeOK(len, img)
                /\ check_load_area(dst, FlashImage(img), len, img)
             THEN Goto("image") ELSE panic
  /\ UNCHANGED <<ret, irq, cert, magic, secure, img, verified, lifec,
                 mem, dmaVars>>

load_image ==
  /\ execDMA("image", load[img], FlashImage(img), size[img], "auth")
  /\ UNCHANGED tcmVars

(* What follows an image: the other image's block, or the hand-off.        *)
NextBlock ==
  IF img = "RTOS" /\ RCAR_KICK_MAIN_CPU
  THEN Goto("cert") /\ img' = "CA5X"
  ELSE Goto("console_wait") /\ UNCHANGED img

(* Authentication, in secure boot only.  The ROM reads both certificates   *)
(* and the image: it can only accept what is really there, and may refuse. *)
MutAuthIgnored ==
  /\ pc = "auth"
  /\ \/ secure = "NULL" /\ NextBlock /\ UNCHANGED verified
     \/ /\ secure = "ROM"
        /\ KeyCertHeld /\ CertHeld(img) /\ ImageHeld(img)
        /\ verified' = verified \cup {img}
        /\ NextBlock
     \/ secure = "ROM" /\ NextBlock /\ UNCHANGED verified
  /\ UNCHANGED <<ret, irq, cert, magic, secure, size, load, lifec,
                 mem, dmaVars>>
authenticate ==
  /\ pc = "auth"
  /\ \/ secure = "NULL" /\ NextBlock /\ UNCHANGED verified
     \/ /\ secure = "ROM"
        /\ KeyCertHeld /\ CertHeld(img) /\ ImageHeld(img)
        /\ verified' = verified \cup {img}
        /\ NextBlock
     \/ secure = "ROM" /\ panic /\ UNCHANGED <<verified, img>>
  /\ UNCHANGED <<ret, irq, cert, magic, secure, size, load, lifec,
                 mem, dmaVars>>

(* console_wait, then the call of swdt_release.                            *)
console_wait ==
  /\ pc = "console_wait" /\ Goto("swdt_release")
  /\ ret' = "gic_security_setting"
  /\ UNCHANGED <<irq, tcmVars, mem, dmaVars>>

(* LifeC: the protection tables, when the build asks for them.             *)
lifec_init ==
  /\ Step("lifec_init", IF RCAR_KICK_MAIN_CPU THEN "rcar_pwrc_cpuon"
                                              ELSE "lifec_cr7_setting")
  /\ lifec' = IF RCAR_LIFEC_SETTING THEN "set" ELSE lifec
  /\ UNCHANGED <<cert, magic, secure, img, size, load, verified,
                 mem, dmaVars>>

(* lifec_cr7_setting and the return: tcm_loader.S jumps to the RTOS.       *)
lifec_cr7_setting ==
  /\ Step("lifec_cr7_setting", "rtos")
  /\ lifec' = "nonsecure"
  /\ UNCHANGED <<cert, magic, secure, img, size, load, verified,
                 mem, dmaVars>>

TcmCode == \/ get_cert_info \/ tcm_hw_init \/ lcs_judgement
           \/ load_key_cert \/ load_cert \/ get_info \/ load_image
           \/ authenticate \/ console_wait \/ lifec_init \/ lifec_cr7_setting
=============================================================================
