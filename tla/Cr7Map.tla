------------------------------- MODULE Cr7Map -------------------------------
(***************************************************************************)
(* The memory map of the Cortex-R7 loader and the 32-bit arithmetic it     *)
(* does on addresses and sizes: what a certificate says of an image, which *)
(* load areas are accepted, how long a DMA transfer becomes.               *)
(*                                                                         *)
(* The map is a parameter: TLC checks a scaled one (MC modules), the       *)
(* theorems hold for every map that satisfies MapAssumption, the real one  *)
(* (AddrSpace = 2^32, DRAM 0x40000000..0xC0000000, System RAM              *)
(* 0xE6300000..0xE6360000) included.  The units of the DMA driver are the  *)
(* code's: 256-byte alignment, 64-byte bursts, 4-byte certificate words.   *)
(***************************************************************************)
EXTENDS Integers

CONSTANTS
  AddrSpace,                 \* number of byte addresses: 2^32
  FLASH_BASE, FLASH_SIZE,
  FLASH_RTOS_CERT_ADDR, FLASH_CA5X_CERT_ADDR, FLASH_CERT_SIZE,
  FLASH_RTOS_IMAGE_ADDR, FLASH_CA5X_IMAGE_ADDR,
  DRAM_BASE, DRAM_END, SYSRAM_BASE, SYSRAM_END,
  RTOS_CERT_ADDR,            \* the buffer of either content certificate
  KEY_CERT_SHIFT,            \* the 0x400 of SEC_BOOT_CERT_ADDR(a)
  FLASH_SEC_BOOT_CERT_ADDR, FLASH_SEC_BOOT_CERT_SIZE,
  FLASH_SEC_BOOT_CERT_ADDR2, FLASH_SEC_BOOT_CERT_SIZE2,
  RTOS_MAX_SIZE, MAIN_LOADER_MAX_SIZE

DMA_SIZE_UNIT == 256         \* alignment and granule of execDMA
Burst == 64                  \* bytes per RDMTCR count
Image == {"RTOS", "CA5X"}

Aligned(a) == a % DMA_SIZE_UNIT = 0
Cell(a) == a \div Burst      \* memory is kept in 64-byte cells
Cells == 0 .. Cell(AddrSpace) - 1
u32(x) == x % AddrSpace

(* The load area of an image (add_list), its size limit and its places.    *)
topadd(i) == IF i = "RTOS" THEN DRAM_BASE ELSE SYSRAM_BASE
endadd(i) == IF i = "RTOS" THEN DRAM_END ELSE SYSRAM_END
MaxSize(i) == IF i = "RTOS" THEN RTOS_MAX_SIZE ELSE MAIN_LOADER_MAX_SIZE
FlashCert(i) == IF i = "RTOS" THEN FLASH_RTOS_CERT_ADDR
                              ELSE FLASH_CA5X_CERT_ADDR
FlashImage(i) == IF i = "RTOS" THEN FLASH_RTOS_IMAGE_ADDR
                               ELSE FLASH_CA5X_IMAGE_ADDR

(* get_cert_info: the boot key certificate of the old or the new format.   *)
boot_cert_addr(magic) == IF magic = "new" THEN FLASH_SEC_BOOT_CERT_ADDR2
                                          ELSE FLASH_SEC_BOOT_CERT_ADDR
boot_cert_size(magic) == IF magic = "new" THEN FLASH_SEC_BOOT_CERT_SIZE2
                                          ELSE FLASH_SEC_BOOT_CERT_SIZE
SEC_BOOT_CERT_ADDR(a) == SYSRAM_BASE + a + KEY_CERT_SHIFT

MapAssumption ==
  /\ \A c \in {AddrSpace, FLASH_BASE, FLASH_SIZE, FLASH_RTOS_CERT_ADDR,
               FLASH_CA5X_CERT_ADDR, FLASH_RTOS_IMAGE_ADDR,
               FLASH_CA5X_IMAGE_ADDR, DRAM_BASE, DRAM_END, SYSRAM_BASE,
               SYSRAM_END, RTOS_CERT_ADDR, KEY_CERT_SHIFT,
               FLASH_SEC_BOOT_CERT_ADDR, FLASH_SEC_BOOT_CERT_ADDR2} :
       c \in Nat /\ Aligned(c)
  /\ \A c \in {FLASH_CERT_SIZE, FLASH_SEC_BOOT_CERT_SIZE,
               FLASH_SEC_BOOT_CERT_SIZE2, RTOS_MAX_SIZE,
               MAIN_LOADER_MAX_SIZE} : c \in Nat
  /\ FLASH_BASE + FLASH_SIZE <= DRAM_BASE
  /\ DRAM_BASE < DRAM_END /\ DRAM_END <= SYSRAM_BASE
  /\ SYSRAM_BASE < SYSRAM_END /\ SYSRAM_END < AddrSpace
  /\ SYSRAM_BASE <= RTOS_CERT_ADDR
  /\ RTOS_CERT_ADDR + FLASH_CERT_SIZE <= SYSRAM_END
  /\ \A m \in {"old", "new"} :
       /\ FLASH_BASE + boot_cert_addr(m) + boot_cert_size(m)
            <= FLASH_BASE + FLASH_SIZE
       /\ SEC_BOOT_CERT_ADDR(boot_cert_addr(m)) + boot_cert_size(m)
            <= RTOS_CERT_ADDR
  /\ \A i \in Image :
       /\ FLASH_BASE <= FlashCert(i) /\ FLASH_BASE <= FlashImage(i)
       /\ FlashCert(i) + FLASH_CERT_SIZE <= FLASH_BASE + FLASH_SIZE
       /\ FlashImage(i) + MaxSize(i) <= FLASH_BASE + FLASH_SIZE
       /\ MaxSize(i) < AddrSpace

ASSUME MapOK == MapAssumption

-----------------------------------------------------------------------------
(* A content certificate: its format field and, at each of the three       *)
(* offsets the loader knows, an image size in words and an address.        *)
Cert == [info : 0..3, word : [0..2 -> 0 .. AddrSpace - 1],
         dst : [0..2 -> 0 .. AddrSpace - 1]]

(* Which of the three offsets get_info_from_cert reads; 3 means none.      *)
CertOffset(c, magic) == IF magic = "new" THEN c.info ELSE 0

MutCertSizeNoWrap(c, magic) ==
  IF CertOffset(c, magic) = 3 THEN 0 ELSE c.word[CertOffset(c, magic)] * 4
cert_size(c, magic) ==
  IF CertOffset(c, magic) = 3 THEN 0
                              ELSE u32(c.word[CertOffset(c, magic)] * 4)
cert_dest(c, magic) ==
  IF CertOffset(c, magic) = 3 THEN 0
                              ELSE c.dst[CertOffset(c, magic)]

(* Both size checks of tcm_loader_main.                                    *)
SizeOK(len, i) == len # 0 /\ len <= MaxSize(i)

(* check_load_area: every sum is a uint32_t and may wrap.                  *)
MutNoEndCheck(dst, src, len, i) ==
  /\ FLASH_BASE <= src /\ u32(src + len) <= FLASH_BASE + FLASH_SIZE
  /\ topadd(i) <= dst
check_load_area(dst, src, len, i) ==
  /\ FLASH_BASE <= src /\ u32(src + len) <= FLASH_BASE + FLASH_SIZE
  /\ topadd(i) <= dst
  /\ u32(dst + len) <= endadd(i)

(* execDMA: the length actually transferred, in whole 256-byte units.      *)
MutNoRoundUp(len) == len
dmalen(len) ==
  IF len % DMA_SIZE_UNIT # 0
  THEN LET up == len + DMA_SIZE_UNIT IN u32(up - (up % DMA_SIZE_UNIT))
  ELSE len
=============================================================================
