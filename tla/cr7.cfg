CONSTANTS
  AddrSpace = 8192
  FLASH_BASE = 512
  FLASH_SIZE = 3072
  FLASH_SEC_BOOT_CERT_ADDR = 0
  FLASH_SEC_BOOT_CERT_SIZE = 192
  FLASH_SEC_BOOT_CERT_ADDR2 = 256
  FLASH_SEC_BOOT_CERT_SIZE2 = 256
  FLASH_RTOS_CERT_ADDR = 1024
  FLASH_CA5X_CERT_ADDR = 1280
  FLASH_CERT_SIZE = 160
  FLASH_CA5X_IMAGE_ADDR = 1536
  FLASH_RTOS_IMAGE_ADDR = 2048
  RTOS_MAX_SIZE = 768
  MAIN_LOADER_MAX_SIZE = 512
  DRAM_BASE = 3584
  DRAM_END = 5120
  SYSRAM_BASE = 5632
  SYSRAM_END = 7680
  KEY_CERT_SHIFT = 256
  RTOS_CERT_ADDR = 6400
  RCAR_SECURE_BOOT = TRUE
  RCAR_KICK_MAIN_CPU = TRUE
  RCAR_LIFEC_SETTING = TRUE
  CertChoices <- BootCerts
SPECIFICATION KickSpec
CHECK_DEADLOCK FALSE
INVARIANTS
  TypeOK
  StartedIntact
  MemoryConfined
  HandoffQuiet
  NoSwdtReset
PROPERTIES
  DeadIsFinal
  ImplementsPolicy
  BootEnds
  PanicQuiesces
