CONSTANTS
  Bpp = 2
  Byte = {1, 130}
  PacketLengths = {1, 2}
  RepeatLengths = {2, 3}
  MaxPackets = 2
  After <- NextFile
SPECIFICATION Spec
CHECK_DEADLOCK FALSE
INVARIANTS
  DecodesImage
