CONSTANTS
  locElement <- GaugeTable
  LOC_EL_MAX_UPDATE = 2
  LOC_TURNSIGNAL_FREQ = 1
  CntMod = 10
  Angles <- WideAngles
SPECIFICATION MCSpec
INVARIANTS
  RememberedIsShown
  IconsSettle
  OneNeedle
PROPERTY
  NeedleHomes
