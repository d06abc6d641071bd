SPECIFICATION Spec
INVARIANTS
  NeedleStaysLocked
PROPERTIES
  GearKeepsUp
  OneMidPause
  SweepsFullScale
