CONSTANTS
  Lamps <- TwoLamps
  First <- FirstOf
  Mid <- MidOf
  End <- EndOf
  Turn <- TurnTicks
  Light <- LightTicks
SPECIFICATION Spec
INVARIANTS
  IconsAgree
PROPERTIES
  SignalsInOrder
