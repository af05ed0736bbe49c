SPECIFICATION Spec
CONSTANTS
  DefaultParams <- AllOff
  EcoIndicator = TRUE
  MaxCommands = 1
  MaxEvents = 1
INVARIANTS
  LedsSettle
  PressIsTimed
