SPECIFICATION Spec
CONSTANTS
  System = system
  Commands = commands
  None = none
  MaxCommands = 2
  MaxEvents = 1
INVARIANTS
  EcoAgrees
  NeverStuck
  OverrideOnTop
  ScanningGoesOn
  AdvertisedIsCurrent
  StoredInForce
