SPECIFICATION Spec
CONSTANTS
  System = system
  Commands = commands
  None = none
  MaxCommands = 1
  MaxEvents = 0
INVARIANT
  EcoModeScans
