SPECIFICATION Spec
CONSTANTS
  MaxPanels = 2
  MaxClicks = 4
  MaxClaims = 3
  MaxFaults = 1
INVARIANTS
  ConfiguredIsStored
  PortHeld
PROPERTIES
  KeepsACredential
  ActivityEnds
CHECK_DEADLOCK FALSE
