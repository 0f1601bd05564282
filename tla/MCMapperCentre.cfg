SPECIFICATION MachineSpec
CONSTANTS
  Deadzone = 1
  StaleTimeout = 1
  MaxAge = 2
  Inputs <- MCInputs
PROPERTIES
  RecentreBeforeMotion
