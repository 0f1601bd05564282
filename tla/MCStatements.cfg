SPECIFICATION StatementFairSpec
CONSTANTS
  Deadzone = 9000
  CenterLimit = 9000
  StaleTimeout = 2
  LoopTime = 1
  NoKeys <- ReleaseReport
  KeyboardReports <- MassoReports
  MotionReports <- JogReports
  HostSuspends = FALSE
  ClockWraps = FALSE
  PadReports <- MCReports
  Mappings <- MCMappings
INVARIANTS
  CopiedKeyIsArmed
  KeyRunsOut
  HostIsTracked
PROPERTIES
  UsbImplementsHostKeys
  ReleaseReachesHost
  SilentPadReleasesHost
  SetupReleasesHost
