SPECIFICATION BridgeSpec
CONSTANTS
  Deadzone = 9000
  CenterLimit = 9000
  StaleTimeout = 1
  LoopTime = 1
  NoKeys <- ReleaseReport
  KeyboardReports <- MassoReports
  MotionReports <- JogReports
  HostSuspends = TRUE
  ClockWraps = FALSE
  PadReports <- MCReports
  Mappings <- MCMappings
INVARIANTS
  MotionNeedsNeutral
  SilenceReleases
PROPERTIES
  StepNeedsNewPress
  QueuedKeyIsArmed
  BridgeImplementsUsb
