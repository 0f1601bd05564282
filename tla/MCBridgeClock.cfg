SPECIFICATION BridgeSpec
CONSTANTS
  Deadzone = 9000
  CenterLimit = 9000
  StaleTimeout = 2
  LoopTime = 1
  NoKeys <- ReleaseReport
  KeyboardReports <- MassoReports
  MotionReports <- JogReports
  HostSuspends = FALSE
  ClockWraps = TRUE
  PadReports <- MCMotionReports
  Mappings <- MCOneMapping
INVARIANT SilenceReleases
