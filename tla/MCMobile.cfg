SPECIFICATION MobileFairSpec
CONSTANTS
  Deadzone = 9000
  StaleTimeout = 2
  LoopTime = 1
  SequenceModulus = 3
  EventModulus = 2
  NoKeys <- ReleaseReport
  KeyboardReports <- MassoReports
  MotionReports <- JogReports
  HostSuspends = FALSE
  ClockWraps = FALSE
  Frames <- MCFrames
INVARIANTS
  MotionNeedsNeutral
  SilenceReleases
  ReportedDirectionIsJogged
PROPERTIES
  NeutralBeforeSwitch
  MobileImplementsUsb
  SilentPhoneReleasesHost
