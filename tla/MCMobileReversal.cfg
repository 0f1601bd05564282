SPECIFICATION MobileSpec
CONSTANTS
  Deadzone = 9000
  StaleTimeout = 2
  LoopTime = 1
  SequenceModulus = 3
  EventModulus = 2
  NoKeys <- ReleaseReport
  KeyboardReports <- MassoReports
  MotionReports <- JogReports
  HostSuspends = FALSE
  ClockWraps = FALSE
  Frames <- MCFrames
PROPERTY
  NeutralBeforeReversal
