SPECIFICATION UsbSpec
CONSTANTS
  none = none
  jog = jog
  otherJog = otherJog
  step = step
  otherStep = otherStep
  NoKeys = none
  KeyboardReports <- MCReports
  MotionReports <- MCMotion
INVARIANT
  BelievedReleased
