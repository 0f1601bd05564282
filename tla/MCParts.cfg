SPECIFICATION PartsSpec
CONSTANTS
  Deadzone = 1
  StaleTimeout = 1
  MaxAge = 2
  Inputs <- MCInputs
  SequenceModulus = 8
  EventModulus = 2
  MaxFrames = 11
  MaxEvents = 4
  MaxLag = 4
  MaxLost = 3
  default = default
  other = other
  pad = pad
  otherPad = otherPad
  none = none
  Mappings <- MCMappings
  DefaultMapping = default
  Controllers <- MCAddresses
  NoController = none
  RecordModulus = 5
  Addresses <- MCAddresses
  NoAddress = none
INVARIANTS
  HistoryInMapper
  FreshFrameAccepted
  InUseIsNewest
  MotionOnlyFromCommitted
  BondsAreCommitted
  CandidateIsSought
PROPERTIES
  AxisKeptWhileHeld
  CancelHolds
  HeldButtonNeverRepeats
  NeverBackwards
  EventsActOnceInOrder
  AcceptedEventActs
  RestartBringsBack
  CommitNeedsFreshBond
CHECK_DEADLOCK FALSE
