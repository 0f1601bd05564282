SPECIFICATION PairingSpec
CONSTANTS
  pad = pad
  otherPad = otherPad
  none = none
  Addresses <- MCAddresses
  NoAddress = none
PROPERTY
  UncommittedNeverMoves
