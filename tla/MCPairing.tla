------------------------------ MODULE MCPairing ------------------------------
EXTENDS GamepadPairing
CONSTANTS pad, otherPad, none
MCAddresses == {pad, otherPad}
=============================================================================
