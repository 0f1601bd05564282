------------------------------- MODULE MCUsb -------------------------------
EXTENDS UsbKeyboard
CONSTANTS none, jog, otherJog, step, otherStep
MCReports == {none, jog, otherJog, step, otherStep}
MCMotion == {jog, otherJog}
============================================================================
