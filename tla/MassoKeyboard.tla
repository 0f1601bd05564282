--------------------------- MODULE MassoKeyboard ---------------------------
(***************************************************************************)
(* The translation of an OutputFrame to a boot keyboard report by the only *)
(* compiled CNC profile, masso-g3-touch-5.13.  A report is its modifier    *)
(* byte and its one used key slot.                                         *)
(***************************************************************************)
EXTENDS ControlMapper

StepKeys == {"1", "2", "3", "4"}
JogKeys == {"right", "left", "up", "down", "u", "d"}

ReleaseReport == [shift |-> FALSE, key |-> "none"]      \* KeyboardReport{}
StepReports == [shift : {FALSE}, key : StepKeys]
JogReports == [shift : BOOLEAN, key : JogKeys]
MassoReports == {ReleaseReport} \union StepReports \union JogReports

StepKey == [r \in Resolutions |->
              CASE r = 0 -> "4" [] r = 1 -> "3" [] r = 2 -> "2" [] r = 3 -> "1"]

JogKey(axis, positive) ==
  CASE axis = "x" -> IF positive THEN "right" ELSE "left"
    [] axis = "y" -> IF positive THEN "up" ELSE "down"
    [] axis = "z" -> IF positive THEN "u" ELSE "d"

\* masso_g3_keyboard_report
KeyboardReport(frame) ==
  IF frame.kind = "release" THEN ReleaseReport
  ELSE IF frame.kind = "step" THEN [shift |-> FALSE, key |-> StepKey[frame.resolution]]
  ELSE [shift |-> frame.rate = "rapid", key |-> JogKey(frame.axis, frame.positive)]
============================================================================
