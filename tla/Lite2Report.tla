---------------------------- MODULE Lite2Report ----------------------------
(***************************************************************************)
(* The D-mode input report of the 8BitDo Lite 2.  `framed' stands for the  *)
(* length and the two header bytes; stick bytes keep their values.         *)
(***************************************************************************)
EXTENDS Integers

StickBytes == 0..255

\* Lite2ReportParser::normalize: a byte around its centre, to 16 bits.
Normalize(raw, center) ==
  LET scaled == (raw - center) * 256
  IN  IF scaled > 32767 THEN 32767
      ELSE IF scaled < -32768 THEN -32768 ELSE scaled

\* Lite2ReportParser::parse, of a framed report.
ParseReport(report) ==
  [left_x |-> Normalize(report.left_x, 127),
   left_y |-> Normalize(report.left_y, 127),
   right_y |-> Normalize(report.right_y, 128),
   buttons |-> report.buttons]
============================================================================
