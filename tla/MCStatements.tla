---------------------------- MODULE MCStatements ----------------------------
EXTENDS BridgeStatements

\* The dead-man, and one stick both ways.
MCReports ==
  {[framed |-> TRUE, buttons |-> buttons, left_x |-> x, left_y |-> 127,
    right_y |-> 128] : buttons \in {{}, {"l2"}}, x \in {0, 127, 255}}

MCMappings == {DefaultMapping}
=============================================================================
