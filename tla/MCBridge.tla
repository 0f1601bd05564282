------------------------------ MODULE MCBridge ------------------------------
EXTENDS GamepadBridge

\* Centred or X out; with a dead-man, a step, or the other mapping's
\* dead-man; and one bad frame.
PadReport(framed, buttons, x) ==
  [framed |-> framed, buttons |-> buttons, left_x |-> x, left_y |-> 127,
   right_y |-> 128]

MCReports ==
  {PadReport(TRUE, buttons, x) :
     buttons \in {{}, {"l2"}, {"a"}, {"l1"}}, x \in {127, 255}}
  \union {PadReport(FALSE, {}, 127)}

\* Another dead-man, and A selecting a fixed step instead of cycling.
OtherMapping ==
  [DefaultMapping EXCEPT !.deadman = {"l1"}, !.face[1] = "step_1_00"]

MCMappings == {DefaultMapping, OtherMapping}
MCOneMapping == {DefaultMapping}

\* For liveness: the dead-man and one stick.
MCMotionReports ==
  {PadReport(TRUE, buttons, x) : buttons \in {{}, {"l2"}}, x \in {127, 255}}
=============================================================================
