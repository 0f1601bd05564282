--------------------------- MODULE ControlMapper ---------------------------
(***************************************************************************)
(* red_monkey_mpg::ControlMapper: the pure step from one controller sample *)
(* to at most one jog or one step-size command.  Both receivers call it    *)
(* once per accepted report.  The class members are a record; Update       *)
(* returns the record after the call and the OutputFrame it returns.       *)
(* uint32 time enters only through now_ms - in.sample_ms, here `age'.      *)
(* A definition right before another with its parameters is a faulty       *)
(* variant of it, kept to show that a property notices the fault; so in    *)
(* the other modules.                                                      *)
(***************************************************************************)
EXTENDS Integers

CONSTANTS
  Deadzone,      \* MapperConfig::deadzone
  StaleTimeout   \* MapperConfig::stale_timeout_ms, in the unit of `age'

ASSUME DeadzoneAssumption == Deadzone \in Nat
ASSUME StaleTimeoutAssumption == StaleTimeout \in Nat

Axis == {"x", "y", "z"}
NoAxis == "none"                       \* std::optional<Axis> without a value
Resolutions == 0..3                    \* mm_0_01, mm_0_10, mm_0_50, mm_1_00
Rates == {"precision", "normal", "rapid"}

MapperState ==
  [locked_axis : Axis \union {NoAxis},
   awaiting_center : BOOLEAN,
   resolution_button_was_pressed : BOOLEAN,
   selection_button_was_pressed : BOOLEAN,
   next_resolution : Resolutions]

InitMapper ==
  [locked_axis |-> NoAxis,
   awaiting_center |-> FALSE,
   resolution_button_was_pressed |-> FALSE,
   selection_button_was_pressed |-> FALSE,
   next_resolution |-> 0]

\* The fields of GamepadState the mapper reads; a stick is any integer.
GamepadState ==
  [left_x : Int, left_y : Int, right_y : Int,
   deadman : BOOLEAN, rapid : BOOLEAN, precision : BOOLEAN,
   cycle_resolution : BOOLEAN,
   select_resolution : BOOLEAN, selected_resolution : Resolutions,
   cancel : BOOLEAN, connected : BOOLEAN]

\* A default-constructed GamepadState: not connected.
Disconnected ==
  [left_x |-> 0, left_y |-> 0, right_y |-> 0,
   deadman |-> FALSE, rapid |-> FALSE, precision |-> FALSE,
   cycle_resolution |-> FALSE,
   select_resolution |-> FALSE, selected_resolution |-> 0,
   cancel |-> FALSE, connected |-> FALSE]

(* OutputFrame: release_all, has_step_resolution or has_jog. *)
Release == [kind |-> "release"]
Step(r) == [kind |-> "step", resolution |-> r]
Jog(a, pos, rate) ==
  [kind |-> "jog", axis |-> a, positive |-> pos, rate |-> rate]

Steps == {Step(r) : r \in Resolutions}
Jogs == [kind : {"jog"}, axis : Axis, positive : BOOLEAN, rate : Rates]
OutputFrame == {Release} \union Steps \union Jogs
----------------------------------------------------------------------------
Magnitude(value) == IF value < 0 THEN -value ELSE value

Displaced(value) == Magnitude(value) > Deadzone

AllCentered(in) ==
  ~Displaced(in.left_x) /\ ~Displaced(in.left_y) /\ ~Displaced(in.right_y)

Usable(in, age) == in.connected /\ age <= StaleTimeout

AxisValue(in, a) ==
  IF a = "x" THEN in.left_x ELSE IF a = "y" THEN in.left_y ELSE in.right_y

\* The axis taken when none is locked: Z first, then the larger of X and Y.
SelectAxis(in) ==
  IF Displaced(in.right_y) THEN "z"
  ELSE IF Magnitude(in.left_x) >= Magnitude(in.left_y) THEN "x" ELSE "y"

Rate(in) ==
  IF in.precision THEN "precision" ELSE IF in.rapid THEN "rapid" ELSE "normal"

Result(m, frame) == [mapper |-> m, out |-> frame]

\* The `was pressed' latches, kept on every path but that of a lost controller.
LatchedCycleOnly(m, in) ==
  [m EXCEPT !.resolution_button_was_pressed = in.cycle_resolution]
Latched(m, in) ==
  [m EXCEPT !.resolution_button_was_pressed = in.cycle_resolution,
            !.selection_button_was_pressed = in.select_resolution]

NextResolution(r) == (r + 1) % 4

\* Dead-man released: at most one step-size command per button press.
Disarmed(m, in) ==
  LET selects == in.select_resolution /\ ~m.selection_button_was_pressed
      cycles == in.cycle_resolution /\ ~m.resolution_button_was_pressed
      idle == [Latched(m, in) EXCEPT !.locked_axis = NoAxis,
                                     !.awaiting_center = FALSE]
  IN  IF AllCentered(in) /\ selects
      THEN Result(idle, Step(in.selected_resolution))
      ELSE IF AllCentered(in) /\ cycles
      THEN Result([idle EXCEPT !.next_resolution = NextResolution(m.next_resolution)],
                  Step(m.next_resolution))
      ELSE Result(idle, Release)

AxisReselected(m, in) == SelectAxis(in)
AxisInUse(m, in) == IF m.locked_axis = NoAxis THEN SelectAxis(in) ELSE m.locked_axis

\* Dead-man held: the lock is taken, kept while its stick is displaced, and
\* given up for `awaiting_center' when the stick comes back.
Armed(m, in) ==
  LET held == Latched(m, in)
      axis == AxisInUse(m, in)
      value == AxisValue(in, axis)
  IN  IF m.awaiting_center
      THEN Result([held EXCEPT !.awaiting_center = ~AllCentered(in)], Release)
      ELSE IF m.locked_axis = NoAxis /\ AllCentered(in)
      THEN Result(held, Release)
      ELSE IF ~Displaced(value)
      THEN Result([held EXCEPT !.locked_axis = NoAxis,
                               !.awaiting_center = TRUE], Release)
      ELSE Result([held EXCEPT !.locked_axis = axis],
                  Jog(axis, IF axis = "x" THEN value > 0 ELSE value < 0,
                      Rate(in)))

CancelledAtOnce(m, in) ==
  Result([Latched(m, in) EXCEPT !.locked_axis = NoAxis], Release)
Cancelled(m, in) ==
  Result([Latched(m, in) EXCEPT !.locked_axis = NoAxis, !.awaiting_center = TRUE],
         Release)

Update(m, in, age) ==
  IF ~Usable(in, age)
  THEN Result([m EXCEPT !.locked_axis = NoAxis, !.awaiting_center = FALSE,
                 !.resolution_button_was_pressed = FALSE,
                 !.selection_button_was_pressed = FALSE], Release)
  ELSE IF in.cancel
  THEN Cancelled(m, in)
  ELSE IF in.deadman THEN Armed(m, in) ELSE Disarmed(m, in)

\* reset_mapper() of both receivers: an update with a disconnected sample.
ResetMapper(m) == Update(m, Disconnected, 0).mapper
============================================================================
