--------------------------- MODULE MapperMachine ---------------------------
(***************************************************************************)
(* The mapper fed with an arbitrary sequence of samples, one update() per  *)
(* step, and the history the properties are about.                         *)
(***************************************************************************)
EXTENDS ControlMapper

CONSTANT Inputs      \* the samples a caller may pass
ASSUME InputsAssumption == Inputs \subseteq GamepadState

CONSTANT MaxAge      \* ages are 0..MaxAge
ASSUME MaxAgeAssumption == MaxAge \in Nat

VARIABLES
  mapper,     \* the ControlMapper object
  out,        \* the frame the last update() returned
  (* history *)
  driven,     \* axis jogged since all sticks were last centred
  cancelled,  \* a cancel was seen, and no centred sample or jog since
  released,   \* the dead-man was released since the last jog or cancel
  press,      \* per button: up, held, or held and already answered
  parity      \* flips at every update(), so that no update is a stutter

machineVars == <<mapper, out, driven, cancelled, released, press, parity>>

Buttons == {"cycle", "select"}

Held(in, b) == IF b = "cycle" THEN in.cycle_resolution ELSE in.select_resolution

MachineInit ==
  /\ mapper = InitMapper
  /\ out = Release
  /\ driven = NoAxis /\ cancelled = FALSE /\ released = FALSE
  /\ press = [b \in Buttons |-> "up"]
  /\ parity = FALSE

Sample(in, age) ==
  /\ mapper' = Update(mapper, in, age).mapper
  /\ out' = Update(mapper, in, age).out
  /\ driven' = IF ~Usable(in, age) \/ AllCentered(in) THEN NoAxis
               ELSE IF out'.kind = "jog" THEN out'.axis ELSE driven
  /\ cancelled' = (/\ Usable(in, age)
                   /\ \/ in.cancel
                      \/ cancelled /\ ~AllCentered(in) /\ out'.kind # "jog")
  /\ released' = (/\ out'.kind # "jog" /\ ~in.cancel
                  /\ released \/ ~in.deadman)
  /\ press' = [b \in Buttons |->
                 IF ~Usable(in, age) \/ ~Held(in, b) THEN "up"
                 ELSE IF out'.kind = "step" \/ press[b] = "answered" THEN "answered"
                 ELSE "held"]
  /\ parity' = ~parity

MachineNext == \E in \in Inputs, age \in 0..MaxAge : Sample(in, age)

MachineSpec == MachineInit /\ [][MachineNext]_machineVars
----------------------------------------------------------------------------
MachineTypeOK ==
  /\ mapper \in MapperState
  /\ out \in OutputFrame
  /\ driven \in Axis \union {NoAxis}
  /\ cancelled \in BOOLEAN /\ released \in BOOLEAN
  /\ press \in [Buttons -> {"up", "held", "answered"}]
  /\ parity \in BOOLEAN

(* While the dead-man stays held, crossing a diagonal, jitter around the   *)
(* deadzone or a stick still out when the locked one comes back never move *)
(* the jog to another axis: only all sticks centred, or the controller     *)
(* lost, frees it (control_mapper.cpp:85-103).  That a release of the      *)
(* dead-man frees it too (45-47) is left out here, and is what             *)
(* RecentreBeforeMotion finds.                                             *)
AxisKeptWhileHeld ==
  [][out'.kind = "jog" /\ ~released
       => driven \in {NoAxis, out'.axis}]_machineVars

(* After a cancel nothing moves until the sticks were centred once or the  *)
(* dead-man was released after it, in whatever order the dead-man, the     *)
(* sticks and further cancels come (control_mapper.cpp:37-47, 74-77).      *)
CancelHolds ==
  [][out'.kind = "jog" => ~cancelled \/ released]_machineVars

(* What the documents say of both: a locked axis stays locked, and a       *)
(* cancel holds, until all sticks return to the deadzone, whatever the     *)
(* dead-man does meanwhile (CONTROL_MAPPING.md:18, 42-45, README.md:149).  *)
(* The code drops the lock and awaiting_center with the dead-man           *)
(* (control_mapper.cpp:45-47).                                             *)
RecentreBeforeMotion ==
  [][out'.kind = "jog"
       => driven \in {NoAxis, out'.axis} /\ ~cancelled]_machineVars

(* A press of a button yields at most one step-size command, whatever the  *)
(* sticks, the dead-man and the other button do while it is held; a press  *)
(* already answered never answers again (control_mapper.cpp:29-35, 48-70). *)
HeldButtonNeverRepeats ==
  [][out'.kind = "step" =>
       \E b \in Buttons : press[b] # "answered" /\ press'[b] = "answered"]_machineVars

(* The strengthening that makes them inductive: what the histories         *)
(* remember is still in the mapper's own latches, unless the dead-man was  *)
(* released.                                                               *)
HistoryInMapper ==
  /\ driven # NoAxis /\ ~released
       => mapper.awaiting_center \/ mapper.locked_axis = driven
  /\ cancelled /\ ~released => mapper.awaiting_center
  /\ press["cycle"] # "up" => mapper.resolution_button_was_pressed
  /\ press["select"] # "up" => mapper.selection_button_was_pressed
============================================================================
