---------------------------- MODULE MapperProofs ----------------------------
(***************************************************************************)
(* For every deadzone, timeout, set of samples and integer stick value:    *)
(* the mapper's types, and the three action properties of MapperMachine    *)
(* from the invariant HistoryInMapper.                                     *)
(***************************************************************************)
EXTENDS MapperMachine, KeyboardProofs

(* A cancel always leaves awaiting_center set (control_mapper.cpp:37-41).  *)
LEMMA CancelAwaits ==
  ASSUME NEW m \in MapperState, NEW in \in GamepadState, NEW age \in Int,
         Usable(in, age), in.cancel
  PROVE  Update(m, in, age).mapper.awaiting_center
  BY DEF Update, Cancelled, Latched, Result, MapperState

(* The invariant and the types hold of a new mapper ...                    *)
LEMMA InitIInv == MachineInit => MachineTypeOK /\ HistoryInMapper
<1>1. InitMapper \in MapperState
  BY DEF InitMapper, MapperState, Resolutions
<1>2. MachineInit => MachineTypeOK
  BY <1>1 DEF MachineInit, MachineTypeOK, OutputFrame
<1>3. MachineInit => HistoryInMapper
  BY DEF MachineInit, HistoryInMapper, Buttons
<1>4. QED
  BY <1>2, <1>3

(* ... are kept by one update ...                                          *)
LEMMA SampleIInv ==
  ASSUME MachineTypeOK, HistoryInMapper, NEW in \in Inputs, NEW age \in 0..MaxAge,
         Sample(in, age)
  PROVE  MachineTypeOK' /\ HistoryInMapper'
<1>1. in \in GamepadState /\ age \in Int /\ mapper \in MapperState
  BY InputsAssumption DEF MachineTypeOK
<1>2. mapper' \in MapperState /\ out' \in OutputFrame
  BY <1>1, UpdateType DEF Sample
<1>3. driven' \in Axis \union {NoAxis}
  BY <1>1, JogFacts DEF Sample, MachineTypeOK
<1>4. MachineTypeOK'
  BY <1>1, <1>2, <1>3 DEF MachineTypeOK, Sample, Usable, GamepadState
<1>5. (driven # NoAxis /\ ~released
         => mapper.awaiting_center \/ mapper.locked_axis = driven)'
  <2>1. CASE ~Usable(in, age) \/ AllCentered(in)
    BY <2>1 DEF Sample
  <2>2. CASE out'.kind = "jog"
    BY <1>1, <2>2, JogFacts DEF Sample
  <2>3. CASE Usable(in, age) /\ ~AllCentered(in) /\ out'.kind # "jog"
    <3>1. CASE in.cancel
      BY <1>1, <2>3, <3>1, CancelAwaits DEF Sample
    <3>2. CASE ~in.cancel /\ in.deadman
      BY <1>1, <2>3, <3>2, LockFacts DEF Sample, HistoryInMapper
    <3>3. CASE ~in.cancel /\ ~in.deadman
      BY <2>3, <3>3 DEF Sample
    <3>4. QED
      BY <3>1, <3>2, <3>3
  <2>4. QED
    BY <2>1, <2>2, <2>3
<1>6. (cancelled /\ ~released => mapper.awaiting_center)'
  <2>1. CASE Usable(in, age) /\ in.cancel
    BY <1>1, <2>1, CancelAwaits DEF Sample
  <2>2. CASE Usable(in, age) /\ ~in.cancel /\ in.deadman /\ ~AllCentered(in)
    BY <1>1, <2>2, LockFacts DEF Sample, HistoryInMapper
  <2>3. CASE ~Usable(in, age)
    BY <2>3 DEF Sample
  <2>4. CASE ~in.cancel /\ AllCentered(in)
    BY <2>4 DEF Sample
  <2>5. CASE ~in.cancel /\ ~in.deadman
    BY <2>5 DEF Sample
  <2>6. QED
    BY <2>1, <2>2, <2>3, <2>4, <2>5
<1>7. (press["cycle"] # "up" => mapper.resolution_button_was_pressed)'
  BY <1>1, LatchFacts DEF Sample, Buttons, Held
<1>8. (press["select"] # "up" => mapper.selection_button_was_pressed)'
  BY <1>1, LatchFacts DEF Sample, Buttons, Held
<1>9. QED
  BY <1>4, <1>5, <1>6, <1>7, <1>8 DEF HistoryInMapper

(* ... and so by every step and every stutter.                             *)
LEMMA NextIInv == MachineTypeOK /\ HistoryInMapper /\ [MachineNext]_machineVars
                    => MachineTypeOK' /\ HistoryInMapper'
<1>1. ASSUME MachineTypeOK, HistoryInMapper, MachineNext
      PROVE  MachineTypeOK' /\ HistoryInMapper'
  BY <1>1, SampleIInv DEF MachineNext
<1>2. ASSUME MachineTypeOK, HistoryInMapper, UNCHANGED machineVars
      PROVE  MachineTypeOK' /\ HistoryInMapper'
  BY <1>2 DEF MachineTypeOK, HistoryInMapper, machineVars
<1>3. QED
  BY <1>1, <1>2

(* The mapper's members and the frame it returns keep their types, for     *)
(* samples with any integer sticks.                                        *)
THEOREM MapperTypeCorrect == MachineSpec => []MachineTypeOK
<1>1. QED
  BY InitIInv, NextIInv, PTL DEF MachineSpec

(* What the histories remember is always in the mapper's latches.          *)
THEOREM MapperInvariant == MachineSpec => []HistoryInMapper
<1>1. QED
  BY InitIInv, NextIInv, PTL DEF MachineSpec

(* While the dead-man stays held, a jog never moves to another axis unless *)
(* all sticks were centred or the controller was lost in between           *)
(* (control_mapper.cpp:85-103).                                            *)
THEOREM MapperAxisKept == MachineSpec => AxisKeptWhileHeld
<1>1. ASSUME MachineTypeOK, HistoryInMapper, NEW in \in Inputs, NEW age \in 0..MaxAge,
             Sample(in, age), out'.kind = "jog", ~released
      PROVE  driven \in {NoAxis, out'.axis}
  <2>1. in \in GamepadState /\ age \in Int /\ mapper \in MapperState
    BY <1>1, InputsAssumption DEF MachineTypeOK
  <2>2. ~mapper.awaiting_center /\ (mapper.locked_axis # NoAxis
                                      => out'.axis = mapper.locked_axis)
    BY <1>1, <2>1, JogFacts DEF Sample
  <2>3. QED
    BY <1>1, <2>2 DEF HistoryInMapper
<1>2. MachineTypeOK /\ HistoryInMapper /\ [MachineNext]_machineVars
        => [out'.kind = "jog" /\ ~released
              => driven \in {NoAxis, out'.axis}]_machineVars
  BY <1>1 DEF MachineNext
<1>3. QED
  BY <1>2, InitIInv, NextIInv, PTL DEF MachineSpec, AxisKeptWhileHeld

(* After a cancel no jog is emitted until the sticks were centred or the   *)
(* dead-man was released (control_mapper.cpp:37-47, 74-77).                *)
THEOREM MapperCancelHolds == MachineSpec => CancelHolds
<1>1. ASSUME MachineTypeOK, HistoryInMapper, NEW in \in Inputs, NEW age \in 0..MaxAge,
             Sample(in, age), out'.kind = "jog"
      PROVE  ~cancelled \/ released
  <2>1. in \in GamepadState /\ age \in Int /\ mapper \in MapperState
    BY <1>1, InputsAssumption DEF MachineTypeOK
  <2>2. ~mapper.awaiting_center
    BY <1>1, <2>1, JogFacts DEF Sample
  <2>3. QED
    BY <1>1, <2>2 DEF HistoryInMapper
<1>2. MachineTypeOK /\ HistoryInMapper /\ [MachineNext]_machineVars
        => [out'.kind = "jog" => ~cancelled \/ released]_machineVars
  BY <1>1 DEF MachineNext
<1>3. QED
  BY <1>2, InitIInv, NextIInv, PTL DEF MachineSpec, CancelHolds

(* A press that has been answered is never answered again.                 *)
THEOREM MapperOneStepPerPress == MachineSpec => HeldButtonNeverRepeats
<1>1. ASSUME MachineTypeOK, HistoryInMapper, NEW in \in Inputs, NEW age \in 0..MaxAge,
             Sample(in, age), out'.kind = "step"
      PROVE  \E b \in Buttons : press[b] # "answered" /\ press'[b] = "answered"
  <2>1. in \in GamepadState /\ age \in Int /\ mapper \in MapperState
    BY <1>1, InputsAssumption DEF MachineTypeOK
  <2>2. /\ Usable(in, age)
        /\ \/ in.select_resolution /\ ~mapper.selection_button_was_pressed
           \/ in.cycle_resolution /\ ~mapper.resolution_button_was_pressed
    BY <1>1, <2>1, StepFacts DEF Sample
  <2>3. PICK b \in Buttons : press[b] = "up" /\ Held(in, b)
    BY <1>1, <2>2 DEF HistoryInMapper, Buttons, Held
  <2>4. press'[b] = "answered"
    BY <1>1, <2>2, <2>3 DEF Sample
  <2>5. QED
    BY <2>3, <2>4
<1>2. MachineTypeOK /\ HistoryInMapper /\ [MachineNext]_machineVars
        => [out'.kind = "step" => \E b \in Buttons :
              press[b] # "answered" /\ press'[b] = "answered"]_machineVars
  BY <1>1 DEF MachineNext
<1>3. QED
  BY <1>2, InitIInv, NextIInv, PTL DEF MachineSpec, HeldButtonNeverRepeats
=============================================================================
