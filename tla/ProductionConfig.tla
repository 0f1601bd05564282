-------------------------- MODULE ProductionConfig --------------------------
(***************************************************************************)
(* The user's button mapping: which mappings the receiver takes, and the   *)
(* sample a mapping makes of a parsed controller report.  A button mask is *)
(* the set of its buttons.                                                 *)
(***************************************************************************)
EXTENDS ControlMapper, FiniteSets

MotionControls == {"l1", "r1", "l2", "r2"}
FaceButtons == <<"a", "b", "x", "y">>          \* in the order of kFaceMasks
PadButtons == MotionControls \union {"a", "b", "x", "y"}

StepActions == {"step_0_01", "step_0_10", "step_0_50", "step_1_00"}
ButtonAction == {"unassigned", "cancel", "cycle_resolution"} \union StepActions

StepOf(action) ==
  CASE action = "step_0_01" -> 0 [] action = "step_0_10" -> 1
    [] action = "step_0_50" -> 2 [] action = "step_1_00" -> 3

ProductionMapping ==
  [supported : BOOLEAN,                        \* cnc_profile is compiled in
   deadman : SUBSET PadButtons, continuous : SUBSET PadButtons,
   precision : SUBSET PadButtons, resolution : SUBSET PadButtons,
   face : [1..4 -> ButtonAction]]

DefaultMapping ==
  [supported |-> TRUE,
   deadman |-> {"l2"}, continuous |-> {"r2"}, precision |-> {"r1"},
   resolution |-> {},
   face |-> <<"cycle_resolution", "cancel", "unassigned", "unassigned">>]

IsMotionControl(mask) == \E b \in MotionControls : mask = {b}

\* validate_production_mapping; the one compiled profile supports steps.
ValidMapping(mapping) ==
  /\ mapping.supported
  /\ IsMotionControl(mapping.deadman) /\ IsMotionControl(mapping.continuous)
  /\ IsMotionControl(mapping.precision)
  /\ mapping.resolution = {}
  /\ Cardinality({mapping.deadman, mapping.continuous, mapping.precision}) = 3
  /\ \A i \in 1..4 : mapping.face[i] \in ButtonAction

\* The actions of the face buttons a report has down; the last one that
\* selects a step size wins.
PressedActions(buttons, mapping) ==
  {i \in 1..4 : FaceButtons[i] \in buttons /\ mapping.face[i] # "unassigned"}

SelectingFaces(buttons, mapping) ==
  {i \in PressedActions(buttons, mapping) : mapping.face[i] \in StepActions}

\* apply_production_mapping; `raw' has the sticks, the connection and the
\* set of buttons.  An invalid mapping cancels and moves nothing.
ApplyMapping(raw, mapping) ==
  LET valid == ValidMapping(mapping)
      faces == PressedActions(raw.buttons, mapping)
      selecting == SelectingFaces(raw.buttons, mapping)
      Has(action) == \E i \in faces : mapping.face[i] = action
      Down(mask) == valid /\ raw.buttons \intersect mask # {}
  IN  [left_x |-> raw.left_x, left_y |-> raw.left_y, right_y |-> raw.right_y,
       connected |-> TRUE,
       deadman |-> Down(mapping.deadman),
       rapid |-> Down(mapping.continuous),
       precision |-> Down(mapping.precision),
       cycle_resolution |-> Down(mapping.resolution)
                              \/ (valid /\ Has("cycle_resolution")),
       cancel |-> ~valid \/ Has("cancel"),
       select_resolution |-> valid /\ selecting # {},
       selected_resolution |->
         IF valid /\ selecting # {}
         THEN StepOf(mapping.face[CHOOSE i \in selecting :
                                    \A j \in selecting : j <= i])
         ELSE 0]
=============================================================================
