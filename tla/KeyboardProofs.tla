--------------------------- MODULE KeyboardProofs ---------------------------
(***************************************************************************)
(* What one call of ControlMapper::update returns and leaves, for every    *)
(* deadzone, timeout and integer stick value, and the keyboard report made *)
(* of it: the facts the proofs of the mapper and of the receivers rest on. *)
(* Then, for every set of reports, the keyboard that sends them: its types *)
(* and what outages leave of a key; and, on a bus that is never suspended  *)
(* (SteadySpec), that sent_report tracks the host and that the host sees   *)
(* only what HostKeys allows.                                              *)
(***************************************************************************)
EXTENDS MassoKeyboard, UsbKeyboard, TLAPS

(* A jog emitted by an update belongs to a usable sample that neither      *)
(* cancels nor releases the dead-man, with some stick displaced; it is on  *)
(* the axis that was locked, if one was, and leaves it locked              *)
(* (control_mapper.cpp:37-113).                                            *)
LEMMA JogFacts ==
  ASSUME NEW m \in MapperState, NEW in \in GamepadState, NEW age \in Int,
         Update(m, in, age).out.kind = "jog"
  PROVE  /\ Usable(in, age) /\ ~in.cancel /\ in.deadman /\ ~m.awaiting_center
         /\ Update(m, in, age).out.axis \in Axis
         /\ Update(m, in, age).mapper.locked_axis = Update(m, in, age).out.axis
         /\ m.locked_axis # NoAxis => Update(m, in, age).out.axis = m.locked_axis
  BY DEF Update, Armed, Disarmed, Cancelled, Latched, AxisInUse, Result, Release,
         Step, Jog, SelectAxis,
         MapperState, Axis, NoAxis

(* The stick of the jogged axis is displaced, and its sign is the jog's    *)
(* direction: Y and Z are positive downward (control_mapper.cpp:99-113).   *)
LEMMA JogValue ==
  ASSUME NEW m \in MapperState, NEW in \in GamepadState, NEW age \in Int,
         Update(m, in, age).out.kind = "jog"
  PROVE  LET jog == Update(m, in, age).out
             value == AxisValue(in, jog.axis)
         IN  /\ Displaced(value)
             /\ jog.positive = (IF jog.axis = "x" THEN value > 0 ELSE value < 0)
  BY DEF Update, Armed, Disarmed, Cancelled, Result, Release, Step, Jog

(* While the dead-man stays held with some stick displaced and no cancel,  *)
(* a locked axis stays locked or gives way to awaiting_center, and         *)
(* awaiting_center stays set (control_mapper.cpp:74-103).                  *)
LEMMA LockFacts ==
  ASSUME NEW m \in MapperState, NEW in \in GamepadState, NEW age \in Int,
         Usable(in, age), in.deadman \/ in.cancel, ~AllCentered(in)
  PROVE  LET n == Update(m, in, age).mapper
         IN  /\ m.awaiting_center \/ in.cancel => n.awaiting_center
             /\ m.locked_axis # NoAxis =>
                  n.awaiting_center \/ n.locked_axis = m.locked_axis
  BY DEF Update, Armed, Cancelled, Latched, AxisInUse, Result, MapperState

(* A step-size command answers a button that was up in the mapper's latch  *)
(* and is pressed in this sample (control_mapper.cpp:29-35, 48-70).        *)
LEMMA StepFacts ==
  ASSUME NEW m \in MapperState, NEW in \in GamepadState, NEW age \in Int,
         Update(m, in, age).out.kind = "step"
  PROVE  /\ Usable(in, age)
         /\ \/ in.select_resolution /\ ~m.selection_button_was_pressed
            \/ in.cycle_resolution /\ ~m.resolution_button_was_pressed
  BY DEF Update, Armed, Disarmed, Cancelled, Result, Release, Step, Jog

(* The button latches after an update: cleared with the controller lost,   *)
(* otherwise what the sample says.                                         *)
LEMMA LatchFacts ==
  ASSUME NEW m \in MapperState, NEW in \in GamepadState, NEW age \in Int
  PROVE  LET n == Update(m, in, age).mapper
         IN  /\ n.resolution_button_was_pressed
                  = (Usable(in, age) /\ in.cycle_resolution)
             /\ n.selection_button_was_pressed
                  = (Usable(in, age) /\ in.select_resolution)
  BY DEF Update, Armed, Disarmed, Cancelled, Latched, Result, MapperState,
         GamepadState, Usable

(* An update keeps the members in their types and returns one of the       *)
(* commands (control_mapper.cpp:9-114).                                    *)
LEMMA UpdateType ==
  ASSUME NEW m \in MapperState, NEW in \in GamepadState, NEW age \in Int
  PROVE  /\ Update(m, in, age).mapper \in MapperState
         /\ Update(m, in, age).out \in OutputFrame
<1>1. SelectAxis(in) \in Axis /\ Rate(in) \in Rates
  BY DEF SelectAxis, Rate, Axis, Rates
<1>2. Disarmed(m, in).mapper \in MapperState /\ Disarmed(m, in).out \in OutputFrame
  <2> DEFINE idle == [Latched(m, in) EXCEPT !.locked_axis = NoAxis,
                                            !.awaiting_center = FALSE]
             next == [idle EXCEPT !.next_resolution = NextResolution(m.next_resolution)]
  <2>1. idle \in MapperState
    BY DEF MapperState, GamepadState, Latched
  <2>2. next \in MapperState
    <3>1. NextResolution(m.next_resolution) \in Resolutions
      BY DEF MapperState, Resolutions, NextResolution
    <3>2. QED
      BY <2>1, <3>1 DEF MapperState
  <2>3. /\ Release \in OutputFrame
        /\ Step(in.selected_resolution) \in OutputFrame
        /\ Step(m.next_resolution) \in OutputFrame
    BY DEF OutputFrame, Steps, MapperState, GamepadState
  <2>4. \/ Disarmed(m, in) = Result(idle, Step(in.selected_resolution))
        \/ Disarmed(m, in) = Result(next, Step(m.next_resolution))
        \/ Disarmed(m, in) = Result(idle, Release)
    BY DEF Disarmed
  <2>5. QED
    BY <2>1, <2>2, <2>3, <2>4 DEF Result
<1>3. Armed(m, in).mapper \in MapperState
  BY <1>1 DEF Armed, Latched, AxisInUse, Result, MapperState, GamepadState,
              AllCentered, Displaced
<1>4. Armed(m, in).out \in OutputFrame
  <2> DEFINE axis == AxisInUse(m, in)
             value == AxisValue(in, axis)
             positive == IF axis = "x" THEN value > 0 ELSE value < 0
  <2>1. axis \in Axis
    BY <1>1 DEF MapperState, AxisInUse
  <2>2. positive \in BOOLEAN
    <3>1. value \in Int
      BY DEF AxisValue, GamepadState
    <3>2. (value > 0) \in BOOLEAN /\ (value < 0) \in BOOLEAN
      BY <3>1
    <3>3. QED
      BY <3>2
  <2>3. Jog(axis, positive, Rate(in)) \in OutputFrame
    <3> HIDE DEF axis, positive
    <3> QED
      BY <1>1, <2>1, <2>2 DEF Jog, Jogs, OutputFrame
  <2>4. \/ Armed(m, in).out = Release
        \/ Armed(m, in).out = Jog(axis, positive, Rate(in))
    BY DEF Armed, Result
  <2>5. QED
    BY <2>3, <2>4 DEF OutputFrame
<1>5. CASE ~Usable(in, age)
  BY <1>5 DEF Update, Result, MapperState, OutputFrame
<1>6. CASE Usable(in, age) /\ in.cancel
  BY <1>6 DEF Update, Cancelled, Latched, Result, MapperState, GamepadState,
              OutputFrame
<1>7. CASE Usable(in, age) /\ ~in.cancel
  BY <1>2, <1>3, <1>4, <1>7 DEF Update
<1>8. QED
  BY <1>5, <1>6, <1>7

(* A report of the MASSO profile for every command: a jog key for a jog,   *)
(* and no key only for a release (masso_keyboard.cpp:58-110).              *)
LEMMA ReportFacts ==
  ASSUME NEW frame \in OutputFrame
  PROVE  /\ KeyboardReport(frame) \in MassoReports
         /\ KeyboardReport(frame) \in JogReports <=> frame.kind = "jog"
         /\ KeyboardReport(frame) # ReleaseReport
              => frame.kind = "step" \/ frame.kind = "jog"
<1>1. CASE frame = Release
  BY <1>1 DEF KeyboardReport, Release, ReleaseReport, MassoReports, JogReports, JogKeys
<1>2. CASE frame \in Steps
  <2>1. PICK r \in Resolutions : frame = Step(r)
    BY <1>2 DEF Steps
  <2>2. StepKey[r] \in StepKeys
    BY DEF StepKey, StepKeys, Resolutions
  <2>3. KeyboardReport(frame) = [shift |-> FALSE, key |-> StepKey[r]]
    BY <2>1 DEF KeyboardReport, Step
  <2>4. KeyboardReport(frame) \in StepReports
    BY <2>2, <2>3 DEF StepReports
  <2>5. KeyboardReport(frame) \notin JogReports
    BY <2>2, <2>3 DEF StepKeys, JogReports, JogKeys
  <2>6. QED
    BY <2>1, <2>4, <2>5 DEF MassoReports, Step
<1>3. CASE frame \in Jogs
  <2>1. JogKey(frame.axis, frame.positive) \in JogKeys
    BY <1>3 DEF Jogs, Axis, JogKey, JogKeys
  <2>2. KeyboardReport(frame)
          = [shift |-> frame.rate = "rapid", key |-> JogKey(frame.axis, frame.positive)]
    BY <1>3 DEF KeyboardReport, Jogs
  <2>3. KeyboardReport(frame) \in JogReports
    <3> HIDE DEF JogKey
    <3> QED
      BY <2>1, <2>2 DEF JogReports
  <2>4. QED
    BY <1>3, <2>3 DEF MassoReports, Jogs
<1>4. QED
  BY <1>1, <1>2, <1>3 DEF OutputFrame

(* reset_mapper() forgets the axis and the pressed buttons.                *)
LEMMA ResetFacts ==
  ASSUME NEW m \in MapperState
  PROVE  /\ ResetMapper(m) \in MapperState
         /\ ~ResetMapper(m).resolution_button_was_pressed
         /\ ~ResetMapper(m).selection_button_was_pressed
  BY DEF ResetMapper, Update, Usable, Disconnected, Result, MapperState
-----------------------------------------------------------------------------
(* What service_usb_keyboard() works with is a report.                     *)
LEMMA ServiceTypes ==
  ASSUME UsbTypeOK
  PROVE  /\ Mounted \in BOOLEAN
         /\ Wanted \in KeyboardReports /\ Sent \in KeyboardReports
         /\ NextFrame \in KeyboardReports
  BY ReportsAssumption DEF UsbTypeOK, Mounted, Wanted, Sent, NextFrame

(* Every event, service call and publication keeps the types.              *)
LEMMA UsbTypeStep == UsbTypeOK /\ [UsbNext]_usbVars => UsbTypeOK'
<1> SUFFICES ASSUME UsbTypeOK, [UsbNext]_usbVars
             PROVE  UsbTypeOK'
  OBVIOUS
<1>1. CASE HostPoll
  BY <1>1 DEF HostPoll, UsbTypeOK, device, firmware
<1>2. CASE BusReset
  BY <1>2, ReportsAssumption DEF BusReset, UsbTypeOK, firmware
<1>3. CASE BusSuspend \/ BusResume
  BY <1>3 DEF BusSuspend, BusResume, UsbTypeOK, firmware
<1>4. CASE UsbIdle
  BY <1>4, ServiceTypes DEF UsbIdle, UsbTypeOK, device
<1>5. CASE UsbSend
  BY <1>5, ServiceTypes DEF UsbSend, Ready, UsbTypeOK, device
<1>6. CASE UsbSendFails
  BY <1>6, ServiceTypes, ReportsAssumption DEF UsbSendFails, UsbTypeOK, device
<1>7. ASSUME NEW report \in KeyboardReports, NEW lock \in BOOLEAN,
             Publish(report, lock)
      PROVE  UsbTypeOK'
  BY <1>7 DEF Publish, UsbTypeOK, device
<1>8. CASE UNCHANGED usbVars
  BY <1>8 DEF usbVars, device, firmware, UsbTypeOK
<1>9. QED
  BY <1>1, <1>2, <1>3, <1>4, <1>5, <1>6, <1>7, <1>8
     DEF UsbNext, SteadyNext

(* The reports, the flags and the one-report endpoint keep their types.    *)
THEOREM UsbTypeCorrect == UsbSpec => []UsbTypeOK
<1>1. UsbInit => UsbTypeOK
  BY ReportsAssumption DEF UsbInit, UsbTypeOK
<1>2. QED
  BY <1>1, UsbTypeStep, PTL DEF UsbSpec

\* What the proofs need of an unsuspended bus.
NeverSuspended == usb_suspended = FALSE

(* Without suspends the flag stays down, and the types are kept.           *)
LEMMA SteadyInv == SteadySpec => [](UsbTypeOK /\ NeverSuspended)
<1>1. SteadySpec => []UsbTypeOK
  <2>1. SteadySpec => UsbSpec
    <3>1. [SteadyNext]_usbVars => [UsbNext]_usbVars
      BY DEF UsbNext
    <3>2. QED
      BY <3>1, PTL DEF SteadySpec, UsbSpec
  <2>2. QED
    BY <2>1, UsbTypeCorrect
<1>2. UsbInit => NeverSuspended
  BY DEF UsbInit, NeverSuspended
<1>3. NeverSuspended /\ [SteadyNext]_usbVars => NeverSuspended'
  BY DEF NeverSuspended, SteadyNext, usbVars, device, firmware, HostPoll, BusReset,
         UsbIdle, UsbSend, UsbSendFails, Publish
<1>4. QED
  BY <1>1, <1>2, <1>3, PTL DEF SteadySpec

(* Each bus event, service call and publication keeps the host tracked.    *)
LEMMA HostIsTrackedStep ==
  ASSUME UsbTypeOK, NeverSuspended, HostIsTracked, [SteadyNext]_usbVars
  PROVE  HostIsTracked'
<1>1. CASE HostPoll
  BY <1>1 DEF HostPoll, HostIsTracked, UsbTypeOK, device, firmware, Mounted
<1>2. CASE BusReset
  BY <1>2 DEF BusReset, HostIsTracked, firmware
<1>3. CASE UsbIdle
  BY <1>3 DEF UsbIdle, HostIsTracked, UsbTypeOK, device, Mounted, MountChanged,
              Wanted, Sent, Ready, NeverSuspended
<1>4. CASE UsbSend
  BY <1>4 DEF UsbSend, HostIsTracked, UsbTypeOK, device, Mounted, MountChanged,
              Wanted, Sent, Ready, NextFrame, NeverSuspended
<1>5. CASE UsbSendFails
  BY <1>5 DEF UsbSendFails, HostIsTracked, UsbTypeOK, device, Mounted,
              MountChanged, Wanted, Sent, Ready, NeverSuspended
<1>6. ASSUME NEW report \in KeyboardReports, NEW lock \in BOOLEAN,
             Publish(report, lock)
      PROVE  HostIsTracked'
  BY <1>6 DEF Publish, HostIsTracked, device
<1>7. CASE UNCHANGED usbVars
  BY <1>7 DEF usbVars, device, firmware, HostIsTracked
<1>8. QED
  BY <1>1, <1>2, <1>3, <1>4, <1>5, <1>6, <1>7 DEF SteadyNext

(* On a bus that is never suspended the host holds the sent report or no   *)
(* key at all, whatever is published and whichever sends fail.             *)
THEOREM UsbTracksHost == SteadySpec => []HostIsTracked
<1>1. UsbInit => HostIsTracked
  BY DEF UsbInit, HostIsTracked
<1>2. UsbTypeOK /\ NeverSuspended /\ HostIsTracked /\ [SteadyNext]_usbVars
        => HostIsTracked'
  BY HostIsTrackedStep
<1>3. QED
  BY <1>1, <1>2, SteadyInv, PTL DEF SteadySpec

(* ... and so the keyboard implements HostKeys: every key change goes      *)
(* through all keys up.                                                    *)
THEOREM UsbRefinesHostKeys == SteadySpec => UsbImplementsHostKeys
<1>1. UsbInit => Keys!HostInit
  BY DEF UsbInit, Keys!HostInit
<1>2. UsbTypeOK /\ HostIsTracked /\ [SteadyNext]_usbVars => [Keys!HostNext]_host
  <2> SUFFICES ASSUME UsbTypeOK, HostIsTracked, [SteadyNext]_usbVars
               PROVE  Keys!HostNext \/ UNCHANGED host
    OBVIOUS
  <2>1. CASE HostPoll
    BY <2>1 DEF HostPoll, HostIsTracked, UsbTypeOK, Keys!HostNext,
                Keys!KeyDown, Keys!KeysUp
  <2>2. CASE BusReset
    BY <2>2 DEF BusReset, Keys!HostNext, Keys!KeysUp
  <2>3. CASE UsbIdle \/ UsbSend \/ UsbSendFails
    BY <2>3 DEF UsbIdle, UsbSend, UsbSendFails
  <2>4. ASSUME NEW report \in KeyboardReports, NEW lock \in BOOLEAN,
               Publish(report, lock)
        PROVE  UNCHANGED host
    BY <2>4 DEF Publish
  <2>5. QED
    BY <2>1, <2>2, <2>3, <2>4 DEF SteadyNext, usbVars
<1>3. QED
  BY <1>1, <1>2, SteadyInv, UsbTracksHost, PTL
     DEF SteadySpec, UsbImplementsHostKeys, Keys!HostSpec

\* While a re-arm is due nothing but the release is asked for, except by the
\* step that unlocks.
LockedMeansReleased == rearm_required => desired_report = NoKeys

(* A locked receiver asks for no motion.                                   *)
LEMMA LockedMeansReleasedInv == UsbSpec => []LockedMeansReleased
<1>1. UsbInit => LockedMeansReleased
  BY DEF UsbInit, LockedMeansReleased
<1>2. LockedMeansReleased /\ [UsbNext]_usbVars => LockedMeansReleased'
  <2> SUFFICES ASSUME LockedMeansReleased, [UsbNext]_usbVars
               PROVE  LockedMeansReleased'
    OBVIOUS
  <2>1. CASE UsbIdle \/ UsbSend
    BY <2>1 DEF UsbIdle, UsbSend, Wanted, LockedMeansReleased
  <2>2. CASE UsbSendFails
    BY <2>2 DEF UsbSendFails, LockedMeansReleased
  <2>3. ASSUME NEW report \in KeyboardReports, NEW lock \in BOOLEAN,
               Publish(report, lock)
        PROVE  LockedMeansReleased'
    BY <2>3 DEF Publish, LockedMeansReleased
  <2>4. CASE UNCHANGED firmware
    BY <2>4 DEF firmware, LockedMeansReleased
  <2>5. QED
    BY <2>1, <2>2, <2>3, <2>4 DEF UsbNext, SteadyNext, usbVars, HostPoll, BusReset,
       BusSuspend, BusResume
<1>3. QED
  BY <1>1, <1>2, PTL DEF UsbSpec

(* With or without suspends: a key is queued only on a bus that was up at  *)
(* the previous service and is up now, with no re-arm due                  *)
(* (live_bridge_bench.cpp:478-510).  That it stayed up between the two is  *)
(* not said: MCUsbOutage shows it need not.                                *)
THEOREM UsbQueuesArmedKeys == UsbSpec => QueuedKeyIsArmed
<1>1. LockedMeansReleased /\ [UsbNext]_usbVars
        => [endpoint' \ endpoint \subseteq {NoKeys}
              \/ (Mounted /\ was_mounted /\ ~rearm_required)]_usbVars
  <2> SUFFICES ASSUME LockedMeansReleased, UsbNext
               PROVE  \/ endpoint' \ endpoint \subseteq {NoKeys}
                      \/ Mounted /\ was_mounted /\ ~rearm_required
    OBVIOUS
  <2>1. CASE UsbSend
    BY <2>1 DEF UsbSend, NextFrame, Wanted, Sent, MountChanged, Ready,
                LockedMeansReleased
  <2>2. CASE ~UsbSend
    BY <2>2 DEF UsbNext, SteadyNext, HostPoll, BusReset, BusSuspend, BusResume,
                UsbIdle, UsbSendFails, Publish
  <2>3. QED
    BY <2>1, <2>2
<1>2. QED
  BY <1>1, LockedMeansReleasedInv, PTL DEF UsbSpec, QueuedKeyIsArmed
=============================================================================
