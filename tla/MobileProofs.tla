---------------------------- MODULE MobileProofs ----------------------------
(***************************************************************************)
(* For any frames, number widths, timeout, deadzone and pass of the main   *)
(* loop: the iPhone receiver keeps the contract of the keyboard module,    *)
(* moves only after a frame without motion, stops in time, jogs what it    *)
(* reports and jogs another axis only after a frame without motion.        *)
(***************************************************************************)
EXTENDS MobileReceiver, KeyboardProofs

(* A frame makes a sample for the mapper, of which at most the stick of    *)
(* its direction is displaced (mobile_protocol.cpp:70-126).                *)
LEMMA FrameFacts ==
  ASSUME NEW f \in Frames, session \in SessionState
  PROVE  LET in == FrameInput(session, f)
         IN  /\ in \in GamepadState /\ in.connected
             /\ in.left_x = Deflection(f, 1, 2)
             /\ in.left_y = Deflection(f, 4, 3)
             /\ in.right_y = Deflection(f, 6, 5)
             /\ in.deadman = f.deadman
             /\ f.direction \in Directions
             /\ SessionAfter(session, f) \in SessionState
<1> DEFINE in == FrameInput(session, f)
<1>1. f \in Frame
  BY FramesAssumption
<1>2. /\ in.left_x \in Int /\ in.left_y \in Int /\ in.right_y \in Int
  BY DEF FrameInput, Deflection, FullDeflection
<1>3. in.selected_resolution \in Resolutions
  BY <1>1 DEF FrameInput, Resolutions, Frame, Events
<1>4. in \in GamepadState
  BY <1>1, <1>2, <1>3 DEF FrameInput, IsNewEvent, Frame, GamepadState
<1>5. SessionAfter(session, f) \in SessionState
  BY <1>1 DEF SessionAfter, IsNewEvent, Frame, SessionState
<1>6. QED
  BY <1>1, <1>4, <1>5 DEF FrameInput, Frame

\* The axis of a direction button and its sense.
AxisOf(d) == CASE d \in {1, 2} -> "x" [] d \in {3, 4} -> "y" [] d \in {5, 6} -> "z"
IsPlus(d) == d \in {2, 4, 6}

(* A jog made of a frame is that of the frame's direction.                 *)
LEMMA JogIsDirection ==
  ASSUME NEW f \in Frames, session \in SessionState, NEW m \in MapperState,
         Update(m, FrameInput(session, f), 0).out.kind = "jog"
  PROVE  LET jog == Update(m, FrameInput(session, f), 0).out
         IN  /\ Moving(f)
             /\ jog.axis = AxisOf(f.direction)
             /\ jog.positive = IsPlus(f.direction)
             /\ ~FrameInput(session, f).cancel
<1> DEFINE in == FrameInput(session, f)
           jog == Update(m, in, 0).out
           value == AxisValue(in, jog.axis)
           Agrees == /\ Moving(f)
                     /\ jog.axis = AxisOf(f.direction)
                     /\ jog.positive = IsPlus(f.direction)
<1>1. in \in GamepadState /\ f.direction \in Directions /\ in.deadman = f.deadman
  BY FrameFacts
<1>2. ~in.cancel /\ in.deadman /\ jog.axis \in Axis
  BY <1>1, JogFacts
<1>3. Displaced(value) /\ jog.positive = (IF jog.axis = "x" THEN value > 0 ELSE value < 0)
  BY <1>1, JogValue
<1> HIDE DEF jog
<1>4. value # 0
  BY <1>3, DeadzoneAssumption DEF Displaced, Magnitude
<1>5. jog.axis = "x" => Agrees
  <2> SUFFICES ASSUME jog.axis = "x"
               PROVE  Agrees
    OBVIOUS
  <2>1. value = Deflection(f, 1, 2)
    BY FrameFacts DEF AxisValue
  <2>2. QED
    BY <1>1, <1>2, <1>3, <1>4, <2>1
       DEF Deflection, FullDeflection, AxisOf, IsPlus, Moving
<1>6. jog.axis = "y" => Agrees
  <2> SUFFICES ASSUME jog.axis = "y"
               PROVE  Agrees
    OBVIOUS
  <2>1. value = Deflection(f, 4, 3)
    BY FrameFacts DEF AxisValue
  <2>2. QED
    BY <1>1, <1>2, <1>3, <1>4, <2>1
       DEF Deflection, FullDeflection, AxisOf, IsPlus, Moving
<1>7. jog.axis = "z" => Agrees
  <2> SUFFICES ASSUME jog.axis = "z"
               PROVE  Agrees
    OBVIOUS
  <2>1. value = Deflection(f, 6, 5)
    BY FrameFacts DEF AxisValue
  <2>2. QED
    BY <1>1, <1>2, <1>3, <1>4, <2>1
       DEF Deflection, FullDeflection, AxisOf, IsPlus, Moving
<1>8. QED
  BY <1>2, <1>5, <1>6, <1>7 DEF Axis, jog
-----------------------------------------------------------------------------
\* The receiver's own types, without those of the keyboard.
LocalTypeOK ==
  /\ pc \in {"poll", "bus", "usb", "timeout", "sleep"}
  /\ ble_connected \in BOOLEAN
  /\ session \in SessionState
  /\ silence \in 0..MaxSilence /\ stamped \in BOOLEAN
  /\ active_direction \in Directions
  /\ resolution \in Resolutions
  /\ error_code \in Errors
  /\ mapper \in MapperState
  /\ neutral_seen \in BOOLEAN /\ jogged \in Directions

\* What an accepted frame asks for: nothing, or what the mapper makes of it.
Refused(f) ==
  /\ active_direction' = 0
  /\ mapper' = ResetMapper(mapper) /\ desired_report' = NoKeys

Obeyed(f) ==
  LET result == Update(mapper, FrameInput(session, f), 0)
  IN  /\ active_direction' = IF result.out.kind = "jog" THEN f.direction ELSE 0
      /\ mapper' = result.mapper
      /\ desired_report' = KeyboardReport(result.out)

LEMMA MapCases ==
  ASSUME NEW f \in Frames, AcceptFrame(f)
  PROVE  \/ Refused(f) /\ StillLocked(f)
         \/ Obeyed(f) /\ ~(StillLocked(f) /\ Moving(f))
  BY DEF AcceptFrame, MapFrame, Refused, Obeyed

LEMMA MapTypes ==
  ASSUME NEW f \in Frames, LocalTypeOK, AcceptFrame(f)
  PROVE  /\ active_direction' \in Directions
         /\ mapper' \in MapperState /\ desired_report' \in KeyboardReports
<1>1. /\ FrameInput(session, f) \in GamepadState /\ f.direction \in Directions
      /\ session \in SessionState /\ mapper \in MapperState
  BY FrameFacts DEF LocalTypeOK
<1>2. CASE Refused(f)
  BY <1>1, <1>2, ResetFacts, ReportsAssumption DEF Refused, Directions
<1>3. CASE Obeyed(f)
  <2>1. /\ Update(mapper, FrameInput(session, f), 0).mapper \in MapperState
        /\ Update(mapper, FrameInput(session, f), 0).out \in OutputFrame
    BY <1>1, UpdateType
  <2>2. QED
    BY <1>1, <1>3, <2>1, ReportFacts, MassoAssumption DEF Obeyed, Directions
<1>4. QED
  BY <1>2, <1>3, MapCases

LEMMA Constants ==
  /\ 0 \in 0..MaxSilence
  /\ 0 \in Directions /\ 1 \in Resolutions
  /\ {"none", "malformed", "stale"} \subseteq Errors
  BY StaleTimeoutAssumption, LoopTimeAssumption
     DEF MaxSilence, Directions, Resolutions, Errors

(* Every frame, connection event, service call and sleep keeps the types.  *)
LEMMA LocalTypeStep == LocalTypeOK /\ [MobileNext]_mobileVars => LocalTypeOK'
<1> SUFFICES ASSUME LocalTypeOK, [MobileNext]_mobileVars
             PROVE  LocalTypeOK'
  OBVIOUS
<1> USE DEF LocalTypeOK, bleVars, clockVars, statusVars, history
<1>1. ResetMapper(mapper) \in MapperState
  BY ResetFacts
<1>2. ASSUME NEW error \in Errors, FailClosed(error)
      PROVE  /\ active_direction' \in Directions /\ resolution' \in Resolutions
             /\ silence' \in 0..MaxSilence /\ stamped' \in BOOLEAN
             /\ error_code' \in Errors /\ mapper' \in MapperState
             /\ neutral_seen' \in BOOLEAN /\ jogged' \in Directions
  BY <1>1, <1>2, Constants DEF FailClosed, LockOutput
<1>3. CASE BleConnect \/ BleDisconnect
  <2>1. FailClosed("none") /\ "none" \in Errors
    BY <1>3 DEF BleConnect, BleDisconnect, Errors
  <2>2. /\ pc' = pc /\ ble_connected' \in BOOLEAN /\ session' \in SessionState
    <3>1. ResetSession \in SessionState
      BY ModulusAssumption
         DEF ResetSession, SessionState, Sequences, EventSequences
    <3>2. QED
      BY <1>3, <3>1 DEF BleConnect, BleDisconnect
  <2>3. QED
    BY <1>2, <2>1, <2>2
<1>4. ASSUME NEW f \in Frames, RejectFrame(f)
      PROVE  LocalTypeOK'
  BY <1>1, <1>4, Constants DEF RejectFrame, LockOutput
<1>5. ASSUME NEW f \in Frames, AcceptFrame(f)
      PROVE  LocalTypeOK'
  <2>1. active_direction' \in Directions /\ mapper' \in MapperState
    BY <1>5, MapTypes
  <2>2. session' \in SessionState /\ resolution' \in Resolutions
    <3>1. /\ SessionAfter(session, f) \in SessionState
          /\ FrameInput(session, f).selected_resolution \in Resolutions
      BY FrameFacts DEF GamepadState
    <3>2. QED
      BY <1>5, <3>1 DEF AcceptFrame
  <2>3. silence' \in 0..MaxSilence
    BY <1>5, Constants DEF AcceptFrame
  <2>4. /\ stamped' \in BOOLEAN /\ neutral_seen' \in BOOLEAN
        /\ error_code' \in Errors /\ UNCHANGED <<pc, ble_connected>>
    BY <1>5 DEF AcceptFrame, Errors
  <2>5. jogged' \in Directions
    <3>1. f.direction \in Directions
      BY FrameFacts
    <3>2. QED
      BY <1>5, <3>1, Constants DEF AcceptFrame
  <2>6. QED
    BY <2>1, <2>2, <2>3, <2>4, <2>5
<1>6. CASE EndPoll \/ TudTask \/ HostTakesReport
  BY <1>6 DEF EndPoll, TudTask, HostTakesReport
<1>7. CASE ServiceUsb
  BY <1>1, <1>7 DEF ServiceUsb, UsbServed, Errors
<1>8. CASE ServiceTimeout
  <2>1. CASE Stale
    <3>1. FailClosed("stale") /\ "stale" \in Errors
      BY <1>8, <2>1 DEF ServiceTimeout, Errors
    <3>2. QED
      BY <1>2, <1>8, <3>1 DEF ServiceTimeout
  <2>2. CASE ~Stale
    BY <1>8, <2>2 DEF ServiceTimeout
  <2>3. QED
    BY <2>1, <2>2
<1>9. CASE Sleep
  <2>1. silence' \in 0..MaxSilence
    BY <1>9, StaleTimeoutAssumption, LoopTimeAssumption DEF Sleep, MaxSilence
  <2>2. QED
    BY <1>9, <2>1 DEF Sleep
<1>10. CASE UNCHANGED mobileVars
  BY <1>10 DEF mobileVars
<1>11. QED
  BY <1>3, <1>4, <1>5, <1>6, <1>7, <1>8, <1>9, <1>10 DEF MobileNext, Poll

LEMMA LocalTypes == MobileSpec => []LocalTypeOK
<1>1. InitMapper \in MapperState
  BY DEF InitMapper, MapperState, Resolutions
<1>2. ResetSession \in SessionState
  BY ModulusAssumption DEF ResetSession, SessionState, Sequences, EventSequences
<1>3. MobileInit => LocalTypeOK
  BY <1>1, <1>2, Constants DEF MobileInit, LocalTypeOK
<1>4. QED
  BY <1>3, LocalTypeStep, PTL DEF MobileSpec

(* A lock with its release is a publication, as is what a frame asks for.  *)
LEMMA LockPublishes ==
  ASSUME LockOutput, UNCHANGED otherUsbVars
  PROVE  SteadyNext
<1>1. Publish(NoKeys, TRUE)
  BY ReportsAssumption DEF Publish, LockOutput, otherUsbVars, device
<1>2. QED
  BY <1>1, ReportsAssumption DEF SteadyNext

LEMMA UsbStep ==
  ASSUME LocalTypeOK, UsbTypeOK, [MobileNext]_mobileVars
  PROVE  /\ [UsbNext]_usbVars
         /\ ~HostSuspends => [SteadyNext]_usbVars
<1>1. CASE BleConnect \/ BleDisconnect
  BY <1>1, LockPublishes DEF BleConnect, BleDisconnect, FailClosed, UsbNext
<1>2. ASSUME NEW f \in Frames, RejectFrame(f)
      PROVE  SteadyNext
  BY <1>2, LockPublishes DEF RejectFrame
<1>3. ASSUME NEW f \in Frames, AcceptFrame(f)
      PROVE  SteadyNext
  <2>1. desired_report' \in KeyboardReports
    BY <1>3, MapTypes
  <2>2. rearm_required' = StillLocked(f) /\ UNCHANGED otherUsbVars
    BY <1>3 DEF AcceptFrame
  <2>3. StillLocked(f) \in BOOLEAN
    BY DEF StillLocked
  <2>4. /\ StillLocked(f) => desired_report' = NoKeys
        /\ rearm_required => desired_report' \notin MotionReports
    <3>1. CASE Refused(f)
      BY <3>1, ReportsAssumption DEF Refused
    <3>2. CASE Obeyed(f) /\ ~(StillLocked(f) /\ Moving(f))
      <4> DEFINE in == FrameInput(session, f)
                 out == Update(mapper, in, 0).out
      <4>1. in \in GamepadState /\ mapper \in MapperState /\ session \in SessionState
        BY FrameFacts DEF LocalTypeOK
      <4>2. out \in OutputFrame
        BY <4>1, UpdateType
      <4>3. desired_report' = KeyboardReport(out)
        BY <3>2 DEF Obeyed
      <4>4. desired_report' \in MotionReports => Moving(f)
        BY <4>1, <4>2, <4>3, JogIsDirection, ReportFacts, MassoAssumption
      <4>5. in.cancel => desired_report' = NoKeys
        BY <4>1, <4>3, StaleTimeoutAssumption, FrameFacts, MassoAssumption
           DEF Update, Usable, Cancelled, Result, Release, KeyboardReport
      <4>6. QED
        BY <3>2, <4>4, <4>5 DEF StillLocked
    <3>3. QED
      BY <1>3, <3>1, <3>2, MapCases
  <2>5. Publish(desired_report', rearm_required')
    BY <2>2, <2>4 DEF Publish, otherUsbVars
  <2>6. QED
    BY <2>1, <2>2, <2>3, <2>5 DEF SteadyNext
<1>4. CASE TudTask
  BY <1>4, HostSuspendsAssumption DEF TudTask, BusEvent, UsbNext, SteadyNext
<1>5. CASE ServiceUsb
  BY <1>5 DEF ServiceUsb, UsbNext, SteadyNext
<1>6. CASE ServiceTimeout
  BY <1>6, LockPublishes DEF ServiceTimeout, FailClosed, UsbNext
<1>7. CASE EndPoll \/ Sleep \/ UNCHANGED mobileVars
  BY <1>7 DEF EndPoll, Sleep, mobileVars
<1>8. CASE HostTakesReport
  BY <1>8 DEF HostTakesReport, UsbNext, SteadyNext
<1>9. QED
  BY <1>1, <1>2, <1>3, <1>4, <1>5, <1>6, <1>7, <1>8 DEF MobileNext, Poll, UsbNext

(* On a bus that is never suspended the handlers keep the contract of the  *)
(* keyboard module, so every theorem of KeyboardProofs holds here.         *)
THEOREM MobileRefinesUsb == ~HostSuspends => (MobileSpec => MobileImplementsUsb)
<1> SUFFICES ASSUME ~HostSuspends
             PROVE  MobileSpec => MobileImplementsUsb
  OBVIOUS
<1>1. MobileInit => UsbInit
  BY DEF MobileInit
<1>2. UsbInit => UsbTypeOK
  BY ReportsAssumption DEF UsbInit, UsbTypeOK
<1>3. LocalTypeOK /\ UsbTypeOK /\ [MobileNext]_mobileVars
        => [SteadyNext]_usbVars /\ UsbTypeOK'
  BY UsbStep, UsbTypeStep
<1>4. QED
  BY <1>1, <1>2, <1>3, LocalTypes, PTL
     DEF MobileSpec, MobileImplementsUsb, SteadySpec

(* The receiver's types and the keyboard's, with suspends or without.      *)
THEOREM MobileTypeCorrect == MobileSpec => []MobileTypeOK
<1>1. LocalTypeOK /\ UsbTypeOK => MobileTypeOK
  BY DEF LocalTypeOK, MobileTypeOK
<1>2. MobileInit => UsbTypeOK
  BY ReportsAssumption DEF MobileInit, UsbInit, UsbTypeOK
<1>3. LocalTypeOK /\ UsbTypeOK /\ [MobileNext]_mobileVars => UsbTypeOK'
  BY UsbStep, UsbTypeStep
<1>4. QED
  BY <1>1, <1>2, <1>3, LocalTypes, PTL DEF MobileSpec

LEMMA TypeParts == MobileTypeOK => LocalTypeOK /\ UsbTypeOK
  BY DEF LocalTypeOK, MobileTypeOK
-----------------------------------------------------------------------------
\* The mapper still has the axis jogged last, or lets no axis move.
AxisIsKept ==
  /\ rearm_required \/ mapper.awaiting_center
       \/ mapper.locked_axis = AxisOf(jogged)
  /\ Deadzone < FullDeflection

(* A moving frame displaces the stick of its direction, and leaves a lock  *)
(* on an axis as it is or turns it into awaiting_center, which it keeps    *)
(* (control_mapper.cpp:74-103).                                            *)
LEMMA MovingKeepsAxis ==
  ASSUME NEW f \in Frames, session \in SessionState, NEW m \in MapperState,
         Moving(f), Deadzone < FullDeflection
  PROVE  LET n == Update(m, FrameInput(session, f), 0).mapper
         IN  /\ m.awaiting_center => n.awaiting_center
             /\ m.locked_axis # NoAxis =>
                  n.awaiting_center \/ n.locked_axis = m.locked_axis
<1> DEFINE in == FrameInput(session, f)
<1>1. /\ in \in GamepadState /\ in.connected /\ in.deadman
      /\ f.direction \in Directions /\ f.direction # 0
  BY FrameFacts DEF Moving
<1>2. Usable(in, 0)
  BY <1>1, StaleTimeoutAssumption DEF Usable
<1>3. ~AllCentered(in)
  <2>1. /\ in.left_x = Deflection(f, 1, 2) /\ in.left_y = Deflection(f, 4, 3)
        /\ in.right_y = Deflection(f, 6, 5)
    BY FrameFacts
  <2>2. /\ f.direction \in {1, 2} => Displaced(in.left_x)
        /\ f.direction \in {3, 4} => Displaced(in.left_y)
        /\ f.direction \in {5, 6} => Displaced(in.right_y)
    BY <2>1, DeadzoneAssumption DEF Deflection, FullDeflection, Displaced, Magnitude
  <2>3. f.direction \in 1..6
    BY <1>1 DEF Directions
  <2>4. QED
    BY <2>2, <2>3 DEF AllCentered
<1>4. QED
  BY <1>1, <1>2, <1>3, LockFacts

(* A jog of a frame needs a stick that leaves the deadzone.                *)
LEMMA JogNeedsDeflection ==
  ASSUME NEW f \in Frames, session \in SessionState, NEW m \in MapperState,
         Update(m, FrameInput(session, f), 0).out.kind = "jog"
  PROVE  Deadzone < FullDeflection
<1> DEFINE in == FrameInput(session, f)
           value == AxisValue(in, Update(m, in, 0).out.axis)
<1>1. in \in GamepadState /\ Displaced(value)
  BY FrameFacts, JogValue
<1>2. value \in {-FullDeflection, 0, FullDeflection}
  <2>1. /\ in.left_x \in {-FullDeflection, 0, FullDeflection}
        /\ in.left_y \in {-FullDeflection, 0, FullDeflection}
        /\ in.right_y \in {-FullDeflection, 0, FullDeflection}
    BY FrameFacts DEF Deflection
  <2>2. QED
    BY <2>1 DEF AxisValue
<1> HIDE DEF value
<1>3. QED
  BY <1>1, <1>2, DeadzoneAssumption DEF Displaced, Magnitude, FullDeflection

\* What is asked of the host follows from what the phone asked for last.
MotionInv ==
  /\ MotionNeedsNeutral
  /\ ReportedDirectionIsJogged
  /\ ~rearm_required => neutral_seen
  /\ active_direction # 0 => jogged = active_direction
  /\ jogged # 0 => AxisIsKept

(* What one accepted frame makes of them.                                  *)
LEMMA AcceptStep ==
  ASSUME NEW f \in Frames, LocalTypeOK, UsbTypeOK, MotionInv, AcceptFrame(f)
  PROVE  /\ MotionInv'
         /\ active_direction' # 0 /\ jogged # 0
              => AxisOf(active_direction') = AxisOf(jogged)
<1> DEFINE in == FrameInput(session, f)
           result == Update(mapper, in, 0)
           jog == result.out
<1>1. /\ in \in GamepadState /\ mapper \in MapperState /\ session \in SessionState
      /\ f.direction \in Directions
  BY FrameFacts DEF LocalTypeOK
<1>2. /\ rearm_required' = StillLocked(f) /\ ble_connected /\ ble_connected'
      /\ neutral_seen' = (~in.cancel /\ (neutral_seen \/ ~Moving(f)))
  BY <1>1 DEF AcceptFrame
<1>3. ~rearm_required' => neutral_seen'
  BY <1>2 DEF StillLocked, MotionInv
<1>4. jogged' # 0 => AxisIsKept'
  <2> SUFFICES ASSUME jogged' # 0
               PROVE  AxisIsKept'
    OBVIOUS
  <2>1. /\ Moving(f)
        /\ jogged' = IF active_direction' # 0 THEN f.direction ELSE jogged
    BY <1>1 DEF AcceptFrame
  <2>2. CASE active_direction' # 0
    <3>1. Obeyed(f) /\ jog.kind = "jog" /\ mapper' = result.mapper
      BY <2>2, MapCases DEF Refused, Obeyed
    <3>2. jog.axis = AxisOf(f.direction) /\ Deadzone < FullDeflection
      BY <1>1, <3>1, JogIsDirection, JogNeedsDeflection
    <3>3. result.mapper.locked_axis = jog.axis
      BY <1>1, <3>1, JogFacts
    <3>4. jogged' = f.direction
      BY <2>1, <2>2
    <3> HIDE DEF result, jog
    <3>5. QED
      BY <3>1, <3>2, <3>3, <3>4 DEF AxisIsKept
  <2>3. CASE active_direction' = 0
    <3>1. jogged' = jogged /\ AxisIsKept /\ Deadzone < FullDeflection
      BY <2>1, <2>3 DEF MotionInv, AxisIsKept
    <3>2. CASE Refused(f) /\ StillLocked(f)
      BY <1>2, <3>1, <3>2 DEF AxisIsKept
    <3>3. CASE Obeyed(f) /\ ~(StillLocked(f) /\ Moving(f))
      <4>1. ~rearm_required /\ mapper' = result.mapper
        BY <2>1, <3>3 DEF StillLocked, Obeyed
      <4>2. AxisOf(jogged) # NoAxis
        BY <3>1 DEF LocalTypeOK, Directions, AxisOf, NoAxis
      <4>3. /\ mapper.awaiting_center => result.mapper.awaiting_center
            /\ mapper.locked_axis # NoAxis =>
                 \/ result.mapper.awaiting_center
                 \/ result.mapper.locked_axis = mapper.locked_axis
        BY <1>1, <2>1, <3>1, MovingKeepsAxis
      <4> HIDE DEF result
      <4>4. QED
        BY <3>1, <4>1, <4>2, <4>3 DEF AxisIsKept
    <3>4. QED
      BY <3>2, <3>3, MapCases
  <2>4. QED
    BY <2>2, <2>3
<1>9. CASE active_direction' = 0 /\ desired_report' \notin JogReports
  BY <1>2, <1>3, <1>4, <1>9 DEF MotionInv, MotionNeedsNeutral, ReportedDirectionIsJogged
<1>5. CASE Obeyed(f) /\ ~(StillLocked(f) /\ Moving(f)) /\ jog.kind = "jog"
  <2>1. /\ Moving(f) /\ jog.axis = AxisOf(f.direction)
        /\ jog.positive = IsPlus(f.direction)
    BY <1>1, <1>5, JogIsDirection
  <2>2. /\ result.mapper.locked_axis = jog.axis
        /\ mapper.locked_axis # NoAxis => jog.axis = mapper.locked_axis
    BY <1>1, <1>5, JogFacts
  <2>3. /\ active_direction' = f.direction /\ mapper' = result.mapper
        /\ desired_report' = KeyboardReport(jog)
    BY <1>5 DEF Obeyed
  <2>4. ~rearm_required /\ ~rearm_required' /\ neutral_seen'
    BY <1>2, <1>3, <1>5, <2>1 DEF StillLocked
  <2>5. jog \in OutputFrame
    BY <1>1, UpdateType
  <2>6. desired_report'.key = JogKey(AxisOf(f.direction), IsPlus(f.direction))
    BY <1>5, <2>1, <2>3, <2>5 DEF KeyboardReport, Release, Step
  <2>7. f.direction # 0
    BY <2>1 DEF Moving
  <2>8. MotionInv'
    <3>1. active_direction' # 0 => jogged' = active_direction'
      BY <2>1, <2>3, <2>7 DEF AcceptFrame
    <3>2. QED
      BY <1>2, <1>4, <2>1, <2>3, <2>4, <2>6, <2>7, <3>1
         DEF MotionInv, MotionNeedsNeutral, ReportedDirectionIsJogged, AxisOf, IsPlus
  <2>9. jogged # 0 => AxisOf(active_direction') = AxisOf(jogged)
    <3>1. ~mapper.awaiting_center
      BY <1>1, <1>5, JogFacts
    <3>2. jogged # 0 => mapper.locked_axis = AxisOf(jogged)
      BY <2>4, <3>1 DEF MotionInv, AxisIsKept
    <3>3. jogged # 0 => AxisOf(jogged) # NoAxis
      BY DEF LocalTypeOK, Directions, AxisOf, NoAxis
    <3>4. QED
      BY <2>1, <2>2, <2>3, <3>2, <3>3
  <2>10. QED
    BY <2>8, <2>9
<1>6. CASE Obeyed(f) /\ jog.kind # "jog"
  <2>1. active_direction' = 0
    BY <1>6 DEF Obeyed
  <2>2. desired_report' \notin JogReports
    BY <1>1, <1>6, UpdateType, ReportFacts DEF Obeyed
  <2>3. QED
    BY <1>9, <2>1, <2>2
<1>7. CASE Refused(f)
  <2>1. NoKeys \notin JogReports
    BY ReportsAssumption, MassoAssumption
  <2>2. QED
    BY <1>7, <1>9, <2>1 DEF Refused
<1>8. QED
  BY <1>5, <1>6, <1>7, MapCases

LEMMA MotionStep ==
  ASSUME LocalTypeOK, UsbTypeOK, MotionInv, [MobileNext]_mobileVars
  PROVE  /\ MotionInv'
         /\ active_direction' # 0 /\ jogged # 0
              => AxisOf(active_direction') = AxisOf(jogged)
<1> DEFINE Goal == /\ MotionInv'
                   /\ active_direction' # 0 /\ jogged # 0
                        => AxisOf(active_direction') = AxisOf(jogged)
<1>1. NoKeys \notin JogReports
  BY ReportsAssumption, MassoAssumption
<1>2. ASSUME LockOutput, active_direction' = 0
      PROVE  Goal
  BY <1>1, <1>2
     DEF LockOutput, MotionInv, MotionNeedsNeutral, ReportedDirectionIsJogged, AxisIsKept
<1>3. CASE BleConnect \/ BleDisconnect
  BY <1>2, <1>3 DEF BleConnect, BleDisconnect, FailClosed
<1>4. ASSUME NEW f \in Frames, RejectFrame(f)
      PROVE  Goal
  BY <1>2, <1>4 DEF RejectFrame
<1>5. ASSUME NEW f \in Frames, AcceptFrame(f)
      PROVE  Goal
  BY <1>5, AcceptStep
<1>6. ASSUME UNCHANGED <<ble_connected, active_direction, mapper, desired_report,
                         rearm_required, history>>
      PROVE  Goal
  BY <1>6 DEF history, MotionInv, MotionNeedsNeutral, ReportedDirectionIsJogged,
              AxisIsKept
<1>7. CASE EndPoll \/ TudTask \/ Sleep \/ HostTakesReport \/ UNCHANGED mobileVars
  <2>1. UNCHANGED <<ble_connected, active_direction, mapper, desired_report,
                    rearm_required, history>>
    BY <1>7 DEF EndPoll, TudTask, BusEvent, BusReset, BusSuspend, BusResume, Sleep,
                HostTakesReport, HostPoll, mobileVars, bleVars, statusVars, usbVars,
                firmware
  <2>2. QED
    BY <1>6, <2>1
<1>8. CASE ServiceUsb
  <2>1. UNCHANGED <<ble_connected, active_direction, jogged>>
    BY <1>8 DEF ServiceUsb, UsbServed, bleVars
  <2>2. CASE desired_report' = NoKeys /\ rearm_required' /\ ~neutral_seen'
    BY <1>1, <2>1, <2>2
       DEF MotionInv, MotionNeedsNeutral, ReportedDirectionIsJogged, AxisIsKept
  <2>3. CASE UNCHANGED <<mapper, desired_report, rearm_required, neutral_seen>>
    BY <1>6, <2>1, <2>3 DEF history
  <2>4. QED
    <3>1. CASE (UsbIdle \/ UsbSend) /\ UsbServed(MountChanged) /\ MountChanged
      BY <2>2, <3>1 DEF UsbIdle, UsbSend, UsbServed, Wanted
    <3>2. CASE (UsbIdle \/ UsbSend) /\ UsbServed(MountChanged) /\ ~MountChanged
      BY <2>3, <3>2 DEF UsbIdle, UsbSend, UsbServed, Wanted, UsbTypeOK, LocalTypeOK
    <3>3. CASE UsbSendFails /\ UsbServed(TRUE)
      BY <2>2, <3>3 DEF UsbSendFails, UsbServed
    <3>4. QED
      BY <1>8, <3>1, <3>2, <3>3 DEF ServiceUsb
<1>9. CASE ServiceTimeout
  <2>1. CASE Stale
    BY <1>2, <1>9, <2>1 DEF ServiceTimeout, FailClosed
  <2>2. CASE ~Stale
    BY <1>6, <1>9, <2>2 DEF ServiceTimeout, statusVars, usbVars, firmware, bleVars
  <2>3. QED
    BY <2>1, <2>2
<1>10. QED
  BY <1>3, <1>4, <1>5, <1>7, <1>8, <1>9 DEF MobileNext, Poll

LEMMA MotionInvariant == MobileSpec => []MotionInv
<1>1. MobileInit => MotionInv
  BY ReportsAssumption, MassoAssumption
     DEF MobileInit, UsbInit, MotionInv, MotionNeedsNeutral, ReportedDirectionIsJogged
<1>2. MobileTypeOK /\ MotionInv /\ [MobileNext]_mobileVars => MotionInv'
  BY MotionStep, TypeParts
<1>3. QED
  BY <1>1, <1>2, MobileTypeCorrect, PTL DEF MobileSpec

(* After a loss, a bad frame, a cancel, silence, a mount change or a       *)
(* failed send, nothing moves until a frame without motion arrives.        *)
THEOREM MobileNeedsNeutral == MobileSpec => []MotionNeedsNeutral
<1>1. MotionInv => MotionNeedsNeutral
  BY DEF MotionInv
<1>2. QED
  BY <1>1, MotionInvariant, PTL

(* The phone is told the direction that is jogged.                         *)
THEOREM MobileReportsDirection == MobileSpec => []ReportedDirectionIsJogged
<1>1. MotionInv => ReportedDirectionIsJogged
  BY DEF MotionInv
<1>2. QED
  BY <1>1, MotionInvariant, PTL

(* The axis jogged last is the only one until a frame without motion       *)
(* arrives (mobile_ble_bench.cpp:180-203).  A reversal on that axis is not *)
(* excluded: NeutralBeforeReversal.                                        *)
THEOREM MobileSwitchNeedsNeutral == MobileSpec => NeutralBeforeSwitch
<1>1. ASSUME NEW d \in Directions, NEW e \in Directions, d # 0, e # 0
      PROVE  AxisOf(d) = AxisOf(e) => DirectionAxis(d) = DirectionAxis(e)
  BY <1>1 DEF Directions, AxisOf, DirectionAxis
<1>2. MobileTypeOK /\ MobileTypeOK' /\ MotionInv /\ [MobileNext]_mobileVars
        => [active_direction' # 0 /\ jogged # 0
              => DirectionAxis(active_direction') = DirectionAxis(jogged)]_mobileVars
  BY <1>1, MotionStep, TypeParts DEF MobileTypeOK
<1>3. QED
  BY <1>2, MobileTypeCorrect, MotionInvariant, PTL DEF MobileSpec, NeutralBeforeSwitch

\* As in the gamepad receiver; the timeout is checked before the sleep.
KeyIsTimed ==
  desired_report # NoKeys =>
    /\ stamped
    /\ silence <= (IF pc = "sleep" THEN StaleTimeout ELSE StaleTimeout + LoopTime)

LEMMA SilenceStep ==
  ASSUME ~ClockWraps, LocalTypeOK, KeyIsTimed, [MobileNext]_mobileVars
  PROVE  KeyIsTimed'
<1> USE StaleTimeoutAssumption, LoopTimeAssumption
    DEF KeyIsTimed, clockVars, usbVars, firmware, otherUsbVars
<1>1. silence \in Int
  BY DEF LocalTypeOK, MaxSilence
<1>2. CASE BleConnect \/ BleDisconnect
  BY <1>2 DEF BleConnect, BleDisconnect, FailClosed, LockOutput
<1>3. ASSUME NEW f \in Frames, RejectFrame(f)
      PROVE  KeyIsTimed'
  BY <1>3 DEF RejectFrame, LockOutput
<1>4. ASSUME NEW f \in Frames, AcceptFrame(f)
      PROVE  KeyIsTimed'
  <2>1. silence' = 0 /\ stamped'
    BY <1>4 DEF AcceptFrame
  <2>2. 0 <= StaleTimeout /\ 0 <= StaleTimeout + LoopTime
    OBVIOUS
  <2>3. QED
    BY <2>1, <2>2
<1>5. CASE EndPoll \/ UNCHANGED mobileVars
  BY <1>5 DEF EndPoll, mobileVars
<1>6. CASE TudTask
  BY <1>6 DEF TudTask, BusEvent, BusReset, BusSuspend, BusResume
<1>7. CASE ServiceUsb
  <2>1. desired_report' \in {NoKeys, desired_report} /\ UNCHANGED clockVars
    BY <1>7 DEF ServiceUsb, UsbIdle, UsbSend, UsbSendFails, Wanted
  <2>2. pc = "usb" /\ pc' = "timeout"
    BY <1>7 DEF ServiceUsb
  <2>3. QED
    BY <2>1, <2>2
<1>8. CASE ServiceTimeout
  BY <1>1, <1>8 DEF ServiceTimeout, Stale, OutputActive, FailClosed, LockOutput
<1>9. CASE Sleep
  <2>1. PICK t \in 1..LoopTime :
          silence' = IF silence + t > MaxSilence THEN MaxSilence ELSE silence + t
    BY <1>9 DEF Sleep
  <2>2. silence <= StaleTimeout => silence' <= StaleTimeout + LoopTime
    BY <1>1, <2>1 DEF MaxSilence
  <2>3. QED
    BY <1>9, <2>2 DEF Sleep
<1>10. CASE HostTakesReport
  BY <1>10 DEF HostTakesReport, HostPoll
<1>11. QED
  BY <1>2, <1>3, <1>4, <1>5, <1>6, <1>7, <1>8, <1>9, <1>10 DEF MobileNext, Poll

(* A key is asked for no longer than the timeout and one pass of the loop, *)
(* as long as no frame comes at the zero of the wrapped clock.             *)
THEOREM MobileSilenceReleases == ~ClockWraps => (MobileSpec => []SilenceReleases)
<1> SUFFICES ASSUME ~ClockWraps
             PROVE  MobileSpec => []SilenceReleases
  OBVIOUS
<1>1. MobileInit => KeyIsTimed
  BY DEF MobileInit, UsbInit, KeyIsTimed
<1>2. MobileTypeOK /\ KeyIsTimed => SilenceReleases
  BY StaleTimeoutAssumption, LoopTimeAssumption
     DEF MobileTypeOK, KeyIsTimed, SilenceReleases, MaxSilence
<1>3. MobileTypeOK /\ KeyIsTimed /\ [MobileNext]_mobileVars => KeyIsTimed'
  BY SilenceStep, TypeParts
<1>4. QED
  BY <1>1, <1>2, <1>3, MobileTypeCorrect, PTL DEF MobileSpec
=============================================================================
