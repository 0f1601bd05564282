---------------------------- MODULE BridgeProofs ----------------------------
(***************************************************************************)
(* For any reports a controller may send, any valid mappings, timeout,     *)
(* deadzone and pass of the main loop: the gamepad receiver keeps the      *)
(* contract of the keyboard module, asks for keys only after a neutral     *)
(* report, stops asking in time, and steps once per press.  Taken apart    *)
(* into statements, with handlers that interrupt it, the loop still copies *)
(* only armed keys, times every key and knows what the host holds.         *)
(***************************************************************************)
EXTENDS BridgeStatements, KeyboardProofs

(* The step size a mapping selects exists: the last selecting face button  *)
(* of those pressed (production_config.cpp:94-122).                        *)
LEMMA SelectedFace ==
  ASSUME NEW faces \in SUBSET (1..4), faces # {}
  PROVE  (CHOOSE i \in faces : \A j \in faces : j <= i) \in faces
<1>1. \E i \in faces : \A j \in faces : j <= i
  <2>1. CASE 4 \in faces
    BY <2>1
  <2>2. CASE 3 \in faces /\ 4 \notin faces
    BY <2>2
  <2>3. CASE 2 \in faces /\ 3 \notin faces /\ 4 \notin faces
    BY <2>3
  <2>4. CASE 2 \notin faces /\ 3 \notin faces /\ 4 \notin faces
    <3>1. \A i \in faces : i = 1
      BY <2>4
    <3>2. 1 \in faces
      BY <3>1
    <3>3. QED
      BY <3>1, <3>2
  <2>5. QED
    BY <2>1, <2>2, <2>3, <2>4
<1>2. QED
  BY <1>1

(* A mapping makes a sample for the mapper of any framed report            *)
(* (lite2_report.cpp:15-43, production_config.cpp:74-126).                 *)
LEMMA InputType ==
  ASSUME NEW report \in PadReports, production_mapping \in Mappings
  PROVE  Input(report) \in GamepadState
<1> DEFINE raw == ParseReport(report)
           mapping == production_mapping
           selecting == SelectingFaces(raw.buttons, mapping)
           chosen == CHOOSE i \in selecting : \A j \in selecting : j <= i
<1>1. mapping \in ProductionMapping /\ mapping.face \in [1..4 -> ButtonAction]
  BY MappingsAssumption DEF ProductionMapping
<1>2. raw.left_x \in Int /\ raw.left_y \in Int /\ raw.right_y \in Int
  <2>1. report.left_x \in Int /\ report.left_y \in Int /\ report.right_y \in Int
    BY PadReportsAssumption DEF StickBytes
  <2>2. /\ raw.left_x = Normalize(report.left_x, 127)
        /\ raw.left_y = Normalize(report.left_y, 127)
        /\ raw.right_y = Normalize(report.right_y, 128)
    BY DEF ParseReport
  <2>3. QED
    BY <2>1, <2>2 DEF Normalize
<1>3. selecting # {} => StepOf(mapping.face[chosen]) \in Resolutions
  <2>1. selecting \in SUBSET (1..4)
    BY DEF SelectingFaces, PressedActions
  <2>2. selecting # {} => chosen \in selecting
    BY <2>1, SelectedFace
  <2>3. chosen \in selecting => mapping.face[chosen] \in StepActions
    BY DEF SelectingFaces
  <2>4. \A action \in StepActions : StepOf(action) \in Resolutions
    BY DEF StepActions, StepOf, Resolutions
  <2>5. QED
    BY <2>2, <2>3, <2>4
<1>4. Input(report).selected_resolution \in Resolutions
  BY <1>3 DEF Input, ApplyMapping, Resolutions
<1>5. QED
  BY <1>2, <1>4 DEF Input, ApplyMapping, GamepadState

(* What a framed report of a recognised controller makes of the mapper and *)
(* the keys: the types, a step only for a button up in the latches, and    *)
(* the latches afterwards.                                                 *)
LEMMA MapFacts ==
  ASSUME NEW report \in PadReports, production_mapping \in Mappings,
         NEW from \in MapperState
  PROVE  LET in == Input(report)
             result == Update(from, in, 0)
         IN  /\ result.mapper \in MapperState
             /\ KeyboardReport(result.out) \in KeyboardReports
             /\ result.mapper.resolution_button_was_pressed
                  <=> "cycle" \in StepControls(in)
             /\ result.mapper.selection_button_was_pressed
                  <=> "select" \in StepControls(in)
             /\ KeyboardReport(result.out) \notin MotionReports \union {NoKeys} =>
                  \/ "cycle" \in StepControls(in)
                       /\ ~from.resolution_button_was_pressed
                  \/ "select" \in StepControls(in)
                       /\ ~from.selection_button_was_pressed
<1> DEFINE in == Input(report)
           result == Update(from, in, 0)
<1>1. in \in GamepadState /\ in.connected
  BY InputType DEF Input, ApplyMapping
<1>2. result.mapper \in MapperState /\ result.out \in OutputFrame
  BY <1>1, UpdateType
<1>3. Usable(in, 0)
  BY <1>1, StaleTimeoutAssumption DEF Usable
<1>4. /\ "cycle" \in StepControls(in) <=> in.cycle_resolution
      /\ "select" \in StepControls(in) <=> in.select_resolution
  BY DEF StepControls
<1>5. /\ result.mapper.resolution_button_was_pressed <=> in.cycle_resolution
      /\ result.mapper.selection_button_was_pressed <=> in.select_resolution
  <2>1. /\ result.mapper.resolution_button_was_pressed
             = (Usable(in, 0) /\ in.cycle_resolution)
        /\ result.mapper.selection_button_was_pressed
             = (Usable(in, 0) /\ in.select_resolution)
    BY <1>1, LatchFacts
  <2>2. in.cycle_resolution \in BOOLEAN /\ in.select_resolution \in BOOLEAN
    BY <1>1 DEF GamepadState
  <2> HIDE DEF in, result
  <2>3. QED
    BY <1>3, <2>1, <2>2
<1>6. KeyboardReport(result.out) \notin MotionReports \union {NoKeys} =>
        \/ in.select_resolution /\ ~from.selection_button_was_pressed
        \/ in.cycle_resolution /\ ~from.resolution_button_was_pressed
  BY <1>1, <1>2, ReportFacts, StepFacts, MassoAssumption
<1>7. KeyboardReport(result.out) \in KeyboardReports
  BY <1>2, ReportFacts, MassoAssumption
<1>8. QED
  BY <1>2, <1>4, <1>5, <1>6, <1>7
-----------------------------------------------------------------------------
(* The receiver's own types, without those of the keyboard.                *)
LocalTypeOK ==
  /\ pc \in {"poll", "bus", "config", "stale", "usb", "sleep"}
  /\ hid_open \in BOOLEAN /\ descriptor_ready \in BOOLEAN
  /\ silence \in 0..MaxSilence /\ stamped \in BOOLEAN
  /\ mapper \in MapperState
  /\ production_mapping \in Mappings
  /\ cdc_open \in BOOLEAN /\ config_active \in BOOLEAN
  /\ pairing_candidate_selected \in BOOLEAN
  /\ neutral_seen \in BOOLEAN /\ pressed \subseteq {"cycle", "select"}

LEMMA NoSilence == 0 \in 0..MaxSilence
  BY StaleTimeoutAssumption, ClockAssumption DEF MaxSilence

(* Every report, link event, setup pass, service call and sleep keeps them.*)
LEMMA LocalTypeStep == LocalTypeOK /\ [BridgeNext]_bridgeVars => LocalTypeOK'
<1> SUFFICES ASSUME LocalTypeOK, [BridgeNext]_bridgeVars
             PROVE  LocalTypeOK'
  OBVIOUS
<1> USE DEF LocalTypeOK, linkVars, clockVars, setupVars, historyVars
<1>1. CASE HidOpened \/ HidClosed \/ DescriptorSupported \/ DescriptorUnsupported
  BY <1>1 DEF HidOpened, HidClosed, DescriptorSupported, DescriptorUnsupported,
              FailClosed, LockOutput
<1>2. ASSUME NEW report \in PadReports, HidReport(report)
      PROVE  LocalTypeOK'
  <2>1. CASE RefuseReport(report)
    BY <1>2, <2>1, ResetFacts DEF HidReport, RefuseReport, LockOutput
  <2>2. CASE IgnoreReport(report)
    BY <1>2, <2>2 DEF HidReport, IgnoreReport
  <2>3. CASE MapReport(report)
    <3> DEFINE from == IF rearm_required THEN ResetMapper(mapper) ELSE mapper
    <3>1. from \in MapperState
      BY ResetFacts
    <3>2. mapper' \in MapperState
      BY <2>3, <3>1, MapFacts DEF MapReport
    <3>3. neutral_seen' \in BOOLEAN /\ pressed' \subseteq {"cycle", "select"}
      BY <2>3 DEF MapReport, StepControls, SafeToArm
    <3>4. silence' \in 0..MaxSilence
      BY <2>3, NoSilence DEF MapReport
    <3>5. stamped' \in BOOLEAN
      BY <2>3 DEF MapReport
    <3>6. QED
      BY <1>2, <3>2, <3>3, <3>4, <3>5 DEF HidReport
  <2>4. QED
    BY <1>2, <2>1, <2>2, <2>3 DEF HidReport
<1>3. CASE EndPoll \/ TudTask
  BY <1>3 DEF EndPoll, TudTask
<1>4. CASE ServiceConfig
  BY <1>4 DEF ServiceConfig, LockOutput
<1>5. CASE ServiceStale
  BY <1>5 DEF ServiceStale, FailClosed, LockOutput
<1>6. CASE ServiceUsb
  BY <1>6 DEF ServiceUsb
<1>7. CASE Sleep
  <2>1. silence' \in 0..MaxSilence
    BY <1>7, StaleTimeoutAssumption, ClockAssumption DEF Sleep, MaxSilence
  <2>2. QED
    BY <1>7, <2>1 DEF Sleep
<1>8. CASE HostTakesReport
  BY <1>8 DEF HostTakesReport
<1>9. CASE UNCHANGED bridgeVars
  BY <1>9 DEF bridgeVars
<1>10. QED
  BY <1>1, <1>2, <1>3, <1>4, <1>5, <1>6, <1>7, <1>8, <1>9 DEF BridgeNext, Bluetooth, Handlers

LEMMA LocalTypes == BridgeSpec => []LocalTypeOK
<1>1. InitMapper \in MapperState
  BY DEF InitMapper, MapperState, Resolutions
<1>2. BridgeInit => LocalTypeOK
  BY <1>1, NoSilence DEF BridgeInit, LocalTypeOK
<1>3. QED
  BY <1>2, LocalTypeStep, PTL DEF BridgeSpec

(* A lock with its release is a publication, as is every mapped report.    *)
LEMMA LockPublishes ==
  ASSUME LockOutput, UNCHANGED otherUsbVars
  PROVE  UsbNext
<1>1. Publish(NoKeys, TRUE)
  BY ReportsAssumption DEF Publish, LockOutput, otherUsbVars, device
<1>2. QED
  BY <1>1, ReportsAssumption DEF UsbNext, SteadyNext

LEMMA UsbStep ==
  ASSUME LocalTypeOK, UsbTypeOK, [BridgeNext]_bridgeVars
  PROVE  [UsbNext]_usbVars
<1>1. CASE HidOpened \/ HidClosed \/ DescriptorUnsupported
  BY <1>1, LockPublishes DEF HidOpened, HidClosed, DescriptorUnsupported, FailClosed
<1>2. CASE DescriptorSupported \/ EndPoll
  BY <1>2 DEF DescriptorSupported, EndPoll
<1>3. ASSUME NEW report \in PadReports, HidReport(report)
      PROVE  [UsbNext]_usbVars
  <2>1. CASE RefuseReport(report)
    BY <1>3, <2>1, LockPublishes DEF HidReport, RefuseReport
  <2>2. CASE IgnoreReport(report)
    <3>1. CASE rearm_required
      BY <1>3, <2>2, <3>1, ReportsAssumption
         DEF HidReport, IgnoreReport, UsbNext, SteadyNext, Publish, otherUsbVars, device
    <3>2. CASE ~rearm_required
      <4>1. Publish(NoKeys, FALSE)
        BY <1>3, <2>2, <3>2, ReportsAssumption
           DEF HidReport, IgnoreReport, Publish, otherUsbVars, device, UsbTypeOK
      <4>2. QED
        BY <4>1, ReportsAssumption DEF UsbNext, SteadyNext
    <3>3. QED
      BY <3>1, <3>2
  <2>3. CASE MapReport(report)
    <3>1. desired_report' \in KeyboardReports
      BY <2>3, MapFacts, ResetFacts, ReportsAssumption DEF MapReport, LocalTypeOK
    <3>2. rearm_required' \in BOOLEAN /\ (rearm_required' => rearm_required)
      BY <2>3 DEF MapReport, SafeToArm, UsbTypeOK
    <3>3. rearm_required => desired_report' = NoKeys
      BY <2>3 DEF MapReport
    <3>4. Publish(desired_report', rearm_required')
      BY <1>3, <3>2, <3>3, ReportsAssumption DEF Publish, HidReport, otherUsbVars
    <3>5. QED
      BY <3>1, <3>2, <3>4 DEF UsbNext, SteadyNext
  <2>4. QED
    BY <1>3, <2>1, <2>2, <2>3 DEF HidReport
<1>4. CASE TudTask
  BY <1>4 DEF TudTask, UsbNext, SteadyNext
<1>5. CASE ServiceConfig
  BY <1>5, LockPublishes DEF ServiceConfig
<1>6. CASE ServiceStale
  BY <1>6, LockPublishes DEF ServiceStale, FailClosed
<1>7. CASE ServiceUsb
  BY <1>7 DEF ServiceUsb, UsbNext, SteadyNext
<1>8. CASE Sleep \/ UNCHANGED bridgeVars
  BY <1>8 DEF Sleep, bridgeVars
<1>9. CASE HostTakesReport
  BY <1>9 DEF HostTakesReport, UsbNext, SteadyNext
<1>10. QED
  BY <1>1, <1>2, <1>3, <1>4, <1>5, <1>6, <1>7, <1>8, <1>9 DEF BridgeNext, Bluetooth, Handlers

(* The handlers keep the contract of the keyboard module, suspends         *)
(* included, so every theorem of KeyboardProofs about UsbSpec holds here.  *)
THEOREM BridgeRefinesUsb == BridgeSpec => BridgeImplementsUsb
<1>1. BridgeInit => UsbInit
  BY DEF BridgeInit
<1>2. UsbInit => UsbTypeOK
  BY ReportsAssumption DEF UsbInit, UsbTypeOK
<1>3. LocalTypeOK /\ UsbTypeOK /\ [BridgeNext]_bridgeVars
        => [UsbNext]_usbVars /\ UsbTypeOK'
  BY UsbStep, UsbTypeStep
<1>4. QED
  BY <1>1, <1>2, <1>3, LocalTypes, PTL DEF BridgeSpec, BridgeImplementsUsb, UsbSpec

(* The receiver's types and the keyboard's, for any bounds and inputs.     *)
THEOREM BridgeTypeCorrect == BridgeSpec => []BridgeTypeOK
<1>1. LocalTypeOK /\ UsbTypeOK => BridgeTypeOK
  BY DEF LocalTypeOK, BridgeTypeOK
<1>2. BridgeSpec => UsbSpec
  BY BridgeRefinesUsb DEF BridgeImplementsUsb
<1>3. QED
  BY <1>1, <1>2, LocalTypes, UsbTypeCorrect, PTL

(* Whatever the controller and the setup session do, a key is queued only  *)
(* on a bus that was up at the previous service_usb_keyboard() and is up   *)
(* now, with no re-arm due (live_bridge_bench.cpp:476-510).  An outage     *)
(* within one tud_task() is not excluded: MCUsbOutage.                     *)
THEOREM BridgeQueuesArmedKeys == BridgeSpec => QueuedKeyIsArmed
<1>1. BridgeSpec => UsbSpec
  BY BridgeRefinesUsb DEF BridgeImplementsUsb
<1>2. QED
  BY <1>1, UsbQueuesArmedKeys
-----------------------------------------------------------------------------
\* A report without motion came before the output was unlocked.
UnlockedByNeutral == ~rearm_required => neutral_seen

(* A key is asked for only after a neutral report, of a recognised and     *)
(* committed controller and outside setup.                                 *)
LEMMA NeutralStep ==
  ASSUME LocalTypeOK, UsbTypeOK, MotionNeedsNeutral, UnlockedByNeutral,
         [BridgeNext]_bridgeVars
  PROVE  MotionNeedsNeutral' /\ UnlockedByNeutral'
<1> USE DEF MotionNeedsNeutral, UnlockedByNeutral, linkVars, setupVars, historyVars,
            usbVars, firmware, otherUsbVars, LocalTypeOK
<1>1. CASE HidOpened \/ HidClosed \/ DescriptorUnsupported \/ DescriptorSupported
  BY <1>1 DEF HidOpened, HidClosed, DescriptorUnsupported, DescriptorSupported,
              FailClosed, LockOutput
<1>2. ASSUME NEW report \in PadReports, HidReport(report)
      PROVE  MotionNeedsNeutral' /\ UnlockedByNeutral'
  <2>1. CASE RefuseReport(report)
    BY <1>2, <2>1 DEF HidReport, RefuseReport, LockOutput
  <2>2. CASE IgnoreReport(report)
    BY <1>2, <2>2 DEF HidReport, IgnoreReport
  <2>3. CASE MapReport(report) /\ rearm_required
    BY <1>2, <2>3 DEF HidReport, MapReport
  <2>4. CASE MapReport(report) /\ ~rearm_required
    <3>1. ~rearm_required' /\ neutral_seen' /\ descriptor_ready /\ ~Withheld
      BY <2>4 DEF MapReport
    <3>2. hid_open /\ UNCHANGED <<linkVars, setupVars>>
      BY <1>2 DEF HidReport
    <3>3. QED
      BY <3>1, <3>2 DEF Withheld
  <2>5. QED
    BY <1>2, <2>1, <2>2, <2>3, <2>4 DEF HidReport
<1>3. CASE EndPoll \/ Sleep \/ UNCHANGED bridgeVars
  BY <1>3 DEF EndPoll, Sleep, bridgeVars
<1>4. CASE TudTask
  BY <1>4 DEF TudTask, BusReset, BusSuspend, BusResume
<1>5. CASE ServiceConfig
  BY <1>5 DEF ServiceConfig, LockOutput
<1>6. CASE ServiceStale
  BY <1>6 DEF ServiceStale, FailClosed, LockOutput
<1>7. CASE ServiceUsb
  <2>1. CASE UsbSendFails /\ neutral_seen' = FALSE
    BY <1>7, <2>1 DEF ServiceUsb, UsbSendFails
  <2>2. CASE (UsbIdle \/ UsbSend) /\ neutral_seen' = (neutral_seen /\ ~MountChanged)
    <3>1. /\ desired_report' = Wanted /\ rearm_required' = (rearm_required \/ MountChanged)
          /\ neutral_seen' = (neutral_seen /\ ~MountChanged)
          /\ UNCHANGED <<linkVars, setupVars>>
      BY <1>7, <2>2 DEF ServiceUsb, UsbIdle, UsbSend
    <3>2. CASE MountChanged
      BY <3>1, <3>2 DEF Wanted
    <3>3. CASE ~MountChanged
      BY <3>1, <3>3 DEF Wanted, UsbTypeOK
    <3>4. QED
      BY <3>2, <3>3
  <2>3. QED
    BY <1>7, <2>1, <2>2 DEF ServiceUsb
<1>8. CASE HostTakesReport
  BY <1>8 DEF HostTakesReport, HostPoll
<1>9. QED
  BY <1>1, <1>2, <1>3, <1>4, <1>5, <1>6, <1>7, <1>8 DEF BridgeNext, Bluetooth, Handlers

THEOREM BridgeNeedsNeutral == BridgeSpec => []MotionNeedsNeutral
<1>1. BridgeInit => MotionNeedsNeutral /\ UnlockedByNeutral
  BY DEF BridgeInit, UsbInit, MotionNeedsNeutral, UnlockedByNeutral
<1>2. BridgeTypeOK => LocalTypeOK /\ UsbTypeOK
  BY DEF LocalTypeOK, BridgeTypeOK
<1>3. QED
  BY <1>1, <1>2, NeutralStep, BridgeTypeCorrect, PTL DEF BridgeSpec

\* With a clock that never reads zero at a report, a key has its time
\* known; past the timeout only from the sleep to the next stale check.
KeyIsTimed ==
  desired_report # NoKeys =>
    /\ stamped
    /\ silence <= (IF pc \in {"usb", "sleep"} THEN StaleTimeout
                   ELSE StaleTimeout + LoopTime)

LEMMA SilenceStep ==
  ASSUME ~ClockWraps, LocalTypeOK, UsbTypeOK, KeyIsTimed, [BridgeNext]_bridgeVars
  PROVE  KeyIsTimed'
<1> USE StaleTimeoutAssumption, ClockAssumption
    DEF KeyIsTimed, clockVars, usbVars, firmware, otherUsbVars
<1>1. silence \in Int
  BY DEF LocalTypeOK, MaxSilence
<1>2. CASE HidOpened \/ HidClosed \/ DescriptorUnsupported \/ DescriptorSupported
  BY <1>2 DEF HidOpened, HidClosed, DescriptorUnsupported, DescriptorSupported,
              FailClosed, LockOutput
<1>3. ASSUME NEW report \in PadReports, HidReport(report)
      PROVE  KeyIsTimed'
  <2>1. CASE RefuseReport(report) \/ IgnoreReport(report)
    BY <1>3, <2>1 DEF HidReport, RefuseReport, IgnoreReport, LockOutput
  <2>2. CASE MapReport(report)
    <3>1. silence' = 0 /\ stamped'
      BY <2>2 DEF MapReport
    <3>2. 0 <= StaleTimeout /\ 0 <= StaleTimeout + LoopTime
      OBVIOUS
    <3>3. QED
      BY <3>1, <3>2
  <2>3. QED
    BY <1>3, <2>1, <2>2 DEF HidReport
<1>4. CASE EndPoll \/ UNCHANGED bridgeVars
  BY <1>4 DEF EndPoll, bridgeVars
<1>5. CASE TudTask
  BY <1>5 DEF TudTask, BusReset, BusSuspend, BusResume
<1>6. CASE ServiceConfig
  BY <1>6 DEF ServiceConfig, LockOutput
<1>7. CASE ServiceStale
  BY <1>1, <1>7 DEF ServiceStale, Stale, FailClosed, LockOutput
<1>8. CASE ServiceUsb
  BY <1>8 DEF ServiceUsb, UsbIdle, UsbSend, UsbSendFails, Wanted
<1>9. CASE Sleep
  <2>1. PICK t \in 1..LoopTime :
          silence' = IF silence + t > MaxSilence THEN MaxSilence ELSE silence + t
    BY <1>9 DEF Sleep
  <2>2. silence <= StaleTimeout => silence' <= StaleTimeout + LoopTime
    BY <1>1, <2>1 DEF MaxSilence
  <2>3. QED
    BY <1>9, <2>2 DEF Sleep
<1>10. CASE HostTakesReport
  BY <1>10 DEF HostTakesReport, HostPoll
<1>11. QED
  BY <1>2, <1>3, <1>4, <1>5, <1>6, <1>7, <1>8, <1>9, <1>10 DEF BridgeNext, Bluetooth, Handlers

(* A key is asked for no longer than the timeout and one pass of the loop, *)
(* as long as no report comes at the zero of the wrapped clock.            *)
THEOREM BridgeSilenceReleases == ~ClockWraps => (BridgeSpec => []SilenceReleases)
<1> SUFFICES ASSUME ~ClockWraps
             PROVE  BridgeSpec => []SilenceReleases
  OBVIOUS
<1>1. BridgeInit => KeyIsTimed
  BY DEF BridgeInit, UsbInit, KeyIsTimed
<1>2. BridgeTypeOK => LocalTypeOK /\ UsbTypeOK
  BY DEF LocalTypeOK, BridgeTypeOK
<1>3. BridgeTypeOK /\ KeyIsTimed => SilenceReleases
  BY StaleTimeoutAssumption, ClockAssumption
     DEF BridgeTypeOK, KeyIsTimed, SilenceReleases, MaxSilence
<1>4. BridgeTypeOK /\ KeyIsTimed /\ [BridgeNext]_bridgeVars => KeyIsTimed'
  BY <1>2, SilenceStep
<1>5. QED
  BY <1>1, <1>3, <1>4, BridgeTypeCorrect, PTL DEF BridgeSpec

\* The mapper's latches know the buttons of the last report mapped.
LatchesFollow ==
  /\ mapper.resolution_button_was_pressed <=> "cycle" \in pressed
  /\ mapper.selection_button_was_pressed <=> "select" \in pressed

LEMMA LatchStep ==
  ASSUME LocalTypeOK, UsbTypeOK, LatchesFollow, [BridgeNext]_bridgeVars
  PROVE  /\ LatchesFollow'
         /\ desired_report' \notin {NoKeys, desired_report} \union MotionReports
              => pressed' \ pressed # {}
<1> USE DEF LatchesFollow, historyVars, usbVars, firmware, otherUsbVars
<1>1. CASE HidOpened \/ HidClosed \/ DescriptorUnsupported \/ DescriptorSupported
  BY <1>1 DEF HidOpened, HidClosed, DescriptorUnsupported, DescriptorSupported,
              FailClosed, LockOutput
<1>2. ASSUME NEW report \in PadReports, RefuseReport(report)
      PROVE  LatchesFollow' /\ desired_report' = NoKeys
  BY <1>2, ResetFacts DEF RefuseReport, LockOutput, LocalTypeOK
<1>3. ASSUME NEW report \in PadReports, IgnoreReport(report)
      PROVE  LatchesFollow' /\ desired_report' = NoKeys
  BY <1>3 DEF IgnoreReport
<1>4. ASSUME NEW report \in PadReports, MapReport(report)
      PROVE  /\ LatchesFollow'
             /\ desired_report' \notin {NoKeys} \union MotionReports
                  => pressed' \ pressed # {}
  <2> DEFINE from == IF rearm_required THEN ResetMapper(mapper) ELSE mapper
             result == Update(from, Input(report), 0)
  <2>1. from \in MapperState /\ production_mapping \in Mappings
    BY ResetFacts DEF LocalTypeOK
  <2>2. mapper' = result.mapper /\ pressed' = StepControls(Input(report))
    BY <1>4 DEF MapReport
  <2>3. LatchesFollow'
    BY <2>1, <2>2, MapFacts
  <2>4. CASE desired_report' \notin {NoKeys} \union MotionReports
    <3>1. from = mapper /\ desired_report' = KeyboardReport(result.out)
      BY <1>4, <2>4 DEF MapReport
    <3>2. \/ "cycle" \in pressed' /\ ~mapper.resolution_button_was_pressed
          \/ "select" \in pressed' /\ ~mapper.selection_button_was_pressed
      BY <2>1, <2>2, <2>4, <3>1, MapFacts
    <3>3. QED
      BY <2>3, <3>2
  <2>5. QED
    BY <2>3, <2>4
<1>5. CASE \/ EndPoll \/ TudTask \/ ServiceConfig \/ ServiceStale \/ ServiceUsb
           \/ Sleep \/ HostTakesReport \/ UNCHANGED bridgeVars
  <2>1. UNCHANGED <<mapper, pressed>> /\ desired_report' \in {NoKeys, desired_report}
    BY <1>5
       DEF EndPoll, TudTask, BusReset, BusSuspend, BusResume, ServiceConfig,
           ServiceStale, FailClosed, LockOutput, ServiceUsb, UsbIdle, UsbSend,
           UsbSendFails, Wanted, Sleep, HostTakesReport, HostPoll, bridgeVars
  <2>2. QED
    BY <2>1
<1>6. QED
  BY <1>1, <1>2, <1>3, <1>4, <1>5 DEF BridgeNext, Bluetooth, Handlers, HidReport

(* A step-size button yields a command only when it was up in the report   *)
(* mapped before, over re-arms and changes of the mapping.                 *)
THEOREM BridgeOneStepPerPress == BridgeSpec => StepNeedsNewPress
<1>1. BridgeInit => LatchesFollow
  BY DEF BridgeInit, InitMapper, LatchesFollow
<1>2. BridgeTypeOK => LocalTypeOK /\ UsbTypeOK
  BY DEF LocalTypeOK, BridgeTypeOK
<1>3. BridgeTypeOK /\ LatchesFollow /\ [BridgeNext]_bridgeVars
        => /\ LatchesFollow'
           /\ [desired_report' \notin {NoKeys, desired_report} \union MotionReports
                 => pressed' \ pressed # {}]_bridgeVars
  BY <1>2, LatchStep
<1>4. QED
  BY <1>1, <1>3, BridgeTypeCorrect, PTL DEF BridgeSpec, StepNeedsNewPress
-----------------------------------------------------------------------------
\* The two clocks of a pass: the time spent, and what was spent when now_ms
\* was read, known only until it is used.
TimesOK ==
  /\ silence \in Nat /\ spent \in 0..LoopTime
  /\ now_at \in 0..spent /\ (pc # "last_ms" => now_at = 0)

\* The statements from which the coming check of this pass is still to act.
BeforeCheck ==
  pc \in {"poll", "bus", "config", "stale", "last_ms", "lock", "unstamp",
          "stale_release"}
  \/ (pc = "key_active" /\ overdue)

\* A key has its time known until the release that follows, and is past it
\* by what was spent of this pass, and of the one before until the check.
KeyHasTime ==
  desired_report # NoKeys =>
    /\ stamped \/ pc = "stale_release"
    /\ silence <= StaleTimeout + spent + (IF BeforeCheck THEN LoopTime ELSE 0)

LEMMA TimesStep == TimesOK /\ [StatementNext]_statementVars => TimesOK'
<1> SUFFICES ASSUME TimesOK, [StatementNext]_statementVars
             PROVE  TimesOK'
  OBVIOUS
<1> USE StaleTimeoutAssumption, ClockAssumption
    DEF TimesOK, clockVars, localVars, MaxAge
<1>1. CASE Interrupt
  <2>1. UNCHANGED <<pc, spent, now_at>>
    BY <1>1 DEF Interrupt, Handlers, HidOpened, HidClosed, DescriptorSupported,
                DescriptorUnsupported, HidReport
  <2>2. silence' \in {0, silence}
    BY <1>1 DEF Interrupt, Handlers, HidOpened, HidClosed, DescriptorSupported,
                DescriptorUnsupported, FailClosed, HidReport, RefuseReport,
                IgnoreReport, MapReport
  <2>3. QED
    BY <2>1, <2>2
<1>2. CASE LoopAsBefore
  BY <1>2 DEF LoopAsBefore, EndPoll, TudTask, ServiceConfig
<1>3. CASE ReadNow \/ ReadLast \/ ReadKeyActive
  BY <1>3 DEF ReadNow, ReadLast, ReadKeyActive, StaleOrder
<1>4. CASE LockStale \/ Unstamp \/ FinishLock
  BY <1>4 DEF LockStale, Unstamp, FinishLock, StaleOrder
<1>5. CASE CheckMount \/ CopyDesired \/ SendNothing \/ SendSucceeds \/ SendFails
  BY <1>5 DEF CheckMount, CopyDesired, SendNothing, SendSucceeds, SendFails
<1>6. CASE NextPass \/ Tick \/ HostTakes
  BY <1>6 DEF NextPass, Tick, HostTakes, HostTakesReport
<1>7. CASE UNCHANGED statementVars
  BY <1>7 DEF statementVars, bridgeVars
<1>8. QED
  BY <1>1, <1>2, <1>3, <1>4, <1>5, <1>6, <1>7 DEF StatementNext

LEMMA TimeStep ==
  ASSUME ~ClockWraps, TimesOK, KeyHasTime, [StatementNext]_statementVars
  PROVE  KeyHasTime'
<1> USE StaleTimeoutAssumption, ClockAssumption
    DEF TimesOK, KeyHasTime, BeforeCheck, clockVars, localVars, usbVars,
        firmware, otherUsbVars
<1>1. CASE Interrupt
  <2>1. UNCHANGED <<pc, spent, overdue>>
    BY <1>1 DEF Interrupt, Handlers, HidOpened, HidClosed, DescriptorSupported,
                DescriptorUnsupported, HidReport
  <2>2. CASE desired_report' = NoKeys
    BY <2>2
  <2>3. CASE DescriptorSupported
    BY <2>1, <2>3 DEF DescriptorSupported
  <2>4. ASSUME NEW report \in PadReports, MapReport(report)
        PROVE  KeyHasTime'
    <3>1. silence' = 0 /\ stamped'
      BY <2>4 DEF MapReport
    <3>2. 0 <= StaleTimeout + spent /\ 0 <= StaleTimeout + spent + LoopTime
      OBVIOUS
    <3>3. QED
      BY <2>1, <3>1, <3>2
  <2>5. QED
    BY <1>1, <2>2, <2>3, <2>4
       DEF Interrupt, Handlers, HidOpened, HidClosed, DescriptorUnsupported,
           FailClosed, LockOutput, HidReport, RefuseReport, IgnoreReport
<1>2. CASE LoopAsBefore
  <2>1. /\ UNCHANGED <<clockVars, spent, overdue>>
        /\ pc \in {"poll", "bus", "config"} /\ pc' \in {"bus", "config", "stale"}
        /\ desired_report' \in {NoKeys, desired_report}
    BY <1>2 DEF LoopAsBefore, EndPoll, TudTask, BusReset, BusSuspend, BusResume,
                ServiceConfig, LockOutput
  <2>2. QED
    BY <2>1
<1>3. CASE ReadNow
  BY <1>3 DEF ReadNow
<1>4. CASE ReadLast
  <2>1. /\ UNCHANGED <<clockVars, spent, desired_report>>
        /\ pc = "last_ms" /\ pc' = "key_active"
        /\ overdue' = (stamped /\ TooOld)
    BY <1>4 DEF ReadLast
  <2>2. CASE overdue'
    BY <2>1, <2>2
  <2>3. CASE ~overdue' /\ desired_report # NoKeys
    <3>1. ~TooOld
      BY <2>1, <2>3
    <3>2. silence <= StaleTimeout + spent
      BY <3>1 DEF TooOld
    <3>3. QED
      BY <2>1, <2>3, <3>2
  <2>4. QED
    BY <2>1, <2>2, <2>3
<1>5. CASE ReadKeyActive
  BY <1>5 DEF ReadKeyActive, StaleOrder
<1>6. CASE LockStale
  BY <1>6 DEF LockStale, Lock, StaleOrder
<1>7. CASE Unstamp
  BY <1>7 DEF Unstamp, StaleOrder
<1>8. CASE FinishLock
  BY <1>8 DEF FinishLock
<1>9. CASE CheckMount
  BY <1>9 DEF CheckMount, Lock
<1>10. CASE CopyDesired \/ SendNothing \/ SendSucceeds \/ SendFails
  BY <1>10 DEF CopyDesired, SendNothing, SendSucceeds, SendFails, Lock
<1>11. CASE NextPass
  <2>1. /\ pc = "sleep" /\ pc' = "poll" /\ spent' = 0
        /\ UNCHANGED <<clockVars, desired_report, overdue>>
    BY <1>11 DEF NextPass
  <2>2. QED
    BY <2>1
<1>12. CASE Tick
  <2>1. /\ spent' = spent + 1 /\ silence' <= silence + 1
        /\ UNCHANGED <<pc, stamped, overdue, desired_report>>
    BY <1>12 DEF Tick
  <2>2. silence' \in Int
    BY <1>12 DEF Tick, MaxAge
  <2>3. QED
    BY <2>1, <2>2
<1>13. CASE HostTakes \/ UNCHANGED statementVars
  BY <1>13 DEF HostTakes, HostTakesReport, HostPoll, statementVars, bridgeVars
<1>14. QED
  BY <1>1, <1>2, <1>3, <1>4, <1>5, <1>6, <1>7, <1>8, <1>9, <1>10, <1>11, <1>12,
     <1>13 DEF StatementNext

(* Wherever reports interrupt the statements, a key is asked for no longer *)
(* than the timeout and two passes, if no report comes at the zero of the  *)
(* wrapped clock (live_bridge_bench.cpp:463-474).                          *)
THEOREM StatementKeyRunsOut == ~ClockWraps => (StatementSpec => []KeyRunsOut)
<1> SUFFICES ASSUME ~ClockWraps
             PROVE  StatementSpec => []KeyRunsOut
  OBVIOUS
<1>1. StatementInit => TimesOK /\ KeyHasTime
  BY StaleTimeoutAssumption, ClockAssumption
     DEF StatementInit, BridgeInit, UsbInit, TimesOK, KeyHasTime
<1>2. TimesOK /\ KeyHasTime => KeyRunsOut
  BY StaleTimeoutAssumption, ClockAssumption DEF TimesOK, KeyHasTime, KeyRunsOut
<1>3. TimesOK /\ KeyHasTime /\ [StatementNext]_statementVars
        => TimesOK' /\ KeyHasTime'
  BY TimesStep, TimeStep
<1>4. QED
  BY <1>1, <1>2, <1>3, PTL DEF StatementSpec

\* Between the statements of a lock a key may still be out; elsewhere it is
\* armed.  service_usb_keyboard() goes on only with the mount it has seen.
KeyIsArmed ==
  /\ UnlockedByNeutral /\ rearm_required \in BOOLEAN
  /\ desired_report # NoKeys =>
       hid_open /\ descriptor_ready /\ (pc \notin Locking => ~rearm_required)
  /\ pc = "ready" => was_mounted = Mounted

LEMMA ArmedStep ==
  ASSUME KeyIsArmed, [StatementNext]_statementVars
  PROVE  KeyIsArmed'
<1> USE DEF KeyIsArmed, UnlockedByNeutral, Locking, linkVars, usbVars, firmware,
            otherUsbVars, reportVars, historyVars
<1>1. CASE Interrupt
  <2>1. UNCHANGED <<pc, was_mounted, tud_mounted, usb_suspended>>
    BY <1>1 DEF Interrupt, Handlers, HidOpened, HidClosed, DescriptorSupported,
                DescriptorUnsupported, HidReport, FailClosed, device
  <2>2. CASE HidOpened \/ HidClosed \/ DescriptorUnsupported
    BY <2>1, <2>2 DEF HidOpened, HidClosed, DescriptorUnsupported, FailClosed,
                      LockOutput, Mounted
  <2>3. CASE DescriptorSupported
    BY <2>1, <2>3 DEF DescriptorSupported, Mounted
  <2>4. ASSUME NEW report \in PadReports, HidReport(report)
        PROVE  KeyIsArmed'
    <3>1. hid_open /\ UNCHANGED linkVars
      BY <2>4 DEF HidReport
    <3>2. CASE RefuseReport(report)
      BY <2>1, <3>1, <3>2 DEF RefuseReport, LockOutput, Mounted
    <3>3. CASE IgnoreReport(report)
      BY <2>1, <3>1, <3>3 DEF IgnoreReport, Mounted
    <3>4. CASE MapReport(report) /\ rearm_required
      BY <2>1, <3>1, <3>4 DEF MapReport, Mounted, SafeToArm
    <3>5. CASE MapReport(report) /\ ~rearm_required
      <4>1. rearm_required' = FALSE /\ neutral_seen' /\ descriptor_ready
        BY <3>5 DEF MapReport
      <4>2. QED
        BY <2>1, <3>1, <4>1 DEF Mounted
    <3>6. QED
      BY <2>4, <3>2, <3>3, <3>4, <3>5 DEF HidReport
  <2>5. QED
    BY <1>1, <2>2, <2>3, <2>4 DEF Interrupt, Handlers
<1>2. CASE LoopAsBefore
  <2>1. CASE EndPoll
    BY <2>1 DEF EndPoll
  <2>2. CASE TudTask
    BY <2>2 DEF TudTask, BusReset, BusSuspend, BusResume
  <2>3. CASE ServiceConfig
    <3>1. pc = "config" /\ pc' = "stale" /\ UNCHANGED <<hid_open, descriptor_ready>>
      BY <2>3 DEF ServiceConfig
    <3>2. \/ rearm_required' = TRUE /\ desired_report' = NoKeys
          \/ UNCHANGED <<desired_report, rearm_required, neutral_seen>>
      BY <2>3 DEF ServiceConfig, LockOutput
    <3>3. CASE rearm_required' = TRUE /\ desired_report' = NoKeys
      BY <3>1, <3>3
    <3>4. CASE UNCHANGED <<desired_report, rearm_required, neutral_seen>>
      BY <3>1, <3>4
    <3>5. QED
      BY <3>2, <3>3, <3>4
  <2>4. QED
    BY <1>2, <2>1, <2>2, <2>3 DEF LoopAsBefore
<1>3. CASE ReadNow \/ ReadLast \/ NextPass
  BY <1>3 DEF ReadNow, ReadLast, NextPass
<1>4. CASE ReadKeyActive
  BY <1>4 DEF ReadKeyActive, StaleOrder
<1>5. CASE LockStale \/ Unstamp
  <2>1. /\ pc \in {"lock", "unstamp"} /\ pc' \in Locking
        /\ UNCHANGED <<hid_open, descriptor_ready, desired_report>>
    BY <1>5 DEF LockStale, Unstamp, Lock, StaleOrder
  <2>2. rearm_required' = TRUE \/ UNCHANGED <<rearm_required, neutral_seen>>
    BY <1>5 DEF LockStale, Unstamp, Lock
  <2>3. QED
    BY <2>1, <2>2
<1>6. CASE FinishLock
  BY <1>6 DEF FinishLock, StaleOrder, Mounted, device
<1>7. CASE CheckMount
  <2>1. pc = "usb" /\ UNCHANGED <<hid_open, descriptor_ready, desired_report>>
    BY <1>7 DEF CheckMount, Lock
  <2>2. CASE MountChanged
    <3>1. pc' = "mount_release" /\ rearm_required' = TRUE
      BY <1>7, <2>2 DEF CheckMount, Lock
    <3>2. QED
      BY <2>1, <3>1
  <2>3. CASE ~MountChanged
    <3>1. /\ pc' = "ready" /\ UNCHANGED <<rearm_required, neutral_seen>>
          /\ UNCHANGED <<was_mounted, tud_mounted, usb_suspended>>
      BY <1>7, <2>3 DEF CheckMount, device
    <3>2. (was_mounted = Mounted)'
      BY <2>3, <3>1 DEF MountChanged, Mounted
    <3>3. QED
      BY <2>1, <3>1, <3>2
  <2>4. QED
    BY <2>2, <2>3
<1>8. CASE CopyDesired \/ SendNothing
  BY <1>8 DEF CopyDesired, SendNothing
<1>9. CASE SendSucceeds \/ SendFails
  <2>1. pc = "send" /\ UNCHANGED <<hid_open, descriptor_ready, desired_report>>
    BY <1>9 DEF SendSucceeds, SendFails, Lock
  <2>2. \/ pc' = "sleep" /\ UNCHANGED <<rearm_required, neutral_seen>>
        \/ pc' = "fail_release" /\ rearm_required' = TRUE
    BY <1>9 DEF SendSucceeds, SendFails, Lock
  <2>3. CASE pc' = "sleep" /\ UNCHANGED <<rearm_required, neutral_seen>>
    BY <2>1, <2>3
  <2>4. CASE pc' = "fail_release" /\ rearm_required' = TRUE
    BY <2>1, <2>4
  <2>5. QED
    BY <2>2, <2>3, <2>4
<1>10. CASE Tick
  BY <1>10 DEF Tick, Mounted, device
<1>11. CASE HostTakes \/ UNCHANGED statementVars
  BY <1>11 DEF HostTakes, HostTakesReport, HostPoll, Mounted, device,
               statementVars, bridgeVars
<1>12. QED
  BY <1>1, <1>2, <1>3, <1>4, <1>5, <1>6, <1>7, <1>8, <1>9, <1>10, <1>11
     DEF StatementNext

(* Whatever handlers do between the statements, the key copied to be sent  *)
(* is armed, suspends included (live_bridge_bench.cpp:463-487).            *)
THEOREM StatementCopiesArmedKeys == StatementSpec => []CopiedKeyIsArmed
<1>1. StatementInit => KeyIsArmed
  BY DEF StatementInit, BridgeInit, UsbInit, KeyIsArmed, UnlockedByNeutral
<1>2. KeyIsArmed => CopiedKeyIsArmed
  BY DEF KeyIsArmed, UnlockedByNeutral, CopiedKeyIsArmed, Locking
<1>3. KeyIsArmed /\ [StatementNext]_statementVars => KeyIsArmed'
  BY ArmedStep
<1>4. QED
  BY <1>1, <1>2, <1>3, PTL DEF StatementSpec
-----------------------------------------------------------------------------
\* The endpoint stays free from the check to the send: only the loop fills it.
SendReady == pc = "send" => endpoint = {}

StatementTypes == StatementTypeOK /\ SendReady

LEMMA HandlerTypes ==
  ASSUME StatementTypes, Interrupt
  PROVE  /\ mapper' \in MapperState /\ silence' \in 0..MaxAge /\ stamped' \in BOOLEAN
         /\ hid_open' \in BOOLEAN /\ descriptor_ready' \in BOOLEAN
         /\ pairing_candidate_selected' \in BOOLEAN
         /\ neutral_seen' \in BOOLEAN /\ pressed' \subseteq {"cycle", "select"}
         /\ desired_report' \in KeyboardReports /\ rearm_required' \in BOOLEAN
         /\ UNCHANGED <<pc, production_mapping, cdc_open, config_active>>
         /\ UNCHANGED otherUsbVars /\ UNCHANGED localVars
<1> USE ReportsAssumption
    DEF StatementTypes, StatementTypeOK, UsbTypeOK, linkVars, clockVars, setupVars,
        historyVars, usbVars, firmware, otherUsbVars
<1>1. 0 \in 0..MaxAge
  BY StaleTimeoutAssumption, ClockAssumption DEF MaxAge
<1>2. /\ mapper \in MapperState /\ production_mapping \in Mappings
      /\ ResetMapper(mapper) \in MapperState
  BY ResetFacts
<1>3. CASE HidOpened \/ HidClosed \/ DescriptorUnsupported \/ DescriptorSupported
  BY <1>3 DEF Interrupt, HidOpened, HidClosed, DescriptorUnsupported,
              DescriptorSupported, FailClosed, LockOutput
<1>4. ASSUME NEW report \in PadReports, HidReport(report)
      PROVE  /\ mapper' \in MapperState /\ silence' \in 0..MaxAge
             /\ stamped' \in BOOLEAN
             /\ neutral_seen' \in BOOLEAN /\ pressed' \subseteq {"cycle", "select"}
             /\ desired_report' \in KeyboardReports /\ rearm_required' \in BOOLEAN
  <2>1. CASE RefuseReport(report)
    BY <1>2, <2>1 DEF RefuseReport, LockOutput
  <2>2. CASE IgnoreReport(report)
    BY <2>2 DEF IgnoreReport
  <2>3. CASE MapReport(report)
    <3> DEFINE from == IF rearm_required THEN ResetMapper(mapper) ELSE mapper
    <3>1. from \in MapperState
      BY <1>2
    <3>2. mapper' \in MapperState /\ desired_report' \in KeyboardReports
      BY <1>2, <2>3, <3>1, MapFacts DEF MapReport
    <3>3. /\ neutral_seen' \in BOOLEAN /\ rearm_required' \in BOOLEAN
          /\ pressed' \subseteq {"cycle", "select"} /\ stamped' \in BOOLEAN
      BY <2>3 DEF MapReport, StepControls, SafeToArm
    <3>4. silence' \in 0..MaxAge
      BY <1>1, <2>3 DEF MapReport
    <3>5. QED
      BY <3>2, <3>3, <3>4
  <2>4. QED
    BY <1>4, <2>1, <2>2, <2>3 DEF HidReport
<1>5. ASSUME NEW report \in PadReports, HidReport(report)
      PROVE  UNCHANGED <<pc, linkVars, setupVars, otherUsbVars>>
  BY <1>5 DEF HidReport
<1>6. QED
  BY <1>3, <1>4, <1>5 DEF Interrupt, Handlers

LEMMA StatementTypeStep ==
  ASSUME StatementTypes, [StatementNext]_statementVars
  PROVE  StatementTypes'
<1> USE ReportsAssumption, StaleTimeoutAssumption, ClockAssumption
    DEF StatementTypes, StatementTypeOK, SendReady, UsbTypeOK, linkVars, clockVars,
        setupVars, usbVars, device, firmware, otherUsbVars, reportVars, localVars,
        Locking
<1>1. CASE Interrupt
  BY <1>1, HandlerTypes
<1>2. CASE LoopAsBefore
  <2>1. CASE EndPoll
    BY <1>2, <2>1 DEF LoopAsBefore, EndPoll, historyVars
  <2>2. CASE TudTask
    <3>1. /\ pc = "bus" /\ pc' \in {"bus", "config"}
          /\ UNCHANGED <<linkVars, clockVars, mapper, production_mapping,
                         config_active, pairing_candidate_selected, historyVars,
                         firmware, localVars>>
      BY <1>2, <2>2 DEF LoopAsBefore, TudTask, BusReset, BusSuspend, BusResume
    <3>2. cdc_open' \in BOOLEAN
      BY <2>2 DEF TudTask
    <3>3. /\ tud_mounted' \in BOOLEAN /\ usb_suspended' \in BOOLEAN
          /\ host' \in KeyboardReports
          /\ endpoint' \in {{}} \union {{r} : r \in KeyboardReports}
      BY <2>2 DEF TudTask, BusReset, BusSuspend, BusResume
    <3>4. QED
      BY <3>1, <3>2, <3>3 DEF historyVars
  <2>3. CASE ServiceConfig
    <3>1. /\ pc = "config" /\ pc' = "stale" /\ config_active' \in BOOLEAN
          /\ production_mapping' \in Mappings
          /\ pairing_candidate_selected' \in BOOLEAN
          /\ neutral_seen' \in BOOLEAN
          /\ UNCHANGED <<linkVars, clockVars, mapper, cdc_open, pressed, localVars>>
      BY <1>2, <2>3 DEF LoopAsBefore, ServiceConfig, LockOutput, Mounted
    <3>2. UsbTypeOK'
      BY <2>3 DEF ServiceConfig, LockOutput
    <3>3. QED
      BY <3>1, <3>2
  <2>4. QED
    BY <1>2, <2>1, <2>2, <2>3 DEF LoopAsBefore
<1>3. CASE ReadNow
  BY <1>3 DEF ReadNow
<1>4. CASE ReadLast
  <2>1. overdue' \in BOOLEAN
    BY <1>4 DEF ReadLast, TooOld
  <2>2. QED
    BY <1>4, <2>1 DEF ReadLast
<1>5. CASE ReadKeyActive
  <2>1. pc' \in {"lock", "usb"} /\ overdue' = FALSE
    BY <1>5 DEF ReadKeyActive, StaleOrder
  <2>2. UNCHANGED <<reportVars, clockVars, usbVars, neutral_seen,
                    polled, spent, now_at, copy>>
    BY <1>5 DEF ReadKeyActive
  <2>3. UsbTypeOK'
    BY <2>2
  <2>4. QED
    BY <2>1, <2>2, <2>3
<1>6. CASE LockStale
  <2>1. /\ pc = "lock" /\ pc' = StaleOrder[pc]
        /\ rearm_required' = TRUE /\ neutral_seen' = FALSE
    BY <1>6 DEF LockStale, Lock
  <2>2. UNCHANGED <<desired_report, reportVars, clockVars, otherUsbVars, localVars>>
    BY <1>6 DEF LockStale, Lock
  <2>3. pc' = "unstamp"
    BY <2>1 DEF StaleOrder
  <2>4. UsbTypeOK'
    BY <2>1, <2>2
  <2>5. QED
    BY <2>1, <2>2, <2>3, <2>4
<1>7. CASE Unstamp
  <2>1. pc' = "stale_release" /\ stamped' = FALSE
    BY <1>7 DEF Unstamp, StaleOrder
  <2>2. UNCHANGED <<reportVars, silence, usbVars, neutral_seen, localVars>>
    BY <1>7 DEF Unstamp
  <2>3. UsbTypeOK'
    BY <2>2
  <2>4. QED
    BY <2>1, <2>2, <2>3
<1>8. CASE FinishLock
  <2>1. was_mounted' \in BOOLEAN
    BY <1>8 DEF FinishLock, Mounted
  <2>2. pc' \in {"usb", "ready", "sleep"}
    BY <1>8 DEF FinishLock, StaleOrder
  <2>3. QED
    BY <1>8, <2>1, <2>2 DEF FinishLock
<1>9. CASE CheckMount
  <2>1. pc' \in {"mount_release", "ready"} /\ neutral_seen' \in BOOLEAN
    BY <1>9 DEF CheckMount, Lock
  <2>2. UsbTypeOK'
    BY <1>9 DEF CheckMount, Lock
  <2>3. UNCHANGED <<reportVars, clockVars, localVars>>
    BY <1>9 DEF CheckMount
  <2>4. QED
    BY <2>1, <2>2, <2>3
<1>10. CASE CopyDesired
  BY <1>10 DEF CopyDesired, Ready
<1>11. CASE SendNothing
  BY <1>11 DEF SendNothing
<1>12. CASE SendSucceeds
  <2>1. Frame \in KeyboardReports
    BY DEF Frame
  <2>2. endpoint' = {Frame}
    BY <1>12 DEF SendSucceeds
  <2>3. QED
    BY <1>12, <2>1, <2>2 DEF SendSucceeds
<1>13. CASE SendFails
  BY <1>13 DEF SendFails, Lock
<1>14. CASE NextPass
  BY <1>14 DEF NextPass
<1>15. CASE Tick
  <2>1. silence' \in 0..MaxAge /\ spent' \in 0..LoopTime
    BY <1>15 DEF Tick, MaxAge
  <2>2. QED
    BY <1>15, <2>1 DEF Tick
<1>16. CASE HostTakes
  BY <1>16 DEF HostTakes, HostTakesReport, HostPoll, historyVars
<1>17. CASE UNCHANGED statementVars
  BY <1>17 DEF statementVars, bridgeVars, historyVars
<1>18. QED
  BY <1>1, <1>2, <1>3, <1>4, <1>5, <1>6, <1>7, <1>8, <1>9, <1>10, <1>11, <1>12,
     <1>13, <1>14, <1>15, <1>16, <1>17 DEF StatementNext

LEMMA StatementTyped == StatementSpec => []StatementTypes
<1>1. InitMapper \in MapperState
  BY DEF InitMapper, MapperState, Resolutions
<1>2. 0 \in 0..MaxAge /\ 0 \in 0..LoopTime
  BY StaleTimeoutAssumption, ClockAssumption DEF MaxAge
<1>3. StatementInit => StatementTypes
  BY <1>1, <1>2, ReportsAssumption
     DEF StatementInit, BridgeInit, UsbInit, StatementTypes, StatementTypeOK,
         SendReady, UsbTypeOK
<1>4. QED
  BY <1>3, StatementTypeStep, PTL DEF StatementSpec

(* The types of the loop's statements, of their locals and of the keyboard.*)
THEOREM StatementTypeCorrect == StatementSpec => []StatementTypeOK
<1>1. StatementTypes => StatementTypeOK
  BY DEF StatementTypes
<1>2. QED
  BY <1>1, StatementTyped, PTL

\* On a bus that is never suspended: the loop sends on the bus it checked.
SentOnCheckedBus ==
  /\ usb_suspended = FALSE
  /\ pc \in {"ready", "send"} => was_mounted = Mounted
  /\ pc = "send" => Ready

LEMMA CheckedBusStep ==
  ASSUME ~HostSuspends, StatementTypes, SentOnCheckedBus, [StatementNext]_statementVars
  PROVE  SentOnCheckedBus'
<1> USE DEF StatementTypes, SentOnCheckedBus, SendReady, StatementTypeOK, UsbTypeOK,
        usbVars, device, firmware, otherUsbVars, Mounted, Ready, Locking
<1>1. CASE Interrupt
  <2>1. UNCHANGED <<pc, otherUsbVars>>
    BY <1>1, HandlerTypes
  <2>2. QED
    BY <2>1
<1>2. CASE LoopAsBefore
  <2>1. CASE EndPoll
    BY <2>1 DEF EndPoll
  <2>2. CASE TudTask
    BY <2>2 DEF TudTask, BusReset
  <2>3. CASE ServiceConfig
    <3>1. pc' = "stale" /\ usb_suspended' = usb_suspended
      BY <2>3 DEF ServiceConfig
    <3>2. QED
      BY <3>1
  <2>4. QED
    BY <1>2, <2>1, <2>2, <2>3 DEF LoopAsBefore
<1>3. CASE ReadNow \/ ReadLast \/ SendNothing \/ NextPass
  BY <1>3 DEF ReadNow, ReadLast, SendNothing, NextPass
<1>4. CASE ReadKeyActive \/ LockStale \/ Unstamp
  BY <1>4 DEF ReadKeyActive, LockStale, Unstamp, StaleOrder, Lock
<1>5. CASE FinishLock
  <2>1. usb_suspended' = usb_suspended /\ tud_mounted' = tud_mounted
    BY <1>5 DEF FinishLock
  <2>2. /\ pc' \in {"usb", "ready", "sleep"}
        /\ pc' = "ready" => was_mounted' = Mounted
    BY <1>5 DEF FinishLock, StaleOrder
  <2>3. QED
    BY <2>1, <2>2
<1>6. CASE CheckMount
  <2>1. CASE MountChanged
    BY <1>6, <2>1 DEF CheckMount, Lock
  <2>2. CASE ~MountChanged
    BY <1>6, <2>2 DEF CheckMount, MountChanged
  <2>3. QED
    BY <2>1, <2>2
<1>7. CASE CopyDesired
  BY <1>7 DEF CopyDesired
<1>8. CASE SendSucceeds \/ SendFails
  <2>1. pc' \in {"sleep", "fail_release"} /\ usb_suspended' = usb_suspended
    BY <1>8 DEF SendSucceeds, SendFails
  <2>2. QED
    BY <2>1
<1>9. CASE Tick
  BY <1>9 DEF Tick
<1>10. CASE HostTakes
  BY <1>10 DEF HostTakes, HostTakesReport, HostPoll
<1>11. CASE UNCHANGED statementVars
  BY <1>11 DEF statementVars, bridgeVars
<1>12. QED
  BY <1>1, <1>2, <1>3, <1>4, <1>5, <1>6, <1>7, <1>8, <1>9, <1>10, <1>11
     DEF StatementNext

LEMMA StatementTracksStep ==
  ASSUME StatementTypes, SentOnCheckedBus, HostIsTracked,
         [StatementNext]_statementVars
  PROVE  /\ HostIsTracked'
         /\ Keys!HostNext \/ UNCHANGED host
<1> USE DEF StatementTypes, StatementTypeOK, UsbTypeOK, HostIsTracked,
        SentOnCheckedBus, usbVars, device, firmware, otherUsbVars
<1>1. CASE Interrupt
  <2>1. UNCHANGED otherUsbVars
    BY <1>1, HandlerTypes
  <2>2. QED
    BY <2>1
<1>2. CASE LoopAsBefore
  <2>1. CASE EndPoll
    BY <2>1 DEF EndPoll
  <2>2. CASE TudTask
    BY <2>2 DEF TudTask, BusReset, BusSuspend, BusResume, Keys!HostNext,
                Keys!KeysUp
  <2>3. CASE ServiceConfig
    <3>1. UNCHANGED otherUsbVars
      BY <2>3 DEF ServiceConfig
    <3>2. QED
      BY <3>1
  <2>4. QED
    BY <1>2, <2>1, <2>2, <2>3 DEF LoopAsBefore
<1>3. CASE ReadNow \/ ReadLast \/ ReadKeyActive \/ CopyDesired \/ SendNothing
           \/ NextPass \/ Tick
  BY <1>3 DEF ReadNow, ReadLast, ReadKeyActive, CopyDesired, SendNothing, NextPass,
              Tick
<1>4. CASE LockStale \/ Unstamp \/ SendFails
  BY <1>4 DEF LockStale, Unstamp, SendFails
<1>5. CASE FinishLock
  <2>1. /\ UNCHANGED <<device, endpoint, host, sent_report>>
        /\ was_mounted' \in {was_mounted, Mounted}
    BY <1>5 DEF FinishLock
  <2>2. QED
    BY <2>1 DEF Mounted
<1>6. CASE CheckMount
  <2>1. CASE MountChanged
    <3>1. ~tud_mounted \/ ~was_mounted
      BY <2>1 DEF MountChanged, Mounted
    <3>2. sent_report' = NoKeys /\ UNCHANGED <<device, endpoint, host, was_mounted>>
      BY <1>6, <2>1 DEF CheckMount
    <3>3. QED
      BY <3>1, <3>2
  <2>2. CASE ~MountChanged
    BY <1>6, <2>2 DEF CheckMount
  <2>3. QED
    BY <2>1, <2>2
<1>7. CASE SendSucceeds
  <2>1. /\ pc = "send" /\ endpoint = {} /\ tud_mounted /\ was_mounted
    BY <1>7 DEF SendSucceeds, Ready, Mounted
  <2>2. /\ endpoint' = {Frame} /\ sent_report' = Frame
        /\ UNCHANGED <<device, host, was_mounted>>
    BY <1>7, <2>1 DEF SendSucceeds
  <2>3. host = NoKeys \/ Frame = NoKeys
    BY <2>1 DEF Frame
  <2>4. QED
    BY <2>1, <2>2, <2>3
<1>8. CASE HostTakes
  BY <1>8 DEF HostTakes, HostTakesReport, HostPoll, Mounted, Keys!HostNext,
              Keys!KeyDown, Keys!KeysUp
<1>9. CASE UNCHANGED statementVars
  BY <1>9 DEF statementVars, bridgeVars
<1>10. QED
  BY <1>1, <1>2, <1>3, <1>4, <1>5, <1>6, <1>7, <1>8, <1>9 DEF StatementNext

(* On a bus that is never suspended, sent_report tells what the host holds *)
(* also when the copy it was sent from is stale                            *)
(* (live_bridge_bench.cpp:476-510).                                        *)
THEOREM StatementTracksHost == ~HostSuspends => (StatementSpec => []HostIsTracked)
<1> SUFFICES ASSUME ~HostSuspends
             PROVE  StatementSpec => []HostIsTracked
  OBVIOUS
<1>1. StatementInit => SentOnCheckedBus /\ HostIsTracked
  BY DEF StatementInit, BridgeInit, UsbInit, SentOnCheckedBus, HostIsTracked
<1>2. StatementTypes /\ SentOnCheckedBus /\ HostIsTracked
        /\ [StatementNext]_statementVars => SentOnCheckedBus' /\ HostIsTracked'
  BY CheckedBusStep, StatementTracksStep
<1>3. QED
  BY <1>1, <1>2, StatementTyped, PTL DEF StatementSpec

(* ... and the host never sees one key become another.                     *)
THEOREM StatementRefinesHostKeys ==
  ~HostSuspends => (StatementSpec => UsbImplementsHostKeys)
<1> SUFFICES ASSUME ~HostSuspends
             PROVE  StatementSpec => UsbImplementsHostKeys
  OBVIOUS
<1>1. StatementInit => SentOnCheckedBus /\ HostIsTracked /\ Keys!HostInit
  BY DEF StatementInit, BridgeInit, UsbInit, SentOnCheckedBus, HostIsTracked,
         Keys!HostInit
<1>2. StatementTypes /\ SentOnCheckedBus /\ HostIsTracked
        /\ [StatementNext]_statementVars
        => SentOnCheckedBus' /\ HostIsTracked' /\ [Keys!HostNext]_host
  BY CheckedBusStep, StatementTracksStep
<1>3. QED
  BY <1>1, <1>2, StatementTyped, PTL
     DEF StatementSpec, UsbImplementsHostKeys, Keys!HostSpec
=============================================================================
