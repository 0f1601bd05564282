--------------------------- MODULE MobileReceiver ---------------------------
(***************************************************************************)
(* The iPhone receiver, mobile_ble_bench.cpp: BLE callbacks, the USB       *)
(* keyboard and the stale timeout, all run by one main loop; the image    *)
(* built with RED_MONKEY_MPG_MOBILE_USB_KEYBOARD.                          *)
(*                                                                         *)
(* Time passes in the loop's sleep.  `silence' is the time since the last  *)
(* accepted frame, counted up to just past every bound; last_valid_ms is   *)
(* kept as `stamped': zero is the code's value for `no frame', and a uint32*)
(* clock of milliseconds is zero again after 2^32 of them (ClockWraps).    *)
(***************************************************************************)
EXTENDS MobileProtocol, MassoKeyboard, UsbKeyboard

CONSTANTS
  ClockWraps,      \* may a frame arrive at millisecond 0 of the wrapped clock?
  HostSuspends,    \* may the host suspend the bus?
  LoopTime,        \* the longest pass of the main loop, in units of `silence'
  Frames           \* the frames that may arrive

ASSUME ClockAssumption == ClockWraps \in BOOLEAN
ASSUME HostSuspendsAssumption == HostSuspends \in BOOLEAN
ASSUME LoopTimeAssumption == LoopTime \in Nat \ {0}
ASSUME FramesAssumption == Frames \subseteq Frame

\* The reports of UsbKeyboard are those of the MASSO profile.
ASSUME MassoAssumption ==
  /\ NoKeys = ReleaseReport
  /\ KeyboardReports = MassoReports /\ MotionReports = JogReports

VARIABLES
  pc,                \* where the main loop is
  ble_connected,     \* connection_handle is valid
  session,
  silence, stamped,
  active_direction, resolution, error_code,   \* what status_frame() reports
  mapper,
  (* history *)
  neutral_seen,      \* a frame without motion since the last fault or cancel
  jogged             \* last direction jogged since a frame without motion

\* neutral_required is rearm_required in UsbKeyboard, which also has
\* desired_report, sent_report and was_mounted.

bleVars == <<ble_connected, session>>
clockVars == <<silence, stamped>>
statusVars == <<active_direction, resolution, error_code>>
history == <<neutral_seen, jogged>>
otherUsbVars == <<device, endpoint, host, was_mounted, sent_report>>
mobileVars ==
  <<pc, bleVars, clockVars, statusVars, mapper, usbVars, history>>

Errors == {"none", "malformed", "stale", "usb_unavailable"}
MaxSilence == StaleTimeout + LoopTime + 1

MobileInit ==
  /\ pc = "poll"
  /\ ble_connected = FALSE /\ session = ResetSession
  /\ silence = 0 /\ stamped = FALSE
  /\ active_direction = 0 /\ resolution = 1 /\ error_code = "none"
  /\ mapper = InitMapper
  /\ UsbInit
  /\ neutral_seen = FALSE /\ jogged = 0
----------------------------------------------------------------------------
\* neutral_required = true; reset_mapper(); publish_release()
ReleaseOnly ==
  /\ mapper' = ResetMapper(mapper) /\ desired_report' = NoKeys
  /\ neutral_seen' = FALSE /\ UNCHANGED <<rearm_required, jogged>>
LockOutput ==
  /\ rearm_required' = TRUE
  /\ mapper' = ResetMapper(mapper)
  /\ desired_report' = NoKeys
  /\ neutral_seen' = FALSE /\ UNCHANGED jogged

\* fail_closed(error)
FailClosed(error) ==
  /\ LockOutput
  /\ active_direction' = 0
  /\ stamped' = FALSE
  /\ error_code' = error
  /\ UNCHANGED <<silence, resolution, otherUsbVars>>

(* packet_handler *)
BleConnect ==
  /\ pc = "poll" /\ ~ble_connected
  /\ ble_connected' = TRUE
  /\ session' = ResetSession
  /\ FailClosed("none")
  /\ UNCHANGED pc

BleDisconnect ==
  /\ pc = "poll" /\ ble_connected
  /\ ble_connected' = FALSE
  /\ session' = ResetSession
  /\ FailClosed("none")
  /\ UNCHANGED pc

(* write_callback: a frame the session rejects ... *)
RejectFrame(f) ==
  /\ pc = "poll" /\ ble_connected
  /\ ~Accepts(session, f)
  /\ LockOutput
  /\ active_direction' = 0
  /\ error_code' = "malformed"
  /\ UNCHANGED <<pc, bleVars, clockVars, resolution, otherUsbVars>>

(* ... and one it accepts. *)
Moving(f) == f.deadman /\ f.direction # 0

\* neutral_required once the frame has been looked at.
LockedByCancel(f) == FrameInput(session, f).cancel
StillLocked(f) ==
  (Moving(f) /\ rearm_required) \/ FrameInput(session, f).cancel

\* The jog or step asked for, or the lock while motion is still intended.
MapFrame(f) ==
  LET result == Update(mapper, FrameInput(session, f), 0)
  IN  IF StillLocked(f) /\ Moving(f)
      THEN /\ active_direction' = 0
           /\ mapper' = ResetMapper(mapper)
           /\ desired_report' = NoKeys
      ELSE /\ active_direction' =
                IF result.out.kind = "jog" THEN f.direction ELSE 0
           /\ mapper' = result.mapper
           /\ desired_report' = KeyboardReport(result.out)

AcceptFrame(f) ==
  /\ pc = "poll" /\ ble_connected
  /\ Accepts(session, f)
  /\ session' = SessionAfter(session, f)
  /\ silence' = 0
  /\ stamped' \in (IF ClockWraps THEN BOOLEAN ELSE {TRUE})
  /\ error_code' = "none"
  /\ resolution' = IF FrameInput(session, f).select_resolution
                   THEN FrameInput(session, f).selected_resolution
                   ELSE resolution
  /\ rearm_required' = StillLocked(f)
  /\ MapFrame(f)
  /\ neutral_seen' = (~FrameInput(session, f).cancel
                        /\ (neutral_seen \/ ~Moving(f)))
  /\ jogged' = IF ~Moving(f) THEN 0
               ELSE IF active_direction' # 0 THEN f.direction ELSE jogged
  /\ UNCHANGED <<pc, ble_connected, otherUsbVars>>

Poll ==
  \/ BleConnect \/ BleDisconnect
  \/ \E f \in Frames : RejectFrame(f) \/ AcceptFrame(f)

EndPoll ==
  /\ pc = "poll" /\ pc' = "bus"
  /\ UNCHANGED <<bleVars, clockVars, statusVars, mapper, usbVars, history>>
----------------------------------------------------------------------------
(* tud_task(): what the host did to the bus. *)
TudTask ==
  /\ pc = "bus"
  /\ \/ BusEvent(HostSuspends) /\ UNCHANGED pc
     \/ pc' = "usb" /\ UNCHANGED usbVars
  /\ UNCHANGED <<bleVars, clockVars, statusVars, mapper, history>>

(* service_usb_keyboard(): resets the mapper where it locks. *)
UsbServed(locks) ==
  /\ mapper' = IF locks THEN ResetMapper(mapper) ELSE mapper
  /\ neutral_seen' = (neutral_seen /\ ~locks) /\ UNCHANGED jogged

ServiceUsb ==
  /\ pc = "usb" /\ pc' = "timeout"
  /\ \/ UsbIdle /\ UsbServed(MountChanged)
     \/ UsbSend /\ UsbServed(MountChanged)
     \/ UsbSendFails /\ UsbServed(TRUE)
  /\ error_code' = IF Ready
                   THEN IF error_code = "usb_unavailable" THEN "none" ELSE error_code
                   ELSE IF error_code = "none" THEN "usb_unavailable" ELSE error_code
  /\ UNCHANGED <<bleVars, clockVars, active_direction, resolution>>

(* service_timeout() *)
DirectionActive == active_direction # 0
OutputActive == desired_report # NoKeys

Stale == OutputActive /\ stamped /\ silence > StaleTimeout

ServiceTimeout ==
  /\ pc = "timeout" /\ pc' = "sleep"
  /\ IF Stale
     THEN FailClosed("stale")
     ELSE UNCHANGED <<clockVars, statusVars, mapper, usbVars, history>>
  /\ UNCHANGED bleVars

Sleep ==
  /\ pc = "sleep" /\ pc' = "poll"
  /\ \E t \in 1..LoopTime :
       silence' = IF silence + t > MaxSilence THEN MaxSilence ELSE silence + t
  /\ UNCHANGED <<bleVars, stamped, statusVars, mapper, usbVars, history>>

HostTakesReport ==
  /\ HostPoll
  /\ UNCHANGED <<pc, bleVars, clockVars, statusVars, mapper, history>>

MobileNext ==
  \/ Poll \/ EndPoll \/ TudTask \/ ServiceUsb \/ ServiceTimeout \/ Sleep
  \/ HostTakesReport

MobileSpec == MobileInit /\ [][MobileNext]_mobileVars

\* The loop goes round, an enqueue does not fail for ever, the host polls.
MobileFairness ==
  /\ WF_mobileVars(EndPoll)
  /\ WF_mobileVars(TudTask /\ pc' = "usb")
  /\ WF_mobileVars(ServiceUsb) /\ SF_mobileVars(ServiceUsb /\ UsbSend)
  /\ WF_mobileVars(ServiceTimeout) /\ WF_mobileVars(Sleep)
  /\ WF_mobileVars(HostTakesReport)

MobileFairSpec == MobileSpec /\ MobileFairness
----------------------------------------------------------------------------
MobileTypeOK ==
  /\ pc \in {"poll", "bus", "usb", "timeout", "sleep"}
  /\ ble_connected \in BOOLEAN
  /\ session \in SessionState
  /\ silence \in 0..MaxSilence /\ stamped \in BOOLEAN
  /\ active_direction \in Directions
  /\ resolution \in Resolutions
  /\ error_code \in Errors
  /\ mapper \in MapperState
  /\ neutral_seen \in BOOLEAN /\ jogged \in Directions
  /\ UsbTypeOK

(* Connection loss, a bad frame, a cancel, silence, a mount change or a    *)
(* failed send each release the keys and lock; from then on nothing moves  *)
(* until a frame without motion arrives, in any order of these handlers    *)
(* (mobile_ble_bench.cpp:162-225, 288-323).                                *)
MotionNeedsNeutral ==
  /\ desired_report \in JogReports => neutral_seen /\ ~rearm_required
  /\ ~ble_connected => desired_report = NoKeys

(* A key is asked for no longer than the timeout plus one loop pass after  *)
(* the last accepted frame, whatever else arrives or fails meanwhile       *)
(* (mobile_ble_bench.cpp:271-282).                                         *)
SilenceReleases == desired_report # NoKeys => silence <= StaleTimeout + LoopTime

(* What the phone is told agrees with what is asked of the host: a jog key *)
(* is that of the reported direction (mobile_ble_bench.cpp:99-116, 203).   *)
ReportedDirectionIsJogged ==
  desired_report \in JogReports =>
    /\ active_direction # 0
    /\ desired_report.key = JogKey(
         CASE active_direction \in {1, 2} -> "x" [] active_direction \in {3, 4} -> "y"
           [] active_direction \in {5, 6} -> "z",
         active_direction \in {2, 4, 6})

(* The phone may slide from one direction to another: the axis jogged last *)
(* is the only one until a frame without motion arrives, however long the  *)
(* phone keeps another direction pressed, and whatever is lost or locked   *)
(* on the way (docs/MOBILE_BLE_BENCH_TEST.md:17: one-axis,                 *)
(* neutral-before-switch; mobile_ble_bench.cpp:180-203).                   *)
DirectionAxis(d) == (d + 1) \div 2

NeutralBeforeSwitch ==
  [][active_direction' # 0 /\ jogged # 0
       => DirectionAxis(active_direction') = DirectionAxis(jogged)]_mobileVars

(* docs/IPHONE_END_USER_GUIDE.md:50-52, 74: nor is the direction reversed  *)
(* before all controls were neutral.  The mapper locks an axis, not a sign *)
(* (control_mapper.cpp:85-113, mobile_ble_bench.cpp:199-203).              *)
NeutralBeforeReversal ==
  [][active_direction' # 0 /\ jogged # 0
       => active_direction' = jogged]_mobileVars

(* The handlers keep the contract of UsbKeyboard: what is proved of its    *)
(* specification without suspends holds of this receiver without them.     *)
MobileImplementsUsb == SteadySpec

(* A phone that falls silent while keys are out leaves the host without a  *)
(* key, unless it speaks again: through timeouts, mount changes, a busy    *)
(* endpoint and failed enqueues.                                           *)
SilentPhoneReleasesHost ==
  silence > StaleTimeout ~> (host = NoKeys \/ silence <= StaleTimeout)
=============================================================================
