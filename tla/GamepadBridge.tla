--------------------------- MODULE GamepadBridge ---------------------------
(***************************************************************************)
(* The gamepad receiver, live_bridge_bench.cpp as the configurable         *)
(* production image: one main loop polls Bluetooth, runs TinyUSB, serves   *)
(* the setup session, the stale timeout and the keyboard.  This module has *)
(* the path from a controller report to the host's keys and everything     *)
(* that locks it; link bookkeeping and pairing are in GamepadPairing.      *)
(*                                                                         *)
(* descriptor_ready stands for itself and active_profile, which are always *)
(* set and cleared together.  `silence' and `stamped' as in MobileReceiver.*)
(***************************************************************************)
EXTENDS ProductionConfig, Lite2Report, MassoKeyboard, UsbKeyboard

CONSTANTS
  CenterLimit,     \* kCenterLimit
  ClockWraps,      \* may a report arrive at millisecond 0 of the wrapped clock?
  HostSuspends,    \* may the host suspend the bus?
  LoopTime,        \* the longest pass of the main loop, in units of `silence'
  PadReports,      \* the reports a controller may send
  Mappings         \* the mappings a setup session may store

ASSUME CenterLimitAssumption == CenterLimit \in Nat
ASSUME ClockAssumption == ClockWraps \in BOOLEAN /\ LoopTime \in Nat \ {0}
ASSUME HostSuspendsAssumption == HostSuspends \in BOOLEAN
ASSUME PadReportsAssumption ==
  PadReports \subseteq [framed : BOOLEAN, buttons : SUBSET PadButtons,
                        left_x : StickBytes, left_y : StickBytes,
                        right_y : StickBytes]
ASSUME MappingsAssumption ==
  /\ DefaultMapping \in Mappings /\ Mappings \subseteq ProductionMapping
  /\ \A mapping \in Mappings : ValidMapping(mapping)

\* The reports of UsbKeyboard are those of the MASSO profile.
ASSUME MassoAssumption ==
  /\ NoKeys = ReleaseReport
  /\ KeyboardReports = MassoReports /\ MotionReports = JogReports

VARIABLES
  pc,                 \* where the main loop is
  hid_open,           \* the HID connection is open
  descriptor_ready,
  silence, stamped,   \* since the last report that may move; and is it known
  mapper, production_mapping,
  cdc_open,           \* the host holds the setup port open (DTR)
  config_active,      \* ConfigService::active_
  pairing_candidate_selected,
  (* history *)
  neutral_seen,       \* a neutral report since the last fault or setup
  pressed             \* step-size controls down in the last report mapped

linkVars == <<hid_open, descriptor_ready>>
clockVars == <<silence, stamped>>
setupVars == <<production_mapping, cdc_open, config_active,
               pairing_candidate_selected>>
otherUsbVars == <<device, endpoint, host, was_mounted, sent_report>>
historyVars == <<neutral_seen, pressed>>
bridgeVars == <<pc, linkVars, clockVars, mapper, setupVars, usbVars, historyVars>>

MaxSilence == StaleTimeout + LoopTime + 1

BridgeInit ==
  /\ pc = "poll"
  /\ hid_open = FALSE /\ descriptor_ready = FALSE
  /\ silence = 0 /\ stamped = FALSE
  /\ mapper = InitMapper
  /\ production_mapping \in Mappings        \* persistent_config.load()
  /\ cdc_open = FALSE /\ config_active = FALSE
  /\ pairing_candidate_selected = FALSE
  /\ UsbInit
  /\ neutral_seen = FALSE /\ pressed = {}
----------------------------------------------------------------------------
\* rearm_required = true; publish_release()
LockOnly == rearm_required' = TRUE /\ neutral_seen' = FALSE /\ UNCHANGED desired_report
LockOutput ==
  /\ rearm_required' = TRUE
  /\ desired_report' = NoKeys
  /\ neutral_seen' = FALSE

\* fail_closed() but for the link's flags, as service_stale_input() also does;
\* the mapper is left to the next report.
FailClosed ==
  /\ LockOutput
  /\ stamped' = FALSE
  /\ UNCHANGED <<silence, mapper, pressed, otherUsbVars>>

(* packet_handler: the HID connection.  A report is refused, a descriptor  *)
(* is unsupported, an open or an accept fails: all fail closed.            *)
HidOpened ==
  /\ ~hid_open
  /\ hid_open' \in BOOLEAN /\ descriptor_ready' = FALSE
  /\ FailClosed
  /\ UNCHANGED <<pc, setupVars>>

HidClosed ==
  /\ hid_open
  /\ hid_open' = FALSE /\ descriptor_ready' = FALSE
  /\ FailClosed
  /\ UNCHANGED <<pc, setupVars>>

DescriptorSupported ==
  /\ hid_open
  /\ descriptor_ready' = TRUE
  /\ UNCHANGED <<pc, hid_open, clockVars, mapper, setupVars, usbVars, historyVars>>

\* Also rolls a pairing back.
DescriptorUnsupported ==
  /\ hid_open
  /\ descriptor_ready' = FALSE
  /\ pairing_candidate_selected' = FALSE
  /\ FailClosed
  /\ UNCHANGED <<pc, hid_open, production_mapping, cdc_open, config_active>>

(* consume_controller_report *)
Input(report) == ApplyMapping(ParseReport(report), production_mapping)

SafeToArm(in) ==
  /\ ~in.deadman
  /\ \A stick \in {in.left_x, in.left_y, in.right_y} :
       Magnitude(stick) <= CenterLimit

StepControls(in) ==
  {c \in {"cycle", "select"} : \/ c = "cycle" /\ in.cycle_resolution
                               \/ c = "select" /\ in.select_resolution}

RefuseReport(report) ==
  /\ ~descriptor_ready \/ ~report.framed
  /\ LockOutput
  /\ stamped' = FALSE
  /\ mapper' = ResetMapper(mapper)
  /\ pressed' = {}
  /\ UNCHANGED silence

WithheldByCandidate == pairing_candidate_selected
Withheld == pairing_candidate_selected \/ config_active

\* A setup session, or a candidate not yet committed, never moves anything.
IgnoreReport(report) ==
  /\ descriptor_ready /\ report.framed
  /\ Withheld
  /\ desired_report' = NoKeys
  /\ UNCHANGED <<clockVars, rearm_required, mapper, historyVars>>

\* While re-arming, buttons already held are latched and nothing is sent.
MapReport(report) ==
  LET in == Input(report)
      from == IF rearm_required THEN ResetMapper(mapper) ELSE mapper
      result == Update(from, in, 0)
  IN  /\ descriptor_ready /\ report.framed
      /\ ~Withheld
      /\ silence' = 0
      /\ stamped' \in (IF ClockWraps THEN BOOLEAN ELSE {TRUE})
      /\ mapper' = result.mapper
      /\ desired_report' = IF rearm_required THEN NoKeys
                           ELSE KeyboardReport(result.out)
      /\ rearm_required' = (rearm_required /\ ~SafeToArm(in))
      /\ neutral_seen' = (neutral_seen \/ SafeToArm(in))
      /\ pressed' = StepControls(in)

HidReport(report) ==
  /\ hid_open
  /\ RefuseReport(report) \/ IgnoreReport(report) \/ MapReport(report)
  /\ UNCHANGED <<pc, linkVars, setupVars, otherUsbVars>>

EndPoll ==
  /\ pc = "poll" /\ pc' = "bus"
  /\ UNCHANGED <<linkVars, clockVars, mapper, setupVars, usbVars, historyVars>>

\* In this image the handlers run only while the loop polls.
Handlers ==
  \/ HidOpened \/ HidClosed \/ DescriptorSupported \/ DescriptorUnsupported
  \/ \E report \in PadReports : HidReport(report)

Bluetooth == pc = "poll" /\ Handlers
----------------------------------------------------------------------------
(* tud_task(): the bus, and the setup port, which a bus reset closes. *)
TudTask ==
  /\ pc = "bus"
  /\ \/ BusReset /\ cdc_open' = FALSE /\ UNCHANGED pc
     \/ HostSuspends /\ (BusSuspend \/ BusResume) /\ UNCHANGED <<cdc_open, pc>>
     \/ Mounted /\ cdc_open' = ~cdc_open /\ UNCHANGED <<usbVars, pc>>
     \/ pc' = "config" /\ UNCHANGED <<usbVars, cdc_open>>
  /\ UNCHANGED <<linkVars, clockVars, mapper, production_mapping, config_active,
                 pairing_candidate_selected, historyVars>>

(* config_service.service() and what main() makes of it.  Commands of a    *)
(* session may store a mapping and select, commit or drop a candidate.     *)
ServiceConfig ==
  /\ pc = "config" /\ pc' = "stale"
  /\ config_active' = (cdc_open /\ Mounted)
  /\ \/ /\ config_active'
        /\ production_mapping' \in Mappings
        /\ pairing_candidate_selected' \in BOOLEAN
        /\ LockOutput
        /\ UNCHANGED otherUsbVars
     \/ /\ ~config_active'
        /\ pairing_candidate_selected' =
             (pairing_candidate_selected /\ ~config_active)
        /\ UNCHANGED <<production_mapping, usbVars, neutral_seen>>
  /\ UNCHANGED <<linkVars, clockVars, mapper, cdc_open, pressed>>

(* service_stale_input *)
StaleIfSent == sent_report # NoKeys /\ stamped /\ silence > StaleTimeout
Stale == desired_report # NoKeys /\ stamped /\ silence > StaleTimeout

ServiceStale ==
  /\ pc = "stale" /\ pc' = "usb"
  /\ IF Stale
     THEN FailClosed
     ELSE UNCHANGED <<clockVars, mapper, usbVars, historyVars>>
  /\ UNCHANGED <<linkVars, setupVars>>

(* service_usb_keyboard *)
ServiceUsb ==
  /\ pc = "usb" /\ pc' = "sleep"
  /\ \/ (UsbIdle \/ UsbSend) /\ neutral_seen' = (neutral_seen /\ ~MountChanged)
     \/ UsbSendFails /\ neutral_seen' = FALSE
  /\ UNCHANGED <<linkVars, clockVars, mapper, setupVars, pressed>>

Sleep ==
  /\ pc = "sleep" /\ pc' = "poll"
  /\ \E t \in 1..LoopTime :
       silence' = IF silence + t > MaxSilence THEN MaxSilence ELSE silence + t
  /\ UNCHANGED <<linkVars, stamped, mapper, setupVars, usbVars, historyVars>>

HostTakesReport ==
  /\ HostPoll
  /\ UNCHANGED <<pc, linkVars, clockVars, mapper, setupVars, historyVars>>

BridgeNext ==
  \/ Bluetooth \/ EndPoll \/ TudTask \/ ServiceConfig \/ ServiceStale
  \/ ServiceUsb \/ Sleep \/ HostTakesReport

BridgeSpec == BridgeInit /\ [][BridgeNext]_bridgeVars
----------------------------------------------------------------------------
BridgeTypeOK ==
  /\ pc \in {"poll", "bus", "config", "stale", "usb", "sleep"}
  /\ hid_open \in BOOLEAN /\ descriptor_ready \in BOOLEAN
  /\ silence \in 0..MaxSilence /\ stamped \in BOOLEAN
  /\ mapper \in MapperState
  /\ production_mapping \in Mappings
  /\ cdc_open \in BOOLEAN /\ config_active \in BOOLEAN
  /\ pairing_candidate_selected \in BOOLEAN
  /\ neutral_seen \in BOOLEAN /\ pressed \subseteq {"cycle", "select"}
  /\ UsbTypeOK

(* A key is asked for only for a committed controller with a recognised    *)
(* descriptor and outside setup, and motion only after a neutral report    *)
(* since the last loss, bad report, silence, setup session, mount change   *)
(* or failed send (live_bridge_bench.cpp:131-185, 239-246, 463-510,        *)
(* 728-740).                                                               *)
MotionNeedsNeutral ==
  desired_report # NoKeys =>
    /\ neutral_seen /\ ~rearm_required
    /\ hid_open /\ descriptor_ready
    /\ ~config_active /\ ~pairing_candidate_selected

(* A key is asked for no longer than the timeout plus one loop pass after  *)
(* the last report that may move (live_bridge_bench.cpp:463-474).          *)
SilenceReleases == desired_report # NoKeys => silence <= StaleTimeout + LoopTime

(* A step-size button yields a command only when it was up in the report   *)
(* before: not after a re-arm with the button held, nor after a setup that *)
(* mapped it anew (live_bridge_bench.cpp:173-181).                         *)
StepNeedsNewPress ==
  [][desired_report' \notin {NoKeys, desired_report} \union MotionReports
       => pressed' \ pressed # {}]_bridgeVars

(* The handlers keep the contract of UsbKeyboard, suspends included.       *)
BridgeImplementsUsb == UsbSpec
============================================================================
