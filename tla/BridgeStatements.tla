-------------------------- MODULE BridgeStatements --------------------------
(***************************************************************************)
(* live_bridge_bench.cpp at the grain of statements, for the two kinds of  *)
(* image CMake builds of it.  The configurable image polls Bluetooth, so   *)
(* its handlers run between two passes of the main loop; the bench and     *)
(* commissioning images run them from the background interrupt, between    *)
(* any two statements of the loop, and have no setup port.  Handlers are   *)
(* those of GamepadBridge; the loop's services are taken apart where they  *)
(* touch what a handler reads or writes.  The images without setup map by  *)
(* the parser's own buttons, which are DefaultMapping's.                   *)
(***************************************************************************)
EXTENDS GamepadBridge

VARIABLES
  polled,      \* RED_MONKEY_MPG_POLL_BTSTACK: which image this is
  spent,       \* time since this pass of the loop began
  now_at,      \* `spent' when main() read now_ms
  overdue,     \* service_stale_input: now_ms - last_ms > kStaleMs, last_ms # 0
  copy         \* service_usb_keyboard: its copy of desired_report

localVars == <<polled, spent, now_at, overdue, copy>>
reportVars == <<linkVars, mapper, setupVars, pressed>>
statementVars == <<bridgeVars, localVars>>

\* A key is released in the second pass after its time is up.
MaxAge == StaleTimeout + 2 * LoopTime + 1

StatementInit ==
  /\ BridgeInit
  /\ polled \in BOOLEAN
  /\ ~polled => production_mapping = DefaultMapping
  /\ spent = 0 /\ now_at = 0 /\ overdue = FALSE /\ copy = NoKeys

\* A handler runs to its end: it is an interrupt, or called by the poll.
Interrupt ==
  /\ polled => pc = "poll"
  /\ Handlers
  /\ UNCHANGED localVars

\* The statements of the loop that no handler can disturb.
LoopAsBefore ==
  /\ EndPoll \/ TudTask \/ ServiceConfig
  /\ cdc_open' => polled
  /\ UNCHANGED localVars
----------------------------------------------------------------------------
\* rearm_required = true, the first statement of each lock.
Lock ==
  /\ rearm_required' = TRUE /\ neutral_seen' = FALSE
  /\ UNCHANGED desired_report

(* service_stale_input(now_ms), whose lock is three statements. *)
ReleaseFirst ==
  [key_active |-> "stale_release", stale_release |-> "lock",
   lock |-> "unstamp", unstamp |-> "usb"]
UnstampLast ==
  [key_active |-> "lock", lock |-> "stale_release",
   stale_release |-> "unstamp", unstamp |-> "usb"]
StaleOrder ==
  [key_active |-> "lock", lock |-> "unstamp",
   unstamp |-> "stale_release", stale_release |-> "usb"]

ReadNow ==
  /\ pc = "stale" /\ pc' = "last_ms"
  /\ now_at' = spent
  /\ UNCHANGED <<reportVars, clockVars, usbVars, neutral_seen,
                 polled, spent, overdue, copy>>

\* The difference is unsigned: a report since now_ms was read wraps it.
AgeWithoutWrap == silence - (spent - now_at) > StaleTimeout
TooOld ==
  LET age == silence - (spent - now_at)
  IN  age < 0 \/ age > StaleTimeout

ReadLast ==
  /\ pc = "last_ms" /\ pc' = "key_active"
  /\ overdue' = (stamped /\ TooOld)
  /\ now_at' = 0
  /\ UNCHANGED <<reportVars, clockVars, usbVars, neutral_seen,
                 polled, spent, copy>>

ReadKeyActive ==
  /\ pc = "key_active"
  /\ pc' = IF overdue /\ desired_report # NoKeys THEN StaleOrder[pc] ELSE "usb"
  /\ overdue' = FALSE
  /\ UNCHANGED <<reportVars, clockVars, usbVars, neutral_seen,
                 polled, spent, now_at, copy>>

LockStale ==
  /\ pc = "lock" /\ pc' = StaleOrder[pc]
  /\ Lock
  /\ UNCHANGED <<reportVars, clockVars, otherUsbVars, localVars>>

Unstamp ==
  /\ pc = "unstamp" /\ pc' = StaleOrder[pc]
  /\ stamped' = FALSE
  /\ UNCHANGED <<reportVars, silence, usbVars, neutral_seen, localVars>>

\* publish_release(), the last statement of each of the three locks.
FinishLock ==
  /\ \/ pc = "stale_release" /\ pc' = StaleOrder[pc] /\ UNCHANGED was_mounted
     \/ pc = "mount_release" /\ pc' = "ready" /\ was_mounted' = Mounted
     \/ pc = "fail_release" /\ pc' = "sleep" /\ UNCHANGED was_mounted
  /\ desired_report' = NoKeys
  /\ UNCHANGED <<reportVars, clockVars, device, endpoint, host, sent_report,
                 rearm_required, neutral_seen, localVars>>
----------------------------------------------------------------------------
(* service_usb_keyboard() *)
CheckMount ==
  /\ pc = "usb"
  /\ \/ /\ MountChanged /\ pc' = "mount_release"
        /\ sent_report' = NoKeys
        /\ Lock
        /\ UNCHANGED <<device, endpoint, host, was_mounted>>
     \/ ~MountChanged /\ pc' = "ready" /\ UNCHANGED <<usbVars, neutral_seen>>
  /\ UNCHANGED <<reportVars, clockVars, localVars>>

CopyDesired ==
  /\ pc = "ready"
  /\ \/ Ready /\ pc' = "send" /\ copy' = desired_report
     \/ ~Ready /\ pc' = "sleep" /\ UNCHANGED copy
  /\ UNCHANGED <<reportVars, clockVars, usbVars, neutral_seen,
                 polled, spent, now_at, overdue>>

FrameNoGap == copy
Frame == IF sent_report # NoKeys /\ copy # NoKeys THEN NoKeys ELSE copy

SendNothing ==
  /\ pc = "send" /\ pc' = "sleep"
  /\ copy = sent_report
  /\ copy' = NoKeys
  /\ UNCHANGED <<reportVars, clockVars, usbVars, neutral_seen,
                 polled, spent, now_at, overdue>>

SendAndReread ==
  /\ pc = "send" /\ pc' = "sleep"
  /\ copy # sent_report
  /\ endpoint' = endpoint \union {Frame}
  /\ sent_report' = IF Frame = copy THEN desired_report ELSE Frame
  /\ copy' = NoKeys
  /\ UNCHANGED <<reportVars, clockVars, device, host, was_mounted,
                 desired_report, rearm_required, neutral_seen,
                 polled, spent, now_at, overdue>>
SendSucceeds ==
  /\ pc = "send" /\ pc' = "sleep"
  /\ copy # sent_report
  /\ endpoint' = endpoint \union {Frame}
  /\ sent_report' = Frame
  /\ copy' = NoKeys
  /\ UNCHANGED <<reportVars, clockVars, device, host, was_mounted,
                 desired_report, rearm_required, neutral_seen,
                 polled, spent, now_at, overdue>>

FailAndForget ==
  /\ pc = "send" /\ pc' = "fail_release"
  /\ copy # sent_report
  /\ Lock
  /\ copy' = NoKeys /\ sent_report' = NoKeys
  /\ UNCHANGED <<reportVars, clockVars, device, endpoint, host, was_mounted,
                 polled, spent, now_at, overdue>>
SendFails ==
  /\ pc = "send" /\ pc' = "fail_release"
  /\ copy # sent_report
  /\ Lock
  /\ copy' = NoKeys
  /\ UNCHANGED <<reportVars, clockVars, otherUsbVars,
                 polled, spent, now_at, overdue>>

NextPass ==
  /\ pc = "sleep" /\ pc' = "poll"
  /\ spent' = 0
  /\ UNCHANGED <<reportVars, clockVars, usbVars, neutral_seen,
                 polled, now_at, overdue, copy>>
----------------------------------------------------------------------------
\* A pass takes at most LoopTime, spent anywhere in it.
Tick ==
  /\ spent < LoopTime /\ spent' = spent + 1
  /\ silence' = IF silence < MaxAge THEN silence + 1 ELSE silence
  /\ UNCHANGED <<pc, reportVars, stamped, usbVars, neutral_seen,
                 polled, now_at, overdue, copy>>

HostTakes == HostTakesReport /\ UNCHANGED localVars

StatementNext ==
  \/ Interrupt \/ LoopAsBefore
  \/ ReadNow \/ ReadLast \/ ReadKeyActive \/ LockStale \/ Unstamp \/ FinishLock
  \/ CheckMount \/ CopyDesired \/ SendNothing \/ SendSucceeds \/ SendFails
  \/ NextPass \/ Tick \/ HostTakes

StatementSpec == StatementInit /\ [][StatementNext]_statementVars

\* The loop goes on, between interrupts too; an enqueue does not fail for
\* ever; the host polls.
LoopProceeds ==
  /\ \/ LoopAsBefore
     \/ ReadNow \/ ReadLast \/ ReadKeyActive \/ LockStale \/ Unstamp \/ FinishLock
     \/ CheckMount \/ CopyDesired \/ SendNothing \/ SendSucceeds \/ SendFails
     \/ NextPass
  /\ pc' # pc

StatementFairSpec ==
  /\ StatementSpec
  /\ WF_statementVars(LoopProceeds)
  /\ SF_statementVars(SendSucceeds)
  /\ WF_statementVars(HostTakes)
----------------------------------------------------------------------------
Locking == {"unstamp", "stale_release", "mount_release", "fail_release"}

StatementTypeOK ==
  /\ pc \in {"poll", "bus", "config", "stale", "last_ms", "key_active", "lock",
             "usb", "ready", "send", "sleep"} \union Locking
  /\ hid_open \in BOOLEAN /\ descriptor_ready \in BOOLEAN
  /\ silence \in 0..MaxAge /\ stamped \in BOOLEAN
  /\ mapper \in MapperState /\ production_mapping \in Mappings
  /\ {cdc_open, config_active, pairing_candidate_selected, neutral_seen}
       \subseteq BOOLEAN
  /\ pressed \subseteq {"cycle", "select"}
  /\ polled \in BOOLEAN /\ overdue \in BOOLEAN
  /\ spent \in 0..LoopTime /\ now_at \in 0..LoopTime
  /\ copy \in KeyboardReports
  /\ UsbTypeOK

(* Whatever a handler does between a lock and its release, the key that    *)
(* service_usb_keyboard() copies to send is one asked for after a neutral  *)
(* report since the last lock, on the bus as last seen                     *)
(* (live_bridge_bench.cpp:463-487).                                        *)
CopiedKeyIsArmed ==
  pc = "ready" /\ desired_report # NoKeys =>
    /\ neutral_seen /\ ~rearm_required
    /\ hid_open /\ descriptor_ready
    /\ was_mounted = Mounted

(* A key is asked for no longer than the timeout and two passes, wherever  *)
(* reports land among the statements of service_stale_input(): none of its *)
(* orders leaves a key without a time (live_bridge_bench.cpp:463-474).     *)
KeyRunsOut == desired_report # NoKeys => silence <= StaleTimeout + 2 * LoopTime

(* A release that is asked for and not withdrawn reaches the host: through *)
(* busy endpoints, failed enqueues and mount changes, and after a key that *)
(* went out late, from a copy made before its lock                         *)
(* (live_bridge_bench.cpp:476-510).                                        *)
ReleaseReachesHost ==
  desired_report = NoKeys ~> (host = NoKeys \/ desired_report # NoKeys)

(* A controller that falls silent while keys are out leaves the host       *)
(* without a key, unless it reports again.                                 *)
SilentPadReleasesHost ==
  silence > StaleTimeout ~> (host = NoKeys \/ silence <= StaleTimeout)

(* docs/CONFIGURATION_PROTOCOL.md:12: a setup session holds motion output  *)
(* off; the host is left without keys for as long as the port is open.     *)
SetupReleasesHost ==
  config_active ~> (host = NoKeys \/ ~config_active)
============================================================================
