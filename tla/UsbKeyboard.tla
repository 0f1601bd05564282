---------------------------- MODULE UsbKeyboard ----------------------------
(***************************************************************************)
(* The keyboard side both receivers share: service_usb_keyboard() with     *)
(* desired_report and sent_report, the TinyUSB state it reads, and the     *)
(* host.  Publish stands for every writer of desired_report; the receiver  *)
(* modules replace it by the handlers and are shown to satisfy UsbSpec.    *)
(* A transfer's completion, and a bus event, is one step with tud_task()   *)
(* noticing it.                                                            *)
(***************************************************************************)
CONSTANTS
  KeyboardReports, NoKeys,   \* all reports, and the one without a key
  MotionReports              \* the reports that move an axis

ASSUME ReportsAssumption ==
  /\ NoKeys \in KeyboardReports
  /\ MotionReports \subseteq KeyboardReports \ {NoKeys}

VARIABLES
  tud_mounted,      \* TinyUSB: configured by the host
  usb_suspended,
  endpoint,         \* the queued IN report, a set of at most one
  host,             \* the last report the host took: the keys it acts on
  was_mounted,      \* static in service_usb_keyboard()
  desired_report,
  sent_report,
  rearm_required    \* neutral_required in the mobile receiver

device == <<tud_mounted, usb_suspended>>
firmware == <<was_mounted, desired_report, sent_report, rearm_required>>
usbVars == <<device, endpoint, host, firmware>>

Mounted == tud_mounted /\ ~usb_suspended
Ready == Mounted /\ endpoint = {}

UsbInit ==
  /\ tud_mounted = FALSE /\ usb_suspended = FALSE
  /\ endpoint = {} /\ host = NoKeys
  /\ was_mounted = FALSE
  /\ desired_report = NoKeys /\ sent_report = NoKeys
  /\ rearm_required = TRUE
----------------------------------------------------------------------------
(* The host and the bus. *)
HostPoll ==
  /\ Mounted
  /\ host' \in endpoint
  /\ endpoint' = {}
  /\ UNCHANGED <<device, firmware>>

\* A bus reset, or plugging and unplugging: the host forgets all keys.
BusReset ==
  /\ tud_mounted' = ~tud_mounted
  /\ usb_suspended' = FALSE
  /\ endpoint' = {} /\ host' = NoKeys
  /\ UNCHANGED firmware

\* The host stops polling and keeps the keys it saw last.
BusSuspend ==
  /\ ~usb_suspended
  /\ usb_suspended' = TRUE
  /\ UNCHANGED <<tud_mounted, endpoint, host, firmware>>

BusResume ==
  /\ usb_suspended
  /\ usb_suspended' = FALSE
  /\ UNCHANGED <<tud_mounted, endpoint, host, firmware>>

BusEvent(suspends) == BusReset \/ (suspends /\ (BusSuspend \/ BusResume))
----------------------------------------------------------------------------
(* service_usb_keyboard(): what it works with after its first block, and   *)
(* the three ways the rest can go.                                         *)
MountChanged == Mounted # was_mounted
WantedAcrossMount == desired_report
Wanted == IF MountChanged THEN NoKeys ELSE desired_report
Sent == IF MountChanged THEN NoKeys ELSE sent_report

\* All keys up between two different non-empty reports.
FrameWithoutGap == Wanted
NextFrame == IF Sent # NoKeys /\ Wanted # NoKeys THEN NoKeys ELSE Wanted

UsbIdle ==
  /\ ~Ready \/ Wanted = Sent
  /\ was_mounted' = Mounted
  /\ desired_report' = Wanted /\ sent_report' = Sent
  /\ rearm_required' = (rearm_required \/ MountChanged)
  /\ UNCHANGED <<device, endpoint, host>>

UsbSend ==
  /\ Ready /\ Wanted # Sent
  /\ was_mounted' = Mounted
  /\ endpoint' = endpoint \union {NextFrame}
  /\ desired_report' = Wanted /\ sent_report' = NextFrame
  /\ rearm_required' = (rearm_required \/ MountChanged)
  /\ UNCHANGED <<device, host>>

\* The HID enqueue fails: only the release is retried, and re-arming is due.
SendFailsForgotten ==
  /\ Ready /\ Wanted # Sent
  /\ was_mounted' = Mounted
  /\ desired_report' = NoKeys /\ sent_report' = NoKeys
  /\ rearm_required' = TRUE
  /\ UNCHANGED <<device, endpoint, host>>
UsbSendFails ==
  /\ Ready /\ Wanted # Sent
  /\ was_mounted' = Mounted
  /\ desired_report' = NoKeys /\ sent_report' = Sent
  /\ rearm_required' = TRUE
  /\ UNCHANGED <<device, endpoint, host>>

\* Any other handler: it may lock, which releases; unlock, and then publish
\* no motion in the same step; or publish while unlocked.
Publish(report, lock) ==
  /\ lock => report = NoKeys
  /\ rearm_required => report \notin MotionReports
  /\ desired_report' = report
  /\ rearm_required' = lock
  /\ UNCHANGED <<device, endpoint, host, was_mounted, sent_report>>

\* On a bus that is never suspended, and on any.
SteadyNext ==
  \/ HostPoll \/ BusReset
  \/ UsbIdle \/ UsbSend \/ UsbSendFails
  \/ \E report \in KeyboardReports, lock \in BOOLEAN : Publish(report, lock)

SteadySpec == UsbInit /\ [][SteadyNext]_usbVars

UsbNext == SteadyNext \/ BusSuspend \/ BusResume

UsbSpec == UsbInit /\ [][UsbNext]_usbVars
----------------------------------------------------------------------------
UsbTypeOK ==
  /\ tud_mounted \in BOOLEAN /\ usb_suspended \in BOOLEAN
  /\ endpoint \in {{}} \union {{r} : r \in KeyboardReports}
  /\ host \in KeyboardReports
  /\ was_mounted \in BOOLEAN
  /\ desired_report \in KeyboardReports /\ sent_report \in KeyboardReports
  /\ rearm_required \in BOOLEAN

(* The firmware's only knowledge of the host is sent_report.  Without      *)
(* suspends it is enough: the host holds the sent report's keys or none, a *)
(* queued report is the sent one and never replaces a held key by another, *)
(* and an unmounted or just mounted bus has neither                        *)
(* (live_bridge_bench.cpp:476-510, mobile_ble_bench.cpp:285-325).          *)
HostIsTracked ==
  /\ endpoint = {} => host \in {NoKeys, sent_report}
  /\ \A r \in endpoint : r = sent_report /\ (host = NoKeys \/ r = NoKeys)
  /\ ~tud_mounted \/ ~was_mounted => endpoint = {} /\ host = NoKeys

(* Whatever is published, and however sends fail, the host never sees one  *)
(* key turn into another: the keyboard implements HostKeys (the all-keys-  *)
(* up rule of live_bridge_bench.cpp:489-501).                              *)
Keys == INSTANCE HostKeys WITH held <- host
UsbImplementsHostKeys == Keys!HostSpec

(* A key is queued only on a bus that was up at the previous service too,  *)
(* and with no re-arm due: so none of before a mount, unmount or suspend   *)
(* that a service saw, or before a failed enqueue                          *)
(* (live_bridge_bench.cpp:478-510).  A bus that goes and comes back        *)
(* between two services is not seen: SuspendDropsKeys, in MCUsbOutage.     *)
QueuedKeyIsArmed ==
  [][endpoint' \ endpoint \subseteq {NoKeys}
       \/ (Mounted /\ was_mounted /\ ~rearm_required)]_usbVars

(* docs/ARCHITECTURE.md:33-36, `send an all-keys-released report on        *)
(* disconnect, timeout, USB reset/suspend': with everything delivered and  *)
(* nothing asked for, the host holds no key.                               *)
BelievedReleased ==
  Ready /\ was_mounted /\ desired_report = NoKeys /\ sent_report = NoKeys
    => host = NoKeys
============================================================================
