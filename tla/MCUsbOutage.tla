---------------------------- MODULE MCUsbOutage ----------------------------
(***************************************************************************)
(* MCUsb with a history of suspends: what of before one goes to the host   *)
(* after it.                                                               *)
(***************************************************************************)
EXTENDS MCUsb

VARIABLE outage   \* the bus was suspended since desired_report was published

outageVars == <<usbVars, outage>>

OutageInit == UsbInit /\ outage = FALSE

Published(report, lock) == Publish(report, lock) /\ outage' = FALSE

Suspended == BusSuspend /\ outage' = TRUE

Undisturbed ==
  /\ \/ HostPoll \/ BusReset \/ BusResume
     \/ UsbIdle \/ UsbSend \/ UsbSendFails
  /\ UNCHANGED outage

OutageNext ==
  \/ \E report \in KeyboardReports, lock \in BOOLEAN : Published(report, lock)
  \/ Suspended \/ Undisturbed

OutageSpec == OutageInit /\ [][OutageNext]_outageVars
----------------------------------------------------------------------------
(* usb_keyboard_device.c:5-7, `Every TinyUSB session transition is         *)
(* treated as a safety boundary', and docs/ARCHITECTURE.md:33-36, `USB     *)
(* reset/suspend': no key published before a suspend is queued after it.   *)
(* service_usb_keyboard() compares tud_ready() levels                      *)
(* (live_bridge_bench.cpp:478-484), so a suspend and its resume between    *)
(* two services leave it as it was.                                        *)
SuspendDropsKeys ==
  [][endpoint' \ endpoint \subseteq {NoKeys} \/ ~outage]_outageVars
============================================================================
