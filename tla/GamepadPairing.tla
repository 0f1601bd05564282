---------------------------- MODULE GamepadPairing ----------------------------
(***************************************************************************)
(* Which controller the gamepad receiver belongs to: the reconnecting and  *)
(* pairing half of live_bridge_bench.cpp as the configurable image, whose  *)
(* built-in address is empty.  One action per Bluetooth event, timer and   *)
(* setup command; all run to completion in the main loop.  What a report   *)
(* does to the keys is in GamepadBridge.                                   *)
(*                                                                         *)
(* BTstack has one HID link at a time.  A link it was asked to close is    *)
(* `closing' until it says so; reports and a link key may still come of    *)
(* it.  A link opens only with a link key, which BTstack keeps in flash (`bonds').     *)
(* The inquiry timer is pending exactly while scan = "requested".          *)
(***************************************************************************)
EXTENDS FiniteSets

CONSTANTS Addresses, NoAddress

ASSUME AddressesAssumption == NoAddress \notin Addresses

VARIABLES
  (* BTstack *)
  hci,                  \* HCI_STATE_WORKING was reported
  link, peer,
  ssp,                  \* pairing accepted, link key to come: its address
  bonds,                \* addresses with a link key, in flash
  (* flash *)
  stored,               \* persistent_config.controller_address()
  (* live_bridge_bench.cpp *)
  hid_cid,              \* hid_cid # 0
  controller_address, controller_address_valid,
  reconnect_timer,      \* pending
  scan,                 \* requested (pairing_scan_requested), active or none
  candidate,            \* candidate_controller_address
  pairing_candidate_selected,
  chord,                \* none, held (since ..._started_ms) or confirmed
  descriptor_ready,
  config_active,
  (* history *)
  fresh,                \* the candidate was bonded since it was selected
  survivors,            \* bonds that outlived a power failure
  late                  \* bonds whose key came while their link was closing

stack == <<hci, link, peer, ssp, bonds>>
connecting == <<hid_cid, reconnect_timer, descriptor_ready>>
target == <<controller_address, controller_address_valid>>
pairing == <<scan, candidate, pairing_candidate_selected, chord>>
history == <<fresh, survivors, late>>
pairingVars == <<stack, stored, connecting, target, pairing, config_active, history>>

\* The addresses after power-up: persistent_config.load() and main().
Boot ==
  /\ hci' = FALSE /\ link' = "none" /\ peer' = NoAddress /\ ssp' = NoAddress
  /\ hid_cid' = FALSE /\ reconnect_timer' = FALSE /\ descriptor_ready' = FALSE
  /\ controller_address' = stored'
  /\ controller_address_valid' = (stored' # NoAddress)
  /\ scan' = "none" /\ candidate' = NoAddress
  /\ pairing_candidate_selected' = FALSE /\ chord' = "none"
  /\ config_active' = FALSE
  /\ fresh' = FALSE

PairingInit ==
  /\ hci = FALSE /\ link = "none" /\ peer = NoAddress /\ ssp = NoAddress
  /\ bonds = {} /\ stored = NoAddress
  /\ hid_cid = FALSE /\ reconnect_timer = FALSE /\ descriptor_ready = FALSE
  /\ controller_address = NoAddress /\ controller_address_valid = FALSE
  /\ scan = "none" /\ candidate = NoAddress
  /\ pairing_candidate_selected = FALSE /\ chord = "none"
  /\ config_active = FALSE
  /\ fresh = FALSE /\ survivors = {} /\ late = {}
----------------------------------------------------------------------------
(* Connecting. *)
\* Faulty variant: hid_cid is forgotten, the link stays.
LinkLeftOpen == hid_cid' = FALSE /\ UNCHANGED <<hci, link, peer, ssp>>

\* hid_host_disconnect(hid_cid); hid_cid = 0
DropLink ==
  /\ link' = IF hid_cid /\ link # "none" THEN "closing" ELSE link
  /\ hid_cid' = FALSE
  /\ UNCHANGED <<hci, peer, ssp>>

HciWorking ==
  /\ ~hci /\ hci' = TRUE
  /\ reconnect_timer' = (reconnect_timer \/ controller_address_valid)
  /\ UNCHANGED <<link, peer, ssp, bonds, stored, hid_cid, descriptor_ready,
                 target, pairing, config_active, history>>

\* connect_controller: not while a link is known; refused while there is one.
ConnectController ==
  /\ reconnect_timer
  /\ \/ /\ hid_cid \/ ~controller_address_valid
        /\ reconnect_timer' = FALSE
        /\ UNCHANGED <<link, peer, hid_cid>>
     \/ /\ ~hid_cid /\ controller_address_valid
        /\ hci /\ link = "none"
        /\ link' = "opening" /\ peer' = controller_address
        /\ hid_cid' = TRUE /\ reconnect_timer' = FALSE
  /\ UNCHANGED <<hci, ssp, bonds, stored, descriptor_ready, target, pairing,
                 config_active, history>>

\* INCOMING_CONNECTION from the controller sought; any other is declined.
Incoming ==
  /\ hci /\ link = "none" /\ controller_address # NoAddress
  /\ \/ /\ link' = "opening" /\ peer' = controller_address
        /\ hid_cid' = TRUE /\ reconnect_timer' = FALSE
        /\ UNCHANGED descriptor_ready
     \/ /\ hid_cid' = FALSE /\ reconnect_timer' = TRUE
        /\ descriptor_ready' = FALSE
        /\ UNCHANGED <<link, peer>>
  /\ UNCHANGED <<hci, ssp, bonds, stored, target, pairing, config_active, history>>

Opened ==
  /\ link = "opening" /\ peer \in bonds
  /\ link' = "open"
  /\ hid_cid' = TRUE /\ reconnect_timer' = FALSE /\ descriptor_ready' = FALSE
  /\ UNCHANGED <<hci, peer, ssp, bonds, stored, target, pairing, config_active,
                 history>>

\* Faulty variant: no reconnect is scheduled.
OpenFailsForGood ==
  /\ link = "opening"
  /\ link' = "none" /\ peer' = NoAddress /\ ssp' = NoAddress
  /\ hid_cid' = FALSE /\ descriptor_ready' = FALSE
  /\ UNCHANGED <<hci, bonds, stored, reconnect_timer, target, pairing,
                 config_active, history>>

OpenFails ==
  /\ link = "opening"
  /\ link' = "none" /\ peer' = NoAddress /\ ssp' = NoAddress
  /\ hid_cid' = FALSE /\ reconnect_timer' = TRUE /\ descriptor_ready' = FALSE
  /\ UNCHANGED <<hci, bonds, stored, target, pairing, config_active, history>>

Closed ==
  /\ link \in {"open", "closing"}
  /\ link' = "none" /\ peer' = NoAddress
  /\ ssp' = NoAddress
  /\ hid_cid' = FALSE /\ descriptor_ready' = FALSE
  /\ reconnect_timer' = (reconnect_timer
                           \/ (scan = "none" /\ controller_address_valid))
  /\ UNCHANGED <<hci, bonds, stored, target, pairing, config_active, history>>

\* USER_CONFIRMATION_REQUEST: only for the candidate, if need be over a link
\* that was told to close.
AcceptPairing ==
  /\ link \in {"opening", "closing"} /\ ssp = NoAddress
  /\ config_active /\ pairing_candidate_selected
  /\ peer = controller_address
  /\ ssp' = peer
  /\ UNCHANGED <<hci, link, peer, bonds, stored, connecting, target, pairing,
                 config_active, history>>

\* BTstack receives the new link key and stores it.
LinkKey ==
  /\ ssp # NoAddress
  /\ bonds' = bonds \union {ssp} /\ ssp' = NoAddress
  /\ late' = late \union (IF link = "closing" THEN {ssp} ELSE {})
  /\ fresh' = (fresh \/ (pairing_candidate_selected /\ ssp = controller_address))
  /\ UNCHANGED <<hci, link, peer, stored, connecting, target, pairing,
                 config_active, survivors>>
----------------------------------------------------------------------------
(* Setup commands.  They come only in an active session.                   *)
\* cancel_pairing(): the stored address; without one only the flag changes.
RestoreAddress ==
  /\ controller_address' = IF stored # NoAddress THEN stored ELSE controller_address
  /\ controller_address_valid' = (stored # NoAddress)

\* Faulty variant: a rejected candidate keeps its key.
NoRejectedBonds == {}

\* The uncommitted candidate's key, and no other.
RejectedBonds ==
  IF pairing_candidate_selected /\ controller_address # stored
  THEN {controller_address} ELSE {}

CancelPairing ==
  /\ scan' = "none" /\ pairing_candidate_selected' = FALSE /\ chord' = "none"
  /\ bonds' = bonds \ RejectedBonds
  /\ RestoreAddress
  /\ DropLink
  /\ reconnect_timer' = (reconnect_timer \/ stored # NoAddress)
  /\ fresh' = FALSE
  /\ UNCHANGED <<stored, descriptor_ready, candidate, survivors, late>>

CancelCommand == config_active /\ CancelPairing /\ UNCHANGED config_active

\* Cancels first where a candidate is selected.
StartScan ==
  /\ config_active
  /\ scan' = "requested" /\ candidate' = NoAddress
  /\ pairing_candidate_selected' = FALSE /\ chord' = "none"
  /\ bonds' = bonds \ RejectedBonds
  /\ IF pairing_candidate_selected THEN RestoreAddress ELSE UNCHANGED target
  /\ DropLink
  /\ reconnect_timer' = FALSE
  /\ fresh' = FALSE
  /\ UNCHANGED <<stored, descriptor_ready, config_active, survivors, late>>

\* begin_pairing_scan: the inquiry starts, or 65 s have passed.
BeginScan ==
  /\ scan = "requested"
  /\ scan' \in (IF hci THEN {"active"} ELSE {}) \union {"none"}
  /\ UNCHANGED <<stack, stored, connecting, target, candidate,
                 pairing_candidate_selected, chord, config_active, history>>

InquiryResult(a) ==
  /\ scan = "active" /\ candidate' = a
  /\ UNCHANGED <<stack, stored, connecting, target, scan,
                 pairing_candidate_selected, chord, config_active, history>>

InquiryComplete ==
  /\ scan = "active" /\ scan' = "none"
  /\ UNCHANGED <<stack, stored, connecting, target, candidate,
                 pairing_candidate_selected, chord, config_active, history>>

\* Faulty variant: a candidate may bring an old key.
NoStaleBonds(a) == {}

\* A candidate that is not the stored controller starts without a bond.
StaleBonds(a) == IF a # stored THEN {a} ELSE {}

SelectCandidate(a) ==
  /\ config_active /\ candidate = a
  /\ controller_address' = a /\ controller_address_valid' = TRUE
  /\ scan' = "none" /\ pairing_candidate_selected' = TRUE /\ chord' = "none"
  /\ bonds' = bonds \ StaleBonds(a)
  /\ DropLink
  /\ reconnect_timer' = TRUE
  /\ fresh' = FALSE
  /\ UNCHANGED <<stored, descriptor_ready, candidate, config_active, survivors,
                 late>>

\* Reports of a candidate only show whether the chord is held.
ChordReport(held) ==
  /\ link \in {"open", "closing"} /\ descriptor_ready
  /\ pairing_candidate_selected /\ config_active
  /\ chord' \in IF chord = "confirmed" THEN {"confirmed"}
                ELSE IF ~held THEN {"none"}
                ELSE IF chord = "none" THEN {"held"} ELSE {"held", "confirmed"}
  /\ UNCHANGED <<stack, stored, connecting, target, scan, candidate,
                 pairing_candidate_selected, config_active, history>>

\* confirm_pairing_candidate: the address is stored before the old bond goes.
Confirmable ==
  /\ config_active /\ pairing_candidate_selected /\ chord = "confirmed"
  /\ controller_address \in bonds

OldBonds == IF stored # NoAddress THEN {stored} \ {controller_address} ELSE {}

ConfirmPairing ==
  /\ Confirmable
  /\ stored' = controller_address
  /\ bonds' = bonds \ OldBonds
  /\ pairing_candidate_selected' = FALSE /\ chord' = "none" /\ fresh' = FALSE
  /\ UNCHANGED <<hci, link, peer, ssp, connecting, target, scan, candidate,
                 config_active, survivors, late>>

\* The HID descriptor of the controller: a candidate's is decided on here.
Descriptor(supported) ==
  /\ link \in {"open", "closing"}
  /\ descriptor_ready' = supported
  /\ \/ /\ supported
        /\ UNCHANGED <<stack, stored, hid_cid, reconnect_timer, target, pairing,
                       history>>
     \/ /\ ~supported /\ ~pairing_candidate_selected
        /\ link' = IF hid_cid THEN "closing" ELSE link
        /\ UNCHANGED <<hci, peer, ssp, bonds, stored, hid_cid, reconnect_timer,
                       target, pairing, history>>
     \/ /\ ~supported /\ pairing_candidate_selected
        /\ scan' = "none" /\ pairing_candidate_selected' = FALSE
        /\ chord' = "none" /\ bonds' = bonds \ RejectedBonds
        /\ RestoreAddress /\ DropLink
        /\ reconnect_timer' = (reconnect_timer \/ stored # NoAddress)
        /\ fresh' = FALSE
        /\ UNCHANGED <<stored, candidate, survivors, late>>
  /\ UNCHANGED config_active
----------------------------------------------------------------------------
(* The session, as main() follows it, and power. *)
OpenSession ==
  /\ ~config_active /\ config_active' = TRUE
  /\ UNCHANGED <<stack, stored, connecting, target, pairing, history>>

CloseSession ==
  /\ config_active /\ config_active' = FALSE
  /\ IF scan # "none" \/ pairing_candidate_selected
     THEN CancelPairing
     ELSE UNCHANGED <<stack, stored, connecting, target, pairing, history>>

\* Also in the middle of confirm_pairing_candidate().
PowerFails ==
  /\ stored' \in {stored} \union (IF Confirmable THEN {controller_address} ELSE {})
  /\ bonds' = bonds
  /\ survivors' = survivors \union bonds /\ late' = late
  /\ Boot

PairingNext ==
  \/ HciWorking \/ ConnectController \/ Incoming \/ Opened \/ OpenFails \/ Closed
  \/ AcceptPairing \/ LinkKey
  \/ CancelCommand \/ StartScan \/ BeginScan \/ InquiryComplete \/ ConfirmPairing
  \/ \E a \in Addresses : InquiryResult(a) \/ SelectCandidate(a)
  \/ \E held \in BOOLEAN : ChordReport(held)
  \/ \E supported \in BOOLEAN : Descriptor(supported)
  \/ OpenSession \/ CloseSession \/ PowerFails

PairingSpec == PairingInit /\ [][PairingNext]_pairingVars
----------------------------------------------------------------------------
PairingTypeOK ==
  /\ hci \in BOOLEAN
  /\ link \in {"none", "opening", "open", "closing"}
  /\ peer \in IF link = "none" THEN {NoAddress} ELSE Addresses
  /\ ssp \in Addresses \union {NoAddress}
  /\ bonds \subseteq Addresses /\ survivors \cup late \subseteq Addresses
  /\ stored \in Addresses \union {NoAddress}
  /\ hid_cid \in BOOLEAN /\ reconnect_timer \in BOOLEAN
  /\ descriptor_ready \in BOOLEAN /\ config_active \in BOOLEAN
  /\ controller_address \in Addresses \union {NoAddress}
  /\ controller_address_valid \in BOOLEAN
  /\ controller_address_valid => controller_address # NoAddress
  /\ scan \in {"none", "requested", "active"}
  /\ candidate \in Addresses \union {NoAddress}
  /\ pairing_candidate_selected \in BOOLEAN
  /\ chord \in {"none", "held", "confirmed"}
  /\ fresh \in BOOLEAN

\* A report arriving now would be mapped.
Mapped ==
  /\ link \in {"open", "closing"} /\ descriptor_ready
  /\ ~pairing_candidate_selected /\ ~config_active

(* Outside setup, the only link the receiver itself still holds whose      *)
(* reports it maps is the committed controller's, whatever was scanned,    *)
(* selected, bonded, cancelled, refused or cut short by a power failure    *)
(* before; or, where no controller is committed, that of a rejected one    *)
(* bonded late, whose address stays the one sought                         *)
(* (live_bridge_bench.cpp:131-170, 341-346, 626-658).  The reports of a    *)
(* link it has let go of are UncommittedNeverMoves' business.              *)
MotionOnlyFromCommitted ==
  hid_cid /\ Mapped
    => peer = stored \/ (stored = NoAddress /\ peer \in late)

(* docs/CONFIGURATION_PROTOCOL.md:72, `An uncommitted candidate is never a *)
(* motion source': neither over an open link that is told to close, nor    *)
(* over one that is open outside setup.  But cancel_pairing() leaves       *)
(* descriptor_ready set, and without a stored controller its address too   *)
(* (live_bridge_bench.cpp:626-658); consume_controller_report() maps a     *)
(* report of any link and any peer (131-170).                              *)
UncommittedNeverMoves ==
  [][(link = "open" \/ link' = "open") /\ Mapped'
       => peer' = stored']_pairingVars

(* A link key without a committed controller is left only by a power       *)
(* failure or made while its link already closes: scanning again,          *)
(* cancelling, closing the app, replacing the controller and an            *)
(* unsupported descriptor all delete it                                    *)
(* (live_bridge_bench.cpp:525-529, 572-577, 602-612, 640-647, 735-738).    *)
BondsAreCommitted ==
  bonds \subseteq {stored} \union survivors \union late
                  \union (IF pairing_candidate_selected THEN {controller_address} ELSE {})

(* A new controller is committed only in a session, with its own link key  *)
(* made since it was selected, so never with one an abandoned setup left   *)
(* in flash (live_bridge_bench.cpp:572-577, 585-595).                      *)
CommitNeedsFreshBond ==
  [][stored' \notin {stored, NoAddress} => config_active /\ fresh]_pairingVars

(* A selected candidate is sought until the transaction ends: in every     *)
(* state there is a link, or the timer that will ask for one; no race of   *)
(* close, refusal and scan loses it (live_bridge_bench.cpp:216-237,        *)
(* 334-378, 441-451, 553-583).                                             *)
CandidateIsSought ==
  pairing_candidate_selected /\ link = "none" => reconnect_timer

(* docs/CONFIGURATION_PROTOCOL.md:72-74, `Closing setup cancels an         *)
(* in-progress pairing transaction and restores the last committed         *)
(* controller': the receiver seeks it again.                               *)
SetupRestoresController ==
  ~config_active /\ hci /\ stored # NoAddress /\ link = "none" => reconnect_timer
=============================================================================
