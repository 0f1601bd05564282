--------------------------- MODULE PairingProofs ---------------------------
(***************************************************************************)
(* For any set of controllers: pairing keeps its types, its bonds to the   *)
(* committed controller, its search for a candidate, and commits only a    *)
(* controller bonded anew; outside setup, of the links it holds, only a    *)
(* committed controller's, or one bonded late with none committed, moves.  *)
(***************************************************************************)
EXTENDS GamepadPairing, TLAPS

\* A link of the firmware's own, not yet let go of.
InUse == link \in {"opening", "open"} \/ (link = "closing" /\ hid_cid)

\* hid_cid stands for a link, and every link in use has it.
LinkIsKnown ==
  /\ InUse => hid_cid
  /\ hid_cid => link # "none"

\* A link in use is with the controller sought: whatever changes the one
\* closes the other.
LinkIsSought == InUse => peer = controller_address

\* A pairing going on is with the candidate, or with the controller it was
\* committed as meanwhile.
PairingIsWanted ==
  /\ link = "none" => ssp = NoAddress
  /\ InUse /\ ssp # NoAddress =>
       /\ ssp = controller_address
       /\ pairing_candidate_selected \/ ssp = stored

\* A selection ends the scan, and a scan the selection.
SelectionIsCandidate ==
  pairing_candidate_selected =>
    /\ controller_address_valid
    /\ controller_address = candidate
    /\ scan = "none"

\* The selected candidate has only a key of its own selection.
CandidateKeyIsFresh ==
  pairing_candidate_selected /\ controller_address \in bonds
    => controller_address = stored \/ fresh

\* Without a selection the committed controller is sought, if there is one.
CommittedIsSought ==
  ~pairing_candidate_selected =>
    /\ stored # NoAddress => controller_address = stored
    /\ stored = NoAddress /\ controller_address \in bonds
         => controller_address \in late
    /\ stored = NoAddress /\ InUse /\ link # "opening" => peer \in late

Consistent ==
  /\ LinkIsKnown
  /\ LinkIsSought
  /\ PairingIsWanted
  /\ SelectionIsCandidate
  /\ CandidateKeyIsFresh
  /\ CommittedIsSought
  /\ BondsAreCommitted
  /\ CandidateIsSought

PairingInv == PairingTypeOK /\ Consistent
----------------------------------------------------------------------------
(* The types in three parts: the stack and its history; the controller     *)
(* sought; the transaction.                                                *)
StackTypes ==
  /\ hci \in BOOLEAN
  /\ link \in {"none", "opening", "open", "closing"}
  /\ peer \in IF link = "none" THEN {NoAddress} ELSE Addresses
  /\ ssp \in Addresses \union {NoAddress}
  /\ bonds \subseteq Addresses /\ survivors \cup late \subseteq Addresses
  /\ stored \in Addresses \union {NoAddress}

TargetTypes ==
  /\ hid_cid \in BOOLEAN /\ reconnect_timer \in BOOLEAN
  /\ controller_address \in Addresses \union {NoAddress}
  /\ controller_address_valid \in BOOLEAN
  /\ controller_address_valid => controller_address # NoAddress

TransactionTypes ==
  /\ descriptor_ready \in BOOLEAN /\ config_active \in BOOLEAN
  /\ scan \in {"none", "requested", "active"}
  /\ candidate \in Addresses \union {NoAddress}
  /\ pairing_candidate_selected \in BOOLEAN
  /\ chord \in {"none", "held", "confirmed"}
  /\ fresh \in BOOLEAN

(* Every command, callback, timer and power failure keeps the types.       *)
LEMMA TypeStep == PairingTypeOK /\ [PairingNext]_pairingVars => PairingTypeOK'
<1> SUFFICES ASSUME PairingTypeOK, [PairingNext]_pairingVars
             PROVE  PairingTypeOK'
  OBVIOUS
<1> USE AddressesAssumption DEF PairingTypeOK, stack, connecting, target, pairing, history
<1>1. CASE HciWorking
  BY <1>1 DEF HciWorking
<1>2. CASE ConnectController
  <2>1. CASE hid_cid \/ ~controller_address_valid
    <3>1. /\ reconnect_timer' = FALSE
          /\ UNCHANGED <<hci, link, peer, ssp, bonds, stored, hid_cid,
                        descriptor_ready, controller_address,
                        controller_address_valid, scan, candidate,
                        pairing_candidate_selected, chord, config_active, fresh,
                        survivors, late>>
      BY <1>2, <2>1 DEF ConnectController
    <3>2. /\ {hci', hid_cid', reconnect_timer', descriptor_ready', config_active',
              controller_address_valid', pairing_candidate_selected', fresh'}
               \subseteq BOOLEAN
          /\ controller_address_valid' => controller_address' # NoAddress
      BY <3>1
    <3>3. /\ {ssp', stored', controller_address', candidate'}
               \subseteq Addresses \union {NoAddress}
          /\ bonds' \union survivors' \union late' \subseteq Addresses
          /\ peer' \in IF link' = "none" THEN {NoAddress} ELSE Addresses
      BY <3>1
    <3>4. QED
      BY <3>1, <3>2, <3>3
  <2>2. CASE ~hid_cid /\ controller_address_valid
    <3>1. StackTypes'
      BY <1>2, <2>2 DEF StackTypes, ConnectController
    <3>2. TargetTypes'
      BY <1>2, <2>2 DEF TargetTypes, ConnectController
    <3>3. TransactionTypes'
      BY <1>2, <2>2 DEF TransactionTypes, ConnectController
    <3>4. QED
      BY <3>1, <3>2, <3>3 DEF StackTypes, TargetTypes, TransactionTypes
  <2>3. QED
    BY <2>1, <2>2
<1>3. CASE Incoming
  <2>1. StackTypes'
    BY <1>3 DEF StackTypes, Incoming
  <2>2. TargetTypes'
    BY <1>3 DEF TargetTypes, Incoming
  <2>3. TransactionTypes'
    BY <1>3 DEF TransactionTypes, Incoming
  <2>4. QED
    BY <2>1, <2>2, <2>3 DEF StackTypes, TargetTypes, TransactionTypes
<1>4. CASE Opened
  <2>1. StackTypes'
    BY <1>4 DEF StackTypes, Opened
  <2>2. TargetTypes'
    BY <1>4 DEF TargetTypes, Opened
  <2>3. TransactionTypes'
    BY <1>4 DEF TransactionTypes, Opened
  <2>4. QED
    BY <2>1, <2>2, <2>3 DEF StackTypes, TargetTypes, TransactionTypes
<1>5. CASE OpenFails
  <2>1. StackTypes'
    BY <1>5 DEF StackTypes, OpenFails
  <2>2. TargetTypes'
    BY <1>5 DEF TargetTypes, OpenFails
  <2>3. TransactionTypes'
    BY <1>5 DEF TransactionTypes, OpenFails
  <2>4. QED
    BY <2>1, <2>2, <2>3 DEF StackTypes, TargetTypes, TransactionTypes
<1>6. CASE Closed
  <2>1. StackTypes'
    BY <1>6 DEF StackTypes, Closed
  <2>2. TargetTypes'
    BY <1>6 DEF TargetTypes, Closed
  <2>3. TransactionTypes'
    BY <1>6 DEF TransactionTypes, Closed
  <2>4. QED
    BY <2>1, <2>2, <2>3 DEF StackTypes, TargetTypes, TransactionTypes
<1>7. CASE AcceptPairing
  BY <1>7 DEF AcceptPairing
<1>8. CASE LinkKey
  BY <1>8 DEF LinkKey
<1>9. CASE CancelCommand
  BY <1>9 DEF CancelCommand, CancelPairing, DropLink, RejectedBonds, RestoreAddress
<1>10. CASE StartScan
  BY <1>10 DEF StartScan, DropLink, RejectedBonds, RestoreAddress
<1>11. CASE BeginScan
  BY <1>11 DEF BeginScan
<1>12. CASE InquiryComplete
  BY <1>12 DEF InquiryComplete
<1>13. CASE ConfirmPairing
  <2>1. StackTypes'
    BY <1>13 DEF StackTypes, ConfirmPairing, Confirmable, OldBonds
  <2>2. TargetTypes'
    BY <1>13 DEF TargetTypes, ConfirmPairing, Confirmable, OldBonds
  <2>3. TransactionTypes'
    BY <1>13 DEF TransactionTypes, ConfirmPairing, Confirmable, OldBonds
  <2>4. QED
    BY <2>1, <2>2, <2>3 DEF StackTypes, TargetTypes, TransactionTypes
<1>14. ASSUME NEW a \in Addresses, InquiryResult(a)
     PROVE  PairingTypeOK'
  BY <1>14 DEF InquiryResult
<1>15. ASSUME NEW a \in Addresses, SelectCandidate(a)
     PROVE  PairingTypeOK'
  BY <1>15 DEF SelectCandidate, DropLink, StaleBonds
<1>16. ASSUME NEW held \in BOOLEAN, ChordReport(held)
     PROVE  PairingTypeOK'
  BY <1>16 DEF ChordReport
<1>17. ASSUME NEW supported \in BOOLEAN, Descriptor(supported)
     PROVE  PairingTypeOK'
  <2>1. CASE supported
    BY <1>17, <2>1 DEF Descriptor
  <2>2. CASE ~supported /\ ~pairing_candidate_selected
    BY <1>17, <2>2 DEF Descriptor
  <2>3. CASE ~supported /\ pairing_candidate_selected
    BY <1>17, <2>3 DEF Descriptor, DropLink, RejectedBonds, RestoreAddress
  <2>4. QED
    BY <2>1, <2>2, <2>3
<1>18. CASE OpenSession
  BY <1>18 DEF OpenSession
<1>19. CASE CloseSession
  <2>1. CASE scan # "none" \/ pairing_candidate_selected
    BY <1>19, <2>1 DEF CloseSession, CancelPairing, DropLink, RejectedBonds, RestoreAddress
  <2>2. CASE scan = "none" /\ ~pairing_candidate_selected
    <3>1. StackTypes'
      BY <1>19, <2>2 DEF StackTypes, CloseSession
    <3>2. TargetTypes'
      BY <1>19, <2>2 DEF TargetTypes, CloseSession
    <3>3. TransactionTypes'
      BY <1>19, <2>2 DEF TransactionTypes, CloseSession
    <3>4. QED
      BY <3>1, <3>2, <3>3 DEF StackTypes, TargetTypes, TransactionTypes
  <2>3. QED
    BY <2>1, <2>2
<1>20. CASE PowerFails
  BY <1>20 DEF PowerFails, Boot, Confirmable
<1>21. CASE UNCHANGED pairingVars
  BY <1>21 DEF pairingVars
<1>22. QED
  BY <1>1, <1>2, <1>3, <1>4, <1>5, <1>6, <1>7, <1>8, <1>9, <1>10, <1>11, <1>12,
     <1>13, <1>14, <1>15, <1>16, <1>17, <1>18, <1>19, <1>20, <1>21 DEF PairingNext

(* And the rest of the invariant, which the types are part of.             *)
LEMMA InvStep == PairingInv /\ [PairingNext]_pairingVars => PairingInv'
<1> SUFFICES ASSUME PairingTypeOK, Consistent, PairingTypeOK', [PairingNext]_pairingVars
             PROVE  Consistent'
  BY TypeStep DEF PairingInv
<1> USE AddressesAssumption DEF stack, connecting, target, pairing, history,
           Consistent, InUse, LinkIsKnown, LinkIsSought, PairingIsWanted,
           SelectionIsCandidate, CandidateKeyIsFresh, CommittedIsSought,
           BondsAreCommitted, CandidateIsSought
<1> USE DEF PairingTypeOK
<1>1. CASE HciWorking
  BY <1>1 DEF HciWorking
<1>2. CASE ConnectController
  <2>1. CASE hid_cid \/ ~controller_address_valid
    <3>1. ~(pairing_candidate_selected /\ link = "none")
      BY <2>1
    <3>2. QED
      BY <1>2, <2>1, <3>1 DEF ConnectController
  <2>2. CASE ~hid_cid /\ controller_address_valid
    BY <1>2, <2>2 DEF ConnectController
  <2>3. QED
    BY <2>1, <2>2
<1>3. CASE Incoming
  BY <1>3 DEF Incoming
<1>4. CASE Opened
  BY <1>4 DEF Opened
<1>5. CASE OpenFails
  BY <1>5 DEF OpenFails
<1>6. CASE Closed
  BY <1>6 DEF Closed
<1>7. CASE AcceptPairing
  BY <1>7 DEF AcceptPairing
<1>8. CASE LinkKey
  BY <1>8 DEF LinkKey
<1>9. CASE CancelCommand
  BY <1>9 DEF CancelCommand, CancelPairing, DropLink, RejectedBonds, RestoreAddress
<1>10. CASE StartScan
  BY <1>10 DEF StartScan, DropLink, RejectedBonds, RestoreAddress
<1>11. CASE BeginScan
  BY <1>11 DEF BeginScan
<1>12. CASE InquiryComplete
  BY <1>12 DEF InquiryComplete
<1>13. CASE ConfirmPairing
  <2>1. /\ stored' = controller_address /\ controller_address # NoAddress
        /\ ~pairing_candidate_selected'
        /\ UNCHANGED <<link, peer, ssp, hid_cid, reconnect_timer, controller_address,
                      controller_address_valid, scan, candidate, survivors, late>>
    BY <1>13 DEF ConfirmPairing, Confirmable
  <2>2. BondsAreCommitted'
    <3>1. bonds \subseteq {stored} \union survivors \union late
                          \union {controller_address}
      BY <1>13 DEF ConfirmPairing, Confirmable
    <3>2. bonds' \subseteq survivors \union late \union {controller_address}
      BY <1>13, <3>1 DEF ConfirmPairing, OldBonds
    <3>3. QED
      BY <2>1, <3>2
  <2>3. PairingIsWanted'
    BY <2>1
  <2>4. QED
    BY <2>1, <2>2, <2>3
<1>14. ASSUME NEW a \in Addresses, InquiryResult(a)
     PROVE  Consistent'
  BY <1>14 DEF InquiryResult
<1>15. ASSUME NEW a \in Addresses, SelectCandidate(a)
     PROVE  Consistent'
  BY <1>15 DEF SelectCandidate, DropLink, StaleBonds
<1>16. ASSUME NEW held \in BOOLEAN, ChordReport(held)
     PROVE  Consistent'
  BY <1>16 DEF ChordReport
<1>17. ASSUME NEW supported \in BOOLEAN, Descriptor(supported)
     PROVE  Consistent'
  <2>1. CASE supported
    BY <1>17, <2>1 DEF Descriptor
  <2>2. CASE ~supported /\ ~pairing_candidate_selected
    BY <1>17, <2>2 DEF Descriptor
  <2>3. CASE ~supported /\ pairing_candidate_selected
    BY <1>17, <2>3 DEF Descriptor, DropLink, RejectedBonds, RestoreAddress
  <2>4. QED
    BY <2>1, <2>2, <2>3
<1>18. CASE OpenSession
  BY <1>18 DEF OpenSession
<1>19. CASE CloseSession
  <2>1. CASE scan # "none" \/ pairing_candidate_selected
    BY <1>19, <2>1 DEF CloseSession, CancelPairing, DropLink, RejectedBonds, RestoreAddress
  <2>2. CASE scan = "none" /\ ~pairing_candidate_selected
    BY <1>19, <2>2 DEF CloseSession
  <2>3. QED
    BY <2>1, <2>2
<1>20. CASE PowerFails
  BY <1>20 DEF PowerFails, Boot, Confirmable
<1>21. CASE UNCHANGED pairingVars
  BY <1>21 DEF pairingVars
<1>22. QED
  BY <1>1, <1>2, <1>3, <1>4, <1>5, <1>6, <1>7, <1>8, <1>9, <1>10, <1>11, <1>12,
     <1>13, <1>14, <1>15, <1>16, <1>17, <1>18, <1>19, <1>20, <1>21 DEF PairingNext
-----------------------------------------------------------------------------
(* The types, for any controllers and any order of events.                 *)
THEOREM PairingTypeCorrect == PairingSpec => []PairingTypeOK
<1>1. PairingInit => PairingTypeOK
  BY AddressesAssumption DEF PairingInit, PairingTypeOK
<1>2. QED
  BY <1>1, TypeStep, PTL DEF PairingSpec

(* The invariant behind the properties below: which link, key and timer    *)
(* go with the controller sought.                                          *)
THEOREM PairingInvariant == PairingSpec => []PairingInv
<1>1. PairingInit => PairingInv
  BY AddressesAssumption
  DEF PairingInit, PairingInv, PairingTypeOK, Consistent, InUse, LinkIsKnown, LinkIsSought,
      PairingIsWanted, SelectionIsCandidate, CandidateKeyIsFresh, CommittedIsSought,
      BondsAreCommitted, CandidateIsSought
<1>2. QED
  BY <1>1, InvStep, PTL DEF PairingSpec

(* Every link key in flash has its reason, over any number of controllers, *)
(* selections, cancellations and power failures.                           *)
THEOREM PairingBonds == PairingSpec => []BondsAreCommitted
<1>1. PairingInv => BondsAreCommitted
  BY DEF PairingInv, Consistent
<1>2. QED
  BY <1>1, PairingInvariant, PTL

(* A selected candidate always has a link or the timer that asks for one.  *)
THEOREM PairingSeeksCandidate == PairingSpec => []CandidateIsSought
<1>1. PairingInv => CandidateIsSought
  BY DEF PairingInv, Consistent
<1>2. QED
  BY <1>1, PairingInvariant, PTL

(* Outside setup, of the links the receiver still holds only the committed *)
(* controller's is mapped; where none is committed, only that of a         *)
(* rejected one bonded late.  Links it has let go of are not covered.      *)
THEOREM PairingMotion == PairingSpec => []MotionOnlyFromCommitted
<1>1. PairingInv => MotionOnlyFromCommitted
  BY DEF PairingInv, Consistent, LinkIsSought, InUse, CommittedIsSought,
         MotionOnlyFromCommitted, Mapped
<1>2. QED
  BY <1>1, PairingInvariant, PTL

(* A new controller is stored only by a confirmation, or by one a power    *)
(* failure cut short: both find the candidate selected and bonded.         *)
LEMMA CommitStep ==
  ASSUME PairingInv, [PairingNext]_pairingVars, stored' \notin {stored, NoAddress}
  PROVE  Confirmable /\ stored' = controller_address
<1>1. ConfirmPairing \/ PowerFails
  BY DEF PairingNext, pairingVars, HciWorking, ConnectController, Incoming, Opened, OpenFails,
         Closed, AcceptPairing, LinkKey, CancelCommand, CancelPairing, StartScan,
         BeginScan, InquiryComplete, InquiryResult, SelectCandidate, ChordReport,
         Descriptor, OpenSession, CloseSession
<1>2. QED
  BY <1>1 DEF ConfirmPairing, PowerFails

(* A new controller is committed only in a session, with a link key made   *)
(* since it was selected.                                                  *)
THEOREM PairingCommits == PairingSpec => CommitNeedsFreshBond
<1>1. PairingInv /\ [PairingNext]_pairingVars
        => [stored' \notin {stored, NoAddress} => config_active /\ fresh]_pairingVars
  BY CommitStep DEF PairingInv, Consistent, CandidateKeyIsFresh, Confirmable
<1>2. QED
  BY <1>1, PairingInvariant, PTL DEF PairingSpec, CommitNeedsFreshBond
=============================================================================
