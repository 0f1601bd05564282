-------------------------- MODULE PersistentConfig --------------------------
(***************************************************************************)
(* PersistentConfig: the button mapping and the controller's address in    *)
(* two TLV tags of flash, written in turn, each write read back.  One      *)
(* action per flash access, so that power may fail between any two; the    *)
(* flash (BTstack's TLV) may tear a write, and may fail to read back what  *)
(* it wrote; at boot it reads what it has.  A slot is a decodable record   *)
(* (magic, schema, CRC, valid mapping) or Unreadable.                      *)
(***************************************************************************)
EXTENDS Integers

CONSTANTS
  Mappings, DefaultMapping,   \* valid mappings, and the compiled one
  Controllers, NoController,  \* controllers, and `none stored'
  RecordModulus               \* 2^32

ASSUME ConfigAssumption == DefaultMapping \in Mappings /\ NoController \notin Controllers
ASSUME RecordNumberAssumption == RecordModulus \in Nat /\ RecordModulus > 2

Tags == {"A", "B"}
NoTag == "none"
Unreadable == [readable |-> FALSE]     \* absent, torn or corrupt

RecordNumbers == 0 .. RecordModulus - 1
Configs == [mapping : Mappings, address : Controllers \union {NoController}]
Default == [mapping |-> DefaultMapping, address |-> NoController]
Record == [readable : {TRUE}, sequence : RecordNumbers, config : Configs]
Slots == Record \union {Unreadable}

VARIABLES
  pc,           \* off, idle, or where a store() is
  flash,
  sequence,     \* sequence_
  active_tag,   \* active_tag_
  config,       \* the mapping in use and controller_address_
  wanted,       \* what the store() at work is to store
  (* history *)
  expected      \* what a restart may bring back

ram == <<sequence, active_tag, config>>
storeVars == <<pc, flash, ram, wanted, expected>>

\* encode()
Encoded(number, value) == [readable |-> TRUE, sequence |-> number, config |-> value]

StoreInit ==
  /\ pc = "off"
  /\ flash = [t \in Tags |-> Unreadable]
  /\ sequence = 0 /\ active_tag = NoTag /\ config = Default
  /\ wanted = Default /\ expected = {Default}
----------------------------------------------------------------------------
NewerUnwrapped(left, right) == left > right
Newer(left, right) ==
  (left - right) % RecordModulus \in 1 .. (RecordModulus - 1) \div 2

\* The tag load() takes.
Taken(slots) ==
  LET a == slots["A"]
      b == slots["B"]
  IN  IF b.readable /\ (a.readable => Newer(b.sequence, a.sequence)) THEN "B"
      ELSE IF a.readable THEN "A" ELSE NoTag

Load ==
  LET tag == Taken(flash)
  IN  /\ pc = "off" /\ pc' = "idle"
      /\ active_tag' = tag
      /\ sequence' = IF tag = NoTag THEN 0 ELSE flash[tag].sequence
      /\ config' = IF tag = NoTag THEN Default ELSE flash[tag].config
      /\ expected' = {config'}
      /\ UNCHANGED <<flash, wanted>>

\* store() and store_controller_address(), both of a valid argument.
StoreMapping(mapping) == wanted' = [config EXCEPT !.mapping = mapping]
StoreAddress(address) == wanted' = [config EXCEPT !.address = address]

Store ==
  /\ pc = "idle" /\ pc' = "write"
  /\ \/ \E mapping \in Mappings : StoreMapping(mapping)
     \/ \E address \in Controllers : StoreAddress(address)
  /\ expected' = {config, wanted'}
  /\ UNCHANGED <<flash, ram>>

Target == IF active_tag = "A" THEN "B" ELSE "A"
Candidate == Encoded((sequence + 1) % RecordModulus, wanted)

\* The store is given up: the caller is told, and keeps what it had.
GiveUp == pc' = "idle" /\ expected' = {config}

\* store_tag(): it may fail without writing, or write what cannot be read.
WriteFails ==
  /\ pc = "write" /\ GiveUp
  /\ UNCHANGED <<flash, ram, wanted>>

Write ==
  /\ pc = "write" /\ pc' = "verify"
  /\ \E slot \in {Candidate, Unreadable} : flash' = [flash EXCEPT ![Target] = slot]
  /\ UNCHANGED <<ram, wanted, expected>>

\* The read-back agrees ...
Verified ==
  /\ pc = "verify" /\ pc' = "idle"
  /\ flash[Target] = Candidate
  /\ sequence' = Candidate.sequence /\ active_tag' = Target
  /\ config' = wanted
  /\ expected' = {wanted}
  /\ UNCHANGED <<flash, wanted>>

\* ... or not, if only because the read failed: the candidate is deleted.
NotVerified ==
  /\ pc = "verify" /\ pc' = "delete"
  /\ UNCHANGED <<flash, ram, wanted, expected>>

LeaveCandidate ==
  /\ pc = "delete" /\ GiveUp
  /\ UNCHANGED <<flash, ram, wanted>>
DeleteCandidate ==
  /\ pc = "delete" /\ GiveUp
  /\ flash' = [flash EXCEPT ![Target] = Unreadable]
  /\ UNCHANGED <<ram, wanted>>

\* Power loss or watchdog; an access to flash may be half done.
PowerLoss ==
  /\ pc # "off" /\ pc' = "off"
  /\ flash' \in {flash}
       \union (IF pc = "write"
               THEN {[flash EXCEPT ![Target] = slot] : slot \in {Candidate, Unreadable}}
               ELSE IF pc = "delete" THEN {[flash EXCEPT ![Target] = Unreadable]}
               ELSE {})
  /\ sequence' = 0 /\ active_tag' = NoTag /\ config' = Default
  /\ UNCHANGED <<wanted, expected>>

StoreNext ==
  \/ Load \/ Store \/ Write \/ WriteFails \/ Verified \/ NotVerified \/ DeleteCandidate
  \/ PowerLoss

StoreSpec == StoreInit /\ [][StoreNext]_storeVars
----------------------------------------------------------------------------
StoreTypeOK ==
  /\ pc \in {"off", "idle", "write", "verify", "delete"}
  /\ flash \in [Tags -> Slots]
  /\ sequence \in RecordNumbers /\ active_tag \in Tags \union {NoTag}
  /\ config \in Configs /\ wanted \in Configs
  /\ expected \subseteq Configs

(* A restart brings back, mapping and address together, what was last      *)
(* reported stored; the store cut short by the restart may have happened   *)
(* or not; a store reported failed never shows up later                    *)
(* (persistent_config.cpp:136-177, 199-202).                               *)
RestartBringsBack == [][pc = "off" /\ pc' = "idle" => config' \in expected]_storeVars

(* The strengthening.  The record in use is in flash and numbered next to  *)
(* the other one; a store works on the other tag; and whatever a power     *)
(* loss leaves in flash, load() finds in it what is expected.              *)
Other(t) == IF t = "A" THEN "B" ELSE "A"

FollowedBy(slots, t, u) ==
  slots[u].readable => slots[t].sequence = (slots[u].sequence + 1) % RecordModulus

UsedRecordInFlash ==
  pc # "off" =>
    IF active_tag = NoTag
    THEN sequence = 0 /\ config = Default /\ ~flash["B"].readable
    ELSE flash[active_tag] = Encoded(sequence, config)

OtherRecordIsOlder ==
  pc \in {"idle", "write"} =>
    IF active_tag = NoTag THEN ~flash["A"].readable
    ELSE FollowedBy(flash, active_tag, Target)

CandidateInTarget ==
  pc \in {"verify", "delete"} => flash[Target] \in {Candidate, Unreadable}

ExpectedIsKnown ==
  /\ pc = "idle" => expected = {config}
  /\ pc \in {"write", "verify", "delete"} => expected = {config, wanted}

LoadFinds(slots, values) ==
  /\ slots["A"].readable /\ slots["B"].readable =>
       FollowedBy(slots, "A", "B") \/ FollowedBy(slots, "B", "A")
  /\ LET tag == Taken(slots)
     IN  (IF tag = NoTag THEN Default ELSE slots[tag].config) \in values

InUseIsNewest ==
  /\ UsedRecordInFlash /\ OtherRecordIsOlder /\ CandidateInTarget
  /\ ExpectedIsKnown
  /\ pc = "off" => LoadFinds(flash, expected)
=============================================================================
