---------------------------- MODULE ConfigProofs ----------------------------
(***************************************************************************)
(* For every number space above 2 (2^32 in the code), every set of         *)
(* mappings and of addresses, and flash that reads back what it holds at   *)
(* boot: a restart brings back what was last reported stored.              *)
(***************************************************************************)
EXTENDS PersistentConfig, TLAPS

(* The number after x is newer than x and never the other way round, also  *)
(* where it wraps (persistent_config.cpp:122-124, 189).                    *)
LEMMA SuccessorIsNewer ==
  ASSUME NEW x \in RecordNumbers
  PROVE  LET y == (x + 1) % RecordModulus
         IN  y \in RecordNumbers /\ Newer(y, x) /\ ~Newer(x, y)
<1> DEFINE y == (x + 1) % RecordModulus
<1>1. y = IF x = RecordModulus - 1 THEN 0 ELSE x + 1
  BY RecordNumberAssumption DEF RecordNumbers
<1>2. y \in RecordNumbers
  BY <1>1, RecordNumberAssumption DEF RecordNumbers
<1>3. (y - x) % RecordModulus = 1
  BY <1>1, <1>2, RecordNumberAssumption DEF RecordNumbers
<1>4. (x - y) % RecordModulus = RecordModulus - 1
  BY <1>1, <1>2, RecordNumberAssumption DEF RecordNumbers
<1>5. 1 <= (RecordModulus - 1) \div 2
        /\ (RecordModulus - 1) \div 2 < RecordModulus - 1
  BY RecordNumberAssumption
<1>6. QED
  BY <1>2, <1>3, <1>4, <1>5, RecordNumberAssumption DEF Newer

(* A slot that is not a record is Unreadable.                              *)
LEMMA SlotFacts ==
  ASSUME NEW slot \in Slots
  PROVE  /\ slot.readable \in BOOLEAN
         /\ slot.readable => slot.sequence \in RecordNumbers /\ slot.config \in Configs
         /\ ~slot.readable => slot = Unreadable
<1>1. CASE slot \in Record
  <2>1. slot.readable = TRUE /\ slot.sequence \in RecordNumbers /\ slot.config \in Configs
    BY <1>1 DEF Record
  <2>2. QED
    BY <2>1
<1>2. CASE slot = Unreadable
  <2>1. slot.readable = FALSE
    BY <1>2 DEF Unreadable
  <2>2. QED
    BY <1>2, <2>1
<1>3. QED
  BY <1>1, <1>2 DEF Slots

(* What is written is a record, of the number and value asked for.         *)
LEMMA EncodedFacts ==
  ASSUME NEW number \in RecordNumbers, NEW value \in Configs
  PROVE  /\ Encoded(number, value) \in Slots
         /\ Encoded(number, value).readable
         /\ Encoded(number, value).sequence = number
         /\ Encoded(number, value).config = value
  BY DEF Encoded, Slots, Record

(* The candidate of a store is a record with the next number.              *)
LEMMA CandidateFacts ==
  ASSUME StoreTypeOK
  PROVE  /\ Candidate \in Slots /\ Candidate.readable
         /\ Candidate.sequence = (sequence + 1) % RecordModulus
         /\ Candidate.sequence \in RecordNumbers
         /\ Candidate.config = wanted
  BY SuccessorIsNewer, EncodedFacts DEF StoreTypeOK, Candidate

(* The state before the first boot, and power off.                         *)
LEMMA InitIInv == StoreInit => StoreTypeOK /\ InUseIsNewest
<1>1. Default \in Configs
  BY ConfigAssumption DEF Default, Configs
<1>2. StoreInit => StoreTypeOK
  BY <1>1, RecordNumberAssumption DEF StoreInit, StoreTypeOK, RecordNumbers, Slots, Tags, NoTag
<1>3. StoreInit => InUseIsNewest
  BY DEF StoreInit, InUseIsNewest, UsedRecordInFlash, OtherRecordIsOlder,
         CandidateInTarget, ExpectedIsKnown, LoadFinds, Unreadable, Tags, NoTag, Taken
<1>4. QED
  BY <1>2, <1>3

(* A store takes a configuration.                                          *)
LEMMA WantedFacts ==
  ASSUME StoreTypeOK, Store
  PROVE  wanted' \in Configs
<1>1. CASE \E mapping \in Mappings : StoreMapping(mapping)
  BY <1>1 DEF StoreMapping, StoreTypeOK, Configs
<1>2. CASE \E address \in Controllers : StoreAddress(address)
  BY <1>2 DEF StoreAddress, StoreTypeOK, Configs
<1>3. QED
  BY <1>1, <1>2 DEF Store

(* load() takes a readable record, if there is one.                        *)
LEMMA TakenFacts ==
  ASSUME StoreTypeOK
  PROVE  /\ Taken(flash) \in Tags \union {NoTag}
         /\ Taken(flash) # NoTag => flash[Taken(flash)].readable
         /\ Taken(flash) = NoTag => \A t \in Tags : ~flash[t].readable
  BY DEF Taken, Tags, NoTag

(* Types are kept.                                                         *)
LEMMA NextType ==
  ASSUME StoreTypeOK, [StoreNext]_storeVars
  PROVE  StoreTypeOK'
<1>1. CASE Load
  <2>1. Taken(flash) # NoTag =>
          /\ flash[Taken(flash)].sequence \in RecordNumbers
          /\ flash[Taken(flash)].config \in Configs
    BY TakenFacts, SlotFacts DEF StoreTypeOK
  <2>2. Default \in Configs /\ 0 \in RecordNumbers
    BY ConfigAssumption, RecordNumberAssumption DEF Default, Configs, RecordNumbers
  <2>3. sequence' \in RecordNumbers /\ config' \in Configs
    BY <1>1, <2>1, <2>2 DEF Load
  <2>4. active_tag' \in Tags \union {NoTag}
    BY <1>1, TakenFacts DEF Load
  <2>5. QED
    BY <1>1, <2>3, <2>4 DEF Load, StoreTypeOK
<1>2. CASE Store
  BY <1>2, WantedFacts DEF Store, StoreTypeOK, ram
<1>3. CASE Write
  <2>1. Unreadable \in Slots /\ Candidate \in Slots /\ Target \in Tags
    BY CandidateFacts DEF Slots, Target, Tags
  <2>2. flash' \in [Tags -> Slots]
    BY <1>3, <2>1 DEF Write, StoreTypeOK
  <2>3. QED
    BY <1>3, <2>2 DEF Write, StoreTypeOK, ram
<1>4. CASE WriteFails
  BY <1>4 DEF WriteFails, GiveUp, StoreTypeOK, ram
<1>5. CASE Verified
  BY <1>5, CandidateFacts DEF Verified, StoreTypeOK, Target, Tags
<1>6. CASE NotVerified
  BY <1>6 DEF NotVerified, StoreTypeOK, ram
<1>7. CASE DeleteCandidate
  BY <1>7 DEF DeleteCandidate, GiveUp, StoreTypeOK, ram, Slots, Target, Tags
<1>8. CASE PowerLoss
  <2>1. flash' \in [Tags -> Slots]
    BY <1>8, CandidateFacts DEF PowerLoss, StoreTypeOK, Slots
  <2>2. Default \in Configs /\ 0 \in RecordNumbers
    BY ConfigAssumption, RecordNumberAssumption DEF Default, Configs, RecordNumbers
  <2>3. QED
    BY <1>8, <2>1, <2>2 DEF PowerLoss, StoreTypeOK
<1>9. CASE UNCHANGED storeVars
  BY <1>9 DEF storeVars, ram, StoreTypeOK
<1>10. QED
  BY <1>1, <1>2, <1>3, <1>4, <1>5, <1>6, <1>7, <1>8, <1>9 DEF StoreNext
----------------------------------------------------------------------------
(* A readable slot is the record of its number and value.                  *)
LEMMA RecordIsEncoded ==
  ASSUME NEW slot \in Slots, slot.readable
  PROVE  slot = Encoded(slot.sequence, slot.config)
<1>1. slot \in Record
  BY DEF Slots, Unreadable
<1>2. QED
  BY <1>1 DEF Record, Encoded

(* load() takes the record whose number follows the other's.               *)
LEMMA FollowerIsTaken ==
  ASSUME NEW slots \in [Tags -> Slots], NEW t \in Tags, slots[t].readable,
         FollowedBy(slots, t, Other(t))
  PROVE  Taken(slots) = t
<1>1. CASE ~slots[Other(t)].readable
  BY <1>1 DEF Taken, Tags, Other
<1>2. CASE slots[Other(t)].readable
  <2>1. /\ slots[Other(t)].sequence \in RecordNumbers
        /\ slots[t].sequence = (slots[Other(t)].sequence + 1) % RecordModulus
    BY <1>2, SlotFacts DEF FollowedBy, Tags, Other
  <2>2. /\ Newer(slots[t].sequence, slots[Other(t)].sequence)
        /\ ~Newer(slots[Other(t)].sequence, slots[t].sequence)
    BY <2>1, SuccessorIsNewer
  <2>3. QED
    BY <1>2, <2>2 DEF Taken, Tags, Other
<1>3. QED
  BY <1>1, <1>2

(* So a restart finds its value, if it is an expected one ...              *)
LEMMA FollowerIsFound ==
  ASSUME NEW slots \in [Tags -> Slots], NEW t \in Tags, slots[t].readable,
         FollowedBy(slots, t, Other(t)),
         NEW values, slots[t].config \in values
  PROVE  LoadFinds(slots, values)
<1>1. Taken(slots) = t
  BY FollowerIsTaken
<1>2. t # NoTag
  BY DEF Tags, NoTag
<1>3. FollowedBy(slots, "A", "B") \/ FollowedBy(slots, "B", "A")
  BY DEF Tags, Other
<1>4. QED
  BY <1>1, <1>2, <1>3 DEF LoadFinds

(* ... and the default, if there is no record.                             *)
LEMMA DefaultIsFound ==
  ASSUME NEW slots, \A t \in Tags : ~slots[t].readable,
         NEW values, Default \in values
  PROVE  LoadFinds(slots, values)
  BY DEF LoadFinds, Taken, Tags, NoTag

(* Whatever the target holds at a moment power may fail, load() finds the  *)
(* configuration in use or the one being stored.                           *)
LEMMA PowerLossFinds ==
  ASSUME StoreTypeOK, InUseIsNewest, pc # "off", NEW slot \in Slots,
         \/ slot = flash[Target]
         \/ pc # "idle" /\ slot \in {Candidate, Unreadable}
  PROVE  LoadFinds([flash EXCEPT ![Target] = slot], expected)
<1> DEFINE slots == [flash EXCEPT ![Target] = slot]
<1>1. /\ Target \in Tags /\ slots \in [Tags -> Slots] /\ slots[Target] = slot
      /\ Other(Target) \in Tags /\ slots[Other(Target)] = flash[Other(Target)]
  BY DEF StoreTypeOK, Target, Other, Tags
<1>2. /\ config \in expected
      /\ pc # "idle" => wanted \in expected
  BY DEF InUseIsNewest, ExpectedIsKnown, StoreTypeOK
<1>3. ~Unreadable.readable
  BY DEF Unreadable
<1>4. CASE active_tag = NoTag
  <2>1. Target = "A" /\ Other(Target) = "B" /\ ~flash["B"].readable /\ config = Default
    BY <1>4 DEF Target, Other, NoTag, InUseIsNewest, UsedRecordInFlash
  <2>2. CASE ~slot.readable
    BY <1>1, <1>2, <2>1, <2>2, DefaultIsFound DEF Tags
  <2>3. CASE slot.readable
    <3>1. pc # "idle" /\ slot = Candidate
      BY <1>3, <1>4, <2>1, <2>3
         DEF InUseIsNewest, OtherRecordIsOlder, CandidateInTarget, StoreTypeOK
    <3>2. slots["A"].config \in expected
      BY <1>1, <1>2, <2>1, <3>1, CandidateFacts
    <3>3. FollowedBy(slots, "A", "B")
      BY <1>1, <2>1 DEF FollowedBy
    <3>4. "A" \in Tags /\ Other("A") = "B" /\ slots["A"].readable
      BY <1>1, <2>1, <2>3 DEF Tags, Other
    <3>5. QED
      BY <1>1, <3>2, <3>3, <3>4, FollowerIsFound
  <2>4. QED
    BY <2>2, <2>3
<1>5. CASE active_tag # NoTag
  <2>1. /\ active_tag \in Tags /\ Target = Other(active_tag)
        /\ active_tag = Other(Target)
    BY <1>5 DEF StoreTypeOK, Target, Other, Tags
  <2>2. /\ slots[active_tag] = Encoded(sequence, config)
        /\ slots[active_tag].readable
        /\ slots[active_tag].sequence = sequence
        /\ slots[active_tag].config = config
    BY <1>1, <1>5, <2>1, EncodedFacts DEF InUseIsNewest, UsedRecordInFlash, StoreTypeOK
  <2>3. CASE ~slot.readable
    <3>1. FollowedBy(slots, active_tag, Other(active_tag))
      BY <1>1, <2>1, <2>3 DEF FollowedBy
    <3>2. QED
      BY <1>1, <1>2, <2>1, <2>2, <3>1, FollowerIsFound
  <2>4. CASE slot.readable /\ pc # "idle" /\ slot = Candidate
    <3>1. FollowedBy(slots, Target, Other(Target))
      BY <1>1, <2>1, <2>2, <2>4, CandidateFacts DEF FollowedBy
    <3>2. slots[Target].readable /\ slots[Target].config \in expected
      BY <1>1, <1>2, <2>4, CandidateFacts
    <3>3. QED
      BY <1>1, <3>1, <3>2, FollowerIsFound
  <2>5. CASE slot = flash[Target] /\ pc \in {"idle", "write"}
    <3>1. slots = flash
      BY <2>5 DEF StoreTypeOK
    <3>2. FollowedBy(slots, active_tag, Other(active_tag))
      BY <1>5, <2>1, <2>5, <3>1 DEF InUseIsNewest, OtherRecordIsOlder
    <3>3. QED
      BY <1>1, <1>2, <2>1, <2>2, <3>2, FollowerIsFound
  <2>6. QED
    BY <1>3, <2>3, <2>4, <2>5 DEF InUseIsNewest, CandidateInTarget, StoreTypeOK
<1>6. QED
  BY <1>4, <1>5

(* Power on: what is loaded is in use.                                     *)
LEMMA LoadIInv ==
  ASSUME StoreTypeOK, InUseIsNewest, Load
  PROVE  InUseIsNewest'
<1> DEFINE tag == Taken(flash)
<1>1. pc' = "idle" /\ active_tag' = tag /\ flash' = flash
  BY DEF Load
<1>2. UsedRecordInFlash'
  <2>1. CASE tag = NoTag
    BY <1>1, <2>1, TakenFacts DEF Load, UsedRecordInFlash, Tags
  <2>2. CASE tag # NoTag
    <3>1. tag \in Tags /\ flash[tag].readable /\ flash[tag] \in Slots
      BY <2>2, TakenFacts DEF StoreTypeOK
    <3>2. flash[tag] = Encoded(flash[tag].sequence, flash[tag].config)
      BY <3>1, RecordIsEncoded
    <3>3. QED
      BY <1>1, <2>2, <3>2 DEF Load, UsedRecordInFlash
  <2>3. QED
    BY <2>1, <2>2
<1>3. OtherRecordIsOlder'
  <2>1. CASE tag = NoTag
    BY <1>1, <2>1, TakenFacts DEF OtherRecordIsOlder, Tags
  <2>2. CASE tag # NoTag
    <3>1. tag \in Tags /\ flash[tag].readable
      BY <2>2, TakenFacts
    <3>2. FollowedBy(flash, tag, Other(tag))
      <4>1. CASE ~flash[Other(tag)].readable
        BY <4>1 DEF FollowedBy
      <4>2. CASE flash[Other(tag)].readable
        <5>1. FollowedBy(flash, "A", "B") \/ FollowedBy(flash, "B", "A")
          BY <3>1, <4>2 DEF Load, InUseIsNewest, LoadFinds, Tags, Other
        <5>2. /\ FollowedBy(flash, "A", "B") => tag = "A"
              /\ FollowedBy(flash, "B", "A") => tag = "B"
          BY <3>1, <4>2, FollowerIsTaken DEF StoreTypeOK, Tags, Other
        <5>3. QED
          BY <5>1, <5>2 DEF Other
      <4>3. QED
        BY <4>1, <4>2
    <3>3. Target' = Other(tag)
      BY <1>1, <3>1 DEF Target, Other, Tags
    <3>4. QED
      BY <1>1, <2>2, <3>2, <3>3 DEF OtherRecordIsOlder, FollowedBy
  <2>3. QED
    BY <2>1, <2>2
<1>4. QED
  BY <1>1, <1>2, <1>3 DEF Load, InUseIsNewest, CandidateInTarget, ExpectedIsKnown

(* Every step keeps the invariant.                                         *)
LEMMA NextIInv ==
  ASSUME StoreTypeOK, InUseIsNewest, [StoreNext]_storeVars
  PROVE  InUseIsNewest'
<1> USE DEF InUseIsNewest
<1>1. CASE Load
  BY <1>1, LoadIInv
<1>2. CASE Store
  BY <1>2 DEF Store, ram, UsedRecordInFlash, OtherRecordIsOlder,
              CandidateInTarget, ExpectedIsKnown, FollowedBy, Target
<1>3. CASE WriteFails
  BY <1>3 DEF WriteFails, GiveUp, ram, UsedRecordInFlash, OtherRecordIsOlder,
              CandidateInTarget, ExpectedIsKnown, FollowedBy, Target
<1>4. CASE Write
  <2>1. /\ Target \in Tags /\ Target' = Target /\ Candidate' = Candidate
        /\ active_tag' = active_tag /\ sequence' = sequence /\ config' = config
        /\ pc' = "verify" /\ expected' = expected /\ wanted' = wanted
    BY <1>4 DEF Write, ram, Target, Tags, Candidate, Encoded
  <2>2. /\ flash'[Target] \in {Candidate, Unreadable}
        /\ \A t \in Tags : t # Target => flash'[t] = flash[t]
    BY <1>4, <2>1 DEF Write, StoreTypeOK
  <2>3. UsedRecordInFlash'
    <3>1. CASE active_tag = NoTag
      BY <1>4, <2>1, <2>2, <3>1 DEF Write, UsedRecordInFlash, Target, Tags, NoTag
    <3>2. CASE active_tag # NoTag
      <4>1. active_tag \in Tags /\ active_tag # Target
        BY <3>2 DEF StoreTypeOK, Target, Tags
      <4>2. QED
        BY <1>4, <2>1, <2>2, <3>2, <4>1 DEF Write, UsedRecordInFlash
    <3>3. QED
      BY <3>1, <3>2
  <2>4. CandidateInTarget' /\ OtherRecordIsOlder'
    BY <2>1, <2>2 DEF CandidateInTarget, OtherRecordIsOlder
  <2>5. ExpectedIsKnown'
    BY <1>4, <2>1 DEF Write, ExpectedIsKnown
  <2>6. QED
    BY <2>1, <2>3, <2>4, <2>5
<1>5. CASE Verified
  <2>1. /\ Target \in Tags /\ flash' = flash /\ pc' = "idle"
        /\ sequence' = Candidate.sequence /\ active_tag' = Target /\ config' = wanted
    BY <1>5 DEF Verified, Target, Tags
  <2>2. UsedRecordInFlash'
    BY <1>5, <2>1, CandidateFacts
       DEF Verified, UsedRecordInFlash, Candidate, Encoded, Tags, NoTag
  <2>3. OtherRecordIsOlder'
    <3>1. CASE active_tag = NoTag
      <4>1. active_tag' = "A" /\ Target' = "B" /\ flash' = flash
        BY <2>1, <3>1 DEF Target, NoTag
      <4>2. ~flash["B"].readable
        BY <1>5, <3>1 DEF Verified, UsedRecordInFlash
      <4>3. QED
        BY <4>1, <4>2 DEF OtherRecordIsOlder, FollowedBy, NoTag
    <3>2. CASE active_tag # NoTag
      <4>1. Target' = active_tag /\ active_tag \in Tags
        BY <2>1, <3>2 DEF Target, StoreTypeOK, Tags
      <4>2. flash[active_tag].sequence = sequence
        BY <1>5, <3>2, EncodedFacts DEF Verified, UsedRecordInFlash, StoreTypeOK
      <4>3. flash[Target].sequence = (sequence + 1) % RecordModulus
        BY <1>5, CandidateFacts DEF Verified
      <4>4. QED
        BY <2>1, <4>1, <4>2, <4>3 DEF OtherRecordIsOlder, FollowedBy, Tags, NoTag
    <3>3. QED
      BY <3>1, <3>2
  <2>4. QED
    BY <1>5, <2>1, <2>2, <2>3 DEF Verified, CandidateInTarget, ExpectedIsKnown
<1>6. CASE NotVerified
  BY <1>6 DEF NotVerified, ram, UsedRecordInFlash, OtherRecordIsOlder,
              CandidateInTarget, ExpectedIsKnown, Target, Candidate, Encoded
<1>7. CASE DeleteCandidate
  <2>1. /\ Target \in Tags /\ Target' = Target /\ pc' = "idle" /\ ~flash'[Target].readable
        /\ active_tag' = active_tag /\ sequence' = sequence /\ config' = config
        /\ \A t \in Tags : t # Target => flash'[t] = flash[t]
    BY <1>7 DEF DeleteCandidate, GiveUp, ram, Target, Tags, StoreTypeOK, Unreadable
  <2>2. UsedRecordInFlash'
    BY <1>7, <2>1 DEF DeleteCandidate, UsedRecordInFlash, StoreTypeOK, Target, Tags
  <2>3. OtherRecordIsOlder'
    BY <2>1 DEF OtherRecordIsOlder, FollowedBy, Target, NoTag
  <2>4. QED
    BY <1>7, <2>1, <2>2, <2>3 DEF DeleteCandidate, GiveUp, CandidateInTarget, ExpectedIsKnown
<1>8. CASE PowerLoss
  <2>1. pc' = "off" /\ pc # "off" /\ expected' = expected
    BY <1>8 DEF PowerLoss
  <2>2. \E slot \in Slots : /\ flash' = [flash EXCEPT ![Target] = slot]
                           /\ \/ slot = flash[Target]
                              \/ pc # "idle" /\ slot \in {Candidate, Unreadable}
    <3>1. /\ Target \in Tags /\ flash[Target] \in Slots
          /\ Candidate \in Slots /\ Unreadable \in Slots
          /\ flash = [flash EXCEPT ![Target] = flash[Target]]
      BY CandidateFacts DEF StoreTypeOK, Target, Tags, Slots
    <3>2. \/ flash' = flash
          \/ pc # "idle" /\ flash' = [flash EXCEPT ![Target] = Candidate]
          \/ pc # "idle" /\ flash' = [flash EXCEPT ![Target] = Unreadable]
      BY <1>8 DEF PowerLoss
    <3>3. QED
      BY <3>1, <3>2
  <2>3. LoadFinds(flash', expected)
    BY <2>1, <2>2, PowerLossFinds
  <2>4. QED
    BY <2>1, <2>3 DEF UsedRecordInFlash, OtherRecordIsOlder, CandidateInTarget,
                      ExpectedIsKnown
<1>9. CASE UNCHANGED storeVars
  BY <1>9 DEF storeVars, ram, UsedRecordInFlash, OtherRecordIsOlder, CandidateInTarget,
              ExpectedIsKnown, Target, Candidate, Encoded, FollowedBy
<1>10. QED
  BY <1>1, <1>2, <1>3, <1>4, <1>5, <1>6, <1>7, <1>8, <1>9 DEF StoreNext

(* Records, numbers and configurations keep their types, over any number   *)
(* of stores, faults and restarts.                                         *)
THEOREM ConfigTypeCorrect == StoreSpec => []StoreTypeOK
<1>1. StoreTypeOK /\ [StoreNext]_storeVars => StoreTypeOK'
  BY NextType
<1>2. QED
  BY <1>1, InitIInv, PTL DEF StoreSpec

(* The record in use is always in flash and the newest there.              *)
THEOREM ConfigInvariant == StoreSpec => []InUseIsNewest
<1>1. StoreTypeOK /\ InUseIsNewest /\ [StoreNext]_storeVars => InUseIsNewest'
  BY NextIInv
<1>2. QED
  BY <1>1, InitIInv, ConfigTypeCorrect, PTL DEF StoreSpec

(* A restart brings back the configuration last reported stored, or the    *)
(* one whose store the restart interrupted, and no other.                  *)
THEOREM ConfigSurvivesRestart ==
  StoreSpec => RestartBringsBack
<1>1. InUseIsNewest /\ [StoreNext]_storeVars
        => [pc = "off" /\ pc' = "idle" => config' \in expected]_storeVars
  <2> SUFFICES ASSUME InUseIsNewest, StoreNext, pc = "off", pc' = "idle"
               PROVE  config' \in expected
    OBVIOUS
  <2>1. Load
    BY DEF StoreNext, Store, Write, WriteFails, Verified, NotVerified,
           DeleteCandidate, PowerLoss
  <2>2. QED
    BY <2>1 DEF Load, InUseIsNewest, LoadFinds
<1>2. QED
  BY <1>1, ConfigInvariant, PTL DEF StoreSpec, RestartBringsBack
=============================================================================
