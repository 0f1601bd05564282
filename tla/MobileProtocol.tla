--------------------------- MODULE MobileProtocol ---------------------------
(***************************************************************************)
(* MobileInputSession: the check of one control frame from the iPhone app  *)
(* against the session, and the controller sample it stands for.  Length,  *)
(* magic, version, CRC, profile, and the flag, direction and event ranges  *)
(* are one Boolean, `intact'.  Sequence numbers keep their wrap-around:    *)
(* 16 bits are SequenceModulus, 8 bits EventModulus.                       *)
(***************************************************************************)
EXTENDS ControlMapper

CONSTANTS SequenceModulus, EventModulus

ASSUME ModulusAssumption ==
  /\ SequenceModulus \in Nat /\ SequenceModulus > 2
  /\ EventModulus \in Nat /\ EventModulus > 1

Sequences == 0 .. SequenceModulus - 1
EventSequences == 0 .. EventModulus - 1

Directions == 0..6      \* none, X-, X+, Y-, Y+, Z-, Z+
Events == 0..5          \* none, four resolutions, cancel

Frame ==
  [intact : BOOLEAN, sequence : Sequences, direction : Directions,
   deadman : BOOLEAN, rapid : BOOLEAN, precision : BOOLEAN,
   event : Events, event_sequence : EventSequences]

SessionState ==
  [has_sequence : BOOLEAN, last_sequence : Sequences,
   has_event : BOOLEAN, last_event_sequence : EventSequences]

\* MobileInputSession::reset
ResetSession ==
  [has_sequence |-> FALSE, last_sequence |-> 0,
   has_event |-> FALSE, last_event_sequence |-> 0]

FullDeflection == 32767

\* Newer by less than half the sequence space.
NumberGreater(sequence, last) == sequence > last
NumberDiffers(sequence, last) == sequence # last
IsNewer(sequence, last) ==
  (sequence - last) % SequenceModulus \in 1 .. (SequenceModulus - 1) \div 2

Accepts(s, f) ==
  /\ f.intact
  /\ ~(f.rapid /\ f.precision)
  /\ s.has_sequence => IsNewer(f.sequence, s.last_sequence)

EventAlwaysNew(s, f) == f.event # 0
EventNumberGreater(s, f) ==
  f.event # 0 /\ ~(s.has_event /\ f.event_sequence <= s.last_event_sequence)
IsNewEvent(s, f) ==
  f.event # 0 /\ ~(s.has_event /\ f.event_sequence = s.last_event_sequence)

\* The stick a direction button stands for; Y and Z are positive downward.
DeflectionSwapped(f, minus, plus) ==
  IF f.direction = plus THEN -FullDeflection
  ELSE IF f.direction = minus THEN FullDeflection ELSE 0
Deflection(f, minus, plus) ==
  IF f.direction = minus THEN -FullDeflection
  ELSE IF f.direction = plus THEN FullDeflection ELSE 0

FrameInput(s, f) ==
  LET new == IsNewEvent(s, f)
      selects == new /\ f.event \in 1..4
  IN  [left_x |-> Deflection(f, 1, 2),
       left_y |-> Deflection(f, 4, 3),
       right_y |-> Deflection(f, 6, 5),
       deadman |-> f.deadman, rapid |-> f.rapid, precision |-> f.precision,
       cycle_resolution |-> FALSE,
       select_resolution |-> selects,
       selected_resolution |-> IF selects THEN f.event - 1 ELSE 0,
       cancel |-> new /\ f.event = 5,
       connected |-> TRUE]

\* The session after an accepted frame; a rejected one leaves it alone.
SessionAfter(s, f) ==
  LET new == IsNewEvent(s, f)
  IN  [has_sequence |-> TRUE, last_sequence |-> f.sequence,
       has_event |-> s.has_event \/ new,
       last_event_sequence |->
         IF new THEN f.event_sequence ELSE s.last_event_sequence]
=============================================================================
