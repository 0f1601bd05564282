----------------------------- MODULE LinkProofs -----------------------------
(***************************************************************************)
(* For sequence and event numbers of any width, any number of frames and   *)
(* any loss, repetition and reordering the numbers suffice for: no frame   *)
(* acts after a newer one, none newer is refused, and each event acts once *)
(* and in order.                                                           *)
(***************************************************************************)
EXTENDS MobileLink, TLAPS

(* A number below the modulus is what its multiples leave.                 *)
LEMMA ModUnique ==
  ASSUME NEW M \in Nat, M > 0, NEW x \in Int, NEW k \in Int, NEW r \in 0 .. M - 1,
         x = M * k + r
  PROVE  (x % M) = r
<1> DEFINE q == x \div M
           z == q - k
<1>1. q \in Int /\ (x % M) \in 0 .. M - 1 /\ x = M * q + (x % M)
  OBVIOUS
<1>2. z \in Int
  BY <1>1
<1>3. M * z = r - (x % M)
  <2>1. M * z = M * q - M * k
    BY <1>1
  <2>2. QED
    BY <2>1, <1>1
<1>4. z = 0
  <2>1. -M < M * z /\ M * z < M
    BY <1>1, <1>3
  <2> HIDE DEF z
  <2>2. CASE z >= 1
    <3>1. M * z = M + M * (z - 1) /\ M * (z - 1) >= 0
      BY <1>2, <2>2
    <3>2. QED
      BY <1>2, <2>1, <3>1
  <2>3. CASE z <= -1
    <3>1. M * z = M * (z + 1) - M /\ M * (z + 1) <= 0
      BY <1>2, <2>3
    <3>2. QED
      BY <1>2, <2>1, <3>1
  <2>4. QED
    BY <1>2, <2>2, <2>3
<1>5. QED
  BY <1>1, <1>3, <1>4

(* The difference of two counts, taken of their wrapped numbers.           *)
LEMMA ModDifference ==
  ASSUME NEW M \in Nat, M > 0, NEW a \in Nat, NEW b \in Nat
  PROVE  (((a % M) - (b % M)) % M) = ((a - b) % M)
<1> DEFINE d == (a % M) - (b % M)
           qa == a \div M
           qb == b \div M
           qd == d \div M
<1>1. qa \in Int /\ (a % M) \in 0 .. M - 1 /\ a = M * qa + (a % M)
  OBVIOUS
<1>2. qb \in Int /\ (b % M) \in 0 .. M - 1 /\ b = M * qb + (b % M)
  OBVIOUS
<1>3. d \in Int /\ qd \in Int /\ (d % M) \in 0 .. M - 1 /\ d = M * qd + (d % M)
  BY <1>1, <1>2
<1> HIDE DEF qa, qb, qd
<1>4. a - b = M * (qa - qb + qd) + (d % M)
  <2>1. M * (qa - qb + qd) = M * qa - M * qb + M * qd
    BY <1>1, <1>2, <1>3
  <2>2. QED
    BY <1>1, <1>2, <1>3, <2>1
<1> DEFINE x == a - b
           k == qa - qb + qd
           r == d % M
<1>5. x \in Int /\ k \in Int /\ r \in 0 .. M - 1 /\ x = M * k + r
  BY <1>1, <1>2, <1>3, <1>4
<1>6. (x % M) = r
  <2> HIDE DEF x, k, r
  <2>1. QED
    BY <1>5, ModUnique
<1>7. QED
  BY <1>6

(* Within the bounds of the link the wrapped comparison is that of the     *)
(* counts (mobile_protocol.cpp:61-66).                                     *)
LEMMA IsNewerCounts ==
  ASSUME NEW n \in Nat, NEW last \in Nat, n - last <= MaxLost, last - n <= MaxLag
  PROVE  IsNewer(n % SequenceModulus, last % SequenceModulus) <=> n > last
<1> DEFINE M == SequenceModulus
           half == (M - 1) \div 2
<1>1. /\ M \in Nat /\ M > 2 /\ half \in Nat /\ half < M /\ half >= 1
      /\ MaxLost \in Nat /\ MaxLag \in Nat
      /\ MaxLost <= half /\ MaxLag + half < M
  BY ModulusAssumption, LinkAssumption, NumbersSuffice
<1>2. (((n % M) - (last % M)) % M) = ((n - last) % M)
  <2>1. M \in Nat /\ M > 0
    BY <1>1
  <2> HIDE DEF M
  <2>2. QED
    BY <2>1, ModDifference
<1>3. CASE n >= last
  <2>1. n - last \in 0 .. M - 1 /\ n - last = M * 0 + (n - last)
    BY <1>1, <1>3
  <2>2. ((n - last) % M) = n - last
    BY <1>1, <2>1, ModUnique
  <2>3. QED
    BY <1>1, <1>2, <1>3, <2>2 DEF IsNewer
<1>4. CASE n < last
  <2>1. M - (last - n) \in 0 .. M - 1 /\ n - last = M * (-1) + (M - (last - n))
    BY <1>1, <1>4
  <2>2. ((n - last) % M) = M - (last - n)
    BY <1>1, <2>1, ModUnique
  <2>3. QED
    BY <1>1, <1>2, <1>4, <2>2 DEF IsNewer
<1>5. QED
  BY <1>3, <1>4

(* Fewer events apart than event numbers there are, two events have the    *)
(* same number only if they are one (mobile_protocol.cpp:105-109).         *)
LEMMA EventNumbersDiffer ==
  ASSUME NEW e \in Nat, NEW last \in Nat, last <= e, e - last < EventModulus
  PROVE  (e % EventModulus) = (last % EventModulus) <=> e = last
<1>1. EventModulus \in Nat /\ EventModulus > 0
  BY ModulusAssumption
<1>2. ((e - last) % EventModulus) = e - last
  <2>1. e - last \in 0 .. EventModulus - 1 /\ e - last = EventModulus * 0 + (e - last)
    BY <1>1
  <2>2. QED
    BY <1>1, <2>1, ModUnique
<1>3. (0 % EventModulus) = 0
  BY <1>1
<1>4. (((e % EventModulus) - (last % EventModulus)) % EventModulus)
       = ((e - last) % EventModulus)
  BY <1>1, ModDifference
<1>5. CASE (e % EventModulus) = (last % EventModulus)
  <2>1. (e % EventModulus) - (last % EventModulus) = 0
    BY <1>1, <1>5
  <2>2. e - last = 0
    BY <1>2, <1>3, <1>4, <2>1
  <2>3. QED
    BY <1>5, <2>2
<1>6. QED
  BY <1>5

----------------------------------------------------------------------------
(* What is on the link lies within the bounds around the newest frame.     *)
LinkBounded ==
  /\ frames - newest <= MaxLost
  /\ \A p \in sent : p[1] <= frames /\ frames - p[1] <= MaxLag /\ p[2] <= events

(* The session holds the counts modulo the widths of its fields.           *)
SessionFollows ==
  /\ session.has_sequence <=> newest > 0
  /\ newest > 0 => session.last_sequence = (newest % SequenceModulus)
  /\ session.has_event <=> acted > 0
  /\ acted > 0 => session.last_event_sequence = (acted % EventModulus)

(* Later frames carry the same events or later ones.                       *)
EventsFollow ==
  /\ \A p \in sent : p[1] > newest => acted <= p[2] /\ p[2] - acted < EventModulus
  /\ \A p, q \in sent : /\ p[1] < q[1] => p[2] <= q[2]
                        /\ p[1] = q[1] => p[2] = q[2]

LinkInv == LinkTypeOK /\ LinkBounded /\ SessionFollows /\ EventsFollow

(* Acceptance and the duplicate check decide as the counts would.          *)
LEMMA DeliverFacts ==
  ASSUME LinkInv, NEW p \in sent
  PROVE  /\ Accepts(session, FrameOf(p[1], p[2])) <=> p[1] > newest
         /\ p[1] > newest =>
              (IsNewEvent(session, FrameOf(p[1], p[2])) <=> p[2] > acted)
         /\ p[1] > newest =>
              (FrameInput(session, FrameOf(p[1], p[2])).cancel <=> p[2] > acted)
<1> DEFINE f == FrameOf(p[1], p[2])
<1>1. /\ p[1] \in Nat /\ p[1] > 0 /\ p[2] \in Nat /\ newest \in Nat /\ acted \in Nat
      /\ newest <= frames /\ frames \in Nat /\ events \in Nat
  BY LinkAssumption DEF LinkInv, LinkTypeOK
<1>2. /\ f.intact /\ ~f.rapid /\ ~f.precision
      /\ f.sequence = (p[1] % SequenceModulus)
      /\ f.event_sequence = (p[2] % EventModulus)
      /\ f.event = IF p[2] = 0 THEN 0 ELSE 5
  BY DEF FrameOf
<1>3. Accepts(session, f) <=> p[1] > newest
  <2>1. CASE newest = 0
    BY <1>1, <1>2, <2>1 DEF Accepts, LinkInv, SessionFollows
  <2>2. CASE newest > 0
    <3>1. p[1] - newest <= MaxLost /\ newest - p[1] <= MaxLag
      BY <1>1, LinkAssumption DEF LinkInv, LinkBounded
    <3>2. IsNewer(p[1] % SequenceModulus, newest % SequenceModulus) <=> p[1] > newest
      BY <1>1, <3>1, IsNewerCounts
    <3> HIDE DEF f
    <3>3. QED
      BY <1>2, <2>2, <3>2 DEF Accepts, LinkInv, SessionFollows
  <2>3. QED
    BY <1>1, <2>1, <2>2
<1>4. ASSUME p[1] > newest
      PROVE  IsNewEvent(session, f) <=> p[2] > acted
  <2>1. acted <= p[2] /\ p[2] - acted < EventModulus
    BY <1>4 DEF LinkInv, EventsFollow
  <2>2. (p[2] % EventModulus) = (acted % EventModulus) <=> p[2] = acted
    BY <1>1, <2>1, EventNumbersDiffer
  <2> HIDE DEF f
  <2>3. CASE acted = 0
    BY <1>1, <1>2, <2>3 DEF IsNewEvent, LinkInv, SessionFollows
  <2>4. CASE acted > 0
    BY <1>1, <1>2, <2>1, <2>2, <2>4 DEF IsNewEvent, LinkInv, SessionFollows
  <2>5. QED
    BY <1>1, <2>3, <2>4
<1>5. FrameInput(session, f).cancel <=> (IsNewEvent(session, f) /\ f.event = 5)
  BY DEF FrameInput
<1>6. QED
  <2> HIDE DEF f
  <2>1. p[1] > newest => (FrameInput(session, f).cancel <=> p[2] > acted)
    BY <1>1, <1>2, <1>4, <1>5
  <2>2. QED
    BY <1>3, <1>4, <2>1 DEF f

LEMMA LinkInitInv == LinkInit => LinkInv
<1> SUFFICES ASSUME LinkInit PROVE LinkInv
  OBVIOUS
<1>1. session \in SessionState
  BY ModulusAssumption
     DEF LinkInit, ResetSession, SessionState, Sequences, EventSequences
<1>2. QED
  BY <1>1, LinkAssumption
     DEF LinkInit, ResetSession, LinkInv, LinkTypeOK, LinkBounded, SessionFollows,
         EventsFollow

LEMMA SendInv ==
  ASSUME LinkInv, NEW e \in {events, events + 1}, e <= MaxEvents,
         e - acted < EventModulus, Send(e)
  PROVE  LinkInv'
<1>1. /\ frames \in Nat /\ events \in Nat /\ newest \in Nat /\ acted \in Nat
      /\ e \in Nat /\ events <= e /\ newest <= frames /\ acted <= events
      /\ frames' = frames + 1 /\ events' = e
      /\ frames' <= MaxFrames /\ e <= MaxEvents
      /\ MaxFrames \in Nat /\ MaxEvents \in Nat /\ MaxLag \in Nat /\ MaxLost \in Nat
  BY LinkAssumption DEF Send, LinkInv, LinkTypeOK
<1>2. ASSUME NEW p \in sent'
      PROVE  \/ p \in sent /\ frames' - p[1] <= MaxLag /\ p[1] <= frames
                /\ p[2] <= events /\ p[1] \in Nat /\ p[2] \in Nat
             \/ p = <<frames', e>>
  BY LinkAssumption DEF Send, LinkInv, LinkTypeOK, LinkBounded
<1>3. LinkTypeOK'
  <2>1. (sent \subseteq (1..MaxFrames) \X (0..MaxEvents))'
    <3>1. <<frames', e>> \in (1..MaxFrames) \X (0..MaxEvents)
      BY <1>1
    <3>2. QED
      BY <3>1 DEF Send, LinkInv, LinkTypeOK
  <2>2. QED
    BY <1>1, <2>1 DEF Send, LinkInv, LinkTypeOK
<1>4. LinkBounded'
  <2>1. (frames - newest <= MaxLost)'
    BY <1>1 DEF Send
  <2>2. (\A p \in sent : p[1] <= frames /\ frames - p[1] <= MaxLag /\ p[2] <= events)'
    BY <1>1, <1>2
  <2>3. QED
    BY <2>1, <2>2 DEF LinkBounded
<1>5. SessionFollows'
  BY DEF Send, LinkInv, SessionFollows
<1>6. EventsFollow'
  <2>1. ASSUME NEW p \in sent'
        PROVE  (p[1] > newest => acted <= p[2] /\ p[2] - acted < EventModulus)'
    BY <1>1, <1>2 DEF Send, LinkInv, EventsFollow
  <2>2. ASSUME NEW p \in sent', NEW q \in sent'
        PROVE  /\ p[1] < q[1] => p[2] <= q[2]
               /\ p[1] = q[1] => p[2] = q[2]
    <3>1. CASE p \in sent /\ q \in sent
      BY <3>1 DEF LinkInv, EventsFollow
    <3>2. CASE ~(p \in sent /\ q \in sent)
      BY <1>1, <1>2, <3>2
    <3>3. QED
      BY <3>1, <3>2
  <2>3. QED
    BY <2>1, <2>2 DEF EventsFollow
<1>7. QED
  BY <1>3, <1>4, <1>5, <1>6 DEF LinkInv

(* Whatever arrives and is accepted leaves the session at its counts.      *)
LEMMA DeliverStep ==
  ASSUME LinkInv, NEW p \in sent, Deliver(p)
  PROVE  newest' = p[1] /\ p[1] > newest /\ acted' = p[2] /\ p[2] >= acted
<1>1. p[1] > newest /\ newest' = p[1]
  BY DeliverFacts DEF Deliver
<1>2. acted \in Nat /\ p[2] \in Nat /\ acted <= p[2]
  BY <1>1 DEF LinkInv, LinkTypeOK, EventsFollow
<1>3. FrameInput(session, FrameOf(p[1], p[2])).cancel <=> p[2] > acted
  BY <1>1, DeliverFacts
<1>4. acted' = p[2]
  BY <1>2, <1>3 DEF Deliver
<1>5. QED
  BY <1>1, <1>2, <1>4

LEMMA DeliverInv ==
  ASSUME LinkInv, NEW p \in sent, Deliver(p)
  PROVE  LinkInv'
<1> DEFINE f == FrameOf(p[1], p[2])
           new == IsNewEvent(session, f)
<1>1. newest' = p[1] /\ p[1] > newest /\ acted' = p[2] /\ p[2] >= acted
  BY DeliverStep
<1>2. /\ frames \in Nat /\ events \in Nat /\ newest \in Nat /\ acted \in Nat
      /\ p[1] \in Nat /\ p[2] \in Nat /\ p[1] <= frames /\ p[2] <= events
      /\ UNCHANGED <<frames, events, sent>>
  BY LinkAssumption DEF Deliver, LinkInv, LinkTypeOK, LinkBounded
<1>3. new <=> p[2] > acted
  BY <1>1, DeliverFacts
<1>4. f.sequence = (p[1] % SequenceModulus) /\ f.event_sequence = (p[2] % EventModulus)
  BY DEF FrameOf
<1>5. f.sequence \in Sequences /\ f.event_sequence \in EventSequences
  BY <1>2, <1>4, ModulusAssumption DEF Sequences, EventSequences
<1> HIDE DEF f
<1>6. /\ session'.has_sequence
      /\ session'.last_sequence = f.sequence
      /\ session'.has_event <=> (session.has_event \/ new)
      /\ session'.last_event_sequence =
           IF new THEN f.event_sequence ELSE session.last_event_sequence
      /\ session' \in SessionState
  <2>1. session' = SessionAfter(session, f)
    BY DEF Deliver, f
  <2>2. session \in SessionState
    BY DEF LinkInv, LinkTypeOK
  <2>3. new \in BOOLEAN
    BY DEF IsNewEvent
  <2>4. QED
    BY <1>5, <2>1, <2>2, <2>3 DEF SessionAfter, SessionState
<1>7. LinkTypeOK'
  BY <1>1, <1>2, <1>6 DEF LinkInv, LinkTypeOK
<1>8. LinkBounded'
  BY <1>1, <1>2, LinkAssumption DEF LinkInv, LinkBounded
<1>9. SessionFollows'
  <2> HIDE DEF new
  <2>1. (session.has_event <=> acted > 0)
        /\ (acted > 0 => session.last_event_sequence = (acted % EventModulus))
    BY DEF LinkInv, SessionFollows
  <2>2. CASE p[2] > acted
    <3>1. /\ session'.has_sequence /\ newest' > 0
          /\ session'.last_sequence = (newest' % SequenceModulus)
      BY <1>1, <1>2, <1>4, <1>6
    <3>2. /\ session'.has_event /\ acted' > 0
          /\ session'.last_event_sequence = (acted' % EventModulus)
      BY <1>1, <1>2, <1>3, <1>4, <1>6, <2>2
    <3>3. QED
      BY <3>1, <3>2 DEF SessionFollows
  <2>3. CASE p[2] = acted
    <3>1. /\ session'.has_sequence /\ newest' > 0
          /\ session'.last_sequence = (newest' % SequenceModulus)
      BY <1>1, <1>2, <1>4, <1>6
    <3>2. ~new /\ acted' = acted
      BY <1>1, <1>2, <1>3, <2>3
    <3>3. /\ session'.has_event <=> session.has_event
          /\ session'.last_event_sequence = session.last_event_sequence
      BY <1>6, <3>2
    <3>4. QED
      BY <2>1, <3>1, <3>2, <3>3 DEF SessionFollows
  <2>4. QED
    BY <1>1, <1>2, <2>2, <2>3
<1>10. EventsFollow'
  <2>1. ASSUME NEW q \in sent, q[1] > p[1]
        PROVE  p[2] <= q[2] /\ q[2] - p[2] < EventModulus
    <3>1. q[1] \in Nat /\ q[2] \in Nat /\ EventModulus \in Nat
      BY LinkAssumption, ModulusAssumption DEF LinkInv, LinkTypeOK
    <3>2. q[2] - acted < EventModulus
      BY <1>1, <1>2, <2>1, <3>1 DEF LinkInv, EventsFollow
    <3>3. p[2] <= q[2]
      BY <2>1 DEF LinkInv, EventsFollow
    <3>4. QED
      BY <1>1, <1>2, <3>1, <3>2, <3>3
  <2>2. QED
    BY <1>1, <1>2, <2>1 DEF LinkInv, EventsFollow
<1>11. QED
  BY <1>7, <1>8, <1>9, <1>10 DEF LinkInv

LEMMA LinkStepInv ==
  ASSUME LinkInv, [LinkNext]_linkVars
  PROVE  LinkInv'
<1>1. ASSUME NEW e \in {events, events + 1}, e <= MaxEvents,
             e - acted < EventModulus, Send(e)
      PROVE  LinkInv'
  BY <1>1, SendInv
<1>2. ASSUME NEW p \in sent, Deliver(p)
      PROVE  LinkInv'
  BY <1>2, DeliverInv
<1>3. ASSUME NEW p \in sent, Lose(p)
      PROVE  LinkInv'
  BY <1>3
     DEF Lose, LinkInv, LinkTypeOK, LinkBounded, SessionFollows, EventsFollow
<1>4. CASE UNCHANGED linkVars
  BY <1>4
     DEF linkVars, LinkInv, LinkTypeOK, LinkBounded, SessionFollows, EventsFollow
<1>5. QED
  BY <1>1, <1>2, <1>3, <1>4 DEF LinkNext

LEMMA LinkInvariant == LinkSpec => []LinkInv
<1>1. LinkInv /\ [LinkNext]_linkVars => LinkInv'
  BY LinkStepInv
<1>2. QED
  BY <1>1, LinkInitInv, PTL DEF LinkSpec

----------------------------------------------------------------------------
(* The session's numbers stay within their fields                          *)
(* (mobile_protocol.cpp:59-121).                                           *)
THEOREM LinkTypeCorrect == LinkSpec => []LinkTypeOK
<1>1. LinkInv => LinkTypeOK
  BY DEF LinkInv
<1>2. QED
  BY <1>1, LinkInvariant, PTL

(* Whatever was lost, a frame newer than the newest accepted one is        *)
(* accepted (mobile_protocol.cpp:59-68).                                   *)
THEOREM LinkFreshAccepted == LinkSpec => []FreshFrameAccepted
<1>1. LinkInv => FreshFrameAccepted
  BY DeliverFacts DEF FreshFrameAccepted
<1>2. QED
  BY <1>1, LinkInvariant, PTL

(* No step of the session is taken by a frame that is not newer, for any   *)
(* width of the number and any lag it suffices for.                        *)
THEOREM LinkNeverBackwards == LinkSpec => NeverBackwards
<1>1. LinkInv /\ [LinkNext]_linkVars
        => [newest' # newest \/ session' # session => newest' > newest]_linkVars
  <2> SUFFICES ASSUME LinkInv, LinkNext
               PROVE  newest' # newest \/ session' # session => newest' > newest
    BY DEF linkVars
  <2>1. ASSUME NEW p \in sent, Deliver(p)
        PROVE  newest' > newest
    BY <2>1, DeliverStep
  <2>2. QED
    BY <2>1 DEF LinkNext, Send, Lose
<1>2. QED
  BY <1>1, LinkInvariant, PTL DEF LinkSpec, NeverBackwards

(* An event acts only if it is later than all that acted: once and in      *)
(* order, for any width of the event number (mobile_protocol.cpp:105-121). *)
THEOREM LinkEventsInOrder == LinkSpec => EventsActOnceInOrder
<1> DEFINE Once == \A p \in sent : newest' # newest /\ newest' = p[1]
             /\ FrameInput(session, FrameOf(p[1], p[2])).cancel => p[2] > acted
<1>1. LinkInv /\ [LinkNext]_linkVars => [Once]_linkVars
  <2> SUFFICES ASSUME LinkInv, LinkNext, NEW p \in sent, newest' # newest,
                      newest' = p[1],
                      FrameInput(session, FrameOf(p[1], p[2])).cancel
               PROVE  p[2] > acted
    OBVIOUS
  <2>1. PICK q \in sent : Deliver(q)
    BY DEF LinkNext, Send, Lose
  <2>2. p[1] > newest
    BY <2>1, DeliverStep
  <2>3. QED
    BY <2>2, DeliverFacts
<1>2. QED
  BY <1>1, LinkInvariant, PTL DEF LinkSpec, EventsActOnceInOrder

(* An accepted frame's event has acted when the frame has been handled.    *)
THEOREM LinkEventsAct == LinkSpec => AcceptedEventActs
<1>1. LinkInv /\ [LinkNext]_linkVars
        => [session' # session => \A p \in sent : newest' = p[1] => acted' = p[2]]_linkVars
  <2> SUFFICES ASSUME LinkInv, LinkNext, session' # session,
                      NEW p \in sent, newest' = p[1]
               PROVE  acted' = p[2]
    OBVIOUS
  <2>1. PICK q \in sent : Deliver(q)
    BY DEF LinkNext, Send, Lose
  <2>2. newest' = q[1] /\ acted' = q[2]
    BY <2>1, DeliverStep
  <2>3. p[2] = q[2]
    BY <2>2 DEF LinkInv, EventsFollow
  <2>4. QED
    BY <2>2, <2>3
<1>2. QED
  BY <1>1, LinkInvariant, PTL DEF LinkSpec, AcceptedEventActs
=============================================================================
