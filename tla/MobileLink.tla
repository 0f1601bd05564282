----------------------------- MODULE MobileLink -----------------------------
(***************************************************************************)
(* One BLE connection: an app that counts its frames and events without    *)
(* bound, a link that loses, repeats and reorders what it carries, and the *)
(* MobileInputSession that sees the counts only modulo its field widths.   *)
(* The app and the link are not in the repository; from the tests, every   *)
(* frame has the next sequence number and repeats the latest event.        *)
(***************************************************************************)
EXTENDS MobileProtocol, FiniteSets

CONSTANTS
  MaxFrames, MaxEvents,   \* bounds on what the app sends
  MaxLag,                 \* a frame this much older than the newest is gone
  MaxLost                 \* consecutive frames (and events) the link may lose

ASSUME LinkAssumption == {MaxFrames, MaxEvents, MaxLag, MaxLost} \subseteq Nat

\* The numbers are wide enough for the link: 32767 frames lost in a row, or
\* a copy 32768 frames old, with 16 bits.
ASSUME NumbersSuffice ==
  LET half == (SequenceModulus - 1) \div 2
  IN  MaxLost <= half /\ MaxLag + half < SequenceModulus

VARIABLES
  frames, events,   \* app: how many it has sent
  sent,             \* <<frame number, event number>> pairs that may arrive
  session,
  newest,           \* number of the newest frame accepted
  acted             \* number of the newest event acted on

linkVars == <<frames, events, sent, session, newest, acted>>

FrameOf(n, e) ==
  [intact |-> TRUE, sequence |-> n % SequenceModulus, direction |-> 0,
   deadman |-> FALSE, rapid |-> FALSE, precision |-> FALSE,
   event |-> IF e = 0 THEN 0 ELSE 5, event_sequence |-> e % EventModulus]

LinkInit ==
  /\ frames = 0 /\ events = 0 /\ sent = {}
  /\ session = ResetSession
  /\ newest = 0 /\ acted = 0

Send(e) ==
  /\ frames < MaxFrames /\ frames - newest < MaxLost
  /\ frames' = frames + 1
  /\ events' = e
  /\ sent' = {p \in sent : frames' - p[1] <= MaxLag} \union {<<frames', e>>}
  /\ UNCHANGED <<session, newest, acted>>

\* A frame arrives and stays on the link, to arrive again later.
Deliver(p) ==
  LET f == FrameOf(p[1], p[2])
  IN  /\ Accepts(session, f)
      /\ session' = SessionAfter(session, f)
      /\ newest' = p[1]
      /\ acted' = IF FrameInput(session, f).cancel THEN p[2] ELSE acted
      /\ UNCHANGED <<frames, events, sent>>

Lose(p) ==
  /\ sent' = sent \ {p}
  /\ UNCHANGED <<frames, events, session, newest, acted>>

LinkNext ==
  \/ \E e \in {events, events + 1} :
       e <= MaxEvents /\ e - acted < EventModulus /\ Send(e)
  \/ \E p \in sent : Deliver(p) \/ Lose(p)

LinkSpec == LinkInit /\ [][LinkNext]_linkVars
----------------------------------------------------------------------------
LinkTypeOK ==
  /\ frames \in 0..MaxFrames /\ events \in 0..MaxEvents
  /\ sent \subseteq (1..MaxFrames) \X (0..MaxEvents)
  /\ session \in SessionState
  /\ newest \in 0..frames /\ acted \in 0..events

(* A frame is accepted only if it is newer than every accepted one, also   *)
(* across the wrap of the 16-bit number and with copies that are half the  *)
(* number space late (mobile_protocol.cpp:59-68).                          *)
NeverBackwards == [][newest' # newest \/ session' # session => newest' > newest]_linkVars

(* One press in the app acts at most once, however often frames repeat it, *)
(* and never after a later one (mobile_protocol.cpp:105-121) ...           *)
EventsActOnceInOrder ==
  [][\A p \in sent : newest' # newest /\ newest' = p[1]
       /\ FrameInput(session, FrameOf(p[1], p[2])).cancel => p[2] > acted]_linkVars

(* ... and no frame is accepted without acting on the event it carries, if *)
(* that has not acted yet: a press is not swallowed by the duplicate check.*)
AcceptedEventActs ==
  [][session' # session => \A p \in sent : newest' = p[1] => acted' = p[2]]_linkVars

(* Nothing newer than the newest accepted frame is taken for a replay,     *)
(* whichever frames before it were lost: the session never locks out.      *)
FreshFrameAccepted ==
  \A p \in sent : p[1] > newest => Accepts(session, FrameOf(p[1], p[2]))
=============================================================================
