---------------------------- MODULE SetupService ----------------------------
(***************************************************************************)
(* ConfigService, the setup protocol over the USB serial port: lines read  *)
(* a byte at a time, at most kMaxBytesPerService in a pass of the main     *)
(* loop; answers and events queued whole in tx_ and handed to TinyUSB as   *)
(* it has room.  Commands are pipelined by the host as it likes.           *)
(*                                                                         *)
(* A byte is known by its line and its place there, and stands for what    *)
(* the parser tells apart: the "protocol" field, the "command" field with  *)
(* its arguments, any other text, a control character, CR and LF.  A       *)
(* queued line is two units.                                               *)
(* TinyUSB's own FIFOs may keep or lose what they hold when the port       *)
(* closes.  The mapping set by line n is n; 0 is the one at boot.          *)
(***************************************************************************)
EXTENDS Naturals, SequencesExt

CONSTANTS
  Scripts,        \* bound: the kinds of line the host writes, one by one
  MaxEmits,       \* bound: events of Bluetooth callbacks
  MaxLosses,      \* bound: closings of the port and suspends of the bus
  RxFifo, TxFifo, \* CFG_TUD_CDC_RX_BUFSIZE, CFG_TUD_CDC_TX_BUFSIZE
  InputSize,      \* sizeof(input_) - 1
  TxSize,         \* sizeof(tx_)
  MaxBytes        \* kMaxBytesPerService

Kinds == {"get", "set", "bad", "hook", "long", "control", "bare"}

ASSUME ScriptsAssumption == Scripts \subseteq Seq(Kinds)
ASSUME SizesAssumption ==
  /\ {MaxEmits, MaxLosses} \subseteq Nat
  /\ {RxFifo, TxFifo, MaxBytes} \subseteq Nat \ {0}
  /\ TxSize \in Nat /\ TxSize >= 2
  /\ InputSize \in Nat /\ InputSize >= 3     \* the longest request fits
\* The requests that may end in one pass, of which only pairing commands are
\* answered with an event too, find room for all their answers in tx_.
ASSUME RoomAssumption ==
  \A plain, pairing \in 0..MaxBytes + 3 :
    3 * plain + 4 * pairing <= MaxBytes + 3 => 2 * plain + 4 * pairing <= TxSize

VARIABLES
  (* host *)
  port,           \* DTR
  suspended,      \* usb_suspended
  kinds,          \* of the lines begun so far
  rest,           \* bytes of the last one yet to be written
  half, answer,   \* the unit and the whole answer it read last in this session
  (* TinyUSB *)
  rx, fifo,
  (* ConfigService *)
  pc, processed,
  active,         \* active_
  input, overflow,
  tx, tx_offset,  \* tx_[0 .. tx_size_), and the part of it already sent
  mapping, stored,
  (* bounds and history *)
  emitted, losses,
  begun,          \* the line whose second unit TinyUSB is to get next
  cut,            \* lines begun after an unfinished one, or cleared in part
  short,          \* this pass handled a line shorter than any request
  lost            \* lines whose answer was dropped

hostVars == <<port, suspended, kinds, rest, half, answer>>
sendVars == <<fifo, tx, tx_offset, begun>>
inputVars == <<input, overflow>>
configVars == <<mapping, stored>>
boundVars == <<emitted, losses>>
vars == <<hostVars, rx, pc, processed, active, inputVars, sendVars, configVars,
          boundVars, cut, short, lost>>

Ids == Nat \ {0}
Bytes == [line : Ids, at : Ids]

\* What the host writes for each kind; a `hook' is a pairing command.  The
\* long line and the one with a control character want to set a mapping.
Written(kind) ==
  CASE kind \in {"get", "set", "bad"} -> <<"protocol", "command", "LF">>
    [] kind = "hook" -> <<"protocol", "command", "text", "CR", "LF">>
    [] kind = "long" -> <<"protocol">> \o [i \in 1..InputSize - 1 |-> "text"]
                          \o <<"command", "LF">>
    [] kind = "control" -> <<"protocol", "control", "command", "LF">>
    [] kind = "bare" -> <<"text", "LF">>

Text(byte) == Written(kinds[byte.line])[byte.at]

Statuses == {"ok", "rejected", "store_failed", "unsupported_protocol",
             "invalid_request", "frame_too_large"}
Answers == [to : Ids, status : Statuses, mapping : Nat]
Event == [to |-> 0]
Units == [of : Answers \union {Event}, part : {1, 2}]
Line(message) == <<[of |-> message, part |-> 1], [of |-> message, part |-> 2]>>

Connected == port /\ ~suspended
Pending == SubSeq(tx, tx_offset + 1, Len(tx))

Init ==
  /\ port = FALSE /\ suspended = FALSE
  /\ kinds = <<>> /\ rest = <<>>
  /\ half = <<>> /\ answer = <<>>
  /\ rx = <<>> /\ fifo = <<>>
  /\ pc = "loop" /\ processed = 0 /\ active = FALSE
  /\ input = <<>> /\ overflow = FALSE
  /\ tx = <<>> /\ tx_offset = 0
  /\ mapping = 0 /\ stored = 0
  /\ emitted = 0 /\ losses = 0
  /\ begun = <<>> /\ cut = {} /\ short = FALSE /\ lost = {}
-----------------------------------------------------------------------------
(* The transmit queue.  Its operators take and give a record of sendVars.  *)
Smaller(a, b) == IF a < b THEN a ELSE b

Queue == [tx |-> tx, offset |-> tx_offset, fifo |-> fifo, begun |-> begun]

\* The unit that leaves a line open, if the last one of `sent' does.
OpenAfter(open, sent) ==
  IF sent = <<>> THEN open
  ELSE IF sent[Len(sent)].part = 1 THEN <<sent[Len(sent)]>> ELSE <<>>

\* Faulty variant: the queue is not rewound when all of it was sent.
NeverRewound(offset, size) == FALSE
Rewound(offset, size) == offset = size

\* service_tx(): TinyUSB takes as much as it has room for.
ServiceTx(q) ==
  LET pending == SubSeq(q.tx, q.offset + 1, Len(q.tx))
      written == Smaller(Len(pending), TxFifo - Len(q.fifo))
      sent == SubSeq(pending, 1, written)
      emptied == Rewound(q.offset + written, Len(q.tx))
  IN  [tx |-> IF emptied THEN <<>> ELSE q.tx,
       offset |-> IF emptied THEN 0 ELSE q.offset + written,
       fifo |-> q.fifo \o sent,
       begun |-> OpenAfter(q.begun, sent)]

\* Faulty variants: the offset is kept; the unit before it is kept.
OffsetKept(q) == [q EXCEPT !.tx = SubSeq(q.tx, q.offset + 1, Len(q.tx))]
UnitKept(q) == [q EXCEPT !.tx = SubSeq(q.tx, q.offset, Len(q.tx)), !.offset = 0]

\* memmove() to the front, when there is no room behind.
Moved(q) == [q EXCEPT !.tx = SubSeq(q.tx, q.offset + 1, Len(q.tx)), !.offset = 0]
Compacted(q) == IF q.offset # 0 /\ TxSize - Len(q.tx) < 2 THEN Moved(q) ELSE q

\* write_line(): a line that does not fit is dropped.
Fits(q) == TxSize - Len(Compacted(q).tx) >= 2
WriteLine(q, message) ==
  IF Fits(q)
  THEN ServiceTx([Compacted(q) EXCEPT !.tx = @ \o Line(message)])
  ELSE Compacted(q)

SetQueue(q) ==
  tx' = q.tx /\ tx_offset' = q.offset /\ fifo' = q.fifo /\ begun' = q.begun
-----------------------------------------------------------------------------
(* handle_line(): the answers.  `queue' is the one after a hook's events. *)
Respond(queue, n, status, current) ==
  LET response == [to |-> n, status |-> status, mapping |-> current]
  IN  /\ SetQueue(WriteLine(queue, response))
      /\ lost' = IF Fits(queue) THEN lost ELSE lost \union {n}

\* Faulty variant: a field may be repeated.
Found(text) == \E i \in 1..Len(input) : Text(input[i]) = text

\* find_once(): a field counts when it occurs exactly once.
Once(text) ==
  \E i \in 1..Len(input) : \A j \in 1..Len(input) : Text(input[j]) = text <=> j = i
CommandLine == input[CHOOSE i \in 1..Len(input) : Text(input[i]) = "command"].line
CommandKind == kinds[CommandLine]
Command == Once("protocol") /\ Once("command")

UnsupportedProtocol(n) ==
  /\ ~Once("protocol")
  /\ Respond(Queue, n, "unsupported_protocol", mapping)
  /\ UNCHANGED configVars

InvalidRequest(n) ==
  /\ Once("protocol") /\ ~Once("command")
  /\ Respond(Queue, n, "invalid_request", mapping)
  /\ UNCHANGED configVars

\* GET_INFO, GET_CONFIG and GET_CNC_PROFILES
Get(n) ==
  /\ Command /\ CommandKind = "get"
  /\ Respond(Queue, n, "ok", mapping)
  /\ UNCHANGED configVars

\* An unknown command; SET_CONFIG of another schema or an invalid mapping.
Reject(n) ==
  /\ Command /\ CommandKind = "bad"
  /\ Respond(Queue, n, "rejected", mapping)
  /\ UNCHANGED configVars

\* Faulty variant: a mapping is put to use, then stored.
NotStoredButUsed == UNCHANGED stored /\ mapping' = CommandLine
NotStored == UNCHANGED configVars

\* SET_CONFIG: stored first, then put to use.
SetConfig(n) ==
  /\ Command /\ CommandKind \in {"set", "long", "control"}
  /\ \/ stored' = CommandLine /\ mapping' = CommandLine
        /\ Respond(Queue, n, "ok", CommandLine)
     \/ NotStored /\ Respond(Queue, n, "store_failed", mapping)

\* A pairing command may report a state before it is answered.
PairingCommand(n) ==
  /\ Command /\ CommandKind = "hook"
  /\ \E queue \in {Queue, WriteLine(Queue, Event)}, status \in {"ok", "rejected"} :
       Respond(queue, n, status, mapping)
  /\ UNCHANGED configVars

HandleLine(n) ==
  \/ UnsupportedProtocol(n) \/ InvalidRequest(n) \/ Get(n) \/ Reject(n)
  \/ SetConfig(n) \/ PairingCommand(n)

\* Faulty variant: a control character outlives the session.
ClearInputOnly == input' = <<>> /\ UNCHANGED overflow
ClearInput == input' = <<>> /\ overflow' = FALSE

(* service(), in the main loop: other things happen only between passes.   *)
Disconnected ==
  /\ pc = "loop" /\ ~Connected
  /\ active' = FALSE
  /\ ClearInput
  /\ tx' = <<>> /\ tx_offset' = 0 /\ begun' = <<>>
  /\ cut' = cut \union {byte.line : byte \in {input[i] : i \in 1..Len(input)}}
  /\ UNCHANGED <<hostVars, rx, fifo, pc, processed, configVars, boundVars, short,
                 lost>>

\* Faulty variant: no backpressure.
AlwaysDrained(q) == TRUE
Drained(q) == q.tx = <<>>

\* Nothing is read while anything is still to be sent.
BeginPass ==
  LET q == ServiceTx(Queue)
  IN  /\ pc = "loop" /\ Connected
      /\ active' = TRUE
      /\ SetQueue(q)
      /\ pc' = IF Drained(q) THEN "read" ELSE "loop"
      /\ UNCHANGED <<hostVars, rx, processed, inputVars, configVars, boundVars, cut,
                     short, lost>>

Reading == pc = "read" /\ processed < MaxBytes /\ rx # <<>>

NextByte ==
  /\ Reading
  /\ rx' = Tail(rx) /\ processed' = processed + 1
  /\ UNCHANGED <<hostVars, pc, active, boundVars, cut>>

ReadLF ==
  /\ NextByte /\ Text(Head(rx)) = "LF"
  /\ \/ overflow /\ Respond(Queue, Head(rx).line, "frame_too_large", mapping)
        /\ UNCHANGED configVars
     \/ ~overflow /\ input = <<>> /\ UNCHANGED <<sendVars, configVars, lost>>
     \/ ~overflow /\ input # <<>> /\ HandleLine(Head(rx).line)
  /\ ClearInput
  /\ short' = (short \/ Len(input) < 2)

\* Faulty variant: no room is left for the terminating zero.
RoomWithoutZero == Len(input) <= InputSize
Room == Len(input) < InputSize

ReadText ==
  /\ NextByte /\ Text(Head(rx)) # "LF"
  /\ LET text == Text(Head(rx))
         stored_byte == text \notin {"CR", "control"} /\ Room
     IN  /\ input' = IF stored_byte THEN Append(input, Head(rx)) ELSE input
         /\ overflow' = (overflow \/ (~stored_byte /\ text # "CR"))
  /\ UNCHANGED <<sendVars, configVars, short, lost>>

EndPass ==
  /\ pc = "read" /\ ~Reading
  /\ pc' = "loop" /\ processed' = 0 /\ short' = FALSE
  /\ SetQueue(ServiceTx(Queue))
  /\ UNCHANGED <<hostVars, rx, active, inputVars, configVars, boundVars, cut, lost>>

\* emit_scan_result(), emit_pairing_state(): from Bluetooth callbacks.
Emit ==
  /\ pc = "loop" /\ active /\ emitted < MaxEmits
  /\ emitted' = emitted + 1
  /\ SetQueue(WriteLine(Queue, Event))
  /\ UNCHANGED <<hostVars, rx, pc, processed, active, inputVars, configVars, losses,
                 cut, short, lost>>
-----------------------------------------------------------------------------
(* The host and TinyUSB. *)
firmwareVars == <<pc, processed, active, inputVars, tx, tx_offset, configVars,
                  begun, short, lost>>

BeginLine(kind) ==
  /\ pc = "loop" /\ Connected /\ rest = <<>>
  /\ \E script \in Scripts : IsPrefix(Append(kinds, kind), script)
  /\ kinds' = Append(kinds, kind)
  /\ rest' = [i \in 1..Len(Written(kind)) |-> [line |-> Len(kinds) + 1, at |-> i]]
  /\ UNCHANGED <<port, suspended, half, answer, rx, fifo, firmwareVars, boundVars,
                 cut>>

WriteByte ==
  /\ pc = "loop" /\ Connected /\ rest # <<>> /\ Len(rx) < RxFifo
  /\ rx' = Append(rx, Head(rest)) /\ rest' = Tail(rest)
  /\ UNCHANGED <<port, suspended, kinds, half, answer, fifo, firmwareVars, boundVars,
                 cut>>

\* A second unit without its first is no answer to the host.
HostReads ==
  /\ pc = "loop" /\ Connected /\ fifo # <<>>
  /\ fifo' = Tail(fifo) /\ half' = <<Head(fifo)>>
  /\ answer' = IF Head(fifo).part = 2 /\ Head(fifo).of # Event
                  /\ half = <<[Head(fifo) EXCEPT !.part = 1]>>
               THEN <<Head(fifo)>> ELSE answer
  /\ UNCHANGED <<port, suspended, kinds, rest, rx, firmwareVars, boundVars, cut>>

\* A line whose end has not been written is in front of the next one.
Unfinished ==
  IF rx = <<>> THEN input # <<>> \/ overflow ELSE Text(rx[Len(rx)]) # "LF"

OpenPort ==
  /\ pc = "loop" /\ ~port /\ ~suspended
  /\ port' = TRUE
  /\ cut' = IF Unfinished THEN cut \union {Len(kinds) + 1} ELSE cut
  /\ UNCHANGED <<suspended, kinds, rest, half, answer, rx, fifo, firmwareVars,
                 boundVars>>

ClosePort ==
  /\ pc = "loop" /\ port /\ losses < MaxLosses
  /\ port' = FALSE /\ losses' = losses + 1
  /\ rest' = <<>> /\ half' = <<>> /\ answer' = <<>>
  /\ rx' \in {rx, <<>>} /\ fifo' \in {fifo, <<>>}
  /\ UNCHANGED <<suspended, kinds, firmwareVars, emitted, cut>>

Suspend ==
  /\ pc = "loop" /\ ~suspended /\ losses < MaxLosses
  /\ suspended' = TRUE /\ losses' = losses + 1
  /\ UNCHANGED <<port, kinds, rest, half, answer, rx, fifo, firmwareVars, emitted,
                 cut>>

Resume ==
  /\ pc = "loop" /\ suspended
  /\ suspended' = FALSE
  /\ UNCHANGED <<port, kinds, rest, half, answer, rx, fifo, firmwareVars, boundVars,
                 cut>>

Next ==
  \/ Disconnected \/ BeginPass \/ ReadLF \/ ReadText \/ EndPass \/ Emit
  \/ \E kind \in Kinds : BeginLine(kind)
  \/ WriteByte \/ HostReads \/ OpenPort \/ ClosePort \/ Suspend \/ Resume

Spec == Init /\ [][Next]_vars

\* The loop goes round; the host goes on reading, and ends a line it began:
\* both between two passes, where tud_task() runs, hence the strong fairness.
Fairness ==
  /\ WF_vars(BeginPass) /\ WF_vars(ReadLF) /\ WF_vars(ReadText) /\ WF_vars(EndPass)
  /\ SF_vars(HostReads) /\ SF_vars(WriteByte)

FairSpec == Spec /\ Fairness
-----------------------------------------------------------------------------
TypeOK ==
  /\ port \in BOOLEAN /\ suspended \in BOOLEAN
  /\ kinds \in Seq(Kinds)
  /\ rest \in Seq(Bytes)
  /\ half \in Seq(Units) /\ Len(half) <= 1
  /\ answer \in Seq(Units) /\ Len(answer) <= 1
  /\ rx \in Seq(Bytes) /\ Len(rx) <= RxFifo
  /\ fifo \in Seq(Units) /\ Len(fifo) <= TxFifo
  /\ pc \in {"loop", "read"} /\ processed \in 0..MaxBytes
  /\ active \in BOOLEAN
  /\ input \in Seq(Bytes) /\ Len(input) <= InputSize /\ overflow \in BOOLEAN
  /\ tx \in Seq(Units) /\ Len(tx) <= TxSize /\ tx_offset \in 0..Len(tx)
  /\ mapping \in Nat /\ stored \in Nat
  /\ emitted \in 0..MaxEmits /\ losses \in 0..MaxLosses
  /\ begun \in Seq(Units) /\ Len(begun) <= 1
  /\ cut \subseteq Ids /\ lost \subseteq Ids
  /\ short \in BOOLEAN

(* What TinyUSB is given is whole lines: the two units of a line follow    *)
(* each other, over partial writes, compaction of tx_, a full queue and    *)
(* losses of the session (config_service.cpp:145-183, 339-346).            *)
TxIsFramed ==
  LET stream == begun \o Pending
  IN  /\ Len(stream) % 2 = 0
      /\ \A i \in 1..Len(stream) :
           i % 2 = 1 => Line(stream[i].of) = SubSeq(stream, i, i + 1)

\* The answers on their way are among these, the last one read first.
OnTheWay == answer \o fifo \o Pending
IsAnswer(unit) == unit.part = 2 /\ unit.of # Event

(* Answers come in the order of their commands, each at most once, however *)
(* a command is split over passes and whatever session it was written in   *)
(* (config_service.cpp:348-351: `keeps command responses ordered').        *)
AnswersInOrder ==
  \A i, j \in 1..Len(OnTheWay) :
    i < j /\ IsAnswer(OnTheWay[i]) /\ IsAnswer(OnTheWay[j])
      => OnTheWay[i].of.to < OnTheWay[j].of.to

Expected(kind) ==
  CASE kind = "get" -> {"ok"}
    [] kind = "set" -> {"ok", "store_failed"}
    [] kind = "bad" -> {"rejected"}
    [] kind = "hook" -> {"ok", "rejected"}
    [] kind \in {"long", "control"} -> {"frame_too_large"}
    [] kind = "bare" -> {"unsupported_protocol"}

(* Every line is answered for what it says.  Only the first line of a      *)
(* session that follows an unfinished one, and a line whose beginning a    *)
(* loss of the session cleared, may be taken for something else: never a   *)
(* later one (config_service.cpp:337-346, 361-381; the last test of        *)
(* config_service_test.cpp).                                               *)
AnsweredAsAsked ==
  \A i \in 1..Len(OnTheWay) :
    LET unit == OnTheWay[i]
    IN  IsAnswer(unit) /\ unit.of.to \notin cut
          => unit.of.status \in Expected(kinds[unit.of.to])

IsField(byte) == Text(byte) \in {"protocol", "command"}

(* A mapping is stored only by a SET_CONFIG whose fields were all          *)
(* received, with no other line's among them: never by a line spliced of   *)
(* two requests, cut to the buffer or holding a control character.  Two    *)
(* losses in one line may pass for a request, with fields of two           *)
(* (config_service.cpp:12-16, 193-203, 361-381).                           *)
OnlyOneLineStores ==
  [][stored' # stored /\ (losses <= 1 \/ Head(rx).line \notin cut) =>
       /\ kinds[stored'] = "set"
       /\ \A i \in 1..Len(input) : IsField(input[i]) => input[i].line = stored']_vars

(* An answer is dropped only in a pass that got a line shorter than any    *)
(* request: what else a pass may get, spliced or overlong lines included,  *)
(* finds room for all its answers, because none starts before everything   *)
(* earlier was sent (config_service.cpp:145-162, 348-356).                 *)
RequestsAreAnswered == [][lost' \subseteq lost \/ short']_vars

(* An answer the host reads reports the mapping in use, unless a later     *)
(* line changed it: neither a failed store, nor a lost line, nor a reset   *)
(* leaves the host believing another (config_service.cpp:218-237,          *)
(* 282-299, 337-346).                                                      *)
HostKnowsMapping ==
  /\ mapping = stored
  /\ answer # <<>> /\ answer[1].of.to >= mapping => answer[1].of.mapping = mapping

(* A line begun is answered to the host, unless its answer was dropped,    *)
(* the session is lost again or its beginning was: no order of partial     *)
(* writes, events and pipelined lines stalls the service                   *)
(* (config_service.cpp:164-183, 337-383).                                  *)
LinesAreAnswered ==
  \A n \in 1..2 :
    (Connected /\ losses = MaxLosses /\ Len(kinds) = n /\ rest # <<>> /\ n \notin cut)
      ~> (n \in lost \/ (answer # <<>> /\ answer[1].of.to >= n))
=============================================================================
