---------------------------- MODULE SetupProofs ----------------------------
(***************************************************************************)
(* The setup protocol, for any sizes of its buffers, any number of lines,  *)
(* events and losses of the session.  In the order of the proofs:          *)
(*   - the types and bounds, and that whole lines are sent;                *)
(*   - what the bytes of the host are from their writing on, and with it   *)
(*     the order of the answers and the mapping they report;               *)
(*   - which bytes the line buffer has, for a line that was not cut, and   *)
(*     with it what the line is answered;                                  *)
(*   - which bytes it has for any line, and with it which line stores;     *)
(*   - what a pass may queue, and with it that requests are answered.      *)
(***************************************************************************)
EXTENDS SetupService, SequenceTheorems, TLAPS

(* The lines of the host, byte by byte.                                    *)
LEMMA WrittenBytes ==
  ASSUME NEW kind \in Kinds
  PROVE  /\ kind = "long" =>
              /\ Len(Written(kind)) = InputSize + 2
              /\ Written(kind)[1] = "protocol"
              /\ \A i \in 2..InputSize : Written(kind)[i] = "text"
              /\ Written(kind)[InputSize + 1] = "command"
              /\ Written(kind)[InputSize + 2] = "LF"
         /\ kind \in {"get", "set", "bad"} =>
              /\ Len(Written(kind)) = 3
              /\ Written(kind)[1] = "protocol" /\ Written(kind)[2] = "command"
              /\ Written(kind)[3] = "LF"
         /\ kind = "hook" =>
              /\ Len(Written(kind)) = 5
              /\ Written(kind)[1] = "protocol" /\ Written(kind)[2] = "command"
              /\ Written(kind)[3] = "text" /\ Written(kind)[4] = "CR"
              /\ Written(kind)[5] = "LF"
         /\ kind = "control" =>
              /\ Len(Written(kind)) = 4
              /\ Written(kind)[1] = "protocol" /\ Written(kind)[2] = "control"
              /\ Written(kind)[3] = "command" /\ Written(kind)[4] = "LF"
         /\ kind = "bare" =>
              /\ Len(Written(kind)) = 2
              /\ Written(kind)[1] = "text" /\ Written(kind)[2] = "LF"
<1>1. CASE kind = "long"
  <2> DEFINE middle == [i \in 1..InputSize - 1 |-> "text"]
  <2>1. InputSize \in Nat /\ InputSize >= 3
    BY SizesAssumption
  <2>2. middle \in Seq({"text"}) /\ Len(middle) = InputSize - 1
        /\ \A i \in 1..InputSize - 1 : middle[i] = "text"
    BY <2>1
  <2>3. Written(kind) = <<"protocol">> \o middle \o <<"command", "LF">>
    BY <1>1, Zenon DEF Written
  <2> HIDE DEF middle
  <2>4. Len(Written(kind)) = InputSize + 2
    BY <2>1, <2>2, <2>3
  <2>5. /\ Written(kind)[1] = "protocol"
        /\ \A i \in 2..InputSize : Written(kind)[i] = "text"
        /\ Written(kind)[InputSize + 1] = "command"
        /\ Written(kind)[InputSize + 2] = "LF"
    BY <2>1, <2>2, <2>3
  <2>6. QED
    BY <1>1, <2>4, <2>5
<1>2. CASE kind \in {"get", "set", "bad"}
  <2>1. Written(kind) = <<"protocol", "command", "LF">>
    BY <1>2, Zenon DEF Written
  <2>2. QED
    BY <1>2, <2>1
<1>3. CASE kind = "hook"
  <2>1. Written(kind) = <<"protocol", "command", "text", "CR", "LF">>
    BY <1>3, Zenon DEF Written
  <2>2. QED
    BY <1>3, <2>1
<1>4. CASE kind = "control"
  <2>1. Written(kind) = <<"protocol", "control", "command", "LF">>
    BY <1>4, Zenon DEF Written
  <2>2. QED
    BY <1>4, <2>1
<1>5. CASE kind = "bare"
  <2>1. Written(kind) = <<"text", "LF">>
    BY <1>5, Zenon DEF Written
  <2>2. QED
    BY <1>5, <2>1
<1>6. QED
  BY <1>1, <1>2, <1>3, <1>4, <1>5 DEF Kinds

(* The place of the command in a line of a kind.                           *)
CommandAt(kind) ==
  IF kind = "long" THEN InputSize + 1 ELSE IF kind = "control" THEN 3 ELSE 2

(* What a byte is tells where it stands in its line.                       *)
LEMMA WrittenFacts ==
  ASSUME NEW kind \in Kinds, NEW i \in 1..Len(Written(kind))
  PROVE  /\ Written(kind)[i] = "LF" <=> i = Len(Written(kind))
         /\ Written(kind)[i] = "protocol" <=> i = 1 /\ kind # "bare"
         /\ Written(kind)[i] = "command" <=> i = CommandAt(kind) /\ kind # "bare"
         /\ Written(kind)[i] = "control" <=> i = 2 /\ kind = "control"
         /\ Written(kind)[i] = "CR" <=> i = 4 /\ kind = "hook"
         /\ Written(kind)[i] \in {"protocol", "command", "text", "control", "CR", "LF"}
<1>1. InputSize \in Nat /\ InputSize >= 3
  BY SizesAssumption
<1>2. CASE kind = "long"
  <2>1. /\ Len(Written(kind)) = InputSize + 2
        /\ Written(kind)[1] = "protocol"
        /\ \A j \in 2..InputSize : Written(kind)[j] = "text"
        /\ Written(kind)[InputSize + 1] = "command"
        /\ Written(kind)[InputSize + 2] = "LF"
    BY <1>2, WrittenBytes, Zenon
  <2>2. i = 1 \/ i \in 2..InputSize \/ i = InputSize + 1 \/ i = InputSize + 2
    BY <1>1, <2>1
  <2>3. QED
    BY <1>1, <1>2, <2>1, <2>2 DEF CommandAt
<1>3. CASE kind \in {"get", "set", "bad"}
  <2>1. Len(Written(kind)) = 3
        /\ Written(kind)[1] = "protocol"
        /\ Written(kind)[2] = "command"
        /\ Written(kind)[3] = "LF"
    BY <1>3, WrittenBytes, Zenon
  <2>2. i = 1 \/ i = 2 \/ i = 3
    BY <2>1
  <2>3. CommandAt(kind) = 2
    BY <1>3 DEF CommandAt
  <2>4. QED
    BY <1>3, <2>1, <2>2, <2>3
<1>4. CASE kind = "hook"
  <2>1. Len(Written(kind)) = 5
        /\ Written(kind)[1] = "protocol"
        /\ Written(kind)[2] = "command"
        /\ Written(kind)[3] = "text"
        /\ Written(kind)[4] = "CR"
        /\ Written(kind)[5] = "LF"
    BY <1>4, WrittenBytes, Zenon
  <2>2. i = 1 \/ i = 2 \/ i = 3 \/ i = 4 \/ i = 5
    BY <2>1
  <2>3. CommandAt(kind) = 2
    BY <1>4 DEF CommandAt
  <2>4. QED
    BY <1>4, <2>1, <2>2, <2>3
<1>5. CASE kind = "control"
  <2>1. Len(Written(kind)) = 4
        /\ Written(kind)[1] = "protocol"
        /\ Written(kind)[2] = "control"
        /\ Written(kind)[3] = "command"
        /\ Written(kind)[4] = "LF"
    BY <1>5, WrittenBytes, Zenon
  <2>2. i = 1 \/ i = 2 \/ i = 3 \/ i = 4
    BY <2>1
  <2>3. CommandAt(kind) = 3
    BY <1>5 DEF CommandAt
  <2>4. QED
    BY <1>5, <2>1, <2>2, <2>3
<1>6. CASE kind = "bare"
  <2>1. Len(Written(kind)) = 2
        /\ Written(kind)[1] = "text"
        /\ Written(kind)[2] = "LF"
    BY <1>6, WrittenBytes, Zenon
  <2>2. i = 1 \/ i = 2
    BY <2>1
  <2>3. CommandAt(kind) = 2
    BY <1>6 DEF CommandAt
  <2>4. QED
    BY <1>6, <2>1, <2>2, <2>3
<1>7. QED
  BY <1>2, <1>3, <1>4, <1>5, <1>6 DEF Kinds
-----------------------------------------------------------------------------
(* A queue, as its operators take and give it, and what it has yet to      *)
(* send.                                                                   *)
Queues == [tx : Seq(Units), offset : Nat, fifo : Seq(Units), begun : Seq(Units)]
Waiting(q) == SubSeq(q.tx, q.offset + 1, Len(q.tx))

(* A sequence is what its first part and the others are.                   *)
LEMMA SplitSeq ==
  ASSUME NEW S, NEW s \in Seq(S), NEW k \in 0..Len(s)
  PROVE  /\ SubSeq(s, 1, k) \in Seq(S) /\ Len(SubSeq(s, 1, k)) = k
         /\ SubSeq(s, k + 1, Len(s)) \in Seq(S)
         /\ Len(SubSeq(s, k + 1, Len(s))) = Len(s) - k
         /\ \A i \in 1..k : SubSeq(s, 1, k)[i] = s[i]
         /\ \A i \in 1..Len(s) - k : SubSeq(s, k + 1, Len(s))[i] = s[i + k]
<1>1. Len(s) \in Nat
  OBVIOUS
<1>2. \A i \in 1..k : s[i] \in S
  BY <1>1
<1>3. \A i \in k + 1..Len(s) : s[i] \in S
  BY <1>1
<1>4. SubSeq(s, 1, k) \in Seq(S) /\ Len(SubSeq(s, 1, k)) = k
      /\ \A i \in 1..k : SubSeq(s, 1, k)[i] = s[i]
  BY <1>1, <1>2, SubSeqProperties
<1>5. SubSeq(s, k + 1, Len(s)) \in Seq(S)
      /\ Len(SubSeq(s, k + 1, Len(s))) = Len(s) - k
      /\ \A i \in 1..Len(s) - k : SubSeq(s, k + 1, Len(s))[i] = s[i + k]
  BY <1>1, <1>3, SubSeqProperties
<1>6. QED
  BY <1>4, <1>5

(* Joining two sequences.                                                  *)
LEMMA JoinSeq ==
  ASSUME NEW S, NEW s \in Seq(S), NEW t \in Seq(S)
  PROVE  /\ s \o t \in Seq(S) /\ Len(s \o t) = Len(s) + Len(t)
         /\ Len(s) \in Nat /\ Len(t) \in Nat
         /\ \A i \in 1..Len(s) : (s \o t)[i] = s[i]
         /\ \A i \in 1..Len(t) : (s \o t)[Len(s) + i] = t[i]
         /\ \A i \in 1..Len(s) + Len(t) :
              (s \o t)[i] = IF i <= Len(s) THEN s[i] ELSE t[i - Len(s)]
  OBVIOUS

(* Two sequences of the same elements are one.                             *)
LEMMA SameSeq ==
  ASSUME NEW S, NEW s \in Seq(S), NEW t \in Seq(S), Len(s) = Len(t),
         \A i \in 1..Len(s) : s[i] = t[i]
  PROVE  s = t
  BY SeqEqual

(* A sequence without its first element.                                   *)
LEMMA TailSeq ==
  ASSUME NEW S, NEW s \in Seq(S), s # <<>>
  PROVE  /\ Tail(s) \in Seq(S) /\ Len(Tail(s)) = Len(s) - 1 /\ Len(s) \in Nat /\ Len(s) >= 1
         /\ Head(s) = s[1] /\ s[1] \in S
         /\ \A i \in 1..Len(s) - 1 : Tail(s)[i] = s[i + 1]
  OBVIOUS

(* The sizes are numbers.                                                  *)
LEMMA SizesTyped ==
  /\ RxFifo \in Nat /\ RxFifo > 0 /\ TxFifo \in Nat /\ TxFifo > 0
  /\ MaxBytes \in Nat /\ MaxBytes > 0 /\ TxSize \in Nat /\ TxSize >= 2
  /\ InputSize \in Nat /\ InputSize >= 3 /\ MaxEmits \in Nat /\ MaxLosses \in Nat
  BY SizesAssumption

(* A queued line is two units.                                             *)
LEMMA LineTyped ==
  ASSUME NEW m \in Answers \union {Event}
  PROVE  /\ Line(m) \in Seq(Units) /\ Len(Line(m)) = 2
         /\ Line(m)[1] = [of |-> m, part |-> 1] /\ Line(m)[2] = [of |-> m, part |-> 2]
<1>1. [of |-> m, part |-> 1] \in Units /\ [of |-> m, part |-> 2] \in Units
  BY DEF Units
<1> HIDE DEF Units
<1>2. QED
  BY <1>1 DEF Line

(* A queue within its buffers.                                             *)
QueueFits(q) ==
  /\ q \in Queues
  /\ q.offset <= Len(q.tx) /\ Len(q.tx) <= TxSize
  /\ Len(q.fifo) <= TxFifo /\ Len(q.begun) <= 1

(* What waits is the rest of tx_.                                          *)
LEMMA WaitingTyped ==
  ASSUME NEW q, QueueFits(q)
  PROVE  /\ q.tx \in Seq(Units) /\ q.offset \in 0..Len(q.tx) /\ Len(q.tx) \in Nat
         /\ q.fifo \in Seq(Units) /\ q.begun \in Seq(Units)
         /\ Waiting(q) \in Seq(Units) /\ Len(Waiting(q)) = Len(q.tx) - q.offset
         /\ \A i \in 1..Len(q.tx) - q.offset : Waiting(q)[i] = q.tx[i + q.offset]
<1>1. /\ q.tx \in Seq(Units) /\ q.offset \in 0..Len(q.tx) /\ Len(q.tx) \in Nat
      /\ q.fifo \in Seq(Units) /\ q.begun \in Seq(Units)
  BY DEF QueueFits, Queues
<1> DEFINE s == q.tx
           k == q.offset
<1>2. s \in Seq(Units) /\ k \in 0..Len(s)
  BY <1>1
<1> HIDE DEF s, k
<1>3. /\ SubSeq(s, k + 1, Len(s)) \in Seq(Units)
      /\ Len(SubSeq(s, k + 1, Len(s))) = Len(s) - k
      /\ \A i \in 1..Len(s) - k : SubSeq(s, k + 1, Len(s))[i] = s[i + k]
  BY <1>2, SplitSeq
<1>4. QED
  BY <1>1, <1>3 DEF Waiting, s, k

(* What service_tx() takes of the bytes that wait.                         *)
Taken(q) == Smaller(Len(Waiting(q)), TxFifo - Len(q.fifo))

(* service_tx() passes the front of what waits to TinyUSB.                 *)
LEMMA ServiceTxFacts ==
  ASSUME NEW q, QueueFits(q)
  PROVE  /\ Taken(q) \in 0..Len(Waiting(q))
         /\ Taken(q) <= TxFifo - Len(q.fifo)
         /\ QueueFits(ServiceTx(q))
         /\ ServiceTx(q).fifo = q.fifo \o SubSeq(Waiting(q), 1, Taken(q))
         /\ ServiceTx(q).begun = OpenAfter(q.begun, SubSeq(Waiting(q), 1, Taken(q)))
         /\ Waiting(ServiceTx(q)) = SubSeq(Waiting(q), Taken(q) + 1, Len(Waiting(q)))
         /\ Len(ServiceTx(q).tx) <= Len(q.tx)
<1> DEFINE p == Waiting(q)
           k == Taken(q)
           sent == SubSeq(p, 1, k)
           r == ServiceTx(q)
           emptied == q.offset + k = Len(q.tx)
<1>1. /\ q.tx \in Seq(Units) /\ q.offset \in 0..Len(q.tx) /\ Len(q.tx) \in Nat
      /\ q.fifo \in Seq(Units) /\ q.begun \in Seq(Units)
      /\ p \in Seq(Units) /\ Len(p) = Len(q.tx) - q.offset
      /\ \A i \in 1..Len(q.tx) - q.offset : p[i] = q.tx[i + q.offset]
      /\ Len(q.tx) <= TxSize /\ Len(q.fifo) <= TxFifo /\ Len(q.begun) <= 1
      /\ Len(q.fifo) \in Nat /\ Len(p) \in Nat
  <2>1. Len(q.tx) <= TxSize /\ Len(q.fifo) <= TxFifo /\ Len(q.begun) <= 1
    BY DEF QueueFits
  <2> HIDE DEF p
  <2>2. /\ q.tx \in Seq(Units) /\ q.offset \in 0..Len(q.tx) /\ Len(q.tx) \in Nat
        /\ q.fifo \in Seq(Units) /\ q.begun \in Seq(Units)
        /\ p \in Seq(Units) /\ Len(p) = Len(q.tx) - q.offset
        /\ \A i \in 1..Len(q.tx) - q.offset : p[i] = q.tx[i + q.offset]
    BY WaitingTyped DEF p
  <2>3. QED
    BY <2>1, <2>2
<1>2. k \in 0..Len(p) /\ k <= TxFifo - Len(q.fifo)
  BY <1>1, SizesTyped DEF Smaller, Taken
<1>3. /\ r.tx = IF emptied THEN <<>> ELSE q.tx
      /\ r.offset = IF emptied THEN 0 ELSE q.offset + k
      /\ r.fifo = q.fifo \o sent
      /\ r.begun = OpenAfter(q.begun, sent)
      /\ r = [tx |-> r.tx, offset |-> r.offset, fifo |-> r.fifo, begun |-> r.begun]
  <2>1. r = [tx |-> IF emptied THEN <<>> ELSE q.tx,
             offset |-> IF emptied THEN 0 ELSE q.offset + k,
             fifo |-> q.fifo \o sent,
             begun |-> OpenAfter(q.begun, sent)]
    BY DEF ServiceTx, Rewound, Taken, Waiting
  <2> HIDE DEF r, emptied, sent, p, k
  <2>2. QED
    BY <2>1
<1> HIDE DEF p, k, r
<1>4. sent \in Seq(Units) /\ Len(sent) = k
  BY <1>1, <1>2, SplitSeq
<1> HIDE DEF sent
<1>5. r.fifo \in Seq(Units) /\ Len(r.fifo) <= TxFifo
  <2>1. r.fifo = q.fifo \o sent /\ q.fifo \in Seq(Units) /\ sent \in Seq(Units)
    BY <1>1, <1>3, <1>4
  <2>2. r.fifo \in Seq(Units) /\ Len(r.fifo) = Len(q.fifo) + Len(sent)
    BY <2>1, JoinSeq
  <2>3. Len(sent) = k /\ k <= TxFifo - Len(q.fifo) /\ k \in Nat /\ Len(q.fifo) \in Nat
    BY <1>1, <1>2, <1>4
  <2>4. QED
    BY <2>2, <2>3, SizesTyped
<1>6. r.begun \in Seq(Units) /\ Len(r.begun) <= 1
  <2>1. CASE sent = <<>>
    BY <1>1, <1>3, <2>1 DEF OpenAfter
  <2>2. CASE sent # <<>>
    <3>1. sent[Len(sent)] \in Units
      BY <1>4, <2>2
    <3>2. r.begun = <<sent[Len(sent)]>> \/ r.begun = <<>>
      BY <1>3, <2>2 DEF OpenAfter
    <3>3. CASE r.begun = <<sent[Len(sent)]>>
      BY <3>1, <3>3
    <3>4. CASE r.begun = <<>>
      BY <3>4
    <3>5. QED
      BY <3>2, <3>3, <3>4
  <2>3. QED
    BY <2>1, <2>2
<1>7. /\ r.tx \in Seq(Units) /\ r.offset \in Nat /\ r.offset <= Len(r.tx)
      /\ Len(r.tx) <= Len(q.tx)
  BY <1>1, <1>2, <1>3
<1>8. QueueFits(r)
  <2>1. r \in Queues
    BY <1>3, <1>5, <1>6, <1>7 DEF Queues
  <2>2. QED
    BY <1>1, <1>5, <1>6, <1>7, <2>1, SizesTyped DEF QueueFits
<1>9. Waiting(r) = SubSeq(p, k + 1, Len(p))
  <2> DEFINE rest_ == SubSeq(p, k + 1, Len(p))
  <2>1. /\ rest_ \in Seq(Units) /\ Len(rest_) = Len(p) - k
        /\ \A i \in 1..Len(p) - k : rest_[i] = p[i + k]
    <3>1. p \in Seq(Units) /\ k \in 0..Len(p)
      BY <1>1, <1>2
    <3>2. QED
      BY <3>1, SplitSeq
  <2>2. /\ Waiting(r) \in Seq(Units) /\ Len(Waiting(r)) = Len(r.tx) - r.offset
        /\ \A i \in 1..Len(r.tx) - r.offset : Waiting(r)[i] = r.tx[i + r.offset]
    BY <1>8, WaitingTyped
  <2>3. Len(r.tx) - r.offset = Len(p) - k
    BY <1>1, <1>2, <1>3
  <2>4. ASSUME NEW i \in 1..Len(p) - k
        PROVE  Waiting(r)[i] = p[i + k]
    <3>1. ~emptied /\ i + k \in 1..Len(q.tx) - q.offset
      BY <1>1, <1>2
    <3>2. r.tx = q.tx /\ r.offset = q.offset + k
      BY <1>3, <3>1
    <3>3. Waiting(r)[i] = q.tx[i + (q.offset + k)]
      BY <2>2, <2>3, <3>2
    <3>4. i + (q.offset + k) = (i + k) + q.offset
      BY <1>1, <1>2
    <3>5. QED
      BY <1>1, <3>1, <3>3, <3>4
  <2> HIDE DEF rest_
  <2>5. Len(Waiting(r)) = Len(rest_) /\ \A i \in 1..Len(Waiting(r)) : Waiting(r)[i] = rest_[i]
    BY <2>1, <2>2, <2>3, <2>4
  <2>6. Waiting(r) = rest_
    BY <2>1, <2>2, <2>5, SameSeq
  <2>7. QED
    BY <2>6 DEF rest_
<1>10. QED
  BY <1>2, <1>3, <1>7, <1>8, <1>9 DEF p, k, r, sent

(* Units in whole lines.                                                   *)
Framed(s) ==
  /\ (Len(s) % 2) = 0
  /\ \A i \in 1..Len(s) :
       (i % 2) = 1 => /\ i + 1 <= Len(s)
                      /\ s[i] = [of |-> s[i].of, part |-> 1]
                      /\ s[i + 1] = [of |-> s[i].of, part |-> 2]

(* In whole lines the first halves are at the odd places.                  *)
LEMMA FramedParts ==
  ASSUME NEW s \in Seq(Units), Framed(s), NEW i \in 1..Len(s)
  PROVE  s[i].part = 1 <=> (i % 2) = 1
<1>1. CASE (i % 2) = 1
  <2>1. s[i] = [of |-> s[i].of, part |-> 1]
    BY <1>1 DEF Framed
  <2>2. QED
    BY <1>1, <2>1
<1>2. CASE (i % 2) # 1
  <2>1. i - 1 \in 1..Len(s) /\ ((i - 1) % 2) = 1 /\ (i - 1) + 1 = i
    BY <1>2
  <2>2. s[i] = [of |-> s[i - 1].of, part |-> 2]
    BY <2>1 DEF Framed
  <2>3. s[i].part = 2
    BY <2>2
  <2>4. QED
    BY <1>2, <2>3
<1>3. QED
  BY <1>1, <1>2

(* Two even lengths.                                                       *)
LEMMA Even ==
  ASSUME NEW a \in Int, NEW b \in Int, (b % 2) = 0
  PROVE  ((a + b) % 2) = (a % 2) /\ ((a - b) % 2) = (a % 2)
  OBVIOUS

(* Taking whole lines off leaves whole lines.                              *)
LEMMA FramedRest ==
  ASSUME NEW s \in Seq(Units), Framed(s), NEW k \in 0..Len(s), (k % 2) = 0,
         NEW t \in Seq(Units), Len(t) = Len(s) - k,
         \A i \in 1..Len(t) : t[i] = s[i + k]
  PROVE  Framed(t)
<1>1. Len(s) \in Nat /\ (Len(s) % 2) = 0
  <2>1. Len(s) \in Nat
    OBVIOUS
  <2>2. (Len(s) % 2) = 0
    BY DEF Framed
  <2>3. QED
    BY <2>1, <2>2
<1>2. (Len(t) % 2) = 0
  BY <1>1, Even
<1>3. ASSUME NEW i \in 1..Len(t), (i % 2) = 1
      PROVE  /\ i + 1 <= Len(t)
             /\ t[i] = [of |-> t[i].of, part |-> 1]
             /\ t[i + 1] = [of |-> t[i].of, part |-> 2]
  <2>1. i + k \in 1..Len(s) /\ ((i + k) % 2) = 1
    <3>1. i \in Int /\ k \in Int /\ i + k \in 1..Len(s)
      BY <1>1
    <3>2. QED
      BY <1>3, <3>1, Even
  <2>2. /\ (i + k) + 1 <= Len(s)
        /\ s[i + k] = [of |-> s[i + k].of, part |-> 1]
        /\ s[(i + k) + 1] = [of |-> s[i + k].of, part |-> 2]
    BY <2>1 DEF Framed
  <2>3. i + 1 \in 1..Len(t) /\ (i + 1) + k = (i + k) + 1
    BY <1>1, <2>2
  <2>4. t[i] = s[i + k] /\ t[i + 1] = s[(i + k) + 1]
    BY <2>3
  <2>5. QED
    BY <2>2, <2>3, <2>4
<1>4. QED
  BY <1>2, <1>3 DEF Framed

(* A line more is whole lines.                                             *)
LEMMA FramedJoin ==
  ASSUME NEW s \in Seq(Units), Framed(s), NEW m \in Answers \union {Event}
  PROVE  Framed(s \o Line(m))
<1> DEFINE t == s \o Line(m)
<1>1. /\ Len(s) \in Nat /\ (Len(s) % 2) = 0
      /\ Len(t) = Len(s) + 2
      /\ \A i \in 1..Len(s) : t[i] = s[i]
      /\ t[Len(s) + 1] = [of |-> m, part |-> 1]
      /\ t[Len(s) + 2] = [of |-> m, part |-> 2]
  <2>1. Line(m) \in Seq(Units) /\ Len(Line(m)) = 2
        /\ Line(m)[1] = [of |-> m, part |-> 1] /\ Line(m)[2] = [of |-> m, part |-> 2]
    BY LineTyped
  <2>2. (Len(s) % 2) = 0
    BY DEF Framed
  <2> HIDE DEF Framed
  <2> DEFINE l == Line(m)
             n == Len(l)
  <2>3. l \in Seq(Units) /\ n = 2 /\ t = s \o l /\ l[1] = [of |-> m, part |-> 1] /\ l[2] = [of |-> m, part |-> 2]
    BY <2>1
  <2> HIDE DEF l, t
  <2>4. /\ Len(s) \in Nat /\ Len(t) = Len(s) + n
        /\ \A i \in 1..Len(s) : t[i] = s[i]
        /\ \A i \in 1..n : t[Len(s) + i] = l[i]
    <3>1. l \in Seq(Units) /\ t = s \o l
      BY <2>3
    <3>2. QED
      BY <3>1, JoinSeq
  <2> HIDE DEF n
  <2>5. t[Len(s) + 1] = l[1] /\ t[Len(s) + 2] = l[2]
    BY <2>3, <2>4
  <2>6. QED
    BY <2>2, <2>3, <2>4, <2>5
<1> HIDE DEF t
<1>2. ASSUME NEW i \in 1..Len(t), (i % 2) = 1
      PROVE  /\ i + 1 <= Len(t)
             /\ t[i] = [of |-> t[i].of, part |-> 1]
             /\ t[i + 1] = [of |-> t[i].of, part |-> 2]
  <2>1. CASE i \in 1..Len(s)
    <3>1. /\ i + 1 <= Len(s)
          /\ s[i] = [of |-> s[i].of, part |-> 1]
          /\ s[i + 1] = [of |-> s[i].of, part |-> 2]
      BY <1>2, <2>1 DEF Framed
    <3>2. t[i] = s[i] /\ t[i + 1] = s[i + 1]
      BY <1>1, <2>1, <3>1
    <3>3. QED
      BY <1>1, <2>1, <3>1, <3>2
  <2>2. CASE i \notin 1..Len(s)
    <3>1. i = Len(s) + 1
      BY <1>1, <1>2, <2>2
    <3>2. QED
      BY <1>1, <3>1
  <2>3. QED
    BY <2>1, <2>2
<1>3. (Len(t) % 2) = 0
  BY <1>1
<1>4. QED
  BY <1>2, <1>3 DEF Framed, t

(* What TinyUSB is to get, behind the half it got last.                    *)
Stream(q) == q.begun \o Waiting(q)

(* It is a sequence of units.                                              *)
LEMMA StreamTyped ==
  ASSUME NEW q, QueueFits(q)
  PROVE  /\ Stream(q) \in Seq(Units)
         /\ Len(Stream(q)) = Len(q.begun) + Len(Waiting(q))
         /\ Len(q.begun) \in Nat /\ Len(Waiting(q)) \in Nat
         /\ \A i \in 1..Len(q.begun) : Stream(q)[i] = q.begun[i]
         /\ \A i \in 1..Len(Waiting(q)) : Stream(q)[Len(q.begun) + i] = Waiting(q)[i]
<1>1. q.begun \in Seq(Units) /\ Waiting(q) \in Seq(Units)
  BY WaitingTyped
<1>2. QED
  BY <1>1, JoinSeq DEF Stream

(* service_tx() takes units from the front: the rest is still framed.      *)
LEMMA ServiceTxFrames ==
  ASSUME NEW q, QueueFits(q), Framed(Stream(q))
  PROVE  Framed(Stream(ServiceTx(q)))
<1> DEFINE p == Waiting(q)
           k == Taken(q)
           sent == SubSeq(p, 1, k)
           r == ServiceTx(q)
           s == Stream(q)
           t == Stream(r)
           b == Len(q.begun)
<1>1. /\ QueueFits(r) /\ k \in 0..Len(p) /\ Len(p) \in Nat /\ b \in Nat
      /\ r.begun = OpenAfter(q.begun, sent)
      /\ Waiting(r) = SubSeq(p, k + 1, Len(p))
      /\ p \in Seq(Units) /\ q.begun \in Seq(Units)
  BY ServiceTxFacts, WaitingTyped, StreamTyped
<1>2. /\ s \in Seq(Units) /\ Len(s) = b + Len(p)
      /\ \A i \in 1..b : s[i] = q.begun[i]
      /\ \A i \in 1..Len(p) : s[b + i] = p[i]
  BY StreamTyped
<1>3. /\ t \in Seq(Units) /\ Len(t) = Len(r.begun) + Len(Waiting(r))
      /\ \A i \in 1..Len(r.begun) : t[i] = r.begun[i]
      /\ \A i \in 1..Len(Waiting(r)) : t[Len(r.begun) + i] = Waiting(r)[i]
  BY <1>1, StreamTyped
<1> HIDE DEF p, k, r, s, t, b
<1>4. /\ sent \in Seq(Units) /\ Len(sent) = k
      /\ \A i \in 1..k : sent[i] = p[i]
      /\ Len(Waiting(r)) = Len(p) - k
      /\ \A i \in 1..Len(p) - k : Waiting(r)[i] = p[i + k]
  BY <1>1, SplitSeq
<1> HIDE DEF sent
<1>5. Framed(s)
  BY DEF s
<1>9. Len(p) \in Nat /\ b \in Nat /\ k \in 0..Len(p) /\ Len(s) = b + Len(p)
  BY <1>1, <1>2
<1>10. Len(t) = Len(r.begun) + (Len(p) - k)
  BY <1>3, <1>4
<1>6. CASE k = 0
  <2>1. sent = <<>>
    BY <1>4, <1>6
  <2>2. r.begun = q.begun
    BY <1>1, <2>1 DEF OpenAfter
  <2>3. Len(t) = Len(s) - 0 /\ \A i \in 1..Len(t) : t[i] = s[i + 0]
    <3>1. Len(t) = b + Len(p)
      <4>1. Len(r.begun) = b
        BY <2>2 DEF b
      <4>2. QED
        BY <1>6, <1>9, <1>10, <4>1
    <3>2. ASSUME NEW i \in 1..Len(t)
          PROVE  t[i] = s[i]
      <4>1. CASE i <= b
        <5>1. i \in 1..b /\ i \in 1..Len(r.begun)
          BY <1>9, <2>2, <3>1, <4>1 DEF b
        <5>2. t[i] = q.begun[i] /\ s[i] = q.begun[i]
          BY <1>2, <1>3, <2>2, <5>1
        <5>3. QED
          BY <5>2
      <4>2. CASE i > b
        <5>1. i - b \in 1..Len(p) /\ b + (i - b) = i
          BY <1>1, <3>1, <4>2
        <5>2. t[i] = Waiting(r)[i - b] /\ s[i] = p[i - b]
          <6>1. Len(r.begun) = b
            BY <2>2 DEF b
          <6>2. i - b \in 1..Len(Waiting(r))
            BY <1>4, <1>6, <1>9, <5>1
          <6>3. t[b + (i - b)] = Waiting(r)[i - b]
            BY <1>3, <6>1, <6>2
          <6>4. s[b + (i - b)] = p[i - b]
            BY <1>2, <5>1
          <6>5. QED
            BY <5>1, <6>3, <6>4
        <5>3. Waiting(r)[i - b] = p[i - b]
          BY <1>1, <1>4, <1>6, <5>1
        <5>4. QED
          BY <5>2, <5>3
      <4>3. QED
        BY <1>1, <3>1, <4>1, <4>2
    <3>3. QED
      BY <1>1, <1>2, <3>1, <3>2
  <2>4. 0 \in 0..Len(s) /\ (0 % 2) = 0
    BY <1>9
  <2> HIDE DEF Framed
  <2>5. Framed(t)
    BY <1>2, <1>3, <1>5, <2>3, <2>4, FramedRest
  <2>6. QED
    BY <2>5 DEF t, r
<1>7. CASE k > 0
  <2>1. sent # <<>> /\ sent[Len(sent)] = p[k] /\ s[b + k] = p[k] /\ b + k \in 1..Len(s)
    BY <1>1, <1>2, <1>4, <1>7
  <2>2. p[k].part = 1 <=> ((b + k) % 2) = 1
    BY <1>2, <1>5, <2>1, FramedParts
  <2>3. CASE p[k].part = 1
    <3>1. r.begun = <<p[k]>>
      BY <1>1, <2>1, <2>3 DEF OpenAfter
    <3>2. Len(r.begun) = 1 /\ r.begun[1] = p[k]
      BY <3>1
    <3>3. (((b + k) - 1) % 2) = 0 /\ (b + k) - 1 \in 0..Len(s)
      <4> DEFINE x == b + k
      <4>1. (x % 2) = 1
        BY <2>2, <2>3
      <4>2. x \in 1..Len(s) /\ Len(s) \in Nat
        BY <1>9, <2>1
      <4> HIDE DEF x
      <4>3. ((x - 1) % 2) = 0 /\ x - 1 \in 0..Len(s)
        BY <4>1, <4>2
      <4>4. QED
        BY <4>3 DEF x
    <3>4. Len(t) = Len(s) - ((b + k) - 1)
      BY <1>9, <1>10, <3>2
    <3>5. ASSUME NEW i \in 1..Len(t)
          PROVE  t[i] = s[i + ((b + k) - 1)]
      <4>1. CASE i = 1
        BY <1>1, <1>3, <2>1, <3>2, <4>1
      <4>2. CASE i # 1
        <5>1. i - 1 \in 1..Len(p) - k /\ 1 + (i - 1) = i
          BY <1>1, <1>2, <3>4, <4>2
        <5>2. t[i] = Waiting(r)[i - 1]
          BY <1>3, <1>4, <3>2, <5>1
        <5>3. Waiting(r)[i - 1] = p[(i - 1) + k]
          BY <1>4, <5>1
        <5>4. (i - 1) + k \in 1..Len(p) /\ b + ((i - 1) + k) = i + ((b + k) - 1)
          BY <1>1, <5>1
        <5>5. QED
          BY <1>2, <5>2, <5>3, <5>4
      <4>3. QED
        BY <4>1, <4>2
    <3>6. Framed(t)
      BY <1>2, <1>3, <1>5, <3>3, <3>4, <3>5, FramedRest
    <3>7. QED
      BY <3>6 DEF t, r
  <2>4. CASE p[k].part # 1
    <3>1. r.begun = <<>> /\ Len(r.begun) = 0
      BY <1>1, <2>1, <2>4 DEF OpenAfter
    <3>2. ((b + k) % 2) = 0 /\ b + k \in 0..Len(s)
      BY <1>1, <1>2, <2>1, <2>2, <2>4
    <3>3. Len(t) = Len(s) - (b + k)
      BY <1>1, <1>2, <1>3, <1>4, <3>1
    <3>4. ASSUME NEW i \in 1..Len(t)
          PROVE  t[i] = s[i + (b + k)]
      <4>1. i \in 1..Len(p) - k /\ 0 + i = i
        BY <1>1, <1>2, <3>3
      <4>2. t[i] = Waiting(r)[i] /\ Waiting(r)[i] = p[i + k]
        BY <1>3, <1>4, <3>1, <4>1
      <4>3. i + k \in 1..Len(p) /\ b + (i + k) = i + (b + k)
        BY <1>1, <4>1
      <4>4. QED
        BY <1>2, <4>2, <4>3
    <3>5. Framed(t)
      BY <1>2, <1>3, <1>5, <3>2, <3>3, <3>4, FramedRest
    <3>6. QED
      BY <3>5 DEF t, r
  <2>5. QED
    BY <2>3, <2>4
<1>11. QED
  BY <1>1, <1>6, <1>7

(* The units on their way through TinyUSB and tx_.                         *)
Way(q) == q.fifo \o Waiting(q)

(* service_tx() neither drops nor reorders a unit.                         *)
LEMMA ServiceTxWay ==
  ASSUME NEW q, QueueFits(q)
  PROVE  Way(ServiceTx(q)) = Way(q)
<1> DEFINE p == Waiting(q)
           k == Taken(q)
           a == SubSeq(p, 1, k)
           b == SubSeq(p, k + 1, Len(p))
<1>1. p \in Seq(Units) /\ k \in 0..Len(p) /\ q.fifo \in Seq(Units)
  BY WaitingTyped, ServiceTxFacts
<1>2. ServiceTx(q).fifo = q.fifo \o a /\ Waiting(ServiceTx(q)) = b
  BY ServiceTxFacts
<1> HIDE DEF p, k
<1>3. /\ a \in Seq(Units) /\ Len(a) = k
      /\ b \in Seq(Units) /\ Len(b) = Len(p) - k
      /\ \A i \in 1..k : a[i] = p[i]
      /\ \A i \in 1..Len(p) - k : b[i] = p[i + k]
  BY <1>1, SplitSeq
<1> HIDE DEF a, b
<1>8. a \in Seq(Units) /\ b \in Seq(Units) /\ q.fifo \in Seq(Units)
  BY <1>1, <1>3
<1>4. a \o b \in Seq(Units) /\ Len(a \o b) = Len(p)
      /\ \A i \in 1..Len(p) : (a \o b)[i] = p[i]
  <2>1. /\ a \o b \in Seq(Units) /\ Len(a \o b) = Len(a) + Len(b)
        /\ \A i \in 1..Len(a) + Len(b) :
             (a \o b)[i] = IF i <= Len(a) THEN a[i] ELSE b[i - Len(a)]
    BY <1>8, JoinSeq
  <2> DEFINE c == a \o b
  <2>2. c \in Seq(Units) /\ Len(c) = Len(a) + Len(b)
        /\ \A i \in 1..Len(a) + Len(b) :
             c[i] = IF i <= Len(a) THEN a[i] ELSE b[i - Len(a)]
    BY <2>1
  <2> HIDE DEF c
  <2>3. Len(c) = Len(p) /\ Len(a) + Len(b) = Len(p)
    BY <1>1, <1>3, <2>2
  <2>4. ASSUME NEW i \in 1..Len(p)
        PROVE  c[i] = p[i]
    <3>1. CASE i <= k
      BY <1>1, <1>3, <2>2, <2>3, <3>1
    <3>2. CASE i > k
      <4>1. i - k \in 1..Len(p) - k /\ (i - k) + k = i
        BY <1>1, <3>2
      <4>2. c[i] = b[i - k]
        BY <1>1, <1>3, <2>2, <2>3, <3>2
      <4>3. QED
        BY <1>3, <4>1, <4>2
    <3>3. QED
      BY <1>1, <3>1, <3>2
  <2>5. QED
    BY <2>2, <2>3, <2>4 DEF c
<1>5. a \o b = p
  BY <1>1, <1>4, SameSeq
<1>6. (q.fifo \o a) \o b = q.fifo \o (a \o b)
  <2> DEFINE f == q.fifo
  <2>1. f \in Seq(Units) /\ a \in Seq(Units) /\ b \in Seq(Units)
    BY <1>8
  <2> HIDE DEF f
  <2>2. (f \o a) \o b = f \o (a \o b)
    BY <2>1, ConcatAssociative
  <2>3. QED
    BY <2>2 DEF f
<1>7. QED
  BY <1>2, <1>5, <1>6 DEF Way, p

(* Moving what waits to the front of tx_ changes nothing of it.            *)
LEMMA CompactedFacts ==
  ASSUME NEW q, QueueFits(q)
  PROVE  /\ QueueFits(Compacted(q)) /\ Compacted(q) \in Queues
         /\ Compacted(q).fifo = q.fifo /\ Compacted(q).begun = q.begun
         /\ Waiting(Compacted(q)) = Waiting(q)
         /\ Len(Compacted(q).tx) <= Len(q.tx) /\ Len(Compacted(q).tx) \in Nat
         /\ Len(q.tx) <= TxSize - 2 => Fits(q)
<1>1. /\ q.tx \in Seq(Units) /\ q.offset \in 0..Len(q.tx) /\ Len(q.tx) \in Nat
      /\ q.fifo \in Seq(Units) /\ q.begun \in Seq(Units)
      /\ Waiting(q) \in Seq(Units) /\ Len(Waiting(q)) = Len(q.tx) - q.offset
  BY WaitingTyped
<1>2. q \in Queues /\ Len(q.tx) <= TxSize /\ Len(q.fifo) <= TxFifo /\ Len(q.begun) <= 1
  BY DEF QueueFits
<1>3. CASE Compacted(q) = q
  <2>1. Len(q.tx) <= TxSize - 2 => Fits(q)
    BY <1>1, <1>3, SizesTyped DEF Fits
  <2>2. QED
    BY <1>1, <1>2, <1>3, <2>1
<1>4. CASE Compacted(q) = Moved(q)
  <2> DEFINE r == Moved(q)
             w == Waiting(q)
  <2>1. r = [q EXCEPT !.tx = w, !.offset = 0]
    BY DEF Moved, Waiting
  <2> HIDE DEF r, w
  <2>2. r.tx = w /\ r.offset = 0 /\ r.fifo = q.fifo /\ r.begun = q.begun
    BY <1>2, <2>1 DEF Queues
  <2>3. r \in Queues
    BY <1>1, <1>2, <2>1 DEF Queues, w
  <2>4. Len(r.tx) <= Len(q.tx) /\ Len(r.tx) \in Nat /\ r.offset <= Len(r.tx)
    BY <1>1, <2>2 DEF w
  <2>5. Waiting(r) = w
    <3>1. Waiting(r) = SubSeq(w, 0 + 1, Len(w))
      BY <2>2 DEF Waiting
    <3>2. SubSeq(w, 1, Len(w)) = w
      BY <1>1, SubSeqFull DEF w
    <3>3. QED
      BY <3>1, <3>2
  <2>6. QueueFits(r)
    BY <1>1, <1>2, <2>2, <2>3, <2>4, SizesTyped DEF QueueFits
  <2>7. Len(q.tx) <= TxSize - 2 => Fits(q)
    BY <1>1, <1>4, <2>4, SizesTyped DEF Fits, r
  <2>8. QED
    BY <1>4, <2>2, <2>3, <2>4, <2>5, <2>6, <2>7 DEF r, w
<1>5. QED
  BY <1>3, <1>4 DEF Compacted

(* A line is queued whole behind everything else, or not at all.           *)
LEMMA WriteLineFacts ==
  ASSUME NEW q, QueueFits(q), NEW m \in Answers \union {Event}
  PROVE  /\ QueueFits(WriteLine(q, m))
         /\ Framed(Stream(q)) => Framed(Stream(WriteLine(q, m)))
         /\ Way(WriteLine(q, m)) = IF Fits(q) THEN Way(q) \o Line(m) ELSE Way(q)
         /\ Len(WriteLine(q, m).tx) <= Len(q.tx) + 2
<1> DEFINE c == Compacted(q)
           l == Line(m)
           d == [c EXCEPT !.tx = @ \o l]
<1>1. /\ QueueFits(c) /\ c \in Queues /\ c.fifo = q.fifo /\ c.begun = q.begun
      /\ Waiting(c) = Waiting(q) /\ Len(c.tx) <= Len(q.tx) /\ Len(c.tx) \in Nat
      /\ Fits(q) <=> TxSize - Len(c.tx) >= 2
  BY CompactedFacts DEF Fits
<1>2. l \in Seq(Units) /\ Len(l) = 2
  BY LineTyped
<1>3. Stream(c) = Stream(q) /\ Way(c) = Way(q)
  BY <1>1 DEF Stream, Way
<1>4. WriteLine(q, m) = IF Fits(q) THEN ServiceTx(d) ELSE c
  BY DEF WriteLine
<1>5. q.tx \in Seq(Units) /\ Len(q.tx) \in Nat
  BY WaitingTyped
<1> HIDE DEF c, l
<1>6. /\ c.tx \in Seq(Units) /\ c.offset \in 0..Len(c.tx)
      /\ c.fifo \in Seq(Units) /\ c.begun \in Seq(Units)
      /\ Waiting(c) \in Seq(Units) /\ Len(Waiting(c)) = Len(c.tx) - c.offset
      /\ \A i \in 1..Len(c.tx) - c.offset : Waiting(c)[i] = c.tx[i + c.offset]
      /\ Len(c.tx) <= TxSize /\ Len(c.fifo) <= TxFifo /\ Len(c.begun) <= 1
  <2>1. Len(c.tx) <= TxSize /\ Len(c.fifo) <= TxFifo /\ Len(c.begun) <= 1
    BY <1>1 DEF QueueFits
  <2>2. QED
    BY <1>1, <2>1, WaitingTyped
<1>7. CASE ~Fits(q)
  BY <1>1, <1>3, <1>4, <1>5, <1>7
<1>8. CASE Fits(q)
  <2>1. d.tx = c.tx \o l /\ d.offset = c.offset /\ d.fifo = c.fifo /\ d.begun = c.begun
    BY <1>1 DEF Queues
  <2>2. c.tx \in Seq(Units) /\ l \in Seq(Units) /\ Len(l) \in Nat
    BY <1>2, <1>6
  <2>3. /\ d.tx \in Seq(Units) /\ Len(d.tx) = Len(c.tx) + Len(l)
        /\ \A i \in 1..Len(c.tx) + Len(l) :
             d.tx[i] = IF i <= Len(c.tx) THEN c.tx[i] ELSE l[i - Len(c.tx)]
    BY <2>1, <2>2, JoinSeq
  <2>4. d \in Queues
    BY <1>1, <2>1, <2>3 DEF Queues
  <2> HIDE DEF d
  <2>5. Len(d.tx) = Len(c.tx) + 2 /\ Len(d.tx) <= Len(q.tx) + 2
    BY <1>1, <1>2, <1>5, <2>3
  <2>6. QueueFits(d)
    BY <1>1, <1>6, <1>8, <2>1, <2>4, <2>5, SizesTyped DEF QueueFits
  <2>7. Waiting(d) = Waiting(c) \o l
    <3> DEFINE e == Waiting(c) \o l
               w == Waiting(c)
               n == Len(l)
    <3>1. w \in Seq(Units)
      BY <1>6
    <3>2. /\ e \in Seq(Units) /\ Len(e) = Len(w) + n
          /\ \A i \in 1..Len(w) + n : e[i] = IF i <= Len(w) THEN w[i] ELSE l[i - Len(w)]
      BY <2>2, <3>1, JoinSeq
    <3>3. /\ Waiting(d) \in Seq(Units) /\ Len(Waiting(d)) = Len(d.tx) - d.offset
          /\ \A i \in 1..Len(d.tx) - d.offset : Waiting(d)[i] = d.tx[i + d.offset]
      BY <2>6, WaitingTyped
    <3>4. /\ Len(w) = Len(c.tx) - c.offset /\ c.offset \in 0..Len(c.tx) /\ n \in Nat
          /\ \A i \in 1..Len(c.tx) - c.offset : w[i] = c.tx[i + c.offset]
          /\ d.offset = c.offset /\ Len(d.tx) = Len(c.tx) + n /\ Len(c.tx) \in Nat
          /\ \A i \in 1..Len(c.tx) + n :
               d.tx[i] = IF i <= Len(c.tx) THEN c.tx[i] ELSE l[i - Len(c.tx)]
      BY <1>1, <1>6, <2>1, <2>2, <2>3
    <3> HIDE DEF e, w, n
    <3> DEFINE x == Len(c.tx)
               o == c.offset
               v == Len(w)
    <3>9. /\ v = x - o /\ o \in 0..x /\ x \in Nat /\ n \in Nat /\ v \in Nat
          /\ Len(e) = v + n
      BY <3>2, <3>4
    <3> HIDE DEF x, o, v
    <3>5. Len(Waiting(d)) = Len(e)
      BY <3>2, <3>3, <3>4
    <3>6. ASSUME NEW i \in 1..Len(e)
          PROVE  Waiting(d)[i] = e[i]
      <4>1. i + o \in 1..x + n /\ i \in 1..v + n /\ i \in Nat
        BY <3>6, <3>9
      <4>2. /\ Waiting(d)[i] = d.tx[i + o]
            /\ e[i] = IF i <= v THEN w[i] ELSE l[i - v]
            /\ d.tx[i + o] = IF i + o <= x THEN c.tx[i + o] ELSE l[(i + o) - x]
        <5>1. i \in 1..Len(e) /\ i \in 1..Len(w) + n /\ i + c.offset \in 1..Len(c.tx) + n
          BY <3>6, <4>1 DEF v, x, o
        <5>2. Waiting(d)[i] = d.tx[i + c.offset]
          BY <3>3, <3>4, <3>5, <5>1
        <5>3. e[i] = IF i <= Len(w) THEN w[i] ELSE l[i - Len(w)]
          BY <3>2, <5>1
        <5>4. d.tx[i + c.offset] = IF i + c.offset <= Len(c.tx) THEN c.tx[i + c.offset]
                                   ELSE l[(i + c.offset) - Len(c.tx)]
          BY <3>4, <5>1
        <5>5. QED
          BY <5>2, <5>3, <5>4 DEF v, x, o
      <4>3. CASE i <= v
        <5>1. i + o <= x /\ i \in 1..x - o
          BY <3>9, <4>1, <4>3
        <5>2. w[i] = c.tx[i + o]
          BY <3>4, <5>1 DEF x, o
        <5>3. QED
          BY <4>2, <4>3, <5>1, <5>2
      <4>4. CASE ~(i <= v)
        <5>1. ~(i + o <= x) /\ i - v = (i + o) - x
          BY <3>9, <4>1, <4>4
        <5>2. QED
          BY <4>2, <4>4, <5>1
      <4>5. QED
        BY <4>3, <4>4
    <3>7. Waiting(d) = e
      BY <3>2, <3>3, <3>5, <3>6, SameSeq
    <3>8. QED
      BY <3>7 DEF e
  <2>8. Way(d) = Way(q) \o l
    <3> DEFINE f == c.fifo
               w == Waiting(c)
    <3>1. f \in Seq(Units) /\ w \in Seq(Units) /\ l \in Seq(Units)
      BY <1>2, <1>6
    <3>2. Way(d) = f \o (w \o l) /\ Way(c) = f \o w
      BY <2>1, <2>7 DEF Way
    <3> HIDE DEF f, w
    <3>3. (f \o w) \o l = f \o (w \o l)
      BY <3>1, ConcatAssociative
    <3>4. QED
      BY <1>3, <3>2, <3>3
  <2>9. ASSUME Framed(Stream(q))
        PROVE  Framed(Stream(d))
    <3> DEFINE b == c.begun
               w == Waiting(c)
               s == b \o w
    <3>1. b \in Seq(Units) /\ w \in Seq(Units) /\ l \in Seq(Units)
      BY <1>2, <1>6
    <3>2. Stream(d) = b \o (w \o l) /\ Stream(q) = b \o w
      BY <1>3, <2>1, <2>7 DEF Stream
    <3> HIDE DEF b, w
    <3>3. (b \o w) \o l = b \o (w \o l)
      BY <3>1, ConcatAssociative
    <3>4. s \in Seq(Units)
      BY <3>1
    <3>5. Framed(s) /\ Stream(d) = s \o l
      BY <2>9, <3>2, <3>3
    <3> HIDE DEF s
    <3>6. QED
      BY <3>4, <3>5, FramedJoin DEF l
  <2>10. WriteLine(q, m) = ServiceTx(d)
    BY <1>4, <1>8 DEF d
  <2>11. QueueFits(ServiceTx(d)) /\ Len(ServiceTx(d).tx) <= Len(d.tx)
         /\ Len(ServiceTx(d).tx) \in Nat
    BY <2>6, ServiceTxFacts, WaitingTyped
  <2>12. Way(ServiceTx(d)) = Way(q) \o l
    BY <2>6, <2>8, ServiceTxWay
  <2>13. Framed(Stream(q)) => Framed(Stream(ServiceTx(d)))
    BY <2>6, <2>9, ServiceTxFrames
  <2>14. Len(ServiceTx(d).tx) <= Len(q.tx) + 2
    BY <1>5, <2>5, <2>11
  <2>15. QED
    BY <1>8, <2>10, <2>11, <2>12, <2>13, <2>14 DEF l
<1>9. QED
  BY <1>7, <1>8
-----------------------------------------------------------------------------
(* The types, by the parts that change together.                           *)
HostTyped ==
  /\ port \in BOOLEAN /\ suspended \in BOOLEAN
  /\ kinds \in Seq(Kinds) /\ rest \in Seq(Bytes)
  /\ half \in Seq(Units) /\ Len(half) <= 1
  /\ answer \in Seq(Units) /\ Len(answer) <= 1
  /\ rx \in Seq(Bytes) /\ Len(rx) <= RxFifo

PassTyped ==
  /\ pc \in {"loop", "read"} /\ processed \in 0..MaxBytes
  /\ active \in BOOLEAN /\ short \in BOOLEAN

InputTyped ==
  /\ input \in Seq(Bytes) /\ Len(input) <= InputSize
  /\ overflow \in BOOLEAN

ConfigTyped ==
  /\ mapping \in Nat /\ stored \in Nat
  /\ emitted \in 0..MaxEmits /\ losses \in 0..MaxLosses
  /\ cut \subseteq Ids /\ lost \subseteq Ids

Typed == HostTyped /\ PassTyped /\ InputTyped /\ ConfigTyped /\ QueueFits(Queue)

(* The type invariant is these parts.                                      *)
LEMMA TypeParts == TypeOK <=> Typed
<1>1. QueueFits(Queue) <=>
        /\ fifo \in Seq(Units) /\ Len(fifo) <= TxFifo
        /\ tx \in Seq(Units) /\ Len(tx) <= TxSize /\ tx_offset \in 0..Len(tx)
        /\ begun \in Seq(Units) /\ Len(begun) <= 1
  <2>1. /\ Queue.tx = tx /\ Queue.offset = tx_offset
        /\ Queue.fifo = fifo /\ Queue.begun = begun
    BY DEF Queue
  <2>2. Queue \in Queues <=> /\ tx \in Seq(Units) /\ tx_offset \in Nat
                             /\ fifo \in Seq(Units) /\ begun \in Seq(Units)
    BY DEF Queues, Queue
  <2>3. QED
    BY <2>1, <2>2 DEF QueueFits
<1>2. QED
  BY <1>1 DEF TypeOK, Typed, HostTyped, PassTyped, InputTyped, ConfigTyped

(* So it is after a step.                                                  *)
LEMMA TypePartsNext == TypeOK' <=> Typed'
<1>1. QueueFits(Queue') <=>
        /\ fifo' \in Seq(Units) /\ Len(fifo') <= TxFifo
        /\ tx' \in Seq(Units) /\ Len(tx') <= TxSize /\ tx_offset' \in 0..Len(tx')
        /\ begun' \in Seq(Units) /\ Len(begun') <= 1
  <2>1. /\ Queue'.tx = tx' /\ Queue'.offset = tx_offset'
        /\ Queue'.fifo = fifo' /\ Queue'.begun = begun'
    BY DEF Queue
  <2>2. Queue' \in Queues <=> /\ tx' \in Seq(Units) /\ tx_offset' \in Nat
                              /\ fifo' \in Seq(Units) /\ begun' \in Seq(Units)
    BY DEF Queues, Queue
  <2>3. QED
    BY <2>1, <2>2 DEF QueueFits
<1>2. QED
  BY <1>1 DEF TypeOK, Typed, HostTyped, PassTyped, InputTyped, ConfigTyped

(* The step of a queue operator is a step of the variables.                *)
LEMMA QueueStep ==
  ASSUME NEW r, QueueFits(r), SetQueue(r)
  PROVE  Queue' = r /\ QueueFits(Queue')
<1>1. r = [tx |-> r.tx, offset |-> r.offset, fifo |-> r.fifo, begun |-> r.begun]
  BY DEF QueueFits, Queues
<1>2. QED
  BY <1>1 DEF SetQueue, Queue

(* A step of other variables is none of the queue.                         *)
LEMMA SameQueue ==
  ASSUME UNCHANGED sendVars
  PROVE  Queue' = Queue
  BY DEF Queue, sendVars

(* Answering a line writes one line.                                       *)
LEMMA RespondTyped ==
  ASSUME NEW q, QueueFits(q), NEW n \in Ids, NEW status \in Statuses,
         NEW current \in Nat, lost \subseteq Ids, Respond(q, n, status, current)
  PROVE  /\ Queue' = WriteLine(q, [to |-> n, status |-> status, mapping |-> current])
         /\ QueueFits(Queue') /\ lost' \subseteq Ids
<1> DEFINE a == [to |-> n, status |-> status, mapping |-> current]
<1>1. a \in Answers
  BY DEF Answers
<1>2. SetQueue(WriteLine(q, a)) /\ lost' \subseteq Ids
  BY DEF Respond
<1> HIDE DEF a
<1>3. QueueFits(WriteLine(q, a))
  BY <1>1, WriteLineFacts
<1>4. QED
  BY <1>2, <1>3, QueueStep DEF a

(* The command that is found is one of a line the host began.              *)
LEMMA CommandTyped ==
  ASSUME InputTyped, Once("command")
  PROVE  /\ CommandLine \in Ids
         /\ \E i \in 1..Len(input) :
              Text(input[i]) = "command" /\ CommandLine = input[i].line
<1> DEFINE Is(i) == i \in 1..Len(input) /\ Text(input[i]) = "command"
           c == CHOOSE i \in 1..Len(input) : Text(input[i]) = "command"
<1>1. \E i \in 1..Len(input) : Text(input[i]) = "command"
  BY DEF Once
<1>2. c \in 1..Len(input) /\ Text(input[c]) = "command"
  BY <1>1
<1>3. CommandLine = input[c].line
  BY DEF CommandLine
<1> HIDE DEF c
<1>4. input[c] \in Bytes
  BY <1>2 DEF InputTyped
<1>5. QED
  BY <1>2, <1>3, <1>4 DEF Bytes

(* Any answered line: how the queue, the mapping and the losses change.    *)
LEMMA HandleLineTyped ==
  ASSUME InputTyped, ConfigTyped, QueueFits(Queue), NEW n \in Ids, HandleLine(n)
  PROVE  /\ \E q \in {Queue, WriteLine(Queue, Event)}, status \in Statuses :
              Respond(q, n, status, mapping')
         /\ mapping' \in Nat /\ stored' \in Nat
         /\ \/ UNCHANGED configVars
            \/ /\ Command /\ CommandKind \in {"set", "long", "control"}
               /\ mapping' = CommandLine /\ stored' = CommandLine
<1>0. mapping \in Nat /\ stored \in Nat
  BY DEF ConfigTyped
<1>1. CASE UnsupportedProtocol(n)
  BY <1>0, <1>1 DEF UnsupportedProtocol, configVars, Statuses
<1>2. CASE InvalidRequest(n)
  BY <1>0, <1>2 DEF InvalidRequest, configVars, Statuses
<1>3. CASE Get(n)
  BY <1>0, <1>3 DEF Get, configVars, Statuses
<1>4. CASE Reject(n)
  BY <1>0, <1>4 DEF Reject, configVars, Statuses
<1>5. CASE SetConfig(n)
  <2>1. CommandLine \in Nat
    BY <1>5, CommandTyped DEF SetConfig, Command, Ids
  <2>2. CASE stored' = CommandLine /\ mapping' = CommandLine
             /\ Respond(Queue, n, "ok", CommandLine)
    BY <1>5, <2>1, <2>2 DEF SetConfig, Statuses
  <2>3. CASE NotStored /\ Respond(Queue, n, "store_failed", mapping)
    BY <1>0, <2>3 DEF NotStored, configVars, Statuses
  <2>4. QED
    BY <1>5, <2>2, <2>3 DEF SetConfig
<1>6. CASE PairingCommand(n)
  BY <1>0, <1>6 DEF PairingCommand, configVars, Statuses
<1>7. QED
  BY <1>1, <1>2, <1>3, <1>4, <1>5, <1>6 DEF HandleLine

(* The byte read next.                                                     *)
LEMMA HeadTyped ==
  ASSUME HostTyped, rx # <<>>
  PROVE  /\ Head(rx) \in Bytes /\ Head(rx) = rx[1]
         /\ Head(rx).line \in Ids /\ Head(rx).at \in Ids
         /\ Tail(rx) \in Seq(Bytes) /\ Len(Tail(rx)) = Len(rx) - 1
<1>1. rx \in Seq(Bytes)
  BY DEF HostTyped
<1>2. Head(rx) \in Bytes /\ Head(rx) = rx[1]
      /\ Tail(rx) \in Seq(Bytes) /\ Len(Tail(rx)) = Len(rx) - 1
  BY <1>1, TailSeq
<1>3. Head(rx).line \in Ids /\ Head(rx).at \in Ids
  BY <1>2 DEF Bytes
<1>4. QED
  BY <1>2, <1>3

(* The end of a line is answered once, or was of an empty line.            *)
LEMMA ReadLFStep ==
  ASSUME TypeOK, ReadLF
  PROVE  /\ mapping' \in Nat /\ stored' \in Nat
         /\ \/ UNCHANGED <<sendVars, lost, configVars>>
            \/ \E q \in {Queue, WriteLine(Queue, Event)}, status \in Statuses :
                 Respond(q, Head(rx).line, status, mapping')
<1>1. HostTyped /\ InputTyped /\ ConfigTyped /\ QueueFits(Queue)
  BY TypeParts DEF Typed
<1>2. Head(rx).line \in Ids /\ mapping \in Nat /\ stored \in Nat
  BY <1>1, HeadTyped DEF ReadLF, NextByte, Reading, ConfigTyped
<1>3. CASE overflow /\ Respond(Queue, Head(rx).line, "frame_too_large", mapping)
           /\ UNCHANGED configVars
  BY <1>2, <1>3 DEF configVars, Statuses
<1>4. CASE ~overflow /\ input = <<>> /\ UNCHANGED <<sendVars, configVars, lost>>
  BY <1>2, <1>4 DEF configVars
<1>5. CASE ~overflow /\ input # <<>> /\ HandleLine(Head(rx).line)
  BY <1>1, <1>2, <1>5, HandleLineTyped
<1>6. QED
  BY <1>3, <1>4, <1>5 DEF ReadLF

(* What it does to the queue.                                              *)
LEMMA ReadLFQueue ==
  ASSUME TypeOK, ReadLF
  PROVE  /\ QueueFits(Queue') /\ lost' \subseteq Ids
         /\ \/ Queue' = Queue /\ lost' = lost
            \/ \E q \in {Queue, WriteLine(Queue, Event)}, status \in Statuses :
                 /\ QueueFits(q)
                 /\ Respond(q, Head(rx).line, status, mapping')
                 /\ Queue' = WriteLine(q, [to |-> Head(rx).line, status |-> status,
                                           mapping |-> mapping'])
<1>1. HostTyped /\ InputTyped /\ ConfigTyped /\ QueueFits(Queue)
  BY TypeParts DEF Typed
<1>2. Head(rx).line \in Ids /\ mapping' \in Nat /\ lost \subseteq Ids
  BY <1>1, HeadTyped, ReadLFStep DEF ReadLF, NextByte, Reading, ConfigTyped
<1>3. CASE UNCHANGED <<sendVars, lost, configVars>>
  BY <1>1, <1>2, <1>3, SameQueue
<1>4. ASSUME NEW q \in {Queue, WriteLine(Queue, Event)}, NEW status \in Statuses,
             Respond(q, Head(rx).line, status, mapping')
      PROVE  /\ QueueFits(q) /\ QueueFits(Queue') /\ lost' \subseteq Ids
             /\ Queue' = WriteLine(q, [to |-> Head(rx).line, status |-> status,
                                       mapping |-> mapping'])
  <2>1. QueueFits(q)
    BY <1>1, WriteLineFacts
  <2>2. QED
    BY <1>2, <1>4, <2>1, RespondTyped
<1>5. QED
  BY <1>3, <1>4, ReadLFStep

(* The empty sequence has any type and bound.                              *)
LEMMA EmptyTyped ==
  ASSUME NEW S, NEW n \in Nat, NEW s, s = <<>>
  PROVE  s \in Seq(S) /\ Len(s) <= n /\ Len(s) = 0
  OBVIOUS

(* A cleared line buffer is typed.                                         *)
LEMMA ClearedInput ==
  ASSUME ClearInput
  PROVE  InputTyped'
<1>1. input' = <<>> /\ overflow' = FALSE
  BY DEF ClearInput
<1>2. input' \in Seq(Bytes) /\ Len(input') <= InputSize
  BY <1>1, SizesTyped, EmptyTyped
<1>3. QED
  BY <1>1, <1>2 DEF InputTyped

(* The types hold at boot.                                                 *)
LEMMA TypeInit == Init => TypeOK
<1> SUFFICES ASSUME Init PROVE TypeOK
  OBVIOUS
<1>1. HostTyped
  <2>1. kinds \in Seq(Kinds) /\ rest \in Seq(Bytes)
    BY EmptyTyped DEF Init
  <2>2. half \in Seq(Units) /\ Len(half) <= 1 /\ answer \in Seq(Units) /\ Len(answer) <= 1
    BY EmptyTyped DEF Init
  <2>3. rx \in Seq(Bytes) /\ Len(rx) <= RxFifo
    BY EmptyTyped, SizesTyped DEF Init
  <2>4. QED
    BY <2>1, <2>2, <2>3 DEF Init, HostTyped
<1>2. PassTyped /\ InputTyped /\ ConfigTyped
  <2>1. input \in Seq(Bytes) /\ Len(input) <= InputSize
    BY EmptyTyped, SizesTyped DEF Init
  <2>2. PassTyped
    <3>1. pc = "loop" /\ processed = 0 /\ active = FALSE /\ short = FALSE
      BY DEF Init
    <3>2. 0 \in 0..MaxBytes
      BY SizesTyped
    <3>3. QED
      BY <3>1, <3>2 DEF PassTyped
  <2>3. ConfigTyped
    <3>1. 0 \in 0..MaxEmits /\ 0 \in 0..MaxLosses
      BY SizesTyped
    <3>2. mapping = 0 /\ stored = 0 /\ emitted = 0 /\ losses = 0 /\ cut = {} /\ lost = {}
      BY DEF Init
    <3>3. QED
      BY <3>1, <3>2 DEF ConfigTyped
  <2>4. QED
    BY <2>1, <2>2, <2>3 DEF Init, InputTyped
<1>3. QueueFits(Queue)
  BY SizesTyped DEF Init, QueueFits, Queue, Queues
<1>4. QED
  BY <1>1, <1>2, <1>3, TypeParts DEF Typed

(* Every action keeps every type and bound.                                *)
LEMMA TypeStep == TypeOK /\ [Next]_vars => TypeOK'
<1> SUFFICES ASSUME TypeOK, [Next]_vars PROVE TypeOK'
  OBVIOUS
<1>0. HostTyped /\ PassTyped /\ InputTyped /\ ConfigTyped /\ QueueFits(Queue)
  BY TypeParts DEF Typed
<1> USE SizesTyped
<1>1. ASSUME Disconnected PROVE TypeOK'
  <2>1. HostTyped'
    BY <1>0, <1>1 DEF Disconnected, HostTyped, hostVars
  <2>2. cut' \subseteq Ids
    <3>1. \A i \in 1..Len(input) : input[i].line \in Ids
      <4>1. \A i \in 1..Len(input) : input[i] \in Bytes
        BY <1>0 DEF InputTyped
      <4>2. QED
        BY <4>1 DEF Bytes
    <3>2. cut \subseteq Ids /\ cut' = cut \union {byte.line : byte \in {input[i] : i \in 1..Len(input)}}
      BY <1>0, <1>1 DEF Disconnected, ConfigTyped
    <3>3. QED
      BY <3>1, <3>2
  <2>3. (PassTyped /\ InputTyped /\ ConfigTyped)'
    <3>1. PassTyped'
      BY <1>0, <1>1 DEF Disconnected, PassTyped, firmwareVars, Reading, NextByte
    <3>2. InputTyped'
      BY <1>1, ClearedInput DEF Disconnected
    <3>3. ConfigTyped'
      BY <1>0, <2>2, <1>1 DEF Disconnected, ConfigTyped, firmwareVars, configVars, boundVars
    <3>4. QED
      BY <3>1, <3>2, <3>3
  <2>4. QueueFits(Queue')
    <3>1. Queue' = [tx |-> <<>>, offset |-> 0, fifo |-> fifo, begun |-> <<>>]
      BY <1>1 DEF Disconnected, Queue
    <3>2. Queue.fifo = fifo /\ fifo \in Seq(Units) /\ Len(fifo) <= TxFifo
      BY <1>0 DEF QueueFits, Queues, Queue
    <3>3. QED
      BY <3>1, <3>2 DEF QueueFits, Queues
  <2>5. QED
    BY <2>1, <2>3, <2>4, TypePartsNext DEF Typed
<1>2. ASSUME BeginPass PROVE TypeOK'
  <2>1. HostTyped'
    BY <1>0, <1>2 DEF BeginPass, HostTyped, hostVars
  <2>2. (PassTyped /\ InputTyped /\ ConfigTyped)'
    <3>1. PassTyped'
      BY <1>0, <1>2 DEF BeginPass, PassTyped, firmwareVars, Reading, NextByte
    <3>2. InputTyped'
      BY <1>0, <1>2 DEF BeginPass, InputTyped, firmwareVars, inputVars, ClearInput
    <3>3. ConfigTyped'
      BY <1>0, <1>2 DEF BeginPass, ConfigTyped, firmwareVars, configVars, boundVars
    <3>4. QED
      BY <3>1, <3>2, <3>3
  <2>3. QueueFits(Queue')
    BY <1>0, <1>2, ServiceTxFacts, QueueStep DEF BeginPass
  <2>4. QED
    BY <2>1, <2>2, <2>3, TypePartsNext DEF Typed
<1>3. ASSUME ReadLF PROVE TypeOK'
  <2>1. HostTyped'
    BY <1>0, <1>3, HeadTyped DEF ReadLF, NextByte, Reading, HostTyped, hostVars
  <2>2. (PassTyped /\ InputTyped /\ ConfigTyped)'
    <3>1. PassTyped'
      BY <1>0, <1>3 DEF ReadLF, PassTyped, firmwareVars, Reading, NextByte
    <3>2. InputTyped'
      BY <1>3, ClearedInput DEF ReadLF
    <3>3. ConfigTyped'
      <4>1. mapping' \in Nat /\ stored' \in Nat /\ lost' \subseteq Ids
        BY <1>3, ReadLFStep, ReadLFQueue
      <4>2. QED
        BY <1>0, <1>3, <4>1 DEF NextByte, ReadLF, ConfigTyped, firmwareVars, configVars, boundVars
    <3>4. QED
      BY <3>1, <3>2, <3>3
  <2>3. QueueFits(Queue')
    BY <1>3, ReadLFQueue
  <2>4. QED
    BY <2>1, <2>2, <2>3, TypePartsNext DEF Typed
<1>4. ASSUME ReadText PROVE TypeOK'
  <2>0. Head(rx) \in Bytes /\ Tail(rx) \in Seq(Bytes) /\ Len(Tail(rx)) = Len(rx) - 1
    BY <1>0, <1>4, HeadTyped DEF ReadText, NextByte, Reading
  <2>1. HostTyped'
    BY <1>0, <1>4, <2>0 DEF ReadText, NextByte, HostTyped, hostVars
  <2>2. (PassTyped /\ InputTyped /\ ConfigTyped)'
    <3>1. PassTyped'
      BY <1>0, <1>4 DEF ReadText, PassTyped, firmwareVars, Reading, NextByte
    <3>2. InputTyped'
      BY <1>0, <1>4, <2>0, SizesTyped DEF ReadText, InputTyped, Room
    <3>3. ConfigTyped'
      BY <1>0, <1>4 DEF ReadText, NextByte, ConfigTyped, firmwareVars, configVars, boundVars
    <3>4. QED
      BY <3>1, <3>2, <3>3
  <2>3. QueueFits(Queue')
    BY <1>0, <1>4, SameQueue DEF ReadText
  <2>4. QED
    BY <2>1, <2>2, <2>3, TypePartsNext DEF Typed
<1>5. ASSUME EndPass PROVE TypeOK'
  <2>1. HostTyped'
    BY <1>0, <1>5 DEF EndPass, HostTyped, hostVars
  <2>2. (PassTyped /\ InputTyped /\ ConfigTyped)'
    <3>1. PassTyped'
      <4>1. pc' = "loop" /\ processed' = 0 /\ short' = FALSE /\ active' = active
        BY <1>5 DEF EndPass
      <4>2. 0 \in 0..MaxBytes
        BY SizesTyped
      <4>3. QED
        BY <1>0, <4>1, <4>2 DEF PassTyped
    <3>2. InputTyped'
      BY <1>0, <1>5 DEF EndPass, InputTyped, firmwareVars, inputVars, ClearInput
    <3>3. ConfigTyped'
      BY <1>0, <1>5 DEF EndPass, ConfigTyped, firmwareVars, configVars, boundVars
    <3>4. QED
      BY <3>1, <3>2, <3>3
  <2>3. QueueFits(Queue')
    BY <1>0, <1>5, ServiceTxFacts, QueueStep DEF EndPass
  <2>4. QED
    BY <2>1, <2>2, <2>3, TypePartsNext DEF Typed
<1>6. ASSUME Emit PROVE TypeOK'
  <2>1. HostTyped'
    BY <1>0, <1>6 DEF Emit, HostTyped, hostVars
  <2>2. (PassTyped /\ InputTyped /\ ConfigTyped)'
    <3>1. PassTyped'
      BY <1>0, <1>6 DEF Emit, PassTyped, firmwareVars, Reading, NextByte
    <3>2. InputTyped'
      BY <1>0, <1>6 DEF Emit, InputTyped, firmwareVars, inputVars, ClearInput
    <3>3. ConfigTyped'
      BY <1>0, <1>6 DEF Emit, ConfigTyped, firmwareVars, configVars, boundVars
    <3>4. QED
      BY <3>1, <3>2, <3>3
  <2>3. QueueFits(Queue')
    BY <1>0, <1>6, WriteLineFacts, QueueStep DEF Emit
  <2>4. QED
    BY <2>1, <2>2, <2>3, TypePartsNext DEF Typed
<1>7. ASSUME NEW kind \in Kinds, BeginLine(kind) PROVE TypeOK'
  <2>1. HostTyped'
    <3>1. Len(Written(kind)) \in Nat /\ Len(kinds) + 1 \in Ids
      BY <1>0, WrittenBytes, SizesTyped DEF HostTyped, Ids
    <3>2. rest' \in Seq(Bytes)
      <4>1. \A i \in 1..Len(Written(kind)) : [line |-> Len(kinds) + 1, at |-> i] \in Bytes
        BY <3>1 DEF Bytes, Ids
      <4>2. QED
        BY <1>7, <3>1, <4>1 DEF BeginLine
    <3>3. QED
      BY <1>0, <1>7, <3>2 DEF BeginLine, HostTyped
  <2>2. (PassTyped /\ InputTyped /\ ConfigTyped)'
    <3>1. PassTyped'
      BY <1>0, <1>7 DEF BeginLine, PassTyped, firmwareVars, Reading, NextByte
    <3>2. InputTyped'
      BY <1>0, <1>7 DEF BeginLine, InputTyped, firmwareVars, inputVars, ClearInput
    <3>3. ConfigTyped'
      BY <1>0, <1>7 DEF BeginLine, ConfigTyped, firmwareVars, configVars, boundVars
    <3>4. QED
      BY <3>1, <3>2, <3>3
  <2>3. QueueFits(Queue')
    BY <1>0, <1>7 DEF BeginLine, firmwareVars, Queue
  <2>4. QED
    BY <2>1, <2>2, <2>3, TypePartsNext DEF Typed
<1>8. ASSUME WriteByte PROVE TypeOK'
  <2>1. HostTyped'
    <3>1. Head(rest) \in Bytes /\ Tail(rest) \in Seq(Bytes)
      BY <1>0, <1>8, TailSeq DEF WriteByte, HostTyped
    <3>2. QED
      BY <1>0, <1>8, <3>1 DEF WriteByte, HostTyped
  <2>2. (PassTyped /\ InputTyped /\ ConfigTyped)'
    <3>1. PassTyped'
      BY <1>0, <1>8 DEF WriteByte, PassTyped, firmwareVars, Reading, NextByte
    <3>2. InputTyped'
      BY <1>0, <1>8 DEF WriteByte, InputTyped, firmwareVars, inputVars, ClearInput
    <3>3. ConfigTyped'
      BY <1>0, <1>8 DEF WriteByte, ConfigTyped, firmwareVars, configVars, boundVars
    <3>4. QED
      BY <3>1, <3>2, <3>3
  <2>3. QueueFits(Queue')
    BY <1>0, <1>8 DEF WriteByte, firmwareVars, Queue
  <2>4. QED
    BY <2>1, <2>2, <2>3, TypePartsNext DEF Typed
<1>9. ASSUME HostReads PROVE TypeOK'
  <2>0. /\ fifo \in Seq(Units) /\ Len(fifo) <= TxFifo /\ fifo # <<>>
        /\ Head(fifo) \in Units /\ Tail(fifo) \in Seq(Units)
        /\ Len(Tail(fifo)) = Len(fifo) - 1 /\ Len(fifo) \in Nat
    <3>1. fifo \in Seq(Units) /\ Len(fifo) <= TxFifo /\ fifo # <<>>
      BY <1>0, <1>9 DEF QueueFits, Queues, Queue, HostReads
    <3>2. QED
      BY <3>1, TailSeq
  <2>1. HostTyped'
    <3>1. half' \in Seq(Units) /\ Len(half') <= 1
      BY <1>9, <2>0 DEF HostReads
    <3>2. answer' \in Seq(Units) /\ Len(answer') <= 1
      <4>1. CASE answer' = <<Head(fifo)>>
        BY <2>0, <4>1
      <4>2. CASE answer' = answer
        BY <1>0, <4>2 DEF HostTyped
      <4>3. QED
        BY <1>9, <4>1, <4>2 DEF HostReads
    <3>3. QED
      BY <1>0, <1>9, <3>1, <3>2 DEF HostReads, HostTyped
  <2>2. (PassTyped /\ InputTyped /\ ConfigTyped)'
    <3>1. PassTyped'
      BY <1>0, <1>9 DEF HostReads, PassTyped, firmwareVars, Reading, NextByte
    <3>2. InputTyped'
      BY <1>0, <1>9 DEF HostReads, InputTyped, firmwareVars, inputVars, ClearInput
    <3>3. ConfigTyped'
      BY <1>0, <1>9 DEF HostReads, ConfigTyped, firmwareVars, configVars, boundVars
    <3>4. QED
      BY <3>1, <3>2, <3>3
  <2>3. QueueFits(Queue')
    <3>1. Queue' = [tx |-> tx, offset |-> tx_offset, fifo |-> Tail(fifo), begun |-> begun]
      BY <1>9 DEF HostReads, firmwareVars, Queue
    <3>2. QED
      <4>1. /\ tx \in Seq(Units) /\ tx_offset \in Nat /\ begun \in Seq(Units)
            /\ tx_offset <= Len(tx) /\ Len(tx) <= TxSize /\ Len(begun) <= 1
        BY <1>0 DEF QueueFits, Queues, Queue
      <4>2. QED
        BY <2>0, <3>1, <4>1 DEF QueueFits, Queues
  <2>4. QED
    BY <2>1, <2>2, <2>3, TypePartsNext DEF Typed
<1>10. ASSUME OpenPort PROVE TypeOK'
  <2>1. HostTyped'
    BY <1>0, <1>10 DEF OpenPort, HostTyped
  <2>2. cut' \subseteq Ids
    <3>1. Len(kinds) + 1 \in Ids
      BY <1>0 DEF HostTyped, Ids
    <3>2. QED
      BY <1>0, <1>10, <3>1 DEF OpenPort, ConfigTyped
  <2>3. (PassTyped /\ InputTyped /\ ConfigTyped)'
    <3>1. PassTyped'
      BY <1>0, <1>10 DEF OpenPort, PassTyped, firmwareVars, Reading, NextByte
    <3>2. InputTyped'
      BY <1>0, <1>10 DEF OpenPort, InputTyped, firmwareVars, inputVars, ClearInput
    <3>3. ConfigTyped'
      BY <1>0, <2>2, <1>10 DEF OpenPort, ConfigTyped, firmwareVars, configVars, boundVars
    <3>4. QED
      BY <3>1, <3>2, <3>3
  <2>4. QueueFits(Queue')
    BY <1>0, <1>10 DEF OpenPort, firmwareVars, Queue
  <2>5. QED
    BY <2>1, <2>3, <2>4, TypePartsNext DEF Typed
<1>11. ASSUME ClosePort PROVE TypeOK'
  <2>1. HostTyped'
    <3>1. rx' \in Seq(Bytes) /\ Len(rx') <= RxFifo
      <4>1. CASE rx' = rx
        BY <1>0, <4>1 DEF HostTyped
      <4>2. CASE rx' = <<>>
        BY <4>2, EmptyTyped, SizesTyped
      <4>3. QED
        BY <1>11, <4>1, <4>2 DEF ClosePort
    <3>2. rest' \in Seq(Bytes) /\ half' \in Seq(Units) /\ answer' \in Seq(Units)
          /\ Len(half') <= 1 /\ Len(answer') <= 1
      BY <1>11, EmptyTyped DEF ClosePort
    <3>3. port' \in BOOLEAN /\ suspended' = suspended /\ kinds' = kinds
      BY <1>11 DEF ClosePort
    <3>4. QED
      BY <1>0, <3>1, <3>2, <3>3 DEF HostTyped
  <2>2. (PassTyped /\ InputTyped /\ ConfigTyped)'
    <3>1. PassTyped'
      BY <1>0, <1>11 DEF ClosePort, PassTyped, firmwareVars, Reading, NextByte
    <3>2. InputTyped'
      BY <1>0, <1>11 DEF ClosePort, InputTyped, firmwareVars, inputVars, ClearInput
    <3>3. ConfigTyped'
      BY <1>0, <1>11 DEF ClosePort, ConfigTyped, firmwareVars, configVars, boundVars
    <3>4. QED
      BY <3>1, <3>2, <3>3
  <2>3. QueueFits(Queue')
    <3>1. Queue' = [tx |-> tx, offset |-> tx_offset, fifo |-> fifo', begun |-> begun]
      BY <1>11 DEF ClosePort, firmwareVars, Queue
    <3>2. fifo' \in Seq(Units) /\ Len(fifo') <= TxFifo
      <4>1. fifo \in Seq(Units) /\ Len(fifo) <= TxFifo
        BY <1>0 DEF QueueFits, Queues, Queue
      <4>2. CASE fifo' = fifo
        BY <4>1, <4>2
      <4>3. CASE fifo' = <<>>
        BY <4>3, EmptyTyped, SizesTyped
      <4>4. QED
        BY <1>11, <4>2, <4>3 DEF ClosePort
    <3>3. QED
      BY <1>0, <3>1, <3>2 DEF QueueFits, Queues, Queue
  <2>4. QED
    BY <2>1, <2>2, <2>3, TypePartsNext DEF Typed
<1>12. ASSUME Suspend PROVE TypeOK'
  <2>1. HostTyped'
    BY <1>0, <1>12 DEF Suspend, HostTyped
  <2>2. (PassTyped /\ InputTyped /\ ConfigTyped)'
    <3>1. PassTyped'
      BY <1>0, <1>12 DEF Suspend, PassTyped, firmwareVars, Reading, NextByte
    <3>2. InputTyped'
      BY <1>0, <1>12 DEF Suspend, InputTyped, firmwareVars, inputVars, ClearInput
    <3>3. ConfigTyped'
      BY <1>0, <1>12 DEF Suspend, ConfigTyped, firmwareVars, configVars, boundVars
    <3>4. QED
      BY <3>1, <3>2, <3>3
  <2>3. QueueFits(Queue')
    BY <1>0, <1>12 DEF Suspend, firmwareVars, Queue
  <2>4. QED
    BY <2>1, <2>2, <2>3, TypePartsNext DEF Typed
<1>13. ASSUME Resume PROVE TypeOK'
  <2>1. HostTyped'
    BY <1>0, <1>13 DEF Resume, HostTyped
  <2>2. (PassTyped /\ InputTyped /\ ConfigTyped)'
    <3>1. PassTyped'
      BY <1>0, <1>13 DEF Resume, PassTyped, firmwareVars, Reading, NextByte
    <3>2. InputTyped'
      BY <1>0, <1>13 DEF Resume, InputTyped, firmwareVars, inputVars, ClearInput
    <3>3. ConfigTyped'
      BY <1>0, <1>13 DEF Resume, ConfigTyped, firmwareVars, configVars, boundVars
    <3>4. QED
      BY <3>1, <3>2, <3>3
  <2>3. QueueFits(Queue')
    BY <1>0, <1>13 DEF Resume, firmwareVars, Queue
  <2>4. QED
    BY <2>1, <2>2, <2>3, TypePartsNext DEF Typed
<1>14. CASE UNCHANGED vars
  BY <1>14 DEF TypeOK, vars, hostVars, inputVars, sendVars, configVars, boundVars
<1>15. QED
  BY <1>1, <1>2, <1>3, <1>4, <1>5, <1>6, <1>7, <1>8, <1>9, <1>10, <1>11, <1>12,
     <1>13, <1>14 DEF Next

(* Every buffer keeps its bound, whatever its size: input_ leaves room for *)
(* the terminating zero, tx_ takes whole lines only, tx_offset_ stays in   *)
(* it (config_service.cpp:145-183, 361-381).                               *)
THEOREM SetupTypeCorrect == Spec => []TypeOK
  BY TypeInit, TypeStep, PTL DEF Spec
-----------------------------------------------------------------------------
(* Framing.                                                                *)

(* What a step does to the queue.                                          *)
LEMMA QueueMoves ==
  ASSUME TypeOK, Next
  PROVE  \/ Queue' = Queue
         \/ Queue' = ServiceTx(Queue)
         \/ \E q \in {Queue, WriteLine(Queue, Event)}, m \in Answers \union {Event} :
              QueueFits(q) /\ Queue' = WriteLine(q, m)
         \/ begun' = <<>> /\ Pending' = <<>>
         \/ begun' = begun /\ Pending' = Pending
<1>0. QueueFits(Queue) /\ ConfigTyped /\ HostTyped
  BY TypeParts DEF Typed
<1>1. CASE Disconnected
  <2>1. tx' = <<>> /\ tx_offset' = 0 /\ begun' = <<>>
    BY <1>1 DEF Disconnected
  <2>2. Pending' = <<>>
    BY <2>1 DEF Pending
  <2>3. QED
    BY <2>1, <2>2
<1>2. CASE BeginPass \/ EndPass
  BY <1>0, <1>2, ServiceTxFacts, QueueStep DEF BeginPass, EndPass
<1>3. CASE ReadLF
  <2>1. CASE Queue' = Queue
    BY <2>1
  <2>2. ASSUME NEW q \in {Queue, WriteLine(Queue, Event)}, NEW status \in Statuses,
               QueueFits(q),
               Queue' = WriteLine(q, [to |-> Head(rx).line, status |-> status,
                                      mapping |-> mapping'])
        PROVE  \E m \in Answers \union {Event} : Queue' = WriteLine(q, m)
    <3>1. Head(rx).line \in Ids /\ mapping' \in Nat
      BY <1>0, <1>3, HeadTyped, ReadLFStep DEF ReadLF, NextByte, Reading
    <3>2. QED
      BY <2>2, <3>1 DEF Answers
  <2>3. QED
    BY <1>3, <2>1, <2>2, ReadLFQueue
<1>4. CASE Emit
  <2>1. Queue' = WriteLine(Queue, Event)
    BY <1>0, <1>4, WriteLineFacts, QueueStep DEF Emit
  <2>2. QED
    BY <1>0, <2>1
<1>5. CASE ReadText
  BY <1>5, SameQueue DEF ReadText
<1>6. CASE \/ \E kind \in Kinds : BeginLine(kind)
           \/ WriteByte \/ HostReads \/ OpenPort \/ ClosePort \/ Suspend \/ Resume
  <2>1. tx' = tx /\ tx_offset' = tx_offset /\ begun' = begun
    BY <1>6 DEF BeginLine, WriteByte, HostReads, OpenPort, ClosePort, Suspend, Resume,
                firmwareVars
  <2>2. QED
    BY <2>1 DEF Pending
<1>7. QED
  BY <1>1, <1>2, <1>3, <1>4, <1>5, <1>6 DEF Next

(* Nothing was queued at boot.                                             *)
LEMMA FramedInit == Init => Framed(Stream(Queue))
<1> SUFFICES ASSUME Init PROVE Framed(Stream(Queue))
  OBVIOUS
<1>1. Stream(Queue) = <<>>
  BY DEF Init, Stream, Waiting, Queue
<1>2. QED
  BY <1>1 DEF Framed

(* Every step leaves whole lines to be sent.                               *)
LEMMA FramedStep ==
  ASSUME TypeOK, Framed(Stream(Queue)), [Next]_vars
  PROVE  Framed(Stream(Queue'))
<1>0. QueueFits(Queue)
  BY TypeParts DEF Typed
<1>1. /\ Stream(Queue) = begun \o Pending /\ Stream(Queue') = begun' \o Pending'
  BY DEF Stream, Queue, Waiting, Pending
<1>2. CASE Queue' = Queue
  BY <1>2
<1>3. CASE Queue' = ServiceTx(Queue)
  BY <1>0, <1>3, ServiceTxFrames
<1>4. ASSUME NEW q \in {Queue, WriteLine(Queue, Event)}, NEW m \in Answers \union {Event},
             QueueFits(q), Queue' = WriteLine(q, m)
      PROVE  Framed(Stream(Queue'))
  <2>1. Framed(Stream(q))
    BY <1>0, WriteLineFacts
  <2>2. QED
    BY <1>4, <2>1, WriteLineFacts
<1>5. CASE begun' = <<>> /\ Pending' = <<>>
  <2>1. Stream(Queue') = <<>>
    BY <1>1, <1>5
  <2>2. QED
    BY <2>1 DEF Framed
<1>6. CASE begun' = begun /\ Pending' = Pending
  BY <1>1, <1>6
<1>7. CASE Next
  BY <1>2, <1>3, <1>4, <1>5, <1>6, <1>7, QueueMoves
<1>8. CASE UNCHANGED vars
  BY <1>2, <1>8, SameQueue DEF vars, sendVars
<1>9. QED
  BY <1>7, <1>8

(* Which is what the invariant says.                                       *)
LEMMA FramedLines ==
  ASSUME TypeOK, Framed(Stream(Queue))
  PROVE  TxIsFramed
<1> DEFINE s == begun \o Pending
<1>1. s \in Seq(Units) /\ Framed(s)
  <2>1. Stream(Queue) = s
    BY DEF Stream, Queue, Waiting, Pending
  <2>2. QueueFits(Queue)
    BY TypeParts DEF Typed
  <2>3. QED
    BY <2>1, <2>2, StreamTyped
<1> HIDE DEF s
<1>2. Len(s) % 2 = 0
  BY <1>1 DEF Framed
<1>3. ASSUME NEW i \in 1..Len(s), i % 2 = 1
      PROVE  Line(s[i].of) = SubSeq(s, i, i + 1)
  <2>1. /\ i + 1 <= Len(s)
        /\ s[i] = [of |-> s[i].of, part |-> 1]
        /\ s[i + 1] = [of |-> s[i].of, part |-> 2]
    BY <1>1, <1>3 DEF Framed
  <2>2. SubSeq(s, i, i + 1) = <<s[i], s[i + 1]>>
    <3>1. \A j \in i..i + 1 : s[j] \in Units
      BY <1>1, <2>1
    <3>2. /\ SubSeq(s, i, i + 1) \in Seq(Units)
          /\ Len(SubSeq(s, i, i + 1)) = 2
          /\ SubSeq(s, i, i + 1)[1] = s[i] /\ SubSeq(s, i, i + 1)[2] = s[i + 1]
      BY <3>1, SubSeqProperties
    <3> DEFINE t == SubSeq(s, i, i + 1)
    <3>3. t \in Seq(Units) /\ Len(t) = 2 /\ t[1] = s[i] /\ t[2] = s[i + 1]
      BY <3>2
    <3> HIDE DEF t
    <3>4. t = <<s[i], s[i + 1]>>
      BY <3>3
    <3>5. QED
      BY <3>4 DEF t
  <2>3. QED
    BY <2>1, <2>2 DEF Line
<1>4. QED
  BY <1>2, <1>3 DEF TxIsFramed, s

(* TinyUSB is given whole lines, over partial writes, compaction of tx_, a *)
(* full queue and lost sessions (config_service.cpp:145-183, 339-346).     *)
THEOREM SetupIsFramed == Spec => []TxIsFramed
<1> DEFINE F == Framed(Stream(Queue))
<1>1. Init => F
  BY FramedInit
<1>2. TypeOK /\ F /\ [Next]_vars => F'
  BY FramedStep
<1>3. TypeOK /\ F => TxIsFramed
  BY FramedLines
<1> HIDE DEF F
<1>4. QED
  BY <1>1, <1>2, <1>3, SetupTypeCorrect, PTL DEF Spec
-----------------------------------------------------------------------------
(* The bytes of the host, from their writing to their reading.             *)

(* The bytes of the host that were not read yet, written or not.           *)
Flow == rx \o rest

(* How many bytes the line has.                                            *)
Size(line) == Len(Written(kinds[line]))

(* A part of a sequence, from the place after `d'.                         *)
Segment(t, s, d) == Len(t) + d <= Len(s) /\ \A i \in 1..Len(t) : t[i] = s[i + d]

(* Every line has a text and an LF.                                        *)
LEMMA WrittenSize ==
  ASSUME NEW kind \in Kinds
  PROVE  Len(Written(kind)) \in Nat /\ Len(Written(kind)) >= 2
<1>1. InputSize \in Nat /\ InputSize >= 3
  BY SizesAssumption
<1>2. CASE kind = "long"
  <2>1. Len(Written(kind)) = InputSize + 2
    BY <1>2, WrittenBytes, Zenon
  <2>2. QED
    BY <1>1, <2>1
<1>3. CASE kind \in {"get", "set", "bad"}
  <2>1. Len(Written(kind)) = 3
    BY <1>3, WrittenBytes, Zenon
  <2>2. QED
    BY <2>1
<1>4. CASE kind = "hook"
  <2>1. Len(Written(kind)) = 5
    BY <1>4, WrittenBytes, Zenon
  <2>2. QED
    BY <2>1
<1>5. CASE kind = "control"
  <2>1. Len(Written(kind)) = 4
    BY <1>5, WrittenBytes, Zenon
  <2>2. QED
    BY <2>1
<1>6. CASE kind = "bare"
  <2>1. Len(Written(kind)) = 2
    BY <1>6, WrittenBytes, Zenon
  <2>2. QED
    BY <2>1
<1>7. QED
  BY <1>2, <1>3, <1>4, <1>5, <1>6 DEF Kinds

(* The flow is what TinyUSB holds and then what the host goes on with.     *)
LEMMA FlowTyped ==
  ASSUME TypeOK
  PROVE  /\ Flow \in Seq(Bytes) /\ Len(Flow) = Len(rx) + Len(rest) /\ Len(Flow) \in Nat
         /\ Len(rx) \in Nat /\ Len(rest) \in Nat
         /\ \A i \in 1..Len(rx) : Flow[i] = rx[i]
         /\ \A i \in 1..Len(rest) : Flow[Len(rx) + i] = rest[i]
         /\ \A i \in 1..Len(Flow) :
              /\ Flow[i].line \in Nat /\ Flow[i].line >= 1
              /\ Flow[i].at \in Nat /\ Flow[i].at >= 1
              /\ Flow[i] = [line |-> Flow[i].line, at |-> Flow[i].at]
<1>1. rx \in Seq(Bytes) /\ rest \in Seq(Bytes)
  BY DEF TypeOK
<1>2. /\ Flow \in Seq(Bytes) /\ Len(Flow) = Len(rx) + Len(rest)
      /\ Len(rx) \in Nat /\ Len(rest) \in Nat
      /\ \A i \in 1..Len(rx) : Flow[i] = rx[i]
      /\ \A i \in 1..Len(rest) : Flow[Len(rx) + i] = rest[i]
  BY <1>1, JoinSeq DEF Flow
<1>3. ASSUME NEW i \in 1..Len(Flow)
      PROVE  /\ Flow[i].line \in Nat /\ Flow[i].line >= 1
             /\ Flow[i].at \in Nat /\ Flow[i].at >= 1
             /\ Flow[i] = [line |-> Flow[i].line, at |-> Flow[i].at]
  <2>1. Flow[i] \in Bytes
    BY <1>2
  <2>2. QED
    BY <2>1 DEF Bytes, Ids
<1>4. QED
  BY <1>2, <1>3

(* What each step makes of the flow.                                       *)
LEMMA FlowRead ==
  ASSUME TypeOK, NextByte
  PROVE  /\ kinds' = kinds /\ rest' = rest /\ port' = port /\ losses' = losses /\ cut' = cut
         /\ Len(rx) >= 1 /\ Len(Flow) >= 1 /\ Flow[1] = Head(rx) /\ rx[1] = Head(rx)
         /\ Len(rx') = Len(rx) - 1 /\ \A i \in 1..Len(rx') : rx'[i] = rx[i + 1]
         /\ Len(Flow') = Len(Flow) - 1 /\ Flow' \in Seq(Bytes) /\ Segment(Flow', Flow, 1)
<1>1. kinds' = kinds /\ rest' = rest /\ port' = port /\ losses' = losses /\ cut' = cut
  BY DEF NextByte, hostVars, boundVars
<1>2. rx' = Tail(rx) /\ rx # <<>>
  BY DEF NextByte, Reading
<1>3. rx \in Seq(Bytes) /\ rest \in Seq(Bytes)
  BY DEF TypeOK
<1>4. /\ rx' \in Seq(Bytes) /\ Len(rx') = Len(rx) - 1 /\ Len(rx) \in Nat /\ Len(rx) >= 1
      /\ Head(rx) = rx[1] /\ \A i \in 1..Len(rx) - 1 : rx'[i] = rx[i + 1]
  BY <1>2, <1>3, TailSeq
<1> DEFINE g == rx' \o rest
<1>5. /\ g \in Seq(Bytes) /\ Len(g) = Len(rx') + Len(rest) /\ Len(rest) \in Nat
      /\ \A i \in 1..Len(rx') : g[i] = rx'[i]
      /\ \A i \in 1..Len(rest) : g[Len(rx') + i] = rest[i]
  <2>1. rx' \in Seq(Bytes) /\ rest \in Seq(Bytes)
    BY <1>3, <1>4
  <2>2. QED
    BY <2>1, JoinSeq
<1>6. Flow' = g
  BY <1>1 DEF Flow
<1> HIDE DEF g
<1>7. Segment(g, Flow, 1)
  <2>1. Len(g) + 1 = Len(Flow)
    BY <1>4, <1>5, FlowTyped
  <2>2. ASSUME NEW i \in 1..Len(g)
        PROVE  g[i] = Flow[i + 1]
    <3>1. CASE i <= Len(rx')
      BY <1>4, <1>5, <3>1, FlowTyped
    <3>2. CASE i > Len(rx')
      <4>1. i - Len(rx') \in 1..Len(rest) /\ Len(rx') + (i - Len(rx')) = i
            /\ Len(rx) + (i - Len(rx')) = i + 1
        BY <1>4, <1>5, <3>2
      <4>2. g[Len(rx') + (i - Len(rx'))] = rest[i - Len(rx')]
        BY <1>5, <4>1
      <4>3. Flow[Len(rx) + (i - Len(rx'))] = rest[i - Len(rx')]
        BY <4>1, FlowTyped
      <4>4. QED
        BY <4>1, <4>2, <4>3
    <3>3. QED
      BY <1>4, <1>5, <3>1, <3>2
  <2>3. QED
    BY <2>1, <2>2 DEF Segment
<1>8. QED
  BY <1>1, <1>4, <1>5, <1>6, <1>7, FlowTyped

(* A byte written only changes where in the flow the border is.            *)
LEMMA FlowWrite ==
  ASSUME TypeOK, WriteByte
  PROVE  /\ kinds' = kinds /\ Flow' = Flow
         /\ Len(rx') = Len(rx) + 1 /\ rx'[Len(rx')] = rest[1]
         /\ Len(rest) >= 1 /\ Len(rest') = Len(rest) - 1
         /\ \A i \in 1..Len(rest') : rest'[i] = rest[i + 1]
<1>1. rx \in Seq(Bytes) /\ rest \in Seq(Bytes) /\ rest # <<>>
  BY DEF TypeOK, WriteByte
<1>2. rx' = Append(rx, Head(rest)) /\ rest' = Tail(rest) /\ kinds' = kinds
  BY DEF WriteByte
<1>3. /\ rest' \in Seq(Bytes) /\ Len(rest') = Len(rest) - 1 /\ Len(rest) \in Nat
      /\ Len(rest) >= 1 /\ Head(rest) = rest[1] /\ rest[1] \in Bytes
      /\ \A i \in 1..Len(rest) - 1 : rest'[i] = rest[i + 1]
  BY <1>1, <1>2, TailSeq
<1>4. /\ rx' \in Seq(Bytes) /\ Len(rx') = Len(rx) + 1 /\ Len(rx) \in Nat
      /\ rx'[Len(rx')] = rest[1] /\ \A i \in 1..Len(rx) : rx'[i] = rx[i]
  BY <1>1, <1>2, <1>3
<1> DEFINE g == rx' \o rest'
<1>5. /\ g \in Seq(Bytes) /\ Len(g) = Len(rx') + Len(rest') /\ Len(rest) \in Nat
      /\ \A i \in 1..Len(rx') : g[i] = rx'[i]
      /\ \A i \in 1..Len(rest') : g[Len(rx') + i] = rest'[i]
  <2>1. rx' \in Seq(Bytes) /\ rest' \in Seq(Bytes) /\ Len(rest) \in Nat
    BY <1>3, <1>4
  <2>2. QED
    BY <2>1, JoinSeq
<1> HIDE DEF g
<1>6. Len(g) = Len(Flow)
  <2>1. Len(Flow) = Len(rx) + Len(rest)
    BY FlowTyped
  <2>2. /\ Len(rest') = Len(rest) - 1 /\ Len(rest) \in Nat /\ Len(rx) \in Nat
        /\ Len(rx') = Len(rx) + 1 /\ Len(g) = Len(rx') + Len(rest')
    BY <1>3, <1>4, <1>5
  <2>3. QED
    BY <2>1, <2>2
<1>7. ASSUME NEW i \in 1..Len(g)
      PROVE  g[i] = Flow[i]
  <2>1. CASE i <= Len(rx)
    BY <1>4, <1>5, <2>1, FlowTyped
  <2>2. CASE i = Len(rx) + 1
    <3>1. g[i] = rest[1]
      BY <1>4, <1>5, <2>2
    <3>2. Flow[Len(rx) + 1] = rest[1]
      BY <1>3, FlowTyped
    <3>3. QED
      BY <2>2, <3>1, <3>2
  <2>3. CASE i > Len(rx) + 1
    <3> DEFINE j == i - Len(rx')
    <3>1. j \in 1..Len(rest') /\ Len(rx') + j = i /\ Len(rx) + (j + 1) = i
          /\ j + 1 \in 1..Len(rest) /\ j \in 1..Len(rest) - 1
      BY <1>3, <1>4, <1>5, <2>3
    <3> HIDE DEF j
    <3>2. g[Len(rx') + j] = rest'[j]
      BY <1>5, <3>1
    <3>3. Flow[Len(rx) + (j + 1)] = rest[j + 1]
      BY <3>1, FlowTyped
    <3>4. QED
      BY <1>3, <3>1, <3>2, <3>3
  <2>4. QED
    BY <1>4, <2>1, <2>2, <2>3
<1>8. Flow' = Flow
  <2>1. g = Flow
    BY <1>5, <1>6, <1>7, FlowTyped, SameSeq
  <2>2. QED
    BY <2>1 DEF g, Flow
<1>9. QED
  BY <1>2, <1>3, <1>4, <1>8

(* A new line is behind all others.                                        *)
LEMMA FlowBegin ==
  ASSUME TypeOK, NEW kind \in Kinds, BeginLine(kind)
  PROVE  /\ rest = <<>> /\ port /\ rx' = rx /\ port' = port /\ losses' = losses /\ cut' = cut
         /\ Len(kinds) \in Nat /\ Len(kinds') = Len(kinds) + 1
         /\ kinds'[Len(kinds) + 1] = kind /\ kinds' \in Seq(Kinds)
         /\ \A l \in 1..Len(kinds) : kinds'[l] = kinds[l]
         /\ Len(rest') = Len(Written(kind))
         /\ \A i \in 1..Len(rest') : rest'[i] = [line |-> Len(kinds) + 1, at |-> i]
         /\ Flow' \in Seq(Bytes) /\ Len(Flow') = Len(Flow) + Len(Written(kind))
         /\ Len(Flow) = Len(rx)
         /\ \A i \in 1..Len(Flow) : Flow'[i] = Flow[i]
         /\ \A i \in 1..Len(Written(kind)) :
              Flow'[Len(Flow) + i] = [line |-> Len(kinds) + 1, at |-> i]
<1>1. /\ rest = <<>> /\ port /\ rx' = rx /\ port' = port /\ losses' = losses /\ cut' = cut
      /\ kinds' = Append(kinds, kind)
      /\ rest' = [i \in 1..Len(Written(kind)) |-> [line |-> Len(kinds) + 1, at |-> i]]
  BY DEF BeginLine, Connected, boundVars
<1>2. kinds \in Seq(Kinds) /\ rx \in Seq(Bytes)
  BY DEF TypeOK
<1>3. /\ Len(kinds) \in Nat /\ Len(kinds') = Len(kinds) + 1 /\ kinds' \in Seq(Kinds)
      /\ kinds'[Len(kinds) + 1] = kind
      /\ \A l \in 1..Len(kinds) : kinds'[l] = kinds[l]
  BY <1>1, <1>2
<1>4. Len(Written(kind)) \in Nat
  BY WrittenSize
<1>5. rest' \in Seq(Bytes) /\ Len(rest') = Len(Written(kind))
      /\ \A i \in 1..Len(rest') : rest'[i] = [line |-> Len(kinds) + 1, at |-> i]
  <2>1. \A i \in 1..Len(Written(kind)) : [line |-> Len(kinds) + 1, at |-> i] \in Bytes
    BY <1>3, <1>4 DEF Bytes, Ids
  <2>2. QED
    BY <1>1, <1>4, <2>1
<1> DEFINE g == rx \o rest'
<1>6. /\ g \in Seq(Bytes) /\ Len(g) = Len(rx) + Len(rest') /\ Len(rest') \in Nat
      /\ \A i \in 1..Len(rx) : g[i] = rx[i]
      /\ \A i \in 1..Len(rest') : g[Len(rx) + i] = rest'[i]
  <2>1. rx \in Seq(Bytes) /\ rest' \in Seq(Bytes)
    BY <1>2, <1>5
  <2>2. QED
    BY <2>1, JoinSeq
<1>7. Flow' = g /\ Flow = rx
  BY <1>1, <1>2 DEF Flow
<1> HIDE DEF g
<1>8. QED
  BY <1>1, <1>3, <1>5, <1>6, <1>7

(* A closed port ends the line that is being written.                      *)
LEMMA FlowClose ==
  ASSUME TypeOK, ClosePort
  PROVE  /\ kinds' = kinds /\ rest' = <<>> /\ port' = FALSE
         /\ cut' = cut /\ losses' = losses + 1
         /\ input' = input /\ overflow' = overflow
         /\ Flow' = rx' /\ Flow' \in Seq(Bytes) /\ (rx' = rx \/ rx' = <<>>)
         /\ Len(Flow') <= Len(rx) /\ Segment(Flow', Flow, 0)
<1>1. /\ kinds' = kinds /\ rest' = <<>> /\ port' = FALSE
      /\ cut' = cut /\ losses' = losses + 1
      /\ input' = input /\ overflow' = overflow /\ (rx' = rx \/ rx' = <<>>)
  BY DEF ClosePort, firmwareVars, inputVars
<1>2. rx \in Seq(Bytes) /\ rx' \in Seq(Bytes) /\ Len(rx') <= Len(rx)
  <2>1. rx \in Seq(Bytes)
    BY DEF TypeOK
  <2>2. CASE rx' = rx
    BY <2>1, <2>2
  <2>3. CASE rx' = <<>>
    BY <2>1, <2>3
  <2>4. QED
    BY <1>1, <2>1, <2>2, <2>3
<1>3. Flow' = rx'
  BY <1>1, <1>2 DEF Flow
<1>4. ASSUME NEW i \in 1..Len(rx')
      PROVE  rx'[i] = Flow[i + 0]
  <2>1. rx' = rx
    BY <1>1, <1>4
  <2>2. QED
    BY <1>4, <2>1, FlowTyped
<1>5. QED
  BY <1>1, <1>2, <1>3, <1>4, FlowTyped DEF Segment

(* What the host wrote or has begun to write is read in its order.         *)
Earlier(a, b) == a.line < b.line \/ (a.line = b.line /\ a.at < b.at)

(* The bytes are of lines begun.                                           *)
FlowWritten ==
  \A i \in 1..Len(Flow) : Flow[i].line <= Len(kinds) /\ Flow[i].at <= Size(Flow[i].line)

(* They are read in the order they were written.                           *)
FlowInOrder == \A i, j \in 1..Len(Flow) : i < j => Earlier(Flow[i], Flow[j])

(* The host writes its last line to the end, unless the port closes.       *)
HostGoesOn ==
  /\ rest # <<>> => port /\ kinds # <<>> /\ Len(rest) <= Size(Len(kinds))
  /\ \A i \in 1..Len(rest) :
       rest[i] = [line |-> Len(kinds), at |-> Size(Len(kinds)) - Len(rest) + i]

(* The steps that are none of the bytes'.                                  *)
LEMMA FlowStays ==
  ASSUME Disconnected \/ BeginPass \/ EndPass \/ Emit \/ HostReads \/ OpenPort \/ Suspend
         \/ Resume \/ UNCHANGED vars
  PROVE  kinds' = kinds /\ rest' = rest /\ rx' = rx
  BY DEF Disconnected, BeginPass, EndPass, Emit, HostReads, OpenPort, Suspend, Resume,
         vars, hostVars

(* A sequence is a segment of its own.                                     *)
LEMMA SegmentSame ==
  ASSUME NEW S, NEW s \in Seq(S)
  PROVE  Segment(s, s, 0)
  BY DEF Segment

(* A step takes bytes off the flow, or begins a line.                      *)
LEMMA FlowStep ==
  ASSUME TypeOK, [Next]_vars
  PROVE  \/ /\ kinds' = kinds /\ Flow' \in Seq(Bytes)
            /\ \E d \in 0..1 : Segment(Flow', Flow, d)
         \/ \E kind \in Kinds : BeginLine(kind)
<1>0. Flow \in Seq(Bytes)
  BY FlowTyped
<1>1. CASE Flow' = Flow /\ kinds' = kinds
  BY <1>0, <1>1, SegmentSame
<1>2. CASE Disconnected \/ BeginPass \/ EndPass \/ Emit \/ HostReads \/ OpenPort
           \/ Suspend \/ Resume \/ UNCHANGED vars
  <2>1. Flow' = Flow /\ kinds' = kinds
    BY <1>2, FlowStays DEF Flow
  <2>2. QED
    BY <1>1, <2>1
<1>3. CASE ReadLF \/ ReadText
  <2>1. NextByte
    BY <1>3 DEF ReadLF, ReadText
  <2>2. QED
    BY <2>1, FlowRead
<1>4. CASE WriteByte
  BY <1>1, <1>4, FlowWrite
<1>5. CASE ClosePort
  BY <1>5, FlowClose
<1>6. QED
  BY <1>2, <1>3, <1>4, <1>5 DEF Next

(* Nothing was written at boot.                                            *)
LEMMA FlowSoundInit == Init => FlowWritten /\ FlowInOrder /\ HostGoesOn
<1> SUFFICES ASSUME Init PROVE FlowWritten /\ FlowInOrder /\ HostGoesOn
  OBVIOUS
<1>1. Flow = <<>> /\ rest = <<>>
  BY DEF Init, Flow
<1>2. QED
  BY <1>1 DEF FlowWritten, FlowInOrder, HostGoesOn

(* Every step keeps the bytes in order.                                    *)
LEMMA FlowSoundStep ==
  ASSUME TypeOK, FlowWritten, FlowInOrder, [Next]_vars
  PROVE  FlowWritten' /\ FlowInOrder'
<1>1. ASSUME kinds' = kinds, Flow' \in Seq(Bytes), NEW d \in 0..1, Segment(Flow', Flow, d)
      PROVE  FlowWritten' /\ FlowInOrder'
  <2>1. /\ Len(Flow') \in Nat /\ Len(Flow) \in Nat
        /\ \A i \in 1..Len(Flow') : i + d \in 1..Len(Flow) /\ Flow'[i] = Flow[i + d]
    BY <1>1, FlowTyped DEF Segment
  <2>2. FlowWritten'
    BY <1>1, <2>1 DEF FlowWritten, Size
  <2>3. FlowInOrder'
    BY <2>1 DEF FlowInOrder
  <2>4. QED
    BY <2>2, <2>3
<1>2. ASSUME NEW kind \in Kinds, BeginLine(kind)
      PROVE  FlowWritten' /\ FlowInOrder'
  <2> DEFINE w == Len(Written(kind))
             f == Len(Flow)
             n == Len(kinds) + 1
  <2>1. /\ w \in Nat /\ f \in Nat /\ Len(kinds) \in Nat
        /\ Len(kinds') = n /\ kinds'[n] = kind
        /\ \A l \in 1..Len(kinds) : kinds'[l] = kinds[l]
        /\ Len(Flow') = f + w
        /\ \A i \in 1..f : Flow'[i] = Flow[i]
        /\ \A i \in 1..w : Flow'[f + i] = [line |-> n, at |-> i]
    BY <1>2, FlowBegin, FlowTyped, WrittenSize
  <2>2. \A i \in 1..f : Flow[i].line \in 1..Len(kinds) /\ Flow[i].at \in Nat
    <3>1. \A i \in 1..Len(Flow) : /\ Flow[i].line \in Nat /\ Flow[i].line >= 1
                                 /\ Flow[i].at \in Nat
      BY FlowTyped
    <3>2. \A i \in 1..Len(Flow) : Flow[i].line <= Len(kinds)
      BY DEF FlowWritten
    <3>3. QED
      BY <2>1, <3>1, <3>2
  <2> HIDE DEF w, f, n
  <2>3. \A i \in f + 1..f + w : Flow'[i].line = n /\ Flow'[i].at = i - f
    <3>1. ASSUME NEW i \in f + 1..f + w
          PROVE  Flow'[i].line = n /\ Flow'[i].at = i - f
      <4>1. i - f \in 1..w /\ f + (i - f) = i
        BY <2>1
      <4>2. Flow'[i] = [line |-> n, at |-> i - f]
        BY <2>1, <4>1
      <4>3. QED
        BY <4>2
    <3>2. QED
      BY <3>1
  <2>4. FlowWritten'
    <3>1. ASSUME NEW i \in 1..f
          PROVE  Flow'[i].line <= Len(kinds') /\ Flow'[i].at <= Len(Written(kinds'[Flow'[i].line]))
      <4>1. Flow'[i] = Flow[i] /\ Flow[i].line \in 1..Len(kinds)
        BY <2>1, <2>2
      <4>2. Flow[i].at <= Len(Written(kinds[Flow[i].line]))
        BY DEF FlowWritten, Size, f
      <4>3. kinds'[Flow[i].line] = kinds[Flow[i].line]
        BY <2>1, <4>1
      <4>4. Flow[i].line <= Len(kinds')
        BY <2>1, <4>1 DEF n
      <4>5. QED
        BY <4>1, <4>2, <4>3, <4>4
    <3>2. ASSUME NEW i \in f + 1..f + w
          PROVE  Flow'[i].line <= Len(kinds') /\ Flow'[i].at <= Len(Written(kinds'[Flow'[i].line]))
      <4>1. Flow'[i].line = n /\ Flow'[i].at = i - f
        BY <2>3
      <4>2. Len(Written(kinds'[n])) = w
        BY <2>1 DEF w
      <4>3. QED
        BY <2>1, <4>1, <4>2 DEF n
    <3>3. QED
      BY <2>1, <3>1, <3>2 DEF FlowWritten, Size
  <2>5. FlowInOrder'
    <3>1. ASSUME NEW i \in 1..f + w, NEW j \in 1..f + w, i < j
          PROVE  Earlier(Flow'[i], Flow'[j])
      <4>1. CASE j <= f
        BY <2>1, <3>1, <4>1 DEF FlowInOrder, f
      <4>2. CASE i <= f /\ j > f
        <5>1. Flow'[j].line = n
          BY <2>1, <2>3, <4>2
        <5>2. Flow'[i].line <= Len(kinds) /\ Flow'[i].line \in Nat
          BY <2>1, <2>2, <4>2
        <5>3. Flow'[i].line < n
          BY <2>1, <5>2 DEF n
        <5>4. QED
          BY <5>1, <5>3 DEF Earlier
      <4>3. CASE i > f
        <5>1. Flow'[i].line = n /\ Flow'[j].line = n
              /\ Flow'[i].at = i - f /\ Flow'[j].at = j - f
          BY <2>1, <2>3, <3>1, <4>3
        <5>2. QED
          BY <2>1, <3>1, <5>1 DEF Earlier
      <4>4. QED
        BY <2>1, <3>1, <4>1, <4>2, <4>3
    <3>2. QED
      BY <2>1, <3>1 DEF FlowInOrder
  <2>6. QED
    BY <2>4, <2>5
<1>3. QED
  BY <1>1, <1>2, FlowStep

(* Every step leaves the host at the right byte.                           *)
LEMMA HostGoesOnStep ==
  ASSUME TypeOK, HostGoesOn, [Next]_vars
  PROVE  HostGoesOn'
<1>1. CASE kinds' = kinds /\ rest' = rest /\ (port' \/ port' = port)
  BY <1>1 DEF HostGoesOn, Size
<1>2. CASE Disconnected \/ BeginPass \/ EndPass \/ Emit \/ HostReads \/ OpenPort
           \/ Suspend \/ Resume \/ UNCHANGED vars
  <2>1. port' = TRUE \/ port' = port
    BY <1>2 DEF Disconnected, BeginPass, EndPass, Emit, HostReads, OpenPort, Suspend,
                Resume, vars, hostVars
  <2>2. QED
    BY <1>1, <1>2, <2>1, FlowStays
<1>3. CASE ReadLF \/ ReadText
  BY <1>1, <1>3, FlowRead DEF ReadLF, ReadText
<1>4. CASE WriteByte
  <2>1. /\ kinds' = kinds /\ port' = port /\ Len(rest) >= 1 /\ Len(rest) \in Nat
        /\ Len(rest') = Len(rest) - 1
        /\ \A i \in 1..Len(rest') : rest'[i] = rest[i + 1]
    BY <1>4, FlowWrite, FlowTyped DEF WriteByte
  <2>2. rest # <<>>
    BY <1>4 DEF WriteByte
  <2>3. Len(Written(kinds[Len(kinds)])) \in Nat
    <3>1. kinds # <<>> /\ kinds \in Seq(Kinds)
      BY <2>2 DEF HostGoesOn, TypeOK
    <3>2. kinds[Len(kinds)] \in Kinds
      BY <3>1
    <3>3. QED
      BY <3>2, WrittenSize
  <2>4. \A i \in 1..Len(rest') :
          rest'[i] = [line |-> Len(kinds),
                      at |-> Len(Written(kinds[Len(kinds)])) - Len(rest') + i]
    <3>1. ASSUME NEW i \in 1..Len(rest')
          PROVE  rest'[i] = [line |-> Len(kinds),
                             at |-> Len(Written(kinds[Len(kinds)])) - Len(rest') + i]
      <4>1. i + 1 \in 1..Len(rest)
        BY <2>1
      <4>2. rest[i + 1] = [line |-> Len(kinds),
                           at |-> Len(Written(kinds[Len(kinds)])) - Len(rest) + (i + 1)]
        BY <4>1 DEF HostGoesOn, Size
      <4>3. Len(Written(kinds[Len(kinds)])) - Len(rest) + (i + 1)
              = Len(Written(kinds[Len(kinds)])) - Len(rest') + i
        BY <2>1, <2>3
      <4>4. QED
        BY <2>1, <4>2, <4>3
    <3>2. QED
      BY <3>1
  <2>5. port /\ kinds # <<>> /\ Len(rest') <= Len(Written(kinds[Len(kinds)]))
    BY <2>1, <2>2, <2>3 DEF HostGoesOn, Size
  <2>6. QED
    BY <2>1, <2>4, <2>5 DEF HostGoesOn, Size
<1>5. CASE ClosePort
  <2>1. rest' = <<>>
    BY <1>5 DEF ClosePort
  <2>2. QED
    BY <2>1 DEF HostGoesOn
<1>6. ASSUME NEW kind \in Kinds, BeginLine(kind)
      PROVE  HostGoesOn'
  <2>1. /\ port' /\ Len(kinds) \in Nat /\ Len(kinds') = Len(kinds) + 1
        /\ kinds'[Len(kinds) + 1] = kind
        /\ kinds' \in Seq(Kinds)
        /\ Len(rest') = Len(Written(kind))
        /\ \A i \in 1..Len(rest') : rest'[i] = [line |-> Len(kinds) + 1, at |-> i]
    BY <1>6, FlowBegin
  <2>2. Len(Written(kind)) \in Nat
    BY WrittenSize
  <2> DEFINE w == Len(Written(kind))
  <2>3. Len(Written(kinds'[Len(kinds')])) = w /\ w - w = 0
    BY <2>1, <2>2
  <2> HIDE DEF w
  <2>4. \A i \in 1..Len(rest') : w - Len(rest') + i = i
    BY <2>1, <2>2 DEF w
  <2>5. kinds' # <<>>
    BY <2>1
  <2>6. QED
    BY <2>1, <2>2, <2>3, <2>4, <2>5 DEF HostGoesOn, Size, w
<1>7. QED
  BY <1>2, <1>3, <1>4, <1>5, <1>6 DEF Next
-----------------------------------------------------------------------------
(* The answers on their way.                                               *)

(* The answers among some units, and their order.                          *)
AnswersIn(s) == {s[i].of : i \in {k \in 1..Len(s) : IsAnswer(s[k])}}
InOrder(s) ==
  \A i, j \in 1..Len(s) : i < j /\ IsAnswer(s[i]) /\ IsAnswer(s[j])
                            => s[i].of.to < s[j].of.to

(* A sequence without `d' of its elements, after the place `k'.            *)
Removed(t, s, k, d) ==
  /\ Len(t) + d = Len(s)
  /\ \A i \in 1..Len(t) : t[i] = IF i <= k THEN s[i] ELSE s[i + d]

(* Dropping units keeps the order of the answers.                          *)
LEMMA RemovedAnswers ==
  ASSUME NEW s \in Seq(Units), NEW t \in Seq(Units), NEW k \in Nat, NEW d \in Nat,
         Removed(t, s, k, d), InOrder(s)
  PROVE  InOrder(t) /\ AnswersIn(t) \subseteq AnswersIn(s)
<1> DEFINE p(i) == IF i <= k THEN i ELSE i + d
<1>1. Len(t) \in Nat /\ Len(s) \in Nat /\ Len(t) + d = Len(s)
  BY DEF Removed
<1>2. \A i \in 1..Len(t) : p(i) \in 1..Len(s) /\ t[i] = s[p(i)]
  BY <1>1 DEF Removed
<1>3. \A i, j \in 1..Len(t) : i < j => p(i) < p(j)
  BY <1>1
<1> HIDE DEF p
<1>4. InOrder(t)
  BY <1>2, <1>3 DEF InOrder
<1>5. AnswersIn(t) \subseteq AnswersIn(s)
  BY <1>2 DEF AnswersIn
<1>6. QED
  BY <1>4, <1>5

(* So does a line behind them, if it answers a later one.                  *)
LEMMA AddedAnswer ==
  ASSUME NEW s \in Seq(Units), InOrder(s), NEW m \in Answers \union {Event},
         m # Event => \A a \in AnswersIn(s) : a.to < m.to
  PROVE  /\ s \o Line(m) \in Seq(Units)
         /\ InOrder(s \o Line(m))
         /\ AnswersIn(s \o Line(m)) \subseteq
              AnswersIn(s) \union (IF m = Event THEN {} ELSE {m})
<1> DEFINE l == Line(m)
           t == s \o l
           n == Len(s)
<1>1. l \in Seq(Units) /\ Len(l) = 2
      /\ l[1] = [of |-> m, part |-> 1] /\ l[2] = [of |-> m, part |-> 2]
  BY LineTyped
<1> HIDE DEF l
<1>2. /\ t \in Seq(Units) /\ Len(t) = n + Len(l) /\ n \in Nat
      /\ \A i \in 1..n : t[i] = s[i]
      /\ \A i \in 1..Len(l) : t[n + i] = l[i]
  <2>1. l \in Seq(Units) /\ s \in Seq(Units)
    BY <1>1
  <2>2. QED
    BY <2>1, JoinSeq
<1> HIDE DEF t, n
<1>3. /\ Len(t) = n + 2 /\ n \in Nat
      /\ t[n + 1].part = 1 /\ t[n + 2].part = 2 /\ t[n + 2].of = m
  BY <1>1, <1>2
<1>4. ~IsAnswer(t[n + 1]) /\ (IsAnswer(t[n + 2]) <=> m # Event)
  BY <1>3 DEF IsAnswer
<1>5. \A i \in 1..n : IsAnswer(t[i]) => t[i].of \in AnswersIn(s)
  BY <1>2 DEF AnswersIn, n
<1>6. InOrder(t)
  <2>1. ASSUME NEW i \in 1..n + 2, NEW j \in 1..n + 2, i < j, IsAnswer(t[i]), IsAnswer(t[j])
        PROVE  t[i].of.to < t[j].of.to
    <3>1. i # n + 1 /\ j # n + 1
      BY <1>4, <2>1
    <3>2. i \in 1..n /\ (j \in 1..n \/ j = n + 2)
      BY <1>3, <2>1, <3>1
    <3>3. CASE j \in 1..n
      BY <1>2, <2>1, <3>2, <3>3 DEF InOrder, n
    <3>4. CASE j = n + 2
      BY <1>3, <1>4, <1>5, <2>1, <3>2, <3>4
    <3>5. QED
      BY <3>2, <3>3, <3>4
  <2>2. QED
    BY <1>3, <2>1 DEF InOrder
<1>7. ASSUME NEW i \in 1..n + 2, IsAnswer(t[i])
      PROVE  t[i].of \in AnswersIn(s) \union (IF m = Event THEN {} ELSE {m})
  <2>1. i \in 1..n \/ i = n + 1 \/ i = n + 2
    BY <1>3
  <2>2. QED
    BY <1>3, <1>4, <1>5, <1>7, <2>1
<1>8. AnswersIn(t) \subseteq AnswersIn(s) \union (IF m = Event THEN {} ELSE {m})
  BY <1>3, <1>7 DEF AnswersIn
<1>9. QED
  BY <1>2, <1>6, <1>8 DEF t, l

(* Three parts behind each other.                                          *)
LEMMA ThreeParts ==
  ASSUME NEW S, NEW a \in Seq(S), NEW b \in Seq(S), NEW c \in Seq(S)
  PROVE  /\ (a \o b) \o c \in Seq(S)
         /\ Len((a \o b) \o c) = Len(a) + Len(b) + Len(c)
         /\ Len(a) \in Nat /\ Len(b) \in Nat /\ Len(c) \in Nat
         /\ \A i \in 1..Len(a) + Len(b) + Len(c) :
              ((a \o b) \o c)[i] = IF i <= Len(a) THEN a[i]
                                   ELSE IF i <= Len(a) + Len(b) THEN b[i - Len(a)]
                                   ELSE c[i - (Len(a) + Len(b))]
<1> DEFINE d == a \o b
           e == d \o c
<1>1. /\ d \in Seq(S) /\ Len(d) = Len(a) + Len(b) /\ Len(a) \in Nat /\ Len(b) \in Nat
      /\ \A i \in 1..Len(a) + Len(b) : d[i] = IF i <= Len(a) THEN a[i] ELSE b[i - Len(a)]
  BY JoinSeq
<1> HIDE DEF d
<1>2. /\ e \in Seq(S) /\ Len(e) = Len(d) + Len(c) /\ Len(c) \in Nat
      /\ \A i \in 1..Len(d) + Len(c) : e[i] = IF i <= Len(d) THEN d[i] ELSE c[i - Len(d)]
  <2>1. d \in Seq(S)
    BY <1>1
  <2>2. QED
    BY <2>1, JoinSeq
<1> HIDE DEF e
<1>3. ASSUME NEW i \in 1..Len(a) + Len(b) + Len(c)
      PROVE  e[i] = IF i <= Len(a) THEN a[i]
                    ELSE IF i <= Len(a) + Len(b) THEN b[i - Len(a)]
                    ELSE c[i - (Len(a) + Len(b))]
  <2>1. CASE i <= Len(a) + Len(b)
    BY <1>1, <1>2, <2>1
  <2>2. CASE i > Len(a) + Len(b)
    BY <1>1, <1>2, <2>2
  <2>3. QED
    BY <1>1, <2>1, <2>2
<1>4. QED
  BY <1>1, <1>2, <1>3 DEF d, e

(* The answers on their way are typed.                                     *)
LEMMA PartsTyped ==
  ASSUME TypeOK
  PROVE  /\ answer \in Seq(Units) /\ fifo \in Seq(Units) /\ Pending \in Seq(Units)
         /\ Way(Queue) = fifo \o Pending /\ QueueFits(Queue)
         /\ OnTheWay = answer \o Way(Queue) /\ OnTheWay \in Seq(Units)
         /\ Way(Queue) \in Seq(Units)
<1>1. QueueFits(Queue) /\ HostTyped
  BY TypeParts DEF Typed
<1>2. Queue.fifo = fifo /\ Waiting(Queue) = Pending
  BY DEF Queue, Waiting, Pending
<1>3. answer \in Seq(Units) /\ fifo \in Seq(Units) /\ Pending \in Seq(Units)
  <2>1. fifo \in Seq(Units) /\ Pending \in Seq(Units)
    BY <1>1, <1>2, WaitingTyped
  <2>2. QED
    BY <1>1, <2>1 DEF HostTyped
<1>4. Way(Queue) = fifo \o Pending
  BY <1>2 DEF Way
<1>5. OnTheWay = answer \o (fifo \o Pending)
  <2> DEFINE p == Pending
  <2>1. p \in Seq(Units)
    BY <1>3
  <2> HIDE DEF p
  <2>2. (answer \o fifo) \o p = answer \o (fifo \o p)
    BY <1>3, <2>1, ConcatAssociative
  <2>3. QED
    BY <2>2 DEF OnTheWay, p
<1>6. fifo \o Pending \in Seq(Units)
  BY <1>3, JoinSeq
<1>7. answer \o (fifo \o Pending) \in Seq(Units)
  <2> DEFINE p == fifo \o Pending
  <2>1. p \in Seq(Units)
    BY <1>6
  <2> HIDE DEF p
  <2>2. answer \o p \in Seq(Units)
    BY <1>3, <2>1, JoinSeq
  <2>3. QED
    BY <2>2 DEF p
<1>8. QED
  BY <1>1, <1>3, <1>4, <1>5, <1>6, <1>7

(* Joining units is associative.                                           *)
LEMMA UnitsJoined ==
  ASSUME NEW a \in Seq(Units), NEW b \in Seq(Units), NEW c \in Seq(Units)
  PROVE  (a \o b) \o c = a \o (b \o c)
  BY ConcatAssociative

(* The way after a step of the queue alone.                                *)
LEMMA WayNext ==
  ASSUME TypeOK, TypeOK', answer' = answer
  PROVE  /\ Way(Queue') = Way(Queue) => OnTheWay' = OnTheWay
         /\ \A m \in Answers \union {Event} :
              Way(Queue') = Way(Queue) \o Line(m) => OnTheWay' = OnTheWay \o Line(m)
         /\ \A m, e \in Answers \union {Event} :
              Way(Queue') = (Way(Queue) \o Line(e)) \o Line(m)
                => OnTheWay' = (OnTheWay \o Line(e)) \o Line(m)
<1> DEFINE w == Way(Queue)
           v == Way(Queue')
<1>1. OnTheWay = answer \o w /\ answer \in Seq(Units) /\ w \in Seq(Units)
  BY PartsTyped
<1>2. OnTheWay' = answer' \o v
  <2>1. /\ answer' \in Seq(Units) /\ fifo' \in Seq(Units)
        /\ tx' \in Seq(Units) /\ tx_offset' \in 0..Len(tx')
    BY DEF TypeOK
  <2> DEFINE p == SubSeq(tx', tx_offset' + 1, Len(tx'))
  <2>2. p \in Seq(Units)
    BY <2>1, SplitSeq
  <2>3. v = fifo' \o p /\ OnTheWay' = (answer' \o fifo') \o p
    BY DEF Way, Queue, Waiting, OnTheWay, Pending
  <2> HIDE DEF p, v
  <2>4. (answer' \o fifo') \o p = answer' \o (fifo' \o p)
    BY <2>1, <2>2, UnitsJoined
  <2>5. QED
    BY <2>3, <2>4
<1> HIDE DEF w, v
<1>3. ASSUME NEW m \in Answers \union {Event}, v = w \o Line(m)
      PROVE  OnTheWay' = OnTheWay \o Line(m)
  <2> DEFINE l == Line(m)
  <2>1. l \in Seq(Units)
    BY LineTyped
  <2> HIDE DEF l
  <2>2. (answer \o w) \o l = answer \o (w \o l)
    BY <1>1, <2>1, UnitsJoined
  <2>3. QED
    BY <1>1, <1>2, <1>3, <2>2 DEF l
<1>4. ASSUME NEW m \in Answers \union {Event}, NEW e \in Answers \union {Event},
             v = (w \o Line(e)) \o Line(m)
      PROVE  OnTheWay' = (OnTheWay \o Line(e)) \o Line(m)
  <2> DEFINE k == Line(e)
             l == Line(m)
             u == w \o k
  <2>1. l \in Seq(Units) /\ k \in Seq(Units)
    BY LineTyped
  <2> HIDE DEF l, k
  <2>2. (answer \o w) \o k = answer \o (w \o k)
    BY <1>1, <2>1, UnitsJoined
  <2>3. u \in Seq(Units)
    BY <1>1, <2>1, JoinSeq
  <2>4. v = u \o l
    BY <1>4 DEF u, k, l
  <2>5. OnTheWay \o k = answer \o u
    BY <1>1, <2>2 DEF u
  <2> HIDE DEF u
  <2>6. (answer \o u) \o l = answer \o (u \o l)
    <3>1. answer \in Seq(Units)
      BY <1>1
    <3>2. QED
      BY <2>1, <2>3, <3>1, UnitsJoined
  <2>7. OnTheWay' = (OnTheWay \o k) \o l
    BY <1>2, <2>4, <2>5, <2>6
  <2>8. QED
    BY <2>7 DEF k, l
<1>5. v = w => OnTheWay' = OnTheWay
  BY <1>1, <1>2
<1>6. QED
  BY <1>3, <1>4, <1>5 DEF w, v

(* Answering a line, whatever its event and its answer find of room.       *)
LEMMA RespondWay ==
  ASSUME TypeOK, TypeOK', answer' = answer, NEW n \in Ids, NEW status \in Statuses,
         NEW q \in {Queue, WriteLine(Queue, Event)}, Respond(q, n, status, mapping'),
         InOrder(OnTheWay), \A a \in AnswersIn(OnTheWay) : a.to < n
  PROVE  /\ InOrder(OnTheWay')
         /\ AnswersIn(OnTheWay') \subseteq
              AnswersIn(OnTheWay) \union {[to |-> n, status |-> status, mapping |-> mapping']}
<1> DEFINE m == [to |-> n, status |-> status, mapping |-> mapping']
<1>1. m \in Answers /\ m # Event /\ m.to = n
  <2>1. mapping' \in Nat
    BY DEF TypeOK
  <2>2. m \in Answers
    BY <2>1 DEF Answers
  <2>3. Event.to = 0 /\ m.to = n
    BY DEF Event
  <2>4. QED
    BY <2>2, <2>3 DEF Ids
<1>2. QueueFits(Queue) /\ Way(Queue) \in Seq(Units) /\ OnTheWay \in Seq(Units)
  BY PartsTyped
<1>3. /\ QueueFits(q) /\ Queue' = WriteLine(q, m)
      /\ Way(q) = Way(Queue) \/ Way(q) = Way(Queue) \o Line(Event)
  <2>1. QueueFits(q) /\ (Way(q) = Way(Queue) \/ Way(q) = Way(Queue) \o Line(Event))
    <3>1. CASE q = Queue
      BY <1>2, <3>1
    <3>2. CASE q = WriteLine(Queue, Event)
      BY <1>2, <3>2, WriteLineFacts
    <3>3. QED
      BY <3>1, <3>2
  <2>2. lost \subseteq Ids /\ mapping' \in Nat
    BY DEF TypeOK
  <2>3. QED
    BY <2>1, <2>2, RespondTyped
<1> HIDE DEF m
<1>4. Way(Queue') = Way(q) \/ Way(Queue') = Way(q) \o Line(m)
  BY <1>1, <1>3, WriteLineFacts
<1>5. \/ OnTheWay' = OnTheWay
      \/ OnTheWay' = OnTheWay \o Line(m)
      \/ OnTheWay' = OnTheWay \o Line(Event)
      \/ OnTheWay' = (OnTheWay \o Line(Event)) \o Line(m)
  BY <1>1, <1>3, <1>4, WayNext
<1> DEFINE s == OnTheWay
           t == s \o Line(Event)
<1>6. t \in Seq(Units) /\ InOrder(t) /\ AnswersIn(t) \subseteq AnswersIn(s)
  BY <1>2, AddedAnswer
<1>7. InOrder(s \o Line(m)) /\ AnswersIn(s \o Line(m)) \subseteq AnswersIn(s) \union {m}
  BY <1>1, <1>2, AddedAnswer
<1> HIDE DEF s, t
<1>8. InOrder(t \o Line(m)) /\ AnswersIn(t \o Line(m)) \subseteq AnswersIn(t) \union {m}
  <2>1. \A a \in AnswersIn(t) : a.to < m.to
    BY <1>1, <1>6 DEF s
  <2>2. QED
    BY <1>1, <1>6, <2>1, AddedAnswer
<1>9. QED
  BY <1>5, <1>6, <1>7, <1>8 DEF s, t, m

(* Every other step takes answers off the way, or leaves it as it is.      *)
LEMMA WayStep ==
  ASSUME TypeOK, TypeOK', [Next]_vars, ~ReadLF, InOrder(OnTheWay)
  PROVE  InOrder(OnTheWay') /\ AnswersIn(OnTheWay') \subseteq AnswersIn(OnTheWay)
<1> DEFINE s == OnTheWay
           t == OnTheWay'
           a == Len(answer)
           f == Len(fifo)
           w == Len(Pending)
<1>0. /\ answer \in Seq(Units) /\ fifo \in Seq(Units) /\ Pending \in Seq(Units)
      /\ QueueFits(Queue) /\ Way(Queue) \in Seq(Units)
  BY PartsTyped
<1>1. /\ s \in Seq(Units) /\ Len(s) = a + f + w /\ a \in Nat /\ f \in Nat /\ w \in Nat
      /\ \A i \in 1..a + f + w :
           s[i] = IF i <= a THEN answer[i]
                  ELSE IF i <= a + f THEN fifo[i - a] ELSE Pending[i - (a + f)]
  BY <1>0, ThreeParts DEF OnTheWay
<1>2. CASE t = s
  BY <1>2
<1>3. ASSUME t \in Seq(Units), NEW k \in Nat, NEW d \in Nat, Removed(t, s, k, d)
      PROVE  InOrder(t) /\ AnswersIn(t) \subseteq AnswersIn(s)
  <2> HIDE DEF s, t
  <2>1. s \in Seq(Units) /\ InOrder(s)
    BY <1>1 DEF s
  <2>2. QED
    BY <1>3, <2>1, RemovedAnswers
<1> HIDE DEF s, a, f, w
<1>4. CASE answer' = answer /\ Queue' = Queue
  BY <1>2, <1>4, WayNext DEF s
<1>5. CASE BeginPass \/ EndPass
  <2>1. answer' = answer /\ Queue' = ServiceTx(Queue)
    BY <1>0, <1>5, ServiceTxFacts, QueueStep DEF BeginPass, EndPass, hostVars
  <2>2. Way(Queue') = Way(Queue)
    BY <1>0, <2>1, ServiceTxWay
  <2>3. QED
    BY <1>2, <2>1, <2>2, WayNext DEF s
<1>6. CASE Emit
  <2>1. answer' = answer /\ Queue' = WriteLine(Queue, Event)
    BY <1>0, <1>6, WriteLineFacts, QueueStep DEF Emit, hostVars
  <2>2. Way(Queue') = Way(Queue) \/ Way(Queue') = Way(Queue) \o Line(Event)
    BY <1>0, <2>1, WriteLineFacts
  <2>3. t = s \/ t = s \o Line(Event)
    BY <2>1, <2>2, WayNext DEF s
  <2>4. InOrder(s \o Line(Event)) /\ AnswersIn(s \o Line(Event)) \subseteq AnswersIn(s)
    <3>1. s \in Seq(Units) /\ InOrder(s)
      BY <1>1 DEF s
    <3>2. QED
      BY <3>1, AddedAnswer
  <2>5. QED
    BY <1>2, <2>3, <2>4 DEF s
<1>7. CASE Disconnected
  <2>1. answer' = answer /\ fifo' = fifo /\ tx' = <<>> /\ tx_offset' = 0
    BY <1>7 DEF Disconnected, hostVars
  <2>2. t = (answer \o fifo) \o <<>>
    BY <2>1 DEF OnTheWay, Pending
  <2>3. /\ t \in Seq(Units) /\ Len(t) = a + f + 0
        /\ \A i \in 1..a + f : t[i] = IF i <= a THEN answer[i] ELSE fifo[i - a]
    <3>1. /\ answer \o fifo \in Seq(Units) /\ Len(answer \o fifo) = a + f
          /\ \A i \in 1..a + f : (answer \o fifo)[i] = IF i <= a THEN answer[i] ELSE fifo[i - a]
      BY <1>0, JoinSeq DEF a, f
    <3> DEFINE b == answer \o fifo
    <3> HIDE DEF b
    <3>2. b \o <<>> = b
      BY <3>1 DEF b
    <3>3. t = b
      BY <2>2, <3>2 DEF b
    <3>4. QED
      BY <1>1, <3>1, <3>3 DEF b
  <2>4. Removed(t, s, a + f, w)
    <3>1. Len(t) + w = Len(s)
      BY <1>1, <2>3
    <3>2. ASSUME NEW i \in 1..Len(t)
          PROVE  t[i] = IF i <= a + f THEN s[i] ELSE s[i + w]
      <4>1. i \in 1..a + f /\ i \in 1..a + f + w /\ i <= a + f
        BY <1>1, <2>3
      <4>2. t[i] = IF i <= a THEN answer[i] ELSE fifo[i - a]
        BY <2>3, <4>1
      <4>3. s[i] = IF i <= a THEN answer[i] ELSE fifo[i - a]
        BY <1>1, <4>1
      <4>4. QED
        BY <4>1, <4>2, <4>3
    <3>3. QED
      BY <3>1, <3>2 DEF Removed
  <2>5. QED
    BY <1>1, <1>3, <2>3, <2>4 DEF s
<1>8. CASE HostReads
  <2>1. /\ fifo # <<>> /\ fifo' = Tail(fifo) /\ tx' = tx /\ tx_offset' = tx_offset
        /\ answer' = <<Head(fifo)>> \/ answer' = answer
    BY <1>8 DEF HostReads, firmwareVars
  <2>2. /\ fifo' \in Seq(Units) /\ Len(fifo') = f - 1 /\ f >= 1
        /\ Head(fifo) = fifo[1] /\ fifo[1] \in Units
        /\ \A i \in 1..f - 1 : fifo'[i] = fifo[i + 1]
    BY <1>0, <2>1, TailSeq DEF f
  <2>3. answer' \in Seq(Units)
    BY DEF TypeOK
  <2>4. t = (answer' \o fifo') \o Pending
    BY <2>1 DEF OnTheWay, Pending
  <2> DEFINE b == Len(answer')
             g == f - 1
  <2>5. /\ t \in Seq(Units) /\ Len(t) = b + g + w /\ b \in Nat
        /\ \A i \in 1..b + g + w :
             t[i] = IF i <= b THEN answer'[i]
                    ELSE IF i <= b + g THEN fifo'[i - b] ELSE Pending[i - (b + g)]
    <3> DEFINE x == Len(fifo')
    <3>1. /\ t \in Seq(Units) /\ Len(t) = b + x + w /\ b \in Nat
          /\ \A i \in 1..b + x + w :
               t[i] = IF i <= b THEN answer'[i]
                      ELSE IF i <= b + x THEN fifo'[i - b] ELSE Pending[i - (b + x)]
      <4>1. answer' \in Seq(Units) /\ fifo' \in Seq(Units) /\ Pending \in Seq(Units)
        BY <1>0, <2>2, <2>3
      <4>2. QED
        BY <2>4, <4>1, ThreeParts DEF w
    <3>2. x = g
      BY <2>2
    <3> HIDE DEF x, b, g
    <3>3. QED
      BY <3>1, <3>2
  <2> HIDE DEF b
  <2>6. CASE answer' = <<Head(fifo)>>
    <3>1. b = 1 /\ answer'[1] = fifo[1]
      BY <2>2, <2>6 DEF b
    <3>2. Removed(t, s, 0, a)
      <4>1. Len(t) + a = Len(s)
        BY <1>1, <2>2, <2>5, <3>1
      <4>2. ASSUME NEW i \in 1..Len(t)
            PROVE  t[i] = s[i + a]
        <5>1. i + a \in 1..a + f + w /\ ~(i + a <= a) /\ i \in 1..b + g + w
          BY <1>1, <2>2, <2>5, <3>1
        <5>2. CASE i = 1
          BY <1>1, <2>2, <2>5, <3>1, <5>1, <5>2
        <5>3. CASE i # 1 /\ i <= f
          <6>1. t[i] = fifo'[i - 1] /\ i - 1 \in 1..f - 1
            BY <1>1, <2>2, <2>5, <3>1, <5>1, <5>3
          <6>2. fifo'[i - 1] = fifo[(i - 1) + 1] /\ (i - 1) + 1 = i
            BY <2>2, <6>1
          <6>3. s[i + a] = fifo[(i + a) - a] /\ (i + a) - a = i
            BY <1>1, <5>1, <5>3
          <6>4. QED
            BY <6>1, <6>2, <6>3
        <5>4. CASE i > f
          <6>1. t[i] = Pending[i - f]
            <7>1. ~(i <= b) /\ ~(i <= b + g) /\ b + g = f
              BY <1>1, <2>2, <3>1, <5>4
            <7>2. t[i] = Pending[i - (b + g)]
              BY <2>5, <5>1, <7>1
            <7>3. QED
              BY <7>1, <7>2
          <6>2. s[i + a] = Pending[(i + a) - (a + f)] /\ (i + a) - (a + f) = i - f
            BY <1>1, <5>1, <5>4
          <6>3. QED
            BY <6>1, <6>2
        <5>5. QED
          BY <1>1, <5>1, <5>2, <5>3, <5>4
      <4>3. QED
        BY <4>1, <4>2 DEF Removed
    <3>3. QED
      BY <1>1, <1>3, <2>5, <3>2 DEF s
  <2>7. CASE answer' = answer
    <3>1. b = a /\ answer' = answer
      BY <2>7 DEF a, b
    <3>2. Removed(t, s, a, 1)
      <4>1. Len(t) + 1 = Len(s)
        BY <1>1, <2>2, <2>5, <3>1
      <4>2. ASSUME NEW i \in 1..Len(t)
            PROVE  t[i] = IF i <= a THEN s[i] ELSE s[i + 1]
        <5>1. i \in 1..a + f + w /\ i + 1 \in 1..a + f + w /\ i \in 1..b + g + w
          BY <1>1, <2>2, <2>5, <3>1
        <5>2. CASE i <= a
          BY <1>1, <2>5, <3>1, <5>1, <5>2
        <5>3. CASE i > a /\ i <= a + g
          <6>1. t[i] = fifo'[i - a] /\ i - a \in 1..f - 1
            BY <1>1, <2>2, <2>5, <3>1, <5>1, <5>3
          <6>2. fifo'[i - a] = fifo[(i - a) + 1]
            BY <2>2, <6>1
          <6>3. s[i + 1] = fifo[(i + 1) - a] /\ (i + 1) - a = (i - a) + 1
            BY <1>1, <5>1, <5>3
          <6>4. QED
            BY <1>1, <5>1, <5>3, <6>1, <6>2, <6>3
        <5>4. CASE i > a + g
          <6>1. t[i] = Pending[i - (a + g)]
            BY <1>1, <2>2, <2>5, <3>1, <5>1, <5>4
          <6>2. s[i + 1] = Pending[(i + 1) - (a + f)] /\ (i + 1) - (a + f) = i - (a + g)
            BY <1>1, <5>1, <5>4
          <6>3. ~(i <= a)
            BY <1>1, <2>2, <5>4
          <6>4. QED
            BY <6>1, <6>2, <6>3
        <5>5. QED
          BY <1>1, <5>1, <5>2, <5>3, <5>4
      <4>3. QED
        BY <4>1, <4>2 DEF Removed
    <3>3. QED
      BY <1>1, <1>3, <2>5, <3>2 DEF s
  <2>8. QED
    BY <2>1, <2>6, <2>7
<1>9. CASE ClosePort
  <2>1. /\ answer' = <<>> /\ (fifo' = fifo \/ fifo' = <<>>)
        /\ tx' = tx /\ tx_offset' = tx_offset
    BY <1>9 DEF ClosePort, firmwareVars
  <2>2. answer' \in Seq(Units) /\ fifo' \in Seq(Units)
    BY DEF TypeOK
  <2>3. t = (answer' \o fifo') \o Pending
    BY <2>1 DEF OnTheWay, Pending
  <2> DEFINE b == Len(answer')
             g == Len(fifo')
  <2>4. /\ t \in Seq(Units) /\ Len(t) = b + g + w /\ b \in Nat /\ g \in Nat
        /\ \A i \in 1..b + g + w :
             t[i] = IF i <= b THEN answer'[i]
                    ELSE IF i <= b + g THEN fifo'[i - b] ELSE Pending[i - (b + g)]
    BY <1>0, <2>2, <2>3, ThreeParts DEF w
  <2>5. b = 0
    BY <2>1
  <2> HIDE DEF b, g
  <2>6. CASE fifo' = fifo
    <3>1. g = f
      BY <2>6 DEF f, g
    <3>2. Removed(t, s, 0, a)
      <4>1. Len(t) + a = Len(s)
        BY <1>1, <2>4, <2>5, <3>1
      <4>2. ASSUME NEW i \in 1..Len(t)
            PROVE  t[i] = IF i <= 0 THEN s[i] ELSE s[i + a]
        <5>1. /\ i \in 1..b + g + w /\ i + a \in 1..a + f + w
              /\ ~(i <= b) /\ ~(i <= 0) /\ ~(i + a <= a) /\ i - b = i /\ (i + a) - a = i
              /\ i <= b + g <=> i + a <= a + f
              /\ i - (b + g) = (i + a) - (a + f)
          BY <1>1, <2>4, <2>5, <3>1
        <5>2. t[i] = IF i <= b + g THEN fifo[i] ELSE Pending[i - (b + g)]
          BY <2>4, <2>6, <5>1
        <5>3. s[i + a] = IF i + a <= a + f THEN fifo[i] ELSE Pending[(i + a) - (a + f)]
          BY <1>1, <5>1
        <5>4. QED
          BY <5>1, <5>2, <5>3
      <4>3. QED
        BY <4>1, <4>2 DEF Removed
    <3>3. QED
      BY <1>1, <1>3, <2>4, <3>2 DEF s
  <2>7. CASE fifo' = <<>>
    <3>1. g = 0
      BY <2>7 DEF g
    <3>2. Removed(t, s, 0, a + f)
      BY <1>1, <2>4, <2>5, <3>1 DEF Removed
    <3>3. QED
      BY <1>1, <1>3, <2>4, <3>2 DEF s
  <2>8. QED
    BY <2>1, <2>6, <2>7
<1>10. CASE \/ ReadText \/ WriteByte \/ OpenPort \/ Suspend \/ Resume \/ UNCHANGED vars
            \/ \E kind \in Kinds : BeginLine(kind)
  <2>1. answer' = answer /\ Queue' = Queue
    <3>1. answer' = answer
      BY <1>10 DEF ReadText, NextByte, WriteByte, OpenPort, Suspend, Resume, BeginLine,
                   vars, hostVars
    <3>2. tx' = tx /\ tx_offset' = tx_offset /\ fifo' = fifo /\ begun' = begun
      BY <1>10 DEF ReadText, WriteByte, OpenPort, Suspend, Resume, BeginLine,
                   vars, sendVars, firmwareVars
    <3>3. QED
      BY <3>1, <3>2 DEF Queue
  <2>2. QED
    BY <1>4, <2>1
<1>11. QED
  BY <1>5, <1>6, <1>7, <1>8, <1>9, <1>10 DEF Next, s

(* An answer is to a line all whose bytes were handled, and reports the    *)
(* mapping in use if it is not to an earlier line.                         *)
Due(a) ==
  /\ a.to <= Len(kinds)
  /\ \A j \in 1..Len(input) : a.to < input[j].line
  /\ \A j \in 1..Len(Flow) : a.to < Flow[j].line
  /\ a.to >= mapping => a.mapping = mapping

AnswersAreDue == \A a \in AnswersIn(OnTheWay) : Due(a)
AnswerIsRead == answer # <<>> => IsAnswer(answer[1])

(* The line buffer is cleared, gets a byte or stays.                       *)
LEMMA InputStep ==
  ASSUME [Next]_vars
  PROVE  \/ input' = input /\ overflow' = overflow
         \/ input' = <<>> /\ overflow' = FALSE
         \/ ReadText
<1>1. CASE Disconnected \/ ReadLF
  BY <1>1 DEF Disconnected, ReadLF, ClearInput
<1>2. CASE \/ BeginPass \/ EndPass \/ Emit \/ UNCHANGED vars
  BY <1>2 DEF BeginPass, EndPass, Emit, vars, inputVars
<1>3. CASE \/ WriteByte \/ HostReads \/ OpenPort \/ ClosePort \/ Suspend \/ Resume
           \/ \E kind \in Kinds : BeginLine(kind)
  BY <1>3 DEF WriteByte, HostReads, OpenPort, ClosePort, Suspend, Resume, BeginLine,
              firmwareVars, inputVars
<1>4. QED
  BY <1>1, <1>2, <1>3 DEF Next

(* The line that ends, and its end.                                        *)
LEMMA FlowHead ==
  ASSUME TypeOK, FlowWritten, NextByte
  PROVE  /\ Len(Flow) >= 1 /\ Len(Flow) \in Nat /\ Flow[1] = Head(rx)
         /\ Head(rx).line \in 1..Len(kinds)
         /\ kinds[Head(rx).line] \in Kinds
         /\ Head(rx).at \in 1..Len(Written(kinds[Head(rx).line]))
         /\ Text(Head(rx)) = "LF" <=> Head(rx).at = Size(Head(rx).line)
<1>1. Len(Flow) >= 1 /\ Len(Flow) \in Nat /\ Flow[1] = Head(rx)
  BY FlowRead, FlowTyped
<1>2. /\ Flow[1].line \in Nat /\ Flow[1].line >= 1
      /\ Flow[1].at \in Nat /\ Flow[1].at >= 1
  <2>1. 1 \in 1..Len(Flow)
    BY <1>1
  <2>2. QED
    BY <2>1, FlowTyped
<1>3. Flow[1].line <= Len(kinds) /\ Flow[1].at <= Size(Flow[1].line)
  BY <1>1 DEF FlowWritten
<1>4. kinds \in Seq(Kinds)
  BY DEF TypeOK
<1>5. Flow[1].line \in 1..Len(kinds) /\ kinds[Flow[1].line] \in Kinds
  BY <1>2, <1>3, <1>4
<1>6. Flow[1].at \in 1..Len(Written(kinds[Flow[1].line]))
  BY <1>2, <1>3, <1>5, WrittenSize DEF Size
<1>7. Text(Flow[1]) = "LF" <=> Flow[1].at = Size(Flow[1].line)
  BY <1>5, <1>6, WrittenFacts DEF Text, Size
<1>8. QED
  BY <1>1, <1>5, <1>6, <1>7

(* An answer on its way stays due.                                         *)
LEMMA DueStays ==
  ASSUME TypeOK, TypeOK', FlowWritten, [Next]_vars, NEW a \in Answers, Due(a),
         mapping' = mapping \/ a.to < mapping'
  PROVE  Due(a)'
<1>1. a.to \in Nat /\ Len(kinds) \in Nat
  BY DEF Answers, Ids, TypeOK
<1>2. a.to <= Len(kinds')
  <2>1. CASE kinds' = kinds
    BY <2>1 DEF Due
  <2>2. ASSUME NEW kind \in Kinds, BeginLine(kind)
        PROVE  a.to <= Len(kinds')
    <3>1. Len(kinds') = Len(kinds) + 1
      BY <2>2, FlowBegin
    <3>2. QED
      BY <1>1, <3>1 DEF Due
  <2>3. QED
    BY <2>1, <2>2, FlowStep
<1>3. \A j \in 1..Len(input') : a.to < input'[j].line
  <2>1. CASE input' = input
    BY <2>1 DEF Due
  <2>2. CASE input' = <<>>
    BY <2>2
  <2>3. CASE ReadText
    <3>1. a.to < Head(rx).line
      <4>1. Flow[1] = Head(rx) /\ 1 \in 1..Len(Flow)
        BY <2>3, FlowHead DEF ReadText
      <4>2. QED
        BY <4>1 DEF Due
    <3>2. input' = Append(input, Head(rx)) \/ input' = input
      BY <2>3 DEF ReadText
    <3>3. input \in Seq(Bytes)
      BY DEF TypeOK
    <3>4. CASE input' = Append(input, Head(rx))
      <4>1. Len(input') = Len(input) + 1 /\ Len(input) \in Nat
            /\ input'[Len(input) + 1] = Head(rx)
            /\ \A j \in 1..Len(input) : input'[j] = input[j]
        BY <3>3, <3>4
      <4>2. QED
        BY <3>1, <4>1 DEF Due
    <3>5. QED
      BY <2>1, <3>2, <3>4
  <2>4. QED
    BY <2>1, <2>2, <2>3, InputStep
<1>4. \A j \in 1..Len(Flow') : a.to < Flow'[j].line
  <2>1. ASSUME Flow' \in Seq(Bytes), NEW d \in 0..1, Segment(Flow', Flow, d)
        PROVE  \A j \in 1..Len(Flow') : a.to < Flow'[j].line
    <3>1. \A j \in 1..Len(Flow') : j + d \in 1..Len(Flow) /\ Flow'[j] = Flow[j + d]
      BY <2>1, FlowTyped DEF Segment
    <3>2. QED
      BY <3>1 DEF Due
  <2>2. ASSUME NEW kind \in Kinds, BeginLine(kind)
        PROVE  \A j \in 1..Len(Flow') : a.to < Flow'[j].line
    <3>1. /\ Len(Written(kind)) \in Nat /\ Len(Flow) \in Nat
          /\ Len(Flow') = Len(Flow) + Len(Written(kind))
          /\ \A i \in 1..Len(Flow) : Flow'[i] = Flow[i]
          /\ \A i \in 1..Len(Written(kind)) :
               Flow'[Len(Flow) + i] = [line |-> Len(kinds) + 1, at |-> i]
      BY <2>2, FlowBegin, FlowTyped, WrittenSize
    <3>2. ASSUME NEW j \in 1..Len(Flow')
          PROVE  a.to < Flow'[j].line
      <4>1. CASE j <= Len(Flow)
        BY <3>1, <4>1 DEF Due
      <4>2. CASE j > Len(Flow)
        <5>1. j - Len(Flow) \in 1..Len(Written(kind)) /\ Len(Flow) + (j - Len(Flow)) = j
          BY <3>1, <4>2
        <5>2. Flow'[j] = [line |-> Len(kinds) + 1, at |-> j - Len(Flow)]
          BY <3>1, <5>1
        <5>3. Flow'[j].line = Len(kinds) + 1
          BY <5>2
        <5>4. QED
          BY <1>1, <5>3 DEF Due
      <4>3. QED
        BY <3>1, <4>1, <4>2
    <3>3. QED
      BY <3>2
  <2>3. QED
    BY <2>1, <2>2, FlowStep
<1>5. a.to >= mapping' => a.mapping = mapping'
  <2>1. mapping' \in Nat
    BY DEF TypeOK
  <2>2. CASE mapping' = mapping
    BY <2>2 DEF Due
  <2>3. CASE a.to < mapping'
    BY <1>1, <2>1, <2>3
  <2>4. QED
    BY <2>2, <2>3
<1>6. QED
  BY <1>2, <1>3, <1>4, <1>5 DEF Due

(* The answer to a line that ended is due.                                 *)
LEMMA NewDue ==
  ASSUME TypeOK, TypeOK', FlowWritten, FlowInOrder, ReadLF,
         NEW a, a.to = Head(rx).line, a.mapping = mapping'
  PROVE  Due(a)'
<1>0. NextByte /\ Text(Head(rx)) = "LF" /\ input' = <<>>
  BY DEF ReadLF, ClearInput
<1>1. /\ Len(Flow) \in Nat /\ Len(Flow) >= 1 /\ Flow[1] = Head(rx)
      /\ Head(rx).line \in 1..Len(kinds) /\ Head(rx).at = Size(Head(rx).line)
  BY <1>0, FlowHead
<1>2. kinds' = kinds /\ Len(Flow') = Len(Flow) - 1
      /\ \A j \in 1..Len(Flow') : Flow'[j] = Flow[j + 1]
  BY <1>0, FlowRead DEF Segment
<1>3. \A j \in 1..Len(Flow') : a.to < Flow'[j].line
  <2>1. ASSUME NEW j \in 1..Len(Flow')
        PROVE  Flow[1].line < Flow[j + 1].line
    <3>1. j + 1 \in 1..Len(Flow) /\ 1 \in 1..Len(Flow) /\ 1 < j + 1
      BY <1>1, <1>2
    <3>2. Flow[j + 1].at <= Size(Flow[j + 1].line) /\ Flow[j + 1].at \in Nat
      BY <3>1, FlowTyped DEF FlowWritten
    <3>3. Flow[1].at \in Nat
      BY <3>1, FlowTyped
    <3>4. Earlier(Flow[1], Flow[j + 1])
      BY <3>1 DEF FlowInOrder
    <3>5. Flow[1].line # Flow[j + 1].line
      <4>1. SUFFICES ASSUME Flow[1].line = Flow[j + 1].line
                     PROVE  FALSE
        OBVIOUS
      <4>2. Flow[1].at = Size(Flow[j + 1].line)
        BY <1>1, <4>1
      <4>3. Flow[1].at < Flow[j + 1].at
        <5>1. Flow[1].line \in Nat
          BY <3>1, FlowTyped
        <5>2. QED
          BY <3>4, <4>1, <5>1 DEF Earlier
      <4>4. QED
        BY <3>2, <3>3, <4>2, <4>3
    <3>6. QED
      BY <3>4, <3>5 DEF Earlier
  <2>2. QED
    BY <1>1, <1>2, <2>1
<1>4. a.to <= Len(kinds')
  BY <1>1, <1>2
<1>5. QED
  BY <1>0, <1>3, <1>4 DEF Due

(* Only the end of a line changes a mapping.                               *)
LEMMA MappingStays ==
  ASSUME [Next]_vars, ~ReadLF
  PROVE  mapping' = mapping /\ stored' = stored
<1>1. CASE Disconnected \/ BeginPass \/ ReadText \/ EndPass \/ Emit \/ UNCHANGED vars
  BY <1>1 DEF Disconnected, BeginPass, ReadText, EndPass, Emit, vars, configVars
<1>2. CASE \/ WriteByte \/ HostReads \/ OpenPort \/ ClosePort \/ Suspend \/ Resume
           \/ \E kind \in Kinds : BeginLine(kind)
  BY <1>2 DEF WriteByte, HostReads, OpenPort, ClosePort, Suspend, Resume, BeginLine,
              firmwareVars, configVars
<1>3. QED
  BY <1>1, <1>2 DEF Next

(* A mapping that is put to use was stored, by a line whose command is in  *)
(* input_.                                                                 *)
LEMMA MappingRead ==
  ASSUME TypeOK, ReadLF
  PROVE  \/ mapping' = mapping /\ stored' = stored
         \/ /\ mapping' = CommandLine /\ stored' = CommandLine
            /\ ~overflow /\ Command /\ CommandKind \in {"set", "long", "control"}
            /\ \E i \in 1..Len(input) : Text(input[i]) = "command" /\ CommandLine = input[i].line
<1>1. InputTyped /\ ConfigTyped /\ QueueFits(Queue) /\ HostTyped
  BY TypeParts DEF Typed
<1>2. CASE UNCHANGED configVars
  BY <1>2 DEF configVars
<1>3. CASE ~overflow /\ HandleLine(Head(rx).line)
  <2>1. Head(rx).line \in Ids
    BY <1>1, HeadTyped DEF ReadLF, NextByte, Reading
  <2>2. CASE /\ Command /\ CommandKind \in {"set", "long", "control"}
             /\ mapping' = CommandLine /\ stored' = CommandLine
    BY <1>1, <1>3, <2>2, CommandTyped DEF Command
  <2>3. QED
    BY <1>1, <1>2, <1>3, <2>1, <2>2, HandleLineTyped
<1>4. QED
  BY <1>2, <1>3 DEF ReadLF

(* What the answers on their way are, inductively.                         *)
AnswersSound == InOrder(OnTheWay) /\ AnswersAreDue /\ mapping = stored /\ AnswerIsRead

(* No answer is on its way at boot.                                        *)
LEMMA AnswersSoundInit == Init => AnswersSound
<1> SUFFICES ASSUME Init PROVE AnswersSound
  OBVIOUS
<1>1. OnTheWay = <<>>
  BY DEF Init, OnTheWay, Pending
<1>2. InOrder(OnTheWay) /\ AnswersAreDue
  BY <1>1 DEF InOrder, AnswersAreDue, AnswersIn
<1>3. QED
  BY <1>2 DEF AnswersSound, AnswerIsRead, Init

(* The answers on their way are answers.                                   *)
LEMMA AnswersTyped ==
  ASSUME TypeOK
  PROVE  \A a \in AnswersIn(OnTheWay) : a \in Answers
<1>1. ASSUME NEW a \in AnswersIn(OnTheWay)
      PROVE  a \in Answers
  <2>1. PICK i \in 1..Len(OnTheWay) : a = OnTheWay[i].of /\ IsAnswer(OnTheWay[i])
    BY DEF AnswersIn
  <2>2. OnTheWay[i] \in Units
    BY <2>1, PartsTyped
  <2>3. QED
    BY <2>1, <2>2 DEF IsAnswer, Units
<1>2. QED
  BY <1>1

(* Every step keeps the answers in order and true.                         *)
LEMMA AnswersSoundStep ==
  ASSUME TypeOK, TypeOK', FlowWritten, FlowInOrder, AnswersSound, [Next]_vars
  PROVE  AnswersSound'
<1>1. AnswerIsRead'
  <2>1. CASE answer' = answer
    BY <2>1 DEF AnswersSound, AnswerIsRead, IsAnswer
  <2>2. CASE answer' = <<>>
    BY <2>2 DEF AnswerIsRead
  <2>3. CASE HostReads
    <3>1. CASE Head(fifo).part = 2 /\ Head(fifo).of # Event /\ answer' = <<Head(fifo)>>
      BY <3>1 DEF AnswerIsRead, IsAnswer
    <3>2. QED
      BY <2>1, <2>3, <3>1 DEF HostReads
  <2>4. CASE Disconnected \/ BeginPass \/ EndPass \/ Emit \/ ReadLF \/ ReadText
    <3>1. answer' = answer
      BY <2>4 DEF Disconnected, BeginPass, EndPass, Emit, ReadLF, ReadText, NextByte, hostVars
    <3>2. QED
      BY <2>1, <3>1
  <2>5. CASE \/ WriteByte \/ OpenPort \/ ClosePort \/ Suspend \/ Resume \/ UNCHANGED vars
             \/ \E kind \in Kinds : BeginLine(kind)
    <3>1. answer' = answer \/ answer' = <<>>
      BY <2>5 DEF WriteByte, OpenPort, ClosePort, Suspend, Resume, BeginLine, vars, hostVars
    <3>2. QED
      BY <2>1, <2>2, <3>1
  <2>6. QED
    BY <2>3, <2>4, <2>5 DEF Next
<1>2. CASE ~ReadLF
  <2>1. InOrder(OnTheWay') /\ AnswersIn(OnTheWay') \subseteq AnswersIn(OnTheWay)
    BY <1>2, WayStep DEF AnswersSound
  <2>2. mapping' = mapping /\ stored' = stored
    BY <1>2, MappingStays
  <2>3. \A a \in AnswersIn(OnTheWay') : Due(a)'
    <3>1. ASSUME NEW a \in AnswersIn(OnTheWay')
          PROVE  Due(a)'
      <4>1. a \in Answers /\ Due(a)
        BY <2>1, AnswersTyped DEF AnswersSound, AnswersAreDue
      <4>2. QED
        BY <2>2, <4>1, DueStays
    <3>2. QED
      BY <3>1
  <2>4. QED
    BY <1>1, <2>1, <2>2, <2>3 DEF AnswersSound, AnswersAreDue
<1>3. CASE ReadLF
  <2> DEFINE n == Head(rx).line
  <2>1. /\ Flow[1] = Head(rx) /\ Len(Flow) >= 1 /\ Len(Flow) \in Nat
        /\ n \in Ids /\ answer' = answer
    BY <1>3, FlowHead DEF ReadLF, NextByte, hostVars, Ids
  <2>2. \A a \in AnswersIn(OnTheWay) : a.to < n /\ Due(a) /\ a \in Answers
    <3>1. 1 \in 1..Len(Flow)
      BY <2>1
    <3>2. QED
      BY <2>1, <3>1, AnswersTyped DEF AnswersSound, AnswersAreDue, Due
  <2>3. mapping' = stored'
    BY <1>3, MappingRead DEF AnswersSound
  <2>4. ASSUME NEW a \in AnswersIn(OnTheWay)
        PROVE  Due(a)'
    <3>1. mapping' = mapping \/ a.to < mapping'
      BY <1>3, <2>2, MappingRead DEF Due
    <3>2. QED
      BY <2>2, <3>1, DueStays
  <2>5. CASE UNCHANGED <<sendVars, lost, configVars>>
    <3>1. OnTheWay' = OnTheWay
      BY <2>1, <2>5, SameQueue, WayNext
    <3>2. QED
      BY <1>1, <2>3, <2>4, <3>1 DEF AnswersSound, AnswersAreDue
  <2>6. ASSUME NEW q \in {Queue, WriteLine(Queue, Event)}, NEW status \in Statuses,
               Respond(q, n, status, mapping')
        PROVE  AnswersSound'
    <3> DEFINE m == [to |-> n, status |-> status, mapping |-> mapping']
    <3>1. InOrder(OnTheWay') /\ AnswersIn(OnTheWay') \subseteq AnswersIn(OnTheWay) \union {m}
      BY <2>1, <2>2, <2>6, RespondWay DEF AnswersSound
    <3>2. ASSUME NEW a \in AnswersIn(OnTheWay')
          PROVE  Due(a)'
      <4>1. CASE a \in AnswersIn(OnTheWay)
        BY <2>4, <4>1
      <4>2. CASE a = m
        <5>1. a.to = Head(rx).line /\ a.mapping = mapping'
          BY <4>2
        <5>2. QED
          BY <1>3, <5>1, NewDue
      <4>3. QED
        BY <3>1, <4>1, <4>2
    <3>3. QED
      BY <1>1, <2>3, <3>1, <3>2 DEF AnswersSound, AnswersAreDue
  <2>7. QED
    BY <1>3, <2>5, <2>6, ReadLFStep
<1>4. QED
  BY <1>2, <1>3

FlowSound == FlowWritten /\ FlowInOrder

(* These three hold together.                                              *)
LEMMA SetupSound == Spec => [](TypeOK /\ FlowSound /\ AnswersSound)
<1>1. Init => TypeOK /\ FlowSound /\ AnswersSound
  BY TypeInit, FlowSoundInit, AnswersSoundInit DEF FlowSound
<1>2. TypeOK /\ FlowSound /\ AnswersSound /\ [Next]_vars => (TypeOK /\ FlowSound /\ AnswersSound)'
  <2> SUFFICES ASSUME TypeOK, FlowSound, AnswersSound, [Next]_vars
               PROVE  TypeOK' /\ FlowSound' /\ AnswersSound'
    OBVIOUS
  <2>1. TypeOK'
    BY TypeStep
  <2>2. FlowSound'
    BY FlowSoundStep DEF FlowSound
  <2>3. AnswersSound'
    BY <2>1, AnswersSoundStep DEF FlowSound
  <2>4. QED
    BY <2>1, <2>2, <2>3
<1>3. QED
  BY <1>1, <1>2, PTL DEF Spec

(* Answers come in the order of their lines, each at most once, for any    *)
(* pipelining, events and losses (config_service.cpp:348-351).             *)
THEOREM SetupAnswersInOrder == Spec => []AnswersInOrder
<1>1. AnswersSound => AnswersInOrder
  BY DEF AnswersSound, InOrder, AnswersInOrder
<1>2. QED
  BY <1>1, SetupSound, PTL

(* The mapping in use is the one stored, and the answer read last reports  *)
(* it, unless a later line changed it (config_service.cpp:282-299,         *)
(* 337-346).                                                               *)
THEOREM SetupHostKnowsMapping == Spec => []HostKnowsMapping
<1>1. TypeOK /\ AnswersSound => HostKnowsMapping
  <2> SUFFICES ASSUME TypeOK, AnswersSound PROVE HostKnowsMapping
    OBVIOUS
  <2>1. ASSUME answer # <<>>, answer[1].of.to >= mapping
        PROVE  answer[1].of.mapping = mapping
    <3>1. answer \in Seq(Units) /\ Way(Queue) \in Seq(Units)
          /\ OnTheWay = answer \o Way(Queue)
      BY PartsTyped
    <3> DEFINE w == Way(Queue)
    <3> HIDE DEF w
    <3>2. Len(answer) >= 1 /\ Len(answer) \in Nat
      BY <2>1, <3>1
    <3>3. (answer \o w)[1] = answer[1] /\ Len(answer \o w) >= 1 /\ Len(answer \o w) \in Nat
      <4>1. answer \in Seq(Units) /\ w \in Seq(Units)
        BY <3>1 DEF w
      <4>2. /\ Len(answer \o w) = Len(answer) + Len(w) /\ Len(w) \in Nat
            /\ \A i \in 1..Len(answer) : (answer \o w)[i] = answer[i]
        BY <4>1, JoinSeq
      <4>3. QED
        BY <3>2, <4>2
    <3>4. IsAnswer(answer[1])
      BY <2>1 DEF AnswersSound, AnswerIsRead
    <3>5. answer[1].of \in AnswersIn(OnTheWay)
      <4>1. OnTheWay[1] = answer[1] /\ 1 \in 1..Len(OnTheWay)
        BY <3>1, <3>3 DEF w
      <4>2. QED
        BY <3>4, <4>1 DEF AnswersIn
    <3>6. QED
      BY <2>1, <3>5 DEF AnswersSound, AnswersAreDue, Due
  <2>2. QED
    BY <2>1 DEF AnswersSound, HostKnowsMapping
<1>2. QED
  BY <1>1, SetupSound, PTL
-----------------------------------------------------------------------------
(* The lines being read.                                                   *)

(* Bytes follow each other as written; only a line that is cut comes       *)
(* behind an unfinished one.                                               *)
Follows(a, b) ==
  \/ b.line = a.line /\ b.at = a.at + 1
  \/ b.line > a.line /\ b.at = 1 /\ (b.line \in cut \/ a.at = Size(a.line))

FlowFollows == \A i \in 1..Len(Flow) - 1 : Follows(Flow[i], Flow[i + 1])

(* The line begun next is cut if it will follow an unfinished one.         *)
CutAhead == port /\ rest = <<>> /\ Unfinished => Len(kinds) + 1 \in cut

(* No line cut is ever taken for a whole one again.                        *)
LEMMA CutGrows ==
  ASSUME [Next]_vars
  PROVE  cut \subseteq cut' /\ (cut' = cut \/ Disconnected \/ OpenPort)
<1>1. CASE Disconnected \/ OpenPort
  BY <1>1 DEF Disconnected, OpenPort
<1>2. CASE BeginPass \/ ReadLF \/ ReadText \/ EndPass \/ Emit \/ UNCHANGED vars
  BY <1>2 DEF BeginPass, ReadLF, ReadText, NextByte, EndPass, Emit, vars
<1>3. CASE \/ WriteByte \/ HostReads \/ ClosePort \/ Suspend \/ Resume
           \/ \E kind \in Kinds : BeginLine(kind)
  BY <1>3 DEF WriteByte, HostReads, ClosePort, Suspend, Resume, BeginLine
<1>4. QED
  BY <1>1, <1>2, <1>3 DEF Next

(* Every step leaves only cut lines behind unfinished ones.                *)
LEMMA FlowFollowsStep ==
  ASSUME TypeOK, FlowWritten, FlowFollows, CutAhead, [Next]_vars
  PROVE  FlowFollows'
<1>1. ASSUME kinds' = kinds, Flow' \in Seq(Bytes), NEW d \in 0..1, Segment(Flow', Flow, d)
      PROVE  FlowFollows'
  <2>1. /\ Len(Flow') \in Nat /\ Len(Flow) \in Nat
        /\ \A i \in 1..Len(Flow') : i + d \in 1..Len(Flow) /\ Flow'[i] = Flow[i + d]
    BY <1>1, FlowTyped DEF Segment
  <2>2. ASSUME NEW i \in 1..Len(Flow') - 1
        PROVE  \/ Flow'[i + 1].line = Flow'[i].line /\ Flow'[i + 1].at = Flow'[i].at + 1
               \/ /\ Flow'[i + 1].line > Flow'[i].line /\ Flow'[i + 1].at = 1
                  /\ \/ Flow'[i + 1].line \in cut'
                     \/ Flow'[i].at = Len(Written(kinds'[Flow'[i].line]))
    <3>1. i + d \in 1..Len(Flow) - 1 /\ i + 1 \in 1..Len(Flow') /\ i \in 1..Len(Flow')
          /\ (i + 1) + d = (i + d) + 1
      BY <2>1
    <3>2. Follows(Flow[i + d], Flow[(i + d) + 1])
      BY <3>1 DEF FlowFollows
    <3>3. Flow'[i] = Flow[i + d] /\ Flow'[i + 1] = Flow[(i + d) + 1]
      BY <2>1, <3>1
    <3>4. Follows(Flow'[i], Flow'[i + 1])
      BY <3>2, <3>3
    <3>5. cut \subseteq cut'
      BY CutGrows
    <3>6. QED
      BY <1>1, <3>4, <3>5 DEF Follows, Size
  <2>3. QED
    BY <2>1, <2>2 DEF FlowFollows, Follows, Size
<1>2. ASSUME NEW kind \in Kinds, BeginLine(kind)
      PROVE  FlowFollows'
  <2> DEFINE w == Len(Written(kind))
             f == Len(Flow)
             n == Len(kinds) + 1
  <2>1. /\ w \in Nat /\ f \in Nat /\ Len(kinds) \in Nat
        /\ \A l \in 1..Len(kinds) : kinds'[l] = kinds[l]
        /\ Len(Flow') = f + w
        /\ \A i \in 1..f : Flow'[i] = Flow[i]
        /\ \A i \in 1..w : Flow'[f + i] = [line |-> n, at |-> i]
    BY <1>2, FlowBegin, FlowTyped, WrittenSize
  <2>0. kinds \in Seq(Kinds)
    BY DEF TypeOK
  <2>2. \A i \in 1..f : /\ Flow[i].line \in 1..Len(kinds)
                        /\ Flow[i].at \in 1..Len(Written(kinds[Flow[i].line]))
    <3>1. ASSUME NEW i \in 1..f
          PROVE  /\ Flow[i].line \in 1..Len(kinds)
                 /\ Flow[i].at \in 1..Len(Written(kinds[Flow[i].line]))
      <4>1. /\ Flow[i].line \in Nat /\ Flow[i].line >= 1
            /\ Flow[i].at \in Nat /\ Flow[i].at >= 1
        BY FlowTyped
      <4>2. Flow[i].line <= Len(kinds) /\ Flow[i].at <= Len(Written(kinds[Flow[i].line]))
        BY DEF FlowWritten, Size
      <4>3. Flow[i].line \in 1..Len(kinds) /\ kinds[Flow[i].line] \in Kinds
        <5>1. Flow[i].line \in 1..Len(kinds)
          BY <2>1, <4>1, <4>2
        <5>2. QED
          BY <2>0, <5>1
      <4>4. Len(Written(kinds[Flow[i].line])) \in Nat
        BY <4>3, WrittenSize
      <4>5. QED
        BY <4>1, <4>2, <4>3, <4>4
    <3>2. QED
      BY <3>1
  <2>3. f >= 1 => n \in cut \/ Flow[f].at = Len(Written(kinds[Flow[f].line]))
    <3>1. SUFFICES ASSUME f >= 1
                   PROVE  n \in cut \/ Flow[f].at = Len(Written(kinds[Flow[f].line]))
      OBVIOUS
    <3>2. /\ port /\ rest = <<>> /\ Len(rx) = f /\ f \in 1..f
          /\ rx # <<>> /\ Flow[f] = rx[Len(rx)]
      BY <1>2, <2>1, <3>1, FlowBegin, FlowTyped
    <3>3. kinds[Flow[f].line] \in Kinds
      <4>1. Flow[f].line \in 1..Len(kinds)
        BY <2>2, <3>2
      <4>2. QED
        BY <2>0, <4>1
    <3>4. CASE Text(Flow[f]) = "LF"
      BY <2>2, <3>2, <3>3, <3>4, WrittenFacts DEF Text
    <3>5. CASE Text(Flow[f]) # "LF"
      BY <3>2, <3>5 DEF CutAhead, Unfinished
    <3>6. QED
      BY <3>4, <3>5
  <2> HIDE DEF w, f, n
  <2>4. \A i \in f + 1..f + w : Flow'[i].line = n /\ Flow'[i].at = i - f
    <3>1. ASSUME NEW i \in f + 1..f + w
          PROVE  Flow'[i].line = n /\ Flow'[i].at = i - f
      <4>1. i - f \in 1..w /\ f + (i - f) = i
        BY <2>1
      <4>2. Flow'[i] = [line |-> n, at |-> i - f]
        BY <2>1, <4>1
      <4>3. QED
        BY <4>2
    <3>2. QED
      BY <3>1
  <2>5. cut \subseteq cut' /\ n > Len(kinds)
    BY <2>1, CutGrows DEF n
  <2>6. ASSUME NEW i \in 1..Len(Flow') - 1
        PROVE  \/ Flow'[i + 1].line = Flow'[i].line /\ Flow'[i + 1].at = Flow'[i].at + 1
               \/ /\ Flow'[i + 1].line > Flow'[i].line /\ Flow'[i + 1].at = 1
                  /\ \/ Flow'[i + 1].line \in cut'
                     \/ Flow'[i].at = Len(Written(kinds'[Flow'[i].line]))
    <3>1. CASE i < f
      <4>1. i \in 1..f /\ i + 1 \in 1..f /\ i \in 1..f - 1
        BY <2>1, <3>1
      <4>2. Follows(Flow[i], Flow[i + 1])
        BY <4>1 DEF FlowFollows, f
      <4>3. Flow'[i] = Flow[i] /\ Flow'[i + 1] = Flow[i + 1]
            /\ kinds'[Flow[i].line] = kinds[Flow[i].line]
        BY <2>1, <2>2, <4>1
      <4>4. QED
        BY <2>5, <4>2, <4>3 DEF Follows, Size
    <3>2. CASE i = f
      <4>1. i \in 1..f /\ i + 1 \in f + 1..f + w
        BY <2>1, <3>2
      <4>2. /\ Flow'[i] = Flow[f] /\ kinds'[Flow[f].line] = kinds[Flow[f].line]
            /\ Flow[f].line \in 1..Len(kinds)
        BY <2>1, <2>2, <3>2, <4>1
      <4>3. Flow'[i + 1].line = n /\ Flow'[i + 1].at = 1
        BY <2>1, <2>4, <3>2, <4>1
      <4>4. n \in cut' \/ Flow[f].at = Len(Written(kinds[Flow[f].line]))
        BY <2>1, <2>3, <2>5, <3>2
      <4>5. n > Flow[f].line
        BY <2>1, <2>5, <4>2 DEF n
      <4>6. QED
        BY <4>2, <4>3, <4>4, <4>5
    <3>3. CASE i > f
      <4>1. i \in f + 1..f + w /\ i + 1 \in f + 1..f + w
        BY <2>1, <3>3
      <4>2. /\ Flow'[i].line = n /\ Flow'[i].at = i - f
            /\ Flow'[i + 1].line = n /\ Flow'[i + 1].at = (i + 1) - f
        BY <2>4, <4>1
      <4>3. QED
        BY <2>1, <4>1, <4>2
    <3>4. QED
      BY <2>1, <3>1, <3>2, <3>3
  <2>7. QED
    BY <2>6 DEF FlowFollows, Follows, Size
<1>3. QED
  BY <1>1, <1>2, FlowStep

(* And the next line cut, if it is.                                        *)
LEMMA CutAheadStep ==
  ASSUME TypeOK, HostGoesOn, CutAhead, [Next]_vars
  PROVE  CutAhead'
<1>0. cut \subseteq cut'
  BY CutGrows
<1>1. CASE /\ kinds' = kinds /\ rest' = rest /\ rx' = rx /\ port' = port
           /\ input' = input /\ overflow' = overflow
  BY <1>0, <1>1 DEF CutAhead, Unfinished, Text
<1>2. CASE BeginPass \/ EndPass \/ Emit \/ HostReads \/ Suspend \/ Resume \/ UNCHANGED vars
  <2>1. kinds' = kinds /\ rest' = rest /\ rx' = rx
    BY <1>2, FlowStays
  <2>2. port' = port /\ input' = input /\ overflow' = overflow
    BY <1>2 DEF BeginPass, EndPass, Emit, HostReads, Suspend, Resume, vars, hostVars,
                inputVars, firmwareVars
  <2>3. QED
    BY <1>1, <2>1, <2>2
<1>3. CASE Disconnected
  <2>1. kinds' = kinds /\ rest' = rest /\ rx' = rx /\ port' = port
        /\ input' = <<>> /\ overflow' = FALSE
    BY <1>3 DEF Disconnected, hostVars, ClearInput
  <2>2. QED
    BY <1>0, <2>1 DEF CutAhead, Unfinished, Text
<1>4. CASE OpenPort
  <2>1. kinds' = kinds /\ rx' = rx /\ input' = input /\ overflow' = overflow
        /\ cut' = IF Unfinished THEN cut \union {Len(kinds) + 1} ELSE cut
    BY <1>4 DEF OpenPort, firmwareVars, inputVars
  <2>2. Unfinished' <=> Unfinished
    BY <2>1 DEF Unfinished, Text
  <2>3. QED
    BY <2>1, <2>2 DEF CutAhead
<1>5. CASE ClosePort
  BY <1>5 DEF ClosePort, CutAhead
<1>6. ASSUME NEW kind \in Kinds, BeginLine(kind)
      PROVE  CutAhead'
  <2>1. Len(rest') >= 2
    BY <1>6, FlowBegin, WrittenSize
  <2>2. rest' # <<>>
    BY <2>1
  <2>3. QED
    BY <2>2 DEF CutAhead
<1>7. CASE WriteByte
  <2>1. /\ kinds' = kinds /\ Len(rx') = Len(rx) + 1 /\ rx'[Len(rx')] = rest[1]
        /\ Len(rest) >= 1 /\ Len(rest') = Len(rest) - 1 /\ Len(rest) \in Nat /\ Len(rx) \in Nat
    BY <1>7, FlowWrite, FlowTyped
  <2>2. CASE rest' = <<>>
    <3>1. Len(rest) = 1 /\ 1 \in 1..Len(rest) /\ rest # <<>>
      BY <2>1, <2>2
    <3>2. kinds # <<>> /\ rest[1] = [line |-> Len(kinds), at |-> Size(Len(kinds)) - Len(rest) + 1]
      BY <3>1 DEF HostGoesOn
    <3>3. kinds \in Seq(Kinds)
      BY DEF TypeOK
    <3>4. kinds[Len(kinds)] \in Kinds
      BY <3>2, <3>3
    <3> DEFINE w == Len(Written(kinds[Len(kinds)]))
    <3>5. w \in Nat /\ w >= 2
      BY <3>4, WrittenSize
    <3>6. Size(Len(kinds)) = w
      BY DEF Size
    <3>7. rest[1].line = Len(kinds) /\ rest[1].at = w - Len(rest) + 1
      BY <3>2, <3>6
    <3>8. Written(kinds[Len(kinds)])[w] = "LF"
      <4>1. w \in 1..Len(Written(kinds[Len(kinds)]))
        BY <3>5
      <4>2. QED
        BY <3>4, <4>1, WrittenFacts
    <3> HIDE DEF w
    <3>9. rest[1].at = w
      BY <3>1, <3>5, <3>7
    <3>10. rx' # <<>>
      BY <2>1
    <3>11. Text(rx[Len(rx)])' = "LF"
      BY <2>1, <3>7, <3>8, <3>9 DEF Text
    <3>12. QED
      BY <3>10, <3>11 DEF CutAhead, Unfinished
  <2>3. CASE rest' # <<>>
    BY <2>3 DEF CutAhead
  <2>4. QED
    BY <2>2, <2>3
<1>8. CASE ReadLF \/ ReadText
  <2>1. NextByte
    BY <1>8 DEF ReadLF, ReadText
  <2>2. /\ kinds' = kinds /\ rest' = rest /\ port' = port /\ Len(rx) \in Nat
        /\ Len(rx) >= 1 /\ rx[1] = Head(rx)
        /\ Len(rx') = Len(rx) - 1 /\ \A i \in 1..Len(rx') : rx'[i] = rx[i + 1]
    BY <2>1, FlowRead, FlowTyped
  <2>3. CASE rx' # <<>>
    <3>1. Len(rx') \in Nat /\ Len(rx') # 0
      <4>1. rx' \in Seq(Bytes)
        BY <2>1, TailSeq DEF NextByte, Reading, TypeOK
      <4>2. QED
        BY <2>3, <4>1
    <3>2. Len(rx') \in 1..Len(rx') /\ Len(rx') + 1 = Len(rx) /\ rx # <<>>
      BY <2>2, <3>1
    <3>3. rx'[Len(rx')] = rx[Len(rx)]
      BY <2>2, <3>2
    <3>4. Unfinished' <=> Unfinished
      BY <2>2, <2>3, <3>2, <3>3 DEF Unfinished, Text
    <3>5. QED
      BY <1>0, <2>2, <3>4 DEF CutAhead
  <2>4. CASE rx' = <<>> /\ ReadLF
    BY <2>4 DEF ReadLF, ClearInput, CutAhead, Unfinished
  <2>5. CASE rx' = <<>> /\ ReadText
    <3>1. Len(rx) = 1 /\ rx # <<>>
      BY <2>2, <2>5
    <3>2. Text(rx[Len(rx)]) # "LF"
      BY <2>2, <2>5, <3>1 DEF ReadText
    <3>3. Unfinished
      BY <3>1, <3>2 DEF Unfinished
    <3>4. QED
      BY <1>0, <2>2, <3>3 DEF CutAhead
  <2>6. QED
    BY <1>8, <2>3, <2>4, <2>5
<1>9. QED
  BY <1>2, <1>3, <1>4, <1>5, <1>6, <1>7, <1>8 DEF Next

(* How many of the bytes of a line before its k-th are kept: no CR is.     *)
Kept(kind, k) == IF kind = "hook" /\ k = 5 THEN 3 ELSE k - 1

(* The bytes of a line before its k-th were fed to an empty buffer.        *)
Fed(n, k) ==
  /\ k = 1 => input = <<>> /\ ~overflow
  /\ k > 1 => input # <<>> /\ input[1] = [line |-> n, at |-> 1]
  /\ overflow => kinds[n] \in {"long", "control"}
  /\ ~overflow => /\ Len(input) = Kept(kinds[n], k)
                  /\ \A i \in 1..Len(input) : input[i] = [line |-> n, at |-> i]
                  /\ kinds[n] = "control" => k <= 2

(* The line being read, if it was not cut, was fed from its first byte.    *)
LineIsFed ==
  Len(Flow) >= 1 /\ Flow[1].line \notin cut => Fed(Flow[1].line, Flow[1].at)

(* An empty buffer was fed nothing.                                        *)
LEMMA FedNothing ==
  ASSUME NEW n, input' = <<>>, overflow' = FALSE
  PROVE  Fed(n, 1)'
  BY DEF Fed, Kept

(* A text byte is fed to the bytes before it.                              *)
LEMMA FedText ==
  ASSUME TypeOK, ReadText, NEW n \in 1..Len(kinds),
         NEW k \in 1..Len(Written(kinds[n])), Head(rx) = [line |-> n, at |-> k],
         Fed(n, k)
  PROVE  Fed(n, k + 1)'
<1> DEFINE kind == kinds[n]
           text == Written(kind)[k]
           kept == text \notin {"CR", "control"} /\ Len(input) < InputSize
<1>1. kind \in Kinds /\ kinds' = kinds
  <2>1. kinds \in Seq(Kinds) /\ kinds' = kinds
    BY DEF TypeOK, ReadText, NextByte, hostVars
  <2>2. QED
    BY <2>1
<1>2. /\ text # "LF"
      /\ input' = IF kept THEN Append(input, Head(rx)) ELSE input
      /\ overflow' = (overflow \/ (~kept /\ text # "CR"))
  <2>1. Text(Head(rx)) = text
    BY DEF Text
  <2>2. QED
    BY <2>1 DEF ReadText, Room
<1>3. /\ input \in Seq(Bytes) /\ Len(input) \in Nat /\ Len(input) <= InputSize
      /\ overflow \in BOOLEAN /\ InputSize \in Nat /\ InputSize >= 3
  BY SizesTyped DEF TypeOK
<1>4. /\ text = "CR" <=> k = 4 /\ kind = "hook"
      /\ text = "control" <=> k = 2 /\ kind = "control"
      /\ k # Len(Written(kind))
  BY <1>1, <1>2, WrittenFacts
<1>5. /\ kind = "long" => Len(Written(kind)) = InputSize + 2
      /\ kind \in {"get", "set", "bad"} => Len(Written(kind)) = 3
      /\ kind = "hook" => Len(Written(kind)) = 5
      /\ kind = "control" => Len(Written(kind)) = 4
      /\ kind = "bare" => Len(Written(kind)) = 2
  BY <1>1, WrittenBytes, Zenon
<1>6. k \in Nat /\ k >= 1 /\ k < Len(Written(kind)) /\ Len(Written(kind)) \in Nat
  BY <1>1, <1>4, WrittenSize
<1> HIDE DEF kind, text, kept
<1>7. CASE kept
  <2>1. /\ input' = Append(input, Head(rx)) /\ overflow' = overflow
        /\ text # "CR" /\ text # "control" /\ Len(input) < InputSize
    BY <1>2, <1>3, <1>7 DEF kept
  <2>2. /\ Len(input') = Len(input) + 1
        /\ input'[Len(input) + 1] = [line |-> n, at |-> k]
        /\ \A i \in 1..Len(input) : input'[i] = input[i]
    <3>1. Head(rx) \in Bytes
      <4>1. rx \in Seq(Bytes) /\ rx # <<>>
        BY DEF TypeOK, ReadText, NextByte, Reading
      <4>2. QED
        BY <4>1, TailSeq
    <3>2. QED
      BY <1>3, <2>1, <3>1
  <2>3. input' # <<>>
    BY <1>3, <2>2
  <2>4. input'[1] = [line |-> n, at |-> 1]
    <3>1. CASE k = 1
      <4>1. Len(input) = 0
        BY <3>1 DEF Fed
      <4>2. QED
        BY <2>2, <3>1, <4>1
    <3>2. CASE k > 1
      <4>1. input # <<>> /\ input[1] = [line |-> n, at |-> 1]
        BY <3>2 DEF Fed
      <4>2. 1 \in 1..Len(input)
        BY <1>3, <4>1
      <4>3. QED
        BY <2>2, <4>1, <4>2
    <3>3. QED
      BY <1>6, <3>1, <3>2
  <2>5. overflow' => kind \in {"long", "control"}
    BY <2>1 DEF Fed, kind
  <2>6. ASSUME ~overflow'
        PROVE  /\ Len(input') = Kept(kind, k + 1)
               /\ \A i \in 1..Len(input') : input'[i] = [line |-> n, at |-> i]
               /\ kind = "control" => k + 1 <= 2
    <3>1. /\ Len(input) = Kept(kind, k)
          /\ \A i \in 1..Len(input) : input[i] = [line |-> n, at |-> i]
          /\ kind = "control" => k <= 2
      BY <2>1, <2>6 DEF Fed, kind
    <3>2. kind = "hook" => k < 4
      <4>1. SUFFICES ASSUME kind = "hook" PROVE k < 4
        OBVIOUS
      <4>2. Len(Written(kind)) = 5 /\ k # 4
        BY <1>4, <1>5, <2>1, <4>1
      <4>3. QED
        BY <1>6, <4>2
    <3>3. Len(input) = k - 1 /\ Kept(kind, k + 1) = k
      BY <1>6, <3>1, <3>2 DEF Kept
    <3>4. kind = "control" => k # 2
      BY <1>4, <2>1
    <3>5. Len(input') = k /\ Len(input) + 1 = k
      BY <1>6, <2>2, <3>3
    <3>6. \A i \in 1..Len(input') : input'[i] = [line |-> n, at |-> i]
      <4>1. ASSUME NEW i \in 1..Len(input')
            PROVE  input'[i] = [line |-> n, at |-> i]
        <5>1. CASE i = k
          BY <2>2, <3>5, <5>1
        <5>2. CASE i # k
          <6>1. i \in 1..Len(input)
            BY <1>3, <3>5, <5>2
          <6>2. QED
            BY <2>2, <3>1, <6>1
        <5>3. QED
          BY <5>1, <5>2
      <4>2. QED
        BY <4>1
    <3>7. kind = "control" => k + 1 <= 2
      BY <1>6, <3>1, <3>4
    <3>8. QED
      BY <3>3, <3>5, <3>6, <3>7
  <2>7. k + 1 # 1
    BY <1>6
  <2>8. QED
    BY <1>1, <2>3, <2>4, <2>5, <2>6, <2>7 DEF Fed, kind
<1>8. CASE ~kept
  <2>1. input' = input /\ overflow' = (overflow \/ text # "CR")
    BY <1>2, <1>3, <1>8
  <2>2. k > 1
    <3>1. SUFFICES ASSUME k = 1 PROVE FALSE
      BY <1>6
    <3>2. input = <<>>
      BY <3>1 DEF Fed
    <3>3. Len(input) = 0
      BY <3>2
    <3>4. kept
      BY <1>3, <1>4, <3>1, <3>3 DEF kept
    <3>5. QED
      BY <1>8, <3>4
  <2>3. input # <<>> /\ input[1] = [line |-> n, at |-> 1]
    BY <2>2 DEF Fed
  <2>4. overflow' => kind \in {"long", "control"}
    <3>1. CASE overflow
      BY <3>1 DEF Fed, kind
    <3>2. CASE ~overflow /\ text # "CR"
      <4>1. CASE text = "control"
        BY <1>4, <4>1
      <4>2. CASE text # "control"
        <5>1. Len(input) >= InputSize
          BY <1>3, <1>8, <3>2, <4>2 DEF kept
        <5>2. Len(input) = Kept(kind, k)
          BY <3>2 DEF Fed, kind
        <5>3. k - 1 >= InputSize \/ (kind = "hook" /\ k = 5)
          BY <1>3, <1>6, <5>1, <5>2 DEF Kept
        <5>4. kind \notin {"get", "set", "bad", "bare"}
          <6>1. SUFFICES ASSUME kind \in {"get", "set", "bad", "bare"} PROVE FALSE
            OBVIOUS
          <6> DEFINE size == Len(Written(kind))
          <6>2. size = 3 \/ size = 2
            BY <1>5, <6>1
          <6>3. k - 1 >= InputSize
            BY <5>3, <6>1
          <6>4. k \in Nat /\ k < size /\ InputSize \in Nat /\ InputSize >= 3
            BY <1>3, <1>6
          <6> HIDE DEF size
          <6>5. k < 3
            BY <6>2, <6>4
          <6>6. QED
            BY <6>3, <6>4, <6>5
        <5>5. kind # "hook"
          <6>1. SUFFICES ASSUME kind = "hook" PROVE FALSE
            OBVIOUS
          <6>2. k < 5 /\ k # 4
            BY <1>4, <1>5, <1>6, <3>2, <6>1
          <6>3. QED
            BY <1>3, <1>6, <5>3, <6>2
        <5>6. QED
          BY <1>1, <5>4, <5>5 DEF Kinds, kind
      <4>3. QED
        BY <4>1, <4>2
    <3>3. QED
      BY <1>3, <2>1, <3>1, <3>2
  <2>5. ASSUME ~overflow'
        PROVE  /\ Len(input') = Kept(kind, k + 1)
               /\ \A i \in 1..Len(input') : input'[i] = [line |-> n, at |-> i]
               /\ kind = "control" => k + 1 <= 2
    <3>1. ~overflow /\ k = 4 /\ kind = "hook"
      BY <1>3, <1>4, <2>1, <2>5
    <3>2. /\ Len(input) = Kept(kind, k)
          /\ \A i \in 1..Len(input) : input[i] = [line |-> n, at |-> i]
      BY <3>1 DEF Fed, kind
    <3>3. Kept(kind, k) = 3 /\ Kept(kind, k + 1) = 3
      BY <3>1 DEF Kept
    <3>4. QED
      BY <2>1, <3>1, <3>2, <3>3
  <2>6. k + 1 # 1
    BY <1>6
  <2>7. QED
    BY <1>1, <2>1, <2>3, <2>4, <2>5, <2>6 DEF Fed, kind
<1>9. QED
  BY <1>7, <1>8

(* Every step keeps it.                                                    *)
LEMMA LineIsFedStep ==
  ASSUME TypeOK, FlowWritten, FlowFollows, CutAhead, LineIsFed, [Next]_vars
  PROVE  LineIsFed'
<1> SUFFICES ASSUME NEW n, NEW k, Len(Flow') >= 1, Flow'[1].line = n, Flow'[1].at = k,
                    n \notin cut'
             PROVE  Fed(n, k)'
  BY DEF LineIsFed, Fed
<1>0. n \notin cut
  BY CutGrows
<1>1. CASE ReadLF \/ ReadText
  <2>0. NextByte
    BY <1>1 DEF ReadLF, ReadText
  <2>1. /\ kinds' = kinds /\ Len(Flow) \in Nat /\ Len(Flow) >= 2 /\ Flow[1] = Head(rx)
        /\ Flow'[1] = Flow[2]
    <3>1. /\ kinds' = kinds /\ Len(Flow) \in Nat /\ Flow[1] = Head(rx)
          /\ Len(Flow') = Len(Flow) - 1 /\ \A i \in 1..Len(Flow') : Flow'[i] = Flow[i + 1]
      BY <2>0, FlowRead, FlowTyped DEF Segment
    <3>2. 1 \in 1..Len(Flow')
      BY <3>1
    <3>3. QED
      BY <3>1, <3>2
  <2>2. Follows(Flow[1], Flow[2])
    <3>1. 1 \in 1..Len(Flow) - 1
      BY <2>1
    <3>2. Follows(Flow[1], Flow[1 + 1])
      BY <3>1 DEF FlowFollows
    <3>3. QED
      BY <3>2
  <2> DEFINE m == Head(rx).line
             j == Head(rx).at
  <2>3. /\ m \in 1..Len(kinds) /\ j \in 1..Len(Written(kinds[m]))
        /\ Text(Head(rx)) = "LF" <=> j = Size(m)
        /\ Head(rx) = [line |-> m, at |-> j]
    <3>1. Head(rx) \in Bytes
      BY <2>0, TailSeq DEF TypeOK, NextByte, Reading
    <3>2. Head(rx) = [line |-> m, at |-> j]
      BY <3>1 DEF Bytes
    <3>3. QED
      BY <2>0, <3>2, FlowHead
  <2>4. \/ n = m /\ k = j + 1
        \/ n > m /\ k = 1 /\ j = Size(m)
    BY <1>0, <2>1, <2>2 DEF Follows
  <2>5. CASE ReadLF
    <3>1. j = Size(m)
      BY <2>3, <2>5 DEF ReadLF
    <3>2. k = 1
      <4>1. SUFFICES ASSUME n = m /\ k = j + 1 PROVE FALSE
        BY <2>4
      <4>2. Flow[2].at <= Size(Flow[2].line)
        <5>1. 2 \in 1..Len(Flow)
          BY <2>1
        <5>2. QED
          BY <5>1 DEF FlowWritten
      <4>3. Flow[2].line = m /\ Flow[2].at = j + 1
        BY <2>1, <4>1
      <4>4. j \in Nat
        BY <2>3
      <4>5. QED
        BY <3>1, <4>2, <4>3, <4>4
    <3>3. Fed(n, 1)'
      BY <2>5, FedNothing DEF ReadLF, ClearInput
    <3>4. QED
      BY <3>2, <3>3
  <2>6. CASE ReadText
    <3>1. n = m /\ k = j + 1
      BY <2>3, <2>4, <2>6 DEF ReadText
    <3>2. Fed(m, j)
      <4>1. Len(Flow) >= 1
        BY <2>1
      <4>2. QED
        BY <1>0, <2>1, <3>1, <4>1 DEF LineIsFed
    <3>3. /\ k - 1 \in 1..Len(Written(kinds[n])) /\ n \in 1..Len(kinds)
          /\ Head(rx) = [line |-> n, at |-> k - 1] /\ Fed(n, k - 1)
          /\ (k - 1) + 1 = k
      <4>1. j \in Nat /\ k - 1 = j
        BY <2>3, <3>1
      <4>2. QED
        BY <2>3, <3>1, <3>2, <4>1
    <3>4. Fed(n, (k - 1) + 1)'
      BY <2>6, <3>3, FedText
    <3>5. QED
      BY <3>3, <3>4
  <2>7. QED
    BY <1>1, <2>5, <2>6
<1>2. CASE Disconnected
  <2>1. /\ Flow' = Flow /\ input' = <<>> /\ overflow' = FALSE
        /\ cut' = cut \union {byte.line : byte \in {input[i] : i \in 1..Len(input)}}
    BY <1>2, FlowStays DEF Disconnected, ClearInput, Flow
  <2>2. Len(Flow) >= 1 /\ Flow[1].line = n /\ Flow[1].at = k /\ Fed(n, k)
    BY <1>0, <2>1 DEF LineIsFed
  <2>3. k = 1
    <3>1. k \in Nat /\ k >= 1
      <4>1. 1 \in 1..Len(Flow)
        BY <2>2, FlowTyped
      <4>2. QED
        BY <2>2, <4>1, FlowTyped
    <3>2. SUFFICES ASSUME k > 1 PROVE FALSE
      BY <3>1
    <3>3. input # <<>> /\ input[1] = [line |-> n, at |-> 1]
      BY <2>2, <3>2 DEF Fed
    <3>4. 1 \in 1..Len(input)
      BY <3>3 DEF TypeOK
    <3>5. input[1].line = n
      BY <3>3
    <3>6. n \in cut'
      BY <2>1, <3>4, <3>5
    <3>7. QED
      BY <3>6
  <2>4. QED
    BY <2>1, <2>3, FedNothing
<1>3. ASSUME Len(Flow) >= 1, Flow'[1] = Flow[1], input' = input, overflow' = overflow,
             \A l \in 1..Len(kinds) : kinds'[l] = kinds[l]
      PROVE  Fed(n, k)'
  <2>1. Fed(n, k)
    BY <1>0, <1>3 DEF LineIsFed
  <2>2. n \in 1..Len(kinds)
    <3>1. 1 \in 1..Len(Flow)
      BY <1>3, FlowTyped
    <3>2. Flow[1].line \in Nat /\ Flow[1].line >= 1
      BY <3>1, FlowTyped
    <3>3. Flow[1].line <= Len(kinds) /\ Len(kinds) \in Nat
      BY <3>1 DEF FlowWritten, TypeOK
    <3>4. QED
      BY <1>3, <3>2, <3>3
  <2>3. kinds'[n] = kinds[n]
    BY <1>3, <2>2
  <2>4. QED
    BY <1>3, <2>1, <2>3 DEF Fed
<1>4. CASE BeginPass \/ EndPass \/ Emit \/ HostReads \/ OpenPort \/ Suspend \/ Resume
           \/ UNCHANGED vars
  <2>1. kinds' = kinds /\ Flow' = Flow
    BY <1>4, FlowStays DEF Flow
  <2>2. input' = input /\ overflow' = overflow
    BY <1>4 DEF BeginPass, EndPass, Emit, HostReads, OpenPort, Suspend, Resume, vars,
                inputVars, firmwareVars
  <2>3. QED
    BY <1>3, <2>1, <2>2
<1>5. CASE WriteByte
  <2>1. kinds' = kinds /\ Flow' = Flow
    BY <1>5, FlowWrite
  <2>2. input' = input /\ overflow' = overflow
    BY <1>5 DEF WriteByte, inputVars, firmwareVars
  <2>3. QED
    BY <1>3, <2>1, <2>2
<1>6. CASE ClosePort
  <2>1. /\ kinds' = kinds /\ input' = input /\ overflow' = overflow
        /\ Flow' \in Seq(Bytes) /\ Segment(Flow', Flow, 0)
    BY <1>6, FlowClose
  <2>2. Len(Flow) >= 1 /\ Flow'[1] = Flow[1]
    <3>1. Len(Flow') \in Nat /\ Len(Flow) \in Nat /\ 1 \in 1..Len(Flow')
      BY <2>1, FlowTyped
    <3>2. QED
      BY <2>1, <3>1 DEF Segment
  <2>3. QED
    BY <1>3, <2>1, <2>2
<1>7. ASSUME NEW kind \in Kinds, BeginLine(kind)
      PROVE  Fed(n, k)'
  <2>1. /\ rest = <<>> /\ port /\ Len(Flow) = Len(rx) /\ Len(Flow) \in Nat
        /\ \A l \in 1..Len(kinds) : kinds'[l] = kinds[l]
        /\ \A i \in 1..Len(Flow) : Flow'[i] = Flow[i]
        /\ \A i \in 1..Len(Written(kind)) :
              Flow'[Len(Flow) + i] = [line |-> Len(kinds) + 1, at |-> i]
    BY <1>7, FlowBegin, FlowTyped
  <2>2. input' = input /\ overflow' = overflow /\ cut' = cut
    BY <1>7, FlowBegin DEF BeginLine, firmwareVars, inputVars
  <2>3. CASE Len(Flow) >= 1
    <3>1. Flow'[1] = Flow[1]
      BY <2>1, <2>3
    <3>2. QED
      BY <1>3, <2>1, <2>2, <2>3, <3>1
  <2>4. CASE Len(Flow) = 0
    <3>1. 1 \in 1..Len(Written(kind))
      BY WrittenSize
    <3>2. Flow'[Len(Flow) + 1] = [line |-> Len(kinds) + 1, at |-> 1]
      BY <2>1, <3>1
    <3>3. n = Len(kinds) + 1 /\ k = 1
      BY <2>4, <3>2
    <3>4. rx = <<>>
      <4>1. rx \in Seq(Bytes) /\ Len(rx) = 0
        BY <2>1, <2>4 DEF TypeOK
      <4>2. QED
        BY <4>1
    <3>5. input = <<>> /\ ~overflow
      BY <1>0, <2>1, <3>3, <3>4 DEF CutAhead, Unfinished
    <3>6. input' = <<>> /\ overflow' = FALSE
      BY <2>2, <3>5 DEF TypeOK
    <3>7. QED
      BY <3>3, <3>6, FedNothing
  <2>5. QED
    BY <2>1, <2>3, <2>4
<1>8. QED
  BY <1>1, <1>2, <1>4, <1>5, <1>6, <1>7 DEF Next

(* What some answers are.                                                  *)
LEMMA ExpectedAnswers ==
  /\ "ok" \in Expected("get")
  /\ "ok" \in Expected("set") /\ "store_failed" \in Expected("set")
  /\ "rejected" \in Expected("bad")
  /\ "ok" \in Expected("hook") /\ "rejected" \in Expected("hook")
  /\ "frame_too_large" \in Expected("long") /\ "frame_too_large" \in Expected("control")
  /\ "unsupported_protocol" \in Expected("bare")
<1>1. Expected("get") = {"ok"}
  BY Zenon DEF Expected
<1>2. Expected("set") = {"ok", "store_failed"}
  BY Zenon DEF Expected
<1>3. Expected("bad") = {"rejected"}
  BY Zenon DEF Expected
<1>4. Expected("hook") = {"ok", "rejected"}
  BY Zenon DEF Expected
<1>5. Expected("long") = {"frame_too_large"}
  BY Zenon DEF Expected
<1>6. Expected("control") = {"frame_too_large"}
  BY Zenon DEF Expected
<1>7. Expected("bare") = {"unsupported_protocol"}
  BY Zenon DEF Expected
<1>8. QED
  BY <1>1, <1>2, <1>3, <1>4, <1>5, <1>6, <1>7

(* At its end a line that was not cut is in input_, and nothing else is.   *)
LEMMA WholeLine ==
  ASSUME TypeOK, FlowWritten, LineIsFed, ReadLF, ~overflow,
         NEW n, n = Head(rx).line, n \notin cut
  PROVE  /\ kinds[n] \in {"get", "set", "bad", "hook", "bare"}
         /\ \A i \in 1..Len(input) : /\ input[i] = [line |-> n, at |-> i]
                                     /\ i \in 1..Len(Written(kinds[n]))
         /\ Len(input) \in Nat /\ Len(input) >= 1
         /\ kinds[n] # "bare" => Len(input) >= 2
<1> DEFINE kind == kinds[n]
           size == Len(Written(kind))
<1>1. NextByte /\ Text(Head(rx)) = "LF"
  BY DEF ReadLF
<1>2. /\ Len(Flow) >= 1 /\ Flow[1] = Head(rx) /\ n \in 1..Len(kinds) /\ kind \in Kinds
      /\ Head(rx).at = size
  BY <1>1, FlowHead DEF Size
<1>3. Fed(n, size)
  BY <1>2 DEF LineIsFed
<1>4. /\ Len(input) = Kept(kind, size)
      /\ \A i \in 1..Len(input) : input[i] = [line |-> n, at |-> i]
      /\ kind = "control" => size <= 2
  BY <1>3 DEF Fed
<1>5. Len(input) \in Nat /\ Len(input) <= InputSize /\ InputSize \in Nat /\ InputSize >= 3
  BY SizesTyped DEF TypeOK
<1>6. /\ kind = "long" => size = InputSize + 2
      /\ kind \in {"get", "set", "bad"} => size = 3
      /\ kind = "hook" => size = 5
      /\ kind = "control" => size = 4
      /\ kind = "bare" => size = 2
  BY <1>2, WrittenBytes, Zenon
<1> HIDE DEF kind, size
<1>7. kind # "control"
  BY <1>4, <1>6
<1>8. kind # "long"
  BY <1>4, <1>5, <1>6 DEF Kept
<1>9. kind \in {"get", "set", "bad", "hook", "bare"}
  BY <1>2, <1>7, <1>8 DEF Kinds
<1>10. /\ size \in {2, 3, 5} /\ Len(input) < size /\ Len(input) >= 1
       /\ kind # "bare" => Len(input) >= 2
  BY <1>4, <1>5, <1>6, <1>9 DEF Kept
<1>11. \A i \in 1..Len(input) : i \in 1..size
  BY <1>5, <1>10
<1>12. QED
  BY <1>4, <1>5, <1>9, <1>10, <1>11 DEF kind, size

(* So what is found in the buffer is what the line says.                   *)
LEMMA WholeLineFields ==
  ASSUME TypeOK, FlowWritten, LineIsFed, ReadLF, ~overflow,
         NEW n, n = Head(rx).line, n \notin cut
  PROVE  /\ kinds[n] = "bare" => ~Once("protocol")
         /\ kinds[n] # "bare" => Command /\ CommandLine = n
<1>1. /\ kinds[n] \in {"get", "set", "bad", "hook", "bare"} /\ kinds[n] \in Kinds
      /\ \A i \in 1..Len(input) : /\ input[i] = [line |-> n, at |-> i]
                                  /\ i \in 1..Len(Written(kinds[n]))
      /\ Len(input) \in Nat /\ Len(input) >= 1
      /\ kinds[n] # "bare" => Len(input) >= 2
  BY WholeLine DEF Kinds
<1>2. ASSUME NEW i \in 1..Len(input)
      PROVE  /\ input[i].line = n
             /\ Text(input[i]) = "protocol" <=> i = 1 /\ kinds[n] # "bare"
             /\ Text(input[i]) = "command" <=> i = 2 /\ kinds[n] # "bare"
  <2>1. input[i].line = n /\ input[i].at = i
    <3>1. input[i] = [line |-> n, at |-> i]
      BY <1>1
    <3>2. QED
      BY <3>1
  <2>2. Text(input[i]) = Written(kinds[n])[i]
    BY <2>1 DEF Text
  <2>3. CommandAt(kinds[n]) = 2
    BY <1>1 DEF CommandAt
  <2> DEFINE kind == kinds[n]
  <2>4. kind \in Kinds /\ i \in 1..Len(Written(kind))
    BY <1>1
  <2> HIDE DEF kind
  <2>5. /\ Written(kind)[i] = "protocol" <=> i = 1 /\ kind # "bare"
        /\ Written(kind)[i] = "command" <=> i = CommandAt(kind) /\ kind # "bare"
    BY <2>4, WrittenFacts
  <2>6. QED
    BY <2>1, <2>2, <2>3, <2>5 DEF kind
<1>3. CASE kinds[n] = "bare"
  BY <1>2, <1>3 DEF Once
<1>4. CASE kinds[n] # "bare"
  <2>1. 1 \in 1..Len(input) /\ 2 \in 1..Len(input)
    BY <1>1, <1>4
  <2>2. Once("protocol") /\ Once("command")
    BY <1>2, <1>4, <2>1 DEF Once
  <2>3. CommandLine = n
    <3>1. InputTyped
      BY TypeParts DEF Typed
    <3>2. \E i \in 1..Len(input) : CommandLine = input[i].line
      BY <2>2, <3>1, CommandTyped
    <3>3. QED
      BY <1>2, <3>2
  <2>4. QED
    BY <1>4, <2>2, <2>3 DEF Command
<1>5. QED
  BY <1>3, <1>4

(* A line that was not cut is answered for what it says.                   *)
LEMMA ReadLFAsked ==
  ASSUME TypeOK, FlowWritten, LineIsFed, ReadLF
  PROVE  \/ UNCHANGED <<sendVars, lost, configVars>>
         \/ \E q \in {Queue, WriteLine(Queue, Event)}, status \in Statuses :
              /\ Respond(q, Head(rx).line, status, mapping')
              /\ Head(rx).line \notin cut => status \in Expected(kinds[Head(rx).line])
<1> DEFINE n == Head(rx).line
<1>1. CASE n \in cut
  BY <1>1, ReadLFStep
<1>2. CASE n \notin cut /\ overflow
  <2>1. NextByte
    BY DEF ReadLF
  <2>2. Len(Flow) >= 1 /\ Flow[1] = Head(rx)
    BY <2>1, FlowHead
  <2>3. kinds[n] \in {"long", "control"}
    BY <1>2, <2>2 DEF LineIsFed, Fed
  <2>4. "frame_too_large" \in Expected(kinds[n]) /\ "frame_too_large" \in Statuses
    BY <2>3, ExpectedAnswers DEF Statuses
  <2>5. Respond(Queue, n, "frame_too_large", mapping) /\ mapping' = mapping
    BY <1>2 DEF ReadLF, configVars
  <2>6. QED
    BY <2>4, <2>5
<1>3. CASE n \notin cut /\ ~overflow
  <2>1. /\ kinds[n] \in {"get", "set", "bad", "hook", "bare"}
        /\ kinds[n] = "bare" => ~Once("protocol")
        /\ kinds[n] # "bare" => Command /\ CommandKind = kinds[n]
    <3>1. kinds[n] \in {"get", "set", "bad", "hook", "bare"}
      BY <1>3, WholeLine
    <3>2. /\ kinds[n] = "bare" => ~Once("protocol")
          /\ kinds[n] # "bare" => Command /\ CommandLine = n
      BY <1>3, WholeLineFields
    <3>3. QED
      BY <3>1, <3>2 DEF CommandKind
  <2>2. ASSUME HandleLine(n)
        PROVE  \E q \in {Queue, WriteLine(Queue, Event)}, status \in Statuses :
                 Respond(q, n, status, mapping') /\ status \in Expected(kinds[n])
    <3>1. CASE UnsupportedProtocol(n)
      <4>1. kinds[n] = "bare"
        BY <2>1, <3>1 DEF UnsupportedProtocol, Command
      <4>2. Respond(Queue, n, "unsupported_protocol", mapping')
        BY <3>1 DEF UnsupportedProtocol, configVars
      <4>3. QED
        BY <4>1, <4>2, ExpectedAnswers DEF Statuses
    <3>2. CASE InvalidRequest(n)
      BY <2>1, <3>2 DEF InvalidRequest, Command
    <3>3. CASE Get(n)
      <4>1. kinds[n] = "get"
        BY <2>1, <3>3 DEF Get, Command
      <4>2. Respond(Queue, n, "ok", mapping')
        BY <3>3 DEF Get, configVars
      <4>3. QED
        BY <4>1, <4>2, ExpectedAnswers DEF Statuses
    <3>4. CASE Reject(n)
      <4>1. kinds[n] = "bad"
        BY <2>1, <3>4 DEF Reject, Command
      <4>2. Respond(Queue, n, "rejected", mapping')
        BY <3>4 DEF Reject, configVars
      <4>3. QED
        BY <4>1, <4>2, ExpectedAnswers DEF Statuses
    <3>5. CASE SetConfig(n)
      <4>1. kinds[n] = "set"
        BY <2>1, <3>5 DEF SetConfig, Command
      <4>2. \/ Respond(Queue, n, "ok", mapping')
            \/ Respond(Queue, n, "store_failed", mapping')
        BY <3>5 DEF SetConfig, NotStored, configVars
      <4>3. QED
        BY <4>1, <4>2, ExpectedAnswers DEF Statuses
    <3>6. CASE PairingCommand(n)
      <4>1. kinds[n] = "hook"
        BY <2>1, <3>6 DEF PairingCommand, Command
      <4>2. PICK q \in {Queue, WriteLine(Queue, Event)}, status \in {"ok", "rejected"} :
              Respond(q, n, status, mapping')
        BY <3>6 DEF PairingCommand, configVars
      <4>3. QED
        BY <4>1, <4>2, ExpectedAnswers DEF Statuses
    <3>7. QED
      BY <2>2, <3>1, <3>2, <3>3, <3>4, <3>5, <3>6 DEF HandleLine
  <2>3. QED
    BY <1>3, <2>2 DEF ReadLF
<1>4. QED
  BY <1>1, <1>2, <1>3

(* An answer is what the line it answers is to be told.                    *)
Asked(a) == a.to \notin cut => a.status \in Expected(kinds[a.to])
AllAsked == \A a \in AnswersIn(OnTheWay) : Asked(a)

(* Every step keeps it for all answers on their way.                       *)
LEMMA AllAskedStep ==
  ASSUME TypeOK, TypeOK', FlowWritten, AnswersSound, LineIsFed, AllAsked, [Next]_vars
  PROVE  AllAsked'
<1>1. ASSUME NEW a \in AnswersIn(OnTheWay)
      PROVE  Asked(a)'
  <2>1. a \in Answers /\ a.to <= Len(kinds) /\ Asked(a)
    BY <1>1, AnswersTyped DEF AnswersSound, AnswersAreDue, Due, AllAsked
  <2>2. a.to \in 1..Len(kinds)
    <3>1. a.to \in Nat \ {0} /\ Len(kinds) \in Nat
      BY <2>1 DEF Answers, Ids, TypeOK
    <3>2. QED
      BY <2>1, <3>1
  <2>3. kinds'[a.to] = kinds[a.to]
    <3>1. CASE kinds' = kinds
      BY <3>1
    <3>2. ASSUME NEW kind \in Kinds, BeginLine(kind)
          PROVE  kinds'[a.to] = kinds[a.to]
      BY <2>2, <3>2, FlowBegin
    <3>3. QED
      BY <3>1, <3>2, FlowStep
  <2>4. cut \subseteq cut'
    BY CutGrows
  <2>5. QED
    BY <2>1, <2>3, <2>4 DEF Asked
<1>2. CASE ~ReadLF
  <2>1. AnswersIn(OnTheWay') \subseteq AnswersIn(OnTheWay)
    BY <1>2, WayStep DEF AnswersSound
  <2>2. QED
    BY <1>1, <2>1 DEF AllAsked
<1>3. CASE ReadLF
  <2> DEFINE n == Head(rx).line
  <2>1. /\ n \in Ids /\ answer' = answer /\ kinds' = kinds /\ cut' = cut
        /\ Len(Flow) >= 1 /\ Len(Flow) \in Nat /\ Flow[1] = Head(rx)
    BY <1>3, FlowHead DEF ReadLF, NextByte, hostVars, Ids
  <2>2. \A a \in AnswersIn(OnTheWay) : a.to < n
    <3>1. 1 \in 1..Len(Flow)
      BY <2>1
    <3>2. QED
      BY <2>1, <3>1 DEF AnswersSound, AnswersAreDue, Due
  <2>3. CASE UNCHANGED <<sendVars, lost, configVars>>
    <3>1. OnTheWay' = OnTheWay
      BY <2>1, <2>3, SameQueue, WayNext
    <3>2. QED
      BY <1>1, <3>1 DEF AllAsked
  <2>4. ASSUME NEW q \in {Queue, WriteLine(Queue, Event)}, NEW status \in Statuses,
               Respond(q, n, status, mapping'), n \notin cut => status \in Expected(kinds[n])
        PROVE  AllAsked'
    <3> DEFINE m == [to |-> n, status |-> status, mapping |-> mapping']
    <3>1. AnswersIn(OnTheWay') \subseteq AnswersIn(OnTheWay) \union {m}
      BY <2>1, <2>2, <2>4, RespondWay DEF AnswersSound
    <3>2. ASSUME NEW a \in AnswersIn(OnTheWay')
          PROVE  Asked(a)'
      <4>1. CASE a \in AnswersIn(OnTheWay)
        BY <1>1, <4>1
      <4>2. CASE a = m
        <5>1. a.to = n /\ a.status = status
          BY <4>2
        <5>2. QED
          BY <2>1, <2>4, <5>1 DEF Asked
      <4>3. QED
        BY <3>1, <4>1, <4>2
    <3>3. QED
      BY <3>2 DEF AllAsked
  <2>5. QED
    BY <1>3, <2>3, <2>4, ReadLFAsked
<1>4. QED
  BY <1>2, <1>3

(* What the lines being read are, inductively.                             *)
LinesSound == HostGoesOn /\ FlowFollows /\ CutAhead /\ LineIsFed

(* No line was begun at boot.                                              *)
LEMMA LinesSoundInit == Init => LinesSound /\ AllAsked
<1> SUFFICES ASSUME Init PROVE LinesSound /\ AllAsked
  OBVIOUS
<1>1. Flow = <<>> /\ OnTheWay = <<>> /\ Len(Flow) = 0
  BY DEF Init, Flow, OnTheWay, Pending
<1>2. HostGoesOn
  BY FlowSoundInit
<1>3. FlowFollows /\ LineIsFed
  BY <1>1 DEF FlowFollows, LineIsFed
<1>4. CutAhead
  BY DEF Init, CutAhead
<1>5. AllAsked
  BY <1>1 DEF AllAsked, AnswersIn
<1>6. QED
  BY <1>2, <1>3, <1>4, <1>5 DEF LinesSound

(* These hold together.                                                    *)
LEMMA SetupLinesSound == Spec => [](LinesSound /\ AllAsked)
<1>1. Init => LinesSound /\ AllAsked
  BY LinesSoundInit
<1>2. /\ TypeOK /\ FlowSound /\ AnswersSound /\ LinesSound /\ AllAsked /\ TypeOK'
      /\ [Next]_vars
      => (LinesSound /\ AllAsked)'
  <2> SUFFICES ASSUME TypeOK, FlowSound, AnswersSound, LinesSound, AllAsked, TypeOK',
                      [Next]_vars
               PROVE  LinesSound' /\ AllAsked'
    OBVIOUS
  <2>1. HostGoesOn' /\ FlowFollows' /\ CutAhead' /\ LineIsFed'
    BY HostGoesOnStep, FlowFollowsStep, CutAheadStep, LineIsFedStep
       DEF LinesSound, FlowSound
  <2>2. AllAsked'
    BY AllAskedStep DEF LinesSound, FlowSound
  <2>3. QED
    BY <2>1, <2>2 DEF LinesSound
<1>3. QED
  BY <1>1, <1>2, SetupSound, PTL DEF Spec

(* A line that was not cut is answered for what it says, for any sizes and *)
(* any number of losses (config_service.cpp:337-346, 361-381).             *)
THEOREM SetupAnsweredAsAsked == Spec => []AnsweredAsAsked
<1>1. AllAsked => AnsweredAsAsked
  BY DEF AllAsked, Asked, AnsweredAsAsked, AnswersIn
<1>2. QED
  BY <1>1, SetupLinesSound, PTL
-----------------------------------------------------------------------------
(* The line buffer, also of lines that were cut.                           *)

(* A sequence of bytes in the order they were written, of which nothing is *)
(* missing between a byte and a later one of its line, nor before that one *)
(* when it is the first of its line.                                       *)
Ordered(s) == \A i, j \in 1..Len(s) : i < j => Earlier(s[i], s[j])
Complete(s) ==
  \A i, j \in 1..Len(s) :
    i < j => IF s[i].line = s[j].line THEN s[j].at = s[i].at + (j - i)
             ELSE \E q \in i + 1..j : s[q] = [line |-> s[j].line, at |-> 1]

(* What the buffer has behind its last byte, a CR not being kept.          *)
Joins(last, next) ==
  IF last.line = next.line
  THEN next.at = last.at + 1
       \/ (kinds[last.line] = "hook" /\ last.at = 3 /\ next.at = 5)
  ELSE next.at = 1

(* The buffer has texts of lines begun, never their LF.                    *)
InputWritten ==
  \A i \in 1..Len(input) :
    /\ input[i].line <= Len(kinds) /\ input[i].at < Size(input[i].line)
    /\ Text(input[i]) \in {"protocol", "command", "text"}

(* They are in order, and before what is still to be read.                 *)
InputInOrder ==
  /\ Ordered(input)
  /\ Len(input) >= 1 /\ Len(Flow) >= 1 => Earlier(input[Len(input)], Flow[1])

(* Nothing is missing among them, unless the line is refused as overlong.  *)
InputJoined ==
  ~overflow => /\ Complete(input)
               /\ Len(input) >= 1 /\ Len(Flow) >= 1 => Joins(input[Len(input)], Flow[1])

InputSound == InputWritten /\ InputInOrder /\ InputJoined

(* A byte is its line and its place there.                                 *)
LEMMA ByteTyped ==
  ASSUME NEW b \in Bytes
  PROVE  /\ b.line \in Nat /\ b.line >= 1 /\ b.at \in Nat /\ b.at >= 1
         /\ b = [line |-> b.line, at |-> b.at]
  BY DEF Bytes, Ids

(* Earlier is transitive.                                                  *)
LEMMA EarlierTransitive ==
  ASSUME NEW a \in Bytes, NEW b \in Bytes, NEW c \in Bytes, Earlier(a, b), Earlier(b, c)
  PROVE  Earlier(a, c)
<1>1. /\ a.line \in Nat /\ b.line \in Nat /\ c.line \in Nat
      /\ a.at \in Nat /\ b.at \in Nat /\ c.at \in Nat
  BY ByteTyped
<1>2. QED
  BY <1>1 DEF Earlier

(* A later byte behind bytes in order.                                     *)
LEMMA OrderedAppend ==
  ASSUME NEW s \in Seq(Bytes), Ordered(s), NEW b \in Bytes,
         Len(s) >= 1 => Earlier(s[Len(s)], b)
  PROVE  Ordered(Append(s, b))
<1> DEFINE t == Append(s, b)
<1>1. /\ Len(s) \in Nat /\ Len(t) = Len(s) + 1 /\ t[Len(s) + 1] = b
      /\ \A i \in 1..Len(s) : t[i] = s[i] /\ s[i] \in Bytes
  OBVIOUS
<1> HIDE DEF t
<1>2. ASSUME NEW i \in 1..Len(t), NEW j \in 1..Len(t), i < j
      PROVE  Earlier(t[i], t[j])
  <2>1. CASE j <= Len(s)
    <3>1. i \in 1..Len(s) /\ j \in 1..Len(s)
      BY <1>1, <1>2, <2>1
    <3>2. QED
      BY <1>1, <1>2, <3>1 DEF Ordered
  <2>2. CASE j = Len(s) + 1
    <3>1. i \in 1..Len(s) /\ Len(s) \in 1..Len(s)
      BY <1>1, <1>2, <2>2
    <3>2. Earlier(s[Len(s)], b)
      BY <1>1, <3>1
    <3>3. i = Len(s) \/ Earlier(s[i], s[Len(s)])
      BY <1>1, <3>1 DEF Ordered
    <3>4. s[i] \in Bytes /\ s[Len(s)] \in Bytes
      BY <1>1, <3>1
    <3>5. Earlier(s[i], b)
      BY <3>2, <3>3, <3>4, ByteTyped DEF Earlier
    <3>6. QED
      BY <1>1, <2>2, <3>1, <3>5
  <2>3. QED
    BY <1>1, <2>1, <2>2
<1>3. QED
  BY <1>2 DEF Ordered, t

(* The byte that comes next behind bytes of which none is missing.         *)
LEMMA CompleteAppend ==
  ASSUME NEW s \in Seq(Bytes), Ordered(s), Complete(s), NEW b \in Bytes,
         Len(s) >= 1 => Earlier(s[Len(s)], b),
         Len(s) >= 1 =>
           IF s[Len(s)].line = b.line THEN b.at = s[Len(s)].at + 1 ELSE b.at = 1
  PROVE  Complete(Append(s, b))
<1> DEFINE t == Append(s, b)
           k == Len(s)
<1>1. /\ k \in Nat /\ Len(t) = k + 1 /\ t[k + 1] = b
      /\ \A i \in 1..k : t[i] = s[i] /\ s[i] \in Bytes
  OBVIOUS
<1> HIDE DEF t
<1>2. ASSUME NEW i \in 1..Len(t), NEW j \in 1..Len(t), i < j
      PROVE  IF t[i].line = t[j].line THEN t[j].at = t[i].at + (j - i)
             ELSE \E q \in i + 1..j : t[q] = [line |-> t[j].line, at |-> 1]
  <2>1. CASE j <= k
    <3>1. i \in 1..k /\ j \in 1..k /\ \A q \in i + 1..j : q \in 1..k
      BY <1>1, <1>2, <2>1
    <3>2. t[i] = s[i] /\ t[j] = s[j] /\ \A q \in i + 1..j : t[q] = s[q]
      BY <1>1, <3>1
    <3>3. IF s[i].line = s[j].line THEN s[j].at = s[i].at + (j - i)
          ELSE \E q \in i + 1..j : s[q] = [line |-> s[j].line, at |-> 1]
      BY <1>2, <3>1 DEF Complete
    <3>4. QED
      BY <3>2, <3>3
  <2>2. CASE j = k + 1
    <3>1. i \in 1..k /\ k \in 1..k /\ k >= 1
      BY <1>1, <1>2, <2>2
    <3>2. /\ t[i] = s[i] /\ t[j] = b /\ t[k] = s[k]
          /\ s[i] \in Bytes /\ s[k] \in Bytes
      BY <1>1, <2>2, <3>1
    <3>3. /\ Earlier(s[k], b)
          /\ IF s[k].line = b.line THEN b.at = s[k].at + 1 ELSE b.at = 1
      BY <3>1
    <3>4. CASE s[k].line # b.line
      <4>1. b = [line |-> b.line, at |-> 1]
        BY <3>3, <3>4, ByteTyped
      <4>2. s[i].line # b.line
        <5>1. i = k \/ Earlier(s[i], s[k])
          BY <1>1, <3>1 DEF Ordered
        <5>2. s[k].line < b.line
          BY <3>3, <3>4 DEF Earlier
        <5>3. QED
          BY <3>2, <3>4, <5>1, <5>2, ByteTyped DEF Earlier
      <4>3. j \in i + 1..j /\ t[j] = [line |-> t[j].line, at |-> 1]
        BY <1>2, <3>2, <4>1
      <4>4. QED
        BY <3>2, <4>2, <4>3
    <3>5. CASE s[k].line = b.line
      <4>1. b.at = s[k].at + 1
        BY <3>3, <3>5
      <4>2. CASE i = k
        BY <1>1, <2>2, <3>2, <3>5, <4>1, <4>2
      <4>3. CASE i < k
        <5>1. IF s[i].line = s[k].line THEN s[k].at = s[i].at + (k - i)
              ELSE \E q \in i + 1..k : s[q] = [line |-> s[k].line, at |-> 1]
          BY <3>1, <4>3 DEF Complete
        <5>2. CASE s[i].line = s[k].line
          <6>1. s[k].at = s[i].at + (k - i)
            BY <5>1, <5>2
          <6>2. b.at = s[i].at + (j - i)
            <7>1. s[i].at \in Nat /\ s[k].at \in Nat
              BY <3>2, ByteTyped
            <7>2. QED
              BY <1>1, <2>2, <3>1, <4>1, <6>1, <7>1
          <6>3. QED
            BY <3>2, <3>5, <5>2, <6>2
        <5>3. CASE s[i].line # s[k].line
          <6>1. PICK q \in i + 1..k : s[q] = [line |-> s[k].line, at |-> 1]
            BY <5>1, <5>3
          <6>2. q \in 1..k /\ q \in i + 1..j
            BY <1>1, <2>2, <3>1, <6>1
          <6>3. t[q] = [line |-> t[j].line, at |-> 1]
            BY <1>1, <3>2, <3>5, <6>1, <6>2
          <6>4. QED
            BY <3>2, <3>5, <5>3, <6>2, <6>3
        <5>4. QED
          BY <5>2, <5>3
      <4>4. QED
        BY <1>1, <3>1, <4>2, <4>3
    <3>6. QED
      BY <3>4, <3>5
  <2>3. QED
    BY <1>1, <1>2, <2>1, <2>2
<1>3. QED
  BY <1>2 DEF Complete, t

(* The other steps leave the buffer, or clear it.                          *)
LEMMA FlowOther ==
  ASSUME TypeOK, [Next]_vars, ~ReadText, \A kind \in Kinds : ~BeginLine(kind)
  PROVE  /\ kinds' = kinds
         /\ \/ input' = <<>> /\ overflow' = FALSE
            \/ /\ input' = input /\ overflow' = overflow
               /\ Flow' \in Seq(Bytes) /\ Segment(Flow', Flow, 0)
<1>0. Flow \in Seq(Bytes) /\ Segment(Flow, Flow, 0)
  BY FlowTyped, SegmentSame
<1>1. CASE ReadLF
  BY <1>1, FlowRead DEF ReadLF, ClearInput
<1>2. CASE Disconnected
  BY <1>2 DEF Disconnected, ClearInput, hostVars
<1>3. CASE BeginPass \/ EndPass \/ Emit \/ HostReads \/ OpenPort \/ Suspend \/ Resume
           \/ UNCHANGED vars
  <2>1. kinds' = kinds /\ rest' = rest /\ rx' = rx
    BY <1>3, FlowStays
  <2>2. input' = input /\ overflow' = overflow
    BY <1>3 DEF BeginPass, EndPass, Emit, HostReads, OpenPort, Suspend, Resume, vars,
                firmwareVars, inputVars
  <2>3. Flow' = Flow
    BY <2>1 DEF Flow
  <2>4. QED
    BY <1>0, <2>1, <2>2, <2>3
<1>4. CASE WriteByte
  <2>1. kinds' = kinds /\ Flow' = Flow
    BY <1>4, FlowWrite
  <2>2. input' = input /\ overflow' = overflow
    BY <1>4 DEF WriteByte, firmwareVars, inputVars
  <2>3. QED
    BY <1>0, <2>1, <2>2
<1>5. CASE ClosePort
  BY <1>5, FlowClose
<1>6. QED
  BY <1>1, <1>2, <1>3, <1>4, <1>5 DEF Next

(* A byte read joins those before it.                                      *)
LEMMA InputSoundText ==
  ASSUME TypeOK, FlowWritten, FlowInOrder, FlowFollows, InputSound, ReadText
  PROVE  InputSound'
<1> DEFINE b == Head(rx)
           n == b.line
           k == Len(input)
           stays == Text(b) \notin {"CR", "control"} /\ Room
<1>1. NextByte /\ Text(b) # "LF" /\ kinds' = kinds
  BY DEF ReadText, NextByte, hostVars
<1>2. /\ Len(Flow) >= 1 /\ Len(Flow) \in Nat /\ Flow[1] = b
      /\ b.line \in 1..Len(kinds) /\ kinds[n] \in Kinds
      /\ b.at \in 1..Len(Written(kinds[n]))
      /\ Text(b) = "LF" <=> b.at = Size(n)
  BY <1>1, FlowHead
<1>3. /\ Len(Flow') = Len(Flow) - 1 /\ Flow' \in Seq(Bytes)
      /\ Len(Flow') >= 1 => Flow'[1] = Flow[2]
  BY <1>1, <1>2, FlowRead DEF Segment
<1>4. /\ input \in Seq(Bytes) /\ k \in Nat /\ b \in Bytes
      /\ overflow \in BOOLEAN
  <2>1. input \in Seq(Bytes) /\ rx \in Seq(Bytes) /\ rx # <<>> /\ overflow \in BOOLEAN
    BY <1>1 DEF TypeOK, NextByte, Reading
  <2>2. QED
    BY <2>1, TailSeq
<1>5. /\ input' = IF stays THEN Append(input, b) ELSE input
      /\ overflow' = (overflow \/ (~stays /\ Text(b) # "CR"))
  BY DEF ReadText
<1>6. Len(Flow') >= 1 => /\ Flow[2] \in Bytes /\ Earlier(b, Flow[2]) /\ Follows(b, Flow[2])
                         /\ Flow'[1] = Flow[2]
  <2>1. SUFFICES ASSUME Len(Flow') >= 1
                 PROVE  /\ Flow[2] \in Bytes /\ Earlier(b, Flow[2]) /\ Follows(b, Flow[2])
                        /\ Flow'[1] = Flow[2]
    OBVIOUS
  <2>2. 1 \in 1..Len(Flow) - 1 /\ 1 \in 1..Len(Flow) /\ 2 \in 1..Len(Flow)
    BY <1>2, <1>3, <2>1
  <2>3. Follows(Flow[1], Flow[1 + 1])
    BY <2>2 DEF FlowFollows
  <2>4. Earlier(Flow[1], Flow[2])
    BY <2>2 DEF FlowInOrder
  <2>5. Flow[2] \in Bytes
    BY <2>2, FlowTyped
  <2>6. QED
    BY <1>2, <1>3, <2>1, <2>3, <2>4, <2>5
<1>7. /\ Ordered(input)
      /\ k >= 1 => Earlier(input[k], b) /\ input[k] \in Bytes
      /\ ~overflow => Complete(input)
      /\ ~overflow => (k >= 1 => Joins(input[k], b))
  <2>1. Ordered(input)
    BY DEF InputSound, InputInOrder
  <2>2. k >= 1 => Earlier(input[k], b) /\ input[k] \in Bytes
    BY <1>2, <1>4 DEF InputSound, InputInOrder
  <2>3. ~overflow => Complete(input)
    BY DEF InputSound, InputJoined
  <2>4. ~overflow => (k >= 1 => Joins(input[k], b))
    BY <1>2 DEF InputSound, InputJoined
  <2>5. QED
    BY <2>1, <2>2, <2>3, <2>4
<1>8. CASE stays
  <2>1. input' = Append(input, b) /\ overflow' = overflow
    BY <1>4, <1>5, <1>8
  <2>2. /\ Len(input') = k + 1 /\ input'[k + 1] = b /\ input'[Len(input')] = b
        /\ \A i \in 1..k : input'[i] = input[i]
    BY <1>4, <2>1
  <2>3. Text(b) \in {"protocol", "command", "text"}
    <3>1. Text(b) \in {"protocol", "command", "text", "control", "CR", "LF"}
      BY <1>2, WrittenFacts DEF Text
    <3>2. QED
      BY <1>1, <1>8, <3>1
  <2>4. InputWritten'
    <3>1. ASSUME NEW i \in 1..Len(input')
          PROVE  /\ input'[i].line <= Len(kinds')
                 /\ input'[i].at < Len(Written(kinds'[input'[i].line]))
                 /\ Written(kinds'[input'[i].line])[input'[i].at]
                      \in {"protocol", "command", "text"}
      <4>1. CASE i \in 1..k
        BY <1>1, <2>2, <4>1 DEF InputSound, InputWritten, Size, Text
      <4>2. CASE i = k + 1
        <5>1. input'[i] = b
          BY <2>2, <4>2
        <5>2. b.line <= Len(kinds)
          <6>1. Len(kinds) \in Nat
            BY DEF TypeOK
          <6>2. QED
            BY <1>2, <6>1
        <5>3. b.at < Len(Written(kinds[n]))
          BY <1>1, <1>2, WrittenSize DEF Size
        <5>4. QED
          BY <1>1, <2>3, <5>1, <5>2, <5>3 DEF Text
      <4>3. QED
        BY <1>4, <2>2, <4>1, <4>2
    <3>2. QED
      BY <3>1 DEF InputWritten, Size, Text
  <2>5. InputInOrder'
    <3>1. Ordered(input')
      BY <1>4, <1>7, <2>1, OrderedAppend
    <3>2. Len(Flow') >= 1 => Earlier(b, Flow'[1])
      BY <1>6
    <3>3. QED
      BY <2>2, <3>1, <3>2 DEF InputInOrder, Ordered, Earlier
  <2>6. ASSUME ~overflow
        PROVE  /\ Complete(input')
               /\ Len(Flow') >= 1 =>
                    IF b.line = Flow'[1].line THEN Flow'[1].at = b.at + 1
                    ELSE Flow'[1].at = 1
    <3>1. k >= 1 => IF input[k].line = b.line THEN b.at = input[k].at + 1 ELSE b.at = 1
      <4>1. SUFFICES ASSUME k >= 1, input[k].line = b.line,
                            kinds[n] = "hook", b.at = 5
                     PROVE  FALSE
        BY <1>7, <2>6 DEF Joins
      <4>2. Len(Written(kinds[n])) = 5
        BY <1>2, <4>1, WrittenBytes, Zenon
      <4>3. QED
        BY <1>1, <1>2, <4>1, <4>2 DEF Size
    <3>2. Complete(Append(input, b))
      BY <1>4, <1>7, <2>6, <3>1, CompleteAppend
    <3>3. Len(Flow') >= 1 =>
            IF b.line = Flow[2].line THEN Flow[2].at = b.at + 1 ELSE Flow[2].at = 1
      <4>1. SUFFICES ASSUME Len(Flow') >= 1
                     PROVE  IF b.line = Flow[2].line THEN Flow[2].at = b.at + 1
                            ELSE Flow[2].at = 1
        OBVIOUS
      <4>2. Follows(b, Flow[2]) /\ Flow[2] \in Bytes
        BY <1>6, <4>1
      <4>3. QED
        BY <1>4, <4>2, ByteTyped DEF Follows
    <3>4. QED
      BY <1>6, <2>1, <3>2, <3>3
  <2>7. InputJoined'
    <3>1. ~overflow' => Complete(input')
      BY <2>1, <2>6
    <3>2. ~overflow' /\ Len(Flow') >= 1 =>
            IF input'[Len(input')].line = Flow'[1].line
            THEN Flow'[1].at = input'[Len(input')].at + 1
            ELSE Flow'[1].at = 1
      BY <2>1, <2>2, <2>6
    <3>3. QED
      BY <3>1, <3>2 DEF InputJoined, Complete, Joins
  <2>8. QED
    BY <2>4, <2>5, <2>7 DEF InputSound
<1>9. CASE ~stays
  <2>1. input' = input
    BY <1>5, <1>9
  <2>2. InputWritten'
    BY <1>1, <2>1 DEF InputSound, InputWritten, Size, Text
  <2>3. k >= 1 /\ Len(Flow') >= 1 => Earlier(input[k], Flow'[1])
    <3>1. SUFFICES ASSUME k >= 1, Len(Flow') >= 1
                   PROVE  Earlier(input[k], Flow[2])
      BY <1>6
    <3>2. input[k] \in Bytes /\ Flow[2] \in Bytes /\ Earlier(input[k], b) /\ Earlier(b, Flow[2])
      BY <1>6, <1>7, <3>1
    <3>3. QED
      BY <1>4, <3>2, ByteTyped DEF Earlier
  <2>4. InputInOrder'
    BY <1>7, <2>1, <2>3 DEF InputInOrder, Ordered, Earlier
  <2>5. ASSUME ~overflow'
        PROVE  /\ Complete(input)
               /\ k >= 1 /\ Len(Flow') >= 1 =>
                    IF input[k].line = Flow'[1].line
                    THEN Flow'[1].at = input[k].at + 1
                         \/ (kinds[input[k].line] = "hook" /\ input[k].at = 3 /\ Flow'[1].at = 5)
                    ELSE Flow'[1].at = 1
    <3>1. ~overflow /\ Text(b) = "CR"
      BY <1>5, <1>9, <2>5, Zenon
    <3>2. b.at = 4 /\ kinds[n] = "hook"
      BY <1>2, <3>1, WrittenFacts DEF Text
    <3>3. SUFFICES ASSUME k >= 1, Len(Flow') >= 1
                   PROVE  IF input[k].line = Flow[2].line
                          THEN Flow[2].at = input[k].at + 1
                               \/ (kinds[input[k].line] = "hook" /\ input[k].at = 3
                                     /\ Flow[2].at = 5)
                          ELSE Flow[2].at = 1
      BY <1>6, <1>7, <3>1
    <3>4. /\ Joins(input[k], b) /\ Earlier(input[k], b) /\ input[k] \in Bytes
          /\ Follows(b, Flow[2]) /\ Flow[2] \in Bytes
      BY <1>6, <1>7, <3>1, <3>3
    <3>5. input[k].line = b.line /\ input[k].at = 3
      <4>1. input[k].line = b.line
        BY <3>2, <3>4 DEF Joins
      <4>2. input[k].at + 1 = 4
        BY <3>2, <3>4, <4>1 DEF Joins
      <4>3. QED
        BY <3>4, <4>1, <4>2, ByteTyped
    <3>6. CASE Flow[2].line = b.line /\ Flow[2].at = b.at + 1
      BY <3>2, <3>5, <3>6
    <3>7. CASE Flow[2].line > b.line /\ Flow[2].at = 1
      <4>1. Flow[2].line # b.line
        BY <1>4, <3>4, <3>7, ByteTyped
      <4>2. QED
        BY <3>5, <3>7, <4>1
    <3>8. QED
      BY <3>4, <3>6, <3>7 DEF Follows
  <2>6. InputJoined'
    BY <1>1, <2>1, <2>5 DEF InputJoined, Complete, Joins
  <2>7. QED
    BY <2>2, <2>4, <2>6 DEF InputSound
<1>10. QED
  BY <1>8, <1>9

(* A new line comes behind them.                                           *)
LEMMA InputSoundBegin ==
  ASSUME TypeOK, InputSound, NEW kind \in Kinds, BeginLine(kind)
  PROVE  InputSound'
<1> DEFINE n == Len(kinds) + 1
           k == Len(input)
<1>1. input' = input /\ overflow' = overflow
  BY DEF BeginLine, firmwareVars, inputVars
<1>2. /\ Len(kinds) \in Nat /\ Len(kinds') = n
      /\ \A l \in 1..Len(kinds) : kinds'[l] = kinds[l]
      /\ Len(Flow') = Len(Flow) + Len(Written(kind)) /\ Len(Flow) \in Nat
      /\ \A i \in 1..Len(Flow) : Flow'[i] = Flow[i]
      /\ \A i \in 1..Len(Written(kind)) : Flow'[Len(Flow) + i] = [line |-> n, at |-> i]
      /\ Len(Written(kind)) \in Nat /\ Len(Written(kind)) >= 2
  BY FlowBegin, FlowTyped, WrittenSize
<1>3. input \in Seq(Bytes) /\ k \in Nat /\ \A i \in 1..k : input[i] \in Bytes
  BY DEF TypeOK
<1>4. \A i \in 1..k : input[i].line \in 1..Len(kinds)
  BY <1>2, <1>3, ByteTyped DEF InputSound, InputWritten
<1>5. InputWritten'
  <2>1. ASSUME NEW i \in 1..k
        PROVE  /\ input[i].line <= Len(kinds')
               /\ input[i].at < Len(Written(kinds'[input[i].line]))
               /\ Written(kinds'[input[i].line])[input[i].at]
                    \in {"protocol", "command", "text"}
    <3>1. kinds'[input[i].line] = kinds[input[i].line] /\ input[i].line <= Len(kinds')
      BY <1>2, <1>4
    <3>2. QED
      BY <3>1 DEF InputSound, InputWritten, Size, Text
  <2>2. QED
    BY <1>1, <2>1 DEF InputWritten, Size, Text
<1>6. CASE Len(Flow) >= 1
  <2>1. Flow'[1] = Flow[1] /\ 1 \in 1..Len(Flow)
    BY <1>2, <1>6
  <2>2. k >= 1 => kinds'[input[k].line] = kinds[input[k].line]
    BY <1>2, <1>3, <1>4
  <2>3. InputInOrder'
    BY <1>1, <1>6, <2>1 DEF InputSound, InputInOrder, Ordered, Earlier
  <2>4. InputJoined'
    BY <1>1, <1>6, <2>1, <2>2 DEF InputSound, InputJoined, Complete, Joins
  <2>5. QED
    BY <1>5, <2>3, <2>4 DEF InputSound
<1>7. CASE Len(Flow) = 0
  <2>1. Flow'[1] = [line |-> n, at |-> 1]
    <3>1. 1 \in 1..Len(Written(kind)) /\ Len(Flow) + 1 = 1
      BY <1>2, <1>7
    <3>2. QED
      BY <1>2, <3>1
  <2>2. Flow'[1].line = n /\ Flow'[1].at = 1
    BY <2>1
  <2>3. k >= 1 => input[k].line < n
    BY <1>2, <1>3, <1>4
  <2>4. k >= 1 => input[k].line # n
    BY <1>2, <1>3, <1>4
  <2>5. InputInOrder'
    BY <1>1, <2>2, <2>3 DEF InputSound, InputInOrder, Ordered, Earlier
  <2>6. InputJoined'
    BY <1>1, <2>2, <2>4 DEF InputSound, InputJoined, Complete, Joins
  <2>7. QED
    BY <1>5, <2>5, <2>6 DEF InputSound
<1>8. QED
  BY <1>2, <1>6, <1>7

(* Every step keeps what the buffer is.                                    *)
LEMMA InputSoundStep ==
  ASSUME TypeOK, FlowWritten, FlowInOrder, FlowFollows, InputSound, [Next]_vars
  PROVE  InputSound'
<1>1. CASE input' = <<>>
  <2>1. Len(input') = 0
    BY <1>1
  <2>2. QED
    BY <2>1 DEF InputSound, InputWritten, InputInOrder, InputJoined, Ordered, Complete
<1>2. CASE /\ input' = input /\ overflow' = overflow /\ kinds' = kinds
           /\ Flow' \in Seq(Bytes) /\ Segment(Flow', Flow, 0)
  <2>1. InputWritten'
    BY <1>2 DEF InputSound, InputWritten, Size, Text
  <2>2. Len(Flow') >= 1 => Len(Flow) >= 1 /\ Flow'[1] = Flow[1]
    BY <1>2, FlowTyped DEF Segment
  <2>3. InputInOrder'
    BY <1>2, <2>2 DEF InputSound, InputInOrder, Ordered, Earlier
  <2>4. InputJoined'
    <3>1. ~overflow' => /\ Complete(input)
                        /\ Len(input) >= 1 /\ Len(Flow) >= 1
                             => Joins(input[Len(input)], Flow[1])
      BY <1>2 DEF InputSound, InputJoined
    <3>2. ~overflow' => Complete(input')
      BY <1>2, <3>1
    <3>3. ~overflow' /\ Len(input') >= 1 /\ Len(Flow') >= 1
            => Joins(input[Len(input)], Flow[1])
      BY <1>2, <2>2, <3>1
    <3>4. ~overflow' /\ Len(input') >= 1 /\ Len(Flow') >= 1
            => Joins(input[Len(input)], Flow[1])'
      BY <1>2, <2>2, <3>3 DEF Joins
    <3>5. QED
      BY <3>2, <3>4 DEF InputJoined, Complete
  <2>5. QED
    BY <2>1, <2>3, <2>4 DEF InputSound
<1>3. CASE ReadText
  BY <1>3, InputSoundText
<1>4. ASSUME NEW kind \in Kinds, BeginLine(kind)
      PROVE  InputSound'
  BY <1>4, InputSoundBegin
<1>5. QED
  BY <1>1, <1>2, <1>3, <1>4, FlowOther

(* A loss of the session leaves at most one line without its end.          *)
HasBytes(n) ==
  \/ \E i \in 1..Len(input) : input[i].line = n
  \/ \E i \in 1..Len(Flow) : Flow[i].line = n
EndsInFlow(n) == \E i \in 1..Len(Flow) : Flow[i] = [line |-> n, at |-> Size(n)]
Unended(n) == HasBytes(n) /\ ~EndsInFlow(n)

LossesCut ==
  /\ losses = 0 => \A n \in Ids : ~Unended(n)
  /\ losses <= 1 => \A n, m \in Ids : Unended(n) /\ Unended(m) => n = m

(* The buffer has earlier bytes than the flow.                             *)
LEMMA InputBeforeFlow ==
  ASSUME TypeOK, FlowInOrder, InputInOrder,
         NEW i \in 1..Len(input), NEW j \in 1..Len(Flow)
  PROVE  Earlier(input[i], Flow[j])
<1> DEFINE k == Len(input)
<1>1. /\ input \in Seq(Bytes) /\ k \in Nat /\ Len(Flow) \in Nat /\ Flow \in Seq(Bytes)
  <2>1. input \in Seq(Bytes) /\ k \in Nat
    BY DEF TypeOK
  <2>2. QED
    BY <2>1, FlowTyped
<1>2. k \in 1..k /\ 1 \in 1..Len(Flow) /\ k >= 1 /\ Len(Flow) >= 1
  BY <1>1
<1>3. /\ input[i] \in Bytes /\ input[k] \in Bytes /\ Flow[1] \in Bytes /\ Flow[j] \in Bytes
  BY <1>1, <1>2
<1>4. i = k \/ Earlier(input[i], input[k])
  BY <1>1, <1>2 DEF InputInOrder, Ordered
<1>5. Earlier(input[k], Flow[1])
  BY <1>2 DEF InputInOrder
<1>6. j = 1 \/ Earlier(Flow[1], Flow[j])
  BY <1>1, <1>2 DEF FlowInOrder
<1> HIDE DEF k
<1>7. QED
  <2>1. Earlier(input[i], Flow[1])
    BY <1>3, <1>4, <1>5, EarlierTransitive
  <2>2. QED
    BY <1>3, <1>6, <2>1, EarlierTransitive

(* Only a closed port leaves a line without its end.                       *)
LEMMA UnendedStays ==
  ASSUME TypeOK, FlowWritten, FlowInOrder, [Next]_vars, ~ClosePort, NEW n \in Ids,
         Unended(n)'
  PROVE  Unended(n)
<1>1. HasBytes(n)' /\ ~EndsInFlow(n)'
  BY DEF Unended
<1>2. CASE kinds' = kinds /\ Flow' = Flow /\ (input' = input \/ input' = <<>>)
  <2>1. HasBytes(n)
    BY <1>1, <1>2 DEF HasBytes
  <2>2. ~EndsInFlow(n)
    BY <1>1, <1>2 DEF EndsInFlow, Size
  <2>3. QED
    BY <2>1, <2>2 DEF Unended
<1>3. CASE BeginPass \/ EndPass \/ Emit \/ HostReads \/ OpenPort \/ Suspend \/ Resume
           \/ Disconnected \/ UNCHANGED vars
  <2>1. kinds' = kinds /\ rest' = rest /\ rx' = rx
    BY <1>3, FlowStays
  <2>2. input' = input \/ input' = <<>>
    BY <1>3 DEF BeginPass, EndPass, Emit, HostReads, OpenPort, Suspend, Resume, vars,
                firmwareVars, inputVars, Disconnected, ClearInput
  <2>3. Flow' = Flow
    BY <2>1 DEF Flow
  <2>4. QED
    BY <1>2, <2>1, <2>2, <2>3
<1>4. CASE WriteByte
  <2>1. kinds' = kinds /\ Flow' = Flow
    BY <1>4, FlowWrite
  <2>2. input' = input
    BY <1>4 DEF WriteByte, firmwareVars, inputVars
  <2>3. QED
    BY <1>2, <2>1, <2>2
<1>5. CASE ReadLF \/ ReadText
  <2>1. NextByte
    BY <1>5 DEF ReadLF, ReadText
  <2>2. /\ kinds' = kinds /\ Len(Flow) \in Nat /\ Len(Flow) >= 1 /\ Len(Flow') = Len(Flow) - 1
        /\ \A i \in 1..Len(Flow') : i + 1 \in 1..Len(Flow) /\ Flow'[i] = Flow[i + 1]
        /\ 1 \in 1..Len(Flow) /\ Flow[1] = Head(rx)
    <3>1. /\ kinds' = kinds /\ Len(Flow) \in Nat /\ Len(Flow) >= 1
          /\ Len(Flow') = Len(Flow) - 1 /\ Flow[1] = Head(rx) /\ Segment(Flow', Flow, 1)
      BY <2>1, FlowRead, FlowTyped
    <3>2. \A i \in 1..Len(Flow') : i + 1 \in 1..Len(Flow) /\ Flow'[i] = Flow[i + 1]
      BY <3>1 DEF Segment
    <3>3. QED
      BY <3>1, <3>2
  <2>3. \A i \in 1..Len(input') :
          \/ i \in 1..Len(input) /\ input'[i] = input[i]
          \/ input'[i] = Flow[1]
    <3>1. CASE ReadLF
      <4>1. Len(input') = 0
        BY <3>1 DEF ReadLF, ClearInput
      <4>2. QED
        BY <4>1
    <3>2. CASE ReadText
      <4>1. input' = Append(input, Head(rx)) \/ input' = input
        BY <3>2 DEF ReadText
      <4>2. input \in Seq(Bytes)
        BY DEF TypeOK
      <4>3. Head(rx) \in Bytes
        BY <2>2, FlowTyped
      <4>4. QED
        BY <2>2, <4>1, <4>2, <4>3
    <3>3. QED
      BY <1>5, <3>1, <3>2
  <2>4. HasBytes(n)
    BY <1>1, <2>2, <2>3 DEF HasBytes
  <2>5. ~EndsInFlow(n)
    <3>1. SUFFICES ASSUME NEW i \in 1..Len(Flow), Flow[i] = [line |-> n, at |-> Size(n)]
                   PROVE  FALSE
      BY DEF EndsInFlow
    <3>2. CASE i # 1
      <4>1. i - 1 \in 1..Len(Flow') /\ (i - 1) + 1 = i
        BY <2>2, <3>2
      <4>2. Flow'[i - 1] = [line |-> n, at |-> Size(n)]
        BY <2>2, <3>1, <4>1
      <4>3. EndsInFlow(n)'
        BY <2>2, <4>1, <4>2 DEF EndsInFlow, Size
      <4>4. QED
        BY <1>1, <4>3
    <3>3. CASE i = 1
      <4>1. Flow[1].line = n /\ Flow[1].at = Size(n)
        BY <3>1, <3>3
      <4>2. ReadLF
        <5>1. Text(Head(rx)) = "LF"
          BY <2>1, <2>2, <4>1, FlowHead
        <5>2. QED
          BY <1>5, <5>1 DEF ReadText
      <4>3. Len(input') = 0
        BY <4>2 DEF ReadLF, ClearInput
      <4>4. PICK j \in 1..Len(Flow') : Flow'[j].line = n
        BY <1>1, <4>3 DEF HasBytes
      <4>5. j + 1 \in 1..Len(Flow) /\ Flow[j + 1].line = n /\ 1 < j + 1
        BY <2>2, <4>4
      <4>6. Earlier(Flow[1], Flow[j + 1])
        BY <2>2, <4>5 DEF FlowInOrder
      <4>7. Flow[j + 1].at <= Size(n) /\ Flow[j + 1].at \in Nat /\ n \in Nat
        BY <4>5, FlowTyped DEF FlowWritten, Ids
      <4>8. Size(n) \in Nat
        BY <2>2, <4>1, FlowTyped
      <4> DEFINE size == Size(n)
      <4> HIDE DEF size
      <4>9. size < Flow[j + 1].at /\ Flow[j + 1].at <= size
        BY <4>1, <4>5, <4>6, <4>7 DEF Earlier, size
      <4>10. QED
        BY <4>7, <4>8, <4>9 DEF size
    <3>4. QED
      BY <3>2, <3>3
  <2>6. QED
    BY <2>4, <2>5 DEF Unended
<1>6. ASSUME NEW kind \in Kinds, BeginLine(kind)
      PROVE  Unended(n)
  <2> DEFINE l == Len(kinds) + 1
             f == Len(Flow)
             w == Len(Written(kind))
  <2>1. /\ Len(kinds) \in Nat /\ f \in Nat /\ w \in Nat /\ w >= 2
        /\ kinds'[l] = kind
        /\ \A x \in 1..Len(kinds) : kinds'[x] = kinds[x]
        /\ Len(Flow') = f + w
        /\ \A i \in 1..f : Flow'[i] = Flow[i]
        /\ \A i \in 1..w : Flow'[f + i] = [line |-> l, at |-> i]
    BY <1>6, FlowBegin, FlowTyped, WrittenSize
  <2>2. input' = input
    BY <1>6 DEF BeginLine, firmwareVars, inputVars
  <2>3. n # l
    <3>1. SUFFICES ASSUME n = l PROVE FALSE
      OBVIOUS
    <3>2. f + w \in 1..Len(Flow') /\ w \in 1..w
      BY <2>1
    <3>3. Flow'[f + w] = [line |-> l, at |-> Len(Written(kinds'[l]))]
      BY <2>1, <3>2
    <3>4. EndsInFlow(n)'
      BY <3>1, <3>2, <3>3 DEF EndsInFlow, Size
    <3>5. QED
      BY <1>1, <3>4
  <2> HIDE DEF f, w
  <2>4. HasBytes(n)
    <3>1. ASSUME NEW i \in 1..Len(Flow'), Flow'[i].line = n
          PROVE  \E j \in 1..f : Flow[j].line = n
      <4>1. CASE i <= f
        <5>1. i \in 1..f
          BY <2>1, <4>1
        <5>2. QED
          BY <2>1, <3>1, <5>1
      <4>2. CASE i > f
        <5>1. i - f \in 1..w /\ f + (i - f) = i
          BY <2>1, <4>2
        <5>2. Flow'[i] = [line |-> l, at |-> i - f]
          BY <2>1, <5>1
        <5>3. Flow'[i].line = l
          BY <5>2
        <5>4. QED
          BY <2>3, <3>1, <5>3
      <4>3. QED
        BY <2>1, <4>1, <4>2
    <3>2. CASE \E i \in 1..Len(input') : input'[i].line = n
      BY <2>2, <3>2 DEF HasBytes
    <3>3. CASE \E i \in 1..Len(Flow') : Flow'[i].line = n
      BY <3>1, <3>3 DEF HasBytes, f
    <3>4. QED
      BY <1>1, <3>2, <3>3 DEF HasBytes
  <2>5. ~EndsInFlow(n)
    <3>1. SUFFICES ASSUME NEW i \in 1..f, Flow[i] = [line |-> n, at |-> Size(n)]
                   PROVE  FALSE
      BY DEF EndsInFlow, f
    <3>2. n \in 1..Len(kinds)
      <4>1. Flow[i].line = n
        BY <3>1
      <4>2. Flow[i].line \in Nat /\ Flow[i].line >= 1 /\ Flow[i].line <= Len(kinds)
        BY FlowTyped DEF FlowWritten, f
      <4>3. QED
        BY <2>1, <4>1, <4>2
    <3>3. kinds'[n] = kinds[n] /\ Flow'[i] = Flow[i] /\ i \in 1..Len(Flow')
      BY <2>1, <3>2
    <3>4. EndsInFlow(n)'
      BY <3>1, <3>3 DEF EndsInFlow, Size
    <3>5. QED
      BY <1>1, <3>4
  <2>6. QED
    BY <2>4, <2>5 DEF Unended
<1>7. QED
  BY <1>3, <1>4, <1>5, <1>6 DEF Next

(* It leaves one such line, the last one begun.                            *)
LEMMA LossesCutClose ==
  ASSUME TypeOK, FlowInOrder, InputInOrder, HostGoesOn, LossesCut, ClosePort
  PROVE  LossesCut'
<1>1. /\ kinds' = kinds /\ losses' = losses + 1 /\ input' = input
      /\ Flow' = rx' /\ (rx' = rx \/ rx' = <<>>) /\ losses \in Nat
      /\ input \in Seq(Bytes)
  <2>1. losses \in Nat /\ input \in Seq(Bytes)
    BY DEF TypeOK
  <2>2. QED
    BY <2>1, FlowClose
<1>2. SUFFICES ASSUME losses = 0, NEW n \in Ids, NEW m \in Ids, Unended(n)', Unended(m)'
               PROVE  n = m
  BY <1>1 DEF LossesCut
<1>3. ASSUME NEW a \in Ids, Unended(a)'
      PROVE  /\ HasBytes(a)' /\ ~EndsInFlow(a)' /\ EndsInFlow(a)
  <2>1. HasBytes(a)' /\ ~EndsInFlow(a)'
    BY <1>3 DEF Unended
  <2>2. HasBytes(a)
    <3>1. CASE \E i \in 1..Len(input') : input'[i].line = a
      BY <1>1, <3>1 DEF HasBytes
    <3>2. CASE \E i \in 1..Len(Flow') : Flow'[i].line = a
      <4>1. \A i \in 1..Len(Flow') : i \in 1..Len(Flow) /\ Flow'[i] = Flow[i + 0]
        BY FlowClose, FlowTyped DEF Segment
      <4>2. \A i \in 1..Len(Flow) : Flow[i + 0] = Flow[i]
        BY FlowTyped
      <4>3. QED
        BY <3>2, <4>1, <4>2 DEF HasBytes
    <3>3. QED
      BY <2>1, <3>1, <3>2 DEF HasBytes
  <2>3. ~Unended(a)
    BY <1>2 DEF LossesCut
  <2>4. QED
    BY <2>1, <2>2, <2>3 DEF Unended
<1>4. CASE rx' = rx
  <2>1. ASSUME NEW a \in Ids, Unended(a)'
        PROVE  a = Len(kinds)
    <3>1. PICK i \in 1..Len(Flow) : Flow[i] = [line |-> a, at |-> Size(a)]
      BY <1>3, <2>1 DEF EndsInFlow
    <3>2. ~(i \in 1..Len(rx))
      <4>1. SUFFICES ASSUME i \in 1..Len(rx) PROVE FALSE
        OBVIOUS
      <4>2. Flow'[i] = [line |-> a, at |-> Size(a)] /\ i \in 1..Len(Flow')
        BY <1>1, <1>4, <3>1, <4>1, FlowTyped
      <4>3. EndsInFlow(a)'
        BY <1>1, <4>2 DEF EndsInFlow, Size
      <4>4. QED
        BY <1>3, <2>1, <4>3
    <3>3. i - Len(rx) \in 1..Len(rest) /\ Len(rx) + (i - Len(rx)) = i
      BY <3>1, <3>2, FlowTyped
    <3>4. Flow[i] = rest[i - Len(rx)]
      BY <3>3, FlowTyped
    <3> DEFINE place == Size(Len(kinds)) - Len(rest) + (i - Len(rx))
    <3>5. rest[i - Len(rx)] = [line |-> Len(kinds), at |-> place]
      BY <3>3 DEF HostGoesOn
    <3> HIDE DEF place
    <3>6. rest[i - Len(rx)].line = Len(kinds)
      BY <3>5
    <3>7. Flow[i].line = a
      BY <3>1
    <3>8. QED
      BY <3>4, <3>6, <3>7
  <2>2. QED
    BY <1>2, <2>1
<1>5. CASE rx' = <<>>
  <2>1. ASSUME NEW a \in Ids, Unended(a)', NEW b \in Ids, Unended(b)'
        PROVE  b <= a
    <3>1. PICK i \in 1..Len(Flow) : Flow[i] = [line |-> a, at |-> Size(a)]
      BY <1>3, <2>1 DEF EndsInFlow
    <3>2. Len(Flow') = 0
      BY <1>1, <1>5
    <3>3. PICK j \in 1..Len(input) : input[j].line = b
      BY <1>1, <1>3, <2>1, <3>2 DEF HasBytes
    <3>4. Earlier(input[j], Flow[i])
      BY InputBeforeFlow
    <3>5. Flow[i].line = a /\ a \in Nat /\ b \in Nat
      BY <3>1 DEF Ids
    <3>6. QED
      BY <3>3, <3>4, <3>5 DEF Earlier
  <2>2. n <= m /\ m <= n /\ n \in Nat /\ m \in Nat
    BY <1>2, <2>1 DEF Ids
  <2>3. QED
    BY <2>2
<1>6. QED
  BY <1>1, <1>4, <1>5

(* So every step has at most one, up to the first loss.                    *)
LEMMA LossesCutStep ==
  ASSUME TypeOK, FlowWritten, FlowInOrder, InputInOrder, HostGoesOn, LossesCut,
         [Next]_vars
  PROVE  LossesCut'
<1>1. CASE ClosePort
  BY <1>1, LossesCutClose
<1>2. CASE ~ClosePort
  <2>1. losses' >= losses /\ losses \in Nat /\ losses' \in Nat
    <3>1. losses \in Nat
      BY DEF TypeOK
    <3>2. CASE losses' = losses
      BY <3>1, <3>2
    <3>3. CASE Suspend
      BY <3>1, <3>3 DEF Suspend
    <3>4. CASE \/ Disconnected \/ BeginPass \/ ReadLF \/ ReadText \/ EndPass \/ Emit
               \/ \E kind \in Kinds : BeginLine(kind)
               \/ WriteByte \/ HostReads \/ OpenPort \/ Resume \/ UNCHANGED vars
      <4>1. losses' = losses
        BY <3>4 DEF Disconnected, BeginPass, ReadLF, ReadText, NextByte, EndPass, Emit,
                    BeginLine, WriteByte, HostReads, OpenPort, Resume, vars, boundVars
      <4>2. QED
        BY <3>2, <4>1
    <3>5. QED
      BY <1>2, <3>3, <3>4 DEF Next
  <2>2. \A n \in Ids : Unended(n)' => Unended(n)
    BY <1>2, UnendedStays
  <2>3. losses' = 0 => \A n \in Ids : ~Unended(n)'
    BY <2>1, <2>2 DEF LossesCut
  <2>4. losses' <= 1 => \A n, m \in Ids : Unended(n)' /\ Unended(m)' => n = m
    BY <2>1, <2>2 DEF LossesCut
  <2>5. QED
    BY <2>3, <2>4 DEF LossesCut
<1>3. QED
  BY <1>1, <1>2

(* What the buffer is, inductively.                                        *)
InputsSound == InputSound /\ LossesCut

(* It holds throughout.                                                    *)
LEMMA SetupInputsSound == Spec => []InputsSound
<1>1. Init => InputsSound
  <2> SUFFICES ASSUME Init PROVE InputsSound
    OBVIOUS
  <2>1. Len(input) = 0 /\ Len(Flow) = 0
    BY DEF Init, Flow
  <2>2. InputSound
    BY <2>1 DEF InputSound, InputWritten, InputInOrder, InputJoined, Ordered, Complete
  <2>3. LossesCut
    BY <2>1 DEF LossesCut, Unended, HasBytes
  <2>4. QED
    BY <2>2, <2>3 DEF InputsSound
<1>2. TypeOK /\ FlowSound /\ LinesSound /\ InputsSound /\ [Next]_vars => InputsSound'
  BY InputSoundStep, LossesCutStep DEF FlowSound, LinesSound, InputsSound, InputSound
<1>3. QED
  BY <1>1, <1>2, SetupSound, SetupLinesSound, PTL DEF Spec

(* What a field says of its byte.                                          *)
LEMMA FieldAt ==
  ASSUME TypeOK, InputWritten, NEW i \in 1..Len(input)
  PROVE  /\ input[i].line \in 1..Len(kinds) /\ kinds[input[i].line] \in Kinds
         /\ input[i].line \in Ids
         /\ input[i].at \in Nat /\ input[i].at >= 1 /\ input[i].at < Size(input[i].line)
         /\ Text(input[i]) = "protocol"
              <=> input[i].at = 1 /\ kinds[input[i].line] # "bare"
         /\ Text(input[i]) = "command"
              <=> /\ input[i].at = CommandAt(kinds[input[i].line])
                  /\ kinds[input[i].line] # "bare"
         /\ Text(input[i]) # "control"
<1> DEFINE l == input[i].line
           a == input[i].at
           kind == kinds[l]
<1>1. l \in Nat /\ l >= 1 /\ a \in Nat /\ a >= 1 /\ l \in Ids
  <2>1. input \in Seq(Bytes)
    BY DEF TypeOK
  <2>2. input[i] \in Bytes
    BY <2>1
  <2>3. QED
    BY <2>2 DEF Bytes, Ids
<1>2. /\ l <= Len(kinds) /\ a < Len(Written(kind))
      /\ Text(input[i]) \in {"protocol", "command", "text"}
  BY DEF InputWritten, Size
<1>3. l \in 1..Len(kinds) /\ kind \in Kinds
  <2>1. kinds \in Seq(Kinds)
    BY DEF TypeOK
  <2>2. l \in 1..Len(kinds)
    BY <1>1, <1>2, <2>1
  <2>3. QED
    BY <2>1, <2>2
<1>4. a \in 1..Len(Written(kind))
  BY <1>1, <1>2, <1>3, WrittenSize
<1>5. Text(input[i]) = Written(kind)[a]
  BY DEF Text
<1> HIDE DEF kind, a
<1>6. /\ Written(kind)[a] = "protocol" <=> a = 1 /\ kind # "bare"
      /\ Written(kind)[a] = "command" <=> a = CommandAt(kind) /\ kind # "bare"
  BY <1>3, <1>4, WrittenFacts
<1>7. QED
  BY <1>1, <1>2, <1>3, <1>5, <1>6 DEF kind, a, Size

(* At an LF the buffer has bytes of its line, and of unended ones.         *)
LEMMA OthersUnended ==
  ASSUME TypeOK, FlowWritten, FlowInOrder, InputInOrder, ReadLF,
         NEW i \in 1..Len(input)
  PROVE  /\ input[i].line <= Head(rx).line
         /\ input[i].line # Head(rx).line => Unended(input[i].line)
<1> DEFINE l == input[i].line
           n == Head(rx).line
<1>1. /\ NextByte /\ Len(Flow) >= 1 /\ Len(Flow) \in Nat /\ Flow[1] = Head(rx)
      /\ 1 \in 1..Len(Flow)
  BY FlowHead DEF ReadLF
<1>2. Earlier(input[i], Flow[1])
  BY <1>1, InputBeforeFlow
<1>3. l \in Nat /\ n \in Nat
  <2>1. input \in Seq(Bytes)
    BY DEF TypeOK
  <2>2. input[i] \in Bytes /\ Flow[1] \in Bytes
    BY <1>1, <2>1, FlowTyped
  <2>3. QED
    BY <1>1, <2>2, ByteTyped
<1>4. l <= n
  BY <1>1, <1>2, <1>3 DEF Earlier
<1>5. ASSUME l # n, NEW j \in 1..Len(Flow), Flow[j] = [line |-> l, at |-> Size(l)]
      PROVE  FALSE
  <2>1. Flow[j].line = l
    BY <1>5
  <2>2. j # 1
    BY <1>1, <1>5, <2>1
  <2>3. Earlier(Flow[1], Flow[j])
    BY <1>1, <2>2 DEF FlowInOrder
  <2>4. QED
    BY <1>1, <1>3, <1>4, <1>5, <2>1, <2>3 DEF Earlier
<1>6. HasBytes(l)
  BY DEF HasBytes
<1>7. QED
  BY <1>4, <1>5, <1>6 DEF Unended, EndsInFlow

(* After a loss at most a line handled as a SET_CONFIG is one.             *)
LEMMA OneLineFields ==
  ASSUME TypeOK, FlowSound, InputsSound, losses <= 1, ReadLF, ~overflow, Command
  PROVE  /\ \A i \in 1..Len(input) : IsField(input[i]) => input[i].line = CommandLine
         /\ CommandKind \notin {"long", "control"}
<1> DEFINE n == Head(rx).line
           k == Len(input)
<1>0. /\ FlowWritten /\ FlowInOrder /\ InputWritten /\ InputInOrder /\ Ordered(input)
      /\ Complete(input) /\ LossesCut
      /\ Len(input) >= 1 /\ Len(Flow) >= 1 => Joins(input[Len(input)], Flow[1])
  BY DEF FlowSound, InputsSound, InputSound, InputInOrder, InputJoined
<1>1. PICK p \in 1..k : \A i \in 1..k : Text(input[i]) = "protocol" <=> i = p
  BY DEF Command, Once
<1>2. PICK c \in 1..k : \A i \in 1..k : Text(input[i]) = "command" <=> i = c
  BY DEF Command, Once
<1>3. CommandLine = input[c].line
  <2>1. InputTyped
    BY TypeParts DEF Typed
  <2>2. PICK i \in 1..k : Text(input[i]) = "command" /\ CommandLine = input[i].line
    BY <2>1, CommandTyped DEF Command
  <2>3. QED
    BY <1>2, <2>2
<1> DEFINE lp == input[p].line
           lc == input[c].line
<1>4. /\ Text(input[p]) = "protocol" /\ Text(input[c]) = "command"
      /\ k \in Nat /\ k <= InputSize /\ InputSize \in Nat /\ InputSize >= 3
  <2>1. Text(input[p]) = "protocol" /\ Text(input[c]) = "command"
    BY <1>1, <1>2
  <2>2. k \in Nat /\ k <= InputSize
    BY DEF TypeOK
  <2>3. QED
    BY <2>1, <2>2, SizesTyped
<1>5. /\ input[p].at = 1 /\ kinds[lp] # "bare"
      /\ input[c].at = CommandAt(kinds[lc]) /\ kinds[lc] # "bare"
      /\ lp \in Ids /\ lc \in Ids /\ kinds[lp] \in Kinds /\ kinds[lc] \in Kinds
  BY <1>0, <1>4, FieldAt
<1>6. p # c
  BY <1>4
<1>7. lp \in Nat /\ lc \in Nat /\ n \in Nat /\ lp <= n /\ lc <= n
      /\ NextByte /\ Flow[1] = Head(rx) /\ Len(Flow) >= 1 /\ Flow[1].at = Size(n)
  <2>1. NextByte /\ Text(Head(rx)) = "LF"
    BY DEF ReadLF
  <2>2. /\ Flow[1] = Head(rx) /\ Len(Flow) >= 1 /\ Head(rx).at = Size(n)
        /\ n \in 1..Len(kinds)
    BY <1>0, <2>1, FlowHead
  <2>3. lp <= n /\ lc <= n
    BY <1>0, OthersUnended
  <2>4. QED
    BY <1>5, <2>1, <2>2, <2>3 DEF Ids
<1>8. \A i, j \in 1..k : i < j => Earlier(input[i], input[j])
  BY <1>0 DEF Ordered
<1>9. \A i, j \in 1..k :
        i < j => IF input[i].line = input[j].line
                 THEN input[j].at = input[i].at + (j - i)
                 ELSE \E q \in i + 1..j : input[q] = [line |-> input[j].line, at |-> 1]
  BY <1>0 DEF Complete
<1>10. lp = lc
  <2>1. SUFFICES ASSUME lp # lc PROVE FALSE
    OBVIOUS
  <2>2. lp = n \/ lc = n
    <3>1. SUFFICES ASSUME lp # n, lc # n PROVE FALSE
      OBVIOUS
    <3>2. Unended(lp) /\ Unended(lc)
      BY <1>0, <3>1, OthersUnended
    <3>3. QED
      BY <1>0, <1>5, <2>1, <3>2 DEF LossesCut
  <2>3. CASE lp = n
    <3>1. k \in 1..k /\ k >= 1 /\ input[k].line = n
          /\ input[k].at \in Nat
      <4>1. k \in 1..k /\ k >= 1
        BY <1>4
      <4>2. input[k].line <= n /\ input[k].line \in Nat /\ input[k].at \in Nat
        BY <1>0, <4>1, OthersUnended, FieldAt DEF Ids
      <4>3. p = k \/ Earlier(input[p], input[k])
        BY <1>4, <1>8, <4>1
      <4>4. n <= input[k].line
        BY <1>7, <2>3, <4>2, <4>3 DEF Earlier
      <4>5. QED
        BY <1>7, <4>1, <4>2, <4>4
    <3>2. input[k].at = 1 + (k - p)
      <4>1. CASE p = k
        BY <1>4, <1>5, <4>1
      <4>2. CASE p < k
        <5>1. IF input[p].line = input[k].line
              THEN input[k].at = input[p].at + (k - p)
              ELSE \E q \in p + 1..k : input[q] = [line |-> input[k].line, at |-> 1]
          BY <1>9, <3>1, <4>2
        <5>2. input[k].at = input[p].at + (k - p)
          BY <2>3, <3>1, <5>1
        <5>3. QED
          BY <1>5, <5>2
      <4>3. QED
        BY <1>4, <4>1, <4>2
    <3>3. \/ Size(n) = input[k].at + 1
          \/ kinds[n] = "hook" /\ input[k].at = 3
      BY <1>0, <1>7, <3>1 DEF Joins
    <3>4. input[k].at >= CommandAt(kinds[n]) /\ CommandAt(kinds[n]) \in Nat
          /\ CommandAt(kinds[n]) >= 2
      <4> DEFINE kind == kinds[n]
                 size == Len(Written(kind))
      <4>1. kind \in Kinds /\ kind # "bare"
        BY <1>5, <2>3
      <4>2. /\ kind = "long" => size = InputSize + 2
            /\ kind \in {"get", "set", "bad"} => size = 3
            /\ kind = "hook" => size = 5
            /\ kind = "control" => size = 4
        BY <4>1, WrittenBytes, Zenon
      <4>3. size = input[k].at + 1 \/ (kind = "hook" /\ input[k].at = 3)
        BY <3>3 DEF Size
      <4> HIDE DEF kind, size
      <4>4. CASE kind = "hook"
        <5>1. CommandAt(kind) = 2
          BY <4>4 DEF CommandAt
        <5>2. input[k].at >= 2
          BY <3>1, <4>2, <4>3, <4>4
        <5>3. QED
          BY <5>1, <5>2 DEF kind
      <4>5. CASE kind \in {"get", "set", "bad", "long", "control"}
        <5>1. CommandAt(kind) + 1 = size /\ CommandAt(kind) \in Nat /\ CommandAt(kind) >= 2
          BY <1>4, <4>2, <4>5 DEF CommandAt
        <5>2. size = input[k].at + 1
          BY <4>3, <4>5
        <5>3. QED
          BY <3>1, <5>1, <5>2 DEF kind
      <4>6. QED
        BY <4>1, <4>4, <4>5 DEF Kinds
    <3> DEFINE q == p + (CommandAt(kinds[n]) - 1)
    <3>5. q \in 1..k /\ p < q
      <4> DEFINE x == CommandAt(kinds[n])
      <4>1. x \in Nat /\ x >= 2 /\ x <= 1 + (k - p) /\ q = p + (x - 1)
        BY <3>2, <3>4
      <4>2. p \in 1..k /\ k \in Nat
        BY <1>4
      <4> HIDE DEF x, q
      <4>3. QED
        BY <4>1, <4>2
    <3>6. input[q].line = n
      <4>1. Earlier(input[p], input[q])
        BY <1>8, <3>5
      <4>2. input[q].line <= n /\ input[q].line \in Nat
        BY <1>0, <3>5, OthersUnended, FieldAt DEF Ids
      <4>3. n <= input[q].line
        BY <1>7, <2>3, <4>1, <4>2 DEF Earlier
      <4>4. QED
        BY <1>7, <4>2, <4>3
    <3>7. input[q].at = CommandAt(kinds[n])
      <4>1. q - p = CommandAt(kinds[n]) - 1
        BY <1>4, <3>4
      <4> HIDE DEF q
      <4>2. IF input[p].line = input[q].line
            THEN input[q].at = input[p].at + (q - p)
            ELSE \E r \in p + 1..q : input[r] = [line |-> input[q].line, at |-> 1]
        BY <1>9, <3>5
      <4>3. input[q].at = input[p].at + (q - p)
        BY <2>3, <3>6, <4>2
      <4>4. QED
        BY <1>5, <3>4, <4>1, <4>3
    <3>8. Text(input[q]) = "command"
      BY <1>0, <1>5, <2>3, <3>5, <3>6, <3>7, FieldAt
    <3>9. q = c
      BY <1>2, <3>5, <3>8
    <3>10. QED
      BY <2>1, <2>3, <3>6, <3>9
  <2>4. CASE lc = n
    <3>1. p < c
      <4>1. SUFFICES ASSUME c < p PROVE FALSE
        BY <1>4, <1>6
      <4>2. Earlier(input[c], input[p])
        BY <1>8, <4>1
      <4>3. QED
        BY <1>7, <2>1, <2>4, <4>2 DEF Earlier
    <3>2. PICK q \in p + 1..c : input[q] = [line |-> lc, at |-> 1]
      BY <1>9, <2>1, <3>1
    <3>3. q \in 1..k /\ q # p
      BY <1>4, <3>2
    <3>4. input[q].line = lc /\ input[q].at = 1
      BY <3>2
    <3>5. Text(input[q]) = "protocol"
      BY <1>0, <1>5, <3>3, <3>4, FieldAt
    <3>6. QED
      BY <1>1, <3>3, <3>5
  <2>5. QED
    BY <2>2, <2>3, <2>4
<1>11. ASSUME NEW i \in 1..k, IsField(input[i])
       PROVE  input[i].line = CommandLine
  <2>1. i = p \/ i = c
    BY <1>1, <1>2, <1>11 DEF IsField
  <2>2. QED
    BY <1>3, <1>10, <2>1
<1>12. ASSUME kinds[lc] \in {"long", "control"}
       PROVE  FALSE
  <2>1. CommandAt(kinds[lc]) \in Nat /\ CommandAt(kinds[lc]) > 1
    BY <1>4, <1>12 DEF CommandAt
  <2>2. p < c
    <3>1. SUFFICES ASSUME c < p PROVE FALSE
      BY <1>4, <1>6
    <3>2. Earlier(input[c], input[p])
      BY <1>8, <3>1
    <3>3. QED
      BY <1>5, <1>7, <1>10, <2>1, <3>2 DEF Earlier
  <2>3. CommandAt(kinds[lc]) = 1 + (c - p)
    <3>1. IF lp = lc THEN input[c].at = input[p].at + (c - p)
          ELSE \E q \in p + 1..c : input[q] = [line |-> lc, at |-> 1]
      BY <1>9, <2>2
    <3>2. input[c].at = input[p].at + (c - p)
      BY <1>10, <3>1
    <3>3. QED
      BY <1>5, <3>2
  <2>4. CASE kinds[lc] = "long"
    <3>1. CommandAt(kinds[lc]) = InputSize + 1
      BY <2>4 DEF CommandAt
    <3>2. QED
      BY <1>4, <2>2, <2>3, <3>1
  <2>5. CASE kinds[lc] = "control"
    <3>1. CommandAt(kinds[lc]) = 3
      BY <2>5 DEF CommandAt
    <3>2. p + 1 \in 1..k /\ p < p + 1 /\ p + 1 < c
      BY <1>4, <2>2, <2>3, <3>1
    <3>3. /\ input[p + 1].line \in Nat
          /\ Earlier(input[p], input[p + 1]) /\ Earlier(input[p + 1], input[c])
      BY <1>0, <1>8, <3>2, FieldAt DEF Ids
    <3>4. input[p + 1].line = lc
      BY <1>7, <1>10, <3>3 DEF Earlier
    <3>5. IF input[p].line = input[p + 1].line
          THEN input[p + 1].at = input[p].at + ((p + 1) - p)
          ELSE \E r \in p + 1..p + 1 : input[r] = [line |-> input[p + 1].line, at |-> 1]
      BY <1>9, <3>2
    <3>6. input[p + 1].at = 2
      <4>1. input[p + 1].at = input[p].at + ((p + 1) - p)
        BY <1>10, <3>4, <3>5
      <4>2. (p + 1) - p = 1
        BY <1>4
      <4>3. QED
        BY <1>5, <4>1, <4>2
    <3>7. Text(input[p + 1]) = Written(kinds[lc])[2]
      BY <3>4, <3>6 DEF Text
    <3>8. Written(kinds[lc])[2] = "control"
      BY <1>5, <2>5, WrittenBytes, Zenon
    <3>9. Text(input[p + 1]) # "control"
      BY <1>0, <3>2, FieldAt
    <3>10. QED
      BY <3>7, <3>8, <3>9
  <2>6. QED
    BY <1>12, <2>4, <2>5
<1>13. QED
  BY <1>3, <1>11, <1>12 DEF CommandKind

(* A step that stores is the LF of a line taken for a SET_CONFIG.          *)
LEMMA StoreStep ==
  ASSUME [Next]_vars, stored' # stored
  PROVE  /\ ReadLF /\ ~overflow /\ Command /\ stored' = CommandLine
         /\ CommandKind \in {"set", "long", "control"}
<1>1. CASE ReadLF
  <2>1. /\ ~overflow /\ HandleLine(Head(rx).line)
    BY <1>1 DEF ReadLF, configVars
  <2>2. SetConfig(Head(rx).line)
    BY <2>1 DEF HandleLine, UnsupportedProtocol, InvalidRequest, Get, Reject,
                PairingCommand, configVars
  <2>3. QED
    BY <1>1, <2>1, <2>2 DEF SetConfig, NotStored, configVars
<1>2. CASE Disconnected \/ BeginPass \/ ReadText \/ EndPass \/ Emit \/ UNCHANGED vars
  BY <1>2 DEF Disconnected, BeginPass, ReadText, EndPass, Emit, vars, configVars
<1>3. CASE \/ WriteByte \/ HostReads \/ OpenPort \/ ClosePort \/ Suspend \/ Resume
           \/ \E kind \in Kinds : BeginLine(kind)
  BY <1>3 DEF WriteByte, HostReads, OpenPort, ClosePort, Suspend, Resume, BeginLine,
              firmwareVars, configVars
<1>4. QED
  BY <1>1, <1>2, <1>3 DEF Next

(* A mapping is stored only by a SET_CONFIG all of whose fields were       *)
(* received, and no other line's (config_service.cpp:12-16, 193-203,       *)
(* 361-381).                                                               *)
THEOREM SetupOnlyOneLineStores == Spec => OnlyOneLineStores
<1> DEFINE Stores ==
      stored' # stored /\ (losses <= 1 \/ Head(rx).line \notin cut) =>
        /\ kinds[stored'] = "set"
        /\ \A i \in 1..Len(input) : IsField(input[i]) => input[i].line = stored'
<1>1. TypeOK /\ FlowSound /\ LinesSound /\ InputsSound /\ [Next]_vars => Stores
  <2> SUFFICES ASSUME TypeOK, FlowSound, LinesSound, InputsSound, [Next]_vars,
                      stored' # stored, losses <= 1 \/ Head(rx).line \notin cut
               PROVE  /\ kinds[stored'] = "set"
                      /\ \A i \in 1..Len(input) :
                           IsField(input[i]) => input[i].line = stored'
    OBVIOUS
  <2>1. /\ ReadLF /\ ~overflow /\ Command /\ stored' = CommandLine
        /\ CommandKind \in {"set", "long", "control"}
    BY StoreStep
  <2>2. CASE losses <= 1
    BY <2>1, <2>2, OneLineFields DEF CommandKind
  <2>3. CASE Head(rx).line \notin cut
    <3> DEFINE n == Head(rx).line
    <3>1. FlowWritten /\ LineIsFed /\ n \notin cut
      BY <2>3 DEF FlowSound, LinesSound
    <3>2. /\ kinds[n] \in {"get", "set", "bad", "hook", "bare"}
          /\ \A i \in 1..Len(input) : input[i] = [line |-> n, at |-> i]
      BY <2>1, <3>1, WholeLine
    <3>3. CommandLine = n
      <4>1. kinds[n] # "bare"
        BY <2>1, <3>1, WholeLineFields DEF Command
      <4>2. QED
        BY <2>1, <3>1, <4>1, WholeLineFields
    <3>4. ASSUME NEW i \in 1..Len(input)
          PROVE  input[i].line = n
      <4>1. input[i] = [line |-> n, at |-> i]
        BY <3>2
      <4>2. QED
        BY <4>1
    <3>5. QED
      BY <2>1, <3>2, <3>3, <3>4 DEF CommandKind
  <2>4. QED
    BY <2>2, <2>3
<1>2. QED
  BY <1>1, SetupSound, SetupLinesSound, SetupInputsSound, PTL DEF Spec, OnlyOneLineStores
-----------------------------------------------------------------------------
(* The room a pass needs.                                                  *)

(* In a pass every line takes three bytes, and four if it is answered with *)
(* an event too, of which the first line may have taken all but the LF     *)
(* before.                                                                 *)
Paid(plain, pairing) ==
  /\ Len(tx) <= 2 * plain + 4 * pairing
  /\ plain + pairing > 0 => 3 * plain + 4 * pairing + Len(input) <= processed + 3
PassIsPaid == pc = "read" /\ ~short => \E plain, pairing \in Nat : Paid(plain, pairing)

(* An event is a line more at most.                                        *)
LEMMA LongerQueue ==
  ASSUME TypeOK, NEW q \in {Queue, WriteLine(Queue, Event)}
  PROVE  /\ QueueFits(q) /\ Len(q.tx) <= Len(tx) + 2
         /\ Len(q.tx) \in Nat /\ Len(tx) \in Nat
<1>1. QueueFits(Queue) /\ Queue.tx = tx
  BY TypeParts DEF Typed, Queue
<1>2. Len(tx) \in Nat
  BY <1>1, WaitingTyped
<1>3. QueueFits(q) /\ Len(q.tx) <= Len(tx) + 2
  <2>1. CASE q = Queue
    BY <1>1, <1>2, <2>1
  <2>2. CASE q = WriteLine(Queue, Event)
    BY <1>1, <2>2, WriteLineFacts
  <2>3. QED
    BY <2>1, <2>2
<1>4. QED
  BY <1>2, <1>3, WaitingTyped

(* A line that is not short has two texts.                                 *)
LEMMA LongerLine ==
  ASSUME TypeOK, ReadLF, ~short'
  PROVE  ~short /\ Len(input) >= 2
<1>1. short' = (short \/ Len(input) < 2)
  BY DEF ReadLF
<1>2. input \in Seq(Bytes)
  BY DEF TypeOK
<1>3. Len(input) \in Nat
  BY <1>2
<1>4. ~short /\ ~(Len(input) < 2)
  BY <1>1, Zenon
<1>5. QED
  BY <1>3, <1>4

(* A pairing command has more in it than its two fields.                   *)
LEMMA PairingTakesThree ==
  ASSUME TypeOK, FlowSound, InputsSound, ReadLF, ~overflow, Command,
         CommandKind = "hook"
  PROVE  Len(input) >= 3
<1> DEFINE n == Head(rx).line
           k == Len(input)
<1>0. /\ FlowWritten /\ InputWritten
      /\ Len(input) >= 1 /\ Len(Flow) >= 1 => Joins(input[Len(input)], Flow[1])
  BY DEF FlowSound, InputsSound, InputSound, InputJoined
<1>1. PICK p \in 1..k : Text(input[p]) = "protocol"
  BY DEF Command, Once
<1>2. PICK c \in 1..k : /\ \A i \in 1..k : Text(input[i]) = "command" <=> i = c
  BY DEF Command, Once
<1>3. CommandLine = input[c].line
  <2>1. InputTyped
    BY TypeParts DEF Typed
  <2>2. PICK i \in 1..k : Text(input[i]) = "command" /\ CommandLine = input[i].line
    BY <2>1, CommandTyped DEF Command
  <2>3. QED
    BY <1>2, <2>2
<1>4. /\ NextByte /\ Len(Flow) >= 1 /\ Flow[1] = Head(rx) /\ Flow[1].at = Size(n)
      /\ kinds[n] \in Kinds
  <2>1. NextByte /\ Text(Head(rx)) = "LF"
    BY DEF ReadLF
  <2>2. QED
    BY <1>0, <2>1, FlowHead
<1>5. Size(n) \in Nat /\ Size(n) >= 2
  BY <1>4, WrittenSize DEF Size
<1>6. k \in Nat /\ Text(input[c]) = "command"
  BY <1>2 DEF TypeOK
<1>7. p # c
  BY <1>1, <1>6
<1>8. SUFFICES ASSUME k = p \/ k = c
               PROVE  FALSE
  BY <1>6, <1>7
<1>9. Joins(input[k], Flow[1])
  BY <1>0, <1>4, <1>6, <1>7
<1>10. input[k].line = n
  BY <1>4, <1>5, <1>9 DEF Joins
<1>11. \/ Size(n) = input[k].at + 1
       \/ kinds[n] = "hook" /\ input[k].at = 3
  BY <1>4, <1>9, <1>10 DEF Joins
<1>12. CASE k = c
  <2>1. kinds[n] = "hook"
    BY <1>3, <1>10, <1>12 DEF CommandKind
  <2>2. input[c].at = 2
    <3>1. input[c].at = CommandAt(kinds[n])
      BY <1>0, <1>6, <1>10, <1>12, FieldAt
    <3>2. QED
      BY <2>1, <3>1 DEF CommandAt
  <2>3. Size(n) = 5
    BY <1>4, <2>1, WrittenBytes, Zenon DEF Size
  <2>4. QED
    BY <1>11, <1>12, <2>2, <2>3
<1>13. CASE k = p
  <2>1. input[p].at = 1 /\ kinds[n] # "bare"
    BY <1>0, <1>1, <1>10, <1>13, FieldAt
  <2>2. Size(n) = 2
    BY <1>11, <1>13, <2>1
  <2> DEFINE kind == kinds[n]
             size == Len(Written(kind))
  <2>3. /\ kind = "long" => size = InputSize + 2
        /\ kind \in {"get", "set", "bad"} => size = 3
        /\ kind = "hook" => size = 5
        /\ kind = "control" => size = 4
    BY <1>4, WrittenBytes, Zenon
  <2>4. kind \in Kinds /\ kind # "bare" /\ size = 2
    BY <1>4, <2>1, <2>2 DEF Size
  <2> HIDE DEF kind, size
  <2>5. QED
    BY <2>3, <2>4, SizesTyped DEF Kinds
<1>14. QED
  BY <1>8, <1>12, <1>13

(* The answer to a line, an event before it only if the line was that long. *)
LEMMA ReadLFPays ==
  ASSUME TypeOK, FlowSound, InputsSound, ReadLF
  PROVE  \/ Queue' = Queue /\ lost' = lost
         \/ \E q \in {Queue, WriteLine(Queue, Event)}, status \in Statuses :
              /\ Respond(q, Head(rx).line, status, mapping')
              /\ q = Queue \/ Len(input) >= 3
<1> DEFINE n == Head(rx).line
<1>1. CASE overflow
  <2>1. Respond(Queue, n, "frame_too_large", mapping')
    BY <1>1 DEF ReadLF, configVars
  <2>2. QED
    BY <2>1 DEF Statuses
<1>2. CASE ~overflow /\ input = <<>> /\ UNCHANGED <<sendVars, configVars, lost>>
  BY <1>2 DEF sendVars, Queue
<1>3. CASE ~overflow /\ HandleLine(n)
  <2>1. CASE UnsupportedProtocol(n)
    BY <2>1 DEF UnsupportedProtocol, configVars, Statuses
  <2>2. CASE InvalidRequest(n)
    BY <2>2 DEF InvalidRequest, configVars, Statuses
  <2>3. CASE Get(n)
    BY <2>3 DEF Get, configVars, Statuses
  <2>4. CASE Reject(n)
    BY <2>4 DEF Reject, configVars, Statuses
  <2>5. CASE SetConfig(n)
    <3>1. \/ Respond(Queue, n, "ok", mapping')
          \/ Respond(Queue, n, "store_failed", mapping')
      BY <2>5 DEF SetConfig, NotStored, configVars
    <3>2. QED
      BY <3>1 DEF Statuses
  <2>6. CASE PairingCommand(n)
    <3>1. Len(input) >= 3
      BY <1>3, <2>6, PairingTakesThree DEF PairingCommand
    <3>2. PICK q \in {Queue, WriteLine(Queue, Event)}, status \in {"ok", "rejected"} :
            Respond(q, n, status, mapping')
      BY <2>6 DEF PairingCommand, configVars
    <3>3. QED
      BY <3>1, <3>2 DEF Statuses
  <2>7. QED
    BY <1>3, <2>1, <2>2, <2>3, <2>4, <2>5, <2>6 DEF HandleLine
<1>4. QED
  BY <1>1, <1>2, <1>3 DEF ReadLF

(* How the queue grows by an answer.                                       *)
LEMMA AnswerGrows ==
  ASSUME TypeOK, ReadLF, NEW q \in {Queue, WriteLine(Queue, Event)},
         NEW status \in Statuses, Respond(q, Head(rx).line, status, mapping')
  PROVE  Len(tx') <= Len(q.tx) + 2 /\ Len(tx') \in Nat
<1> DEFINE m == [to |-> Head(rx).line, status |-> status, mapping |-> mapping']
<1>1. m \in Answers
  <2>1. Head(rx).line \in Ids
    BY TypeParts, HeadTyped DEF Typed, ReadLF, NextByte, Reading
  <2>2. mapping' \in Nat
    BY ReadLFStep
  <2>3. QED
    BY <2>1, <2>2 DEF Answers
<1>2. tx' = WriteLine(q, m).tx
  BY DEF Respond, SetQueue
<1> HIDE DEF m
<1>3. QueueFits(q)
  BY LongerQueue
<1>4. QueueFits(WriteLine(q, m)) /\ Len(WriteLine(q, m).tx) <= Len(q.tx) + 2
  BY <1>1, <1>3, WriteLineFacts
<1>5. QED
  BY <1>2, <1>4, WaitingTyped

(* Every step of a pass pays for the answers it queues.                    *)
LEMMA PaidStep ==
  ASSUME TypeOK, FlowSound, InputsSound, PassIsPaid, [Next]_vars
  PROVE  PassIsPaid'
<1>0. /\ Len(tx) \in Nat /\ Len(input) \in Nat /\ processed \in Nat /\ short \in BOOLEAN
      /\ input \in Seq(Bytes)
  <2>1. /\ tx \in Seq(Units) /\ input \in Seq(Bytes) /\ processed \in 0..MaxBytes
        /\ short \in BOOLEAN
    BY DEF TypeOK
  <2>2. QED
    BY <2>1, SizesTyped
<1>1. CASE pc' # "read"
  BY <1>1 DEF PassIsPaid
<1>2. CASE UNCHANGED vars
  BY <1>2 DEF PassIsPaid, Paid, vars, sendVars, inputVars
<1>3. CASE BeginPass
  <2>1. CASE tx' = <<>>
    <3>1. Len(tx') = 0
      BY <2>1
    <3>2. Paid(0, 0)'
      BY <3>1 DEF Paid
    <3>3. QED
      BY <3>2 DEF PassIsPaid
  <2>2. CASE tx' # <<>>
    <3>1. pc' = "loop"
      BY <1>3, <2>2 DEF BeginPass, Drained, SetQueue
    <3>2. QED
      BY <1>1, <3>1
  <2>3. QED
    BY <2>1, <2>2
<1>4. CASE ReadLF
  <2>1. SUFFICES ASSUME ~short'
                 PROVE  \E plain, pairing \in Nat : Paid(plain, pairing)'
    BY DEF PassIsPaid
  <2>2. /\ pc = "read" /\ processed' = processed + 1 /\ input' = <<>>
        /\ ~short /\ Len(input) >= 2
    <3>1. pc = "read" /\ processed' = processed + 1 /\ input' = <<>>
      BY <1>4 DEF ReadLF, NextByte, Reading, ClearInput
    <3>2. ~short /\ Len(input) >= 2
      BY <1>4, <2>1, LongerLine
    <3>3. QED
      BY <3>1, <3>2
  <2>3. PICK plain \in Nat, pairing \in Nat : Paid(plain, pairing)
    BY <2>2 DEF PassIsPaid
  <2>4. Len(input') = 0
    BY <2>2
  <2>5. CASE Queue' = Queue
    <3>1. tx' = tx
      BY <2>5 DEF Queue
    <3>2. Paid(plain, pairing)'
      BY <1>0, <2>2, <2>3, <2>4, <3>1 DEF Paid
    <3>3. QED
      BY <3>2
  <2>6. ASSUME NEW status \in Statuses, Respond(Queue, Head(rx).line, status, mapping')
        PROVE  \E plains, pairings \in Nat : Paid(plains, pairings)'
    <3>1. Len(tx') <= Len(tx) + 2 /\ Len(tx') \in Nat
      BY <1>4, <2>6, AnswerGrows DEF Queue
    <3>2. Paid(plain + 1, pairing)'
      BY <1>0, <2>2, <2>3, <2>4, <3>1 DEF Paid
    <3>3. plain + 1 \in Nat
      BY <2>3
    <3>4. QED
      BY <3>2, <3>3
  <2>7. ASSUME Len(input) >= 3, NEW q \in {Queue, WriteLine(Queue, Event)},
               NEW status \in Statuses, Respond(q, Head(rx).line, status, mapping')
        PROVE  \E plains, pairings \in Nat : Paid(plains, pairings)'
    <3>1. Len(tx') <= Len(tx) + 4 /\ Len(tx') \in Nat
      <4>1. Len(tx') <= Len(q.tx) + 2 /\ Len(tx') \in Nat
        BY <1>4, <2>7, AnswerGrows
      <4>2. Len(q.tx) <= Len(tx) + 2 /\ Len(q.tx) \in Nat
        BY LongerQueue
      <4>3. QED
        BY <1>0, <4>1, <4>2
    <3>2. Paid(plain, pairing + 1)'
      BY <1>0, <2>2, <2>3, <2>4, <2>7, <3>1 DEF Paid
    <3>3. pairing + 1 \in Nat
      BY <2>3
    <3>4. QED
      BY <3>2, <3>3
  <2>8. QED
    BY <1>4, <2>5, <2>6, <2>7, ReadLFPays
<1>5. CASE ReadText
  <2>1. SUFFICES ASSUME ~short'
                 PROVE  \E plain, pairing \in Nat : Paid(plain, pairing)'
    BY DEF PassIsPaid
  <2>2. /\ pc = "read" /\ processed' = processed + 1 /\ tx' = tx /\ ~short
        /\ input' = Append(input, Head(rx)) \/ input' = input
    BY <1>5, <2>1 DEF ReadText, NextByte, Reading, sendVars
  <2>3. PICK plain \in Nat, pairing \in Nat : Paid(plain, pairing)
    BY <2>2 DEF PassIsPaid
  <2>4. Len(input') <= Len(input) + 1 /\ Len(input') \in Nat
    BY <1>0, <2>2
  <2>5. Paid(plain, pairing)'
    BY <1>0, <2>2, <2>3, <2>4 DEF Paid
  <2>6. QED
    BY <2>5
<1>6. CASE \/ Disconnected \/ EndPass \/ Emit \/ WriteByte \/ HostReads \/ OpenPort
           \/ ClosePort \/ Suspend \/ Resume \/ \E kind \in Kinds : BeginLine(kind)
  <2>1. pc' = "loop"
    BY <1>6 DEF Disconnected, EndPass, Emit, WriteByte, HostReads, OpenPort, ClosePort,
                Suspend, Resume, BeginLine, firmwareVars
  <2>2. QED
    BY <1>1, <2>1
<1>7. QED
  BY <1>2, <1>3, <1>4, <1>5, <1>6 DEF Next

(* So it holds throughout.                                                 *)
LEMMA SetupPaid == Spec => []PassIsPaid
<1>1. Init => PassIsPaid
  BY DEF Init, PassIsPaid
<1>2. TypeOK /\ FlowSound /\ InputsSound /\ PassIsPaid /\ [Next]_vars => PassIsPaid'
  BY PaidStep
<1>3. QED
  BY <1>1, <1>2, SetupSound, SetupInputsSound, PTL DEF Spec

(* What has been paid for fits into tx_.                                   *)
LEMMA AnswerFits ==
  ASSUME TypeOK, PassIsPaid, ReadLF, ~short', NEW q \in {Queue, WriteLine(Queue, Event)},
         q = Queue \/ Len(input) >= 3
  PROVE  Fits(q)
<1>1. /\ pc = "read" /\ ~short /\ Len(input) >= 2 /\ processed < MaxBytes
      /\ Len(input) \in Nat /\ processed \in Nat /\ MaxBytes \in Nat /\ MaxBytes > 0
  <2>1. pc = "read" /\ processed < MaxBytes
    BY DEF ReadLF, NextByte, Reading
  <2>2. Len(input) \in Nat /\ processed \in Nat /\ MaxBytes \in Nat /\ MaxBytes > 0
    <3>1. input \in Seq(Bytes) /\ processed \in 0..MaxBytes
      BY DEF TypeOK
    <3>2. QED
      BY <3>1, SizesTyped
  <2>3. QED
    BY <2>1, <2>2, LongerLine
<1>2. PICK plain \in Nat, pairing \in Nat : Paid(plain, pairing)
  BY <1>1 DEF PassIsPaid
<1>3. QueueFits(q) /\ Len(q.tx) <= Len(tx) + 2 /\ Len(q.tx) \in Nat /\ Len(tx) \in Nat
  BY LongerQueue
<1>4. ASSUME NEW a \in Nat, NEW b \in Nat, 3 * a + 4 * b <= MaxBytes + 3
      PROVE  2 * a + 4 * b <= TxSize
  <2>1. a \in 0..MaxBytes + 3 /\ b \in 0..MaxBytes + 3
    BY <1>1, <1>4
  <2>2. QED
    BY <1>4, <2>1, RoomAssumption
<1>5. Len(q.tx) <= TxSize - 2
  <2>1. CASE q = Queue
    <3>1. q.tx = tx
      BY <2>1 DEF Queue
    <3>2. 3 * (plain + 1) + 4 * pairing <= MaxBytes + 3
      BY <1>1, <1>2 DEF Paid
    <3>3. plain + 1 \in Nat
      BY <1>2
    <3>4. 2 * (plain + 1) + 4 * pairing <= TxSize
      BY <1>2, <1>4, <3>2, <3>3
    <3>5. Len(tx) <= 2 * plain + 4 * pairing
      BY <1>2 DEF Paid
    <3>6. QED
      BY <1>2, <1>3, <3>1, <3>4, <3>5, SizesTyped
  <2>2. CASE Len(input) >= 3
    <3>1. 3 * plain + 4 * (pairing + 1) <= MaxBytes + 3
      BY <1>1, <1>2, <2>2 DEF Paid
    <3>2. pairing + 1 \in Nat
      BY <1>2
    <3>3. 2 * plain + 4 * (pairing + 1) <= TxSize
      BY <1>2, <1>4, <3>1, <3>2
    <3>4. Len(tx) <= 2 * plain + 4 * pairing
      BY <1>2 DEF Paid
    <3>5. QED
      BY <1>2, <1>3, <3>3, <3>4, SizesTyped
  <2>3. QED
    BY <2>1, <2>2
<1>6. QED
  BY <1>3, <1>5, CompactedFacts

(* No other step drops an answer.                                          *)
LEMMA LostStays ==
  ASSUME [Next]_vars, ~ReadLF
  PROVE  lost' = lost
<1>1. CASE Disconnected \/ BeginPass \/ ReadText \/ EndPass \/ Emit \/ UNCHANGED vars
  BY <1>1 DEF Disconnected, BeginPass, ReadText, EndPass, Emit, vars
<1>2. CASE \/ WriteByte \/ HostReads \/ OpenPort \/ ClosePort \/ Suspend \/ Resume
           \/ \E kind \in Kinds : BeginLine(kind)
  BY <1>2 DEF WriteByte, HostReads, OpenPort, ClosePort, Suspend, Resume, BeginLine,
              firmwareVars
<1>3. QED
  BY <1>1, <1>2 DEF Next

(* An answer is dropped only in a pass that got a line shorter than any    *)
(* request: requests never find the queue full, however many are pipelined *)
(* (config_service.cpp:145-162, 348-356).                                  *)
THEOREM SetupRequestsAreAnswered == Spec => RequestsAreAnswered
<1> DEFINE Answered == lost' \subseteq lost \/ short'
<1>1. TypeOK /\ FlowSound /\ InputsSound /\ PassIsPaid /\ [Next]_vars => [Answered]_vars
  <2> SUFFICES ASSUME TypeOK, FlowSound, InputsSound, PassIsPaid, [Next]_vars, ~short'
               PROVE  lost' \subseteq lost
    OBVIOUS
  <2>1. CASE ~ReadLF
    BY <2>1, LostStays
  <2>2. CASE ReadLF
    <3>1. ASSUME NEW q \in {Queue, WriteLine(Queue, Event)}, NEW status \in Statuses,
                 Respond(q, Head(rx).line, status, mapping'), q = Queue \/ Len(input) >= 3
          PROVE  lost' \subseteq lost
      BY <2>2, <3>1, AnswerFits DEF Respond
    <3>2. QED
      BY <2>2, <3>1, ReadLFPays
  <2>3. QED
    BY <2>1, <2>2
<1>2. QED
  BY <1>1, SetupSound, SetupInputsSound, SetupPaid, PTL DEF Spec, RequestsAreAnswered
=============================================================================
