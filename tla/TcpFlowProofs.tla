---------------------------- MODULE TcpFlowProofs ----------------------------
(***************************************************************************)
(* One direction of a stream nothing has gone wrong with is known exactly: *)
(* the numbers on the way follow one another up to what the sender counts  *)
(* as sent, the acknowledgements on the way rise to what the receiver      *)
(* counts as taken, and no window that was announced reaches beyond what   *)
(* the receiver still has room for.  What a turn of either end and a       *)
(* segment that arrives do to such a direction (Part below), for           *)
(* TcpRestProofs.                                                          *)
(***************************************************************************)
EXTENDS TcpProofs

\* A number on the wire as an offset in what o sends.
Off(o, x) == Minus(x, Iss(o))

------------------------------------------------------------------------------
(***************************************************************************)
(* One direction of a whole stream: c is the end o that sends, d the end   *)
(* that receives; q is on the way to d, b on the way back.  owes says that *)
(* d has still to answer in the turn that follows.                         *)
(***************************************************************************)

\* Where segment k on the way begins; behind the last one, what leaves next.
Mark(o, nxt, q, k) == Off(o, IF k <= Len(q) THEN q[k].seq ELSE nxt)

\* What answer k on the way acknowledges and announces; before the first one,
\* what the sender has learnt.
Ack(o, una, b, k) == Off(o, IF k = 0 THEN una ELSE b[k].ack)
Wnd(wnd, b, k)    == IF k = 0 THEN wnd ELSE b[k].wnd

\* The first offset d has no room for.
Edge(o, d) == Off(o, d.rcv_nxt) + window(d)

\* The segments follow one another without a gap, from an offset to a number.
Chain(o, from, q, nxt) ==
  /\ Mark(o, nxt, q, 1) = from
  /\ \A k \in 1 .. Len(q) : /\ q[k].flags = {"ACK"}
                            /\ Mark(o, nxt, q, k) + Len(q[k].data) = Mark(o, nxt, q, k + 1)
  /\ \A j, k \in 1 .. Len(q) + 1 : j <= k => Mark(o, nxt, q, j) <= Mark(o, nxt, q, k)

\* Answers rise.
Rising(o, una, b) ==
  \A j, k \in 0 .. Len(b) : j <= k => Ack(o, una, b, j) <= Ack(o, una, b, k)

\* No answer promises room that is not there, and none is ahead of the receiver.
Honest(o, c, d, b) ==
  /\ \A k \in 0 .. Len(b) : /\ Ack(o, c.una, b, k) <= Off(o, d.rcv_nxt)
                            /\ Ack(o, c.una, b, k) + Wnd(c.wnd, b, k) <= Edge(o, d)
  /\ Off(o, c.nxt) <= Edge(o, d)

\* The last answer acknowledges all that was taken, and a window so small that
\* the sender may have to wait is still that small.
Settled(o, c, d, b) ==
  /\ Ack(o, c.una, b, Len(b)) = Off(o, d.rcv_nxt)
  /\ Wnd(c.wnd, b, Len(b)) < Threshold => window(d) < Threshold

\* c may still send bytes.
Flow(o, c, d, q, b, owes) ==
  /\ c.retries = 0 /\ ~d.peer_closed
  /\ Chain(o, Off(o, d.rcv_nxt), q, c.nxt)
  /\ Rising(o, c.una, b) /\ Honest(o, c, d, b) /\ (owes \/ Settled(o, c, d, b))

\* c has answered the SYN and waits for the first answer.
Opened(c, d, q, b, owes) ==
  /\ c.retries = 0 /\ c.nxt = Plus(c.una, 1) /\ q = <<>>
  /\ d.rcv_nxt = c.nxt /\ d.recv = <<>> /\ ~d.peer_closed
  /\ owes \/ b # <<>>
  /\ \A k \in 1 .. Len(b) : b[k].ack = c.nxt /\ b[k].wnd = RECEIVE_BUFFER

\* The FIN of c is not acknowledged.  Either d has not taken it, and it is on the
\* way or the timer has not run out yet; or d has, and the answer is on the way.
\* A FIN that comes as the answer to the SYN is not taken, so the timer may have
\* run out once, but not before d is past the handshake.
Untaken(c, d, q, b) ==
  /\ d.rcv_nxt = c.una /\ ~d.peer_closed
  /\ \A k \in 1 .. Len(q) : "FIN" \in q[k].flags => q[k].seq = c.una
  /\ \A k \in 1 .. Len(b) : b[k].ack = c.una
  /\ \/ c.retries = 0
     \/ d.state # "SynReceived" /\ \E k \in 1 .. Len(q) : "FIN" \in q[k].flags

Taken(c, d, b, owes) ==
  /\ d.rcv_nxt = c.nxt /\ d.peer_closed
  /\ \A k \in 1 .. Len(b) : b[k].ack \in {c.una, c.nxt}
  /\ owes \/ \E k \in 1 .. Len(b) : b[k].ack = c.nxt

NoData(q) == \A k \in 1 .. Len(q) : q[k].data = <<>>

Fin(c, d, q, b, owes) ==
  /\ c.fin_sent /\ c.closing /\ c.nxt = Plus(c.una, 1) /\ NoData(q)
  /\ Untaken(c, d, q, b) \/ Taken(c, d, b, owes)

\* The FIN of c is acknowledged.
Done(c, d, q, b) ==
  /\ c.fin_sent /\ c.nxt = c.una /\ d.rcv_nxt = c.una /\ d.peer_closed /\ NoData(q)
  /\ \A k \in 1 .. Len(b) : ~after(b[k].ack, c.una)

Part(o, c, d, q, b, owes) ==
  /\ c.state \in Open => Flow(o, c, d, q, b, owes)
  /\ c.state = "SynReceived" => Opened(c, d, q, b, owes)
  /\ c.state \in {"FinWait1", "Closing", "LastAck"} => Fin(c, d, q, b, owes)
  /\ c.state \in {"FinWait2", "TimeWait", "Closed"} => Done(c, d, q, b)

\* d has something to say in the turn that follows.
Owes(d) == d.need_ack /\ d.state \in Open \cup Closers /\ ~d.reset

\* What holds of either end by itself.
Sound(c) ==
  /\ ~c.reset /\ c.state \notin {"none", "SynSent"}
  /\ c.state \in {"CloseWait", "Closing", "LastAck", "TimeWait", "Closed"} => c.peer_closed

Plain(q) == \A k \in 1 .. Len(q) : q[k].flags \in {{"ACK"}, {"ACK", "FIN"}}

------------------------------------------------------------------------------
(***************************************************************************)
(* Offsets.                                                                *)
(***************************************************************************)
LEMMA IssNumber == \A o \in Ends : Iss(o) \in Number /\ Iss(o) = Num(o, 0)
BY Sizes, Modulus DEF Iss, Num, Number

LEMMA OffType ==
  ASSUME NEW o \in Ends, NEW x \in Number
  PROVE  Off(o, x) \in Nat /\ Off(o, x) < SEQ
<1>1. Off(o, x) = IF x >= Iss(o) THEN x - Iss(o) ELSE x - Iss(o) + SEQ
  BY IssNumber, MinusValue DEF Off
<1> QED
  BY <1>1, IssNumber, Modulus DEF Number

LEMMA OffNum ==
  ASSUME NEW o \in Ends, NEW k \in Nat, k < SEQ
  PROVE  Off(o, Num(o, k)) = k
<1>1. 0 \in Nat /\ 0 < SEQ /\ k >= 0 /\ k - 0 = k
  BY Modulus
<1>2. Minus(Num(o, k), Num(o, 0)) = k
  BY <1>1, NumMinus
<1> QED
  BY <1>2, IssNumber DEF Off

LEMMA NumOff ==
  ASSUME NEW o \in Ends, NEW x \in Number
  PROVE  x = Num(o, Off(o, x))
<1>1. Off(o, x) = IF x >= Iss(o) THEN x - Iss(o) ELSE x - Iss(o) + SEQ
  BY IssNumber, MinusValue DEF Off
<1> QED
  BY <1>1, IssNumber, Modulus DEF Number, Num

\* Different numbers have different offsets.
LEMMA OffSame ==
  ASSUME NEW o \in Ends, NEW x \in Number, NEW y \in Number, Off(o, x) = Off(o, y)
  PROVE  x = y
BY NumOff

LEMMA OffPlus ==
  ASSUME NEW o \in Ends, NEW x \in Number, NEW n \in Nat, Off(o, x) + n < SEQ
  PROVE  Off(o, Plus(x, n)) = Off(o, x) + n
<1> DEFINE k == Off(o, x)
<1>1. k \in Nat /\ x = Num(o, k)
  BY OffType, NumOff
<1>2. k + n < SEQ
  OBVIOUS
<1> HIDE DEF k
<1>3. Plus(x, n) = Num(o, k + n)
  BY <1>1, <1>2, NumPlus
<1>4. k + n \in Nat
  BY <1>1
<1> QED
  BY <1>2, <1>3, <1>4, OffNum DEF k

LEMMA OffMinus ==
  ASSUME NEW o \in Ends, NEW x \in Number, NEW y \in Number, Off(o, y) <= Off(o, x)
  PROVE  Minus(x, y) = Off(o, x) - Off(o, y)
<1> DEFINE j == Off(o, x)
           k == Off(o, y)
<1>1. j \in Nat /\ k \in Nat /\ j < SEQ /\ k < SEQ /\ x = Num(o, j) /\ y = Num(o, k)
  BY OffType, NumOff
<1>2. j >= k
  BY <1>1
<1> HIDE DEF j, k
<1> QED
  BY <1>1, <1>2, NumMinus DEF j, k

LEMMA OffAfter ==
  ASSUME NEW o \in Ends, NEW x \in Number, NEW y \in Number,
         Off(o, x) <= Bytes(o) + 1, Off(o, y) <= Bytes(o) + 1
  PROVE  after(x, y) <=> Off(o, y) < Off(o, x)
<1> DEFINE j == Off(o, x)
           k == Off(o, y)
<1>1. j \in Nat /\ k \in Nat /\ x = Num(o, j) /\ y = Num(o, k)
  BY OffType, NumOff
<1>2. j \in 0 .. Bytes(o) + 1 /\ k \in 0 .. Bytes(o) + 1
  BY <1>1, Modulus
<1> HIDE DEF j, k
<1>3. after(x, y) <=> j > k
  BY <1>1, <1>2, NumAfter
<1> QED
  BY <1>1, <1>3 DEF j, k

\* The next number, and the number itself.
LEMMA NextNumber ==
  ASSUME NEW x \in Number
  PROVE  /\ Plus(x, 1) \in Number /\ Plus(x, 1) # x /\ Minus(Plus(x, 1), x) = 1
         /\ Minus(x, x) = 0 /\ after(Plus(x, 1), x) /\ ~after(x, Plus(x, 1)) /\ ~after(x, x)
<1>1. SEQ \in Nat /\ SEQ >= 5 /\ x \in Nat /\ x < SEQ
  BY Modulus DEF Number
<1>2. Plus(x, 1) = IF x + 1 < SEQ THEN x + 1 ELSE x + 1 - SEQ
  BY <1>1, PlusValue
<1>3. Plus(x, 1) \in Number
  BY PlusType
<1> DEFINE y == Plus(x, 1)
<1>4. /\ Minus(y, x) = IF y >= x THEN y - x ELSE y - x + SEQ
      /\ Minus(x, y) = IF x >= y THEN x - y ELSE x - y + SEQ
      /\ Minus(x, x) = IF x >= x THEN x - x ELSE x - x + SEQ
  BY <1>3, MinusValue
<1>5. y \in Nat /\ y = IF x + 1 < SEQ THEN x + 1 ELSE x + 1 - SEQ
  BY <1>2, <1>3 DEF Number
<1> HIDE DEF y
<1>6. y # x /\ Minus(y, x) = 1 /\ Minus(x, x) = 0 /\ Minus(x, y) = SEQ - 1
  BY <1>1, <1>4, <1>5
<1>7. SEQ \div 2 \in Nat /\ SEQ \div 2 <= SEQ - 1 /\ SEQ \div 2 >= 2
  BY <1>1
<1>8. after(y, x) /\ ~after(x, y) /\ ~after(x, x)
  <2>1. (after(y, x) <=> Minus(x, y) >= SEQ \div 2) /\ (after(x, y) <=> Minus(y, x) >= SEQ \div 2)
        /\ (after(x, x) <=> Minus(x, x) >= SEQ \div 2)
    BY DEF after, before
  <2> DEFINE h == SEQ \div 2
  <2>2. h \in Nat /\ h <= SEQ - 1 /\ h >= 2
    BY <1>7
  <2> HIDE DEF h
  <2>3. SEQ - 1 >= h /\ ~(1 >= h) /\ ~(0 >= h)
    BY <1>1, <2>2
  <2> QED
    BY <1>6, <2>1, <2>3 DEF h
<1> QED
  BY <1>3, <1>6, <1>8 DEF y

------------------------------------------------------------------------------
(***************************************************************************)
(* The other fields of a connection: window, timer and flags.              *)
(***************************************************************************)
LEMMA AcknowledgeRest ==
  ASSUME NEW c, ConnOK(c), NEW ack \in Number
  PROVE  LET d == acknowledge(c, ack) IN
         /\ d.wnd = c.wnd /\ d.need_ack = c.need_ack /\ d.closing = c.closing
         /\ d.reset = c.reset
         /\ d.una = IF after(ack, c.una) THEN ack ELSE c.una
         /\ d.retries = IF after(ack, c.una) THEN 0 ELSE c.retries
         /\ d.timer = IF after(ack, c.una) THEN FALSE ELSE c.timer
<1>1. c \in Connection
  BY DEF ConnOK
<1>2. CASE ~after(ack, c.una)
  <2>1. acknowledge(c, ack) = c
    BY <1>2 DEF acknowledge
  <2> QED
    BY <1>2, <2>1
<1>3. CASE after(ack, c.una)
  <2> DEFINE rest == SubSeq(c.send, Smaller(AckedBytes(c, ack), Len(c.send)) + 1, Len(c.send))
             d    == [c EXCEPT !.send = rest, !.una = ack, !.retries = 0, !.timer = FALSE]
  <2>1. acknowledge(c, ack) = d
    BY <1>3 DEF acknowledge
  <2> HIDE DEF rest
  <2>2. /\ d.wnd = c.wnd /\ d.need_ack = c.need_ack /\ d.closing = c.closing
        /\ d.reset = c.reset /\ d.una = ack /\ d.retries = 0 /\ d.timer = FALSE
    BY <1>1 DEF Connection
  <2> HIDE DEF d
  <2> QED
    BY <1>3, <2>1, <2>2
<1> QED
  BY <1>2, <1>3

LEMMA AcceptRest ==
  ASSUME NEW c, ConnOK(c), NEW seq \in Number, NEW data \in Seq(Byte)
  PROVE  LET d == accept_data(c, seq, data) IN
         /\ d.wnd = c.wnd /\ d.closing = c.closing /\ d.reset = c.reset
         /\ d.timer = c.timer /\ d.retries = c.retries
         /\ d.need_ack \in BOOLEAN /\ (c.need_ack => d.need_ack)
         /\ data = <<>> => d = c
         /\ data # <<>> => d.need_ack
         /\ data # <<>> /\ seq = c.rcv_nxt /\ Len(data) <= window(c) =>
              /\ d.rcv_nxt = Plus(c.rcv_nxt, Len(data))
              /\ window(d) = window(c) - Len(data)
<1>1. c \in Connection /\ Len(data) \in Nat /\ window(c) \in Nat /\ c.recv \in Seq(Byte)
      /\ c.need_ack \in BOOLEAN
  BY WindowType, Fields, Sizes DEF ConnOK
<1>2. CASE data = <<>>
  <2>1. accept_data(c, seq, data) = c
    BY <1>2 DEF accept_data
  <2> QED
    BY <1>1, <1>2, <2>1
<1>3. CASE data # <<>> /\ ~InOrder(c, seq)
  <2> DEFINE d == [c EXCEPT !.need_ack = TRUE]
  <2>1. accept_data(c, seq, data) = d
    BY <1>3 DEF accept_data
  <2>2. /\ d.wnd = c.wnd /\ d.closing = c.closing /\ d.reset = c.reset
        /\ d.timer = c.timer /\ d.retries = c.retries /\ d.need_ack = TRUE
    BY <1>1 DEF Connection
  <2> HIDE DEF d
  <2> QED
    BY <1>3, <2>1, <2>2 DEF InOrder
<1>4. CASE data # <<>> /\ InOrder(c, seq)
  <2> DEFINE k    == Fitting(c, data)
             more == c.recv \o SubSeq(data, 1, k)
             n    == Plus(c.rcv_nxt, k)
             d    == [c EXCEPT !.recv = more, !.rcv_nxt = n, !.need_ack = TRUE]
  <2>1. accept_data(c, seq, data) = d
    BY <1>4 DEF accept_data
  <2>2. ASSUME Len(data) <= window(c)
        PROVE  k = Len(data) /\ Len(more) = Len(c.recv) + Len(data)
    <3>1. k = Len(data)
      BY <1>1, <2>2 DEF Fitting, Smaller
    <3>2. \A i \in 1 .. Len(data) : data[i] \in Byte
      BY ElementOfSeq
    <3>3. /\ SubSeq(data, 1, Len(data)) \in Seq(Byte)
          /\ Len(SubSeq(data, 1, Len(data))) = IF 1 <= Len(data) THEN Len(data) - 1 + 1 ELSE 0
      <4>1. 1 \in Int /\ Len(data) \in Int
        BY <1>1
      <4> QED
        BY <3>2, <4>1, SubSeqProperties
    <3>4. Len(SubSeq(data, 1, Len(data))) = Len(data)
      BY <1>1, <3>3
    <3> DEFINE all == SubSeq(data, 1, Len(data))
    <3>5. all \in Seq(Byte) /\ Len(all) = Len(data) /\ more = c.recv \o all
      BY <3>1, <3>3, <3>4
    <3> HIDE DEF k, all, more
    <3>6. Len(c.recv \o all) = Len(c.recv) + Len(all)
      BY <1>1, <3>5, ConcatParts
    <3> QED
      BY <3>1, <3>5, <3>6
  <2> HIDE DEF k, more, n
  <2>3. /\ d.wnd = c.wnd /\ d.closing = c.closing /\ d.reset = c.reset
        /\ d.timer = c.timer /\ d.retries = c.retries /\ d.need_ack = TRUE
        /\ d.rcv_nxt = n /\ d.recv = more
    BY <1>1 DEF Connection
  <2> HIDE DEF d
  <2>4. Len(data) <= window(c) => n = Plus(c.rcv_nxt, Len(data)) /\ window(d) = window(c) - Len(data)
    <3>1. ASSUME Len(data) <= window(c)
          PROVE  window(d) = window(c) - Len(data)
      <4>1. Len(d.recv) = Len(c.recv) + Len(data) /\ Len(c.recv) \in Nat
        BY <1>1, <2>2, <2>3, <3>1
      <4> QED
        BY <1>1, <4>1, Sizes DEF window
    <3> QED
      BY <2>2, <3>1 DEF n
  <2> QED
    BY <1>4, <2>1, <2>3, <2>4
<1> QED
  BY <1>2, <1>3, <1>4

LEMMA SynchronisedRest ==
  ASSUME NEW c, ConnOK(c), NEW s \in Segment
  PROVE  LET a == IF "ACK" \in s.flags THEN acknowledge(c, s.ack) ELSE c
             b == accept_data(a, s.seq, s.data)
             d == Synchronised(c, s)
         IN  /\ d.wnd = c.wnd /\ d.closing = c.closing /\ d.reset = c.reset
             /\ d.timer = a.timer /\ d.retries = a.retries
             /\ d.need_ack \in BOOLEAN /\ (c.need_ack \/ b.need_ack => d.need_ack)
             /\ FinHere(b, s) /\ ~c.peer_closed => d.need_ack
<1>0. s.ack \in Number /\ s.seq \in Number /\ s.data \in Seq(Byte)
  BY DEF Segment
<1> DEFINE a == IF "ACK" \in s.flags THEN acknowledge(c, s.ack) ELSE c
           b == accept_data(a, s.seq, s.data)
           n == Plus(b.rcv_nxt, 1)
           x == [b EXCEPT !.peer_closed = TRUE, !.rcv_nxt = n, !.need_ack = TRUE]
           d == IF FinHere(b, s) /\ ~b.peer_closed THEN x ELSE b
           t == NextState(d.state, FinHere(b, s) \/ d.peer_closed, d.fin_sent /\ d.una = d.nxt)
           y == [d EXCEPT !.state = t]
<1>1. /\ ConnOK(a) /\ a.wnd = c.wnd /\ a.need_ack = c.need_ack /\ a.closing = c.closing
      /\ a.reset = c.reset /\ a.peer_closed = c.peer_closed
  BY <1>0, AcknowledgeShape, AcknowledgeRest
<1> HIDE DEF a
<1>2. /\ ConnOK(b) /\ b.wnd = a.wnd /\ b.closing = a.closing /\ b.reset = a.reset
      /\ b.timer = a.timer /\ b.retries = a.retries /\ b.peer_closed = a.peer_closed
      /\ b.need_ack \in BOOLEAN /\ (a.need_ack => b.need_ack)
  <2>1. ConnOK(b) /\ b.peer_closed = a.peer_closed
    BY <1>0, <1>1, AcceptShape
  <2>2. /\ b.wnd = a.wnd /\ b.closing = a.closing /\ b.reset = a.reset
        /\ b.timer = a.timer /\ b.retries = a.retries
        /\ b.need_ack \in BOOLEAN /\ (a.need_ack => b.need_ack)
    BY <1>0, <1>1, AcceptRest
  <2> QED
    BY <2>1, <2>2
<1>3. Synchronised(c, s) = y
  BY DEF Synchronised, a
<1> HIDE DEF b, n
<1>4. b \in Connection /\ n \in Number
  BY <1>2, Fields, PlusType DEF ConnOK, n
<1>5. /\ x \in Connection /\ x.wnd = b.wnd /\ x.closing = b.closing /\ x.reset = b.reset
      /\ x.timer = b.timer /\ x.retries = b.retries /\ x.need_ack = TRUE
  BY <1>4 DEF Connection
<1>6. /\ d \in Connection /\ d.wnd = b.wnd /\ d.closing = b.closing /\ d.reset = b.reset
      /\ d.timer = b.timer /\ d.retries = b.retries
      /\ d.need_ack \in BOOLEAN /\ (b.need_ack => d.need_ack)
      /\ FinHere(b, s) /\ ~b.peer_closed => d.need_ack
  <2> HIDE DEF x
  <2> QED
    BY <1>2, <1>4, <1>5
<1> HIDE DEF d, t
<1>7. /\ y.wnd = d.wnd /\ y.closing = d.closing /\ y.reset = d.reset
      /\ y.timer = d.timer /\ y.retries = d.retries /\ y.need_ack = d.need_ack
  BY <1>6 DEF Connection
<1> HIDE DEF y
<1> QED
  BY <1>1, <1>2, <1>3, <1>6, <1>7 DEF a, b

\* The end that was opening becomes established.
LEMMA EstablishedRest ==
  ASSUME NEW c, ConnOK(c), NEW ack \in Number
  PROVE  LET a == acknowledge(c, ack)
             x == [a EXCEPT !.state = "Established"]
         IN  /\ ConnOK(x) /\ x.state = "Established" /\ x.nxt = c.nxt /\ x.wnd = c.wnd
             /\ x.una = a.una /\ x.timer = a.timer /\ x.retries = a.retries
             /\ x.closing = c.closing /\ x.reset = c.reset /\ x.need_ack = c.need_ack
             /\ x.recv = c.recv /\ x.rcv_nxt = c.rcv_nxt /\ x.fin_sent = c.fin_sent
             /\ x.peer_closed = c.peer_closed /\ x.send = a.send
<1> DEFINE a == acknowledge(c, ack)
           x == [a EXCEPT !.state = "Established"]
<1>1. /\ ConnOK(a) /\ a.nxt = c.nxt /\ a.wnd = c.wnd
      /\ a.closing = c.closing /\ a.reset = c.reset /\ a.need_ack = c.need_ack
      /\ a.recv = c.recv /\ a.rcv_nxt = c.rcv_nxt /\ a.fin_sent = c.fin_sent
      /\ a.peer_closed = c.peer_closed
  BY AcknowledgeShape, AcknowledgeRest
<1> HIDE DEF a
<1>2. /\ x \in Connection /\ x.state = "Established" /\ x.nxt = a.nxt /\ x.wnd = a.wnd
      /\ x.una = a.una /\ x.timer = a.timer /\ x.retries = a.retries
      /\ x.closing = a.closing /\ x.reset = a.reset /\ x.need_ack = a.need_ack
      /\ x.recv = a.recv /\ x.rcv_nxt = a.rcv_nxt /\ x.fin_sent = a.fin_sent
      /\ x.peer_closed = a.peer_closed /\ x.send = a.send
  BY <1>1 DEF ConnOK, Connection, States
<1> HIDE DEF x
<1>3. ConnOK(x)
  BY <1>1, <1>2 DEF ConnOK
<1> QED
  BY <1>1, <1>2, <1>3 DEF a, x

\* A turn, with the fields SentShape leaves out.
LEMMA SentRest ==
  ASSUME NEW c, ConnOK(c)
  PROVE  LET d == Sent(c) IN
         /\ d.wnd = c.wnd /\ d.retries = c.retries /\ d.closing = c.closing
         /\ d.reset = c.reset
         /\ Sends(c) = "FIN" => /\ d.nxt = Plus(c.nxt, 1) /\ d.fin_sent
                                /\ d.timer = (c.timer \/ in_flight(d) > 0)
         /\ Sends(c) \in {"SYN", "data"} => d.timer = (c.timer \/ in_flight(d) > 0)
         /\ Sends(c) \notin {"SYN", "data", "FIN"} => d.timer = c.timer
<1>1. c \in Connection
  BY DEF ConnOK
<1>2. ASSUME NEW x \in Connection
      PROVE  /\ arm(x).wnd = x.wnd /\ arm(x).retries = x.retries
             /\ arm(x).closing = x.closing /\ arm(x).reset = x.reset
             /\ arm(x).nxt = x.nxt /\ arm(x).fin_sent = x.fin_sent
             /\ arm(x).timer = (x.timer \/ in_flight(arm(x)) > 0)
  <2> DEFINE t == x.timer \/ in_flight(x) > 0
             d == [x EXCEPT !.timer = t]
  <2>1. arm(x) = d
    BY DEF arm
  <2>2. in_flight(d) = in_flight(x)
    <3>1. d.una = x.una /\ d.nxt = x.nxt
      BY DEF Connection
    <3> QED
      BY <3>1 DEF in_flight
  <2> HIDE DEF t
  <2>3. /\ d.wnd = x.wnd /\ d.retries = x.retries /\ d.closing = x.closing
        /\ d.reset = x.reset /\ d.nxt = x.nxt /\ d.fin_sent = x.fin_sent /\ d.timer = t
    BY DEF Connection
  <2> HIDE DEF d
  <2> QED
    BY <2>1, <2>2, <2>3 DEF t
<1>3. CASE Sends(c) \in {"SYN", "data"}
  <2> DEFINE n == IF Sends(c) = "SYN" THEN Plus(c.nxt, 1) ELSE Plus(c.nxt, sendable(c))
             x == [c EXCEPT !.nxt = n, !.need_ack = FALSE]
  <2>1. n \in Number
    BY <1>1, Fields, PlusType, SendableType
  <2>2. Sent(c) = arm(x)
    BY <1>3 DEF Sent
  <2> HIDE DEF n
  <2>3. /\ x \in Connection /\ x.wnd = c.wnd /\ x.retries = c.retries
        /\ x.closing = c.closing /\ x.reset = c.reset /\ x.timer = c.timer
    BY <1>1, <2>1 DEF Connection
  <2> HIDE DEF x
  <2> QED
    BY <1>2, <1>3, <2>2, <2>3
<1>4. CASE Sends(c) = "FIN"
  <2> DEFINE n == Plus(c.nxt, 1)
             t == AfterFin(c.state)
             x == [c EXCEPT !.nxt = n, !.need_ack = FALSE, !.fin_sent = TRUE, !.state = t]
  <2>1. n \in Number /\ t \in States
    BY <1>1, Fields, PlusType DEF AfterFin, States
  <2>2. Sent(c) = arm(x)
    BY <1>4 DEF Sent
  <2> HIDE DEF n, t
  <2>3. /\ x \in Connection /\ x.wnd = c.wnd /\ x.retries = c.retries
        /\ x.closing = c.closing /\ x.reset = c.reset /\ x.timer = c.timer
        /\ x.nxt = n /\ x.fin_sent = TRUE
    BY <1>1, <2>1 DEF Connection
  <2> HIDE DEF x
  <2> QED
    BY <1>2, <1>4, <2>2, <2>3 DEF n
<1>5. CASE Sends(c) \notin {"SYN", "data", "FIN"}
  <2> DEFINE x == [c EXCEPT !.need_ack = FALSE]
  <2>1. Sent(c) = c \/ Sent(c) = x
    BY <1>5 DEF Sent
  <2>2. /\ x.wnd = c.wnd /\ x.retries = c.retries
        /\ x.closing = c.closing /\ x.reset = c.reset /\ x.timer = c.timer
    BY <1>1 DEF Connection
  <2> HIDE DEF x
  <2> QED
    BY <1>5, <2>1, <2>2
<1> QED
  BY <1>3, <1>4, <1>5

------------------------------------------------------------------------------
(***************************************************************************)
(* The segments of a turn, exactly.                                        *)
(***************************************************************************)
LEMMA Pieces ==
  ASSUME NEW size \in Nat \ {0}, NEW m \in Nat \ {0}, NEW n, n = (size + m - 1) \div m
  PROVE  n \in Nat \ {0} /\ size <= n * m /\ (n - 1) * m < size
<1>1. size + m - 1 \in Nat
  OBVIOUS
<1>2. n \in Nat
  BY <1>1
<1>3. n * m <= size + m - 1 /\ size + m - 1 < (n + 1) * m
  BY <1>1
<1>4. (n + 1) * m = n * m + m /\ (n - 1) * m = n * m - m /\ n * m \in Nat
  BY <1>2
<1>5. n # 0
  <2>1. n = 0 => n * m = 0
    OBVIOUS
  <2> QED
    BY <1>3, <1>4, <2>1
<1> QED
  BY <1>2, <1>3, <1>4, <1>5

LEMMA Multiples ==
  ASSUME NEW i \in Nat, NEW j \in Nat, i <= j, NEW m \in Nat
  PROVE  i * m \in Nat /\ j * m \in Nat /\ i * m <= j * m
<1>1. (j - i) * m \in Nat /\ i * m \in Nat /\ j * m \in Nat
  BY j - i \in Nat
<1>2. j * m = i * m + (j - i) * m
  OBVIOUS
<1> QED
  BY <1>1, <1>2

LEMMA SendsValues ==
  ASSUME NEW c, ConnOK(c)
  PROVE  Sends(c) \in {"SYN", "data", "FIN", "ACK", "nothing"}
BY DEF Sends

\* Where piece i of n begins, and behind the last one where they end.
Cut(size, n, i) == IF i <= n THEN (i - 1) * MSS ELSE size

LEMMA CutsRise ==
  ASSUME NEW size \in Nat \ {0}, NEW n, n = (size + MSS - 1) \div MSS
  PROVE  /\ n \in Nat \ {0}
         /\ \A i \in 1 .. n + 1 : Cut(size, n, i) \in 0 .. size
         /\ \A i, j \in 1 .. n + 1 : i <= j => Cut(size, n, i) <= Cut(size, n, j)
         /\ Cut(size, n, 1) = 0
         /\ \A i \in 1 .. n : Cut(size, n, i + 1) = Smaller(i * MSS, size)
<1>1. MSS \in Nat \ {0} /\ n \in Nat \ {0} /\ size <= n * MSS /\ (n - 1) * MSS < size
  BY Sizes, Pieces
<1>2. ASSUME NEW i \in 1 .. n
      PROVE  (i - 1) * MSS \in Nat /\ (i - 1) * MSS < size
  <2>1. i - 1 \in Nat /\ n - 1 \in Nat /\ i - 1 <= n - 1
    BY <1>1
  <2>2. (i - 1) * MSS \in Nat /\ (n - 1) * MSS \in Nat /\ (i - 1) * MSS <= (n - 1) * MSS
    BY <1>1, <2>1, Multiples
  <2> QED
    BY <1>1, <2>2
<1>3. ASSUME NEW i \in 1 .. n, NEW j \in 1 .. n, i <= j
      PROVE  (i - 1) * MSS <= (j - 1) * MSS
  BY <1>1, <1>3, Multiples, i - 1 \in Nat, j - 1 \in Nat, i - 1 <= j - 1
<1>4. ASSUME NEW i \in 1 .. n
      PROVE  Cut(size, n, i + 1) = Smaller(i * MSS, size)
  <2>1. CASE i < n
    <3>1. i + 1 \in 1 .. n /\ i + 1 - 1 = i
      BY <1>1, <2>1
    <3>2. i * MSS < size
      BY <1>2, <3>1
    <3> QED
      BY <3>1, <3>2 DEF Cut, Smaller
  <2>2. CASE i = n
    <3>1. ~(i + 1 <= n)
      BY <1>1, <2>2
    <3>2. n * MSS \in Nat /\ size <= n * MSS
      BY <1>1
    <3> QED
      BY <2>2, <3>1, <3>2 DEF Cut, Smaller
  <2> QED
    BY <1>1, <2>1, <2>2
<1>5. \A i \in 1 .. n + 1 : Cut(size, n, i) \in 0 .. size
  <2> TAKE i \in 1 .. n + 1
  <2>1. CASE i <= n
    <3>1. i \in 1 .. n
      BY <1>1, <2>1
    <3> DEFINE y == (i - 1) * MSS
    <3>2. y \in Nat /\ y < size /\ Cut(size, n, i) = y
      BY <1>2, <2>1, <3>1 DEF Cut
    <3> HIDE DEF y
    <3> QED
      BY <3>2
  <2>2. CASE ~(i <= n)
    BY <2>2 DEF Cut
  <2> QED
    BY <2>1, <2>2
<1>6. \A i, j \in 1 .. n + 1 : i <= j => Cut(size, n, i) <= Cut(size, n, j)
  <2> SUFFICES ASSUME NEW i \in 1 .. n + 1, NEW j \in 1 .. n + 1, i <= j
               PROVE  Cut(size, n, i) <= Cut(size, n, j)
    OBVIOUS
  <2>1. CASE j <= n
    <3>1. i \in 1 .. n /\ j \in 1 .. n /\ i <= n
      BY <1>1, <2>1
    <3> QED
      BY <1>3, <2>1, <3>1 DEF Cut
  <2>2. CASE ~(j <= n)
    <3>1. Cut(size, n, j) = size
      BY <2>2 DEF Cut
    <3> QED
      BY <1>5, <3>1
  <2> QED
    BY <2>1, <2>2
<1>7. Cut(size, n, 1) = 0
  <2>1. 1 <= n /\ 1 - 1 = 0 /\ 0 * MSS = 0
    BY <1>1
  <2> QED
    BY <2>1 DEF Cut
<1> QED
  BY <1>1, <1>4, <1>5, <1>6, <1>7

\* Data leave in pieces that follow one another up to what may leave.
LEMMA DataSegments ==
  ASSUME NEW c, ConnOK(c), Sends(c) = "data"
  PROVE  LET t == Segments(c)
             n == Len(t)
         IN  /\ n = (sendable(c) + MSS - 1) \div MSS
             /\ \A i \in 1 .. n :
                  /\ t[i].flags = {"ACK"} /\ t[i].wnd = window(c)
                  /\ t[i].seq = Plus(c.nxt, Cut(sendable(c), n, i))
                  /\ Cut(sendable(c), n, i) + Len(t[i].data) = Cut(sendable(c), n, i + 1)
<1> DEFINE size     == sendable(c)
           flying   == in_flight(c)
           n        == (size + MSS - 1) \div MSS
           Chunk(i) == SubSeq(c.send, flying + i * MSS + 1, flying + Smaller((i + 1) * MSS, size))
           E(i)     == segment({"ACK"}, Plus(c.nxt, (i - 1) * MSS), c.rcv_nxt, window(c), Chunk(i - 1))
<1>1. /\ size \in Nat \ {0} /\ flying \in Nat /\ flying + size <= Len(c.send)
      /\ Len(c.send) \in Nat /\ c.send \in Seq(Byte)
  <2>1. sendable(c) > 0 /\ c \in Connection
    BY DEF Sends, ConnOK
  <2> QED
    BY <2>1, SendableType, InFlightType, Fields, Modulus DEF Number
<1>2. Segments(c) = [i \in 1 .. n |-> E(i)]
  BY DEF Segments, Chunks
<1> HIDE DEF size, flying
<1>3. /\ n \in Nat \ {0}
      /\ \A i \in 1 .. n + 1 : Cut(size, n, i) \in 0 .. size
      /\ \A i, j \in 1 .. n + 1 : i <= j => Cut(size, n, i) <= Cut(size, n, j)
      /\ \A i \in 1 .. n : Cut(size, n, i + 1) = Smaller(i * MSS, size)
  <2> HIDE DEF n
  <2> QED
    BY <1>1, CutsRise DEF n
<1>4. Len(Segments(c)) = n /\ \A i \in 1 .. n : Segments(c)[i] = E(i)
  <2> HIDE DEF n, E
  <2> QED
    BY <1>2, <1>3
<1> HIDE DEF n
<1>5. ASSUME NEW i \in 1 .. n
      PROVE  Len(Chunk(i - 1)) = Cut(size, n, i + 1) - Cut(size, n, i)
  <2> DEFINE x == Cut(size, n, i)
             y == Cut(size, n, i + 1)
  <2>1. i \in 1 .. n + 1 /\ i + 1 \in 1 .. n + 1 /\ i <= i + 1 /\ i <= n /\ i - 1 + 1 = i
    BY <1>3
  <2>2. x \in 0 .. size /\ y \in 0 .. size /\ x <= y
    BY <1>3, <2>1
  <2>3. x = (i - 1) * MSS /\ y = Smaller(i * MSS, size)
    BY <1>3, <2>1 DEF Cut
  <2>4. Chunk(i - 1) = SubSeq(c.send, flying + x + 1, flying + y)
    BY <2>1, <2>3
  <2> HIDE DEF x, y, Chunk
  <2>5. \A j \in flying + x + 1 .. flying + y : c.send[j] \in Byte
    <3> TAKE j \in flying + x + 1 .. flying + y
    <3>1. j \in 1 .. Len(c.send)
      BY <1>1, <2>2
    <3> QED
      BY <1>1, <3>1, ElementOfSeq
  <2> DEFINE l == flying + x + 1
             h == flying + y
  <2>6. l \in Int /\ h \in Int /\ (IF l <= h THEN h - l + 1 ELSE 0) = y - x
    BY <1>1, <2>2
  <2>7. Chunk(i - 1) = SubSeq(c.send, l, h) /\ \A j \in l .. h : c.send[j] \in Byte
    BY <2>4, <2>5
  <2> HIDE DEF l, h
  <2>8. Len(SubSeq(c.send, l, h)) = IF l <= h THEN h - l + 1 ELSE 0
    BY <2>6, <2>7, SubSeqProperties
  <2> QED
    BY <2>6, <2>7, <2>8 DEF x, y
<1> HIDE DEF Chunk
<1>6. ASSUME NEW i \in 1 .. n
      PROVE  /\ E(i).flags = {"ACK"} /\ E(i).wnd = window(c)
             /\ E(i).seq = Plus(c.nxt, Cut(size, n, i))
             /\ Cut(size, n, i) + Len(E(i).data) = Cut(size, n, i + 1)
  <2>1. /\ E(i).flags = {"ACK"} /\ E(i).wnd = window(c)
        /\ E(i).seq = Plus(c.nxt, (i - 1) * MSS) /\ E(i).data = Chunk(i - 1)
    BY DEF segment
  <2>2. Cut(size, n, i) = (i - 1) * MSS
    BY <1>3 DEF Cut
  <2>3. i \in 1 .. n + 1 /\ i + 1 \in 1 .. n + 1
    BY <1>3
  <2>4. Cut(size, n, i) \in Nat /\ Cut(size, n, i + 1) \in Nat
    BY <1>3, <2>3
  <2> HIDE DEF E
  <2>5. Len(E(i).data) = Cut(size, n, i + 1) - Cut(size, n, i)
    BY <1>5, <2>1
  <2> QED
    BY <2>1, <2>2, <2>4, <2>5
<1> HIDE DEF E
<1> QED
  BY <1>4, <1>6 DEF size, n

\* Anything else leaves as one segment without data, or nothing does.
LEMMA BareSegment ==
  ASSUME NEW c, ConnOK(c), Sends(c) # "data"
  PROVE  LET t == Segments(c) IN
         /\ Sends(c) = "nothing" => t = <<>>
         /\ Sends(c) # "nothing" =>
              /\ Len(t) = 1 /\ t[1].seq = c.nxt /\ t[1].wnd = window(c) /\ t[1].data = <<>>
              /\ t[1].flags = CASE Sends(c) = "SYN" -> IF c.state = "SynSent" THEN {"SYN"}
                                                       ELSE {"SYN", "ACK"}
                                [] Sends(c) = "FIN" -> {"ACK", "FIN"}
                                [] Sends(c) = "ACK" -> {"ACK"}
<1> DEFINE Bare(flags) == segment(flags, c.nxt, c.rcv_nxt, window(c), <<>>)
           flags == CASE Sends(c) = "SYN" -> IF c.state = "SynSent" THEN {"SYN"}
                                             ELSE {"SYN", "ACK"}
                      [] Sends(c) = "FIN" -> {"ACK", "FIN"}
                      [] Sends(c) = "ACK" -> {"ACK"}
<1>1. /\ Sends(c) = "nothing" => Segments(c) = <<>>
      /\ Sends(c) # "nothing" => Segments(c) = <<Bare(flags)>>
  <2>1. Sends(c) \in {"SYN", "FIN", "ACK", "nothing"}
    BY SendsValues
  <2> QED
    BY <2>1 DEF Segments
<1>2. \A f : /\ Bare(f).seq = c.nxt /\ Bare(f).wnd = window(c) /\ Bare(f).data = <<>>
             /\ Bare(f).flags = f
  BY DEF segment
<1> HIDE DEF Bare, flags
<1>3. Len(<<Bare(flags)>>) = 1 /\ <<Bare(flags)>>[1] = Bare(flags)
  OBVIOUS
<1> QED
  BY <1>1, <1>2, <1>3 DEF flags

------------------------------------------------------------------------------
(***************************************************************************)
(* Segments and answers on the way: one more turn, one less segment.       *)
(***************************************************************************)
LEMMA JoinParts ==
  ASSUME NEW q \in Seq(Segment), NEW t \in Seq(Segment)
  PROVE  /\ q \o t \in Seq(Segment) /\ Len(q \o t) = Len(q) + Len(t)
         /\ Len(q) \in Nat /\ Len(t) \in Nat
         /\ \A i \in 1 .. Len(q) : (q \o t)[i] = q[i]
         /\ \A i \in 1 .. Len(t) : (q \o t)[Len(q) + i] = t[i]
BY ConcatParts

LEMMA TailParts ==
  ASSUME NEW q \in Seq(Segment), q # <<>>
  PROVE  /\ Tail(q) \in Seq(Segment) /\ Len(q) \in Nat \ {0} /\ Len(Tail(q)) = Len(q) - 1
         /\ Head(q) = q[1] /\ q[1] \in Segment
         /\ \A i \in 1 .. Len(q) - 1 : Tail(q)[i] = q[i + 1]
<1>1. Len(q) \in Nat /\ Len(q) # 0
  BY EmptySeq
<1>2. Len(Tail(q)) = Len(q) - 1 /\ \A i \in 1 .. Len(q) - 1 : Tail(q)[i] = q[i + 1]
  BY <1>1, HeadTailProperties
<1> QED
  BY <1>1, <1>2, HeadTailProperties, ElementOfSeq

LEMMA MarkType ==
  ASSUME NEW o \in Ends, NEW q \in Seq(Segment), NEW nxt \in Number, NEW k \in Nat \ {0}
  PROVE  Mark(o, nxt, q, k) \in Nat /\ Mark(o, nxt, q, k) < SEQ
<1>1. CASE k <= Len(q)
  <2>1. q[k] \in Segment
    BY <1>1, ElementOfSeq
  <2> QED
    BY <1>1, <2>1, OffType DEF Mark, Segment
<1>2. CASE ~(k <= Len(q))
  BY <1>2, OffType DEF Mark
<1> QED
  BY <1>1, <1>2

\* What leaves goes on where the segments on the way end.
LEMMA ChainJoins ==
  ASSUME NEW o \in Ends, NEW q \in Seq(Segment), NEW t \in Seq(Segment), NEW from,
         NEW nxt \in Number, NEW more \in Number,
         Chain(o, from, q, nxt), Chain(o, Off(o, nxt), t, more)
  PROVE  Chain(o, from, q \o t, more)
<1> DEFINE m   == Len(q)
           l   == Len(t)
           x   == q \o t
           Q(k) == Mark(o, nxt, q, k)
           T(k) == Mark(o, more, t, k)
           X(k) == Mark(o, more, x, k)
<1>1. /\ m \in Nat /\ l \in Nat /\ Len(x) = m + l
      /\ \A i \in 1 .. m : x[i] = q[i]
      /\ \A i \in 1 .. l : x[m + i] = t[i]
  BY JoinParts
<1>2. /\ \A k \in Nat \ {0} : Q(k) \in Nat /\ T(k) \in Nat /\ X(k) \in Nat
  BY JoinParts, MarkType
<1>3. Q(m + 1) = Off(o, nxt) /\ T(1) = Off(o, nxt)
  BY <1>1 DEF Mark, Chain
<1>4. \A k \in 1 .. m : X(k) = Q(k)
  BY <1>1 DEF Mark
<1>5. \A k \in 1 .. l + 1 : X(m + k) = T(k)
  <2> TAKE k \in 1 .. l + 1
  <2>1. CASE k <= l
    <3>1. x[m + k] = t[k] /\ m + k <= Len(x)
      BY <1>1, <2>1
    <3> QED
      BY <2>1, <3>1 DEF Mark
  <2>2. CASE ~(k <= l)
    <3>1. ~(m + k <= Len(x))
      BY <1>1, <2>2
    <3> QED
      BY <2>2, <3>1 DEF Mark
  <2> QED
    BY <2>1, <2>2
<1>6. /\ Q(1) = from
      /\ \A k \in 1 .. m : q[k].flags = {"ACK"} /\ Q(k) + Len(q[k].data) = Q(k + 1)
      /\ \A j, k \in 1 .. m + 1 : j <= k => Q(j) <= Q(k)
      /\ \A k \in 1 .. l : t[k].flags = {"ACK"} /\ T(k) + Len(t[k].data) = T(k + 1)
      /\ \A j, k \in 1 .. l + 1 : j <= k => T(j) <= T(k)
  BY DEF Chain
<1>7. X(m + 1) = Q(m + 1)
  BY <1>1, <1>3, <1>5
<1> HIDE DEF Q, T, X, x, m, l
<1>8. \A k \in 1 .. m + 1 : X(k) = Q(k)
  BY <1>1, <1>4, <1>7
<1>9. X(1) = from
  BY <1>1, <1>6, <1>8
<1>10. ASSUME NEW k \in 1 .. Len(x)
       PROVE  x[k].flags = {"ACK"} /\ X(k) + Len(x[k].data) = X(k + 1)
  <2>1. CASE k \in 1 .. m
    BY <1>1, <1>6, <1>8, <2>1
  <2>2. CASE k \notin 1 .. m
    <3> DEFINE i == k - m
    <3>1. i \in 1 .. l /\ i + 1 \in 1 .. l + 1 /\ k = m + i /\ k + 1 = m + (i + 1)
      BY <1>1, <2>2
    <3> HIDE DEF i
    <3>2. x[k] = t[i] /\ X(k) = T(i) /\ X(k + 1) = T(i + 1)
      BY <1>1, <1>5, <3>1
    <3> QED
      BY <1>6, <3>1, <3>2
  <2> QED
    BY <2>1, <2>2
<1>11. ASSUME NEW j \in 1 .. Len(x) + 1, NEW k \in 1 .. Len(x) + 1, j <= k
       PROVE  X(j) <= X(k)
  <2>1. CASE k <= m + 1
    BY <1>1, <1>6, <1>8, <1>11, <2>1
  <2>2. CASE k > m + 1
    <3> DEFINE i == k - m
    <3>1. i \in 1 .. l + 1 /\ k = m + i /\ 1 \in 1 .. l + 1 /\ 1 <= i
      BY <1>1, <2>2
    <3> HIDE DEF i
    <3>2. X(k) = T(i) /\ T(1) <= T(i)
      BY <1>5, <1>6, <3>1
    <3>3. CASE j <= m
      <4>1. X(j) = Q(j) /\ Q(j) <= Q(m + 1)
        BY <1>1, <1>6, <1>8, <3>3
      <4>2. Q(m + 1) = T(1)
        BY <1>3
      <4>3. Q(j) \in Nat /\ T(1) \in Nat /\ T(i) \in Nat
        BY <1>1, <1>2, <3>1
      <4> QED
        BY <3>2, <4>1, <4>2, <4>3
    <3>4. CASE j > m
      <4> DEFINE h == j - m
      <4>1. h \in 1 .. l + 1 /\ j = m + h /\ h <= i
        BY <1>1, <1>11, <3>1, <3>4
      <4> HIDE DEF h
      <4>2. X(j) = T(h) /\ T(h) <= T(i)
        BY <1>5, <1>6, <3>1, <4>1
      <4> QED
        BY <3>2, <4>2
    <3> QED
      BY <3>3, <3>4, <1>1
  <2> QED
    BY <2>1, <2>2, <1>1
<1>12. Chain(o, from, x, more) <=>
         /\ X(1) = from
         /\ \A k \in 1 .. Len(x) : x[k].flags = {"ACK"} /\ X(k) + Len(x[k].data) = X(k + 1)
         /\ \A j, k \in 1 .. Len(x) + 1 : j <= k => X(j) <= X(k)
  BY DEF Chain, X
<1> QED
  BY <1>9, <1>10, <1>11, <1>12 DEF x

\* The first segment is taken.
LEMMA ChainTail ==
  ASSUME NEW o \in Ends, NEW q \in Seq(Segment), q # <<>>, NEW from, NEW nxt \in Number,
         Chain(o, from, q, nxt)
  PROVE  LET s == Head(q) IN
         /\ s.flags = {"ACK"} /\ Off(o, s.seq) = from /\ from \in Nat
         /\ Len(s.data) \in Nat /\ from + Len(s.data) <= Off(o, nxt)
         /\ Chain(o, from + Len(s.data), Tail(q), nxt)
<1> DEFINE m   == Len(q)
           x   == Tail(q)
           Q(k) == Mark(o, nxt, q, k)
           X(k) == Mark(o, nxt, x, k)
<1>1. /\ m \in Nat \ {0} /\ Len(x) = m - 1 /\ Head(q) = q[1] /\ q[1] \in Segment
      /\ \A i \in 1 .. m - 1 : x[i] = q[i + 1]
  BY TailParts
<1>2. \A k \in Nat \ {0} : Q(k) \in Nat
  BY MarkType
<1>3. Q(m + 1) = Off(o, nxt) /\ Q(1) = Off(o, q[1].seq)
  BY <1>1 DEF Mark
<1>4. /\ Q(1) = from
      /\ \A k \in 1 .. m : q[k].flags = {"ACK"} /\ Q(k) + Len(q[k].data) = Q(k + 1)
      /\ \A j, k \in 1 .. m + 1 : j <= k => Q(j) <= Q(k)
  BY DEF Chain
<1>5. \A k \in 1 .. m : X(k) = Q(k + 1)
  <2> TAKE k \in 1 .. m
  <2>1. CASE k <= m - 1
    <3>1. x[k] = q[k + 1] /\ k <= Len(x) /\ k + 1 <= m
      BY <1>1, <2>1
    <3> QED
      BY <3>1 DEF Mark
  <2>2. CASE ~(k <= m - 1)
    <3>1. ~(k <= Len(x)) /\ ~(k + 1 <= m)
      BY <1>1, <2>2
    <3> QED
      BY <3>1 DEF Mark
  <2> QED
    BY <2>1, <2>2
<1>6. Chain(o, from + Len(Head(q).data), x, nxt) <=>
         /\ X(1) = from + Len(Head(q).data)
         /\ \A k \in 1 .. Len(x) : x[k].flags = {"ACK"} /\ X(k) + Len(x[k].data) = X(k + 1)
         /\ \A j, k \in 1 .. Len(x) + 1 : j <= k => X(j) <= X(k)
  BY DEF Chain
<1>7. Len(q[1].data) \in Nat
  BY <1>1 DEF Segment
<1> HIDE DEF Q, X, m, x
<1>8. X(1) = from + Len(Head(q).data)
  BY <1>1, <1>4, <1>5
<1>9. ASSUME NEW k \in 1 .. Len(x)
      PROVE  x[k].flags = {"ACK"} /\ X(k) + Len(x[k].data) = X(k + 1)
  <2>1. /\ k \in 1 .. m - 1 /\ k \in 1 .. m /\ k + 1 \in 1 .. m
    BY <1>1
  <2> QED
    BY <1>1, <1>4, <1>5, <2>1
<1>10. ASSUME NEW j \in 1 .. Len(x) + 1, NEW k \in 1 .. Len(x) + 1, j <= k
       PROVE  X(j) <= X(k)
  <2>1. /\ j \in 1 .. m /\ k \in 1 .. m /\ j + 1 \in 1 .. m + 1 /\ k + 1 \in 1 .. m + 1
        /\ j + 1 <= k + 1
    BY <1>1, <1>10
  <2> QED
    BY <1>4, <1>5, <2>1
<1>11. from + Len(q[1].data) <= Off(o, nxt)
  <2>1. 1 \in 1 .. m /\ 2 \in 1 .. m + 1 /\ m + 1 \in 1 .. m + 1 /\ 2 <= m + 1
    BY <1>1
  <2>2. Q(1) + Len(q[1].data) = Q(2) /\ Q(2) <= Q(m + 1)
    BY <1>4, <2>1, 1 + 1 = 2
  <2> QED
    BY <1>3, <1>4, <2>2
<1>12. 1 \in 1 .. m
  BY <1>1
<1> QED
  BY <1>1, <1>2, <1>3, <1>4, <1>6, <1>7, <1>8, <1>9, <1>10, <1>11, <1>12 DEF x

\* No segments: what leaves next is what is expected.
LEMMA ChainEmpty ==
  ASSUME NEW o \in Ends, NEW from, NEW nxt \in Number
  PROVE  Chain(o, from, <<>>, nxt) <=> Off(o, nxt) = from
<1>1. Mark(o, nxt, <<>>, 1) = Off(o, nxt) /\ Off(o, nxt) \in Nat
  BY OffType DEF Mark
<1>2. \A k \in 1 .. Len(<<>>) + 1 : k = 1
  OBVIOUS
<1>3. \A j, k \in 1 .. Len(<<>>) + 1 :
         j <= k => Mark(o, nxt, <<>>, j) <= Mark(o, nxt, <<>>, k)
  BY <1>1, <1>2
<1> QED
  BY <1>1, <1>3 DEF Chain

------------------------------------------------------------------------------
(***************************************************************************)
(* A turn and the direction its end sends in.                              *)
(***************************************************************************)
LEMMA OpenOffsets ==
  ASSUME NEW o \in Ends, NEW c, ConnOK(c), NEW n \in Nat, NEW A \in Nat,
         n <= Bytes(o), A <= n, c.state \in Open, Sender(o, c, n, A)
  PROVE  /\ Off(o, c.una) \in 1 .. A + 1 /\ Off(o, c.nxt) \in 1 .. n + 1
         /\ Len(c.send) = n + 1 - Off(o, c.una)
         /\ Off(o, c.una) <= Off(o, c.nxt) => in_flight(c) = Off(o, c.nxt) - Off(o, c.una)
<1>1. PICK u \in 1 .. A + 1, p \in 1 .. n + 1 :
        c.una = Num(o, u) /\ c.nxt = Num(o, p) /\ Len(c.send) = n - u + 1
  BY DEF Sender
<1>2. n + 1 < SEQ
  BY Modulus
<1>3. Off(o, c.una) = u /\ Off(o, c.nxt) = p
  <2>1. u \in Nat /\ u < SEQ /\ p \in Nat /\ p < SEQ
    BY <1>2, Modulus
  <2> QED
    BY <1>1, <2>1, OffNum
<1>4. c.una \in Number /\ c.nxt \in Number
  BY Fields DEF ConnOK
<1>5. Off(o, c.una) <= Off(o, c.nxt) => in_flight(c) = Off(o, c.nxt) - Off(o, c.una)
  BY <1>4, OffMinus DEF in_flight
<1> QED
  BY <1>1, <1>3, <1>5

\* Data go on where the last ones ended, within the window.
LEMMA DataRoom ==
  ASSUME NEW o \in Ends, NEW c, ConnOK(c), NEW n \in Nat, NEW A \in Nat,
         n <= Bytes(o), A <= n, Sender(o, c, n, A), Sends(c) = "data"
  PROVE  LET p == Off(o, c.nxt) IN
         /\ c.state \in Open /\ sendable(c) \in Nat \ {0} /\ p + sendable(c) <= n + 1
         /\ p + sendable(c) < SEQ
         /\ Off(o, c.una) <= p
         /\ p + sendable(c) <= Off(o, c.una) + c.wnd
         /\ Off(o, Sent(c).nxt) = p + sendable(c)
<1>1. c.state \in Open /\ sendable(c) > 0
  BY SendsWhere
<1>2. PICK u \in 1 .. A + 1, p \in 1 .. n + 1 :
           /\ c.una = Num(o, u) /\ c.nxt = Num(o, p)
           /\ p >= u /\ in_flight(c) = p - u
           /\ sendable(c) \in Nat /\ p + sendable(c) <= n + 1
  BY <1>1, DataOffsets
<1>3. n + 1 < SEQ
  BY Modulus
<1>4. Off(o, c.una) = u /\ Off(o, c.nxt) = p
  <2>1. u \in Nat /\ u < SEQ /\ p \in Nat /\ p < SEQ
    BY <1>3, Modulus
  <2> QED
    BY <1>2, <2>1, OffNum
<1>5. c.nxt \in Number /\ c.wnd \in Nat
  BY Fields, Sizes DEF ConnOK
<1>6. sendable(c) <= c.wnd - in_flight(c)
  <2>1. sendable(c) = Smaller(NotBelow0(Len(c.send) - in_flight(c)), NotBelow0(c.wnd - in_flight(c)))
    BY <1>1 DEF sendable
  <2>2. Len(c.send) \in Nat /\ in_flight(c) \in Nat
    BY <1>2, Fields DEF ConnOK
  <2> QED
    BY <1>1, <1>5, <2>1, <2>2 DEF Smaller, NotBelow0
<1>7. Off(o, Plus(c.nxt, sendable(c))) = p + sendable(c)
  <2>1. p + sendable(c) < SEQ
    BY <1>2, <1>3, Modulus
  <2> QED
    BY <1>2, <1>4, <1>5, <2>1, OffPlus
<1>8. Sent(c).nxt = Plus(c.nxt, sendable(c))
  BY SentShape
<1>9. /\ p + sendable(c) < SEQ /\ u <= p /\ p + sendable(c) <= u + c.wnd
      /\ sendable(c) \in Nat \ {0}
  BY <1>1, <1>2, <1>3, <1>5, <1>6, Modulus
<1> QED
  BY <1>1, <1>2, <1>4, <1>7, <1>8, <1>9

LEMMA TurnChain ==
  ASSUME NEW o \in Ends, NEW c, ConnOK(c), NEW n \in Nat, NEW A \in Nat,
         n <= Bytes(o), A <= n, Sender(o, c, n, A), Sends(c) \in {"data", "ACK", "nothing"}
  PROVE  Chain(o, Off(o, c.nxt), Segments(c), Sent(c).nxt)
<1>1. c.nxt \in Number /\ Sent(c).nxt \in Number
  BY SentShape, Fields DEF ConnOK
<1>2. CASE Sends(c) = "nothing"
  <2>1. Segments(c) = <<>> /\ Sent(c).nxt = c.nxt
    BY <1>2, BareSegment, SentShape
  <2> QED
    BY <1>1, <2>1, ChainEmpty
<1>3. CASE Sends(c) = "ACK"
  <2> DEFINE t == Segments(c)
             Q(k) == Mark(o, c.nxt, t, k)
  <2>1. /\ Len(t) = 1 /\ t[1].seq = c.nxt /\ t[1].data = <<>> /\ t[1].flags = {"ACK"}
        /\ Sent(c).nxt = c.nxt
    BY <1>3, BareSegment, SentShape
  <2>2. Q(1) = Off(o, c.nxt) /\ Q(2) = Off(o, c.nxt) /\ Off(o, c.nxt) \in Nat
    BY <1>1, <2>1, OffType DEF Mark
  <2>3. \A k \in 1 .. Len(t) : k = 1
    BY <2>1
  <2>4. \A k \in 1 .. Len(t) + 1 : k = 1 \/ k = 2
    BY <2>1
  <2>5. Len(t[1].data) = 0
    BY <2>1
  <2> HIDE DEF t, Q
  <2>6. \A k \in 1 .. Len(t) : t[k].flags = {"ACK"} /\ Q(k) + Len(t[k].data) = Q(k + 1)
    BY <2>1, <2>2, <2>3, <2>5
  <2>7. \A j, k \in 1 .. Len(t) + 1 : j <= k => Q(j) <= Q(k)
    BY <2>2, <2>4
  <2> QED
    BY <2>1, <2>2, <2>6, <2>7 DEF Chain, Q, t
<1>4. CASE Sends(c) = "data"
  <2> DEFINE t    == Segments(c)
             l    == Len(t)
             size == sendable(c)
             p    == Off(o, c.nxt)
             C(k) == Cut(size, l, k)
             Q(k) == Mark(o, Sent(c).nxt, t, k)
  <2>1. /\ size \in Nat \ {0} /\ p \in Nat /\ p + size < SEQ /\ Off(o, Sent(c).nxt) = p + size
    BY <1>1, <1>4, DataRoom, OffType
  <2>2. /\ l = (size + MSS - 1) \div MSS
        /\ \A i \in 1 .. l : /\ t[i].flags = {"ACK"} /\ t[i].seq = Plus(c.nxt, C(i))
                             /\ C(i) + Len(t[i].data) = C(i + 1)
    BY <1>4, DataSegments
  <2>3. t \in Seq(Segment)
    BY SegmentsShape
  <2>4. /\ l \in Nat \ {0}
        /\ \A i \in 1 .. l + 1 : C(i) \in 0 .. size
        /\ \A i, j \in 1 .. l + 1 : i <= j => C(i) <= C(j)
        /\ C(1) = 0
    <3> HIDE DEF size, l
    <3> QED
      BY <2>1, <2>2, CutsRise
  <2>5. \A k \in 1 .. l : Len(t[k].data) \in Nat
    BY <2>3, <2>4, ElementOfSeq DEF Segment
  <2>6. ASSUME NEW k \in 1 .. l + 1
        PROVE  Q(k) = p + C(k)
    <3>1. CASE k <= l
      <4>1. Q(k) = Off(o, Plus(c.nxt, C(k)))
        BY <2>2, <2>4, <3>1 DEF Mark
      <4> HIDE DEF C, p, size
      <4>2. C(k) \in Nat /\ C(k) <= size
        BY <2>1, <2>4
      <4>3. p + C(k) < SEQ
        BY <2>1, <4>2, Modulus
      <4> QED
        BY <1>1, <4>1, <4>2, <4>3, OffPlus DEF p
    <3>2. CASE ~(k <= l)
      <4>1. Q(k) = p + size
        BY <2>1, <3>2 DEF Mark
      <4>2. C(k) = size
        BY <3>2 DEF Cut
      <4> QED
        BY <4>1, <4>2
    <3> QED
      BY <3>1, <3>2
  <2>7. Chain(o, p, t, Sent(c).nxt) <=>
         /\ Q(1) = p
         /\ \A k \in 1 .. l : t[k].flags = {"ACK"} /\ Q(k) + Len(t[k].data) = Q(k + 1)
         /\ \A j, k \in 1 .. l + 1 : j <= k => Q(j) <= Q(k)
    BY DEF Chain
  <2> HIDE DEF Q, C, p, size, l, t
  <2>8. Q(1) = p
    BY <2>1, <2>4, <2>6
  <2>9. ASSUME NEW k \in 1 .. l
        PROVE  t[k].flags = {"ACK"} /\ Q(k) + Len(t[k].data) = Q(k + 1)
    <3>1. k \in 1 .. l + 1 /\ k + 1 \in 1 .. l + 1
      BY <2>4
    <3>2. C(k) \in Nat /\ C(k + 1) \in Nat
      BY <2>1, <2>4, <3>1
    <3>3. Q(k) = p + C(k) /\ Q(k + 1) = p + C(k + 1)
      BY <2>6, <3>1
    <3>4. t[k].flags = {"ACK"} /\ C(k) + Len(t[k].data) = C(k + 1)
      BY <2>2
    <3>5. p \in Nat /\ Len(t[k].data) \in Nat
      BY <2>1, <2>5
    <3> QED
      BY <3>2, <3>3, <3>4, <3>5
  <2>10. ASSUME NEW j \in 1 .. l + 1, NEW k \in 1 .. l + 1, j <= k
         PROVE  Q(j) <= Q(k)
    <3>1. C(j) \in Nat /\ C(k) \in Nat /\ C(j) <= C(k)
      BY <2>1, <2>4, <2>10
    <3> QED
      BY <2>1, <2>6, <3>1
  <2> QED
    BY <2>7, <2>8, <2>9, <2>10 DEF p, t
<1> QED
  BY <1>2, <1>3, <1>4

------------------------------------------------------------------------------
(***************************************************************************)
(* Answers on the way: some more, one less.                                *)
(***************************************************************************)
LEMMA AckType ==
  ASSUME NEW o \in Ends, NEW una \in Number, NEW wnd \in Nat, NEW b \in Seq(Segment),
         NEW k \in 0 .. Len(b)
  PROVE  Ack(o, una, b, k) \in Nat /\ Wnd(wnd, b, k) \in Nat
<1>1. CASE k = 0
  BY <1>1, OffType DEF Ack, Wnd
<1>2. CASE k # 0
  <2>1. b[k] \in Segment
    BY <1>2, ElementOfSeq
  <2>2. b[k].ack \in Number /\ b[k].wnd \in Nat
    BY <2>1, Sizes DEF Segment
  <2> QED
    BY <1>2, <2>2, OffType DEF Ack, Wnd
<1> QED
  BY <1>1, <1>2

\* Answers that say where the receiver is and what it has room for.
LEMMA AnswersJoin ==
  ASSUME NEW o \in Ends, NEW c, ConnOK(c), NEW d, ConnOK(d),
         NEW b \in Seq(Segment), NEW t \in Seq(Segment),
         Rising(o, c.una, b), Honest(o, c, d, b),
         \A i \in 1 .. Len(t) : t[i].ack = d.rcv_nxt /\ t[i].wnd = window(d)
  PROVE  /\ Rising(o, c.una, b \o t) /\ Honest(o, c, d, b \o t)
         /\ t # <<>> \/ Settled(o, c, d, b) => Settled(o, c, d, b \o t)
<1> DEFINE m   == Len(b)
           l   == Len(t)
           x   == b \o t
           r   == Off(o, d.rcv_nxt)
           w   == window(d)
           B(k) == Ack(o, c.una, b, k)
           X(k) == Ack(o, c.una, x, k)
           V(k) == Wnd(c.wnd, b, k)
           W(k) == Wnd(c.wnd, x, k)
<1>1. /\ m \in Nat /\ l \in Nat /\ Len(x) = m + l /\ x \in Seq(Segment)
      /\ \A i \in 1 .. m : x[i] = b[i]
      /\ \A i \in 1 .. l : x[m + i] = t[i]
  BY JoinParts
<1>2. c.una \in Number /\ c.wnd \in Nat /\ d.rcv_nxt \in Number /\ w \in Nat
  BY Fields, WindowType, Sizes DEF ConnOK
<1>3. \A k \in 0 .. m : B(k) \in Nat /\ V(k) \in Nat
  BY <1>2, AckType
<1>4. r \in Nat
  BY <1>2, OffType
<1>5. \A k \in 0 .. m : X(k) = B(k) /\ W(k) = V(k)
  BY <1>1 DEF Ack, Wnd
<1>6. ASSUME NEW k \in m + 1 .. m + l
      PROVE  X(k) = r /\ W(k) = w
  <2>1. k - m \in 1 .. l /\ k = m + (k - m) /\ k # 0
    BY <1>1
  <2>2. x[k] = t[k - m]
    BY <1>1, <2>1
  <2> QED
    BY <2>1, <2>2 DEF Ack, Wnd
<1>7. /\ \A j, k \in 0 .. m : j <= k => B(j) <= B(k)
      /\ \A k \in 0 .. m : B(k) <= r /\ B(k) + V(k) <= r + w
      /\ Off(o, c.nxt) <= r + w
  BY DEF Rising, Honest, Edge
<1>8. /\ (Rising(o, c.una, x) <=> \A j, k \in 0 .. Len(x) : j <= k => X(j) <= X(k))
      /\ (Honest(o, c, d, x) <=>
            /\ \A k \in 0 .. Len(x) : X(k) <= r /\ X(k) + W(k) <= r + w
            /\ Off(o, c.nxt) <= r + w)
      /\ (Settled(o, c, d, x) <=> X(Len(x)) = r /\ (W(Len(x)) < Threshold => w < Threshold))
      /\ (Settled(o, c, d, b) <=> B(m) = r /\ (V(m) < Threshold => w < Threshold))
  BY DEF Rising, Honest, Settled, Edge
<1>9. t # <<>> => l # 0
  BY EmptySeq
<1> HIDE DEF m, l, x, r, w, B, X, V, W
<1>10. ASSUME NEW j \in 0 .. Len(x), NEW k \in 0 .. Len(x), j <= k
       PROVE  X(j) <= X(k)
  <2>1. CASE k <= m
    <3>1. j \in 0 .. m /\ k \in 0 .. m
      BY <1>1, <1>10, <2>1
    <3> QED
      BY <1>5, <1>7, <1>10, <3>1
  <2>2. CASE j <= m /\ ~(k <= m)
    <3>1. j \in 0 .. m /\ k \in m + 1 .. m + l
      BY <1>1, <2>2
    <3> QED
      BY <1>5, <1>6, <1>7, <3>1
  <2>3. CASE ~(j <= m)
    <3>1. j \in m + 1 .. m + l /\ k \in m + 1 .. m + l
      BY <1>1, <1>10, <2>3
    <3> QED
      BY <1>4, <1>6, <3>1
  <2> QED
    BY <2>1, <2>2, <2>3
<1>11. \A k \in 0 .. Len(x) : X(k) <= r /\ X(k) + W(k) <= r + w
  BY <1>1, <1>2, <1>4, <1>5, <1>6, <1>7
<1>12. l # 0 => X(Len(x)) = r /\ W(Len(x)) = w
  BY <1>1, <1>6
<1>13. l = 0 => X(Len(x)) = B(m) /\ W(Len(x)) = V(m)
  BY <1>1, <1>5
<1>14. t # <<>> \/ Settled(o, c, d, b) => Settled(o, c, d, x)
  BY <1>1, <1>8, <1>9, <1>12, <1>13
<1> QED
  BY <1>7, <1>8, <1>10, <1>11, <1>14 DEF x

\* The first answer arrives.
LEMMA AnswersTail ==
  ASSUME NEW o \in Ends, NEW c, ConnOK(c), NEW d, ConnOK(d),
         NEW b \in Seq(Segment), b # <<>>,
         Rising(o, c.una, b), Honest(o, c, d, b),
         NEW y, y.una = Head(b).ack, y.wnd = Head(b).wnd, y.nxt = c.nxt
  PROVE  /\ Off(o, c.una) <= Off(o, Head(b).ack)
         /\ Off(o, Head(b).ack) <= Off(o, d.rcv_nxt)
         /\ Rising(o, y.una, Tail(b)) /\ Honest(o, y, d, Tail(b))
         /\ Settled(o, c, d, b) => Settled(o, y, d, Tail(b))
<1> DEFINE m   == Len(b)
           x   == Tail(b)
           r   == Off(o, d.rcv_nxt)
           w   == window(d)
           B(k) == Ack(o, c.una, b, k)
           X(k) == Ack(o, y.una, x, k)
           V(k) == Wnd(c.wnd, b, k)
           W(k) == Wnd(y.wnd, x, k)
<1>1. /\ m \in Nat \ {0} /\ Len(x) = m - 1 /\ Head(b) = b[1]
      /\ \A i \in 1 .. m - 1 : x[i] = b[i + 1]
  BY TailParts
<1>2. ASSUME NEW k \in 0 .. m - 1
      PROVE  X(k) = B(k + 1) /\ W(k) = V(k + 1)
  <2>1. CASE k = 0
    BY <1>1, <2>1 DEF Ack, Wnd
  <2>2. CASE k # 0
    <3>1. x[k] = b[k + 1] /\ k + 1 # 0
      BY <1>1, <2>2
    <3> QED
      BY <2>2, <3>1 DEF Ack, Wnd
  <2> QED
    BY <2>1, <2>2
<1>3. /\ \A j, k \in 0 .. m : j <= k => B(j) <= B(k)
      /\ \A k \in 0 .. m : B(k) <= r /\ B(k) + V(k) <= r + w
      /\ Off(o, c.nxt) <= r + w
  BY DEF Rising, Honest, Edge
<1>4. /\ (Rising(o, y.una, x) <=> \A j, k \in 0 .. Len(x) : j <= k => X(j) <= X(k))
      /\ (Honest(o, y, d, x) <=>
            /\ \A k \in 0 .. Len(x) : X(k) <= r /\ X(k) + W(k) <= r + w
            /\ Off(o, c.nxt) <= r + w)
      /\ (Settled(o, y, d, x) <=> X(Len(x)) = r /\ (W(Len(x)) < Threshold => w < Threshold))
      /\ (Settled(o, c, d, b) <=> B(m) = r /\ (V(m) < Threshold => w < Threshold))
  BY DEF Rising, Honest, Settled, Edge
<1>5. B(0) = Off(o, c.una) /\ B(1) = Off(o, Head(b).ack)
  BY <1>1 DEF Ack
<1> HIDE DEF m, x, r, w, B, X, V, W
<1>6. B(0) <= B(1) /\ B(1) <= r
  BY <1>1, <1>3
<1>7. \A j, k \in 0 .. Len(x) : j <= k => X(j) <= X(k)
  BY <1>1, <1>2, <1>3
<1>8. \A k \in 0 .. Len(x) : X(k) <= r /\ X(k) + W(k) <= r + w
  BY <1>1, <1>2, <1>3
<1>9. X(Len(x)) = B(m) /\ W(Len(x)) = V(m)
  <2>1. m - 1 \in 0 .. m - 1 /\ m - 1 + 1 = m
    BY <1>1
  <2> QED
    BY <1>1, <1>2, <2>1
<1> QED
  BY <1>3, <1>4, <1>5, <1>6, <1>7, <1>8, <1>9 DEF x, r

\* The receiver has come further, or has more room.
LEMMA AnswersAhead ==
  ASSUME NEW o \in Ends, NEW c, ConnOK(c), NEW d, ConnOK(d), NEW b \in Seq(Segment),
         Honest(o, c, d, b), NEW y, ConnOK(y),
         Off(o, d.rcv_nxt) <= Off(o, y.rcv_nxt), Edge(o, d) <= Edge(o, y)
  PROVE  Honest(o, c, y, b)
<1> DEFINE B(k) == Ack(o, c.una, b, k)
           V(k) == Wnd(c.wnd, b, k)
<1>1. \A k \in 0 .. Len(b) : B(k) \in Nat /\ V(k) \in Nat
  <2>1. c.una \in Number /\ c.wnd \in Nat
    BY Fields, Sizes DEF ConnOK
  <2> QED
    BY <2>1, AckType
<1>2. Off(o, d.rcv_nxt) \in Nat /\ Off(o, y.rcv_nxt) \in Nat /\ Off(o, c.nxt) \in Nat
  <2>1. d.rcv_nxt \in Number /\ y.rcv_nxt \in Number /\ c.nxt \in Number
    BY Fields DEF ConnOK
  <2> QED
    BY <2>1, OffType
<1>3. Edge(o, d) \in Nat /\ Edge(o, y) \in Nat
  BY <1>2, WindowType, Sizes DEF Edge
<1>4. /\ \A k \in 0 .. Len(b) : B(k) <= Off(o, d.rcv_nxt) /\ B(k) + V(k) <= Edge(o, d)
      /\ Off(o, c.nxt) <= Edge(o, d)
  BY DEF Honest
<1> HIDE DEF B, V
<1>5. /\ \A k \in 0 .. Len(b) : B(k) <= Off(o, y.rcv_nxt) /\ B(k) + V(k) <= Edge(o, y)
      /\ Off(o, c.nxt) <= Edge(o, y)
  BY <1>1, <1>2, <1>3, <1>4
<1> QED
  BY <1>5 DEF Honest, B, V

------------------------------------------------------------------------------
(***************************************************************************)
(* A turn leaves the direction its end sends in as it must be.             *)
(***************************************************************************)

\* Only these fields of either end count.
LEMMA PartAlike ==
  ASSUME NEW o, NEW c, NEW d, NEW q, NEW b, NEW owes, Part(o, c, d, q, b, owes),
         NEW x, x.state = c.state, x.una = c.una, x.nxt = c.nxt, x.wnd = c.wnd,
         x.retries \in {c.retries, 0}, x.fin_sent = c.fin_sent, c.closing => x.closing,
         NEW y, y.rcv_nxt = d.rcv_nxt, y.recv = d.recv, y.peer_closed = d.peer_closed,
         y.state = "SynReceived" => d.state = "SynReceived",
         NEW still, owes => still
  PROVE  Part(o, x, y, q, b, still)
<1>1. window(y) = window(d) /\ Edge(o, y) = Edge(o, d)
  BY DEF window, Edge
<1>2. Flow(o, c, d, q, b, owes) => Flow(o, x, y, q, b, still)
  BY <1>1 DEF Flow, Honest, Settled
<1>3. Opened(c, d, q, b, owes) => Opened(x, y, q, b, still)
  BY DEF Opened
<1>4. Fin(c, d, q, b, owes) => Fin(x, y, q, b, still)
  <2>1. Untaken(c, d, q, b) => Untaken(x, y, q, b)
    BY DEF Untaken
  <2>2. Taken(c, d, b, owes) => Taken(x, y, b, still)
    BY DEF Taken
  <2> QED
    BY <2>1, <2>2 DEF Fin
<1>5. Done(c, d, q, b) => Done(x, y, q, b)
  BY DEF Done
<1> QED
  BY <1>2, <1>3, <1>4, <1>5 DEF Part

\* Nothing is in flight: everything that was sent has come and is acknowledged.
LEMMA NothingOut ==
  ASSUME NEW o \in Ends, NEW c, ConnOK(c), NEW d, ConnOK(d), NEW q \in Seq(Segment),
         NEW b \in Seq(Segment), NEW owes, Flow(o, c, d, q, b, owes), in_flight(c) = 0
  PROVE  /\ c.nxt = c.una /\ d.rcv_nxt = c.una /\ NoData(q)
         /\ \A k \in 1 .. Len(b) : b[k].ack = c.una
<1> DEFINE m    == Len(q)
           l    == Len(b)
           u    == Off(o, c.una)
           r    == Off(o, d.rcv_nxt)
           Q(k) == Mark(o, c.nxt, q, k)
           B(k) == Ack(o, c.una, b, k)
<1>1. /\ c.una \in Number /\ c.nxt \in Number /\ d.rcv_nxt \in Number /\ c.wnd \in Nat
      /\ m \in Nat /\ l \in Nat
  BY Fields, Sizes DEF ConnOK
<1>2. c.nxt = c.una
  <2>1. Minus(c.nxt, c.una) = 0
    BY DEF in_flight
  <2>2. Minus(c.nxt, c.una) = IF c.nxt >= c.una THEN c.nxt - c.una ELSE c.nxt - c.una + SEQ
    BY <1>1, MinusValue
  <2>3. c.nxt \in 0 .. SEQ - 1 /\ c.una \in 0 .. SEQ - 1 /\ SEQ \in Nat
    BY <1>1, Modulus DEF Number
  <2> DEFINE x == c.nxt
             y == c.una
  <2>4. x \in 0 .. SEQ - 1 /\ y \in 0 .. SEQ - 1 /\ 0 = IF x >= y THEN x - y ELSE x - y + SEQ
    BY <2>1, <2>2, <2>3
  <2> HIDE DEF x, y
  <2>5. x = y
    BY <2>3, <2>4
  <2> QED
    BY <2>5 DEF x, y
<1>3. u \in Nat /\ r \in Nat
  BY <1>1, OffType
<1>4. /\ Q(1) = r
      /\ \A k \in 1 .. m : Q(k) + Len(q[k].data) = Q(k + 1)
      /\ \A j, k \in 1 .. m + 1 : j <= k => Q(j) <= Q(k)
      /\ \A j, k \in 0 .. l : j <= k => B(j) <= B(k)
      /\ \A k \in 0 .. l : B(k) <= r
  BY DEF Flow, Chain, Rising, Honest
<1>5. Q(m + 1) = u /\ B(0) = u
  BY <1>1, <1>2 DEF Mark, Ack
<1>6. /\ \A k \in Nat \ {0} : Q(k) \in Nat
      /\ \A k \in 0 .. l : B(k) \in Nat
  <2>1. \A k \in Nat \ {0} : Q(k) \in Nat
    BY <1>1, MarkType
  <2>2. \A k \in 0 .. l : B(k) \in Nat
    BY <1>1, AckType
  <2> QED
    BY <2>1, <2>2
<1>7. \A k \in 1 .. m : q[k] \in Segment /\ Len(q[k].data) \in Nat /\ (Len(q[k].data) = 0 => q[k].data = <<>>)
  <2> TAKE k \in 1 .. m
  <2>1. q[k] \in Segment
    BY ElementOfSeq
  <2>2. q[k].data \in Seq(Byte)
    BY <2>1 DEF Segment
  <2> QED
    BY <2>1, <2>2, EmptySeq
<1>8. \A k \in 1 .. l : b[k].ack \in Number /\ B(k) = Off(o, b[k].ack)
  <2> TAKE k \in 1 .. l
  <2>1. b[k] \in Segment /\ k # 0
    BY ElementOfSeq
  <2> QED
    BY <2>1 DEF Segment, Ack
<1> HIDE DEF Q, B, m, l, u, r
<1>9. u = r
  <2>1. 1 \in 1 .. m + 1 /\ m + 1 \in 1 .. m + 1 /\ 1 <= m + 1 /\ 0 \in 0 .. l
    BY <1>1
  <2>2. r <= u /\ u <= r
    BY <1>4, <1>5, <2>1
  <2> QED
    BY <1>3, <2>2
<1>10. d.rcv_nxt = c.una
  BY <1>1, <1>9, OffSame DEF u, r
<1>11. ASSUME NEW k \in 1 .. m
       PROVE  q[k].data = <<>>
  <2>1. /\ k \in 1 .. m + 1 /\ k + 1 \in 1 .. m + 1 /\ 1 <= k /\ k + 1 <= m + 1
        /\ 1 \in 1 .. m + 1 /\ m + 1 \in 1 .. m + 1 /\ k \in Nat \ {0} /\ k + 1 \in Nat \ {0}
    BY <1>1
  <2>2. r <= Q(k) /\ Q(k + 1) <= u /\ Q(k) + Len(q[k].data) = Q(k + 1)
    BY <1>4, <1>5, <2>1
  <2>3. Len(q[k].data) = 0
    BY <1>3, <1>6, <1>7, <1>9, <2>1, <2>2
  <2> QED
    BY <1>7, <2>3
<1>12. ASSUME NEW k \in 1 .. l
       PROVE  b[k].ack = c.una
  <2>1. k \in 0 .. l /\ 0 \in 0 .. l /\ 0 <= k
    BY <1>1
  <2>2. u <= B(k) /\ B(k) <= r
    BY <1>4, <1>5, <2>1
  <2>3. B(k) = u
    BY <1>3, <1>6, <1>9, <2>1, <2>2
  <2> QED
    BY <1>1, <1>8, <2>3, OffSame DEF u
<1> QED
  BY <1>2, <1>10, <1>11, <1>12 DEF NoData, m, l

LEMMA PlainSegments ==
  ASSUME NEW c, ConnOK(c), Sends(c) # "SYN"
  PROVE  /\ Plain(Segments(c))
         /\ Sends(c) # "FIN" => \A k \in 1 .. Len(Segments(c)) : "FIN" \notin Segments(c)[k].flags
         /\ Sends(c) # "data" => NoData(Segments(c))
         /\ \A k \in 1 .. Len(Segments(c)) : Segments(c)[k].ack = c.rcv_nxt
                                             /\ Segments(c)[k].wnd = window(c)
<1> DEFINE t == Segments(c)
<1>1. \A k \in 1 .. Len(t) : t[k].ack = c.rcv_nxt
  BY SegmentsShape
<1>2. CASE Sends(c) = "data"
  <2>1. \A k \in 1 .. Len(t) : t[k].flags = {"ACK"} /\ t[k].wnd = window(c)
    BY <1>2, DataSegments
  <2> HIDE DEF t
  <2> QED
    BY <1>1, <1>2, <2>1 DEF Plain, t
<1>3. CASE Sends(c) = "nothing"
  <2>1. t = <<>>
    BY <1>3, BareSegment
  <2> QED
    BY <2>1 DEF Plain, NoData
<1>4. CASE Sends(c) \in {"FIN", "ACK"}
  <2>1. /\ Len(t) = 1 /\ t[1].wnd = window(c) /\ t[1].data = <<>>
        /\ t[1].flags = IF Sends(c) = "FIN" THEN {"ACK", "FIN"} ELSE {"ACK"}
    BY <1>4, BareSegment
  <2>2. \A k \in 1 .. Len(t) : k = 1
    BY <2>1
  <2> HIDE DEF t
  <2> QED
    BY <1>1, <1>4, <2>1, <2>2 DEF Plain, NoData, t
<1> QED
  BY <1>2, <1>3, <1>4, SendsValues

\* The parts of a queue that is put together.
LEMMA JoinNoData ==
  ASSUME NEW q \in Seq(Segment), NEW t \in Seq(Segment), NoData(q), NoData(t)
  PROVE  NoData(q \o t)
<1> DEFINE x == q \o t
<1>1. \A i \in 1 .. Len(x) : (\E j \in 1 .. Len(q) : x[i] = q[j]) \/ (\E j \in 1 .. Len(t) : x[i] = t[j])
  BY Among
<1> HIDE DEF x
<1> QED
  BY <1>1 DEF NoData, x

LEMMA SenderTurn ==
  ASSUME NEW o \in Ends, NEW c, ConnOK(c), NEW d, ConnOK(d), NEW q \in Seq(Segment),
         NEW b \in Seq(Segment), NEW owes, NEW n \in Nat, NEW A \in Nat,
         n <= Bytes(o), c.state \in Open => A <= n, Sender(o, c, n, A),
         Sound(c), Part(o, c, d, q, b, owes)
  PROVE  /\ Sends(c) # "SYN" /\ Sound(Sent(c))
         /\ Part(o, Sent(c), d, q \o Segments(c), b, owes)
<1> DEFINE t == Segments(c)
           x == Sent(c)
<1>1. /\ c.state \in States \ {"none", "SynSent"} /\ c.nxt \in Number /\ c.una \in Number
      /\ x.una = c.una /\ x.rcv_nxt = c.rcv_nxt /\ x.peer_closed = c.peer_closed
      /\ x.wnd = c.wnd /\ x.retries = c.retries /\ x.closing = c.closing /\ x.reset = c.reset
      /\ t \in Seq(Segment) /\ c.reset = FALSE
  <2>1. c \in Connection
    BY DEF ConnOK
  <2>2. c.state \in States \ {"none", "SynSent"} /\ c.reset = FALSE
    BY <2>1, Fields DEF Sound
  <2>3. x.wnd = c.wnd /\ x.retries = c.retries /\ x.closing = c.closing /\ x.reset = c.reset
    BY SentRest
  <2>4. x.una = c.una /\ x.rcv_nxt = c.rcv_nxt /\ x.peer_closed = c.peer_closed
    BY SentShape
  <2> QED
    BY <2>1, <2>2, <2>3, <2>4, Fields, SegmentsShape
<1>2. Sends(c) \in {"data", "ACK", "nothing"} =>
         x.state = c.state /\ x.fin_sent = c.fin_sent
  BY SentShape
<1>3. Sends(c) \in {"ACK", "nothing"} => x.nxt = c.nxt
  BY SentShape
<1>4. CASE c.state \in Open /\ Sends(c) \in {"data", "ACK", "nothing"}
  <2>1. Flow(o, c, d, q, b, owes)
    BY <1>4 DEF Part
  <2>2. Chain(o, Off(o, c.nxt), t, x.nxt)
    BY <1>4, TurnChain
  <2>3. x.nxt \in Number /\ c.wnd \in Nat
    BY SentShape, Fields, Sizes DEF ConnOK
  <2>4. Chain(o, Off(o, d.rcv_nxt), q \o t, x.nxt)
    <3>1. Chain(o, Off(o, d.rcv_nxt), q, c.nxt)
      BY <2>1 DEF Flow
    <3> HIDE DEF t, x
    <3> QED
      BY <1>1, <2>2, <2>3, <3>1, ChainJoins
  <2>5. Off(o, x.nxt) <= Edge(o, d)
    <3>1. CASE Sends(c) = "data"
      <4>1. Off(o, x.nxt) <= Off(o, c.una) + c.wnd
        BY <1>4, <3>1, DataRoom
      <4>2. Ack(o, c.una, b, 0) + Wnd(c.wnd, b, 0) <= Edge(o, d)
        <5>1. 0 \in 0 .. Len(b)
          BY JoinParts
        <5> QED
          BY <2>1, <5>1 DEF Flow, Honest
      <4>3. Off(o, c.una) + c.wnd <= Edge(o, d)
        BY <4>2 DEF Ack, Wnd
      <4>4. d.rcv_nxt \in Number /\ window(d) \in Nat
        BY Fields, WindowType, Sizes DEF ConnOK
      <4>5. Off(o, x.nxt) \in Nat /\ Off(o, c.una) \in Nat /\ Edge(o, d) \in Nat
        BY <1>1, <2>3, <4>4, OffType DEF Edge
      <4> QED
        BY <2>3, <4>1, <4>3, <4>5
    <3>2. CASE Sends(c) # "data"
      BY <1>3, <1>4, <2>1, <3>2 DEF Flow, Honest
    <3> QED
      BY <3>1, <3>2
  <2>6. Honest(o, x, d, b)
    BY <1>1, <2>1, <2>5 DEF Flow, Honest
  <2>7. owes \/ Settled(o, x, d, b)
    BY <1>1, <2>1 DEF Flow, Settled
  <2>8. Flow(o, x, d, q \o t, b, owes)
    BY <1>1, <2>1, <2>4, <2>6, <2>7 DEF Flow
  <2>9. x.state \in Open /\ x.state # "SynReceived" /\ x.state \notin Closers /\ x.state # "Closed"
    BY <1>2, <1>4 DEF Open, Closers
  <2>10. Part(o, x, d, q \o t, b, owes)
    BY <2>8, <2>9 DEF Part, Closers
  <2>11. Sound(x)
    BY <1>1, <1>2, <1>4 DEF Sound
  <2> QED
    BY <1>4, <2>10, <2>11
<1>5. CASE c.state \in Open /\ Sends(c) = "FIN"
  <2>1. Flow(o, c, d, q, b, owes) /\ in_flight(c) = 0 /\ c.closing
    <3>1. c.closing
      BY <1>5 DEF Sends
    <3> QED
      BY <1>5, <3>1, SendsWhere DEF Part
  <2>2. /\ c.nxt = c.una /\ d.rcv_nxt = c.una /\ NoData(q)
        /\ \A k \in 1 .. Len(b) : b[k].ack = c.una
    BY <2>1, NothingOut
  <2>3. x.nxt = Plus(c.una, 1) /\ x.fin_sent /\ x.state = AfterFin(c.state)
    BY <1>5, <2>2, SentRest, SentShape
  <2>4. x.state = IF c.state = "CloseWait" THEN "LastAck" ELSE "FinWait1"
    BY <1>5, <2>3 DEF AfterFin, Open
  <2>5. Len(t) = 1 /\ t[1].seq = c.una /\ t[1].data = <<>> /\ t[1].flags = {"ACK", "FIN"}
    BY <1>5, <2>2, BareSegment
  <2>6. NoData(q \o t)
    <3>1. NoData(t)
      BY <2>5 DEF NoData
    <3> QED
      BY <1>1, <2>2, <3>1, JoinNoData
  <2>7. \A k \in 1 .. Len(q \o t) : "FIN" \in (q \o t)[k].flags => (q \o t)[k].seq = c.una
    <3> DEFINE y == q \o t
    <3>1. \A i \in 1 .. Len(y) : (\E j \in 1 .. Len(q) : y[i] = q[j]) \/ (\E j \in 1 .. Len(t) : y[i] = t[j])
      BY <1>1, Among
    <3>2. \A j \in 1 .. Len(q) : "FIN" \notin q[j].flags
      BY <2>1 DEF Flow, Chain
    <3>3. \A j \in 1 .. Len(t) : t[j].seq = c.una
      BY <2>5
    <3> HIDE DEF y, t
    <3> QED
      BY <3>1, <3>2, <3>3 DEF y
  <2>8. Untaken(x, d, q \o t, b)
    BY <1>1, <2>1, <2>2, <2>7 DEF Untaken, Flow
  <2>9. Fin(x, d, q \o t, b, owes)
    BY <1>1, <2>1, <2>3, <2>6, <2>8 DEF Fin
  <2>10. Part(o, x, d, q \o t, b, owes)
    BY <2>4, <2>9 DEF Part, Open
  <2>11. Sound(x)
    BY <1>1, <1>5, <2>4 DEF Sound
  <2> QED
    BY <1>5, <2>10, <2>11
<1>6. CASE c.state = "SynReceived"
  <2>1. Opened(c, d, q, b, owes)
    BY <1>6 DEF Part
  <2>2. c.nxt # c.una
    BY <1>1, <2>1, NextNumber DEF Opened
  <2>3. Sends(c) = "nothing"
    BY <1>1, <1>6, <2>2 DEF Sends
  <2>4. t = <<>> /\ x = c
    BY <2>3, BareSegment DEF Sent
  <2>5. q \o t = q
    BY <2>4
  <2> QED
    BY <2>3, <2>4, <2>5
<1>7. CASE c.state \notin Open \cup {"SynReceived"}
  <2>1. c.fin_sent \/ c.state = "Closed"
    BY <1>1, <1>7 DEF Part, Fin, Done, States, Open
  <2>2. Sends(c) \in {"ACK", "nothing"}
    <3>1. sendable(c) = 0
      BY <1>7 DEF sendable
    <3>2. c.state \notin {"SynSent", "SynReceived"}
      BY <1>1, <1>7
    <3> QED
      BY <1>1, <2>1, <3>1, <3>2 DEF Sends, Open, Closers
  <2>3. /\ x.state = c.state /\ x.fin_sent = c.fin_sent /\ x.nxt = c.nxt
    BY <1>2, <1>3, <2>2
  <2>4. NoData(t) /\ \A k \in 1 .. Len(t) : "FIN" \notin t[k].flags
    BY <2>2, PlainSegments
  <2> DEFINE y == q \o t
  <2>5. NoData(q) => NoData(y)
    BY <1>1, <2>4, JoinNoData
  <2>6. \A i \in 1 .. Len(y) : (\E j \in 1 .. Len(q) : y[i] = q[j]) \/ (\E j \in 1 .. Len(t) : y[i] = t[j])
    BY <1>1, Among
  <2>7. \A i \in 1 .. Len(q) : i \in 1 .. Len(y) /\ y[i] = q[i]
    BY <1>1, JoinParts
  <2> HIDE DEF y, t
  <2>8. Untaken(c, d, q, b) => Untaken(x, d, y, b)
    <3>1. x.una = c.una /\ x.retries = c.retries
      BY <1>1, <2>3
    <3>2. ASSUME Untaken(c, d, q, b), NEW i \in 1 .. Len(y), "FIN" \in y[i].flags
          PROVE  y[i].seq = c.una
      BY <2>4, <2>6, <3>2 DEF Untaken
    <3>3. (\E j \in 1 .. Len(q) : "FIN" \in q[j].flags) => \E i \in 1 .. Len(y) : "FIN" \in y[i].flags
      BY <2>7
    <3> QED
      BY <3>1, <3>2, <3>3 DEF Untaken
  <2>9. Taken(c, d, b, owes) => Taken(x, d, b, owes)
    BY <1>1, <2>3 DEF Taken
  <2>10. Fin(c, d, q, b, owes) => Fin(x, d, y, b, owes)
    BY <1>1, <2>3, <2>5, <2>8, <2>9 DEF Fin
  <2>11. Done(c, d, q, b) => Done(x, d, y, b)
    BY <1>1, <2>3, <2>5 DEF Done
  <2>12. Part(o, x, d, y, b, owes)
    BY <1>7, <2>3, <2>10, <2>11 DEF Part
  <2>13. Sound(x)
    BY <1>1, <2>3 DEF Sound
  <2> QED
    BY <2>2, <2>12, <2>13 DEF y, t
<1>8. c.state \in Open => Sends(c) \in {"data", "ACK", "nothing", "FIN"}
  <2>1. Sends(c) = "SYN" => c.state \notin Open
    BY SendsWhere DEF Opening, Open
  <2> QED
    BY <2>1, SendsValues
<1> QED
  BY <1>4, <1>5, <1>6, <1>7, <1>8

------------------------------------------------------------------------------
(***************************************************************************)
(* ... and the direction it receives in: whatever leaves is an answer.     *)
(***************************************************************************)
LEMMA OwingSends ==
  ASSUME NEW d, ConnOK(d), Owes(d)
  PROVE  Sends(d) # "nothing" /\ Segments(d) # <<>>
<1>1. d.reset = FALSE /\ d.state \notin {"SynSent", "SynReceived"}
  BY Fields DEF Owes, ConnOK, Open, Closers
<1>2. Sends(d) # "nothing"
  BY <1>1 DEF Sends, Owes
<1>3. CASE Sends(d) = "data"
  <2> DEFINE t == Segments(d)
  <2>1. Len(t) = (sendable(d) + MSS - 1) \div MSS
    BY <1>3, DataSegments
  <2>2. sendable(d) \in Nat \ {0}
    <3>1. d \in Connection /\ sendable(d) > 0
      BY <1>3, SendsWhere DEF ConnOK
    <3> QED
      BY <3>1, SendableType
  <2>3. Len(t) \in Nat \ {0}
    BY <2>1, <2>2, Sizes, Pieces
  <2> HIDE DEF t
  <2>4. t # <<>>
    BY <2>3
  <2> QED
    BY <1>2, <2>4 DEF t
<1>4. CASE Sends(d) # "data"
  <2> DEFINE t == Segments(d)
  <2>1. Len(t) = 1
    BY <1>2, <1>4, BareSegment
  <2> HIDE DEF t
  <2>2. t # <<>>
    BY <2>1
  <2> QED
    BY <1>2, <2>2 DEF t
<1> QED
  BY <1>3, <1>4

\* More answers, all of them from where the receiver is.
LEMMA AnswersTurn ==
  ASSUME NEW o \in Ends, NEW c, ConnOK(c), NEW d, ConnOK(d), NEW q, NEW b \in Seq(Segment),
         NEW owes, Part(o, c, d, q, b, owes), NEW t \in Seq(Segment),
         \A k \in 1 .. Len(t) : t[k].ack = d.rcv_nxt /\ t[k].wnd = window(d),
         owes => t # <<>>
  PROVE  Part(o, c, d, q, b \o t, FALSE)
<1> DEFINE y == b \o t
<1>1. /\ \A i \in 1 .. Len(y) : (\E j \in 1 .. Len(b) : y[i] = b[j]) \/ (\E j \in 1 .. Len(t) : y[i] = t[j])
      /\ \A i \in 1 .. Len(b) : i \in 1 .. Len(y) /\ y[i] = b[i]
      /\ y \in Seq(Segment) /\ Len(y) = Len(b) + Len(t) /\ Len(b) \in Nat /\ Len(t) \in Nat
      /\ t # <<>> => Len(b) + 1 \in 1 .. Len(y) /\ y[Len(b) + 1].ack = d.rcv_nxt
  <2>1. \A i \in 1 .. Len(y) : (\E j \in 1 .. Len(b) : y[i] = b[j]) \/ (\E j \in 1 .. Len(t) : y[i] = t[j])
    BY Among
  <2>2. y \in Seq(Segment) /\ Len(y) = Len(b) + Len(t) /\ Len(b) \in Nat /\ Len(t) \in Nat
    BY JoinParts
  <2>3. \A i \in 1 .. Len(b) : y[i] = b[i]
    BY JoinParts
  <2>4. \A i \in 1 .. Len(t) : y[Len(b) + i] = t[i]
    BY JoinParts
  <2>5. t # <<>> => Len(t) # 0
    BY EmptySeq
  <2> HIDE DEF y
  <2>6. t # <<>> => 1 \in 1 .. Len(t) /\ Len(b) + 1 \in 1 .. Len(y)
    BY <2>2, <2>5
  <2>7. \A i \in 1 .. Len(b) : i \in 1 .. Len(y)
    BY <2>2
  <2> QED
    BY <2>1, <2>2, <2>3, <2>4, <2>6, <2>7
<1>2. ASSUME Flow(o, c, d, q, b, owes)
      PROVE  Flow(o, c, d, q, y, FALSE)
  <2>1. Rising(o, c.una, b) /\ Honest(o, c, d, b)
    BY <1>2 DEF Flow
  <2>2. /\ Rising(o, c.una, y) /\ Honest(o, c, d, y)
        /\ t # <<>> \/ Settled(o, c, d, b) => Settled(o, c, d, y)
    BY <2>1, AnswersJoin
  <2> QED
    BY <1>2, <2>2 DEF Flow
<1> HIDE DEF y
<1>3. ASSUME Opened(c, d, q, b, owes)
      PROVE  Opened(c, d, q, y, FALSE)
  <2>1. d.rcv_nxt = c.nxt /\ window(d) = RECEIVE_BUFFER
    BY <1>3, Sizes DEF Opened, window
  <2>2. y # <<>>
    <3>1. b # <<>> => Len(b) # 0
      BY EmptySeq
    <3>2. t # <<>> => Len(t) # 0
      BY EmptySeq
    <3>3. b # <<>> \/ t # <<>>
      BY <1>3 DEF Opened
    <3>4. Len(y) # 0
      BY <1>1, <3>1, <3>2, <3>3
    <3> QED
      BY <3>4
  <2>3. \A k \in 1 .. Len(t) : t[k].ack = c.nxt /\ t[k].wnd = RECEIVE_BUFFER
    BY <2>1
  <2>4. \A k \in 1 .. Len(b) : b[k].ack = c.nxt /\ b[k].wnd = RECEIVE_BUFFER
    BY <1>3 DEF Opened
  <2>5. ASSUME NEW k \in 1 .. Len(y)
        PROVE  y[k].ack = c.nxt /\ y[k].wnd = RECEIVE_BUFFER
    <3>1. (\E j \in 1 .. Len(b) : y[k] = b[j]) \/ (\E j \in 1 .. Len(t) : y[k] = t[j])
      BY <1>1
    <3> QED
      BY <2>3, <2>4, <3>1
  <2> QED
    BY <1>3, <2>2, <2>5 DEF Opened
<1>4. ASSUME Fin(c, d, q, b, owes)
      PROVE  Fin(c, d, q, y, FALSE)
  <2>1. Untaken(c, d, q, b) => Untaken(c, d, q, y)
    BY <1>1 DEF Untaken
  <2>2. Taken(c, d, b, owes) => Taken(c, d, y, FALSE)
    <3> SUFFICES ASSUME Taken(c, d, b, owes)
                 PROVE  Taken(c, d, y, FALSE)
      OBVIOUS
    <3>1. ASSUME NEW k \in 1 .. Len(y)
          PROVE  y[k].ack \in {c.una, c.nxt}
      <4>1. (\E j \in 1 .. Len(b) : y[k] = b[j]) \/ (\E j \in 1 .. Len(t) : y[k] = t[j])
        BY <1>1
      <4>2. \A j \in 1 .. Len(t) : t[j].ack = c.nxt
        BY <1>1 DEF Taken
      <4> QED
        BY <4>1, <4>2 DEF Taken
    <3>2. \E k \in 1 .. Len(y) : y[k].ack = c.nxt
      BY <1>1 DEF Taken
    <3> QED
      BY <3>1, <3>2 DEF Taken
  <2> QED
    BY <1>4, <2>1, <2>2 DEF Fin
<1>5. ASSUME Done(c, d, q, b)
      PROVE  Done(c, d, q, y)
  <2>1. ~after(c.una, c.una)
    BY Fields, NextNumber DEF ConnOK
  <2>2. \A k \in 1 .. Len(t) : ~after(t[k].ack, c.una)
    BY <1>5, <2>1 DEF Done
  <2>3. \A k \in 1 .. Len(b) : ~after(b[k].ack, c.una)
    BY <1>5 DEF Done
  <2>4. \A k \in 1 .. Len(y) : ~after(y[k].ack, c.una)
    BY <1>1, <2>2, <2>3
  <2> QED
    BY <1>5, <2>4 DEF Done
<1> QED
  BY <1>2, <1>3, <1>4, <1>5 DEF Part, y

LEMMA ReceiverTurn ==
  ASSUME NEW o \in Ends, NEW c, ConnOK(c), NEW d, ConnOK(d), NEW q, NEW b \in Seq(Segment),
         Part(o, c, d, q, b, Owes(d)), Sends(d) # "SYN"
  PROVE  Part(o, c, Sent(d), q, b \o Segments(d), FALSE)
<1> DEFINE t == Segments(d)
           y == Sent(d)
<1>1. t \in Seq(Segment) /\ \A k \in 1 .. Len(t) : t[k].ack = d.rcv_nxt /\ t[k].wnd = window(d)
  BY SegmentsShape, PlainSegments
<1>2. Owes(d) => t # <<>>
  BY OwingSends
<1>3. Part(o, c, d, q, b \o t, FALSE)
  <2> HIDE DEF t
  <2> QED
    BY <1>1, <1>2, AnswersTurn
<1>4. y.rcv_nxt = d.rcv_nxt /\ y.recv = d.recv /\ y.peer_closed = d.peer_closed
  BY SentShape
<1>5. y.state = "SynReceived" => d.state = "SynReceived"
  <2>1. y.state = d.state \/ y.state = AfterFin(d.state)
    BY SentShape, SendsValues
  <2> QED
    BY <2>1 DEF AfterFin
<1> HIDE DEF t, y
<1> QED
  BY <1>3, <1>4, <1>5, PartAlike DEF t, y

\* The timer runs out while the FIN is lost with nothing on the way: it leaves again.
LEMMA RewoundTurn ==
  ASSUME NEW o \in Ends, NEW c, ConnOK(c), NEW d, ConnOK(d),
         c.state \in {"FinWait1", "Closing", "LastAck"}, Fin(c, d, <<>>, <<>>, FALSE),
         d.state # "SynReceived", ~GaveUp(c), Sound(c)
  PROVE  LET x == Rewound(c) IN
         /\ Sends(x) = "FIN" /\ Sound(Sent(x))
         /\ Part(o, Sent(x), d, Segments(x), <<>>, FALSE)
<1> DEFINE x == Rewound(c)
           z == Sent(x)
           t == Segments(x)
<1>1. /\ c \in Connection /\ c.closing /\ c.una \in Number /\ c.reset = FALSE
  BY Fields DEF Fin, Sound, ConnOK
<1>2. ConnOK(x)
  BY CalledType
<1>3. /\ x.state = c.state /\ x.una = c.una /\ x.nxt = c.una /\ x.fin_sent = FALSE
      /\ x.closing = c.closing /\ x.reset = c.reset /\ x.peer_closed = c.peer_closed
  BY <1>1 DEF Rewound, Connection
<1> HIDE DEF x
<1>4. in_flight(x) = 0
  BY <1>1, <1>3, NextNumber DEF in_flight
<1>5. Sends(x) = "FIN"
  <2>1. sendable(x) = 0
    BY <1>3 DEF sendable, Open
  <2> QED
    BY <1>1, <1>3, <1>4, <2>1 DEF Sends, Open, Closers, NothingInFlight
<1>6. /\ z.state = AfterFin(c.state) /\ z.una = c.una /\ z.nxt = Plus(c.una, 1) /\ z.fin_sent
      /\ z.closing = c.closing /\ z.reset = c.reset /\ z.peer_closed = c.peer_closed
  BY <1>2, <1>3, <1>5, SentShape, SentRest
<1>7. z.state = c.state
  BY <1>6 DEF AfterFin
<1>8. Len(t) = 1 /\ t[1].seq = c.una /\ t[1].data = <<>> /\ t[1].flags = {"ACK", "FIN"}
  BY <1>2, <1>3, <1>5, BareSegment
<1>9. Untaken(c, d, <<>>, <<>>)
  <2>1. ~Taken(c, d, <<>>, FALSE)
    BY DEF Taken
  <2> QED
    BY <2>1 DEF Fin
<1> HIDE DEF z, t
<1>10. 1 \in 1 .. Len(t) /\ "FIN" \in t[1].flags
  BY <1>8
<1>11. Untaken(z, d, t, <<>>)
  BY <1>6, <1>8, <1>9, <1>10 DEF Untaken
<1>12. NoData(t)
  BY <1>8 DEF NoData
<1>13. Fin(z, d, t, <<>>, FALSE)
  BY <1>1, <1>6, <1>11, <1>12 DEF Fin
<1>14. Part(o, z, d, t, <<>>, FALSE)
  BY <1>7, <1>13 DEF Part, Open
<1>15. Sound(z)
  BY <1>6, <1>7 DEF Sound
<1> QED
  BY <1>5, <1>14, <1>15 DEF x, z, t

------------------------------------------------------------------------------
(***************************************************************************)
(* A segment is handled: the direction its end sends in, where the segment *)
(* is an answer.                                                           *)
(***************************************************************************)

\* The segment announces a window, and nothing else changes.
Announced(y, c, wnd) ==
  /\ ConnOK(y) /\ y.wnd = wnd /\ y.state = c.state /\ y.una = c.una /\ y.nxt = c.nxt
  /\ y.rcv_nxt = c.rcv_nxt /\ y.send = c.send /\ y.recv = c.recv /\ y.timer = c.timer
  /\ y.retries = c.retries /\ y.need_ack = c.need_ack /\ y.closing = c.closing
  /\ y.fin_sent = c.fin_sent /\ y.peer_closed = c.peer_closed /\ y.reset = c.reset

LEMMA Announces ==
  ASSUME NEW c, ConnOK(c), NEW s \in Segment
  PROVE  Announced([c EXCEPT !.wnd = s.wnd], c, s.wnd)
<1>1. c \in Connection /\ s.wnd \in 0 .. RECEIVE_BUFFER
  BY DEF ConnOK, Segment
<1> DEFINE y == [c EXCEPT !.wnd = s.wnd]
<1>2. ConnOK(y)
  BY <1>1, CalledType
<1>3. /\ y.wnd = s.wnd /\ y.state = c.state /\ y.una = c.una /\ y.nxt = c.nxt
      /\ y.rcv_nxt = c.rcv_nxt /\ y.send = c.send /\ y.recv = c.recv /\ y.timer = c.timer
      /\ y.retries = c.retries /\ y.need_ack = c.need_ack /\ y.closing = c.closing
      /\ y.fin_sent = c.fin_sent /\ y.peer_closed = c.peer_closed /\ y.reset = c.reset
  BY <1>1 DEF Connection
<1> QED
  BY <1>2, <1>3 DEF Announced

Answer(s) == s.flags \in {{"ACK"}, {"ACK", "FIN"}}

\* A synchronised end, with what acknowledge makes of it.
LEMMA HandledFields ==
  ASSUME NEW c, ConnOK(c), NEW s \in Segment, Answer(s),
         c.state \in (Open \cup Closers) \ {"TimeWait"}
  PROVE  LET a == acknowledge(c, s.ack)
             f == accept_data(a, s.seq, s.data)
             x == Handled(c, s)
         IN  /\ x.una = a.una /\ x.nxt = c.nxt /\ x.wnd = c.wnd /\ x.retries = a.retries
             /\ x.timer = a.timer /\ x.fin_sent = c.fin_sent /\ x.closing = c.closing
             /\ x.reset = c.reset /\ x.send = a.send
             /\ x.peer_closed = (c.peer_closed \/ FinHere(f, s))
             /\ x.state = NextState(c.state, FinHere(f, s) \/ c.peer_closed,
                                    c.fin_sent /\ a.una = c.nxt)
             /\ x.recv = f.recv
             /\ x.rcv_nxt = IF FinHere(f, s) /\ ~c.peer_closed THEN Plus(f.rcv_nxt, 1)
                            ELSE f.rcv_nxt
             /\ x.need_ack \in BOOLEAN
             /\ c.need_ack \/ f.need_ack \/ (FinHere(f, s) /\ ~c.peer_closed) => x.need_ack
<1>1. "ACK" \in s.flags
  BY DEF Answer
<1>2. Handled(c, s) = Synchronised(c, s)
  <2>1. c.state \notin {"SynSent", "SynReceived"}
    BY DEF Open, Closers
  <2> QED
    BY <2>1, OthersShape
<1> DEFINE a == acknowledge(c, s.ack)
           f == accept_data(a, s.seq, s.data)
           x == Handled(c, s)
<1>3. a = IF "ACK" \in s.flags THEN acknowledge(c, s.ack) ELSE c
  BY <1>1
<1>4. /\ x.una = a.una /\ x.send = a.send /\ x.nxt = c.nxt /\ x.fin_sent = c.fin_sent
      /\ x.recv = f.recv
      /\ x.peer_closed = (c.peer_closed \/ FinHere(f, s))
      /\ x.rcv_nxt = IF FinHere(f, s) /\ ~c.peer_closed THEN Plus(f.rcv_nxt, 1)
                     ELSE f.rcv_nxt
      /\ x.state = NextState(c.state, FinHere(f, s) \/ c.peer_closed,
                             c.fin_sent /\ a.una = c.nxt)
  BY <1>2, <1>3, SynchronisedShape
<1>5. /\ x.wnd = c.wnd /\ x.closing = c.closing /\ x.reset = c.reset
      /\ x.timer = a.timer /\ x.retries = a.retries
      /\ x.need_ack \in BOOLEAN /\ (c.need_ack \/ f.need_ack => x.need_ack)
      /\ FinHere(f, s) /\ ~c.peer_closed => x.need_ack
  BY <1>2, <1>3, SynchronisedRest
<1> HIDE DEF a, f, x
<1> QED
  BY <1>4, <1>5 DEF a, f, x

\* The first answer to an end that has answered the SYN.
LEMMA HandledOpening ==
  ASSUME NEW c, ConnOK(c), NEW s \in Segment, Answer(s),
         c.state = "SynReceived", s.ack = c.nxt, c.nxt = Plus(c.una, 1)
  PROVE  LET x == Handled(c, s)
             f == accept_data(c, s.seq, s.data)
         IN  /\ x.state = "Established" /\ x.una = c.nxt /\ x.nxt = c.nxt /\ x.wnd = c.wnd
             /\ x.retries = 0 /\ x.timer = FALSE /\ x.fin_sent = c.fin_sent
             /\ x.closing = c.closing /\ x.reset = c.reset /\ x.peer_closed = c.peer_closed
             /\ \E z : /\ ConnOK(z) /\ z.state = "Established" /\ z.recv = c.recv
                       /\ z.rcv_nxt = c.rcv_nxt /\ z.peer_closed = c.peer_closed
                       /\ z.need_ack = c.need_ack /\ z.reset = c.reset
                       /\ x = accept_data(z, s.seq, s.data)
<1>1. /\ "ACK" \in s.flags /\ s.ack \in Number /\ s.seq \in Number /\ s.data \in Seq(Byte)
      /\ c.una \in Number /\ c.nxt \in Number
  BY Fields DEF Answer, Segment, ConnOK
<1> DEFINE a == acknowledge(c, s.ack)
           z == [a EXCEPT !.state = "Established"]
           x == Handled(c, s)
<1>2. x = accept_data(z, s.seq, s.data)
  BY <1>1 DEF Handled, Open, Closers
<1>3. after(s.ack, c.una)
  BY <1>1, NextNumber
<1>4. a.una = s.ack /\ a.retries = 0 /\ a.timer = FALSE
  BY <1>1, <1>3, AcknowledgeRest
<1>5. /\ ConnOK(z) /\ z.state = "Established" /\ z.nxt = c.nxt /\ z.wnd = c.wnd
      /\ z.una = a.una /\ z.timer = a.timer /\ z.retries = a.retries
      /\ z.closing = c.closing /\ z.reset = c.reset /\ z.need_ack = c.need_ack
      /\ z.recv = c.recv /\ z.rcv_nxt = c.rcv_nxt /\ z.fin_sent = c.fin_sent
      /\ z.peer_closed = c.peer_closed /\ z.send = a.send
  BY <1>1, EstablishedRest
<1> HIDE DEF a, z, x
<1>6. /\ x.state = z.state /\ x.una = z.una /\ x.nxt = z.nxt /\ x.fin_sent = z.fin_sent
      /\ x.peer_closed = z.peer_closed
  <2>1. ConnOK(z) /\ s.seq \in Number /\ s.data \in Seq(Byte)
    BY <1>1, <1>5
  <2> QED
    BY <2>1, <1>2, AcceptShape
<1>7. /\ x.wnd = z.wnd /\ x.closing = z.closing /\ x.reset = z.reset
      /\ x.timer = z.timer /\ x.retries = z.retries
  BY <1>1, <1>2, <1>5, AcceptRest
<1> QED
  BY <1>2, <1>4, <1>5, <1>6, <1>7 DEF x

\* The states where nothing of the end is left to do.
LEMMA HandledLate ==
  ASSUME NEW c, ConnOK(c), NEW s \in Segment, c.state \in {"TimeWait", "Closed"}
  PROVE  LET x == Handled(c, s) IN
         /\ x.state = c.state /\ x.una = c.una /\ x.nxt = c.nxt /\ x.wnd = c.wnd
         /\ x.retries = c.retries /\ x.fin_sent = c.fin_sent /\ x.closing = c.closing
         /\ x.reset = c.reset /\ x.peer_closed = c.peer_closed /\ x.recv = c.recv
         /\ x.rcv_nxt = c.rcv_nxt /\ x.timer = c.timer
         /\ c.need_ack => x.need_ack
<1> DEFINE x == [c EXCEPT !.need_ack = TRUE]
<1>1. c \in Connection
  BY DEF ConnOK
<1>2. Handled(c, s) = c \/ Handled(c, s) = x
  BY DEF Handled, Open, Closers
<1>3. /\ x.state = c.state /\ x.una = c.una /\ x.nxt = c.nxt /\ x.wnd = c.wnd
      /\ x.retries = c.retries /\ x.fin_sent = c.fin_sent /\ x.closing = c.closing
      /\ x.reset = c.reset /\ x.peer_closed = c.peer_closed /\ x.recv = c.recv
      /\ x.rcv_nxt = c.rcv_nxt /\ x.timer = c.timer /\ x.need_ack = TRUE
  BY <1>1 DEF Connection
<1> HIDE DEF x
<1> QED
  BY <1>2, <1>3

LEMMA HandledSound ==
  ASSUME NEW c, ConnOK(c), NEW s \in Segment, Answer(s), Sound(c),
         c.state = "SynReceived" => s.ack = c.nxt /\ c.nxt = Plus(c.una, 1)
  PROVE  Sound(Handled(c, s))
<1> DEFINE x == Handled(c, s)
<1>1. c.state \in States \ {"none", "SynSent"} /\ c.peer_closed \in BOOLEAN
  BY Fields DEF Sound, ConnOK
<1>2. CASE c.state = "SynReceived"
  <2>1. x.state = "Established" /\ x.reset = c.reset
    BY <1>2, HandledOpening
  <2> QED
    BY <2>1 DEF Sound
<1>3. CASE c.state \in {"TimeWait", "Closed"}
  <2>1. x.state = c.state /\ x.reset = c.reset /\ x.peer_closed = c.peer_closed
    BY <1>3, HandledLate
  <2> QED
    BY <2>1 DEF Sound
<1>4. CASE c.state \in (Open \cup Closers) \ {"TimeWait"}
  <2> DEFINE here == FinHere(accept_data(acknowledge(c, s.ack), s.seq, s.data), s)
             ours == c.fin_sent /\ acknowledge(c, s.ack).una = c.nxt
  <2>1. /\ x.state = NextState(c.state, here \/ c.peer_closed, ours)
        /\ x.peer_closed = (c.peer_closed \/ here) /\ x.reset = c.reset
    BY <1>4, HandledFields
  <2>2. here \in BOOLEAN /\ ours \in BOOLEAN
    BY Fields DEF FinHere, ConnOK
  <2> HIDE DEF here, ours, x
  <2>3. x.state \notin {"none", "SynSent"}
    BY <1>4, <2>1 DEF NextState, Open, Closers
  <2>4. x.state \in {"CloseWait", "Closing", "LastAck", "TimeWait", "Closed"} => x.peer_closed
    BY <1>4, <2>1, <2>2 DEF NextState, Open, Closers, Sound
  <2> QED
    BY <2>1, <2>3, <2>4 DEF Sound, x
<1> QED
  BY <1>1, <1>2, <1>3, <1>4 DEF States, Open, Closers

\* An answer to an end that may still send.
LEMMA FlowAnswer ==
  ASSUME NEW o \in Ends, NEW c, ConnOK(c), NEW d, ConnOK(d), NEW q \in Seq(Segment),
         NEW b \in Seq(Segment), NEW owes, b # <<>>, NEW n \in Nat, NEW A \in Nat,
         n <= Bytes(o), A <= n, c.state \in Open, Sender(o, c, n, A),
         Flow(o, c, d, q, b, owes),
         NEW y, Announced(y, c, Head(b).wnd), Answer(Head(b))
  PROVE  LET x == Handled(y, Head(b)) IN
         /\ x.una = Head(b).ack /\ x.state \in Open /\ Flow(o, x, d, q, Tail(b), owes)
<1> DEFINE s == Head(b)
           x == Handled(y, s)
           a == acknowledge(y, s.ack)
<1>1. s \in Segment /\ s.ack \in Number /\ s.wnd \in 0 .. RECEIVE_BUFFER
  BY TailParts DEF Segment
<1>2. /\ ConnOK(y) /\ y.una = c.una /\ y.nxt = c.nxt /\ y.state = c.state /\ y.wnd = s.wnd
      /\ y.retries = c.retries
  BY DEF Announced
<1>3. y.state \in (Open \cup Closers) \ {"TimeWait"}
  BY <1>2 DEF Open
<1>4. /\ x.una = a.una /\ x.nxt = c.nxt /\ x.wnd = s.wnd /\ x.retries = a.retries
      /\ x.state \in Open
  <2> DEFINE here == FinHere(accept_data(a, s.seq, s.data), s)
             ours == y.fin_sent /\ a.una = y.nxt
  <2>1. /\ x.una = a.una /\ x.nxt = y.nxt /\ x.wnd = y.wnd /\ x.retries = a.retries
        /\ x.state = NextState(y.state, here \/ y.peer_closed, ours)
    BY <1>1, <1>2, <1>3, HandledFields
  <2> HIDE DEF here, ours, a, x
  <2>2. x.state \in Open
    BY <1>2, <2>1 DEF NextState, Open
  <2> QED
    BY <1>2, <2>1, <2>2
<1>5. c.una \in Number /\ c.nxt \in Number /\ d.rcv_nxt \in Number
  BY Fields DEF ConnOK
<1>6. a.una = s.ack /\ a.retries = 0
  <2>1. Rising(o, c.una, b) /\ Honest(o, c, d, b) /\ c.retries = 0
    BY DEF Flow
  <2>2. Off(o, c.una) <= Off(o, s.ack) /\ Off(o, s.ack) <= Off(o, d.rcv_nxt)
    <3> DEFINE z == [una |-> s.ack, wnd |-> s.wnd, nxt |-> c.nxt]
    <3>1. z.una = s.ack /\ z.wnd = s.wnd /\ z.nxt = c.nxt
      OBVIOUS
    <3> HIDE DEF z
    <3> QED
      BY <2>1, <3>1, AnswersTail
  <2>3. Off(o, d.rcv_nxt) <= Off(o, c.nxt)
    <3>1. Mark(o, c.nxt, q, 1) <= Mark(o, c.nxt, q, Len(q) + 1)
      <4>1. Len(q) \in Nat /\ 1 \in 1 .. Len(q) + 1 /\ Len(q) + 1 \in 1 .. Len(q) + 1 /\ 1 <= Len(q) + 1
        BY JoinParts
      <4> QED
        BY <4>1 DEF Flow, Chain
    <3>2. Mark(o, c.nxt, q, 1) = Off(o, d.rcv_nxt)
      BY DEF Flow, Chain
    <3>3. Mark(o, c.nxt, q, Len(q) + 1) = Off(o, c.nxt)
      <4>1. ~(Len(q) + 1 <= Len(q))
        BY JoinParts
      <4> QED
        BY <4>1 DEF Mark
    <3> QED
      BY <3>1, <3>2, <3>3
  <2>4. Off(o, c.nxt) <= n + 1 /\ Bytes(o) \in Nat
    BY OpenOffsets, Modulus
  <2> DEFINE u == Off(o, c.una)
             k == Off(o, s.ack)
             r == Off(o, d.rcv_nxt)
             p == Off(o, c.nxt)
  <2>5. u \in Nat /\ k \in Nat /\ r \in Nat /\ p \in Nat
    BY <1>1, <1>5, OffType
  <2>6. u <= k /\ u <= Bytes(o) + 1 /\ k <= Bytes(o) + 1
    <3> HIDE DEF u, k, r, p
    <3>1. u <= k /\ k <= r /\ r <= p /\ p <= n + 1
      BY <2>2, <2>3, <2>4 DEF u, k, r, p
    <3> QED
      BY <2>4, <2>5, <3>1
  <2>7. after(s.ack, c.una) <=> u < k
    BY <1>1, <1>5, <2>6, OffAfter
  <2>8. CASE u < k
    BY <1>1, <1>2, <2>7, <2>8, AcknowledgeRest
  <2>9. CASE ~(u < k)
    <3>1. u = k
      <4> HIDE DEF u, k
      <4> QED
        BY <2>5, <2>6, <2>9
    <3>2. s.ack = c.una
      BY <1>1, <1>5, <3>1, OffSame
    <3> QED
      BY <1>1, <1>2, <2>1, <2>7, <2>9, <3>2, AcknowledgeRest
  <2> QED
    BY <2>8, <2>9
<1> HIDE DEF a, x
<1>7. /\ Rising(o, x.una, Tail(b)) /\ Honest(o, x, d, Tail(b))
      /\ Settled(o, c, d, b) => Settled(o, x, d, Tail(b))
  <2>1. Rising(o, c.una, b) /\ Honest(o, c, d, b)
    BY DEF Flow
  <2>2. x.una = Head(b).ack /\ x.wnd = Head(b).wnd /\ x.nxt = c.nxt
    BY <1>4, <1>6
  <2> HIDE DEF s
  <2> QED
    BY <2>1, <2>2, AnswersTail
<1>8. Flow(o, x, d, q, Tail(b), owes)
  BY <1>4, <1>6, <1>7 DEF Flow
<1> QED
  BY <1>4, <1>6, <1>8 DEF x

\* The first answer.
LEMMA OpenedAnswer ==
  ASSUME NEW o \in Ends, NEW c, ConnOK(c), NEW d, ConnOK(d), NEW q \in Seq(Segment),
         NEW b \in Seq(Segment), NEW owes, b # <<>>,
         c.state = "SynReceived", Opened(c, d, q, b, owes),
         NEW y, Announced(y, c, Head(b).wnd), Answer(Head(b))
  PROVE  LET x == Handled(y, Head(b)) IN
         /\ Head(b).ack = c.nxt
         /\ x.state = "Established" /\ Flow(o, x, d, q, Tail(b), owes)
<1> DEFINE s == Head(b)
           x == Handled(y, s)
           t == Tail(b)
           m == Len(t)
<1>1. /\ s \in Segment /\ s = b[1] /\ 1 \in 1 .. Len(b) /\ t \in Seq(Segment) /\ m \in Nat
      /\ \A k \in 1 .. m : k + 1 \in 1 .. Len(b) /\ t[k] = b[k + 1]
  BY TailParts
<1>2. s.ack = c.nxt /\ s.wnd = RECEIVE_BUFFER
  BY <1>1 DEF Opened
<1>3. \A k \in 1 .. m : t[k].ack = c.nxt /\ t[k].wnd = RECEIVE_BUFFER
  BY <1>1 DEF Opened
<1>4. /\ ConnOK(y) /\ y.una = c.una /\ y.nxt = c.nxt /\ y.state = c.state /\ y.wnd = s.wnd
      /\ y.retries = c.retries
  BY DEF Announced
<1>5. c.nxt = Plus(c.una, 1) /\ d.rcv_nxt = c.nxt /\ d.recv = <<>> /\ ~d.peer_closed /\ q = <<>>
  BY DEF Opened
<1>6. /\ x.state = "Established" /\ x.una = c.nxt /\ x.nxt = c.nxt /\ x.wnd = RECEIVE_BUFFER
      /\ x.retries = 0
  <2>1. ConnOK(y) /\ s \in Segment /\ Answer(s)
    BY <1>1, <1>4
  <2>2. y.state = "SynReceived" /\ s.ack = y.nxt /\ y.nxt = Plus(y.una, 1)
    BY <1>2, <1>4, <1>5
  <2>3. /\ x.state = "Established" /\ x.una = y.nxt /\ x.nxt = y.nxt /\ x.wnd = y.wnd
        /\ x.retries = 0
    BY <2>1, <2>2, HandledOpening
  <2> QED
    BY <1>2, <1>4, <2>3
<1> DEFINE p == Off(o, c.nxt)
<1>7. p \in Nat /\ c.nxt \in Number
  BY Fields, OffType DEF ConnOK
<1>8. window(d) = RECEIVE_BUFFER /\ RECEIVE_BUFFER \in Nat
  BY <1>5, Sizes DEF window
<1> HIDE DEF x, t, m, s
<1>9. \A k \in 0 .. m : Ack(o, x.una, t, k) = p /\ Wnd(x.wnd, t, k) = RECEIVE_BUFFER
  <2> TAKE k \in 0 .. m
  <2>1. k # 0 => k \in 1 .. m
    BY <1>1
  <2> QED
    BY <1>3, <1>6, <2>1 DEF Ack, Wnd
<1> HIDE DEF p
<1>10. m \in 0 .. m
  BY <1>1
<1>11. Edge(o, d) = p + RECEIVE_BUFFER /\ Off(o, d.rcv_nxt) = p
  BY <1>5, <1>8 DEF Edge, p
<1>12. Rising(o, x.una, t)
  BY <1>7, <1>9 DEF Rising, m
<1>13. Honest(o, x, d, t)
  <2>1. Off(o, x.nxt) = p
    BY <1>6 DEF p
  <2> QED
    BY <1>7, <1>8, <1>9, <1>11, <2>1 DEF Honest, m
<1>14. Settled(o, x, d, t)
  <2>1. Ack(o, x.una, t, m) = p /\ Wnd(x.wnd, t, m) = RECEIVE_BUFFER
    BY <1>9, <1>10
  <2> QED
    BY <1>8, <1>11, <2>1 DEF Settled, m
<1>15. Chain(o, Off(o, d.rcv_nxt), q, x.nxt)
  BY <1>5, <1>6, <1>7, ChainEmpty
<1>16. Flow(o, x, d, q, t, owes)
  BY <1>5, <1>6, <1>12, <1>13, <1>14, <1>15 DEF Flow
<1> QED
  BY <1>2, <1>6, <1>16 DEF x, t, s

\* An answer to an end whose FIN is not acknowledged, or is.
LEMMA FinAnswer ==
  ASSUME NEW o \in Ends, NEW c, ConnOK(c), NEW d, ConnOK(d), NEW q \in Seq(Segment),
         NEW b \in Seq(Segment), NEW owes, b # <<>>,
         c.state \in {"FinWait1", "Closing", "LastAck"}, Fin(c, d, q, b, owes),
         NEW y, Announced(y, c, Head(b).wnd), Answer(Head(b))
  PROVE  LET x == Handled(y, Head(b)) IN
         \/ /\ x.state \in {"FinWait1", "Closing", "LastAck"}
            /\ Fin(x, d, q, Tail(b), owes)
         \/ /\ x.state \in {"FinWait2", "TimeWait", "Closed"}
            /\ Done(x, d, q, Tail(b))
<1> DEFINE s == Head(b)
           x == Handled(y, s)
           t == Tail(b)
           m == Len(t)
           a == acknowledge(y, s.ack)
           here == FinHere(accept_data(a, s.seq, s.data), s)
           ours == y.fin_sent /\ a.una = y.nxt
<1>1. /\ s \in Segment /\ s = b[1] /\ 1 \in 1 .. Len(b) /\ t \in Seq(Segment) /\ m \in Nat
      /\ \A k \in 1 .. m : k + 1 \in 1 .. Len(b) /\ t[k] = b[k + 1]
      /\ \A k \in 1 .. Len(b) : k = 1 \/ k - 1 \in 1 .. m
      /\ Len(b) \in Nat
  BY TailParts
<1>2. s.ack \in Number /\ c.una \in Number /\ c.nxt \in Number
  BY <1>1, Fields DEF Segment, ConnOK
<1>3. /\ ConnOK(y) /\ y.una = c.una /\ y.nxt = c.nxt /\ y.state = c.state /\ y.wnd = s.wnd
      /\ y.retries = c.retries /\ y.fin_sent = c.fin_sent /\ y.closing = c.closing
  BY DEF Announced
<1>4. c.nxt = Plus(c.una, 1) /\ c.nxt # c.una /\ after(c.nxt, c.una) /\ ~after(c.una, c.nxt)
      /\ ~after(c.una, c.una) /\ ~after(c.nxt, c.nxt)
  BY <1>2, NextNumber DEF Fin
<1>5. /\ x.una = a.una /\ x.nxt = c.nxt /\ x.retries = a.retries /\ x.fin_sent = c.fin_sent
      /\ x.closing = c.closing /\ x.state = NextState(c.state, here \/ y.peer_closed, ours)
  <2>1. y.state \in (Open \cup Closers) \ {"TimeWait"}
    BY <1>3 DEF Open, Closers
  <2> QED
    BY <1>1, <1>3, <2>1, HandledFields
<1>6. c.fin_sent /\ c.closing /\ NoData(q)
  BY DEF Fin
<1>7. /\ a.una = IF after(s.ack, c.una) THEN s.ack ELSE c.una
      /\ a.retries = IF after(s.ack, c.una) THEN 0 ELSE c.retries
  BY <1>2, <1>3, AcknowledgeRest
<1> HIDE DEF x, t, m, a, s, here
<1>8. CASE s.ack = c.una
  <2>1. a.una = c.una /\ a.retries = c.retries /\ ~ours
    BY <1>3, <1>4, <1>7, <1>8
  <2>2. x.state \in {"FinWait1", "Closing", "LastAck"}
    <3> HIDE DEF ours
    <3> QED
      BY <1>5, <2>1 DEF NextState
  <2>3. Untaken(c, d, q, b) => Untaken(x, d, q, t)
    <3>1. x.una = c.una /\ x.retries = c.retries
      BY <1>5, <2>1
    <3>2. ASSUME Untaken(c, d, q, b), NEW k \in 1 .. Len(t)
          PROVE  t[k].ack = c.una
      <4>1. k + 1 \in 1 .. Len(b) /\ t[k] = b[k + 1]
        BY <1>1 DEF m
      <4> QED
        BY <3>2, <4>1 DEF Untaken
    <3> QED
      BY <3>1, <3>2 DEF Untaken
  <2>4. Taken(c, d, b, owes) => Taken(x, d, t, owes)
    <3> SUFFICES ASSUME Taken(c, d, b, owes)
                 PROVE  Taken(x, d, t, owes)
      OBVIOUS
    <3>1. \A k \in 1 .. m : t[k].ack \in {c.una, c.nxt}
      BY <1>1 DEF Taken
    <3>2. owes \/ \E k \in 1 .. m : t[k].ack = c.nxt
      <4> SUFFICES ASSUME ~owes
                   PROVE  \E k \in 1 .. m : t[k].ack = c.nxt
        OBVIOUS
      <4>1. PICK j \in 1 .. Len(b) : b[j].ack = c.nxt
        BY DEF Taken
      <4>2. j # 1
        BY <1>1, <1>4, <1>8, <4>1
      <4>3. j - 1 \in 1 .. m /\ (j - 1) + 1 = j
        BY <1>1, <4>2
      <4>4. t[j - 1] = b[j]
        BY <1>1, <4>3
      <4> QED
        BY <4>1, <4>3, <4>4
    <3> QED
      BY <1>5, <2>1, <3>1, <3>2 DEF Taken, m
  <2>5. Fin(x, d, q, t, owes)
    BY <1>4, <1>5, <1>6, <2>1, <2>3, <2>4 DEF Fin
  <2> QED
    BY <2>2, <2>5 DEF x, t, s
<1>9. CASE s.ack # c.una
  <2>1. Taken(c, d, b, owes) /\ s.ack = c.nxt
    <3>1. ~Untaken(c, d, q, b)
      BY <1>1, <1>9 DEF Untaken
    <3>2. Taken(c, d, b, owes)
      BY <3>1 DEF Fin
    <3> QED
      BY <1>1, <1>9, <3>2 DEF Taken
  <2>2. a.una = c.nxt /\ ours
    BY <1>3, <1>4, <1>6, <1>7, <2>1
  <2>3. x.state \in {"FinWait2", "TimeWait", "Closed"}
    <3>1. here \/ y.peer_closed \in BOOLEAN
      BY Fields, <1>3 DEF FinHere, ConnOK, here
    <3>2. x.state = NextState(c.state, here \/ y.peer_closed, TRUE)
      BY <1>5, <2>2
    <3> HIDE DEF ours
    <3> QED
      BY <3>1, <3>2 DEF NextState
  <2>4. \A k \in 1 .. m : ~after(t[k].ack, c.nxt)
    <3>1. \A k \in 1 .. m : t[k].ack \in {c.una, c.nxt}
      BY <1>1, <2>1 DEF Taken
    <3> QED
      BY <1>4, <3>1
  <2>5. Done(x, d, q, t)
    BY <1>5, <1>6, <2>1, <2>2, <2>4 DEF Done, Taken, m
  <2> QED
    BY <2>3, <2>5 DEF x, t, s
<1> QED
  BY <1>8, <1>9

LEMMA DoneAnswer ==
  ASSUME NEW o \in Ends, NEW c, ConnOK(c), NEW d, ConnOK(d), NEW q \in Seq(Segment),
         NEW b \in Seq(Segment), b # <<>>,
         c.state \in {"FinWait2", "TimeWait", "Closed"}, Done(c, d, q, b),
         NEW y, Announced(y, c, Head(b).wnd), Answer(Head(b))
  PROVE  LET x == Handled(y, Head(b)) IN
         x.state \in {"FinWait2", "TimeWait", "Closed"} /\ Done(x, d, q, Tail(b))
<1> DEFINE s == Head(b)
           x == Handled(y, s)
           t == Tail(b)
           m == Len(t)
<1>1. /\ s \in Segment /\ s = b[1] /\ 1 \in 1 .. Len(b) /\ t \in Seq(Segment) /\ m \in Nat
      /\ \A k \in 1 .. m : k + 1 \in 1 .. Len(b) /\ t[k] = b[k + 1]
  BY TailParts
<1>2. /\ ConnOK(y) /\ y.una = c.una /\ y.nxt = c.nxt /\ y.state = c.state
      /\ y.fin_sent = c.fin_sent
  BY DEF Announced
<1>3. s.ack \in Number /\ ~after(s.ack, c.una) /\ \A k \in 1 .. m : ~after(t[k].ack, c.una)
  BY <1>1 DEF Segment, Done
<1>4. /\ x.una = c.una /\ x.nxt = c.nxt /\ x.fin_sent = c.fin_sent
      /\ x.state \in {"FinWait2", "TimeWait", "Closed"}
  <2>1. CASE c.state = "FinWait2"
    <3> DEFINE a == acknowledge(y, s.ack)
               here == FinHere(accept_data(a, s.seq, s.data), s)
               ours == y.fin_sent /\ a.una = y.nxt
    <3>1. y.state \in (Open \cup Closers) \ {"TimeWait"}
      BY <1>2, <2>1 DEF Closers
    <3>2. /\ x.una = a.una /\ x.nxt = y.nxt /\ x.fin_sent = y.fin_sent
          /\ x.state = NextState(y.state, here \/ y.peer_closed, ours)
      BY <1>1, <1>2, <3>1, HandledFields
    <3>3. a.una = c.una
      BY <1>2, <1>3, AcknowledgeRest
    <3> HIDE DEF a, here, ours, x
    <3>4. x.state \in {"FinWait2", "TimeWait"}
      BY <1>2, <2>1, <3>2 DEF NextState
    <3> QED
      BY <1>2, <3>2, <3>3, <3>4
  <2>2. CASE c.state # "FinWait2"
    BY <1>1, <1>2, <2>2, HandledLate
  <2> QED
    BY <2>1, <2>2
<1> HIDE DEF x, t, m, s
<1>5. Done(x, d, q, t)
  BY <1>3, <1>4 DEF Done, m
<1> QED
  BY <1>4, <1>5 DEF x, t, s

LEMMA SenderTakes ==
  ASSUME NEW o \in Ends, NEW c, ConnOK(c), NEW d, ConnOK(d), NEW q \in Seq(Segment),
         NEW b \in Seq(Segment), NEW owes, b # <<>>, NEW n \in Nat, NEW A \in Nat,
         n <= Bytes(o), c.state \in Open => A <= n, Sender(o, c, n, A),
         Sound(c), Part(o, c, d, q, b, owes),
         NEW y, Announced(y, c, Head(b).wnd), Answer(Head(b))
  PROVE  Part(o, Handled(y, Head(b)), d, q, Tail(b), owes) /\ Sound(Handled(y, Head(b)))
<1> DEFINE x == Handled(y, Head(b))
<1>1. c.state \in States \ {"none", "SynSent"} /\ Head(b) \in Segment
  BY Fields, TailParts DEF Sound, ConnOK
<1>2. Part(o, x, d, q, Tail(b), owes)
  <2>1. CASE c.state \in Open
    <3>1. x.state \in Open /\ Flow(o, x, d, q, Tail(b), owes)
      BY <2>1, FlowAnswer DEF Part
    <3> HIDE DEF x
    <3> QED
      BY <3>1 DEF Part, Open
  <2>2. CASE c.state = "SynReceived"
    <3>1. x.state = "Established" /\ Flow(o, x, d, q, Tail(b), owes)
      BY <2>2, OpenedAnswer DEF Part
    <3> HIDE DEF x
    <3> QED
      BY <3>1 DEF Part
  <2>3. CASE c.state \in {"FinWait1", "Closing", "LastAck"}
    <3>1. \/ /\ x.state \in {"FinWait1", "Closing", "LastAck"}
             /\ Fin(x, d, q, Tail(b), owes)
          \/ /\ x.state \in {"FinWait2", "TimeWait", "Closed"}
             /\ Done(x, d, q, Tail(b))
      BY <2>3, FinAnswer DEF Part
    <3> HIDE DEF x
    <3> QED
      BY <3>1 DEF Part, Open
  <2>4. CASE c.state \in {"FinWait2", "TimeWait", "Closed"}
    <3>1. x.state \in {"FinWait2", "TimeWait", "Closed"} /\ Done(x, d, q, Tail(b))
      BY <2>4, DoneAnswer DEF Part
    <3> HIDE DEF x
    <3> QED
      BY <3>1 DEF Part, Open
  <2> QED
    BY <1>1, <2>1, <2>2, <2>3, <2>4 DEF States, Open
<1>3. Sound(x)
  <2>1. y.state = "SynReceived" => Head(b).ack = y.nxt /\ y.nxt = Plus(y.una, 1)
    <3> SUFFICES ASSUME y.state = "SynReceived"
                 PROVE  Head(b).ack = y.nxt /\ y.nxt = Plus(y.una, 1)
      OBVIOUS
    <3>1. c.state = "SynReceived" /\ y.nxt = c.nxt /\ y.una = c.una
      BY DEF Announced
    <3>2. Opened(c, d, q, b, owes)
      BY <3>1 DEF Part
    <3> QED
      BY <3>1, <3>2, OpenedAnswer DEF Opened
  <2>2. ConnOK(y) /\ Sound(y)
    BY DEF Announced, Sound
  <2> QED
    BY <1>1, <2>1, <2>2, HandledSound
<1> QED
  BY <1>2, <1>3

------------------------------------------------------------------------------
(***************************************************************************)
(* ... and the direction it receives in.                                   *)
(***************************************************************************)
Ready == {"SynReceived", "Established", "FinWait1", "FinWait2"}

\* A segment without anything new.
LEMMA TakesNothing ==
  ASSUME NEW c, ConnOK(c), NEW s \in Segment, Answer(s),
         c.state \in States \ {"none", "SynSent"},
         c.state = "SynReceived" => s.ack = c.nxt /\ c.nxt = Plus(c.una, 1),
         s.data = <<>>, "FIN" \notin s.flags \/ c.peer_closed \/ c.state = "SynReceived"
  PROVE  LET x == Handled(c, s) IN
         /\ x.recv = c.recv /\ x.rcv_nxt = c.rcv_nxt /\ x.peer_closed = c.peer_closed
         /\ x.state # "SynReceived"
<1> DEFINE x == Handled(c, s)
<1>1. s.ack \in Number /\ s.seq \in Number /\ s.data \in Seq(Byte)
  BY DEF Segment
<1>2. CASE c.state \in (Open \cup Closers) \ {"TimeWait"}
  <2> DEFINE a == acknowledge(c, s.ack)
             f == accept_data(a, s.seq, s.data)
             ours == c.fin_sent /\ a.una = c.nxt
  <2>1. /\ x.peer_closed = (c.peer_closed \/ FinHere(f, s))
        /\ x.state = NextState(c.state, FinHere(f, s) \/ c.peer_closed, ours)
        /\ x.recv = f.recv
        /\ x.rcv_nxt = IF FinHere(f, s) /\ ~c.peer_closed THEN Plus(f.rcv_nxt, 1)
                       ELSE f.rcv_nxt
    BY <1>2, HandledFields
  <2>2. ConnOK(a) /\ a.recv = c.recv /\ a.rcv_nxt = c.rcv_nxt
    BY <1>1, AcknowledgeShape
  <2> HIDE DEF a
  <2>3. f = a
    BY DEF accept_data
  <2>4. FinHere(f, s) => c.peer_closed
    BY <1>2 DEF FinHere, Open, Closers
  <2>5. c.peer_closed \in BOOLEAN /\ FinHere(f, s) \in BOOLEAN
    BY Fields DEF FinHere, ConnOK
  <2>6. x.peer_closed = c.peer_closed
    BY <2>1, <2>4, <2>5
  <2> HIDE DEF f, ours, x
  <2>7. x.state # "SynReceived"
    BY <1>2, <2>1 DEF NextState, Open, Closers
  <2> QED
    BY <2>1, <2>2, <2>3, <2>4, <2>6, <2>7 DEF x
<1>3. CASE c.state = "SynReceived"
  <2>1. PICK z : /\ ConnOK(z) /\ z.recv = c.recv /\ z.rcv_nxt = c.rcv_nxt
                 /\ z.peer_closed = c.peer_closed /\ x = accept_data(z, s.seq, s.data)
    BY <1>3, HandledOpening
  <2>2. x.state = "Established"
    BY <1>3, HandledOpening
  <2> HIDE DEF x
  <2>3. x = z
    BY <2>1 DEF accept_data
  <2> QED
    BY <2>1, <2>2, <2>3 DEF x
<1>4. CASE c.state \in {"TimeWait", "Closed"}
  BY <1>4, HandledLate
<1> QED
  BY <1>2, <1>3, <1>4 DEF States, Open, Closers

\* The FIN, in its place.
LEMMA TakesFin ==
  ASSUME NEW c, ConnOK(c), NEW s \in Segment, Answer(s),
         c.state \in {"Established", "FinWait1", "FinWait2"}, ~c.peer_closed,
         s.data = <<>>, "FIN" \in s.flags, s.seq = c.rcv_nxt
  PROVE  LET x == Handled(c, s) IN
         /\ x.recv = c.recv /\ x.rcv_nxt = Plus(c.rcv_nxt, 1) /\ x.peer_closed
         /\ x.need_ack /\ x.state \in Open \cup Closers /\ x.reset = c.reset
<1> DEFINE x == Handled(c, s)
           a == acknowledge(c, s.ack)
           f == accept_data(a, s.seq, s.data)
           ours == c.fin_sent /\ a.una = c.nxt
<1>1. s.ack \in Number /\ s.seq \in Number /\ s.data \in Seq(Byte) /\ Len(s.data) = 0
  BY DEF Segment
<1>2. c.state \in (Open \cup Closers) \ {"TimeWait"}
  BY DEF Open, Closers
<1>3. /\ x.peer_closed = (c.peer_closed \/ FinHere(f, s))
      /\ x.state = NextState(c.state, FinHere(f, s) \/ c.peer_closed, ours)
      /\ x.recv = f.recv /\ x.reset = c.reset
      /\ x.rcv_nxt = IF FinHere(f, s) /\ ~c.peer_closed THEN Plus(f.rcv_nxt, 1)
                     ELSE f.rcv_nxt
      /\ (FinHere(f, s) /\ ~c.peer_closed => x.need_ack)
  BY <1>2, HandledFields
<1>4. ConnOK(a) /\ a.recv = c.recv /\ a.rcv_nxt = c.rcv_nxt
  BY <1>1, AcknowledgeShape
<1> HIDE DEF a
<1>5. f = a
  BY <1>1, <1>4, AcceptRest
<1>6. FinHere(f, s)
  <2>1. Plus(s.seq, 0) = s.seq
    <3>1. 0 \in 0 .. SEQ
      BY Modulus
    <3>2. Plus(s.seq, 0) = IF s.seq + 0 < SEQ THEN s.seq + 0 ELSE s.seq + 0 - SEQ
      BY <1>1, <3>1, PlusValue
    <3> QED
      BY <1>1, <3>2, Modulus DEF Number
  <2> QED
    BY <1>1, <1>4, <1>5, <2>1 DEF FinHere, AtBoundary
<1>7. c.peer_closed = FALSE
  BY Fields DEF ConnOK
<1>8. x.peer_closed /\ x.need_ack
  BY <1>3, <1>6, <1>7
<1> HIDE DEF f, ours, x
<1>9. x.state \in Open \cup Closers
  <2>1. x.state = NextState(c.state, TRUE, ours)
    BY <1>3, <1>6
  <2> QED
    BY <2>1 DEF NextState, Open, Closers
<1> QED
  BY <1>3, <1>4, <1>5, <1>6, <1>7, <1>8, <1>9 DEF x

\* Data, in their place and with room for them.
LEMMA TakesData ==
  ASSUME NEW c, ConnOK(c), NEW s \in Segment, Answer(s), c.state \in Ready \cup {"CloseWait"},
         c.state = "SynReceived" => s.ack = c.nxt /\ c.nxt = Plus(c.una, 1),
         s.data # <<>>, "FIN" \notin s.flags, s.seq = c.rcv_nxt, Len(s.data) <= window(c)
  PROVE  LET x == Handled(c, s) IN
         /\ x.rcv_nxt = Plus(c.rcv_nxt, Len(s.data)) /\ window(x) = window(c) - Len(s.data)
         /\ x.peer_closed = c.peer_closed
         /\ x.need_ack /\ x.state \in Open \cup Closers /\ x.reset = c.reset
<1> DEFINE x == Handled(c, s)
<1>1. s.ack \in Number /\ s.seq \in Number /\ s.data \in Seq(Byte)
  BY DEF Segment
<1>2. CASE c.state # "SynReceived"
  <2> DEFINE a == acknowledge(c, s.ack)
             f == accept_data(a, s.seq, s.data)
             ours == c.fin_sent /\ a.una = c.nxt
  <2>1. c.state \in (Open \cup Closers) \ {"TimeWait"}
    BY <1>2 DEF Ready, Open, Closers
  <2>2. /\ x.peer_closed = (c.peer_closed \/ FinHere(f, s))
        /\ x.state = NextState(c.state, FinHere(f, s) \/ c.peer_closed, ours)
        /\ x.recv = f.recv /\ x.reset = c.reset
        /\ x.rcv_nxt = IF FinHere(f, s) /\ ~c.peer_closed THEN Plus(f.rcv_nxt, 1)
                       ELSE f.rcv_nxt
        /\ (f.need_ack => x.need_ack)
    BY <2>1, HandledFields
  <2>3. ConnOK(a) /\ a.recv = c.recv /\ a.rcv_nxt = c.rcv_nxt /\ window(a) = window(c)
    BY <1>1, AcknowledgeShape DEF window
  <2> HIDE DEF a
  <2>4. /\ f.need_ack /\ f.rcv_nxt = Plus(c.rcv_nxt, Len(s.data))
        /\ window(f) = window(c) - Len(s.data)
    BY <1>1, <2>3, AcceptRest
  <2>5. ~FinHere(f, s) /\ c.peer_closed \in BOOLEAN
    BY Fields DEF FinHere, ConnOK
  <2>6. x.peer_closed = c.peer_closed
    BY <2>2, <2>5
  <2> HIDE DEF f, ours, x
  <2>7. x.state \in Open \cup Closers
    BY <1>2, <2>2 DEF NextState, Open, Closers, Ready
  <2>8. window(x) = window(f)
    BY <2>2 DEF window
  <2> QED
    BY <2>2, <2>4, <2>5, <2>6, <2>7, <2>8 DEF x
<1>3. CASE c.state = "SynReceived"
  <2>1. PICK z : /\ ConnOK(z) /\ z.recv = c.recv /\ z.rcv_nxt = c.rcv_nxt
                 /\ z.state = "Established" /\ z.reset = c.reset
                 /\ z.peer_closed = c.peer_closed /\ x = accept_data(z, s.seq, s.data)
    <3>1. s.ack = c.nxt /\ c.nxt = Plus(c.una, 1)
      BY <1>3
    <3> QED
      BY <3>1, <1>3, HandledOpening, ZenonT(60)
  <2>2. x.state = "Established"
    BY <1>3, HandledOpening
  <2> HIDE DEF x
  <2>3. window(z) = window(c)
    BY <2>1 DEF window
  <2>4. /\ x.need_ack /\ x.rcv_nxt = Plus(c.rcv_nxt, Len(s.data))
        /\ window(x) = window(c) - Len(s.data) /\ x.reset = z.reset
    BY <1>1, <2>1, <2>3, AcceptRest
  <2>5. x.peer_closed = z.peer_closed
    BY <1>1, <2>1, AcceptShape
  <2> QED
    BY <2>1, <2>2, <2>4, <2>5 DEF x, Open
<1> QED
  BY <1>2, <1>3

LEMMA FlowTaken ==
  ASSUME NEW o \in Ends, NEW c, ConnOK(c), NEW d, ConnOK(d), NEW q \in Seq(Segment),
         NEW b \in Seq(Segment), q # <<>>, Flow(o, c, d, q, b, FALSE), Sound(d),
         NEW y, Announced(y, d, Head(q).wnd), Answer(Head(q)),
         d.state = "SynReceived" => Head(q).ack = d.nxt /\ d.nxt = Plus(d.una, 1)
  PROVE  LET x == Handled(y, Head(q)) IN Flow(o, c, x, Tail(q), b, Owes(x))
<1> DEFINE s == Head(q)
           x == Handled(y, s)
           t == Tail(q)
           r == Off(o, d.rcv_nxt)
           l == Len(s.data)
<1>1. /\ s \in Segment /\ t \in Seq(Segment) /\ s.seq \in Number /\ s.data \in Seq(Byte)
  BY TailParts DEF Segment
<1>2. /\ ConnOK(y) /\ y.una = d.una /\ y.nxt = d.nxt /\ y.state = d.state
      /\ y.rcv_nxt = d.rcv_nxt /\ y.recv = d.recv /\ y.peer_closed = d.peer_closed
      /\ y.reset = d.reset
  BY DEF Announced
<1>3. /\ d.rcv_nxt \in Number /\ c.nxt \in Number /\ window(d) \in Nat /\ c.una \in Number
      /\ window(y) = window(d) /\ d.state \in States
  BY <1>2, Fields, WindowType, Sizes DEF ConnOK, window
<1>4. ConnOK(x)
  BY <1>1, <1>2, HandledType
<1>5. /\ c.retries = 0 /\ ~d.peer_closed /\ Chain(o, r, q, c.nxt)
      /\ Rising(o, c.una, b) /\ Honest(o, c, d, b) /\ Settled(o, c, d, b)
  BY DEF Flow
<1>6. /\ s.flags = {"ACK"} /\ Off(o, s.seq) = r /\ r \in Nat /\ l \in Nat
      /\ r + l <= Off(o, c.nxt) /\ Chain(o, r + l, t, c.nxt)
  BY <1>3, <1>5, ChainTail
<1>7. s.seq = d.rcv_nxt
  BY <1>1, <1>3, <1>6, OffSame
<1>8. Off(o, c.nxt) \in Nat /\ Off(o, c.nxt) < SEQ /\ Off(o, c.nxt) <= r + window(d)
  BY <1>3, <1>5, OffType DEF Honest, Edge
<1>9. l <= window(d) /\ r + l < SEQ
  <2> DEFINE p == Off(o, c.nxt)
  <2>1. p \in Nat /\ p < SEQ /\ p <= r + window(d) /\ r + l <= p
    BY <1>6, <1>8
  <2> HIDE DEF p, r, l
  <2> QED
    BY <1>3, <1>6, <2>1, Modulus
<1>10. d.state \in Ready \cup {"CloseWait"}
  BY <1>3, <1>5 DEF Sound, Ready, States
<1>11. "FIN" \notin s.flags
  BY <1>6
<1> HIDE DEF x, t
<1>12. CASE s.data = <<>>
  <2>1. x.recv = d.recv /\ x.rcv_nxt = d.rcv_nxt /\ x.peer_closed = d.peer_closed
    <3>1. y.state \in States \ {"none", "SynSent"}
      BY <1>2, <1>3 DEF Sound
    <3> QED
      BY <1>1, <1>2, <1>11, <1>12, <3>1, TakesNothing DEF x
  <2>2. window(x) = window(d) /\ Edge(o, x) = Edge(o, d)
    BY <2>1 DEF window, Edge
  <2>3. l = 0 /\ r + l = r
    <3>1. l = 0
      BY <1>12
    <3> HIDE DEF l, r
    <3> QED
      BY <1>6, <3>1
  <2>4. Chain(o, Off(o, x.rcv_nxt), t, c.nxt)
    BY <1>6, <2>1, <2>3
  <2>5. Honest(o, c, x, b) /\ Settled(o, c, x, b)
    BY <1>5, <2>1, <2>2 DEF Honest, Settled
  <2> QED
    BY <1>5, <2>1, <2>4, <2>5 DEF Flow, x, t
<1>13. CASE s.data # <<>>
  <2>1. /\ x.rcv_nxt = Plus(d.rcv_nxt, l) /\ window(x) = window(d) - l
        /\ x.peer_closed = d.peer_closed
        /\ x.need_ack /\ x.state \in Open \cup Closers /\ x.reset = d.reset
    <3>1. y.state \in Ready \cup {"CloseWait"} /\ s.seq = y.rcv_nxt /\ l <= window(y)
      BY <1>2, <1>3, <1>7, <1>9, <1>10
    <3> QED
      BY <1>1, <1>2, <1>3, <1>11, <1>13, <3>1, TakesData DEF x
  <2>2. Owes(x)
    BY <2>1 DEF Owes, Sound
  <2>3. Off(o, x.rcv_nxt) = r + l
    <3> HIDE DEF l
    <3> QED
      BY <1>3, <1>6, <1>9, <2>1, OffPlus DEF r
  <2>4. Edge(o, x) = Edge(o, d)
    <3> HIDE DEF r, l
    <3>1. Edge(o, x) = r + l + (window(d) - l) /\ Edge(o, d) = r + window(d)
      BY <2>1, <2>3 DEF Edge, r
    <3> QED
      BY <1>3, <1>6, <3>1
  <2>5. Honest(o, c, x, b)
    <3>1. r <= r + l /\ Edge(o, d) <= Edge(o, x)
      <4>1. Edge(o, d) = r + window(d)
        BY DEF Edge
      <4> HIDE DEF r, l
      <4> QED
        BY <1>3, <1>6, <2>4, <4>1
    <3> HIDE DEF l
    <3> QED
      BY <1>4, <1>5, <2>3, <3>1, AnswersAhead DEF r
  <2>6. Chain(o, Off(o, x.rcv_nxt), t, c.nxt)
    BY <1>6, <2>3
  <2> QED
    BY <1>5, <2>1, <2>2, <2>5, <2>6 DEF Flow, x, t
<1> QED
  BY <1>12, <1>13

LEMMA FinTaken ==
  ASSUME NEW c, ConnOK(c), NEW d, ConnOK(d), NEW q \in Seq(Segment),
         NEW b \in Seq(Segment), q # <<>>, Fin(c, d, q, b, FALSE), Sound(d),
         NEW y, Announced(y, d, Head(q).wnd), Answer(Head(q)),
         d.state = "SynReceived" => Head(q).ack = d.nxt /\ d.nxt = Plus(d.una, 1)
  PROVE  LET x == Handled(y, Head(q)) IN Fin(c, x, Tail(q), b, Owes(x))
<1> DEFINE s == Head(q)
           x == Handled(y, s)
           t == Tail(q)
           m == Len(t)
<1>1. /\ s \in Segment /\ t \in Seq(Segment) /\ s = q[1] /\ m \in Nat
      /\ \A k \in 1 .. m : k + 1 \in 1 .. Len(q) /\ t[k] = q[k + 1]
      /\ 1 \in 1 .. Len(q) /\ Len(q) \in Nat /\ m = Len(q) - 1
  BY TailParts
<1>2. /\ ConnOK(y) /\ y.una = d.una /\ y.nxt = d.nxt /\ y.state = d.state
      /\ y.rcv_nxt = d.rcv_nxt /\ y.recv = d.recv /\ y.peer_closed = d.peer_closed
      /\ y.reset = d.reset
  BY DEF Announced
<1>3. d.state \in States \ {"none", "SynSent"} /\ d.peer_closed \in BOOLEAN
  BY Fields DEF Sound, ConnOK
<1>4. /\ c.fin_sent /\ c.closing /\ c.nxt = Plus(c.una, 1) /\ NoData(q)
      /\ Untaken(c, d, q, b) \/ Taken(c, d, b, FALSE)
  BY DEF Fin
<1>5. s.data = <<>> /\ NoData(t)
  BY <1>1, <1>4 DEF NoData
<1> HIDE DEF x, t, m, s
<1>6. CASE "FIN" \notin s.flags \/ d.peer_closed \/ d.state = "SynReceived"
  <2>1. /\ x.recv = d.recv /\ x.rcv_nxt = d.rcv_nxt /\ x.peer_closed = d.peer_closed
        /\ x.state # "SynReceived"
    BY <1>1, <1>2, <1>3, <1>5, <1>6, TakesNothing DEF x, s
  <2>2. Taken(c, d, b, FALSE) => Taken(c, x, b, Owes(x))
    BY <2>1 DEF Taken
  <2>3. ASSUME Untaken(c, d, q, b)
        PROVE  Untaken(c, x, t, b)
    <3>1. c.retries = 0 \/ \E k \in 1 .. m : "FIN" \in t[k].flags
      <4> SUFFICES ASSUME c.retries # 0
                   PROVE  \E k \in 1 .. m : "FIN" \in t[k].flags
        OBVIOUS
      <4>1. d.state # "SynReceived" /\ ~d.peer_closed
        BY <2>3 DEF Untaken
      <4>2. PICK j \in 1 .. Len(q) : "FIN" \in q[j].flags
        BY <2>3 DEF Untaken
      <4>3. j # 1
        BY <1>1, <1>6, <4>1, <4>2
      <4>4. j - 1 \in 1 .. m /\ (j - 1) + 1 = j
        BY <1>1, <4>3
      <4>5. t[j - 1] = q[j]
        BY <1>1, <4>4
      <4> QED
        BY <4>2, <4>4, <4>5
    <3>2. \A k \in 1 .. m : "FIN" \in t[k].flags => t[k].seq = c.una
      BY <1>1, <2>3 DEF Untaken
    <3> QED
      BY <2>1, <2>3, <3>1, <3>2 DEF Untaken, m
  <2> QED
    BY <1>4, <1>5, <2>2, <2>3 DEF Fin, x, t, s
<1>7. CASE "FIN" \in s.flags /\ ~d.peer_closed /\ d.state # "SynReceived"
  <2>1. Untaken(c, d, q, b)
    BY <1>4, <1>7 DEF Taken
  <2>2. s.seq = d.rcv_nxt /\ d.rcv_nxt = c.una
    BY <1>1, <1>7, <2>1 DEF Untaken
  <2>3. d.state \in {"Established", "FinWait1", "FinWait2"}
    BY <1>3, <1>7 DEF Sound, States
  <2>4. /\ x.recv = d.recv /\ x.rcv_nxt = Plus(d.rcv_nxt, 1) /\ x.peer_closed
        /\ x.need_ack /\ x.state \in Open \cup Closers /\ x.reset = d.reset
    BY <1>1, <1>2, <1>5, <1>7, <2>2, <2>3, TakesFin DEF x, s
  <2>5. Owes(x)
    BY <2>4 DEF Owes, Sound
  <2>6. Taken(c, x, b, Owes(x))
    BY <1>4, <2>1, <2>2, <2>4, <2>5 DEF Taken, Untaken
  <2> QED
    BY <1>4, <1>5, <2>6 DEF Fin, x, t, s
<1> QED
  BY <1>6, <1>7

LEMMA DoneTaken ==
  ASSUME NEW c, ConnOK(c), NEW d, ConnOK(d), NEW q \in Seq(Segment),
         NEW b \in Seq(Segment), q # <<>>, Done(c, d, q, b), Sound(d),
         NEW y, Announced(y, d, Head(q).wnd), Answer(Head(q)),
         d.state = "SynReceived" => Head(q).ack = d.nxt /\ d.nxt = Plus(d.una, 1)
  PROVE  Done(c, Handled(y, Head(q)), Tail(q), b)
<1> DEFINE s == Head(q)
           x == Handled(y, s)
           t == Tail(q)
<1>1. /\ s \in Segment /\ t \in Seq(Segment) /\ s = q[1]
      /\ \A k \in 1 .. Len(t) : k + 1 \in 1 .. Len(q) /\ t[k] = q[k + 1]
      /\ 1 \in 1 .. Len(q)
  BY TailParts
<1>2. /\ ConnOK(y) /\ y.una = d.una /\ y.nxt = d.nxt /\ y.state = d.state
      /\ y.rcv_nxt = d.rcv_nxt /\ y.recv = d.recv /\ y.peer_closed = d.peer_closed
  BY DEF Announced
<1>3. d.state \in States \ {"none", "SynSent"}
  BY Fields DEF Sound, ConnOK
<1>4. s.data = <<>> /\ NoData(t) /\ d.peer_closed /\ y.peer_closed
  BY <1>1, <1>2 DEF NoData, Done
<1> HIDE DEF x, t, s
<1>5. /\ x.recv = d.recv /\ x.rcv_nxt = d.rcv_nxt /\ x.peer_closed = d.peer_closed
  <2>1. "FIN" \notin s.flags \/ y.peer_closed \/ y.state = "SynReceived"
    BY <1>4
  <2>2. y.state \in States \ {"none", "SynSent"}
    BY <1>2, <1>3
  <2>3. y.state = "SynReceived" => s.ack = y.nxt /\ y.nxt = Plus(y.una, 1)
    BY <1>2 DEF s
  <2>4. Answer(s)
    BY DEF s
  <2>5. x.recv = y.recv /\ x.rcv_nxt = y.rcv_nxt /\ x.peer_closed = y.peer_closed
    BY <1>1, <1>2, <1>4, <2>1, <2>2, <2>3, <2>4, TakesNothing DEF x
  <2> QED
    BY <1>2, <2>5
<1>6. Done(c, x, t, b)
  BY <1>4, <1>5 DEF Done
<1> QED
  BY <1>6 DEF x, t, s

LEMMA ReceiverTakes ==
  ASSUME NEW o \in Ends, NEW c, ConnOK(c), NEW d, ConnOK(d), NEW q \in Seq(Segment),
         NEW b \in Seq(Segment), q # <<>>, Part(o, c, d, q, b, FALSE), Sound(d),
         NEW y, Announced(y, d, Head(q).wnd), Answer(Head(q)),
         d.state = "SynReceived" => Head(q).ack = d.nxt /\ d.nxt = Plus(d.una, 1)
  PROVE  LET x == Handled(y, Head(q)) IN Part(o, c, x, Tail(q), b, Owes(x))
<1> DEFINE x == Handled(y, Head(q))
<1>1. c.state \in Open => Flow(o, c, x, Tail(q), b, Owes(x))
  BY FlowTaken DEF Part
<1>2. c.state # "SynReceived"
  BY DEF Part, Opened
<1>3. c.state \in {"FinWait1", "Closing", "LastAck"} => Fin(c, x, Tail(q), b, Owes(x))
  BY FinTaken DEF Part
<1>4. c.state \in {"FinWait2", "TimeWait", "Closed"} => Done(c, x, Tail(q), b)
  BY DoneTaken DEF Part
<1> HIDE DEF x
<1> QED
  BY <1>1, <1>2, <1>3, <1>4 DEF Part, x
==============================================================================
