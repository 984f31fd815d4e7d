------------------------------ MODULE TcpProofs ------------------------------
(***************************************************************************)
(* What a stream promises, for any number of bytes, segment and buffer     *)
(* sizes, retries and faults, and any numbers the two ends start from.     *)
(*                                                                         *)
(* The argument goes by direction: an end o sends, the other end receives. *)
(* Numbers on the wire are read as offsets from the number o started with: *)
(* its SYN has offset 0 and its byte k offset k.                           *)
(***************************************************************************)
EXTENDS Tcp, SequenceTheorems, TLAPS

(***************************************************************************)
(* Numbers.                                                                *)
(***************************************************************************)
LEMMA Modulus ==
  /\ SEQ \in Nat /\ SEQ >= 5
  /\ \A e \in Ends : Bytes(e) \in Nat /\ 2 * (Bytes(e) + 2) < SEQ
BY TcpAssumption DEF Bytes, Ends

LEMMA Remainder == \A x \in Int : x % SEQ \in Number
BY Modulus DEF Number

LEMMA Around ==
  ASSUME NEW x \in Int
  PROVE  /\ 0 <= x /\ x < SEQ => x % SEQ = x
         /\ SEQ <= x /\ x < 2 * SEQ => x % SEQ = x - SEQ
         /\ -SEQ <= x /\ x < 0 => x % SEQ = x + SEQ
BY Modulus

LEMMA MinusValue ==
  ASSUME NEW a \in Number, NEW b \in Number
  PROVE  Minus(a, b) = IF a >= b THEN a - b ELSE a - b + SEQ
<1>1. SEQ \in Nat /\ a \in 0 .. SEQ - 1 /\ b \in 0 .. SEQ - 1
  BY Modulus DEF Number
<1>2. a - b \in Int /\ -SEQ <= a - b /\ a - b < SEQ
  BY <1>1
<1> QED
  BY <1>1, <1>2, Around DEF Minus

LEMMA PlusType ==
  ASSUME NEW a \in Number, NEW n \in Int
  PROVE  Plus(a, n) \in Number
BY Remainder DEF Plus, Number

LEMMA PlusValue ==
  ASSUME NEW a \in Number, NEW n \in 0 .. SEQ
  PROVE  Plus(a, n) = IF a + n < SEQ THEN a + n ELSE a + n - SEQ
<1>1. SEQ \in Nat /\ a \in 0 .. SEQ - 1 /\ n \in 0 .. SEQ
  BY Modulus DEF Number
<1>2. a + n \in Int /\ 0 <= a + n /\ a + n < 2 * SEQ
  BY <1>1
<1> QED
  BY <1>1, <1>2, Around DEF Plus

\* A number that comes after another is not the same.
LEMMA AfterDiffers ==
  ASSUME NEW a \in Number, NEW b \in Number, after(a, b)
  PROVE  a # b
<1>1. Minus(b, a) >= SEQ \div 2
  BY DEF after, before
<1>2. SEQ \div 2 \in Int /\ SEQ \div 2 > 0
  BY Modulus
<1>3. a = b => Minus(b, a) = 0
  <2>1. a = b => b >= a /\ b - a = 0
    BY Modulus DEF Number
  <2> QED
    BY <2>1, MinusValue
<1> QED
  BY <1>1, <1>2, <1>3

------------------------------------------------------------------------------
(***************************************************************************)
(* Types.                                                                  *)
(***************************************************************************)
ConnOK(c) ==
  c \in Connection /\ Len(c.recv) <= RECEIVE_BUFFER /\ Len(c.send) <= SEND_BUFFER

\* The fields of a connection.
LEMMA Fields ==
  ASSUME NEW c \in Connection
  PROVE  /\ c.state \in States /\ c.una \in Number /\ c.nxt \in Number
         /\ c.wnd \in 0 .. RECEIVE_BUFFER /\ c.rcv_nxt \in Number
         /\ c.send \in Seq(Byte) /\ c.recv \in Seq(Byte)
         /\ Len(c.send) \in Nat /\ Len(c.recv) \in Nat
         /\ c.timer \in BOOLEAN /\ c.retries \in 0 .. MAX_RETRIES
         /\ c.need_ack \in BOOLEAN /\ c.closing \in BOOLEAN /\ c.fin_sent \in BOOLEAN
         /\ c.peer_closed \in BOOLEAN /\ c.reset \in BOOLEAN
BY DEF Connection

LEMMA Sizes ==
  /\ MSS \in Nat \ {0} /\ RECEIVE_BUFFER \in Nat /\ SEND_BUFFER \in Nat \ {0}
  /\ MAX_RETRIES \in Nat /\ MaxFaults \in Nat
  /\ Client # Server /\ ClientIss \in Number /\ ServerIss \in Number
BY TcpAssumption DEF Number

LEMMA InFlightType ==
  ASSUME NEW c \in Connection
  PROVE  in_flight(c) \in Number
<1>1. c.nxt \in Int /\ c.una \in Int
  BY Fields DEF Number
<1>2. c.nxt - c.una \in Int
  BY <1>1
<1> QED
  BY <1>2, Remainder DEF in_flight, Minus

\* What may leave lies in the queue, behind what is in flight.
LEMMA SendableType ==
  ASSUME NEW c \in Connection
  PROVE  /\ sendable(c) \in Nat
         /\ sendable(c) > 0 => /\ in_flight(c) + sendable(c) <= Len(c.send)
                               /\ c.state \in Open
<1>1. in_flight(c) \in Nat /\ Len(c.send) \in Nat /\ c.wnd \in Nat
  BY InFlightType, Fields, Modulus, Sizes DEF Number
<1> QED
  BY <1>1 DEF sendable, Smaller, NotBelow0

LEMMA WindowType ==
  ASSUME NEW c, ConnOK(c)
  PROVE  window(c) \in 0 .. RECEIVE_BUFFER
BY Fields, Sizes DEF ConnOK, window

LEMMA NewType ==
  ASSUME NEW state \in States
  PROVE  /\ ConnOK(NewConnection(state))
         /\ NewConnection(state).state = state
<1>1. 0 \in Number /\ <<>> \in Seq(Byte) /\ Len(<<>>) = 0
  BY Modulus DEF Number
<1>2. 0 \in 0 .. RECEIVE_BUFFER /\ 0 \in 0 .. MAX_RETRIES /\ 0 <= SEND_BUFFER
  BY Sizes
<1> QED
  BY <1>1, <1>2 DEF ConnOK, NewConnection, Connection

LEMMA NoneType == ConnOK(NoConnection) /\ NoConnection.state = "none"
BY NewType DEF NoConnection, States

------------------------------------------------------------------------------
\* What an acknowledgement changes.
LEMMA AcknowledgeShape ==
  ASSUME NEW c, ConnOK(c), NEW ack \in Number
  PROVE  /\ ConnOK(acknowledge(c, ack))
         /\ acknowledge(c, ack).state = c.state
         /\ acknowledge(c, ack).nxt = c.nxt
         /\ acknowledge(c, ack).recv = c.recv
         /\ acknowledge(c, ack).rcv_nxt = c.rcv_nxt
         /\ acknowledge(c, ack).peer_closed = c.peer_closed
         /\ acknowledge(c, ack).fin_sent = c.fin_sent
         /\ Len(acknowledge(c, ack).send) <= Len(c.send)
<1> DEFINE d == acknowledge(c, ack)
<1>0. c \in Connection
  BY DEF ConnOK
<1>1. CASE ~after(ack, c.una)
  <2>1. d = c
    BY <1>1 DEF acknowledge
  <2> QED
    BY <2>1, <1>0, Fields
<1>2. CASE after(ack, c.una)
  <2> DEFINE taken == Smaller(AckedBytes(c, ack), Len(c.send))
             rest  == SubSeq(c.send, taken + 1, Len(c.send))
  <2>1. Minus(ack, c.una) \in Nat \ {0}
    <3>1. ack # c.una
      BY <1>0, <1>2, Fields, AfterDiffers
    <3>2. /\ ack \in 0 .. SEQ - 1 /\ c.una \in 0 .. SEQ - 1 /\ SEQ \in Nat
          /\ Minus(ack, c.una) = IF ack >= c.una THEN ack - c.una ELSE ack - c.una + SEQ
      BY <1>0, Fields, MinusValue, Modulus DEF Number
    <3> QED
      BY <3>1, <3>2
  <2>2. taken \in Nat /\ taken <= Len(c.send) /\ Len(c.send) \in Nat
    <3>1. AckedBytes(c, ack) \in Nat
      BY <2>1 DEF AckedBytes
    <3> QED
      BY <1>0, <3>1, Fields DEF Smaller
  <2> HIDE DEF taken
  <2>3. rest \in Seq(Byte) /\ Len(rest) = Len(c.send) - taken
    <3>1. \A i \in taken + 1 .. Len(c.send) : c.send[i] \in Byte
      BY <1>0, <2>2, Fields, ElementOfSeq
    <3>2. taken + 1 \in Int /\ Len(c.send) \in Int
      BY <2>2
    <3>3. /\ rest \in Seq(Byte)
          /\ Len(rest) = IF taken + 1 <= Len(c.send) THEN Len(c.send) - (taken + 1) + 1 ELSE 0
      BY <3>1, <3>2, SubSeqProperties
    <3> QED
      BY <2>2, <3>3
  <2>4. d = [c EXCEPT !.send = rest, !.una = ack, !.retries = 0, !.timer = FALSE]
    BY <1>2 DEF acknowledge, taken
  <2> HIDE DEF rest, d
  <2>5. 0 \in 0 .. MAX_RETRIES
    BY Sizes
  <2>6. /\ d \in Connection /\ d.send = rest /\ d.recv = c.recv
        /\ d.state = c.state /\ d.nxt = c.nxt /\ d.rcv_nxt = c.rcv_nxt
        /\ d.peer_closed = c.peer_closed /\ d.fin_sent = c.fin_sent
    BY <1>0, <2>3, <2>4, <2>5 DEF Connection
  <2>7. Len(rest) <= Len(c.send) /\ Len(rest) <= SEND_BUFFER
    BY <2>2, <2>3, Sizes DEF ConnOK
  <2> QED
    BY <2>6, <2>7 DEF ConnOK, d
<1> QED
  BY <1>1, <1>2

LEMMA SmallerShape ==
  ASSUME NEW x \in Nat, NEW y \in Nat
  PROVE  Smaller(x, y) \in Nat /\ Smaller(x, y) <= x /\ Smaller(x, y) <= y
BY DEF Smaller

\* What accepting data changes.
LEMMA AcceptShape ==
  ASSUME NEW c, ConnOK(c), NEW seq \in Number, NEW data \in Seq(Byte)
  PROVE  LET d == accept_data(c, seq, data) IN
         /\ ConnOK(d)
         /\ d.state = c.state /\ d.una = c.una /\ d.nxt = c.nxt /\ d.send = c.send
         /\ d.fin_sent = c.fin_sent /\ d.peer_closed = c.peer_closed
         /\ \/ d.recv = c.recv /\ d.rcv_nxt = c.rcv_nxt
            \/ /\ data # <<>> /\ seq = c.rcv_nxt
               /\ \E k \in 0 .. Len(data) :
                    /\ d.recv = c.recv \o SubSeq(data, 1, k)
                    /\ d.rcv_nxt = Plus(c.rcv_nxt, k)
<1> DEFINE d == accept_data(c, seq, data)
<1>0. c \in Connection
  BY DEF ConnOK
<1>1. CASE data = <<>>
  <2>1. d = c
    BY <1>1 DEF accept_data
  <2> QED
    BY <2>1, <1>0, Fields
<1>2. CASE data # <<>> /\ ~InOrder(c, seq)
  <2>1. d = [c EXCEPT !.need_ack = TRUE]
    BY <1>2 DEF accept_data
  <2> HIDE DEF d
  <2>2. /\ d \in Connection /\ d.state = c.state /\ d.una = c.una /\ d.nxt = c.nxt
        /\ d.send = c.send /\ d.fin_sent = c.fin_sent /\ d.peer_closed = c.peer_closed
        /\ d.recv = c.recv /\ d.rcv_nxt = c.rcv_nxt
    BY <1>0, <2>1 DEF Connection
  <2> QED
    BY <2>2 DEF ConnOK, d
<1>3. CASE data # <<>> /\ InOrder(c, seq)
  <2> DEFINE k    == Fitting(c, data)
             more == SubSeq(data, 1, k)
  <2>1. /\ k \in 0 .. Len(data) /\ Len(data) \in Nat /\ Len(c.recv) \in Nat
        /\ k + Len(c.recv) <= RECEIVE_BUFFER
    <3>1. window(c) \in Nat /\ window(c) = RECEIVE_BUFFER - Len(c.recv)
      BY WindowType, Sizes DEF window
    <3>2. Len(data) \in Nat /\ Len(c.recv) \in Nat /\ RECEIVE_BUFFER \in Nat
      BY <1>0, Fields, Sizes
    <3>3. k = Smaller(Len(data), window(c))
      BY DEF Fitting
    <3>4. k \in Nat /\ k <= Len(data) /\ k <= window(c)
      BY <3>1, <3>2, <3>3, SmallerShape
    <3> HIDE DEF k
    <3> QED
      BY <3>1, <3>2, <3>4
  <2> HIDE DEF k
  <2>2. more \in Seq(Byte) /\ Len(more) = k
    <3>1. \A i \in 1 .. k : data[i] \in Byte
      BY <2>1, ElementOfSeq
    <3>2. 1 \in Int /\ k \in Int
      BY <2>1
    <3>3. more \in Seq(Byte) /\ Len(more) = IF 1 <= k THEN k - 1 + 1 ELSE 0
      BY <3>1, <3>2, SubSeqProperties
    <3> QED
      BY <2>1, <3>3
  <2>3. d = [c EXCEPT !.recv = c.recv \o more, !.rcv_nxt = Plus(c.rcv_nxt, k),
                      !.need_ack = TRUE]
    BY <1>3 DEF accept_data, k
  <2> HIDE DEF more, d
  <2>4. c.recv \o more \in Seq(Byte) /\ Len(c.recv \o more) <= RECEIVE_BUFFER
    <3>1. /\ c.recv \o more \in Seq(Byte)
          /\ Len(c.recv \o more) = Len(c.recv) + Len(more)
      BY <1>0, <2>2, Fields, ConcatProperties
    <3> QED
      BY <2>1, <2>2, <3>1
  <2>5. Plus(c.rcv_nxt, k) \in Number
    BY <1>0, <2>1, Fields, PlusType
  <2>6. /\ d \in Connection /\ d.state = c.state /\ d.una = c.una /\ d.nxt = c.nxt
        /\ d.send = c.send /\ d.fin_sent = c.fin_sent /\ d.peer_closed = c.peer_closed
        /\ d.recv = c.recv \o more /\ d.rcv_nxt = Plus(c.rcv_nxt, k)
    BY <1>0, <2>3, <2>4, <2>5 DEF Connection
  <2> QED
    BY <1>3, <2>1, <2>4, <2>6 DEF ConnOK, InOrder, d, more
<1> QED
  BY <1>1, <1>2, <1>3

\* What a segment changes that is neither of the two.
LEMMA SynchronisedType ==
  ASSUME NEW c, ConnOK(c), NEW s \in Segment
  PROVE  ConnOK(Synchronised(c, s))
<1>0. s.ack \in Number /\ s.seq \in Number /\ s.data \in Seq(Byte)
  BY DEF Segment
<1> DEFINE a == IF "ACK" \in s.flags THEN acknowledge(c, s.ack) ELSE c
           b == accept_data(a, s.seq, s.data)
           d == IF FinHere(b, s) /\ ~b.peer_closed
                THEN [b EXCEPT !.peer_closed = TRUE, !.rcv_nxt = Plus(@, 1), !.need_ack = TRUE]
                ELSE b
           t == NextState(d.state, FinHere(b, s) \/ d.peer_closed, d.fin_sent /\ d.una = d.nxt)
<1>1. ConnOK(a)
  BY <1>0, AcknowledgeShape
<1> HIDE DEF a
<1>2. ConnOK(b)
  BY <1>0, <1>1, AcceptShape
<1> HIDE DEF b
<1>3. ConnOK(d)
  <2>1. b \in Connection /\ Plus(b.rcv_nxt, 1) \in Number
    BY <1>2, Fields, PlusType DEF ConnOK
  <2> DEFINE x == [b EXCEPT !.peer_closed = TRUE, !.rcv_nxt = Plus(@, 1), !.need_ack = TRUE]
  <2>2. x \in Connection /\ x.recv = b.recv /\ x.send = b.send
    BY <2>1 DEF Connection
  <2> QED
    BY <1>2, <2>2 DEF ConnOK
<1>4. Synchronised(c, s) = [d EXCEPT !.state = t]
  BY DEF Synchronised, a, b
<1> HIDE DEF d
<1>5. t \in States
  BY <1>3 DEF NextState, States, ConnOK, Connection
<1> HIDE DEF t
<1> DEFINE y == [d EXCEPT !.state = t]
<1>6. y \in Connection /\ y.recv = d.recv /\ y.send = d.send
  BY <1>3, <1>5 DEF ConnOK, Connection
<1> QED
  BY <1>3, <1>4, <1>6 DEF ConnOK

LEMMA HandledType ==
  ASSUME NEW c, ConnOK(c), NEW s \in Segment
  PROVE  ConnOK(Handled(c, s))
<1>0. s.ack \in Number /\ s.seq \in Number /\ s.data \in Seq(Byte)
  BY DEF Segment
<1>1. c \in Connection /\ Plus(s.seq, 1) \in Number
  BY <1>0, PlusType DEF ConnOK
<1>2. \A state \in States, seq \in Number : 
        /\ ConnOK([c EXCEPT !.rcv_nxt = seq, !.state = state, !.need_ack = TRUE])
        /\ ConnOK([c EXCEPT !.rcv_nxt = seq])
  <2> SUFFICES ASSUME NEW state \in States, NEW seq \in Number
               PROVE  /\ ConnOK([c EXCEPT !.rcv_nxt = seq, !.state = state, !.need_ack = TRUE])
                      /\ ConnOK([c EXCEPT !.rcv_nxt = seq])
    OBVIOUS
  <2> DEFINE x == [c EXCEPT !.rcv_nxt = seq, !.state = state, !.need_ack = TRUE]
             y == [c EXCEPT !.rcv_nxt = seq]
  <2>1. x \in Connection /\ x.recv = c.recv /\ x.send = c.send
    BY <1>1 DEF Connection
  <2>2. y \in Connection /\ y.recv = c.recv /\ y.send = c.send
    BY <1>1 DEF Connection
  <2> QED
    BY <2>1, <2>2 DEF ConnOK
<1>3. \A d : ConnOK(d) => /\ ConnOK([d EXCEPT !.state = "Established", !.need_ack = TRUE])
                          /\ ConnOK([d EXCEPT !.state = "Established"])
                          /\ ConnOK([d EXCEPT !.need_ack = TRUE])
  <2> SUFFICES ASSUME NEW d, ConnOK(d)
               PROVE  /\ ConnOK([d EXCEPT !.state = "Established", !.need_ack = TRUE])
                      /\ ConnOK([d EXCEPT !.state = "Established"])
                      /\ ConnOK([d EXCEPT !.need_ack = TRUE])
    OBVIOUS
  <2> DEFINE x == [d EXCEPT !.state = "Established", !.need_ack = TRUE]
             y == [d EXCEPT !.state = "Established"]
             z == [d EXCEPT !.need_ack = TRUE]
  <2>0. d \in Connection /\ "Established" \in States
    BY DEF ConnOK, States
  <2>1. x \in Connection /\ x.recv = d.recv /\ x.send = d.send
    BY <2>0 DEF Connection
  <2>2. y \in Connection /\ y.recv = d.recv /\ y.send = d.send
    BY <2>0 DEF Connection
  <2>3. z \in Connection /\ z.recv = d.recv /\ z.send = d.send
    BY <2>0 DEF Connection
  <2> QED
    BY <2>1, <2>2, <2>3 DEF ConnOK
<1>4. CASE c.state = "SynSent" /\ AnswersUs(c, s)
  <2>1. ConnOK(acknowledge([c EXCEPT !.rcv_nxt = Plus(s.seq, 1)], s.ack))
    BY <1>0, <1>1, <1>2, AcknowledgeShape DEF States
  <2>2. Handled(c, s) = [acknowledge([c EXCEPT !.rcv_nxt = Plus(s.seq, 1)], s.ack)
                           EXCEPT !.state = "Established", !.need_ack = TRUE]
    BY <1>4 DEF Handled, Open, Closers
  <2> QED
    BY <1>3, <2>1, <2>2
<1>5. CASE c.state = "SynSent" /\ ~AnswersUs(c, s)
  <2>1. "SynReceived" \in States
    BY DEF States
  <2>2. Handled(c, s) = c \/ Handled(c, s) = [c EXCEPT !.rcv_nxt = Plus(s.seq, 1),
                                              !.state = "SynReceived", !.need_ack = TRUE]
    BY <1>5 DEF Handled, Open, Closers
  <2> QED
    BY <1>1, <1>2, <2>1, <2>2
<1>6. CASE c.state = "SynReceived"
  <2> DEFINE d == [acknowledge(c, s.ack) EXCEPT !.state = "Established"]
  <2>1. ConnOK(d)
    BY <1>0, <1>3, AcknowledgeShape
  <2>2. Handled(c, s) = c \/ Handled(c, s) = accept_data(d, s.seq, s.data)
    BY <1>6 DEF Handled, Open, Closers
  <2> HIDE DEF d
  <2> QED
    BY <1>0, <2>1, <2>2, AcceptShape
<1>7. CASE c.state \in (Open \cup Closers) \ {"TimeWait"}
  BY <1>7, SynchronisedType DEF Handled, Open, Closers
<1>8. CASE c.state \notin {"SynSent", "SynReceived"} \cup (Open \cup Closers)
  BY <1>8 DEF Handled, Open, Closers
<1>9. CASE c.state = "TimeWait"
  <2>1. Handled(c, s) = [c EXCEPT !.need_ack = TRUE]
    BY <1>9 DEF Handled, Open, Closers
  <2> QED
    BY <1>3, <2>1
<1> QED
  BY <1>4, <1>5, <1>6, <1>7, <1>8, <1>9

------------------------------------------------------------------------------
\* What acknowledge does depends on the sending half of a connection only.
LEMMA AcknowledgeSame ==
  ASSUME NEW c, NEW x, NEW ack,
         x.una = c.una, x.nxt = c.nxt, x.send = c.send, x.fin_sent = c.fin_sent,
         c \in Connection, x \in Connection
  PROVE  /\ acknowledge(x, ack).una = acknowledge(c, ack).una
         /\ acknowledge(x, ack).send = acknowledge(c, ack).send
<1>1. AckedBytes(x, ack) = AckedBytes(c, ack)
  BY DEF AckedBytes
<1>2. CASE ~after(ack, c.una)
  BY <1>2 DEF acknowledge
<1>3. CASE after(ack, c.una)
  <2> DEFINE rest == SubSeq(c.send, Smaller(AckedBytes(c, ack), Len(c.send)) + 1, Len(c.send))
             y(z) == [z EXCEPT !.send = rest, !.una = ack, !.retries = 0, !.timer = FALSE]
  <2>1. acknowledge(c, ack) = y(c) /\ acknowledge(x, ack) = y(x)
    BY <1>1, <1>3 DEF acknowledge
  <2> HIDE DEF rest
  <2>2. \A z \in Connection : y(z).una = ack /\ y(z).send = rest
    BY DEF Connection
  <2> HIDE DEF y
  <2> QED
    BY <2>1, <2>2
<1> QED
  BY <1>2, <1>3

\* What a segment makes of a synchronised connection, field by field.
LEMMA SynchronisedShape ==
  ASSUME NEW c, ConnOK(c), NEW s \in Segment
  PROVE  LET a    == IF "ACK" \in s.flags THEN acknowledge(c, s.ack) ELSE c
             b    == accept_data(a, s.seq, s.data)
             d    == Synchronised(c, s)
         IN  /\ d.una = a.una /\ d.send = a.send /\ d.nxt = c.nxt /\ d.fin_sent = c.fin_sent
             /\ d.recv = b.recv
             /\ d.peer_closed = (c.peer_closed \/ FinHere(b, s))
             /\ d.rcv_nxt = IF FinHere(b, s) /\ ~c.peer_closed THEN Plus(b.rcv_nxt, 1)
                            ELSE b.rcv_nxt
             /\ d.state = NextState(c.state, FinHere(b, s) \/ c.peer_closed,
                                    c.fin_sent /\ a.una = c.nxt)
             /\ ConnOK(a) /\ a.recv = c.recv /\ a.rcv_nxt = c.rcv_nxt
             /\ a.state = c.state /\ a.peer_closed = c.peer_closed
<1>0. s.ack \in Number /\ s.seq \in Number /\ s.data \in Seq(Byte)
  BY DEF Segment
<1> DEFINE a == IF "ACK" \in s.flags THEN acknowledge(c, s.ack) ELSE c
           b == accept_data(a, s.seq, s.data)
           n == Plus(b.rcv_nxt, 1)
           d == IF FinHere(b, s) /\ ~b.peer_closed
                THEN [b EXCEPT !.peer_closed = TRUE, !.rcv_nxt = n, !.need_ack = TRUE]
                ELSE b
           t == NextState(d.state, FinHere(b, s) \/ d.peer_closed, d.fin_sent /\ d.una = d.nxt)
           y == [d EXCEPT !.state = t]
<1>1. /\ ConnOK(a) /\ a.nxt = c.nxt /\ a.fin_sent = c.fin_sent /\ a.state = c.state
      /\ a.peer_closed = c.peer_closed /\ a.recv = c.recv /\ a.rcv_nxt = c.rcv_nxt
  BY <1>0, AcknowledgeShape
<1> HIDE DEF a
<1>2. /\ ConnOK(b) /\ b.una = a.una /\ b.send = a.send /\ b.nxt = a.nxt
      /\ b.fin_sent = a.fin_sent /\ b.state = a.state /\ b.peer_closed = a.peer_closed
  <2>1. ConnOK(a)
    BY <1>1
  <2>2. ConnOK(b) /\ b.una = a.una /\ b.send = a.send /\ b.nxt = a.nxt
    BY <1>0, <2>1, AcceptShape
  <2>3. b.fin_sent = a.fin_sent /\ b.state = a.state /\ b.peer_closed = a.peer_closed
    BY <1>0, <2>1, AcceptShape
  <2> QED
    BY <2>2, <2>3
<1>3. Synchronised(c, s) = y
  BY DEF Synchronised, a, b, y, d, n, t
<1> HIDE DEF b, n
<1>4. /\ d \in Connection /\ d.una = b.una /\ d.send = b.send /\ d.nxt = b.nxt
      /\ d.fin_sent = b.fin_sent /\ d.state = b.state /\ d.recv = b.recv
      /\ d.peer_closed = (b.peer_closed \/ FinHere(b, s))
      /\ d.rcv_nxt = IF FinHere(b, s) /\ ~b.peer_closed THEN n ELSE b.rcv_nxt
  <2>1. b \in Connection /\ n \in Number /\ b.peer_closed \in BOOLEAN
    BY <1>2, Fields, PlusType DEF ConnOK, n
  <2>2. FinHere(b, s) \in BOOLEAN
    BY DEF FinHere
  <2> DEFINE x == [b EXCEPT !.peer_closed = TRUE, !.rcv_nxt = n, !.need_ack = TRUE]
  <2>3. /\ x \in Connection /\ x.una = b.una /\ x.send = b.send /\ x.nxt = b.nxt
        /\ x.fin_sent = b.fin_sent /\ x.state = b.state /\ x.recv = b.recv
        /\ x.peer_closed = TRUE /\ x.rcv_nxt = n
    BY <2>1 DEF Connection
  <2>4. d = IF FinHere(b, s) /\ ~b.peer_closed THEN x ELSE b
    OBVIOUS
  <2> HIDE DEF x, d
  <2>5. CASE FinHere(b, s) /\ ~b.peer_closed
    BY <2>3, <2>4, <2>5
  <2>6. CASE ~(FinHere(b, s) /\ ~b.peer_closed)
    <3>1. d = b
      BY <2>4, <2>6
    <3>2. b.peer_closed = (b.peer_closed \/ FinHere(b, s))
      BY <2>1, <2>2, <2>6
    <3> QED
      BY <2>1, <2>6, <3>1, <3>2
  <2> QED
    BY <2>5, <2>6
<1> HIDE DEF d
<1>5. t \in States
  BY <1>4 DEF NextState, States, Connection
<1>6. /\ y.una = d.una /\ y.send = d.send /\ y.nxt = d.nxt /\ y.fin_sent = d.fin_sent
      /\ y.recv = d.recv /\ y.peer_closed = d.peer_closed /\ y.rcv_nxt = d.rcv_nxt
      /\ y.state = t
  BY <1>4 DEF Connection
<1>7. t = NextState(c.state, FinHere(b, s) \/ c.peer_closed, c.fin_sent /\ a.una = c.nxt)
  <2>1. (FinHere(b, s) \/ d.peer_closed) = (FinHere(b, s) \/ c.peer_closed)
    <3>1. c.peer_closed \in BOOLEAN /\ FinHere(b, s) \in BOOLEAN
      BY Fields DEF ConnOK, FinHere
    <3>2. d.peer_closed = (c.peer_closed \/ FinHere(b, s))
      BY <1>1, <1>2, <1>4
    <3> QED
      BY <3>1, <3>2
  <2>2. (d.fin_sent /\ d.una = d.nxt) = (c.fin_sent /\ a.una = c.nxt)
    BY <1>1, <1>2, <1>4
  <2>3. d.state = c.state
    BY <1>1, <1>2, <1>4
  <2> QED
    BY <2>1, <2>2, <2>3
<1> HIDE DEF y
<1> QED
  BY <1>1, <1>2, <1>3, <1>4, <1>6, <1>7 DEF a, b, n

\* What the first answer makes of a connection that is being opened.
LEMMA OpenedShape ==
  ASSUME NEW c, ConnOK(c), NEW s \in Segment, c.state \in {"SynSent", "SynReceived"}
  PROVE  LET a == acknowledge(c, s.ack)
             x == [a EXCEPT !.state = "Established"]
             d == Handled(c, s)
         IN  \/ /\ c.state = "SynSent" /\ AnswersUs(c, s)
                /\ d.state = "Established" /\ d.una = a.una /\ d.nxt = c.nxt /\ d.send = a.send
                /\ d.recv = c.recv /\ d.rcv_nxt = Plus(s.seq, 1)
                /\ d.fin_sent = c.fin_sent /\ d.peer_closed = c.peer_closed
             \/ /\ c.state = "SynSent" /\ "SYN" \in s.flags /\ ~AnswersUs(c, s)
                /\ d.recv = c.recv
             \/ /\ c.state = "SynReceived" /\ "ACK" \in s.flags /\ s.ack = c.nxt
                /\ d = accept_data(x, s.seq, s.data)
                /\ ConnOK(x) /\ x.state = "Established" /\ x.una = a.una /\ x.nxt = c.nxt
                /\ x.send = a.send /\ x.recv = c.recv /\ x.rcv_nxt = c.rcv_nxt
                /\ x.fin_sent = c.fin_sent /\ x.peer_closed = c.peer_closed
             \/ d = c
<1>0. s.ack \in Number /\ s.seq \in Number /\ s.data \in Seq(Byte)
  BY DEF Segment
<1> DEFINE n == Plus(s.seq, 1)
<1>1. c \in Connection /\ n \in Number
  BY <1>0, PlusType DEF ConnOK
<1>2. CASE c.state = "SynSent" /\ AnswersUs(c, s)
  <2> DEFINE x == [c EXCEPT !.rcv_nxt = n]
             a == acknowledge(x, s.ack)
             d == [a EXCEPT !.state = "Established", !.need_ack = TRUE]
  <2>1. /\ x \in Connection /\ x.una = c.una /\ x.nxt = c.nxt /\ x.send = c.send
        /\ x.recv = c.recv /\ x.fin_sent = c.fin_sent /\ x.peer_closed = c.peer_closed
        /\ x.rcv_nxt = n
    BY <1>1 DEF Connection
  <2>2. Handled(c, s) = d
    BY <1>2 DEF Handled, Open, Closers
  <2> HIDE DEF x
  <2>3. ConnOK(x)
    BY <2>1 DEF ConnOK
  <2>4. /\ ConnOK(a) /\ a.nxt = c.nxt /\ a.recv = c.recv /\ a.fin_sent = c.fin_sent
        /\ a.peer_closed = c.peer_closed /\ a.rcv_nxt = n
    BY <1>0, <2>1, <2>3, AcknowledgeShape
  <2>5. a.una = acknowledge(c, s.ack).una /\ a.send = acknowledge(c, s.ack).send
    BY <1>1, <2>1, AcknowledgeSame
  <2> HIDE DEF a
  <2>6. /\ d.state = "Established" /\ d.una = a.una /\ d.nxt = a.nxt /\ d.send = a.send
        /\ d.recv = a.recv /\ d.rcv_nxt = a.rcv_nxt /\ d.fin_sent = a.fin_sent
        /\ d.peer_closed = a.peer_closed
    BY <2>4 DEF ConnOK, Connection
  <2> HIDE DEF d
  <2> QED
    BY <1>2, <2>2, <2>4, <2>5, <2>6
<1>3. CASE c.state = "SynSent" /\ "SYN" \in s.flags /\ ~AnswersUs(c, s)
  <2> DEFINE d == [c EXCEPT !.rcv_nxt = n, !.state = "SynReceived", !.need_ack = TRUE]
  <2>1. Handled(c, s) = d
    BY <1>3 DEF Handled, Open, Closers
  <2>2. d.recv = c.recv
    BY <1>1 DEF Connection
  <2> HIDE DEF d
  <2> QED
    BY <1>3, <2>1, <2>2
<1>4. CASE c.state = "SynSent" /\ "SYN" \notin s.flags /\ ~AnswersUs(c, s)
  BY <1>4 DEF Handled, Open, Closers
<1>5. CASE c.state = "SynReceived" /\ "ACK" \in s.flags /\ s.ack = c.nxt
  <2> DEFINE a == acknowledge(c, s.ack)
             x == [a EXCEPT !.state = "Established"]
  <2>1. Handled(c, s) = accept_data(x, s.seq, s.data)
    BY <1>5 DEF Handled, Open, Closers
  <2>2. /\ ConnOK(a) /\ a.nxt = c.nxt /\ a.recv = c.recv /\ a.fin_sent = c.fin_sent
        /\ a.peer_closed = c.peer_closed /\ a.rcv_nxt = c.rcv_nxt
    BY <1>0, AcknowledgeShape
  <2> HIDE DEF a
  <2>3. /\ x \in Connection /\ x.state = "Established" /\ x.una = a.una /\ x.nxt = a.nxt
        /\ x.send = a.send /\ x.recv = a.recv /\ x.rcv_nxt = a.rcv_nxt
        /\ x.fin_sent = a.fin_sent /\ x.peer_closed = a.peer_closed
    BY <2>2 DEF ConnOK, Connection, States
  <2> HIDE DEF x
  <2>4. ConnOK(x)
    BY <2>2, <2>3 DEF ConnOK
  <2> QED
    BY <1>5, <2>1, <2>2, <2>3, <2>4 DEF a, x
<1>6. CASE c.state = "SynReceived" /\ ~("ACK" \in s.flags /\ s.ack = c.nxt)
  BY <1>6 DEF Handled, Open, Closers
<1> QED
  BY <1>2, <1>3, <1>4, <1>5, <1>6

\* What a segment makes of the others.
LEMMA OthersShape ==
  ASSUME NEW c, ConnOK(c), NEW s \in Segment, c.state \notin {"SynSent", "SynReceived"}
  PROVE  LET d == Handled(c, s) IN
         \/ c.state \in (Open \cup Closers) \ {"TimeWait"} /\ d = Synchronised(c, s)
         \/ /\ c.state \notin (Open \cup Closers) \ {"TimeWait"}
            /\ d.state = c.state /\ d.una = c.una /\ d.nxt = c.nxt /\ d.send = c.send
            /\ d.recv = c.recv /\ d.rcv_nxt = c.rcv_nxt /\ d.fin_sent = c.fin_sent
            /\ d.peer_closed = c.peer_closed
<1>1. CASE c.state \in (Open \cup Closers) \ {"TimeWait"}
  BY <1>1 DEF Handled, Open, Closers
<1>2. CASE c.state = "TimeWait"
  <2> DEFINE d == [c EXCEPT !.need_ack = TRUE]
  <2>1. Handled(c, s) = d
    BY <1>2 DEF Handled, Open, Closers
  <2>2. /\ d.state = c.state /\ d.una = c.una /\ d.nxt = c.nxt /\ d.send = c.send
        /\ d.recv = c.recv /\ d.rcv_nxt = c.rcv_nxt /\ d.fin_sent = c.fin_sent
        /\ d.peer_closed = c.peer_closed
    BY DEF ConnOK, Connection
  <2> HIDE DEF d
  <2> QED
    BY <1>2, <2>1, <2>2
<1>3. CASE c.state \notin Open \cup Closers
  <2>1. Handled(c, s) = c
    BY <1>3 DEF Handled, Open, Closers
  <2> QED
    BY <1>3, <2>1
<1> QED
  BY <1>1, <1>2, <1>3

\* Accepting data takes nothing out of the receive buffer.
LEMMA AcceptGrows ==
  ASSUME NEW c, ConnOK(c), NEW seq \in Number, NEW data \in Seq(Byte)
  PROVE  /\ Len(c.recv) \in Nat /\ Len(accept_data(c, seq, data).recv) \in Nat
         /\ Len(c.recv) <= Len(accept_data(c, seq, data).recv)
<1> DEFINE d == accept_data(c, seq, data)
<1>1. d.recv = c.recv \/ \E k \in 0 .. Len(data) : d.recv = c.recv \o SubSeq(data, 1, k)
  BY AcceptShape
<1> HIDE DEF d
<1>2. c.recv \in Seq(Byte) /\ Len(c.recv) \in Nat
  BY Fields DEF ConnOK
<1>3. ASSUME NEW k \in 0 .. Len(data), d.recv = c.recv \o SubSeq(data, 1, k)
      PROVE  Len(d.recv) \in Nat /\ Len(c.recv) <= Len(d.recv)
  <2>1. SubSeq(data, 1, k) \in Seq(Byte) /\ Len(SubSeq(data, 1, k)) \in Nat
    <3>1. \A i \in 1 .. k : data[i] \in Byte
      BY ElementOfSeq
    <3> QED
      BY <3>1, SubSeqProperties
  <2>2. Len(d.recv) = Len(c.recv) + Len(SubSeq(data, 1, k))
    BY <1>2, <1>3, <2>1, ConcatProperties
  <2>3. \A x, y \in Nat : x + y \in Nat /\ x <= x + y
    OBVIOUS
  <2> QED
    BY <1>2, <2>1, <2>2, <2>3
<1>4. Len(d.recv) \in Nat /\ Len(c.recv) <= Len(d.recv)
  <2>1. CASE d.recv = c.recv
    BY <1>2, <2>1
  <2> QED
    BY <1>1, <1>3, <2>1
<1> QED
  BY <1>2, <1>4 DEF d

\* Nor does handling a segment.
LEMMA HandledGrows ==
  ASSUME NEW c, ConnOK(c), NEW s \in Segment
  PROVE  /\ Len(c.recv) \in Nat /\ Len(Handled(c, s).recv) \in Nat
         /\ Len(c.recv) <= Len(Handled(c, s).recv)
<1>0. s.seq \in Number /\ s.data \in Seq(Byte)
  BY DEF Segment
<1>1. Len(c.recv) \in Nat
  BY Fields DEF ConnOK
<1>2. \A x : ConnOK(x) /\ x.recv = c.recv =>
        /\ Len(accept_data(x, s.seq, s.data).recv) \in Nat
        /\ Len(c.recv) <= Len(accept_data(x, s.seq, s.data).recv)
  <2> TAKE x
  <2> HAVE ConnOK(x) /\ x.recv = c.recv
  <2> QED
    BY <1>0, AcceptGrows
<1>3. CASE c.state \in {"SynSent", "SynReceived"}
  <2> DEFINE d == Handled(c, s)
             x == [acknowledge(c, s.ack) EXCEPT !.state = "Established"]
  <2>1. \/ d.recv = c.recv
        \/ d = accept_data(x, s.seq, s.data) /\ ConnOK(x) /\ x.recv = c.recv
    BY <1>3, OpenedShape
  <2> HIDE DEF d, x
  <2>2. Len(d.recv) \in Nat /\ Len(c.recv) <= Len(d.recv)
    BY <1>1, <1>2, <2>1
  <2> QED
    BY <1>1, <2>2 DEF d
<1>4. CASE c.state \notin {"SynSent", "SynReceived"}
  <2>1. CASE Handled(c, s) = Synchronised(c, s)
    <3> DEFINE a == IF "ACK" \in s.flags THEN acknowledge(c, s.ack) ELSE c
    <3>1. /\ ConnOK(a) /\ a.recv = c.recv
          /\ Handled(c, s).recv = accept_data(a, s.seq, s.data).recv
      BY <2>1, SynchronisedShape
    <3> HIDE DEF a
    <3> QED
      BY <1>1, <1>2, <3>1
  <2>2. CASE Handled(c, s).recv = c.recv
    BY <1>1, <2>2
  <2> QED
    BY <1>4, <2>1, <2>2, OthersShape
<1> QED
  BY <1>3, <1>4

------------------------------------------------------------------------------
(***************************************************************************)
(* Types of what a turn of tcp_pump leaves.                                *)
(***************************************************************************)

\* What arm changes.
LEMMA ArmShape ==
  ASSUME NEW c, ConnOK(c)
  PROVE  /\ ConnOK(arm(c)) /\ arm(c).state = c.state /\ arm(c).una = c.una
         /\ arm(c).nxt = c.nxt /\ arm(c).send = c.send /\ arm(c).recv = c.recv
         /\ arm(c).rcv_nxt = c.rcv_nxt /\ arm(c).fin_sent = c.fin_sent
         /\ arm(c).peer_closed = c.peer_closed
<1> DEFINE t == c.timer \/ in_flight(c) > 0
           d == [c EXCEPT !.timer = t]
<1>1. c \in Connection /\ c.timer \in BOOLEAN /\ t \in BOOLEAN
  BY Fields DEF ConnOK
<1>2. arm(c) = d
  BY DEF arm
<1> HIDE DEF t
<1>3. /\ d \in Connection /\ d.state = c.state /\ d.una = c.una
      /\ d.nxt = c.nxt /\ d.send = c.send /\ d.recv = c.recv
      /\ d.rcv_nxt = c.rcv_nxt /\ d.fin_sent = c.fin_sent /\ d.peer_closed = c.peer_closed
  BY <1>1 DEF Connection
<1> HIDE DEF d
<1> QED
  BY <1>2, <1>3 DEF ConnOK

\* What a turn changes: the next number, and at the FIN the state.
LEMMA SentShape ==
  ASSUME NEW c, ConnOK(c)
  PROVE  LET d == Sent(c) IN
         /\ ConnOK(d)
         /\ d.una = c.una /\ d.send = c.send /\ d.recv = c.recv
         /\ d.rcv_nxt = c.rcv_nxt /\ d.peer_closed = c.peer_closed
         /\ CASE Sends(c) = "SYN"  -> /\ d.nxt = Plus(c.nxt, 1) /\ d.state = c.state
                                      /\ d.fin_sent = c.fin_sent
              [] Sends(c) = "data" -> /\ d.nxt = Plus(c.nxt, sendable(c)) /\ d.state = c.state
                                      /\ d.fin_sent = c.fin_sent
              [] Sends(c) = "FIN"  -> d.state = AfterFin(c.state)
              [] OTHER             -> /\ d.nxt = c.nxt /\ d.state = c.state
                                      /\ d.fin_sent = c.fin_sent
<1>0. c \in Connection
  BY DEF ConnOK
<1>1. CASE Sends(c) = "SYN" \/ Sends(c) = "data"
  <2> DEFINE n == IF Sends(c) = "SYN" THEN Plus(c.nxt, 1) ELSE Plus(c.nxt, sendable(c))
             x == [c EXCEPT !.nxt = n, !.need_ack = FALSE]
  <2>1. n \in Number
    BY <1>0, Fields, PlusType, SendableType
  <2>2. Sent(c) = arm(x)
    BY <1>1 DEF Sent
  <2> HIDE DEF n
  <2>3. /\ x \in Connection /\ x.una = c.una /\ x.send = c.send /\ x.recv = c.recv
        /\ x.rcv_nxt = c.rcv_nxt /\ x.peer_closed = c.peer_closed
        /\ x.nxt = n /\ x.state = c.state /\ x.fin_sent = c.fin_sent
    BY <1>0, <2>1 DEF Connection
  <2> HIDE DEF x
  <2>4. ConnOK(x)
    BY <2>3 DEF ConnOK
  <2> QED
    BY <1>1, <2>2, <2>3, <2>4, ArmShape DEF n
<1>2. CASE Sends(c) = "FIN"
  <2> DEFINE n == Plus(c.nxt, 1)
             t == AfterFin(c.state)
             x == [c EXCEPT !.nxt = n, !.need_ack = FALSE, !.fin_sent = TRUE, !.state = t]
  <2>1. n \in Number /\ t \in States
    BY <1>0, Fields, PlusType DEF AfterFin, States
  <2>2. Sent(c) = arm(x)
    BY <1>2 DEF Sent
  <2> HIDE DEF n, t
  <2>3. /\ x \in Connection /\ x.una = c.una /\ x.send = c.send /\ x.recv = c.recv
        /\ x.rcv_nxt = c.rcv_nxt /\ x.peer_closed = c.peer_closed /\ x.state = t
    BY <1>0, <2>1 DEF Connection
  <2> HIDE DEF x
  <2>4. ConnOK(x)
    BY <2>3 DEF ConnOK
  <2> QED
    BY <1>2, <2>2, <2>3, <2>4, ArmShape DEF t
<1>3. CASE Sends(c) \notin {"SYN", "data", "FIN"}
  <2> DEFINE x == [c EXCEPT !.need_ack = FALSE]
  <2>1. Sent(c) = c \/ Sent(c) = x
    BY <1>3 DEF Sent
  <2>2. /\ x \in Connection /\ x.una = c.una /\ x.send = c.send /\ x.recv = c.recv
        /\ x.rcv_nxt = c.rcv_nxt /\ x.peer_closed = c.peer_closed
        /\ x.nxt = c.nxt /\ x.state = c.state /\ x.fin_sent = c.fin_sent
    BY <1>0 DEF Connection
  <2> HIDE DEF x
  <2>3. ConnOK(x)
    BY <2>2 DEF ConnOK
  <2> QED
    BY <1>3, <2>1, <2>2, <2>3
<1> QED
  BY <1>1, <1>2, <1>3

LEMMA UnsentShape ==
  ASSUME NEW c, ConnOK(c)
  PROVE  LET d == Unsent(c) IN
         /\ ConnOK(d)
         /\ d.state = c.state /\ d.una = c.una /\ d.nxt = c.nxt /\ d.send = c.send
         /\ d.recv = c.recv /\ d.rcv_nxt = c.rcv_nxt /\ d.fin_sent = c.fin_sent
         /\ d.peer_closed = c.peer_closed
<1> DEFINE d == [c EXCEPT !.timer = TRUE]
<1>1. c \in Connection /\ Unsent(c) = d
  BY DEF ConnOK, Unsent
<1>2. /\ d \in Connection
      /\ d.state = c.state /\ d.una = c.una /\ d.nxt = c.nxt /\ d.send = c.send
      /\ d.recv = c.recv /\ d.rcv_nxt = c.rcv_nxt /\ d.fin_sent = c.fin_sent
      /\ d.peer_closed = c.peer_closed
  BY <1>1 DEF Connection
<1> HIDE DEF d
<1> QED
  BY <1>1, <1>2 DEF ConnOK

\* The segments of one turn: the numbers all are written in, and the bytes.
LEMMA SegmentsShape ==
  ASSUME NEW c, ConnOK(c)
  PROVE  /\ Segments(c) \in Seq(Segment)
         /\ \A i \in 1 .. Len(Segments(c)) :
              LET s == Segments(c)[i] IN
              /\ s.ack = c.rcv_nxt
              /\ \/ /\ Sends(c) = "data" /\ s.flags = {"ACK"}
                    /\ s.seq = Plus(c.nxt, (i - 1) * MSS)
                    /\ s.data # <<>> =>
                         LET from == in_flight(c) + (i - 1) * MSS IN
                         /\ (i - 1) * MSS \in Nat
                         /\ from + Len(s.data) <= in_flight(c) + sendable(c)
                         /\ \A j \in 1 .. Len(s.data) : s.data[j] = c.send[from + j]
                 \/ /\ Sends(c) = "SYN" /\ s.data = <<>> /\ s.seq = c.nxt
                    /\ s.flags = IF c.state = "SynSent" THEN {"SYN"} ELSE {"SYN", "ACK"}
                 \/ Sends(c) = "FIN" /\ s.data = <<>> /\ s.flags = {"ACK", "FIN"}
                 \/ Sends(c) = "ACK" /\ s.data = <<>> /\ s.flags = {"ACK"}
<1>0. c \in Connection /\ window(c) \in 0 .. RECEIVE_BUFFER /\ <<>> \in Seq(Byte)
  BY WindowType DEF ConnOK
<1>1. CASE Sends(c) = "data"
  <2> DEFINE size     == sendable(c)
             flying   == in_flight(c)
             n        == (size + MSS - 1) \div MSS
             Chunk(i) == SubSeq(c.send, flying + i * MSS + 1, flying + Smaller((i + 1) * MSS, size))
             E(i)     == segment({"ACK"}, Plus(c.nxt, (i - 1) * MSS), c.rcv_nxt, window(c), Chunk(i - 1))
  <2>1. /\ size \in Nat \ {0} /\ flying \in Nat /\ flying + size <= Len(c.send)
        /\ Len(c.send) \in Nat
    <3>1. sendable(c) > 0
      BY <1>1 DEF Sends
    <3> QED
      BY <1>0, <3>1, SendableType, InFlightType, Fields, Modulus DEF Number
  <2>2. Segments(c) = [i \in 1 .. n |-> E(i)]
    BY <1>1 DEF Segments, Chunks
  <2> HIDE DEF size, flying
  <2>3. n \in Nat
    BY <2>1, Sizes
  <2> HIDE DEF n
  <2>4. ASSUME NEW i \in 1 .. n
        PROVE  /\ (i - 1) * MSS \in Nat
               /\ Chunk(i - 1) \in Seq(Byte)
               /\ Chunk(i - 1) # <<>> => (i - 1) * MSS + Len(Chunk(i - 1)) <= size
               /\ \A j \in 1 .. Len(Chunk(i - 1)) :
                    Chunk(i - 1)[j] = c.send[flying + (i - 1) * MSS + j]
    <3> DEFINE x == (i - 1) * MSS
               y == Smaller((i - 1 + 1) * MSS, size)
    <3>1. x \in Nat /\ y \in Nat /\ y <= size
      <4>1. x \in Nat /\ (i - 1 + 1) * MSS \in Nat
        BY <2>3, Sizes
      <4> QED
        BY <2>1, <4>1 DEF Smaller
    <3> HIDE DEF x, y
    <3>2. Chunk(i - 1) = SubSeq(c.send, flying + x + 1, flying + y)
      BY DEF x, y
    <3>3. \A j \in flying + x + 1 .. flying + y : c.send[j] \in Byte
      <4> TAKE j \in flying + x + 1 .. flying + y
      <4>1. j \in 1 .. Len(c.send)
        BY <2>1, <3>1
      <4> QED
        BY <1>0, <4>1, Fields, ElementOfSeq
    <3> DEFINE l == flying + x + 1
               h == flying + y
    <3>4. l \in Int /\ h \in Int
      BY <2>1, <3>1
    <3>5. /\ Chunk(i - 1) \in Seq(Byte)
          /\ Len(Chunk(i - 1)) = IF l <= h THEN h - l + 1 ELSE 0
          /\ \A j \in 1 .. h - l + 1 : Chunk(i - 1)[j] = c.send[l + j - 1]
      <4>1. (\A j \in l .. h : c.send[j] \in Byte) /\ Chunk(i - 1) = SubSeq(c.send, l, h)
        BY <3>2, <3>3
      <4> HIDE DEF l, h, Chunk
      <4>2. /\ SubSeq(c.send, l, h) \in Seq(Byte)
            /\ Len(SubSeq(c.send, l, h)) = IF l <= h THEN h - l + 1 ELSE 0
            /\ \A j \in 1 .. h - l + 1 : SubSeq(c.send, l, h)[j] = c.send[l + j - 1]
        BY <3>4, <4>1, SubSeqProperties
      <4> QED
        BY <4>1, <4>2
    <3> HIDE DEF Chunk
    <3>6. Chunk(i - 1) # <<>> => Len(Chunk(i - 1)) \in Nat \ {0}
      BY <3>5, EmptySeq
    <3>7. Chunk(i - 1) # <<>> => x + Len(Chunk(i - 1)) <= size
      BY <2>1, <3>1, <3>5, <3>6
    <3>8. ASSUME NEW j \in 1 .. Len(Chunk(i - 1))
          PROVE  Chunk(i - 1)[j] = c.send[flying + x + j]
      <4>1. j \in 1 .. h - l + 1 /\ l + j - 1 = flying + x + j
        BY <2>1, <3>1, <3>5
      <4> QED
        BY <3>5, <4>1
    <3> QED
      BY <3>1, <3>5, <3>7, <3>8 DEF x
  <2> HIDE DEF Chunk
  <2>5. ASSUME NEW i \in 1 .. n
        PROVE  /\ E(i) \in Segment /\ E(i).ack = c.rcv_nxt /\ E(i).flags = {"ACK"}
               /\ E(i).seq = Plus(c.nxt, (i - 1) * MSS)
               /\ E(i).data = Chunk(i - 1)
    <3>1. Plus(c.nxt, (i - 1) * MSS) \in Number /\ c.rcv_nxt \in Number
      BY <1>0, <2>4, Fields, PlusType
    <3> QED
      BY <1>0, <2>4, <3>1 DEF segment, Segment, Flags
  <2> HIDE DEF E
  <2>6. /\ Segments(c) \in Seq(Segment) /\ Len(Segments(c)) = n
        /\ \A i \in 1 .. n : Segments(c)[i] = E(i)
    <3>1. Segments(c) \in [1 .. n -> Segment]
      BY <2>2, <2>5
    <3> QED
      BY <2>2, <2>3, <3>1
  <2>7. ASSUME NEW i \in 1 .. n, E(i).data # <<>>
        PROVE  LET from == in_flight(c) + (i - 1) * MSS IN
               /\ from + Len(E(i).data) <= in_flight(c) + sendable(c)
               /\ \A j \in 1 .. Len(E(i).data) : E(i).data[j] = c.send[from + j]
    <3>1. Len(Chunk(i - 1)) \in Nat
      BY <2>4
    <3>2. flying + (i - 1) * MSS + Len(Chunk(i - 1)) <= flying + size
      BY <2>1, <2>4, <2>5, <2>7, <3>1
    <3> QED
      BY <2>4, <2>5, <3>2 DEF flying, size
  <2> QED
    BY <1>1, <2>4, <2>5, <2>6, <2>7
<1>2. CASE Sends(c) # "data"
  <2> DEFINE Bare(flags) == segment(flags, c.nxt, c.rcv_nxt, window(c), <<>>)
  <2>1. \A flags \in SUBSET Flags :
          /\ Bare(flags) \in Segment /\ Bare(flags).flags = flags
          /\ Bare(flags).seq = c.nxt /\ Bare(flags).ack = c.rcv_nxt
          /\ Bare(flags).data = <<>>
    BY <1>0, Fields DEF segment, Segment
  <2>2. {{"SYN"}, {"SYN", "ACK"}, {"ACK", "FIN"}, {"ACK"}} \subseteq SUBSET Flags
    BY DEF Flags
  <2>3. \/ Sends(c) = "SYN" /\ Segments(c) = <<Bare(IF c.state = "SynSent" THEN {"SYN"} ELSE {"SYN", "ACK"})>>
        \/ Sends(c) = "FIN" /\ Segments(c) = <<Bare({"ACK", "FIN"})>>
        \/ Sends(c) = "ACK" /\ Segments(c) = <<Bare({"ACK"})>>
        \/ Segments(c) = <<>>
    BY <1>2 DEF Segments
  <2> HIDE DEF Bare
  <2>4. \A s \in Segment : <<s>> \in Seq(Segment) /\ Len(<<s>>) = 1 /\ <<s>>[1] = s
    OBVIOUS
  <2>5. <<>> \in Seq(Segment) /\ Len(<<>>) = 0
    OBVIOUS
  <2>6. CASE Segments(c) = <<>>
    BY <2>5, <2>6
  <2>7. ASSUME NEW flags \in SUBSET Flags, Segments(c) = <<Bare(flags)>>
        PROVE  /\ Segments(c) \in Seq(Segment) /\ Len(Segments(c)) = 1
               /\ Segments(c)[1].flags = flags /\ Segments(c)[1].seq = c.nxt
               /\ Segments(c)[1].ack = c.rcv_nxt /\ Segments(c)[1].data = <<>>
    BY <2>1, <2>4, <2>7
  <2>8. CASE Sends(c) = "SYN" /\ Segments(c) # <<>>
    <3> DEFINE flags == IF c.state = "SynSent" THEN {"SYN"} ELSE {"SYN", "ACK"}
    <3>1. flags \in SUBSET Flags /\ Segments(c) = <<Bare(flags)>>
      BY <2>2, <2>3, <2>8
    <3> HIDE DEF flags
    <3>2. /\ Segments(c) \in Seq(Segment) /\ Len(Segments(c)) = 1
          /\ Segments(c)[1].flags = flags /\ Segments(c)[1].seq = c.nxt
          /\ Segments(c)[1].ack = c.rcv_nxt /\ Segments(c)[1].data = <<>>
      BY <2>7, <3>1
    <3> QED
      BY <2>8, <3>2 DEF flags
  <2>9. CASE Sends(c) # "SYN" /\ Segments(c) # <<>>
    <3>1. PICK flags \in {{"ACK", "FIN"}, {"ACK"}} :
            /\ Segments(c) = <<Bare(flags)>>
            /\ Sends(c) = IF flags = {"ACK"} THEN "ACK" ELSE "FIN"
      BY <2>3, <2>9
    <3>2. flags \in SUBSET Flags
      BY <2>2
    <3>3. /\ Segments(c) \in Seq(Segment) /\ Len(Segments(c)) = 1
          /\ Segments(c)[1].flags = flags
          /\ Segments(c)[1].ack = c.rcv_nxt /\ Segments(c)[1].data = <<>>
      BY <2>7, <3>1, <3>2
    <3> QED
      BY <3>1, <3>3
  <2> QED
    BY <2>6, <2>8, <2>9
<1> QED
  BY <1>1, <1>2

------------------------------------------------------------------------------
\* A freed slot holds no connection.
LEMMA FreedShape ==
  ASSUME NEW c, ConnOK(c), NEW freed
  PROVE  ConnOK(Freed(c, freed)) /\ (Freed(c, freed) = c \/ Freed(c, freed) = NoConnection)
BY NoneType DEF Freed

LEMMA OtherEnd ==
  ASSUME NEW e \in Ends
  PROVE  /\ other(e) \in Ends /\ other(e) # e /\ other(other(e)) = e
         /\ Ends = {e, other(e)}
BY Sizes DEF other, Ends

LEMMA PumpType ==
  ASSUME TypeOK, NEW e \in Ends, NEW c, ConnOK(c), NEW rest \in Seq(Segment),
         NEW cost \in Nat, faults + cost <= MaxFaults, NEW freed, Pump(e, c, rest, cost, freed)
  PROVE  /\ conn' \in [Ends -> Connection] /\ net' \in [Ends -> Seq(Segment)]
         /\ \A d \in Ends : ConnOK(conn'[d])
         /\ faults' \in 0 .. MaxFaults /\ overtook' \in [Ends -> BOOLEAN]
<1>1. \A d \in Ends : ConnOK(conn[d])
  BY DEF TypeOK, ConnOK
<1>2. \A d : ConnOK(d) => d \in Connection
  BY DEF ConnOK
<1>3. /\ conn \in [Ends -> Connection] /\ net \in [Ends -> Seq(Segment)]
      /\ faults \in Nat /\ MaxFaults \in Nat /\ overtook \in [Ends -> BOOLEAN]
      /\ other(e) \in Ends
  BY Sizes DEF TypeOK, other, Ends
<1>4. CASE /\ conn' = [conn EXCEPT ![e] = Freed(Sent(c), freed)]
           /\ net' = [net EXCEPT ![e] = rest, ![other(e)] = @ \o Segments(c)]
           /\ overtook' = [overtook EXCEPT ![e] = @ \/ Overtakes(c)]
           /\ faults' = faults + cost
  <2>1. ConnOK(Freed(Sent(c), freed))
    BY SentShape, FreedShape
  <2>2. \A q \in Seq(Segment) : q \o Segments(c) \in Seq(Segment)
    BY SegmentsShape, ConcatProperties
  <2>3. net' \in [Ends -> Seq(Segment)]
    <3> DEFINE more == net[other(e)] \o Segments(c)
    <3>1. net' = [net EXCEPT ![e] = rest, ![other(e)] = more]
      BY <1>3, <1>4, OtherEnd
    <3>2. more \in Seq(Segment)
      BY <1>3, <2>2
    <3> HIDE DEF more
    <3> QED
      BY <1>3, <3>1, <3>2
  <2>4. conn' \in [Ends -> Connection] /\ \A d \in Ends : ConnOK(conn'[d])
    BY <1>1, <1>2, <1>3, <1>4, <2>1
  <2>5. overtook' \in [Ends -> BOOLEAN]
    <3>1. (overtook[e] \/ Overtakes(c)) \in BOOLEAN
      BY <1>3 DEF Overtakes
    <3> QED
      BY <1>3, <1>4, <3>1
  <2>6. faults' \in 0 .. MaxFaults
    BY <1>3, <1>4
  <2> QED
    BY <2>3, <2>4, <2>5, <2>6
<1>5. CASE /\ faults + cost < MaxFaults
           /\ conn' = [conn EXCEPT ![e] = Freed(Unsent(c), freed)]
           /\ net' = [net EXCEPT ![e] = rest]
           /\ faults' = faults + cost + 1
           /\ UNCHANGED overtook
  <2>1. ConnOK(Freed(Unsent(c), freed))
    BY UnsentShape, FreedShape
  <2>2. conn' \in [Ends -> Connection] /\ \A d \in Ends : ConnOK(conn'[d])
    BY <1>1, <1>2, <1>3, <1>5, <2>1
  <2> QED
    BY <1>3, <1>5, <2>2
<1> QED
  BY <1>4, <1>5 DEF Pump

\* What the programs' calls and the timer make of a connection.
LEMMA CalledType ==
  ASSUME NEW c, ConnOK(c)
  PROVE  /\ ConnOK([c EXCEPT !.closing = TRUE])
         /\ ConnOK([c EXCEPT !.closing = TRUE, !.state = IF @ = "SynSent" THEN "Closed" ELSE @])
         /\ ConnOK([c EXCEPT !.reset = TRUE, !.state = "Closed"])
         /\ ConnOK([c EXCEPT !.timer = FALSE, !.retries = 0])
         /\ ~GaveUp(c) => ConnOK(Rewound(c))
         /\ \A wnd \in 0 .. RECEIVE_BUFFER : ConnOK([c EXCEPT !.wnd = wnd])
<1>1. c \in Connection
  BY DEF ConnOK
<1> DEFINE Same(d) == d \in Connection /\ d.recv = c.recv /\ d.send = c.send
<1>2. \A d : Same(d) => ConnOK(d)
  BY DEF ConnOK
<1>3. Same([c EXCEPT !.closing = TRUE])
  BY <1>1 DEF Connection
<1>4. Same([c EXCEPT !.closing = TRUE, !.state = IF @ = "SynSent" THEN "Closed" ELSE @])
  <2> DEFINE t == IF c.state = "SynSent" THEN "Closed" ELSE c.state
  <2>1. t \in States
    BY <1>1, Fields DEF States
  <2> HIDE DEF t
  <2>2. Same([c EXCEPT !.closing = TRUE, !.state = t])
    BY <1>1, <2>1 DEF Connection
  <2> QED
    BY <2>2 DEF t
<1>5. Same([c EXCEPT !.reset = TRUE, !.state = "Closed"])
  BY <1>1 DEF Connection, States
<1>6. Same([c EXCEPT !.timer = FALSE, !.retries = 0])
  <2>1. 0 \in 0 .. MAX_RETRIES
    BY Sizes
  <2> QED
    BY <1>1, <2>1 DEF Connection
<1>7. ASSUME ~GaveUp(c)
      PROVE  Same(Rewound(c))
  <2>1. c.retries + 1 \in 0 .. MAX_RETRIES /\ c.una \in Number
    BY <1>1, <1>7, Fields, Sizes DEF GaveUp
  <2> DEFINE n == c.retries + 1
  <2> HIDE DEF n
  <2>2. Same([c EXCEPT !.retries = n, !.timer = TRUE, !.nxt = c.una, !.fin_sent = FALSE])
    BY <1>1, <2>1 DEF Connection, n
  <2> QED
    BY <2>2 DEF Rewound, n
<1>8. \A wnd \in 0 .. RECEIVE_BUFFER : Same([c EXCEPT !.wnd = wnd])
  BY <1>1 DEF Connection
<1> QED
  BY <1>2, <1>3, <1>4, <1>5, <1>6, <1>7, <1>8

\* The bytes a call adds to the send queue.
\* more are the bytes behind the k-th; send is more behind those of queue.
Follows(more, k)          == \A j \in 1 .. Len(more) : more[j] = k + j
Continues(send, queue, k) ==
  \A i \in 1 .. Len(send) : send[i] = IF i <= Len(queue) THEN queue[i] ELSE k + i - Len(queue)
Given(c, more)            == [c EXCEPT !.send = @ \o more]

LEMMA NumberedType ==
  ASSUME NEW more, NEW taken \in Nat, NEW k \in Nat, more = [j \in 1 .. taken |-> k + j]
  PROVE  more \in Seq(Byte) /\ Len(more) = taken /\ Follows(more, k)
<1>1. more \in [1 .. taken -> Byte] /\ \A j \in 1 .. taken : more[j] = k + j
  BY DEF Byte
<1>2. more \in Seq(Byte) /\ Len(more) = taken
  BY <1>1
<1> QED
  BY <1>1, <1>2 DEF Follows

LEMMA TakenType ==
  ASSUME NEW c, ConnOK(c), NEW n \in Nat,
         NEW taken, taken = Smaller(n, SEND_BUFFER - Len(c.send)), taken > 0
  PROVE  taken \in Nat /\ taken <= n /\ Len(c.send) + taken <= SEND_BUFFER
<1>1. Len(c.send) \in Nat
  BY Fields DEF ConnOK
<1>2. SEND_BUFFER - Len(c.send) \in Nat
  BY <1>1, Sizes DEF ConnOK
<1>3. taken \in Nat /\ taken <= n /\ taken <= SEND_BUFFER - Len(c.send)
  BY <1>2, SmallerShape
<1> QED
  BY <1>1, <1>3, Sizes

LEMMA SendType ==
  ASSUME NEW c, ConnOK(c), NEW k \in Nat, NEW more \in Seq(Byte), Follows(more, k),
         Len(c.send) + Len(more) <= SEND_BUFFER
  PROVE  LET d == Given(c, more)
         IN  /\ ConnOK(d) /\ Len(d.send) = Len(c.send) + Len(more)
             /\ Continues(d.send, c.send, k)
             /\ d.state = c.state /\ d.una = c.una /\ d.nxt = c.nxt /\ d.recv = c.recv
             /\ d.rcv_nxt = c.rcv_nxt /\ d.fin_sent = c.fin_sent
             /\ d.peer_closed = c.peer_closed
<1> DEFINE taken == Len(more)
           send == c.send \o more
           d    == [c EXCEPT !.send = send]
<1>1. /\ c \in Connection /\ c.send \in Seq(Byte) /\ Len(c.send) \in Nat
      /\ taken \in Nat /\ Len(more) = taken
  BY Fields DEF ConnOK
<1> HIDE DEF taken
<1>2. /\ send \in Seq(Byte) /\ Len(send) = Len(c.send) + taken
      /\ \A i \in 1 .. Len(c.send) + taken :
           send[i] = IF i <= Len(c.send) THEN c.send[i] ELSE more[i - Len(c.send)]
  <2>1. /\ send \in Seq(Byte) /\ Len(send) = Len(c.send) + Len(more)
        /\ \A i \in 1 .. Len(c.send) + Len(more) :
             send[i] = IF i <= Len(c.send) THEN c.send[i] ELSE more[i - Len(c.send)]
    BY <1>1, ConcatProperties
  <2> HIDE DEF send
  <2> QED
    BY <1>1, <2>1
<1> HIDE DEF send
<1>3. /\ d \in Connection /\ d.send = send /\ d.state = c.state /\ d.una = c.una
      /\ d.nxt = c.nxt /\ d.recv = c.recv /\ d.rcv_nxt = c.rcv_nxt
      /\ d.fin_sent = c.fin_sent /\ d.peer_closed = c.peer_closed
  BY <1>1, <1>2 DEF Connection
<1>4. d = Given(c, more)
  BY DEF send, Given
<1> HIDE DEF d
<1>5. ConnOK(d)
  BY <1>1, <1>2, <1>3 DEF ConnOK
<1>6. ASSUME NEW i \in 1 .. Len(send)
      PROVE  send[i] = IF i <= Len(c.send) THEN c.send[i] ELSE k + i - Len(c.send)
  <2>1. i > Len(c.send) => i - Len(c.send) \in 1 .. taken
    BY <1>1, <1>2
  <2>2. i > Len(c.send) => more[i - Len(c.send)] = k + (i - Len(c.send))
    BY <1>1, <2>1 DEF Follows
  <2>3. i \in 1 .. Len(c.send) + taken /\ i \in Int /\ Len(c.send) \in Int
    BY <1>1, <1>2
  <2>4. k + (i - Len(c.send)) = k + i - Len(c.send)
    BY <2>3
  <2>5. send[i] = IF i <= Len(c.send) THEN c.send[i] ELSE more[i - Len(c.send)]
    BY <1>2, <2>3
  <2>6. CASE i <= Len(c.send)
    BY <2>5, <2>6
  <2>7. CASE ~(i <= Len(c.send))
    <3>1. i > Len(c.send)
      BY <2>3, <2>7
    <3>2. send[i] = more[i - Len(c.send)]
      BY <2>5, <2>7
    <3>3. send[i] = k + i - Len(c.send)
      BY <3>1, <3>2, <2>2, <2>4
    <3> QED
      BY <3>3, <2>7
  <2> QED
    BY <2>6, <2>7
<1>7. Continues(d.send, c.send, k)
  BY <1>3, <1>6 DEF Continues
<1> QED
  BY <1>1, <1>2, <1>3, <1>4, <1>5, <1>7

\* The bytes a call takes out of the receive buffer.
TakenOut(c, n) == SubSeq(c.recv, 1, Smaller(n, Len(c.recv)))
LeftOver(c, n) == [c EXCEPT !.recv = SubSeq(@, Smaller(n, Len(c.recv)) + 1, Len(@))]

LEMMA RecvType ==
  ASSUME NEW c, ConnOK(c), NEW n \in Nat, c.recv # <<>>
  PROVE  LET d    == LeftOver(c, n)
             read == TakenOut(c, n)
         IN  /\ read \in Seq(Byte) /\ ConnOK(d) /\ ConnOK([d EXCEPT !.need_ack = TRUE])
             /\ read \o d.recv = c.recv
             /\ d.state = c.state /\ d.una = c.una /\ d.nxt = c.nxt /\ d.send = c.send
             /\ d.rcv_nxt = c.rcv_nxt /\ d.fin_sent = c.fin_sent
             /\ d.peer_closed = c.peer_closed
<1> DEFINE taken == Smaller(n, Len(c.recv))
           read  == SubSeq(c.recv, 1, taken)
           left  == SubSeq(c.recv, taken + 1, Len(c.recv))
           d     == [c EXCEPT !.recv = left]
           x     == [d EXCEPT !.need_ack = TRUE]
<1>1. c \in Connection /\ c.recv \in Seq(Byte) /\ Len(c.recv) \in Nat
  BY Fields DEF ConnOK
<1>2. taken \in Nat /\ taken <= Len(c.recv)
  BY <1>1 DEF Smaller
<1> HIDE DEF taken
<1>3. /\ read \in Seq(Byte) /\ left \in Seq(Byte)
      /\ Len(read) = taken /\ Len(left) = Len(c.recv) - taken
      /\ \A i \in 1 .. taken : read[i] = c.recv[i]
      /\ \A i \in 1 .. Len(c.recv) - taken : left[i] = c.recv[taken + i]
  <2>1. \A i \in 1 .. Len(c.recv) : c.recv[i] \in Byte
    BY <1>1, ElementOfSeq
  <2>2. /\ \A i \in 1 .. taken : c.recv[i] \in Byte
        /\ \A i \in taken + 1 .. Len(c.recv) : c.recv[i] \in Byte
    BY <1>1, <1>2, <2>1
  <2>3. taken \in Int /\ taken + 1 \in Int /\ Len(c.recv) \in Int /\ 1 \in Int
    BY <1>1, <1>2
  <2>4. /\ read \in Seq(Byte) /\ Len(read) = IF 1 <= taken THEN taken - 1 + 1 ELSE 0
        /\ \A i \in 1 .. taken - 1 + 1 : read[i] = c.recv[1 + i - 1]
    BY <2>2, <2>3, SubSeqProperties
  <2>5. /\ left \in Seq(Byte)
        /\ Len(left) = IF taken + 1 <= Len(c.recv) THEN Len(c.recv) - (taken + 1) + 1 ELSE 0
        /\ \A i \in 1 .. Len(c.recv) - (taken + 1) + 1 : left[i] = c.recv[taken + 1 + i - 1]
    BY <2>2, <2>3, SubSeqProperties
  <2> HIDE DEF read, left
  <2> QED
    BY <1>1, <1>2, <2>4, <2>5
<1> HIDE DEF read, left
<1>4. read \o left = c.recv
  <2> DEFINE whole == read \o left
  <2>1. /\ whole \in Seq(Byte) /\ Len(whole) = Len(c.recv)
        /\ \A i \in 1 .. Len(c.recv) :
             whole[i] = IF i <= taken THEN read[i] ELSE left[i - taken]
    <3>1. Len(read) + Len(left) = Len(c.recv)
      BY <1>1, <1>2, <1>3
    <3>2. /\ whole \in Seq(Byte) /\ Len(whole) = Len(read) + Len(left)
          /\ \A i \in 1 .. Len(read) + Len(left) :
               whole[i] = IF i <= Len(read) THEN read[i] ELSE left[i - Len(read)]
      <4>1. read \in Seq(Byte) /\ left \in Seq(Byte)
        BY <1>3
      <4> QED
        BY <4>1, ConcatProperties
    <3> HIDE DEF whole
    <3>3. Len(read) = taken
      BY <1>3
    <3> QED
      BY <3>1, <3>2, <3>3
  <2> HIDE DEF whole
  <2>2. ASSUME NEW i \in 1 .. Len(c.recv)
        PROVE  whole[i] = c.recv[i]
    <3>1. i \in Int /\ taken \in Int
      BY <1>2
    <3>2. CASE i <= taken
      <4>1. i \in 1 .. taken
        BY <3>1, <3>2
      <4> QED
        BY <1>3, <2>1, <3>2, <4>1
    <3>3. CASE ~(i <= taken)
      <4>1. i - taken \in 1 .. Len(c.recv) - taken /\ taken + (i - taken) = i
        BY <1>1, <1>2, <3>1, <3>3
      <4> QED
        BY <1>3, <2>1, <3>3, <4>1
    <3> QED
      BY <3>2, <3>3
  <2> QED
    BY <1>1, <2>1, <2>2, SeqEqual DEF whole
<1>5. /\ d \in Connection /\ d.recv = left /\ d.state = c.state /\ d.una = c.una
      /\ d.nxt = c.nxt /\ d.send = c.send /\ d.rcv_nxt = c.rcv_nxt
      /\ d.fin_sent = c.fin_sent /\ d.peer_closed = c.peer_closed
  BY <1>1, <1>3 DEF Connection
<1> HIDE DEF d
<1>6. x \in Connection /\ x.recv = left /\ x.send = c.send
  BY <1>5 DEF Connection
<1> HIDE DEF x
<1>7. ConnOK(d) /\ ConnOK(x)
  <2>1. Len(left) <= RECEIVE_BUFFER
    BY <1>1, <1>2, <1>3, Sizes DEF ConnOK
  <2> QED
    BY <1>5, <1>6, <2>1 DEF ConnOK
<1>8. d = LeftOver(c, n) /\ x = [d EXCEPT !.need_ack = TRUE] /\ read = TakenOut(c, n)
  BY DEF d, left, x, read, taken, LeftOver, TakenOut
<1> QED
  BY <1>3, <1>4, <1>5, <1>7, <1>8

LEMMA ConnectType ==
  LET c == [NewConnection("SynSent") EXCEPT !.una = ClientIss, !.nxt = ClientIss]
      d == NewConnection("SynSent")
  IN  /\ ConnOK(c) /\ c.una = ClientIss /\ c.nxt = ClientIss
      /\ c.state = "SynSent" /\ c.send = <<>> /\ c.recv = <<>> /\ ~c.fin_sent
      /\ ~c.peer_closed
<1> DEFINE d == NewConnection("SynSent")
           c == [d EXCEPT !.una = ClientIss, !.nxt = ClientIss]
<1>1. ConnOK(d)
  BY NewType DEF States
<1>2. /\ d.state = "SynSent" /\ d.send = <<>> /\ d.recv = <<>> /\ ~d.fin_sent
      /\ ~d.peer_closed
  BY DEF NewConnection
<1> HIDE DEF d
<1>3. /\ c \in Connection /\ c.una = ClientIss /\ c.nxt = ClientIss
      /\ c.state = d.state /\ c.send = d.send /\ c.recv = d.recv /\ c.fin_sent = d.fin_sent
      /\ c.peer_closed = d.peer_closed
  BY <1>1, Sizes DEF ConnOK, Connection
<1> HIDE DEF c
<1>4. ConnOK(c)
  BY <1>1, <1>3 DEF ConnOK
<1> QED
  BY <1>2, <1>3, <1>4 DEF c, d

LEMMA AcceptSynType ==
  ASSUME NEW s \in Segment
  PROVE  LET c == accept_syn(s) IN
         /\ ConnOK(c) /\ c.una = ServerIss /\ c.nxt = ServerIss
         /\ c.state = "SynReceived" /\ c.send = <<>> /\ c.recv = <<>> /\ ~c.fin_sent
         /\ ~c.peer_closed /\ c.rcv_nxt = Plus(s.seq, 1)
<1> DEFINE d == NewConnection("SynReceived")
           n == Plus(s.seq, 1)
           c == [d EXCEPT !.una = ServerIss, !.nxt = ServerIss, !.rcv_nxt = n, !.wnd = s.wnd,
                          !.need_ack = TRUE]
<1>1. ConnOK(d)
  BY NewType DEF States
<1>2. /\ d.state = "SynReceived" /\ d.send = <<>> /\ d.recv = <<>> /\ ~d.fin_sent
      /\ ~d.peer_closed
  BY DEF NewConnection
<1>3. n \in Number /\ s.wnd \in 0 .. RECEIVE_BUFFER
  BY PlusType DEF Segment
<1>4. accept_syn(s) = c
  BY DEF accept_syn
<1> HIDE DEF d, n
<1>5. /\ c \in Connection /\ c.una = ServerIss /\ c.nxt = ServerIss /\ c.rcv_nxt = n
      /\ c.state = d.state /\ c.send = d.send /\ c.recv = d.recv /\ c.fin_sent = d.fin_sent
      /\ c.peer_closed = d.peer_closed
  BY <1>1, <1>3, Sizes DEF ConnOK, Connection
<1> HIDE DEF c
<1>6. ConnOK(c)
  BY <1>1, <1>5 DEF ConnOK
<1> QED
  BY <1>2, <1>4, <1>5, <1>6 DEF n

LEMMA RejectType ==
  ASSUME NEW s \in Segment
  PROVE  Reject(s) \in Segment /\ "RST" \in Reject(s).flags /\ Reject(s).data = <<>>
         /\ Reject(s).flags \subseteq {"RST", "ACK"}
<1>1. s.ack \in Number /\ 0 \in Number /\ 0 \in 0 .. RECEIVE_BUFFER /\ <<>> \in Seq(Byte)
  BY Sizes, Modulus DEF Segment, Number
<1>2. Plus(s.seq, span(s)) \in Number
  <2>1. s.seq \in Number /\ Len(s.data) \in Nat
    BY DEF Segment
  <2>2. span(s) \in Int
    BY <2>1 DEF span
  <2> QED
    BY <2>1, <2>2, PlusType
<1> QED
  BY <1>1, <1>2 DEF Reject, segment, Segment, Flags

LEMMA WithoutType ==
  ASSUME NEW q \in Seq(Segment), NEW i \in 2 .. Len(q)
  PROVE  /\ q[i] \in Segment /\ Without(q, i) \in Seq(Segment)
         /\ \A j \in 1 .. Len(Without(q, i)) : \E k \in 1 .. Len(q) : Without(q, i)[j] = q[k]
<1> DEFINE before1 == SubSeq(q, 1, i - 1)
           after1  == SubSeq(q, i + 1, Len(q))
<1>1. Len(q) \in Nat /\ \A k \in 1 .. Len(q) : q[k] \in Segment
  BY ElementOfSeq
<1>2. /\ before1 \in Seq(Segment)
      /\ \A j \in 1 .. Len(before1) : \E k \in 1 .. Len(q) : before1[j] = q[k]
  <2>1. \A k \in 1 .. i - 1 : k \in 1 .. Len(q)
    BY <1>1
  <2>2. /\ before1 \in Seq(Segment) /\ Len(before1) = IF 1 <= i - 1 THEN i - 1 - 1 + 1 ELSE 0
        /\ \A j \in 1 .. i - 1 - 1 + 1 : before1[j] = q[1 + j - 1]
    BY <1>1, <2>1, SubSeqProperties
  <2> HIDE DEF before1
  <2> QED
    BY <1>1, <2>2
<1>3. /\ after1 \in Seq(Segment)
      /\ \A j \in 1 .. Len(after1) : \E k \in 1 .. Len(q) : after1[j] = q[k]
  <2>1. \A k \in i + 1 .. Len(q) : k \in 1 .. Len(q)
    BY <1>1
  <2>2. /\ after1 \in Seq(Segment)
        /\ Len(after1) = IF i + 1 <= Len(q) THEN Len(q) - (i + 1) + 1 ELSE 0
        /\ \A j \in 1 .. Len(q) - (i + 1) + 1 : after1[j] = q[i + 1 + j - 1]
    BY <1>1, <2>1, SubSeqProperties
  <2> HIDE DEF after1
  <2> QED
    BY <1>1, <2>2
<1> HIDE DEF before1, after1
<1>4. /\ before1 \o after1 \in Seq(Segment)
      /\ \A j \in 1 .. Len(before1 \o after1) : \E k \in 1 .. Len(q) : (before1 \o after1)[j] = q[k]
  <2> DEFINE whole == before1 \o after1
  <2>1. /\ whole \in Seq(Segment) /\ Len(whole) = Len(before1) + Len(after1)
        /\ \A j \in 1 .. Len(before1) + Len(after1) :
             whole[j] = IF j <= Len(before1) THEN before1[j] ELSE after1[j - Len(before1)]
    BY <1>2, <1>3, ConcatProperties
  <2> HIDE DEF whole
  <2>2. Len(before1) \in Nat /\ Len(after1) \in Nat
    BY <1>2, <1>3
  <2>3. ASSUME NEW j \in 1 .. Len(whole)
        PROVE  \E k \in 1 .. Len(q) : whole[j] = q[k]
    <3>1. CASE j <= Len(before1)
      <4>1. j \in 1 .. Len(before1) /\ whole[j] = before1[j]
        BY <2>1, <2>2, <3>1
      <4> QED
        BY <1>2, <4>1
    <3>2. CASE ~(j <= Len(before1))
      <4>1. j - Len(before1) \in 1 .. Len(after1) /\ whole[j] = after1[j - Len(before1)]
        BY <2>1, <2>2, <3>2
      <4> QED
        BY <1>3, <4>1
    <3> QED
      BY <3>1, <3>2
  <2> QED
    BY <2>1, <2>3 DEF whole
<1> QED
  BY <1>1, <1>4 DEF Without, before1, after1

\* A segment is handled.
LEMMA HandleType ==
  ASSUME TypeOK, NEW e \in Ends, NEW s \in Segment, NEW rest \in Seq(Segment),
         NEW cost \in Nat, faults + cost <= MaxFaults, Handle(e, s, rest, cost)
  PROVE  /\ conn' \in [Ends -> Connection] /\ net' \in [Ends -> Seq(Segment)]
         /\ \A d \in Ends : ConnOK(conn'[d])
         /\ faults' \in 0 .. MaxFaults /\ overtook' \in [Ends -> BOOLEAN]
         /\ born' \in [Ends -> BOOLEAN] /\ backlog' \in BOOLEAN
         /\ arrived' \in [Ends -> Nat] /\ partly' \in [Ends -> BOOLEAN]
<1> DEFINE c == [conn[e] EXCEPT !.wnd = s.wnd]
           d == Handled(c, s)
<1>1. /\ conn \in [Ends -> Connection] /\ net \in [Ends -> Seq(Segment)]
      /\ \A x \in Ends : ConnOK(conn[x])
      /\ faults \in Nat /\ MaxFaults \in Nat /\ overtook \in [Ends -> BOOLEAN]
      /\ born \in [Ends -> BOOLEAN] /\ backlog \in BOOLEAN
      /\ arrived \in [Ends -> Nat] /\ partly \in [Ends -> BOOLEAN]
      /\ other(e) \in Ends /\ other(e) # e
  BY Sizes, OtherEnd DEF TypeOK, ConnOK
<1>2. /\ s.wnd \in 0 .. RECEIVE_BUFFER /\ s.ack \in Number /\ s.seq \in Number
      /\ s.data \in Seq(Byte) /\ s.flags \in SUBSET Flags
  BY DEF Segment
<1>3. ConnOK(c) /\ ConnOK(d)
  BY <1>1, <1>2, CalledType, HandledType
<1>4. \A x : ConnOK(x) => x \in Connection
  BY DEF ConnOK
<1>5. CASE /\ born' = [born EXCEPT ![Server] = TRUE]
           /\ Pump(e, accept_syn(s), rest, cost, {})
           /\ UNCHANGED <<backlog, arrived, partly>>
  <2>1. ConnOK(accept_syn(s))
    BY <1>2, AcceptSynType
  <2> QED
    BY <1>1, <1>5, <2>1, PumpType DEF Ends
<1>6. CASE /\ conn' = [conn EXCEPT ![e] = NoConnection]
           /\ net' = [net EXCEPT ![e] = rest,
                  ![other(e)] = IF "RST" \in s.flags THEN @ ELSE Append(@, Reject(s))]
           /\ faults' = faults + cost
           /\ UNCHANGED <<born, backlog, arrived, overtook, partly>>
  <2> DEFINE more == IF "RST" \in s.flags THEN net[other(e)] ELSE Append(net[other(e)], Reject(s))
  <2>1. more \in Seq(Segment)
    BY <1>1, RejectType
  <2>2. net' = [net EXCEPT ![e] = rest, ![other(e)] = more]
    BY <1>1, <1>6
  <2> HIDE DEF more
  <2>3. net' \in [Ends -> Seq(Segment)]
    BY <1>1, <2>1, <2>2
  <2>4. conn' \in [Ends -> Connection] /\ \A x \in Ends : ConnOK(conn'[x])
    BY <1>1, <1>4, <1>6, NoneType
  <2>5. faults' \in 0 .. MaxFaults
    BY <1>1, <1>6
  <2> QED
    BY <1>1, <1>6, <2>3, <2>4, <2>5
<1>7. CASE /\ conn' = [conn EXCEPT ![e].reset = TRUE, ![e].state = "Closed"]
           /\ net' = [net EXCEPT ![e] = rest]
           /\ faults' = faults + cost
           /\ UNCHANGED <<born, backlog, arrived, overtook, partly>>
  <2> DEFINE x == [conn[e] EXCEPT !.reset = TRUE, !.state = "Closed"]
  <2>1. ConnOK(x)
    BY <1>1, CalledType
  <2>2. conn' = [conn EXCEPT ![e] = x]
    BY <1>1, <1>7
  <2> HIDE DEF x
  <2>3. conn' \in [Ends -> Connection] /\ \A y \in Ends : ConnOK(conn'[y])
    BY <1>1, <1>4, <2>1, <2>2
  <2>4. faults' \in 0 .. MaxFaults
    BY <1>1, <1>7
  <2> QED
    BY <1>1, <1>7, <2>3, <2>4
<1>8. CASE /\ arrived' = [arrived EXCEPT ![e] = @ + Len(d.recv) - Len(c.recv)]
           /\ partly' = [partly EXCEPT ![e] = IF d.una = c.una THEN @ ELSE in_flight(d) > 0]
           /\ Pump(e, d, rest, cost, IF e = Server THEN {"Closed"} ELSE {})
           /\ backlog' \in BOOLEAN
           /\ UNCHANGED born
  <2>1. Len(c.recv) \in Nat /\ Len(d.recv) \in Nat /\ Len(c.recv) <= Len(d.recv)
    BY <1>2, <1>3, HandledGrows
  <2> HIDE DEF c, d
  <2>2. arrived' \in [Ends -> Nat]
    <3>1. arrived[e] + Len(d.recv) - Len(c.recv) \in Nat
      <4>1. \A x, y, z \in Nat : y <= z => x + z - y \in Nat
        OBVIOUS
      <4>2. arrived[e] \in Nat
        BY <1>1
      <4> QED
        BY <2>1, <4>1, <4>2
    <3> QED
      BY <1>1, <1>8, <3>1
  <2>3. partly' \in [Ends -> BOOLEAN]
    <3> DEFINE some == IF d.una = c.una THEN partly[e] ELSE in_flight(d) > 0
    <3>1. some \in BOOLEAN
      <4>1. in_flight(d) \in Nat
        BY <1>3, InFlightType, Modulus DEF ConnOK, Number
      <4>2. (in_flight(d) > 0) \in BOOLEAN
        BY <4>1
      <4> QED
        BY <1>1, <4>2
    <3>2. partly' = [partly EXCEPT ![e] = some]
      BY <1>8
    <3> HIDE DEF some
    <3> QED
      BY <1>1, <3>1, <3>2
  <2>4. /\ conn' \in [Ends -> Connection] /\ net' \in [Ends -> Seq(Segment)]
        /\ \A x \in Ends : ConnOK(conn'[x])
        /\ faults' \in 0 .. MaxFaults /\ overtook' \in [Ends -> BOOLEAN]
    BY <1>3, <1>8, PumpType
  <2> QED
    BY <1>1, <1>8, <2>2, <2>3, <2>4
<1> QED
  BY <1>5, <1>6, <1>7, <1>8 DEF Handle

LEMMA InitType == Init => TypeOK
<1> SUFFICES ASSUME Init PROVE TypeOK
  OBVIOUS
<1>1. NoConnection \in Connection /\ Len(NoConnection.recv) <= RECEIVE_BUFFER
      /\ Len(NoConnection.send) <= SEND_BUFFER
  BY NoneType DEF ConnOK
<1>2. <<>> \in Seq(Segment) /\ <<>> \in Seq(Byte) /\ 0 \in 0 .. MaxFaults
  BY Sizes
<1> QED
  BY <1>1, <1>2 DEF Init, TypeOK

LEMMA TypeInduction ==
  ASSUME TypeOK, [Next]_vars
  PROVE  TypeOK'
<1>1. /\ conn \in [Ends -> Connection] /\ net \in [Ends -> Seq(Segment)]
      /\ using \in [Ends -> BOOLEAN] /\ looked \in [Ends -> BOOLEAN]
      /\ backlog \in BOOLEAN /\ born \in [Ends -> BOOLEAN]
      /\ faults \in Nat /\ faults <= MaxFaults /\ MaxFaults \in Nat
      /\ sent \in [Ends -> Nat] /\ got \in [Ends -> Seq(Byte)] /\ arrived \in [Ends -> Nat]
      /\ ended \in [Ends -> BOOLEAN] /\ overtook \in [Ends -> BOOLEAN]
      /\ partly \in [Ends -> BOOLEAN]
  BY Sizes DEF TypeOK
<1>2. \A e \in Ends : ConnOK(conn[e]) /\ conn[e] \in Connection /\ net[e] \in Seq(Segment)
  BY DEF TypeOK, ConnOK
<1>3. \A x : ConnOK(x) => x \in Connection
  BY DEF ConnOK
<1>4. 0 \in Nat /\ faults + 0 <= MaxFaults
  BY <1>1
\* A step is well typed if each variable it writes is.
<1> DEFINE Rest == /\ using' \in [Ends -> BOOLEAN] /\ looked' \in [Ends -> BOOLEAN]
                   /\ backlog' \in BOOLEAN /\ born' \in [Ends -> BOOLEAN]
                   /\ sent' \in [Ends -> Nat] /\ got' \in [Ends -> Seq(Byte)]
                   /\ arrived' \in [Ends -> Nat] /\ ended' \in [Ends -> BOOLEAN]
                   /\ partly' \in [Ends -> BOOLEAN]
           Core == /\ conn' \in [Ends -> Connection] /\ net' \in [Ends -> Seq(Segment)]
                   /\ \A d \in Ends : ConnOK(conn'[d])
                   /\ faults' \in 0 .. MaxFaults /\ overtook' \in [Ends -> BOOLEAN]
<1>5. Core /\ Rest => TypeOK'
  BY DEF TypeOK, ConnOK
<1>6. UNCHANGED <<conn, net, faults, overtook>> => Core
  BY <1>1, <1>2
<1>7. ASSUME NEW e \in Ends, NEW c, ConnOK(c), NEW freed, Pump(e, c, net[e], 0, freed)
      PROVE  Core
  BY <1>1, <1>2, <1>4, <1>7, PumpType
<1>8. ASSUME NEW e \in Ends, NEW c, ConnOK(c), conn' = [conn EXCEPT ![e] = c],
             net' \in [Ends -> Seq(Segment)],
             faults' \in 0 .. MaxFaults, UNCHANGED overtook
      PROVE  Core
  BY <1>1, <1>2, <1>3, <1>8
<1> HIDE DEF Core, Rest
<1>9. CASE Connect
  <2> DEFINE c == [NewConnection("SynSent") EXCEPT !.una = ClientIss, !.nxt = ClientIss]
  <2>1. ConnOK(c) /\ Client \in Ends
    BY ConnectType DEF Ends
  <2> HIDE DEF c
  <2>2. Core
    BY <1>7, <1>9, <2>1 DEF Connect, c
  <2>3. Rest
    BY <1>1, <1>9 DEF Connect, Rest
  <2> QED
    BY <1>5, <2>2, <2>3
<1>10. CASE Accept
  <2>1. Core
    BY <1>6, <1>10 DEF Accept, history
  <2>2. Rest
    BY <1>1, <1>10 DEF Accept, history, Rest
  <2> QED
    BY <1>5, <2>1, <2>2
<1>11. ASSUME NEW e \in Ends, NEW n \in 1 .. Bytes(e), Send(e, n)
       PROVE  TypeOK'
  <2> DEFINE c     == conn[e]
             taken == Smaller(n, SEND_BUFFER - Len(c.send))
             more  == [k \in 1 .. taken |-> sent[e] + k]
             x     == [c EXCEPT !.send = @ \o more]
  <2>1. taken > 0 /\ sent' = [sent EXCEPT ![e] = @ + taken] /\ Pump(e, x, net[e], 0, {})
    BY <1>11 DEF Send
  <2>2. n \in Nat /\ sent[e] \in Nat
    BY <1>1, Modulus
  <2>3. ConnOK(x) /\ taken \in Nat
    <3>1. ConnOK(c)
      BY <1>2
    <3>2. taken \in Nat /\ Len(c.send) + taken <= SEND_BUFFER
      BY <2>1, <2>2, <3>1, TakenType
    <3> HIDE DEF taken
    <3>3. more \in Seq(Byte) /\ Len(more) = taken /\ Follows(more, sent[e])
      BY <2>2, <3>2, NumberedType
    <3> HIDE DEF more
    <3>4. ConnOK(Given(c, more))
      <4> HIDE DEF c
      <4> QED
        BY <2>2, <3>1, <3>2, <3>3, SendType
    <3> QED
      BY <3>2, <3>4 DEF Given
  <2> HIDE DEF x, taken
  <2>4. Core
    BY <1>7, <2>1, <2>3
  <2>5. sent' \in [Ends -> Nat]
    BY <1>1, <2>1, <2>3
  <2>6. Rest
    BY <1>1, <1>11, <2>5 DEF Send, Rest
  <2> QED
    BY <1>5, <2>4, <2>6
<1>12. ASSUME NEW e \in Ends, NEW n \in 1 .. RECEIVE_BUFFER, Recv(e, n)
       PROVE  TypeOK'
  <2> DEFINE c     == conn[e]
             x     == LeftOver(c, n)
             y     == [x EXCEPT !.need_ack = TRUE]
             read  == TakenOut(c, n)
  <2>1. /\ got' = [got EXCEPT ![e] = @ \o read]
        /\ \/ Pump(e, y, net[e], 0, {})
           \/ conn' = [conn EXCEPT ![e] = x] /\ UNCHANGED <<net, faults, overtook>>
    BY <1>12 DEF Recv, LeftOver, TakenOut
  <2>2. n \in Nat /\ c.recv # <<>>
    BY <1>12, Sizes DEF Recv
  <2>3. ConnOK(x) /\ ConnOK(y) /\ read \in Seq(Byte)
    BY <1>2, <2>2, RecvType
  <2> HIDE DEF x, y, read
  <2>4. Core
    <3>1. faults \in 0 .. MaxFaults
      BY <1>1
    <3> QED
      BY <1>1, <1>7, <1>8, <2>1, <2>3, <3>1
  <2>5. got' \in [Ends -> Seq(Byte)]
    <3>1. got[e] \o read \in Seq(Byte)
      BY <1>1, <2>3, ConcatProperties
    <3> QED
      BY <1>1, <2>1, <3>1
  <2>6. Rest
    BY <1>1, <1>12, <2>5 DEF Recv, Rest
  <2> QED
    BY <1>5, <2>4, <2>6
<1>13. ASSUME NEW e \in Ends, FindNothing(e) \/ LookForEnd(e)
       PROVE  TypeOK'
  <2>1. Core
    BY <1>6, <1>13 DEF FindNothing, LookForEnd, history
  <2>2. Rest
    <3>1. CASE FindNothing(e)
      BY <1>1, <3>1 DEF FindNothing, history, Rest
    <3>2. CASE LookForEnd(e)
      <4>1. (ended[e] \/ (conn[e].peer_closed /\ ~conn[e].reset)) \in BOOLEAN
        BY <1>1, <1>2
      <4> QED
        BY <1>1, <3>2, <4>1 DEF LookForEnd, Rest
    <3> QED
      BY <1>13, <3>1, <3>2
  <2> QED
    BY <1>5, <2>1, <2>2
<1>14. ASSUME NEW e \in Ends, Shutdown(e) \/ Close(e)
       PROVE  TypeOK'
  <2>1. Core
    <3>1. /\ ConnOK([conn[e] EXCEPT !.closing = TRUE])
          /\ ConnOK([conn[e] EXCEPT !.closing = TRUE,
                                    !.state = IF @ = "SynSent" THEN "Closed" ELSE @])
      BY <1>2, CalledType
    <3>2. CASE Shutdown(e)
      BY <1>7, <3>1, <3>2 DEF Shutdown
    <3>3. CASE Close(e)
      BY <1>6, <1>7, <3>1, <3>3 DEF Close
    <3> QED
      BY <1>14, <3>2, <3>3
  <2>2. Rest
    BY <1>1, <1>14 DEF Shutdown, Close, Rest
  <2> QED
    BY <1>5, <2>1, <2>2
<1>15. ASSUME NEW e \in Ends, Die(e) \/ Lose(e) \/ Expire(e)
       PROVE  TypeOK'
  <2>1. Core
    <3>1. CASE Die(e)
      <4>1. faults' \in 0 .. MaxFaults
        BY <1>1, <3>1 DEF Die
      <4> QED
        BY <1>1, <1>8, <3>1, <4>1, NoneType DEF Die, history
    <3>2. CASE Lose(e)
      <4>1. faults' \in 0 .. MaxFaults
        BY <1>1, <3>2 DEF Lose
      <4>2. Tail(net[e]) \in Seq(Segment)
        BY <1>2, <3>2, HeadTailProperties DEF Lose
      <4>3. net' \in [Ends -> Seq(Segment)]
        BY <1>1, <3>2, <4>2 DEF Lose
      <4> QED
        BY <1>1, <1>2, <3>2, <4>1, <4>3 DEF Lose, history, Core
    <3>3. CASE Expire(e)
      <4>1. faults \in 0 .. MaxFaults
        BY <1>1
      <4> QED
        BY <1>1, <1>8, <3>3, <4>1, NoneType DEF Expire, history
    <3> QED
      BY <1>15, <3>1, <3>2, <3>3
  <2>2. Rest
    BY <1>1, <1>15 DEF Die, Lose, Expire, history, Rest
  <2> QED
    BY <1>5, <2>1, <2>2
<1>16. ASSUME NEW e \in Ends, Receive(e) \/ ReceiveLater(e)
       PROVE  TypeOK'
  <2>1. PICK s \in Segment, rest \in Seq(Segment), cost \in {0, 1} :
          faults + cost <= MaxFaults /\ Handle(e, s, rest, cost)
    <3>1. net[e] # <<>> => Head(net[e]) \in Segment /\ Tail(net[e]) \in Seq(Segment)
      BY <1>2, HeadTailProperties
    <3>2. CASE Receive(e)
      BY <1>4, <3>1, <3>2 DEF Receive
    <3>3. CASE ReceiveLater(e)
      <4>1. faults + 1 <= MaxFaults
        BY <1>1, <3>3 DEF ReceiveLater
      <4>2. CASE net[e] # <<>> /\ Handle(e, Head(net[e]), net[e], 1)
        BY <1>2, <3>1, <4>1, <4>2
      <4>3. CASE \E i \in 2 .. Len(net[e]) : Handle(e, net[e][i], Without(net[e], i), 1)
        <5>1. PICK i \in 2 .. Len(net[e]) : Handle(e, net[e][i], Without(net[e], i), 1)
          BY <4>3
        <5>2. net[e][i] \in Segment /\ Without(net[e], i) \in Seq(Segment)
          BY <1>2, WithoutType
        <5> QED
          BY <4>1, <5>1, <5>2
      <4> QED
        BY <3>3, <4>2, <4>3 DEF ReceiveLater
    <3> QED
      BY <1>16, <3>2, <3>3
  <2>2. cost \in Nat
    OBVIOUS
  <2>3. /\ Core
        /\ born' \in [Ends -> BOOLEAN] /\ backlog' \in BOOLEAN
        /\ arrived' \in [Ends -> Nat] /\ partly' \in [Ends -> BOOLEAN]
    BY <2>1, <2>2, HandleType DEF Core
  <2>4. Rest
    BY <1>1, <1>16, <2>3 DEF Receive, ReceiveLater, Rest
  <2> QED
    BY <1>5, <2>3, <2>4
<1>17. ASSUME NEW e \in Ends, Tick(e)
       PROVE  TypeOK'
  <2> DEFINE c == conn[e]
             cost == IF \A d \in Ends : net[d] = <<>> THEN 0 ELSE 1
  <2>1. /\ faults + cost <= MaxFaults
        /\ \/ Pump(e, [c EXCEPT !.timer = FALSE, !.retries = 0], net[e], cost, {})
           \/ /\ conn' = [conn EXCEPT ![e].reset = TRUE, ![e].state = "Closed"]
              /\ faults' = faults + cost
              /\ UNCHANGED <<net, overtook>>
           \/ ~GaveUp(c) /\ Pump(e, Rewound(c), net[e], cost, {})
    BY <1>17 DEF Tick
  <2>2. cost \in Nat
    OBVIOUS
  <2> HIDE DEF cost
  <2>3. Core
    <3>1. /\ ConnOK([c EXCEPT !.timer = FALSE, !.retries = 0])
          /\ ConnOK([c EXCEPT !.reset = TRUE, !.state = "Closed"])
          /\ ~GaveUp(c) => ConnOK(Rewound(c))
      BY <1>2, CalledType
    <3>2. \A x, freed : ConnOK(x) /\ Pump(e, x, net[e], cost, freed) => Core
      BY <1>1, <1>2, <2>1, <2>2, PumpType DEF Core
    <3>3. CASE /\ conn' = [conn EXCEPT ![e].reset = TRUE, ![e].state = "Closed"]
               /\ faults' = faults + cost
               /\ UNCHANGED <<net, overtook>>
      <4> DEFINE x == [c EXCEPT !.reset = TRUE, !.state = "Closed"]
      <4>1. conn' = [conn EXCEPT ![e] = x]
        BY <1>1, <3>3
      <4>2. faults' \in 0 .. MaxFaults
        BY <1>1, <2>1, <2>2, <3>3
      <4> QED
        BY <1>1, <1>8, <3>1, <3>3, <4>1, <4>2
    <3> QED
      BY <2>1, <3>1, <3>2, <3>3
  <2>4. Rest
    BY <1>1, <1>17 DEF Tick, Rest
  <2> QED
    BY <1>5, <2>3, <2>4
<1>18. CASE UNCHANGED vars
  BY <1>18 DEF vars, machine, history, TypeOK
<1> QED
  BY <1>9, <1>10, <1>11, <1>12, <1>13, <1>14, <1>15, <1>16, <1>17, <1>18
  DEF Next, Program, Network

\* Every variable keeps its shape, and no buffer its limit, whatever the
\* network does (the connection record of stream.rs).
THEOREM TcpTypeCorrect == Spec => []TypeOK
<1>1. Init => TypeOK
  BY InitType
<1>2. TypeOK /\ [Next]_vars => TypeOK'
  BY TypeInduction
<1> QED
  BY <1>1, <1>2, PTL DEF Spec

------------------------------------------------------------------------------
(***************************************************************************)
(* One direction of the stream.  Offsets are compared, never numbers: the  *)
(* number at offset k stands for it as long as k stays below SEQ.          *)
(***************************************************************************)
Iss(e)    == IF e = Client THEN ClientIss ELSE ServerIss
Num(e, k) == IF Iss(e) + k < SEQ THEN Iss(e) + k ELSE Iss(e) + k - SEQ

Opening == {"SynSent", "SynReceived"}
Synced  == {"SynReceived"} \cup Open \cup Closers

\* Bytes i, i + 1, ... of a stream.
Stretch(data, i) == \A j \in 1 .. Len(data) : data[j] = i + j - 1

\* The end has not sent its FIN: it may still get bytes to send.
Sending(began, c) == ~began \/ c.state \in Opening \cup Open

\* c is the end o, which was given n bytes; the other one has accepted A.
\* Everything up to u is acknowledged, p is the next offset to leave; p may lie
\* below u, when an answer comes after the timer has rewound the queue.
Sender(o, c, n, A) ==
  /\ c.state \in Opening =>
       /\ c.una = Num(o, 0) /\ c.nxt \in {Num(o, 0), Num(o, 1)}
       /\ c.send = <<>> /\ ~c.fin_sent /\ n = 0 /\ A = 0
  /\ c.state \in Open =>
       /\ \E u \in 1 .. A + 1, p \in 1 .. n + 1 :
            /\ c.una = Num(o, u) /\ c.nxt = Num(o, p)
            /\ Len(c.send) = n - u + 1 /\ Stretch(c.send, u)
       /\ ~c.fin_sent
  /\ c.state = "SynSent" => o = Client
  /\ c.state = "SynReceived" => o = Server

\* What a program has read, g, and what waits for it: the first bytes of the stream.
FromFirst(g, recv) == Stretch(g \o recv, 1)
Amount(g, recv)    == Len(g \o recv)

\* The number next expected behind A bytes, and behind the FIN once it is taken.
Expects(o, number, A, closed) == number = Num(o, A + 1 + (IF closed THEN 1 ELSE 0))

\* d is the end that receives from o; its program has read g.
Receiver(o, d, g, n, A) ==
  /\ FromFirst(g, d.recv) /\ Amount(g, d.recv) <= A
  /\ d.state # "none" => Amount(g, d.recv) = A
  /\ A <= n
  /\ d.state \in Opening => A = 0 /\ ~d.peer_closed
  /\ d.state \in Synced => Expects(o, d.rcv_nxt, A, d.peer_closed)

\* On the way from o: bytes it was given, at their numbers, and its SYN.
Carried(o, n, s) ==
  /\ s.data # <<>> => \E k \in 1 .. n :
       s.seq = Num(o, k) /\ Stretch(s.data, k) /\ k + Len(s.data) - 1 <= n
  /\ "SYN" \in s.flags =>
       /\ s.seq = Num(o, 0) /\ s.data = <<>>
       /\ s.flags = IF o = Client THEN {"SYN"} ELSE {"SYN", "ACK"}

\* On the way back to o: acknowledgements of what has been accepted.
Acknowledges(o, A, s) ==
  "ACK" \in s.flags /\ "RST" \notin s.flags =>
     \E a \in 1 .. A + 1 : s.ack = Num(o, a)

\* The FIN of o is on the way, or taken, or its program was told of the end.
Ended(q, d, told) == told \/ d.peer_closed \/ \E i \in 1 .. Len(q) : "FIN" \in q[i].flags

\* o is c, the other end is d; q and b are on the way to d and back; over, the
\* FIN of o left before its bytes; told, the program of d has read the end.
Direction(o, c, d, q, b, began, over, told, n, A, g) ==
  /\ n <= Bytes(o)
  /\ ~began => c.state = "none" /\ n = 0
  /\ Sender(o, c, n, A)
  /\ \A i \in 1 .. Len(q) : Carried(o, n, q[i])
  /\ Sending(began, c) =>
       /\ ~over /\ ~Ended(q, d, told)
       /\ \A i \in 1 .. Len(b) : Acknowledges(o, A, b[i])
  /\ ~over =>
       /\ Receiver(o, d, g, n, A)
       /\ c.state # "none" => n - Len(c.send) <= A
       /\ c.state \in Closers \/ Ended(q, d, told) => A = n

StreamOf(o) ==
  LET r == other(o) IN
  Direction(o, conn[o], conn[r], net[r], net[o], born[o], overtook[o], ended[r],
            sent[o], arrived[r], got[r])

Unborn(e) == ~born[e] => conn[e].state = "none" /\ arrived[e] = 0

\* Both directions of the stream, and no connection before its time.
Streams == \A o \in Ends : StreamOf(o) /\ Unborn(o)

IInv == TypeOK /\ Streams

------------------------------------------------------------------------------
(***************************************************************************)
(* Offsets and the numbers that stand for them.                            *)
(***************************************************************************)
LEMMA IssType == \A e \in Ends : Iss(e) \in Nat /\ Iss(e) < SEQ
BY Sizes, Modulus DEF Iss, Number

LEMMA NumType ==
  ASSUME NEW e \in Ends, NEW k \in Nat, k < SEQ
  PROVE  Num(e, k) \in Number
BY IssType, Modulus DEF Num, Number

\* Different offsets have different numbers.
LEMMA NumSame ==
  ASSUME NEW e \in Ends, NEW j \in Nat, j < SEQ, NEW k \in Nat, k < SEQ,
         Num(e, j) = Num(e, k)
  PROVE  j = k
BY IssType, Modulus DEF Num

LEMMA NumPlus ==
  ASSUME NEW e \in Ends, NEW k \in Nat, NEW n \in Nat, k + n < SEQ
  PROVE  Plus(Num(e, k), n) = Num(e, k + n)
<1>1. Iss(e) \in Nat /\ Iss(e) < SEQ /\ SEQ \in Nat /\ k < SEQ /\ n \in 0 .. SEQ
  BY IssType, Modulus
<1>2. Num(e, k) \in Number
  BY <1>1, NumType
<1>3. Plus(Num(e, k), n) = IF Num(e, k) + n < SEQ THEN Num(e, k) + n ELSE Num(e, k) + n - SEQ
  BY <1>1, <1>2, PlusValue
<1> QED
  BY <1>1, <1>3 DEF Num

LEMMA NumMinus ==
  ASSUME NEW e \in Ends, NEW j \in Nat, j < SEQ, NEW k \in Nat, k < SEQ
  PROVE  Minus(Num(e, j), Num(e, k)) = IF j >= k THEN j - k ELSE j - k + SEQ
<1>1. Num(e, j) \in Number /\ Num(e, k) \in Number
  BY NumType
<1>2. Minus(Num(e, j), Num(e, k)) =
        IF Num(e, j) >= Num(e, k) THEN Num(e, j) - Num(e, k) ELSE Num(e, j) - Num(e, k) + SEQ
  BY <1>1, MinusValue
<1> QED
  BY <1>2, IssType, Modulus DEF Num

\* The stream is short enough for the comparison modulo SEQ to be that of offsets.
LEMMA NumAfter ==
  ASSUME NEW e \in Ends, NEW j \in 0 .. Bytes(e) + 1, NEW k \in 0 .. Bytes(e) + 1
  PROVE  after(Num(e, j), Num(e, k)) <=> j > k
<1>1. /\ SEQ \in Nat /\ Bytes(e) \in Nat /\ 2 * (Bytes(e) + 2) < SEQ
      /\ j \in Nat /\ k \in Nat /\ j < SEQ /\ k < SEQ
      /\ j <= Bytes(e) + 1 /\ k <= Bytes(e) + 1
  BY Modulus
<1>2. after(Num(e, j), Num(e, k)) <=> Minus(Num(e, k), Num(e, j)) >= SEQ \div 2
  BY DEF after, before
<1>3. Minus(Num(e, k), Num(e, j)) = IF k >= j THEN k - j ELSE k - j + SEQ
  BY <1>1, NumMinus
<1>4. SEQ \div 2 \in Nat /\ SEQ >= 2 * (SEQ \div 2) /\ SEQ <= 2 * (SEQ \div 2) + 1
  BY <1>1
<1> DEFINE m == Minus(Num(e, k), Num(e, j))
           h == SEQ \div 2
<1>5. m = IF k >= j THEN k - j ELSE k - j + SEQ
  BY <1>3
<1>6. h \in Nat /\ SEQ >= 2 * h /\ SEQ <= 2 * h + 1
  BY <1>4
<1> HIDE DEF m, h
<1>7. m >= h <=> j > k
  <2>1. CASE k >= j
    <3>1. m = k - j
      BY <1>5, <2>1
    <3> QED
      BY <1>1, <1>6, <2>1, <3>1
  <2>2. CASE ~(k >= j)
    <3>1. m = k - j + SEQ
      BY <1>5, <2>2
    <3> QED
      BY <1>1, <1>6, <2>2, <3>1
  <2> QED
    BY <2>1, <2>2
<1> QED
  BY <1>2, <1>7 DEF m, h

------------------------------------------------------------------------------
(***************************************************************************)
(* Stretches of the stream.                                                *)
(***************************************************************************)
LEMMA ConcatParts ==
  ASSUME NEW S, NEW s \in Seq(S), NEW t \in Seq(S)
  PROVE  /\ s \o t \in Seq(S) /\ Len(s \o t) = Len(s) + Len(t)
         /\ \A i \in 1 .. Len(s) : (s \o t)[i] = s[i]
         /\ \A i \in 1 .. Len(t) : (s \o t)[Len(s) + i] = t[i]
<1>1. /\ s \o t \in Seq(S) /\ Len(s \o t) = Len(s) + Len(t)
      /\ \A i \in 1 .. Len(s) + Len(t) :
           (s \o t)[i] = IF i <= Len(s) THEN s[i] ELSE t[i - Len(s)]
  BY ConcatProperties
<1>2. Len(s) \in Nat /\ Len(t) \in Nat
  OBVIOUS
<1>3. ASSUME NEW i \in 1 .. Len(t)
      PROVE  (s \o t)[Len(s) + i] = t[i]
  <2>1. Len(s) + i \in 1 .. Len(s) + Len(t) /\ ~(Len(s) + i <= Len(s)) /\ Len(s) + i - Len(s) = i
    BY <1>2
  <2> QED
    BY <1>1, <2>1
<1>4. ASSUME NEW i \in 1 .. Len(s)
      PROVE  (s \o t)[i] = s[i]
  BY <1>1, <1>2
<1> QED
  BY <1>1, <1>3, <1>4

\* What is put behind a stretch goes on where it ends.
LEMMA StretchGrows ==
  ASSUME NEW s \in Seq(Byte), NEW t \in Seq(Byte), NEW k \in Nat,
         Stretch(s, k), Stretch(t, k + Len(s))
  PROVE  Stretch(s \o t, k)
<1>1. Len(s) \in Nat /\ Len(t) \in Nat
  OBVIOUS
<1>2. /\ Len(s \o t) = Len(s) + Len(t)
      /\ \A i \in 1 .. Len(s) : (s \o t)[i] = s[i]
      /\ \A i \in 1 .. Len(t) : (s \o t)[Len(s) + i] = t[i]
  BY ConcatParts
<1>3. ASSUME NEW j \in 1 .. Len(s \o t)
      PROVE  (s \o t)[j] = k + j - 1
  <2>1. CASE j <= Len(s)
    <3>1. j \in 1 .. Len(s)
      BY <1>1, <1>2, <2>1
    <3> QED
      BY <1>2, <3>1 DEF Stretch
  <2>2. CASE ~(j <= Len(s))
    <3>1. PICK i \in 1 .. Len(t) : j = Len(s) + i
      <4>1. j - Len(s) \in 1 .. Len(t) /\ j = Len(s) + (j - Len(s))
        BY <1>1, <1>2, <2>2
      <4> QED
        BY <4>1
    <3>2. (s \o t)[j] = t[i] /\ t[i] = k + Len(s) + i - 1
      BY <1>2, <3>1 DEF Stretch
    <3> QED
      BY <1>1, <3>1, <3>2
  <2> QED
    BY <2>1, <2>2
<1> QED
  BY <1>3 DEF Stretch

\* The beginning of a stretch.
LEMMA StretchBegins ==
  ASSUME NEW s \in Seq(Byte), NEW t \in Seq(Byte), NEW k \in Nat, Stretch(s \o t, k)
  PROVE  Stretch(s, k)
<1>1. Len(s) \in Nat /\ Len(t) \in Nat
  OBVIOUS
<1>2. /\ Len(s \o t) = Len(s) + Len(t)
      /\ \A i \in 1 .. Len(s) : (s \o t)[i] = s[i]
  BY ConcatParts
<1>3. ASSUME NEW j \in 1 .. Len(s)
      PROVE  s[j] = k + j - 1
  <2>1. j \in 1 .. Len(s \o t)
    BY <1>1, <1>2
  <2> QED
    BY <1>2, <2>1 DEF Stretch
<1> QED
  BY <1>3 DEF Stretch

\* A stretch without its first a bytes.
LEMMA StretchRest ==
  ASSUME NEW s \in Seq(Byte), NEW k \in Nat, Stretch(s, k), NEW a \in 0 .. Len(s)
  PROVE  /\ SubSeq(s, a + 1, Len(s)) \in Seq(Byte)
         /\ Len(SubSeq(s, a + 1, Len(s))) = Len(s) - a
         /\ Stretch(SubSeq(s, a + 1, Len(s)), k + a)
<1> DEFINE t == SubSeq(s, a + 1, Len(s))
<1>1. Len(s) \in Nat /\ a \in Nat /\ \A i \in 1 .. Len(s) : s[i] \in Byte
  BY ElementOfSeq
<1>2. a + 1 \in Nat /\ a + 1 \in 1 .. Len(s) + 1 /\ \A i \in a + 1 .. Len(s) : s[i] \in Byte
  BY <1>1
<1>3. /\ t \in Seq(Byte)
      /\ Len(t) = IF a + 1 <= Len(s) THEN Len(s) - (a + 1) + 1 ELSE 0
      /\ \A i \in 1 .. Len(s) - (a + 1) + 1 : t[i] = s[(a + 1) + i - 1]
  BY <1>1, <1>2, SubSeqProperties
<1> HIDE DEF t
<1>4. Len(t) = Len(s) - a
  BY <1>1, <1>3
<1>5. ASSUME NEW i \in 1 .. Len(t)
      PROVE  t[i] = k + a + i - 1
  <2>1. a + i \in 1 .. Len(s) /\ i \in 1 .. Len(s) - (a + 1) + 1 /\ (a + 1) + i - 1 = a + i
    BY <1>1, <1>4
  <2>2. t[i] = s[a + i] /\ s[a + i] = k + (a + i) - 1
    BY <1>3, <2>1 DEF Stretch
  <2> QED
    BY <1>1, <2>1, <2>2
<1>6. Stretch(t, k + a)
  BY <1>5 DEF Stretch
<1> QED
  BY <1>3, <1>4, <1>6 DEF t

\* The first a bytes of a stretch.
LEMMA StretchFirst ==
  ASSUME NEW s \in Seq(Byte), NEW k \in Nat, Stretch(s, k), NEW a \in 0 .. Len(s)
  PROVE  /\ SubSeq(s, 1, a) \in Seq(Byte) /\ Len(SubSeq(s, 1, a)) = a
         /\ Stretch(SubSeq(s, 1, a), k)
<1> DEFINE t == SubSeq(s, 1, a)
<1>1. Len(s) \in Nat /\ a \in Nat /\ \A i \in 1 .. Len(s) : s[i] \in Byte
  BY ElementOfSeq
<1>2. /\ t \in Seq(Byte) /\ Len(t) = IF 1 <= a THEN a - 1 + 1 ELSE 0
      /\ \A i \in 1 .. a - 1 + 1 : t[i] = s[1 + i - 1]
  <2>1. \A i \in 1 .. a : s[i] \in Byte
    BY <1>1
  <2> QED
    BY <1>1, <2>1, SubSeqProperties
<1> HIDE DEF t
<1>3. Len(t) = a
  BY <1>1, <1>2
<1>4. ASSUME NEW i \in 1 .. Len(t)
      PROVE  t[i] = k + i - 1
  <2>1. i \in 1 .. Len(s) /\ i \in 1 .. a - 1 + 1 /\ 1 + i - 1 = i
    BY <1>1, <1>3
  <2> QED
    BY <1>2, <2>1 DEF Stretch
<1>5. Stretch(t, k)
  BY <1>4 DEF Stretch
<1> QED
  BY <1>2, <1>3, <1>5 DEF t

------------------------------------------------------------------------------
(***************************************************************************)
(* Changes that leave a direction as it is.                                *)
(***************************************************************************)
SenderAlike(c, x) ==
  /\ x.state = c.state /\ x.una = c.una /\ x.nxt = c.nxt /\ x.send = c.send
  /\ x.fin_sent = c.fin_sent

ReceiverAlike(d, y) ==
  /\ y.state = d.state /\ y.recv = d.recv /\ y.rcv_nxt = d.rcv_nxt
  /\ y.peer_closed = d.peer_closed

LEMMA AlikeDirection ==
  ASSUME NEW o, NEW c, NEW d, NEW q, NEW b, NEW began, NEW over, NEW told,
         NEW n, NEW A, NEW g, Direction(o, c, d, q, b, began, over, told, n, A, g),
         NEW x, SenderAlike(c, x), NEW y, ReceiverAlike(d, y)
  PROVE  Direction(o, x, y, q, b, began, over, told, n, A, g)
<1>1. /\ Sender(o, x, n, A) <=> Sender(o, c, n, A)
      /\ Sending(began, x) <=> Sending(began, c)
      /\ x.state = c.state /\ x.send = c.send
  BY DEF SenderAlike, Sender, Sending
<1>2. /\ Receiver(o, y, g, n, A) <=> Receiver(o, d, g, n, A)
      /\ Ended(q, y, told) <=> Ended(q, d, told)
  BY DEF ReceiverAlike, Receiver, Ended
<1> QED
  BY <1>1, <1>2 DEF Direction

\* The sender's slot is given back, or its connection is reset or given up.
LEMMA SenderStops ==
  ASSUME NEW o, NEW c, NEW d, NEW q, NEW b, NEW began, NEW over, NEW told,
         NEW n, NEW A, NEW g, Direction(o, c, d, q, b, began, over, told, n, A, g),
         NEW x, \/ x.state = "none"
                \/ began /\ c.state # "none" /\ x.state = "Closed" /\ x.send = c.send
  PROVE  Direction(o, x, d, q, b, began, over, told, n, A, g)
<1>1. Sender(o, x, n, A)
  BY DEF Sender, Opening, Open
<1>2. x.state \notin Closers /\ x.state \notin Opening \cup Open
  BY DEF Closers, Opening, Open
<1>3. Sending(began, x) => Sending(began, c)
  BY <1>2 DEF Sending
<1>4. ~began => x.state = "none" /\ n = 0
  BY DEF Direction
<1>5. ~over /\ x.state # "none" => n - Len(x.send) <= A
  BY DEF Direction
<1> QED
  BY <1>1, <1>2, <1>3, <1>4, <1>5 DEF Direction

\* The same at the receiving end.
LEMMA ReceiverStops ==
  ASSUME NEW o, NEW c, NEW d, NEW q, NEW b, NEW began, NEW over, NEW told,
         NEW n \in Nat, NEW A \in Nat, NEW g \in Seq(Byte), d.recv \in Seq(Byte),
         Direction(o, c, d, q, b, began, over, told, n, A, g),
         NEW y, \/ y.state = "none" /\ y.recv = <<>> /\ ~y.peer_closed
                \/ /\ d.state # "none" /\ y.state = "Closed" /\ y.recv = d.recv
                   /\ y.peer_closed = d.peer_closed
  PROVE  Direction(o, c, y, q, b, began, over, told, n, A, g)
<1>1. y.state \notin Opening /\ y.state \notin Synced
  BY DEF Opening, Synced, Open, Closers
<1>2. Ended(q, y, told) => Ended(q, d, told)
  BY DEF Ended
<1>3. Receiver(o, d, g, n, A) => Receiver(o, y, g, n, A)
  <2> SUFFICES ASSUME Receiver(o, d, g, n, A)
               PROVE  Receiver(o, y, g, n, A)
    OBVIOUS
  <2>1. CASE y.state = "none" /\ y.recv = <<>>
    <3>1. Len(g) \in Nat /\ Len(d.recv) \in Nat /\ Len(g \o d.recv) = Len(g) + Len(d.recv)
      BY ConcatParts
    <3>2. Len(g) <= Len(g \o d.recv)
      BY <3>1
    <3>3. g \o y.recv = g
      BY <2>1
    <3>4. Stretch(g, 1) /\ Len(g) <= A
      BY <3>1, <3>2, StretchBegins DEF Receiver, FromFirst, Amount
    <3>5. FromFirst(g, y.recv) /\ Amount(g, y.recv) <= A
      BY <3>3, <3>4 DEF FromFirst, Amount
    <3> QED
      BY <1>1, <2>1, <3>5 DEF Receiver
  <2>2. CASE d.state # "none" /\ y.recv = d.recv
    BY <1>1, <2>2 DEF Receiver
  <2> QED
    BY <2>1, <2>2
<1> QED
  BY <1>2, <1>3 DEF Direction

\* What is on the way from the sender to q, and back to b.
MayCarry(o, c, n, q, s) ==
  \/ \E j \in 1 .. Len(q) : s = q[j]
  \/ /\ Carried(o, n, s)
     /\ "FIN" \in s.flags => c.state \in Closers

MayAnswer(o, c, began, A, b, s) ==
  \/ \E j \in 1 .. Len(b) : s = b[j]
  \/ Sending(began, c) => Acknowledges(o, A, s)

LEMMA Travels ==
  ASSUME NEW o, NEW c, NEW d, NEW q, NEW b, NEW began, NEW over, NEW told,
         NEW n, NEW A, NEW g, Direction(o, c, d, q, b, began, over, told, n, A, g),
         NEW x, \A i \in 1 .. Len(x) : MayCarry(o, c, n, q, x[i]),
         NEW y, \A i \in 1 .. Len(y) : MayAnswer(o, c, began, A, b, y[i])
  PROVE  Direction(o, c, d, x, y, began, over, told, n, A, g)
<1>1. \A i \in 1 .. Len(x) : Carried(o, n, x[i])
  BY DEF MayCarry, Direction
<1>2. Ended(x, d, told) => Ended(q, d, told) \/ c.state \in Closers
  BY DEF MayCarry, Ended
<1>3. c.state \in Closers => ~Sending(began, c)
  BY DEF Direction, Closers, Sending, Opening, Open
<1>4. Sending(began, c) => \A i \in 1 .. Len(y) : Acknowledges(o, A, y[i])
  BY DEF MayAnswer, Direction
<1> QED
  BY <1>1, <1>2, <1>3, <1>4 DEF Direction

------------------------------------------------------------------------------
(***************************************************************************)
(* A turn of tcp_pump, first for the direction its end sends in.           *)
(***************************************************************************)
LEMMA SendsWhere ==
  ASSUME NEW c, ConnOK(c)
  PROVE  /\ Sends(c) = "SYN" => c.state \in Opening
         /\ Sends(c) = "data" => c.state \in Open /\ sendable(c) > 0
         /\ Sends(c) = "FIN" => c.state \in Open \cup Closers /\ in_flight(c) = 0
         /\ Sends(c) = "ACK" => c.state \in Open \cup Closers
         /\ c.state = "none" => Sends(c) = "nothing"
<1>1. c.state = "none" => c.state \notin Opening /\ c.state \notin Open \cup Closers
  BY DEF Opening, Open, Closers
<1>2. c.reset \in BOOLEAN /\ c.closing \in BOOLEAN /\ c.fin_sent \in BOOLEAN /\ c.need_ack \in BOOLEAN
  BY Fields DEF ConnOK
<1>3. Sends(c) = "SYN" => c.state \in Opening
  BY <1>2 DEF Sends, Opening
<1>4. Sends(c) = "data" => c.state \in Open \cup Closers /\ sendable(c) > 0
  BY <1>2 DEF Sends
<1>5. Sends(c) = "FIN" => c.state \in Open \cup Closers /\ in_flight(c) = 0
  BY <1>2 DEF Sends, NothingInFlight
<1>6. Sends(c) = "ACK" => c.state \in Open \cup Closers
  BY <1>2 DEF Sends
<1>7. c.state = "none" => Sends(c) = "nothing"
  BY <1>1, <1>2 DEF Sends, Opening
<1>8. sendable(c) > 0 => c.state \in Open
  BY SendableType DEF ConnOK
<1> QED
  BY <1>3, <1>4, <1>5, <1>6, <1>7, <1>8

LEMMA AfterFinState ==
  ASSUME NEW c, c.state \in Open \cup Closers
  PROVE  AfterFin(c.state) \in Closers
BY DEF AfterFin, Open, Closers

\* Data leave behind what is already on the way, never ahead of it.
LEMMA DataOffsets ==
  ASSUME NEW o \in Ends, NEW c, ConnOK(c), NEW n \in Nat, NEW A \in Nat,
         n <= Bytes(o), A <= n, c.state \in Open, sendable(c) > 0, Sender(o, c, n, A)
  PROVE  \E u \in 1 .. A + 1, p \in 1 .. n + 1 :
           /\ c.una = Num(o, u) /\ c.nxt = Num(o, p)
           /\ Len(c.send) = n - u + 1 /\ Stretch(c.send, u)
           /\ p >= u /\ in_flight(c) = p - u
           /\ sendable(c) \in Nat /\ p + sendable(c) <= n + 1
<1>1. PICK u \in 1 .. A + 1, p \in 1 .. n + 1 :
         /\ c.una = Num(o, u) /\ c.nxt = Num(o, p)
         /\ Len(c.send) = n - u + 1 /\ Stretch(c.send, u)
  BY DEF Sender
<1>2. /\ sendable(c) \in Nat /\ in_flight(c) + sendable(c) <= Len(c.send)
      /\ in_flight(c) \in Nat
  BY SendableType, InFlightType DEF ConnOK, Number
<1>3. /\ SEQ \in Nat /\ u \in Nat /\ p \in Nat /\ u < SEQ /\ p < SEQ /\ n + 1 < SEQ
  BY Modulus
<1>4. in_flight(c) = IF p >= u THEN p - u ELSE p - u + SEQ
  <2>1. Minus(Num(o, p), Num(o, u)) = IF p >= u THEN p - u ELSE p - u + SEQ
    BY <1>3, NumMinus
  <2> QED
    BY <1>1, <2>1 DEF in_flight
<1>5. p >= u
  <2>1. ~(p >= u) => in_flight(c) = p - u + SEQ
    BY <1>4
  <2> QED
    BY <1>1, <1>2, <1>3, <2>1
<1>6. in_flight(c) = p - u
  BY <1>4, <1>5
<1>7. p + sendable(c) <= n + 1
  BY <1>1, <1>2, <1>3, <1>6
<1> QED
  BY <1>1, <1>2, <1>5, <1>6, <1>7

\* What leaves in a turn are bytes of the stream at their numbers.
LEMMA TurnCarries ==
  ASSUME NEW o \in Ends, NEW c, ConnOK(c), NEW n \in Nat, NEW A \in Nat,
         n <= Bytes(o), Sender(o, c, n, A), c.state \in Open => A <= n,
         NEW i \in 1 .. Len(Segments(c))
  PROVE  /\ Carried(o, n, Segments(c)[i])
         /\ "FIN" \in Segments(c)[i].flags => Sends(c) = "FIN"
<1> DEFINE s == Segments(c)[i]
<1>1. \/ /\ Sends(c) = "data" /\ s.flags = {"ACK"}
         /\ s.seq = Plus(c.nxt, (i - 1) * MSS)
         /\ s.data # <<>> =>
              LET from == in_flight(c) + (i - 1) * MSS IN
              /\ (i - 1) * MSS \in Nat
              /\ from + Len(s.data) <= in_flight(c) + sendable(c)
              /\ \A j \in 1 .. Len(s.data) : s.data[j] = c.send[from + j]
      \/ /\ Sends(c) = "SYN" /\ s.data = <<>> /\ s.seq = c.nxt
         /\ s.flags = IF c.state = "SynSent" THEN {"SYN"} ELSE {"SYN", "ACK"}
      \/ Sends(c) = "FIN" /\ s.data = <<>> /\ s.flags = {"ACK", "FIN"}
      \/ Sends(c) = "ACK" /\ s.data = <<>> /\ s.flags = {"ACK"}
  BY SegmentsShape
<1>2. Segments(c) \in Seq(Segment)
  BY SegmentsShape
<1>3. s.data \in Seq(Byte) /\ Len(s.data) \in Nat
  <2>1. s \in Segment
    BY <1>2, ElementOfSeq
  <2> HIDE DEF s
  <2>2. s.data \in Seq(Byte)
    BY <2>1 DEF Segment
  <2> QED
    BY <2>2
<1> HIDE DEF s
<1>4. CASE Sends(c) = "data"
  <2>1. /\ s.flags = {"ACK"} /\ s.seq = Plus(c.nxt, (i - 1) * MSS)
        /\ s.data # <<>> =>
              LET from == in_flight(c) + (i - 1) * MSS IN
              /\ (i - 1) * MSS \in Nat
              /\ from + Len(s.data) <= in_flight(c) + sendable(c)
              /\ \A j \in 1 .. Len(s.data) : s.data[j] = c.send[from + j]
    BY <1>1, <1>4
  <2>2. c.state \in Open /\ sendable(c) > 0
    BY <1>4, SendsWhere
  <2>3. PICK u \in 1 .. A + 1, p \in 1 .. n + 1 :
           /\ c.una = Num(o, u) /\ c.nxt = Num(o, p)
           /\ Len(c.send) = n - u + 1 /\ Stretch(c.send, u)
           /\ p >= u /\ in_flight(c) = p - u
           /\ sendable(c) \in Nat /\ p + sendable(c) <= n + 1
    BY <2>2, DataOffsets
  <2>4. ASSUME s.data # <<>>
        PROVE  \E k \in 1 .. n :
                 s.seq = Num(o, k) /\ Stretch(s.data, k) /\ k + Len(s.data) - 1 <= n
    <3> DEFINE off == (i - 1) * MSS
    <3>1. /\ off \in Nat
          /\ (p - u) + off + Len(s.data) <= (p - u) + sendable(c)
          /\ \A j \in 1 .. Len(s.data) : s.data[j] = c.send[(p - u) + off + j]
      BY <2>1, <2>3, <2>4
    <3> HIDE DEF off
    <3>2. Len(s.data) >= 1
      BY <1>3, <2>4
    <3> DEFINE l == Len(s.data)
               z == sendable(c)
    <3>7. /\ l \in Nat /\ l >= 1 /\ u \in Nat /\ p \in Nat /\ u >= 1 /\ p >= u
          /\ off \in Nat /\ z \in Nat /\ p + z <= n + 1
          /\ (p - u) + off + l <= (p - u) + z
      <4>1. l \in Nat /\ l >= 1 /\ off \in Nat /\ (p - u) + off + l <= (p - u) + z
        BY <1>3, <3>1, <3>2
      <4>2. z \in Nat /\ p + z <= n + 1 /\ p >= u
        BY <2>3
      <4>3. u \in Nat /\ p \in Nat /\ u >= 1
        OBVIOUS
      <4> QED
        BY <4>1, <4>2, <4>3
    <3> HIDE DEF l, z
    <3>3. p + off \in 1 .. n /\ p + off + l - 1 <= n
      BY <3>7
    <3>4. s.seq = Num(o, p + off)
      <4>1. p \in Nat /\ p + off < SEQ
        BY <3>3, Modulus
      <4>2. Plus(Num(o, p), off) = Num(o, p + off)
        BY <3>1, <4>1, NumPlus
      <4> QED
        BY <2>1, <2>3, <4>2 DEF off
    <3>5. ASSUME NEW j \in 1 .. Len(s.data)
          PROVE  s.data[j] = p + off + j - 1
      <4>1. (p - u) + off + j \in 1 .. Len(c.send)
        <5>1. j \in 1 .. l /\ Len(c.send) = n - u + 1
          BY <2>3 DEF l
        <5> QED
          BY <3>7, <5>1
      <4>2. c.send[(p - u) + off + j] = u + ((p - u) + off + j) - 1
        BY <2>3, <4>1 DEF Stretch
      <4>3. s.data[j] = c.send[(p - u) + off + j]
        BY <3>1
      <4>4. j \in Int
        OBVIOUS
      <4> QED
        BY <3>7, <4>2, <4>3, <4>4
    <3>6. Stretch(s.data, p + off)
      BY <3>5 DEF Stretch
    <3> QED
      BY <3>3, <3>4, <3>6 DEF l
  <2>5. "SYN" \notin s.flags /\ "FIN" \notin s.flags
    BY <2>1
  <2> QED
    BY <2>4, <2>5 DEF Carried, s
<1>5. CASE Sends(c) = "SYN"
  <2>1. /\ s.data = <<>> /\ s.seq = c.nxt
        /\ s.flags = IF c.state = "SynSent" THEN {"SYN"} ELSE {"SYN", "ACK"}
    BY <1>1, <1>5
  <2>2. c.state \in Opening /\ c.nxt = c.una
    BY <1>5 DEF Sends, Opening
  <2>3. c.una = Num(o, 0) /\ (o = Client <=> c.state = "SynSent")
    BY <2>2, Sizes DEF Sender, Opening
  <2> QED
    BY <1>5, <2>1, <2>2, <2>3 DEF Carried, s
<1>6. CASE Sends(c) \in {"FIN", "ACK"}
  <2>1. s.data = <<>> /\ "SYN" \notin s.flags /\ ("FIN" \in s.flags => Sends(c) = "FIN")
    BY <1>1, <1>6
  <2> QED
    BY <2>1 DEF Carried, s
<1> QED
  BY <1>1, <1>4, <1>5, <1>6

\* Where a turn leaves the sender.
LEMMA TurnSender ==
  ASSUME NEW o \in Ends, NEW c, ConnOK(c), NEW n \in Nat, NEW A \in Nat,
         n <= Bytes(o), Sender(o, c, n, A), c.state \in Open => A <= n
  PROVE  Sender(o, Sent(c), n, A)
<1> DEFINE d == Sent(c)
<1>1. /\ d.una = c.una /\ d.send = c.send
      /\ Sends(c) = "SYN"  => /\ d.nxt = Plus(c.nxt, 1) /\ d.state = c.state
                              /\ d.fin_sent = c.fin_sent
      /\ Sends(c) = "data" => /\ d.nxt = Plus(c.nxt, sendable(c)) /\ d.state = c.state
                              /\ d.fin_sent = c.fin_sent
      /\ Sends(c) = "FIN"  => d.state = AfterFin(c.state)
      /\ Sends(c) \notin {"SYN", "data", "FIN"} =>
           d.nxt = c.nxt /\ d.state = c.state /\ d.fin_sent = c.fin_sent
  BY SentShape
<1> SUFFICES Sender(o, d, n, A)
  OBVIOUS
<1> HIDE DEF d
<1>2. CASE Sends(c) = "SYN"
  <2>1. /\ d.nxt = Plus(c.nxt, 1) /\ d.state = c.state /\ d.fin_sent = c.fin_sent
        /\ c.state \in Opening /\ c.nxt = c.una
    BY <1>1, <1>2 DEF Sends, Opening
  <2>2. c.nxt = Num(o, 0) /\ c.state \notin Open
    BY <2>1 DEF Sender, Opening, Open
  <2>3. Plus(Num(o, 0), 1) = Num(o, 1)
    BY Modulus, NumPlus
  <2> QED
    BY <1>1, <2>1, <2>2, <2>3 DEF Sender
<1>3. CASE Sends(c) = "data"
  <2>1. c.state \in Open /\ sendable(c) > 0 /\ c.state \notin Opening
    BY <1>3, SendsWhere DEF Open, Opening
  <2>2. PICK u \in 1 .. A + 1, p \in 1 .. n + 1 :
           /\ c.una = Num(o, u) /\ c.nxt = Num(o, p)
           /\ Len(c.send) = n - u + 1 /\ Stretch(c.send, u)
           /\ p >= u /\ in_flight(c) = p - u
           /\ sendable(c) \in Nat /\ p + sendable(c) <= n + 1
    BY <2>1, DataOffsets
  <2> DEFINE z == sendable(c)
  <2>3. z \in Nat /\ p + z \in 1 .. n + 1 /\ p \in Nat /\ p + z < SEQ
    BY <2>2, Modulus
  <2>4. d.nxt = Plus(c.nxt, z) /\ d.state = c.state /\ d.fin_sent = c.fin_sent
    BY <1>1, <1>3
  <2> HIDE DEF z
  <2>5. d.nxt = Num(o, p + z)
    BY <2>2, <2>3, <2>4, NumPlus
  <2>6. c.state \notin Opening /\ ~c.fin_sent
    BY <2>1 DEF Sender
  <2>7. \E v \in 1 .. n + 1 : d.nxt = Num(o, v)
    BY <2>3, <2>5
  <2> QED
    BY <1>1, <2>2, <2>4, <2>6, <2>7 DEF Sender, Opening
<1>4. CASE Sends(c) = "FIN"
  <2>1. d.state \in Closers
    BY <1>1, <1>4, SendsWhere, AfterFinState
  <2> QED
    BY <2>1 DEF Sender, Closers, Open, Opening
<1>5. CASE Sends(c) \notin {"SYN", "data", "FIN"}
  BY <1>1, <1>5 DEF Sender
<1> QED
  BY <1>2, <1>3, <1>4, <1>5

LEMMA TurnOfSender ==
  ASSUME NEW o \in Ends, NEW c, ConnOK(c), NEW d, NEW q, NEW b, NEW over \in BOOLEAN,
         NEW told, NEW n \in Nat, NEW A \in Nat, NEW g,
         Direction(o, c, d, q, b, TRUE, over, told, n, A, g)
  PROVE  Direction(o, Sent(c), d, q, b, TRUE, over \/ Overtakes(c), told, n, A, g)
<1> DEFINE x == Sent(c)
<1>1. /\ x.send = c.send
      /\ Sends(c) = "FIN"  => x.state = AfterFin(c.state)
      /\ Sends(c) # "FIN" => x.state = c.state
  BY SentShape
<1>2. Sends(c) = "FIN" => /\ c.state \in Open \cup Closers /\ in_flight(c) = 0
                          /\ x.state \in Closers
  BY <1>1, SendsWhere, AfterFinState
<1>3. c.state \in Open => A <= n
  BY DEF Direction, Sending, Receiver
<1>4. n <= Bytes(o) /\ Sender(o, c, n, A)
  BY DEF Direction
<1>5. Sender(o, x, n, A)
  BY <1>3, <1>4, TurnSender
<1>6. Overtakes(c) <=> Sends(c) = "FIN" /\ c.state \in Open /\ Len(c.send) > in_flight(c)
  BY DEF Overtakes
<1>7. Len(c.send) \in Nat
  BY Fields DEF ConnOK
<1> HIDE DEF x
<1>8. Sending(TRUE, x) => Sending(TRUE, c) /\ Sends(c) # "FIN"
  BY <1>1, <1>2 DEF Sending, Closers, Opening, Open
<1>9. x.state # "none" => c.state # "none"
  BY <1>1, <1>2 DEF Open, Closers
<1>10. ASSUME ~over, ~Overtakes(c), x.state \in Closers, c.state \notin Closers
       PROVE  A = n
  <2>1. Sends(c) = "FIN" /\ c.state \in Open
    BY <1>1, <1>2, <1>10
  <2>2. Len(c.send) = 0
    BY <1>2, <1>6, <1>7, <1>10, <2>1
  <2>3. n - Len(c.send) <= A /\ A <= n
    BY <1>3, <1>10, <2>1 DEF Direction, Open
  <2> QED
    BY <2>2, <2>3
<1> QED
  BY <1>1, <1>4, <1>5, <1>6, <1>8, <1>9, <1>10 DEF Direction, x

\* ... then for the direction its end receives in: every segment answers.
LEMMA TurnOfReceiver ==
  ASSUME NEW o \in Ends, NEW c, NEW d, ConnOK(d), NEW q, NEW b, NEW began, NEW over,
         NEW told, NEW n \in Nat, NEW A \in Nat, NEW g,
         Direction(o, c, d, q, b, began, over, told, n, A, g)
  PROVE  /\ Direction(o, c, Sent(d), q, b, began, over, told, n, A, g)
         /\ \A i \in 1 .. Len(Segments(d)) :
              Sending(began, c) => Acknowledges(o, A, Segments(d)[i])
<1> DEFINE y == Sent(d)
<1>1. /\ y.recv = d.recv /\ y.rcv_nxt = d.rcv_nxt /\ y.peer_closed = d.peer_closed
      /\ Sends(d) = "FIN"  => y.state = AfterFin(d.state)
      /\ Sends(d) # "FIN" => y.state = d.state
  BY SentShape
<1>2. Sends(d) = "FIN" => d.state \in Open \cup Closers /\ y.state \in Closers
  BY <1>1, SendsWhere, AfterFinState
<1> HIDE DEF y
<1>3. /\ y.state \in Opening => d.state \in Opening
      /\ y.state \in Synced => d.state \in Synced
      /\ y.state # "none" => d.state # "none"
  BY <1>1, <1>2 DEF Opening, Synced, Open, Closers
<1>4. Receiver(o, d, g, n, A) => Receiver(o, y, g, n, A)
  BY <1>1, <1>3 DEF Receiver
<1>5. Ended(q, y, told) <=> Ended(q, d, told)
  BY <1>1 DEF Ended
<1>6. Direction(o, c, y, q, b, began, over, told, n, A, g)
  BY <1>4, <1>5 DEF Direction
<1>7. ASSUME Sending(began, c), NEW i \in 1 .. Len(Segments(d))
      PROVE  Acknowledges(o, A, Segments(d)[i])
  <2> DEFINE s == Segments(d)[i]
  <2>1. /\ s.ack = d.rcv_nxt
        /\ Sends(d) # "SYN" => d.state \in Open \cup Closers
        /\ Sends(d) = "SYN" /\ d.state = "SynSent" => s.flags = {"SYN"}
        /\ Sends(d) = "SYN" => d.state \in Opening
    <3>1. /\ s.ack = d.rcv_nxt
          /\ Sends(d) \in {"data", "SYN", "FIN", "ACK"}
          /\ Sends(d) = "SYN" => s.flags = IF d.state = "SynSent" THEN {"SYN"} ELSE {"SYN", "ACK"}
      BY SegmentsShape
    <3> QED
      BY <3>1, SendsWhere
  <2> HIDE DEF s
  <2>2. ~over /\ ~d.peer_closed /\ Receiver(o, d, g, n, A)
    BY <1>7 DEF Direction, Ended
  <2>3. CASE d.state \in Synced
    <3>1. d.rcv_nxt = Num(o, A + 1 + 0)
      BY <2>2, <2>3 DEF Receiver, Expects
    <3>2. A + 1 + 0 = A + 1 /\ A + 1 \in 1 .. A + 1
      OBVIOUS
    <3> QED
      BY <2>1, <3>1, <3>2 DEF Acknowledges, s
  <2>4. CASE d.state \notin Synced
    <3>1. s.flags = {"SYN"}
      BY <2>1, <2>4 DEF Synced, Opening
    <3> QED
      BY <3>1 DEF Acknowledges, s
  <2> QED
    BY <2>3, <2>4
<1> QED
  BY <1>6, <1>7 DEF y

------------------------------------------------------------------------------
(***************************************************************************)
(* A segment handled by the end that sends.                                *)
(***************************************************************************)
LEMMA AcknowledgeValue ==
  ASSUME NEW c, c \in Connection, NEW ack
  PROVE  /\ ~after(ack, c.una) => acknowledge(c, ack) = c
         /\ after(ack, c.una) =>
              /\ acknowledge(c, ack).una = ack
              /\ acknowledge(c, ack).send =
                   SubSeq(c.send, Smaller(AckedBytes(c, ack), Len(c.send)) + 1, Len(c.send))
<1>1. CASE ~after(ack, c.una)
  BY <1>1 DEF acknowledge
<1>2. CASE after(ack, c.una)
  <2> DEFINE rest == SubSeq(c.send, Smaller(AckedBytes(c, ack), Len(c.send)) + 1, Len(c.send))
             d    == [c EXCEPT !.send = rest, !.una = ack, !.retries = 0, !.timer = FALSE]
  <2>1. acknowledge(c, ack) = d
    BY <1>2 DEF acknowledge
  <2> HIDE DEF rest
  <2>2. d.una = ack /\ d.send = rest
    BY DEF Connection
  <2> HIDE DEF d
  <2> QED
    BY <1>2, <2>1, <2>2 DEF rest
<1> QED
  BY <1>1, <1>2

\* An acknowledgement of what was accepted takes what was accepted off the
\* queue, whether it is newer or older than the last.
LEMMA AcknowledgeOffsets ==
  ASSUME NEW o \in Ends, NEW c, ConnOK(c), NEW n \in Nat, NEW A \in Nat,
         n <= Bytes(o), A <= n, c.state \in Open, Sender(o, c, n, A),
         NEW a \in 1 .. A + 1
  PROVE  \E v \in 1 .. A + 1, p \in 1 .. n + 1 :
            LET d == acknowledge(c, Num(o, a)) IN
            /\ d.una = Num(o, v) /\ c.nxt = Num(o, p)
            /\ Len(d.send) = n - v + 1 /\ Stretch(d.send, v)
<1> DEFINE ack == Num(o, a)
           d   == acknowledge(c, ack)
<1>1. PICK u \in 1 .. A + 1, p \in 1 .. n + 1 :
         /\ c.una = Num(o, u) /\ c.nxt = Num(o, p)
         /\ Len(c.send) = n - u + 1 /\ Stretch(c.send, u)
  BY DEF Sender
<1>2. c \in Connection /\ c.send \in Seq(Byte) /\ ~c.fin_sent
  BY Fields DEF ConnOK, Sender
<1>3. /\ Bytes(o) \in Nat /\ a \in 0 .. Bytes(o) + 1 /\ u \in 0 .. Bytes(o) + 1
      /\ SEQ \in Nat /\ a \in Nat /\ u \in Nat /\ a < SEQ /\ u < SEQ
  BY Modulus
<1>4. after(ack, c.una) <=> a > u
  BY <1>1, <1>3, NumAfter
<1>5. CASE ~(a > u)
  BY <1>1, <1>2, <1>4, <1>5, AcknowledgeValue
<1>6. CASE a > u
  <2>1. AckedBytes(c, ack) = a - u
    <3>1. Minus(ack, c.una) = a - u
      BY <1>1, <1>3, <1>6, NumMinus
    <3> QED
      BY <1>2, <3>1 DEF AckedBytes
  <2>2. a - u \in 0 .. Len(c.send)
    BY <1>1, <1>3, <1>6
  <2>3. Smaller(a - u, Len(c.send)) = a - u
    BY <1>2, <2>2 DEF Smaller
  <2>4. d.una = ack /\ d.send = SubSeq(c.send, (a - u) + 1, Len(c.send))
    <3>1. after(ack, c.una) /\ c \in Connection
      BY <1>2, <1>4, <1>6
    <3> HIDE DEF ack
    <3>2. /\ d.una = ack
          /\ d.send = SubSeq(c.send, Smaller(AckedBytes(c, ack), Len(c.send)) + 1, Len(c.send))
      BY <3>1, AcknowledgeValue
    <3> QED
      BY <2>1, <2>3, <3>2
  <2>5. Len(d.send) = Len(c.send) - (a - u) /\ Stretch(d.send, u + (a - u))
    BY <1>1, <1>2, <1>3, <2>2, <2>4, StretchRest
  <2>6. Len(c.send) - (a - u) = n - a + 1 /\ u + (a - u) = a
    BY <1>1, <1>3
  <2> QED
    BY <1>1, <2>4, <2>5, <2>6
<1> QED
  BY <1>5, <1>6

\* The answer to a SYN.
LEMMA AcknowledgeOpening ==
  ASSUME NEW o \in Ends, NEW c, ConnOK(c), NEW n \in Nat, NEW A \in Nat,
         c.state \in Opening, Sender(o, c, n, A), c.nxt = Num(o, 1),
         NEW x, x.state = "Established", x.una = acknowledge(c, c.nxt).una,
         x.nxt = c.nxt, x.send = acknowledge(c, c.nxt).send, x.fin_sent = c.fin_sent
  PROVE  Sender(o, x, n, A) /\ x.send = <<>>
<1>1. c.una = Num(o, 0) /\ c.send = <<>> /\ ~c.fin_sent /\ n = 0 /\ A = 0
  BY DEF Sender
<1>2. after(c.nxt, c.una)
  <2>1. 1 \in 0 .. Bytes(o) + 1 /\ 0 \in 0 .. Bytes(o) + 1
    BY Modulus
  <2> QED
    BY <1>1, <2>1, NumAfter
<1>3. c \in Connection /\ c.nxt \in Number
  BY Fields DEF ConnOK
<1>4. x.una = Num(o, 1)
  BY <1>2, <1>3, AcknowledgeValue
<1>5. x.send = <<>>
  <2>1. ConnOK(acknowledge(c, c.nxt)) /\ Len(acknowledge(c, c.nxt).send) <= Len(c.send)
    BY <1>3, AcknowledgeShape
  <2>2. x.send \in Seq(Byte)
    BY <2>1, Fields DEF ConnOK
  <2>3. Len(x.send) <= 0
    BY <1>1, <2>1
  <2> QED
    BY <2>2, <2>3
<1>6. x.state \notin Opening /\ x.state \notin {"SynSent", "SynReceived"}
  BY DEF Opening
<1>7. Len(x.send) = n - 1 + 1 /\ Stretch(x.send, 1) /\ 1 \in 1 .. A + 1 /\ 1 \in 1 .. n + 1
  BY <1>1, <1>5 DEF Stretch
<1>8. \E u \in 1 .. A + 1, p \in 1 .. n + 1 :
         /\ x.una = Num(o, u) /\ x.nxt = Num(o, p)
         /\ Len(x.send) = n - u + 1 /\ Stretch(x.send, u)
  BY <1>4, <1>7
<1> QED
  BY <1>1, <1>5, <1>6, <1>8 DEF Sender

\* The state an open connection can come to, and one that is closing.
LEMMA NextStateWhere ==
  ASSUME NEW state, NEW theirs \in BOOLEAN, NEW ours \in BOOLEAN
  PROVE  /\ state \in Open => NextState(state, theirs, ours) \in Open
         /\ state \in Closers =>
              NextState(state, theirs, ours) \in Closers \cup {"Closed"}
<1>1. CASE state \in Open
  <2>1. NextState(state, theirs, ours) = (IF state = "Established" /\ theirs THEN "CloseWait" ELSE state)
    BY <1>1 DEF NextState, Open
  <2> QED
    BY <1>1, <2>1 DEF Open, Closers
<1>2. CASE state \in Closers
  <2>1. NextState(state, theirs, ours) \in {state, "TimeWait", "Closing", "FinWait2", "Closed"}
    BY <1>2 DEF NextState, Closers
  <2> QED
    BY <1>2, <2>1 DEF Open, Closers
<1> QED
  BY <1>1, <1>2

LEMMA SenderHandles ==
  ASSUME NEW o \in Ends, NEW c, ConnOK(c), NEW s \in Segment, NEW n \in Nat, NEW A \in Nat,
         n <= Bytes(o), Sender(o, c, n, A),
         c.state \in Opening \cup Open => A <= n /\ Acknowledges(o, A, s),
         NEW m, Carried(other(o), m, s), "RST" \notin s.flags, ~Refused(c, s)
  PROVE  LET x == Handled(c, s) IN
         /\ Sender(o, x, n, A)
         /\ x.state \in Opening \cup Open => c.state \in Opening \cup Open
         /\ x.state \in Closers => c.state \in Closers
         /\ x.state # "none" => c.state # "none"
         /\ \/ x.send = c.send
            \/ c.state \in Opening \cup Open /\ n - Len(x.send) <= A
            \/ c.state \in Closers
<1> DEFINE x == Handled(c, s)
<1>1. s.ack \in Number /\ s.seq \in Number /\ s.data \in Seq(Byte) /\ c \in Connection
  BY DEF Segment, ConnOK
<1>2. \A v \in 1 .. A + 1 : A \in Nat /\ n \in Nat => n - (n - v + 1) <= A
  OBVIOUS
<1> SUFFICES /\ Sender(o, x, n, A)
             /\ x.state \in Opening \cup Open => c.state \in Opening \cup Open
             /\ x.state \in Closers => c.state \in Closers
             /\ x.state # "none" => c.state # "none"
             /\ \/ x.send = c.send
                \/ c.state \in Opening \cup Open /\ n - Len(x.send) <= A
                \/ c.state \in Closers
  OBVIOUS
<1>3. ASSUME c.state \in Opening, "ACK" \in s.flags, s.ack = c.nxt,
             x.state = "Established", x.una = acknowledge(c, c.nxt).una,
             x.nxt = c.nxt, x.send = acknowledge(c, c.nxt).send, x.fin_sent = c.fin_sent
      PROVE  /\ Sender(o, x, n, A)
             /\ x.state \in Opening \cup Open => c.state \in Opening \cup Open
             /\ x.state \in Closers => c.state \in Closers
             /\ x.state # "none" => c.state # "none"
             /\ \/ x.send = c.send
                \/ c.state \in Opening \cup Open /\ n - Len(x.send) <= A
                \/ c.state \in Closers
  <2>1. n = 0 /\ A = 0 /\ Acknowledges(o, A, s)
    BY <1>3 DEF Sender
  <2>2. c.nxt = Num(o, 1)
    BY <1>3, <2>1 DEF Acknowledges
  <2> HIDE DEF x
  <2>3. Sender(o, x, n, A) /\ x.send = <<>>
    BY <1>3, <2>2, AcknowledgeOpening
  <2>4. n - Len(x.send) <= A
    BY <2>1, <2>3
  <2> QED
    BY <1>3, <2>3, <2>4 DEF Closers, Opening
<1>4. CASE c.state = "SynSent"
  <2> USE DEF Opening
  <2>1. o = Client /\ other(o) # Client
    BY <1>4, Sizes DEF Sender, other
  <2>2. "SYN" \in s.flags => s.flags = {"SYN", "ACK"}
    BY <2>1 DEF Carried
  <2>3. "SYN" \in s.flags => AnswersUs(c, s)
    BY <1>4, <2>2 DEF Refused
  <2>4. \/ x = c
        \/ /\ AnswersUs(c, s) /\ x.state = "Established"
           /\ x.una = acknowledge(c, s.ack).una /\ x.nxt = c.nxt
           /\ x.send = acknowledge(c, s.ack).send /\ x.fin_sent = c.fin_sent
    BY <1>4, <2>3, OpenedShape
  <2>5. CASE x = c
    BY <2>5
  <2>6. CASE x # c
    BY <1>3, <1>4, <2>4, <2>6 DEF AnswersUs
  <2> QED
    BY <2>5, <2>6
<1>5. CASE c.state = "SynReceived"
  <2> DEFINE a == acknowledge(c, s.ack)
             y == [a EXCEPT !.state = "Established"]
  <2>1. \/ x = c
        \/ /\ "ACK" \in s.flags /\ s.ack = c.nxt
           /\ x = accept_data(y, s.seq, s.data)
           /\ ConnOK(y) /\ y.state = "Established" /\ y.una = a.una /\ y.nxt = c.nxt
           /\ y.send = a.send /\ y.fin_sent = c.fin_sent
    BY <1>5, OpenedShape
  <2> HIDE DEF y
  <2>2. CASE x = c
    BY <2>2
  <2>3. CASE x # c
    <3>1. /\ x.state = y.state /\ x.una = y.una /\ x.nxt = y.nxt /\ x.send = y.send
          /\ x.fin_sent = y.fin_sent
      <4>1. ConnOK(y) /\ x = accept_data(y, s.seq, s.data)
        BY <2>1, <2>3
      <4> HIDE DEF x
      <4> QED
        BY <1>1, <4>1, AcceptShape
    <3> QED
      BY <1>3, <1>5, <2>1, <2>3, <3>1 DEF Opening
  <2> QED
    BY <2>2, <2>3
<1>6. CASE c.state \in (Open \cup Closers) \ {"TimeWait"}
  <2> DEFINE a == IF "ACK" \in s.flags THEN acknowledge(c, s.ack) ELSE c
             b == accept_data(a, s.seq, s.data)
  <2>1. x = Synchronised(c, s)
    BY <1>6, OthersShape DEF Opening, Open, Closers
  <2>2. /\ x.una = a.una /\ x.send = a.send /\ x.nxt = c.nxt /\ x.fin_sent = c.fin_sent
        /\ x.state = NextState(c.state, FinHere(b, s) \/ c.peer_closed,
                               c.fin_sent /\ a.una = c.nxt)
    BY <2>1, SynchronisedShape
  <2> HIDE DEF x, b
  <2>3. /\ c.state \in Open => x.state \in Open
        /\ c.state \in Closers => x.state \in Closers \cup {"Closed"}
    <3>1. \E theirs, ours \in BOOLEAN : x.state = NextState(c.state, theirs, ours)
      <4>1. (FinHere(b, s) \/ c.peer_closed) \in BOOLEAN /\ (c.fin_sent /\ a.una = c.nxt) \in BOOLEAN
        OBVIOUS
      <4> QED
        BY <2>2, <4>1
    <3> QED
      BY <3>1, NextStateWhere
  <2>4. CASE c.state \in Closers
    BY <1>6, <2>3, <2>4 DEF Sender, Closers, Opening, Open
  <2>5. CASE c.state \in Open
    <3>1. \E v \in 1 .. A + 1, p \in 1 .. n + 1 :
            /\ a.una = Num(o, v) /\ c.nxt = Num(o, p)
            /\ Len(a.send) = n - v + 1 /\ Stretch(a.send, v)
      <4>1. CASE "ACK" \in s.flags
        <5>1. PICK k \in 1 .. A + 1 : s.ack = Num(o, k)
          BY <2>5, <4>1 DEF Acknowledges
        <5>2. a = acknowledge(c, Num(o, k))
          BY <4>1, <5>1
        <5> HIDE DEF a
        <5>3. A <= n
          BY <2>5
        <5>4. \E v \in 1 .. A + 1, p \in 1 .. n + 1 :
                LET d == acknowledge(c, Num(o, k)) IN
                /\ d.una = Num(o, v) /\ c.nxt = Num(o, p)
                /\ Len(d.send) = n - v + 1 /\ Stretch(d.send, v)
          BY <2>5, <5>3, AcknowledgeOffsets
        <5> QED
          BY <5>2, <5>4
      <4>2. CASE "ACK" \notin s.flags
        BY <2>5, <4>2 DEF Sender
      <4> QED
        BY <4>1, <4>2
    <3> HIDE DEF a
    <3>2. \E v \in 1 .. A + 1, p \in 1 .. n + 1 :
            /\ x.una = Num(o, v) /\ x.nxt = Num(o, p)
            /\ Len(x.send) = n - v + 1 /\ Stretch(x.send, v)
      BY <2>2, <3>1
    <3>3. n - Len(x.send) <= A
      BY <1>2, <3>2
    <3>4. x.state \in Open /\ x.state \notin Opening /\ x.state \notin {"SynSent", "SynReceived"}
          /\ x.state \notin Closers /\ c.state # "none"
      BY <2>3, <2>5 DEF Open, Opening, Closers
    <3>5. ~x.fin_sent
      BY <2>2, <2>5 DEF Sender
    <3>6. Sender(o, x, n, A)
      BY <3>2, <3>4, <3>5 DEF Sender
    <3> QED
      BY <2>5, <3>3, <3>4, <3>6
  <2> QED
    BY <1>6, <2>4, <2>5
<1>7. CASE c.state \notin Opening /\ c.state \notin (Open \cup Closers) \ {"TimeWait"}
  <2>1. /\ x.state = c.state /\ x.una = c.una /\ x.nxt = c.nxt /\ x.send = c.send
        /\ x.fin_sent = c.fin_sent
    BY <1>7, OthersShape DEF Opening
  <2> HIDE DEF x
  <2> QED
    BY <2>1 DEF Sender
<1> QED
  BY <1>4, <1>5, <1>6, <1>7 DEF Opening

------------------------------------------------------------------------------
(***************************************************************************)
(* A segment handled by the end that receives.                             *)
(***************************************************************************)

LEMMA Associative ==
  \A a, b, c \in Seq(Byte) : a \o (b \o c) = (a \o b) \o c
<1> TAKE a, b, c \in Seq(Byte)
<1> QED
  BY ConcatAssociative

\* Data are taken when they are the bytes that come next, and only then: their
\* number gives their offset, since the stream is shorter than the modulus.
LEMMA AcceptStream ==
  ASSUME NEW o \in Ends, NEW y, ConnOK(y), NEW s \in Segment, NEW g \in Seq(Byte),
         NEW n \in Nat, NEW A \in Nat, n <= Bytes(o), A <= n, Carried(o, n, s),
         FromFirst(g, y.recv), Amount(g, y.recv) = A,
         Expects(o, y.rcv_nxt, A, y.peer_closed), y.peer_closed => A = n
  PROVE  LET z == accept_data(y, s.seq, s.data)
             B == A + Len(z.recv) - Len(y.recv)
         IN  /\ B \in A .. n /\ Expects(o, z.rcv_nxt, B, y.peer_closed)
             /\ FromFirst(g, z.recv) /\ Amount(g, z.recv) = B
<1> DEFINE z == accept_data(y, s.seq, s.data)
           B == A + Len(z.recv) - Len(y.recv)
<1> SUFFICES /\ B \in A .. n /\ Expects(o, z.rcv_nxt, B, y.peer_closed)
             /\ FromFirst(g, z.recv) /\ Amount(g, z.recv) = B
  OBVIOUS
<1> DEFINE w == IF y.peer_closed THEN 1 ELSE 0
<1>0. w \in {0, 1} /\ (w = 1 => A = n) /\ y.rcv_nxt = Num(o, A + 1 + w)
  BY DEF Expects
<1>5. \A v : Expects(o, z.rcv_nxt, v, y.peer_closed) <=> z.rcv_nxt = Num(o, v + 1 + w)
  BY DEF Expects
<1> HIDE DEF w
<1>1. s.seq \in Number /\ s.data \in Seq(Byte) /\ y.recv \in Seq(Byte) /\ Len(s.data) \in Nat
      /\ Len(y.recv) \in Nat
  <2>1. s.seq \in Number /\ s.data \in Seq(Byte)
    BY DEF Segment
  <2>2. y.recv \in Seq(Byte)
    BY Fields DEF ConnOK
  <2> QED
    BY <2>1, <2>2
<1>2. \/ z.recv = y.recv /\ z.rcv_nxt = y.rcv_nxt
      \/ /\ s.data # <<>> /\ s.seq = y.rcv_nxt
         /\ \E k \in 0 .. Len(s.data) :
              /\ z.recv = y.recv \o SubSeq(s.data, 1, k)
              /\ z.rcv_nxt = Plus(y.rcv_nxt, k)
  BY <1>1, AcceptShape
<1> HIDE DEF z
<1> DEFINE h == g \o y.recv
<1>6. /\ h \in Seq(Byte) /\ Stretch(h, 1) /\ Len(h) = A
      /\ \A t \in Seq(Byte) : g \o (y.recv \o t) = h \o t
  BY <1>1, ConcatParts, Associative DEF FromFirst, Amount
<1> HIDE DEF h
<1>3. CASE z.recv = y.recv /\ z.rcv_nxt = y.rcv_nxt
  <2>1. A = B /\ A \in A .. n
    BY <1>1, <1>3
  <2>3. Expects(o, z.rcv_nxt, A, y.peer_closed)
    BY <1>0, <1>3, <1>5
  <2> QED
    BY <1>3, <2>1, <2>3
<1>4. ASSUME s.data # <<>>, s.seq = y.rcv_nxt,
             NEW k \in 0 .. Len(s.data), z.recv = y.recv \o SubSeq(s.data, 1, k),
             z.rcv_nxt = Plus(y.rcv_nxt, k)
      PROVE  /\ B \in A .. n /\ Expects(o, z.rcv_nxt, B, y.peer_closed)
             /\ FromFirst(g, z.recv) /\ Amount(g, z.recv) = B
  <2> DEFINE t == SubSeq(s.data, 1, k)
             l == Len(s.data)
  <2>1. PICK i \in 1 .. n : s.seq = Num(o, i) /\ Stretch(s.data, i) /\ i + l - 1 <= n
    BY <1>4 DEF Carried
  <2>2. SEQ \in Nat /\ i < SEQ /\ A + 1 + w < SEQ /\ n + 2 < SEQ /\ i \in Nat /\ w \in Nat
        /\ A + 1 + w \in Nat
    BY <1>0, Modulus
  <2>3. i = A + 1 + w
    BY <1>0, <1>4, <2>1, <2>2, NumSame
  <2>4. w = 0 /\ i = A + 1
    BY <1>0, <2>3
  <2>5. t \in Seq(Byte) /\ Len(t) = k /\ Stretch(t, i)
    BY <1>1, <1>4, <2>1, <2>2, StretchFirst
  <2> HIDE DEF t
  <2>6. z.recv = y.recv \o t
    BY <1>4 DEF t
  <2>7. l \in Nat /\ k \in 0 .. l /\ i + l - 1 <= n
    BY <1>1, <2>1
  <2> HIDE DEF l
  <2>8. k \in Nat /\ A + k <= n
    BY <2>2, <2>4, <2>7
  <2>9. Len(h \o t) = A + k /\ Stretch(h \o t, 1)
    <3>1. Stretch(t, 1 + Len(h))
      BY <1>6, <2>4, <2>5
    <3>2. h \in Seq(Byte) /\ Stretch(h, 1) /\ Len(h) = A
      BY <1>6
    <3>3. Stretch(h \o t, 1)
      BY <2>5, <3>1, <3>2, StretchGrows
    <3>4. Len(h \o t) = Len(h) + Len(t)
      BY <2>5, <3>2, ConcatParts
    <3> QED
      BY <2>5, <3>2, <3>3, <3>4
  <2>10. Len(z.recv) = Len(y.recv) + k
    <3>1. Len(y.recv \o t) = Len(y.recv) + Len(t)
      BY <1>1, <2>5, ConcatParts
    <3> QED
      BY <2>5, <2>6, <3>1
  <2>11. A + k \in A .. n /\ A + k = B
    BY <1>1, <2>8, <2>10
  <2>12. Plus(Num(o, A + 1), k) = Num(o, (A + 1) + k)
    BY <2>2, <2>8, NumPlus
  <2>13. Expects(o, z.rcv_nxt, A + k, y.peer_closed)
    <3>1. (A + 1) + k = (A + k) + 1 + w /\ A + 1 + w = A + 1
      BY <2>2, <2>4, <2>8
    <3> QED
      BY <1>0, <1>4, <1>5, <2>12, <3>1
  <2>14. g \o z.recv = h \o t
    BY <1>6, <2>5, <2>6
  <2>15. FromFirst(g, z.recv) /\ Amount(g, z.recv) = A + k
    BY <2>9, <2>14 DEF FromFirst, Amount
  <2> QED
    BY <2>11, <2>13, <2>15
<1> QED
  BY <1>2, <1>3, <1>4


\* What the receiver keeps promising, given what a segment left of its buffer.
LEMMA ReceiverHandles ==
  ASSUME NEW o \in Ends, NEW d, ConnOK(d), NEW s \in Segment, NEW g \in Seq(Byte),
         NEW n \in Nat, NEW A \in Nat, n <= Bytes(o), Carried(o, n, s),
         Receiver(o, d, g, n, A), d.state # "none",
         d.peer_closed \/ "FIN" \in s.flags => A = n,
         d.state = "SynSent" => o # Client, ~Refused(d, s)
  PROVE  LET x == Handled(d, s)
             B == A + Len(x.recv) - Len(d.recv)
         IN  /\ B \in A .. n /\ Receiver(o, x, g, n, B)
             /\ x.peer_closed => d.peer_closed \/ "FIN" \in s.flags
<1> DEFINE x == Handled(d, s)
           B == A + Len(x.recv) - Len(d.recv)
<1> SUFFICES /\ B \in A .. n /\ Receiver(o, x, g, n, B)
             /\ x.peer_closed => d.peer_closed \/ "FIN" \in s.flags
  OBVIOUS
<1>1. s.ack \in Number /\ s.seq \in Number /\ s.data \in Seq(Byte)
  BY DEF Segment
<1>2. /\ FromFirst(g, d.recv) /\ Amount(g, d.recv) = A /\ A <= n
      /\ d.state \in Opening => A = 0 /\ ~d.peer_closed
      /\ d.state \in Synced => Expects(o, d.rcv_nxt, A, d.peer_closed)
  BY DEF Receiver
<1>3. Len(d.recv) \in Nat
  BY Fields DEF ConnOK
<1>4. ASSUME x.state = d.state, x.recv = d.recv, x.rcv_nxt = d.rcv_nxt,
             x.peer_closed = d.peer_closed
      PROVE  /\ B \in A .. n /\ Receiver(o, x, g, n, B)
             /\ x.peer_closed => d.peer_closed \/ "FIN" \in s.flags
  <2>1. B = A
    BY <1>3, <1>4
  <2> QED
    BY <1>2, <1>4, <2>1 DEF Receiver
<1>5. CASE d.state = "SynSent"
  <2>1. "SYN" \in s.flags => s.flags = {"SYN", "ACK"} /\ s.seq = Num(o, 0)
    BY <1>5 DEF Carried
  <2>2. "SYN" \in s.flags => AnswersUs(d, s)
    BY <1>5, <2>1 DEF Refused
  <2>3. \/ x = d
        \/ /\ AnswersUs(d, s) /\ x.state = "Established" /\ x.recv = d.recv
           /\ x.rcv_nxt = Plus(s.seq, 1) /\ x.peer_closed = d.peer_closed
    <3>1. \/ /\ AnswersUs(d, s) /\ x.state = "Established" /\ x.recv = d.recv
             /\ x.rcv_nxt = Plus(s.seq, 1) /\ x.peer_closed = d.peer_closed
          \/ "SYN" \in s.flags /\ ~AnswersUs(d, s)
          \/ x = d
      <4>1. d.state \in {"SynSent", "SynReceived"} /\ d.state # "SynReceived"
        BY <1>5
      <4> QED
        BY <4>1, OpenedShape
    <3> HIDE DEF x
    <3> QED
      BY <2>2, <3>1
  <2>4. CASE x = d
    BY <1>4, <2>4
  <2>5. CASE x # d
    <3>1. A = 0 /\ ~d.peer_closed
      BY <1>2, <1>5 DEF Opening
    <3>2. x.rcv_nxt = Plus(Num(o, 0), 1)
      BY <2>1, <2>3, <2>5 DEF AnswersUs
    <3>3. Plus(Num(o, 0), 1) = Num(o, 0 + 1) /\ 0 + 1 = A + 1 + 0
      BY <3>1, Modulus, NumPlus
    <3>4. Expects(o, x.rcv_nxt, A, x.peer_closed)
      BY <2>3, <2>5, <3>1, <3>2, <3>3 DEF Expects
    <3>5. B = A /\ x.recv = d.recv
      <4>1. x.recv = d.recv
        BY <2>3, <2>5
      <4>2. \A l \in Nat : A + l - l = A
        OBVIOUS
      <4> QED
        BY <1>3, <4>1, <4>2
    <3>6. x.state \notin Opening
      BY <2>3, <2>5 DEF Opening
    <3> QED
      BY <1>2, <2>3, <2>5, <3>1, <3>4, <3>5, <3>6 DEF Receiver
  <2> QED
    BY <2>4, <2>5
<1>6. CASE d.state = "SynReceived"
  <2> DEFINE a == acknowledge(d, s.ack)
             y == [a EXCEPT !.state = "Established"]
  <2>1. \/ x = d
        \/ /\ x = accept_data(y, s.seq, s.data) /\ ConnOK(y) /\ y.state = "Established"
           /\ y.recv = d.recv /\ y.rcv_nxt = d.rcv_nxt /\ y.peer_closed = d.peer_closed
    BY <1>6, OpenedShape
  <2> HIDE DEF y
  <2>2. CASE x = d
    BY <1>4, <2>2
  <2>3. CASE x # d
    <3>1. /\ x = accept_data(y, s.seq, s.data) /\ ConnOK(y) /\ y.state = "Established"
          /\ y.recv = d.recv /\ y.rcv_nxt = d.rcv_nxt /\ y.peer_closed = d.peer_closed
      BY <2>1, <2>3
    <3> DEFINE z == accept_data(y, s.seq, s.data)
    <3>2. z.state = y.state /\ z.peer_closed = y.peer_closed
      BY <1>1, <3>1, AcceptShape
    <3>3. Expects(o, y.rcv_nxt, A, y.peer_closed)
      BY <1>2, <1>6, <3>1 DEF Synced
    <3>4. FromFirst(g, y.recv) /\ Amount(g, y.recv) = A /\ (y.peer_closed => A = n)
      BY <1>2, <3>1
    <3>5. LET C == A + Len(z.recv) - Len(y.recv) IN
          /\ C \in A .. n /\ Expects(o, z.rcv_nxt, C, y.peer_closed)
          /\ FromFirst(g, z.recv) /\ Amount(g, z.recv) = C
      BY <1>2, <3>1, <3>3, <3>4, AcceptStream
    <3>6. x = z /\ B = A + Len(z.recv) - Len(y.recv)
      BY <3>1
    <3> HIDE DEF x, z, B
    <3>7. x.state \notin Opening /\ B <= n /\ B <= B
      BY <3>1, <3>2, <3>5, <3>6 DEF Opening
    <3> QED
      BY <3>1, <3>2, <3>5, <3>6, <3>7 DEF Receiver
  <2> QED
    BY <2>2, <2>3
<1>7. CASE d.state \in (Open \cup Closers) \ {"TimeWait"}
  <2> DEFINE a == IF "ACK" \in s.flags THEN acknowledge(d, s.ack) ELSE d
             z == accept_data(a, s.seq, s.data)
  <2>1. x = Synchronised(d, s)
    BY <1>7, OthersShape DEF Opening, Open, Closers
  <2>2. /\ x.recv = z.recv
        /\ x.peer_closed = (d.peer_closed \/ FinHere(z, s))
        /\ x.rcv_nxt = IF FinHere(z, s) /\ ~d.peer_closed THEN Plus(z.rcv_nxt, 1)
                       ELSE z.rcv_nxt
        /\ x.state = NextState(d.state, FinHere(z, s) \/ d.peer_closed,
                               d.fin_sent /\ a.una = d.nxt)
        /\ ConnOK(a) /\ a.recv = d.recv /\ a.rcv_nxt = d.rcv_nxt
        /\ a.peer_closed = d.peer_closed
    BY <2>1, SynchronisedShape
  <2> HIDE DEF a
  <2>3. x.state \notin Opening
    <3>1. \E theirs, ours \in BOOLEAN : x.state = NextState(d.state, theirs, ours)
      <4>1. (FinHere(z, s) \/ d.peer_closed) \in BOOLEAN /\ (d.fin_sent /\ a.una = d.nxt) \in BOOLEAN
        OBVIOUS
      <4> QED
        BY <2>2, <4>1
    <3> QED
      BY <1>7, <3>1, NextStateWhere DEF Opening, Open, Closers
  <2>4. Expects(o, a.rcv_nxt, A, a.peer_closed)
    BY <1>2, <1>7, <2>2 DEF Synced
  <2>5. B = A + Len(z.recv) - Len(a.recv)
    BY <2>2
  <2>6. FromFirst(g, a.recv) /\ Amount(g, a.recv) = A
    BY <1>2, <2>2
  <2>11. LET C == A + Len(z.recv) - Len(a.recv) IN
         /\ C \in A .. n /\ Expects(o, z.rcv_nxt, C, a.peer_closed)
         /\ FromFirst(g, z.recv) /\ Amount(g, z.recv) = C
    <3>1. a.peer_closed => A = n
      BY <2>2
    <3> QED
      BY <1>2, <2>2, <2>4, <2>6, <3>1, AcceptStream
  <2> HIDE DEF x, z, B
  <2>7. /\ B \in A .. n /\ Expects(o, z.rcv_nxt, B, a.peer_closed)
        /\ FromFirst(g, z.recv) /\ Amount(g, z.recv) = B
    BY <2>5, <2>11
  <2>8. Expects(o, x.rcv_nxt, B, x.peer_closed)
    <3>1. CASE FinHere(z, s) /\ ~d.peer_closed
      <4>1. x.rcv_nxt = Plus(Num(o, B + 1 + 0), 1) /\ x.peer_closed
        BY <2>2, <2>7, <3>1 DEF Expects
      <4>2. B + 1 + 0 \in Nat /\ B + 1 + 0 + 1 < SEQ /\ (B + 1 + 0) + 1 = B + 1 + 1
        BY <2>7, Modulus
      <4> QED
        BY <4>1, <4>2, NumPlus DEF Expects
    <3>2. CASE ~(FinHere(z, s) /\ ~d.peer_closed)
      BY <2>2, <2>7, <3>2 DEF Expects
    <3> QED
      BY <3>1, <3>2
  <2>9. x.peer_closed => d.peer_closed \/ "FIN" \in s.flags
    BY <2>2 DEF FinHere
  <2>10. B <= n /\ B <= B
    BY <2>7
  <2> QED
    BY <2>2, <2>3, <2>7, <2>8, <2>9, <2>10 DEF Receiver
<1>8. CASE d.state \notin Opening /\ d.state \notin (Open \cup Closers) \ {"TimeWait"}
  <2>1. /\ x.state = d.state /\ x.recv = d.recv /\ x.rcv_nxt = d.rcv_nxt
        /\ x.peer_closed = d.peer_closed
    BY <1>8, OthersShape DEF Opening
  <2> QED
    BY <1>4, <2>1
<1> QED
  BY <1>5, <1>6, <1>7, <1>8 DEF Opening

------------------------------------------------------------------------------
(***************************************************************************)
(* Both directions over one step of an end.                                *)
(***************************************************************************)
LEMMA Among ==
  ASSUME NEW q \in Seq(Segment), NEW t \in Seq(Segment), NEW i \in 1 .. Len(q \o t)
  PROVE  \/ \E j \in 1 .. Len(q) : (q \o t)[i] = q[j]
         \/ \E j \in 1 .. Len(t) : (q \o t)[i] = t[j]
<1>1. Len(q) \in Nat /\ Len(t) \in Nat /\ Len(q \o t) = Len(q) + Len(t)
  BY ConcatParts
<1>2. CASE i <= Len(q)
  <2>1. i \in 1 .. Len(q)
    BY <1>1, <1>2
  <2> QED
    BY <2>1, ConcatParts
<1>3. CASE ~(i <= Len(q))
  <2>1. i - Len(q) \in 1 .. Len(t) /\ Len(q) + (i - Len(q)) = i
    BY <1>1, <1>3
  <2> QED
    BY <2>1, ConcatParts
<1> QED
  BY <1>2, <1>3

LEMMA NoneStops == NoConnection.state = "none" /\ NoConnection.recv = <<>> /\ ~NoConnection.peer_closed
BY DEF NoConnection, NewConnection

\* The direction the pumping end sends in.
LEMMA PumpedSender ==
  ASSUME NEW o \in Ends, NEW c, ConnOK(c), NEW d, NEW q \in Seq(Segment), NEW b,
         NEW over \in BOOLEAN, NEW told, NEW n \in Nat, NEW A \in Nat, NEW g,
         Direction(o, c, d, q, b, TRUE, over, told, n, A, g), NEW freed
  PROVE  /\ Direction(o, Freed(Sent(c), freed), d, q \o Segments(c), b, TRUE,
                      over \/ Overtakes(c), told, n, A, g)
         /\ Direction(o, Freed(Unsent(c), freed), d, q, b, TRUE, over, told, n, A, g)
<1> DEFINE x == Sent(c)
           t == Segments(c)
<1>1. Direction(o, x, d, q, b, TRUE, over \/ Overtakes(c), told, n, A, g)
  BY TurnOfSender
<1>2. ASSUME NEW i \in 1 .. Len(t)
      PROVE  Carried(o, n, t[i]) /\ ("FIN" \in t[i].flags => x.state \in Closers)
  <2>1. n <= Bytes(o) /\ Sender(o, c, n, A) /\ (c.state \in Open => A <= n)
    BY DEF Direction, Sending, Receiver
  <2>2. Carried(o, n, t[i]) /\ ("FIN" \in t[i].flags => Sends(c) = "FIN")
    BY <2>1, TurnCarries
  <2>3. Sends(c) = "FIN" => x.state = AfterFin(c.state) /\ c.state \in Open \cup Closers
    BY SentShape, SendsWhere
  <2> QED
    BY <2>2, <2>3, AfterFinState
<1>3. t \in Seq(Segment)
  BY SegmentsShape
<1>4. ConnOK(x)
  BY SentShape
<1> HIDE DEF x, t
<1>5. \A i \in 1 .. Len(q \o t) : MayCarry(o, x, n, q, (q \o t)[i])
  BY <1>2, <1>3, Among DEF MayCarry
<1>6. \A i \in 1 .. Len(b) : MayAnswer(o, x, TRUE, A, b, b[i])
  BY DEF MayAnswer
<1>7. Direction(o, x, d, q \o t, b, TRUE, over \/ Overtakes(c), told, n, A, g)
  BY <1>1, <1>5, <1>6, Travels
<1>8. Direction(o, NoConnection, d, q \o t, b, TRUE, over \/ Overtakes(c), told, n, A, g)
  BY <1>7, NoneStops, SenderStops
<1>9. Direction(o, Unsent(c), d, q, b, TRUE, over, told, n, A, g)
  <2>1. SenderAlike(c, Unsent(c)) /\ ReceiverAlike(d, d)
    BY UnsentShape DEF SenderAlike, ReceiverAlike
  <2> QED
    BY <2>1, AlikeDirection
<1>10. Direction(o, NoConnection, d, q, b, TRUE, over, told, n, A, g)
  BY NoneStops, SenderStops
<1> QED
  BY <1>4, <1>7, <1>8, <1>9, <1>10, FreedShape, UnsentShape DEF x, t

\* The direction it receives in.
LEMMA PumpedReceiver ==
  ASSUME NEW o \in Ends, NEW c, NEW d, ConnOK(d), NEW q, NEW b \in Seq(Segment),
         NEW began, NEW over, NEW told, NEW n \in Nat, NEW A \in Nat, NEW g \in Seq(Byte),
         Direction(o, c, d, q, b, began, over, told, n, A, g), NEW freed
  PROVE  /\ Direction(o, c, Freed(Sent(d), freed), q, b \o Segments(d), began, over, told, n, A, g)
         /\ Direction(o, c, Freed(Unsent(d), freed), q, b, began, over, told, n, A, g)
<1> DEFINE y == Sent(d)
           t == Segments(d)
<1>1. /\ Direction(o, c, y, q, b, began, over, told, n, A, g)
      /\ \A i \in 1 .. Len(t) : Sending(began, c) => Acknowledges(o, A, t[i])
  BY TurnOfReceiver
<1>2. t \in Seq(Segment)
  BY SegmentsShape
<1>3. ConnOK(y) /\ y.recv \in Seq(Byte)
  <2>1. ConnOK(y)
    BY SentShape
  <2> HIDE DEF y
  <2>2. y.recv \in Seq(Byte)
    BY <2>1, Fields DEF ConnOK
  <2> QED
    BY <2>1, <2>2
<1> HIDE DEF y, t
<1>4. \A i \in 1 .. Len(q) : MayCarry(o, c, n, q, q[i])
  BY DEF MayCarry
<1>5. \A i \in 1 .. Len(b \o t) : MayAnswer(o, c, began, A, b, (b \o t)[i])
  BY <1>1, <1>2, Among DEF MayAnswer
<1>6. Direction(o, c, y, q, b \o t, began, over, told, n, A, g)
  BY <1>1, <1>4, <1>5, Travels
<1>7. Direction(o, c, NoConnection, q, b \o t, began, over, told, n, A, g)
  BY <1>3, <1>6, NoneStops, ReceiverStops
<1>8. Direction(o, c, Unsent(d), q, b, began, over, told, n, A, g)
  <2>1. SenderAlike(c, c) /\ ReceiverAlike(d, Unsent(d))
    BY UnsentShape DEF SenderAlike, ReceiverAlike
  <2> QED
    BY <2>1, AlikeDirection
<1>9. Direction(o, c, NoConnection, q, b, began, over, told, n, A, g)
  <2>1. d.recv \in Seq(Byte)
    BY Fields DEF ConnOK
  <2> QED
    BY <2>1, NoneStops, ReceiverStops
<1> QED
  BY <1>3, <1>6, <1>7, <1>8, <1>9, FreedShape, UnsentShape DEF y, t

\* A segment handled: the direction the end sends in.
LEMMA HandledSender ==
  ASSUME NEW o \in Ends, NEW c, ConnOK(c), NEW d, NEW q, NEW b,
         NEW over, NEW told, NEW n \in Nat, NEW A \in Nat, NEW g,
         Direction(o, c, d, q, b, TRUE, over, told, n, A, g),
         NEW s \in Segment, \E i \in 1 .. Len(b) : s = b[i],
         NEW m, Carried(other(o), m, s), "RST" \notin s.flags, ~Refused(c, s)
  PROVE  Direction(o, Handled(c, s), d, q, b, TRUE, over, told, n, A, g)
<1> DEFINE x == Handled(c, s)
<1>1. /\ n <= Bytes(o) /\ Sender(o, c, n, A)
      /\ c.state \in Opening \cup Open => A <= n /\ Acknowledges(o, A, s)
  BY DEF Direction, Sending, Receiver
<1>2. /\ Sender(o, x, n, A)
      /\ x.state \in Opening \cup Open => c.state \in Opening \cup Open
      /\ x.state \in Closers => c.state \in Closers
      /\ x.state # "none" => c.state # "none"
      /\ \/ x.send = c.send
         \/ c.state \in Opening \cup Open /\ n - Len(x.send) <= A
         \/ c.state \in Closers
  BY <1>1, SenderHandles
<1>3. Len(x.send) \in Nat
  BY HandledType, Fields DEF ConnOK
<1> HIDE DEF x
<1>4. Sending(TRUE, x) => Sending(TRUE, c)
  BY <1>2 DEF Sending
<1>5. ASSUME ~over, x.state # "none"
      PROVE  n - Len(x.send) <= A
  <2>1. n - Len(c.send) <= A
    BY <1>2, <1>5 DEF Direction
  <2>2. c.state \in Closers => A = n
    BY <1>5 DEF Direction
  <2>3. A = n => n - Len(x.send) <= A
    BY <1>3
  <2> QED
    BY <1>2, <2>1, <2>2, <2>3
<1> QED
  BY <1>2, <1>4, <1>5 DEF Direction, x

\* ... and the direction it receives in.
LEMMA HandledReceiver ==
  ASSUME NEW o \in Ends, NEW c, ConnOK(c), NEW d, ConnOK(d), NEW q, NEW b,
         NEW began, NEW over, NEW told, NEW n \in Nat, NEW A \in Nat, NEW g \in Seq(Byte),
         Direction(o, c, d, q, b, began, over, told, n, A, g),
         d.state # "none", d.state = "SynSent" => o # Client,
         NEW s \in Segment, \E i \in 1 .. Len(q) : s = q[i], ~Refused(d, s)
  PROVE  Direction(o, c, Handled(d, s), q, b, began, over, told, n,
                   A + Len(Handled(d, s).recv) - Len(d.recv), g)
<1> DEFINE y == Handled(d, s)
           B == A + Len(y.recv) - Len(d.recv)
<1>1. n <= Bytes(o) /\ Carried(o, n, s) /\ ("FIN" \in s.flags => Ended(q, d, told))
  BY DEF Direction, Ended
<1>2. CASE over
  <2>1. ~Sending(began, c)
    BY <1>2 DEF Direction
  <2>2. c.state \notin Opening \cup Open
    BY <2>1 DEF Sending
  <2>3. Sender(o, c, n, A + Len(Handled(d, s).recv) - Len(d.recv))
    BY <2>2 DEF Direction, Sender
  <2> QED
    BY <1>2, <2>1, <2>3 DEF Direction
<1>3. CASE ~over
  <2>1. Receiver(o, d, g, n, A) /\ (d.peer_closed \/ "FIN" \in s.flags => A = n)
    BY <1>1, <1>3 DEF Direction, Ended
  <2>2. /\ B \in A .. n /\ Receiver(o, y, g, n, B)
        /\ y.peer_closed => d.peer_closed \/ "FIN" \in s.flags
    BY <1>1, <2>1, ReceiverHandles
  <2> SUFFICES Direction(o, c, y, q, b, began, over, told, n, B, g)
    OBVIOUS
  <2> HIDE DEF y, B
  <2>3. Ended(q, y, told) => Ended(q, d, told)
    BY <1>1, <2>2 DEF Ended
  <2>4. A <= B /\ B <= n /\ B \in Nat
    BY <2>2
  <2>5. \A a \in 1 .. A + 1 : a \in 1 .. B + 1
    BY <2>4
  <2>6. Sender(o, c, n, B)
    <3>1. Sender(o, c, n, A)
      BY DEF Direction
    <3>2. n = 0 => B = 0
      BY <2>4
    <3> QED
      BY <2>5, <3>1, <3>2 DEF Sender
  <2>7. ASSUME NEW t, Acknowledges(o, A, t)
        PROVE  Acknowledges(o, B, t)
    BY <2>5, <2>7 DEF Acknowledges
  <2>8. A = n => B = n
    BY <2>4
  <2>9. Len(c.send) \in Nat
    BY Fields DEF ConnOK
  <2>10. n - Len(c.send) <= A => n - Len(c.send) <= B
    BY <2>4, <2>9
  <2> QED
    BY <2>2, <2>3, <2>6, <2>7, <2>8, <2>10 DEF Direction
<1> QED
  BY <1>2, <1>3

------------------------------------------------------------------------------
(***************************************************************************)
(* Calls of programs and timers, by what they do to a direction.           *)
(***************************************************************************)

\* Bytes are handed over: they go on where the queue ends.
LEMMA GivenSender ==
  ASSUME NEW o \in Ends, NEW c, ConnOK(c), NEW d, NEW q \in Seq(Segment), NEW b,
         NEW over, NEW told, NEW n \in Nat, NEW A \in Nat, NEW g,
         Direction(o, c, d, q, b, TRUE, over, told, n, A, g), c.state \in Open,
         NEW k \in Nat, n + k <= Bytes(o),
         NEW x, x.state = c.state, x.una = c.una, x.nxt = c.nxt, x.fin_sent = c.fin_sent,
         Len(x.send) = Len(c.send) + k, Continues(x.send, c.send, n)
  PROVE  Direction(o, x, d, q, b, TRUE, over, told, n + k, A, g)
<1>1. /\ c.state \notin Opening /\ c.state \notin {"SynSent", "SynReceived"}
      /\ c.state \notin Closers /\ Sending(TRUE, c) /\ Sending(TRUE, x)
  BY DEF Sending, Open, Opening, Closers
<1>2. /\ ~over /\ ~Ended(q, d, told) /\ Receiver(o, d, g, n, A)
      /\ Sender(o, c, n, A) /\ n - Len(c.send) <= A
  BY <1>1 DEF Direction, Open
<1>3. A <= n /\ Len(c.send) \in Nat
  BY <1>2, Fields DEF ConnOK, Receiver
<1>4. PICK u \in 1 .. A + 1, p \in 1 .. n + 1 :
         /\ c.una = Num(o, u) /\ c.nxt = Num(o, p)
         /\ Len(c.send) = n - u + 1 /\ Stretch(c.send, u)
  BY <1>2 DEF Sender
<1>5. p \in 1 .. (n + k) + 1 /\ Len(x.send) = (n + k) - u + 1
  <2>1. (n - u + 1) + k = (n + k) - u + 1 /\ p \in 1 .. (n + k) + 1
    OBVIOUS
  <2> QED
    BY <1>4, <2>1
<1>6. ASSUME NEW i \in 1 .. Len(x.send)
      PROVE  x.send[i] = u + i - 1
  <2>1. CASE i <= Len(c.send)
    <3>1. x.send[i] = c.send[i] /\ i \in 1 .. Len(c.send)
      BY <1>3, <2>1 DEF Continues
    <3> QED
      BY <1>4, <3>1 DEF Stretch
  <2>2. CASE ~(i <= Len(c.send))
    <3>1. x.send[i] = n + i - Len(c.send)
      BY <2>2 DEF Continues
    <3>2. i \in Int /\ n + i - (n - u + 1) = u + i - 1
      OBVIOUS
    <3> QED
      BY <1>4, <3>1, <3>2
  <2> QED
    BY <2>1, <2>2
<1>7. Stretch(x.send, u)
  BY <1>6 DEF Stretch
<1>8. Sender(o, x, n + k, A)
  <2>1. x.una = Num(o, u) /\ x.nxt = Num(o, p)
    BY <1>4
  <2>2. ~x.fin_sent
    BY <1>2 DEF Sender
  <2> QED
    BY <1>1, <1>5, <1>7, <2>1, <2>2 DEF Sender
<1>9. Receiver(o, d, g, n + k, A)
  <2>1. A <= n + k
    BY <1>3
  <2> QED
    BY <1>2, <2>1 DEF Receiver
<1>10. ASSUME NEW m \in 1 .. Len(q)
       PROVE  Carried(o, n + k, q[m])
  <2>1. Carried(o, n, q[m])
    BY <1>10 DEF Direction
  <2>2. Len(q[m].data) \in Nat
    <3>1. q[m] \in Segment
      BY <1>10, ElementOfSeq
    <3>2. q[m].data \in Seq(Byte)
      BY <3>1 DEF Segment
    <3> QED
      BY <3>2, LenProperties
  <2>3. ASSUME q[m].data # <<>>
        PROVE  \E i \in 1 .. n + k :
                 /\ q[m].seq = Num(o, i) /\ Stretch(q[m].data, i)
                 /\ i + Len(q[m].data) - 1 <= n + k
    <3>1. PICK i \in 1 .. n : /\ q[m].seq = Num(o, i) /\ Stretch(q[m].data, i)
                              /\ i + Len(q[m].data) - 1 <= n
      BY <2>1, <2>3 DEF Carried
    <3>2. \A l \in Nat : i + l - 1 <= n => i + l - 1 <= n + k
      OBVIOUS
    <3>3. i \in 1 .. n + k
      OBVIOUS
    <3> QED
      BY <2>2, <3>1, <3>2, <3>3
  <2> QED
    BY <2>1, <2>3 DEF Carried
<1>11. (n + k) - Len(x.send) <= A
  <2>1. (n + k) - ((n + k) - u + 1) <= A
    OBVIOUS
  <2> QED
    BY <1>5, <2>1
<1> QED
  BY <1>1, <1>2, <1>8, <1>9, <1>10, <1>11 DEF Direction

\* A read moves bytes from the buffer to the program.
LEMMA ReadReceiver ==
  ASSUME NEW o, NEW c, NEW d, d.recv \in Seq(Byte), NEW q, NEW b, NEW began, NEW over, NEW told,
         NEW n \in Nat, NEW A \in Nat, NEW g \in Seq(Byte),
         Direction(o, c, d, q, b, began, over, told, n, A, g),
         NEW read \in Seq(Byte), NEW y, y.recv \in Seq(Byte), read \o y.recv = d.recv,
         y.state = d.state, y.rcv_nxt = d.rcv_nxt, y.peer_closed = d.peer_closed
  PROVE  Direction(o, c, y, q, b, began, over, told, n, A, g \o read)
<1>1. (g \o read) \o y.recv = g \o d.recv
  <2>1. g \o (read \o y.recv) = (g \o read) \o y.recv
    BY Associative
  <2> QED
    BY <2>1
<1>2. FromFirst(g \o read, y.recv) = FromFirst(g, d.recv)
  BY <1>1 DEF FromFirst
<1>3. Amount(g \o read, y.recv) = Amount(g, d.recv)
  BY <1>1 DEF Amount
<1>4. Receiver(o, d, g, n, A) => Receiver(o, y, g \o read, n, A)
  BY <1>2, <1>3 DEF Receiver
<1>5. Ended(q, y, told) <=> Ended(q, d, told)
  BY DEF Ended
<1> QED
  BY <1>4, <1>5 DEF Direction

\* The timer makes everything unacknowledged unsent.
LEMMA RewoundSender ==
  ASSUME NEW o, NEW c, NEW d, NEW q, NEW b, NEW over, NEW told,
         NEW n \in Nat, NEW A \in Nat, NEW g,
         Direction(o, c, d, q, b, TRUE, over, told, n, A, g),
         NEW x, x.state = c.state, x.una = c.una, x.nxt = c.una, x.send = c.send, ~x.fin_sent
  PROVE  Direction(o, x, d, q, b, TRUE, over, told, n, A, g)
<1>1. Sending(TRUE, x) <=> Sending(TRUE, c)
  BY DEF Sending
<1>2. ASSUME c.state \in Open
      PROVE  \E u \in 1 .. A + 1, p \in 1 .. n + 1 :
               /\ x.una = Num(o, u) /\ x.nxt = Num(o, p)
               /\ Len(x.send) = n - u + 1 /\ Stretch(x.send, u)
  <2>1. PICK u \in 1 .. A + 1 : c.una = Num(o, u) /\ Len(c.send) = n - u + 1 /\ Stretch(c.send, u)
    BY <1>2 DEF Direction, Sender
  <2>2. A <= n
    BY <1>2 DEF Direction, Sending, Receiver
  <2>3. u \in 1 .. n + 1
    BY <2>2
  <2> QED
    BY <2>1, <2>3
<1>3. Sender(o, x, n, A)
  <2>1. Sender(o, c, n, A)
    BY DEF Direction
  <2> QED
    BY <1>2, <2>1 DEF Sender
<1> QED
  BY <1>1, <1>3 DEF Direction

\* A connection begins.
LEMMA NewSender ==
  ASSUME NEW o, NEW c, NEW d, NEW q, NEW b, NEW over, NEW told,
         NEW n \in Nat, NEW A \in Nat, NEW g,
         Direction(o, c, d, q, b, FALSE, over, told, n, A, g),
         NEW x, x.una = Num(o, 0), x.nxt = Num(o, 0), x.send = <<>>, ~x.fin_sent,
         \/ x.state = "SynSent" /\ o = Client
         \/ x.state = "SynReceived" /\ o = Server
  PROVE  Direction(o, x, d, q, b, TRUE, over, told, n, A, g)
<1>1. Sending(FALSE, c) /\ Sending(TRUE, x)
  BY DEF Sending, Opening
<1>2. ~over /\ Receiver(o, d, g, n, A) /\ n = 0
  BY <1>1 DEF Direction
<1>3. A = 0 /\ n - Len(x.send) <= A
  BY <1>2 DEF Receiver
<1>4. x.state \notin Open /\ x.state \notin Closers
  BY DEF Open, Closers
<1>5. Sender(o, x, n, A)
  BY <1>2, <1>3, <1>4 DEF Sender
<1> QED
  BY <1>1, <1>2, <1>3, <1>4, <1>5 DEF Direction

LEMMA NewReceiver ==
  ASSUME NEW o, NEW c, NEW d, d.state = "none", d.recv \in Seq(Byte), NEW q, NEW b,
         NEW began, NEW over, NEW told, NEW n \in Nat, NEW g \in Seq(Byte),
         Direction(o, c, d, q, b, began, over, told, n, 0, g),
         NEW y, y.recv = <<>>, ~y.peer_closed,
         \/ y.state = "SynSent"
         \/ y.state = "SynReceived" /\ y.rcv_nxt = Num(o, 1)
  PROVE  Direction(o, c, y, q, b, began, over, told, n, 0, g)
<1>1. Ended(q, y, told) => Ended(q, d, told)
  BY DEF Ended
<1>2. ASSUME Receiver(o, d, g, n, 0)
      PROVE  Receiver(o, y, g, n, 0)
  <2>1. Len(g) \in Nat /\ Len(d.recv) \in Nat /\ Len(g \o d.recv) = Len(g) + Len(d.recv)
    BY ConcatParts
  <2>2. Len(g) = 0
    BY <1>2, <2>1 DEF Receiver, Amount
  <2>3. g \o y.recv = g
    OBVIOUS
  <2>4. FromFirst(g, y.recv) /\ Amount(g, y.recv) = 0
    BY <2>2, <2>3 DEF FromFirst, Amount, Stretch
  <2>5. y.state \in Synced => Expects(o, y.rcv_nxt, 0, y.peer_closed)
    BY DEF Synced, Open, Closers, Expects
  <2> QED
    BY <1>2, <2>4, <2>5 DEF Receiver
<1> QED
  BY <1>1, <1>2 DEF Direction

------------------------------------------------------------------------------
(***************************************************************************)
(* One step of the machine: e acts, r is the other end.                    *)
(***************************************************************************)
LEMMA Typed ==
  ASSUME TypeOK, NEW e \in Ends
  PROVE  /\ ConnOK(conn[e]) /\ conn[e] \in Connection /\ conn[e].recv \in Seq(Byte)
         /\ net[e] \in Seq(Segment) /\ born[e] \in BOOLEAN /\ overtook[e] \in BOOLEAN
         /\ sent[e] \in Nat /\ arrived[e] \in Nat /\ got[e] \in Seq(Byte)
BY Fields DEF TypeOK, ConnOK

LEMMA TypedNext ==
  ASSUME TypeOK', NEW e \in Ends
  PROVE  /\ ConnOK(conn'[e]) /\ conn'[e] \in Connection /\ conn'[e].recv \in Seq(Byte)
         /\ net'[e] \in Seq(Segment) /\ born'[e] \in BOOLEAN /\ overtook'[e] \in BOOLEAN
         /\ sent'[e] \in Nat /\ arrived'[e] \in Nat /\ got'[e] \in Seq(Byte)
BY Fields DEF TypeOK, ConnOK

\* The two directions, seen from the end that acts.
Outward(e) ==
  Direction(e, conn[e], conn[other(e)], net[other(e)], net[e], born[e], overtook[e],
            ended[other(e)], sent[e], arrived[other(e)], got[other(e)])
Inward(e) ==
  Direction(other(e), conn[other(e)], conn[e], net[e], net[other(e)], born[other(e)],
            overtook[other(e)], ended[e], sent[other(e)], arrived[e], got[e])

LEMMA BothWays ==
  ASSUME NEW e \in Ends
  PROVE  Streams <=> Outward(e) /\ Inward(e) /\ Unborn(e) /\ Unborn(other(e))
<1>1. other(e) \in Ends /\ other(other(e)) = e /\ \A o \in Ends : o = e \/ o = other(e)
  BY OtherEnd DEF Ends, other
<1>2. (StreamOf(e) <=> Outward(e)) /\ (StreamOf(other(e)) <=> Inward(e))
  BY <1>1 DEF StreamOf, Outward, Inward
<1> QED
  BY <1>1, <1>2 DEF Streams

LEMMA BothWaysNext ==
  ASSUME NEW e \in Ends, Outward(e)', Inward(e)', Unborn(e)', Unborn(other(e))'
  PROVE  Streams'
<1>1. other(e) \in Ends /\ other(other(e)) = e /\ \A o \in Ends : o = e \/ o = other(e)
  BY OtherEnd DEF Ends, other
<1>2. StreamOf(e)' /\ StreamOf(other(e))'
  BY <1>1 DEF StreamOf, Outward, Inward
<1> QED
  BY <1>1, <1>2 DEF Streams

\* What a connection owes leaves.
LEMMA PumpStreams ==
  ASSUME TypeOK, TypeOK', NEW e \in Ends, NEW c, ConnOK(c), NEW rest \in Seq(Segment),
         NEW cost, NEW freed, Pump(e, c, rest, cost, freed), born'[e],
         Direction(e, c, conn[other(e)], net[other(e)], rest, TRUE, overtook[e],
                   ended'[other(e)], sent'[e], arrived'[other(e)], got'[other(e)]),
         Direction(other(e), conn[other(e)], c, rest, net[other(e)], born'[other(e)],
                   overtook[other(e)], ended'[e], sent'[other(e)], arrived'[e], got'[e])
  PROVE  Outward(e)' /\ Inward(e)'
<1> DEFINE r == other(e)
<1>1. r \in Ends /\ r # e
  BY OtherEnd
<1> HIDE DEF r
<1>2. /\ sent'[e] \in Nat /\ arrived'[r] \in Nat
      /\ sent'[r] \in Nat /\ arrived'[e] \in Nat /\ got'[e] \in Seq(Byte)
      /\ born'[e] = TRUE
  BY <1>1, TypedNext
<1>3. overtook[e] \in BOOLEAN /\ net[r] \in Seq(Segment)
  BY <1>1, Typed
<1>4. /\ conn \in [Ends -> Connection] /\ net \in [Ends -> Seq(Segment)]
      /\ overtook \in [Ends -> BOOLEAN]
  BY DEF TypeOK
<1>5. /\ Direction(e, c, conn[r], net[r], rest, TRUE, overtook[e],
                   ended'[r], sent'[e], arrived'[r], got'[r])
      /\ Direction(r, conn[r], c, rest, net[r], born'[r],
                   overtook[r], ended'[e], sent'[r], arrived'[e], got'[e])
  BY DEF r
<1>6. /\ Direction(e, Freed(Sent(c), freed), conn[r], net[r] \o Segments(c), rest, TRUE,
                   overtook[e] \/ Overtakes(c), ended'[r], sent'[e], arrived'[r], got'[r])
      /\ Direction(e, Freed(Unsent(c), freed), conn[r], net[r], rest, TRUE,
                   overtook[e], ended'[r], sent'[e], arrived'[r], got'[r])
  BY <1>2, <1>3, <1>5, PumpedSender
<1>7. /\ Direction(r, conn[r], Freed(Sent(c), freed), rest, net[r] \o Segments(c), born'[r],
                   overtook[r], ended'[e], sent'[r], arrived'[e], got'[e])
      /\ Direction(r, conn[r], Freed(Unsent(c), freed), rest, net[r], born'[r],
                   overtook[r], ended'[e], sent'[r], arrived'[e], got'[e])
  BY <1>1, <1>2, <1>3, <1>5, PumpedReceiver
<1>8. SUFFICES
      /\ Direction(e, conn'[e], conn'[r], net'[r], net'[e], TRUE, overtook'[e],
                   ended'[r], sent'[e], arrived'[r], got'[r])
      /\ Direction(r, conn'[r], conn'[e], net'[e], net'[r], born'[r],
                   overtook'[r], ended'[e], sent'[r], arrived'[e], got'[e])
  BY <1>2 DEF Outward, Inward, r
<1>9. CASE /\ conn' = [conn EXCEPT ![e] = Freed(Sent(c), freed)]
           /\ net' = [net EXCEPT ![e] = rest, ![r] = @ \o Segments(c)]
           /\ overtook' = [overtook EXCEPT ![e] = @ \/ Overtakes(c)]
  <2>1. /\ conn'[e] = Freed(Sent(c), freed) /\ conn'[r] = conn[r]
        /\ net'[e] = rest /\ net'[r] = net[r] \o Segments(c)
        /\ overtook'[e] = (overtook[e] \/ Overtakes(c)) /\ overtook'[r] = overtook[r]
    BY <1>1, <1>4, <1>9
  <2> QED
    BY <1>6, <1>7, <2>1
<1>10. CASE /\ conn' = [conn EXCEPT ![e] = Freed(Unsent(c), freed)]
            /\ net' = [net EXCEPT ![e] = rest]
            /\ UNCHANGED overtook
  <2>1. /\ conn'[e] = Freed(Unsent(c), freed) /\ conn'[r] = conn[r]
        /\ net'[e] = rest /\ net'[r] = net[r]
        /\ overtook'[e] = overtook[e] /\ overtook'[r] = overtook[r]
    BY <1>1, <1>4, <1>10
  <2> QED
    BY <1>6, <1>7, <2>1
<1> QED
  BY <1>9, <1>10 DEF Pump, r

LEMMA PumpStep ==
  ASSUME TypeOK, TypeOK', Streams, NEW e \in Ends,
         NEW c, ConnOK(c), NEW rest \in Seq(Segment), NEW cost, NEW freed,
         Pump(e, c, rest, cost, freed), born'[e],
         born'[other(e)] = born[other(e)], arrived'[other(e)] = arrived[other(e)],
         Direction(e, c, conn[other(e)], net[other(e)], rest, TRUE, overtook[e],
                   ended'[other(e)], sent'[e], arrived'[other(e)], got'[other(e)]),
         Direction(other(e), conn[other(e)], c, rest, net[other(e)], born'[other(e)],
                   overtook[other(e)], ended'[e], sent'[other(e)], arrived'[e], got'[e])
  PROVE  Streams'
<1>1. Outward(e)' /\ Inward(e)'
  BY PumpStreams
<1>2. Unborn(other(e))'
  <2>1. Unborn(other(e)) /\ other(e) \in Ends /\ other(e) # e /\ conn \in [Ends -> Connection]
    BY BothWays, OtherEnd DEF TypeOK
  <2>2. conn'[other(e)] = conn[other(e)]
    BY <2>1 DEF Pump
  <2> QED
    BY <2>1, <2>2 DEF Unborn
<1>3. Unborn(e)'
  BY DEF Unborn
<1> QED
  BY <1>1, <1>2, <1>3, BothWaysNext

\* Segments disappear or are handled, and resets are sent.
Fewer(x, q)  == \A i \in 1 .. Len(x) : \E j \in 1 .. Len(q) : x[i] = q[j]
Resets(x, q) == \A i \in 1 .. Len(x) :
                  \/ \E j \in 1 .. Len(q) : x[i] = q[j]
                  \/ /\ x[i].data = <<>> /\ "RST" \in x[i].flags
                     /\ "SYN" \notin x[i].flags /\ "FIN" \notin x[i].flags

LEMMA FewerTravel ==
  ASSUME NEW o, NEW c, NEW d, NEW q, NEW b, NEW began, NEW over, NEW told,
         NEW n, NEW A, NEW g, Direction(o, c, d, q, b, began, over, told, n, A, g),
         NEW x, Resets(x, q), NEW y, Resets(y, b)
  PROVE  Direction(o, c, d, x, y, began, over, told, n, A, g)
<1>1. \A i \in 1 .. Len(x) : MayCarry(o, c, n, q, x[i])
  BY DEF Resets, MayCarry, Carried
<1>2. \A i \in 1 .. Len(y) : MayAnswer(o, c, began, A, b, y[i])
  BY DEF Resets, MayAnswer, Acknowledges
<1> QED
  BY <1>1, <1>2, Travels

LEMMA QuietStep ==
  ASSUME TypeOK, TypeOK', Streams, NEW e \in Ends, NEW x, x.state = "none" \/ exists(e),
         NEW rest, Resets(rest, net[e]), NEW more, Resets(more, net[other(e)]),
         conn' = [conn EXCEPT ![e] = x],
         net' = [net EXCEPT ![e] = rest, ![other(e)] = more],
         UNCHANGED <<born, overtook, ended, sent, arrived, got>>,
         Direction(e, x, conn[other(e)], net[other(e)], net[e], born[e], overtook[e],
                   ended[other(e)], sent[e], arrived[other(e)], got[other(e)]),
         Direction(other(e), conn[other(e)], x, net[e], net[other(e)], born[other(e)],
                   overtook[other(e)], ended[e], sent[other(e)], arrived[e], got[e])
  PROVE  Streams'
<1> DEFINE r == other(e)
<1>1. r \in Ends /\ r # e
  BY OtherEnd
<1>2. Unborn(e) /\ Unborn(r)
  BY BothWays
<1>3. /\ Direction(e, x, conn[r], more, rest, born[e], overtook[e],
                   ended[r], sent[e], arrived[r], got[r])
      /\ Direction(r, conn[r], x, rest, more, born[r], overtook[r],
                   ended[e], sent[r], arrived[e], got[e])
  BY FewerTravel
<1> HIDE DEF r
<1>4. /\ conn'[e] = x /\ conn'[r] = conn[r]
      /\ net'[e] = rest /\ net'[r] = more
  BY <1>1 DEF TypeOK, r
<1>5. Outward(e)' /\ Inward(e)'
  BY <1>3, <1>4 DEF Outward, Inward, r
<1>6. Unborn(e)' /\ Unborn(r)'
  BY <1>2, <1>4 DEF Unborn, exists
<1> QED
  BY <1>5, <1>6, BothWaysNext DEF r

\* The connection of e is no more, or only its end is left to be told.
LEMMA StopStep ==
  ASSUME TypeOK, TypeOK', Streams, NEW e \in Ends,
         NEW x, \/ x = NoConnection
                \/ /\ exists(e) /\ x.state = "Closed" /\ x.send = conn[e].send
                   /\ x.recv = conn[e].recv /\ x.peer_closed = conn[e].peer_closed,
         NEW rest, Resets(rest, net[e]), NEW more, Resets(more, net[other(e)]),
         conn' = [conn EXCEPT ![e] = x],
         net' = [net EXCEPT ![e] = rest, ![other(e)] = more],
         UNCHANGED <<born, overtook, ended, sent, arrived, got>>
  PROVE  Streams'
<1> DEFINE r == other(e)
<1>1. r \in Ends /\ Outward(e) /\ Inward(e) /\ Unborn(e)
  BY BothWays, OtherEnd
<1>2. /\ conn[e].recv \in Seq(Byte) /\ got[e] \in Seq(Byte)
      /\ sent[r] \in Nat /\ arrived[e] \in Nat
  BY <1>1, Typed
<1>3. exists(e) => born[e]
  BY <1>1 DEF exists, Unborn
<1>4. Direction(e, x, conn[r], net[r], net[e], born[e], overtook[e],
                ended[r], sent[e], arrived[r], got[r])
  BY <1>1, <1>3, NoneStops, SenderStops DEF Outward, exists
<1>5. Direction(r, conn[r], x, net[e], net[r], born[r], overtook[r],
                ended[e], sent[r], arrived[e], got[e])
  BY <1>1, <1>2, NoneStops, ReceiverStops DEF Inward, exists
<1>6. x.state = "none" \/ exists(e)
  BY NoneStops
<1> QED
  BY <1>4, <1>5, <1>6, QuietStep

LEMMA FirstNumbers == Num(Client, 0) = ClientIss /\ Num(Server, 0) = ServerIss
BY Sizes, Modulus DEF Num, Iss, Number

\* The descriptor of a connection that exists is pumped, and nobody's bytes move.
LEMMA CallStep ==
  ASSUME TypeOK, TypeOK', Streams, NEW e \in Ends, exists(e),
         NEW c, ConnOK(c), NEW cost, NEW freed, Pump(e, c, net[e], cost, freed),
         UNCHANGED <<born, ended, sent, arrived, got>>,
         Direction(e, c, conn[other(e)], net[other(e)], net[e], TRUE, overtook[e],
                   ended[other(e)], sent[e], arrived[other(e)], got[other(e)]),
         Direction(other(e), conn[other(e)], c, net[e], net[other(e)], born[other(e)],
                   overtook[other(e)], ended[e], sent[other(e)], arrived[e], got[e])
  PROVE  Streams'
<1>1. born[e] = TRUE
  BY BothWays, Typed DEF Unborn, exists
<1>2. net[e] \in Seq(Segment)
  BY Typed
<1> QED
  BY <1>1, <1>2, PumpStep

\* A call that leaves both directions as they are.
LEMMA AlikeStep ==
  ASSUME TypeOK, TypeOK', Streams, NEW e \in Ends, exists(e),
         NEW c, ConnOK(c), NEW cost, NEW freed, Pump(e, c, net[e], cost, freed),
         UNCHANGED <<born, ended, sent, arrived, got>>,
         SenderAlike(conn[e], c), ReceiverAlike(conn[e], c)
  PROVE  Streams'
<1>1. Outward(e) /\ Inward(e) /\ born[e] = TRUE
  BY BothWays, Typed DEF Unborn, exists
<1>2. \A d : SenderAlike(d, d) /\ ReceiverAlike(d, d)
  BY DEF SenderAlike, ReceiverAlike
<1>3. Direction(e, c, conn[other(e)], net[other(e)], net[e], TRUE, overtook[e],
                ended[other(e)], sent[e], arrived[other(e)], got[other(e)])
  BY <1>1, <1>2, AlikeDirection DEF Outward
<1>4. Direction(other(e), conn[other(e)], c, net[e], net[other(e)], born[other(e)],
                overtook[other(e)], ended[e], sent[other(e)], arrived[e], got[e])
  BY <1>1, <1>2, AlikeDirection DEF Inward
<1> QED
  BY <1>3, <1>4, CallStep

LEMMA ConnectStep ==
  ASSUME TypeOK, TypeOK', Streams, Connect
  PROVE  Streams'
<1> DEFINE e == Client
           r == other(e)
           c == [NewConnection("SynSent") EXCEPT !.una = ClientIss, !.nxt = ClientIss]
<1>1. /\ e \in Ends /\ r \in Ends /\ r # e
      /\ ConnOK(c) /\ c.una = Num(e, 0) /\ c.nxt = Num(e, 0)
      /\ c.state = "SynSent" /\ c.send = <<>> /\ c.recv = <<>> /\ ~c.fin_sent
      /\ ~c.peer_closed
  BY ConnectType, FirstNumbers, OtherEnd DEF Ends
<1>2. /\ born[e] = FALSE /\ born'[e] /\ born'[r] = born[r]
      /\ Pump(e, c, net[e], 0, {})
      /\ UNCHANGED <<sent, got, arrived, ended>>
  BY <1>1 DEF Connect, TypeOK
<1> HIDE DEF c, r, e
<1>3. /\ Outward(e) /\ Inward(e)
      /\ conn[e].state = "none" /\ arrived[e] = 0
  BY <1>1, <1>2, BothWays DEF Unborn
<1>4. /\ conn[e].recv \in Seq(Byte) /\ net[e] \in Seq(Segment) /\ got[e] \in Seq(Byte)
      /\ sent[r] \in Nat /\ sent[e] \in Nat /\ arrived[r] \in Nat
  BY <1>1, Typed
<1>5. Direction(e, c, conn[r], net[r], net[e], TRUE, overtook[e],
                ended[r], sent[e], arrived[r], got[r])
  BY <1>1, <1>2, <1>3, <1>4, NewSender DEF Outward, r, e
<1>6. Direction(r, conn[r], c, net[e], net[r], born[r],
                overtook[r], ended[e], sent[r], arrived[e], got[e])
  BY <1>1, <1>2, <1>3, <1>4, NewReceiver DEF Inward, r
<1> QED
  BY <1>1, <1>2, <1>4, <1>5, <1>6, PumpStep DEF r

LEMMA SendStep ==
  ASSUME TypeOK, TypeOK', Streams, NEW e \in Ends, NEW n \in 1 .. Bytes(e), Send(e, n)
  PROVE  Streams'
<1> DEFINE r     == other(e)
           c     == conn[e]
           k     == sent[e]
           taken == Smaller(n, SEND_BUFFER - Len(c.send))
           more  == [j \in 1 .. taken |-> k + j]
           x     == [c EXCEPT !.send = @ \o more]
<1>1. /\ taken > 0 /\ c.state \in Open /\ k + n <= Bytes(e)
      /\ sent' = [sent EXCEPT ![e] = k + taken] /\ Pump(e, x, net[e], 0, {})
      /\ UNCHANGED <<born, got, arrived, ended>>
  BY DEF Send
<1>2. /\ r \in Ends /\ r # e /\ n \in Nat /\ sent \in [Ends -> Nat]
      /\ Outward(e) /\ Inward(e) /\ Unborn(e)
  BY BothWays, OtherEnd, Modulus DEF TypeOK
<1>3. /\ ConnOK(c) /\ k \in Nat /\ arrived[r] \in Nat /\ net[r] \in Seq(Segment)
      /\ net[e] \in Seq(Segment) /\ born[e] \in BOOLEAN
  BY <1>2, Typed
<1>4. born[e] = TRUE
  BY <1>1, <1>2, <1>3 DEF Unborn, Open
<1>5. taken \in Nat /\ taken <= n /\ Len(c.send) + taken <= SEND_BUFFER
  <2> HIDE DEF c
  <2> QED
    BY <1>1, <1>2, <1>3, TakenType
<1> HIDE DEF taken
<1>6. more \in Seq(Byte) /\ Len(more) = taken /\ Follows(more, k)
  BY <1>3, <1>5, NumberedType
<1> HIDE DEF more
<1>7. /\ ConnOK(x) /\ Len(x.send) = Len(c.send) + taken
      /\ Continues(x.send, c.send, k)
      /\ x.state = c.state /\ x.una = c.una /\ x.nxt = c.nxt /\ x.recv = c.recv
      /\ x.rcv_nxt = c.rcv_nxt /\ x.fin_sent = c.fin_sent
      /\ x.peer_closed = c.peer_closed
  <2>1. ConnOK(c) /\ k \in Nat /\ Len(c.send) + Len(more) <= SEND_BUFFER
    BY <1>3, <1>5, <1>6
  <2> HIDE DEF c, k
  <2>2. LET d == Given(c, more)
        IN  /\ ConnOK(d) /\ Len(d.send) = Len(c.send) + Len(more)
            /\ Continues(d.send, c.send, k)
            /\ d.state = c.state /\ d.una = c.una /\ d.nxt = c.nxt /\ d.recv = c.recv
            /\ d.rcv_nxt = c.rcv_nxt /\ d.fin_sent = c.fin_sent
            /\ d.peer_closed = c.peer_closed
    BY <1>6, <2>1, SendType
  <2> QED
    BY <1>6, <2>2 DEF x, Given
<1> HIDE DEF x
<1>8. k + taken <= Bytes(e) /\ k + taken \in Nat
  <2>1. Bytes(e) \in Nat /\ k \in Nat /\ k + n <= Bytes(e)
    BY <1>1, <1>3, Modulus
  <2> HIDE DEF k
  <2> QED
    BY <1>2, <1>5, <2>1
<1>9. Direction(e, x, conn[r], net[r], net[e], TRUE, overtook[e],
                ended[r], k + taken, arrived[r], got[r])
  <2>1. Direction(e, c, conn[r], net[r], net[e], TRUE, overtook[e],
                  ended[r], k, arrived[r], got[r])
    BY <1>2, <1>4 DEF Outward
  <2> HIDE DEF c, k, r
  <2> QED
    BY <1>1, <1>3, <1>5, <1>7, <1>8, <2>1, GivenSender
<1>10. Direction(r, conn[r], x, net[e], net[r], born[r],
                 overtook[r], ended[e], sent[r], arrived[e], got[e])
  <2>1. SenderAlike(conn[r], conn[r]) /\ ReceiverAlike(c, x)
    BY <1>7 DEF SenderAlike, ReceiverAlike
  <2> QED
    BY <1>2, <2>1, AlikeDirection DEF Inward
<1>11. sent'[e] = k + taken /\ sent'[r] = sent[r]
  BY <1>1, <1>2
<1> QED
  BY <1>1, <1>2, <1>3, <1>4, <1>7, <1>9, <1>10, <1>11, PumpStep

LEMMA RecvStep ==
  ASSUME TypeOK, TypeOK', Streams, NEW e \in Ends, NEW n \in 1 .. RECEIVE_BUFFER, Recv(e, n)
  PROVE  Streams'
<1> DEFINE r     == other(e)
           c     == conn[e]
           x     == LeftOver(c, n)
           y     == [x EXCEPT !.need_ack = TRUE]
           read  == TakenOut(c, n)
<1>1. /\ got' = [got EXCEPT ![e] = @ \o read] /\ exists(e) /\ c.recv # <<>>
      /\ \/ Pump(e, y, net[e], 0, {})
         \/ conn' = [conn EXCEPT ![e] = x] /\ UNCHANGED <<net, faults, overtook>>
      /\ UNCHANGED <<born, sent, arrived, ended>>
  BY DEF Recv, LeftOver, TakenOut
<1>2. /\ r \in Ends /\ r # e /\ n \in Nat /\ got \in [Ends -> Seq(Byte)]
      /\ conn \in [Ends -> Connection]
      /\ Outward(e) /\ Inward(e) /\ Unborn(e) /\ Unborn(r)
  <2>1. Outward(e) /\ Inward(e) /\ Unborn(e) /\ Unborn(r)
    BY BothWays
  <2>2. got \in [Ends -> Seq(Byte)] /\ conn \in [Ends -> Connection]
    BY DEF TypeOK
  <2> QED
    BY <2>1, <2>2, OtherEnd, Sizes
<1>3. /\ ConnOK(c) /\ c.recv \in Seq(Byte) /\ arrived[e] \in Nat /\ sent[r] \in Nat
      /\ net[e] \in Seq(Segment) /\ got[e] \in Seq(Byte) /\ born[e] \in BOOLEAN
  BY <1>2, Typed
<1>4. born[e] = TRUE
  BY <1>1, <1>2, <1>3 DEF Unborn, exists
<1>5. /\ read \in Seq(Byte) /\ ConnOK(x) /\ ConnOK(y) /\ read \o x.recv = c.recv
      /\ x.state = c.state /\ x.una = c.una /\ x.nxt = c.nxt /\ x.send = c.send
      /\ x.rcv_nxt = c.rcv_nxt /\ x.fin_sent = c.fin_sent
      /\ x.peer_closed = c.peer_closed
  <2>1. ConnOK(c) /\ c.recv # <<>>
    BY <1>1, <1>3
  <2> HIDE DEF c
  <2> QED
    BY <1>2, <2>1, RecvType
<1>6. x.recv \in Seq(Byte) /\ SenderAlike(c, x)
  <2> HIDE DEF x, c
  <2> QED
    BY <1>5, Fields DEF ConnOK, SenderAlike
<1>7. SenderAlike(x, y) /\ ReceiverAlike(x, y)
  <2>1. x \in Connection
    BY <1>5 DEF ConnOK
  <2> HIDE DEF x
  <2> QED
    BY <2>1 DEF SenderAlike, ReceiverAlike, Connection
<1> HIDE DEF x, y, read
<1>8. \A d : SenderAlike(d, d) /\ ReceiverAlike(d, d)
  BY DEF SenderAlike, ReceiverAlike
<1>9. /\ got'[e] = got[e] \o read /\ got'[r] = got[r]
  BY <1>1, <1>2
<1> HIDE DEF c, r
<1>10. Direction(e, x, conn[r], net[r], net[e], TRUE, overtook[e],
                 ended[r], sent[e], arrived[r], got'[r])
  <2>1. Direction(e, c, conn[r], net[r], net[e], TRUE, overtook[e],
                  ended[r], sent[e], arrived[r], got[r])
    BY <1>2, <1>4 DEF Outward, c, r
  <2>2. Direction(e, x, conn[r], net[r], net[e], TRUE, overtook[e],
                  ended[r], sent[e], arrived[r], got[r])
    BY <1>6, <1>8, <2>1, AlikeDirection
  <2> QED
    BY <1>9, <2>2
<1>11. Direction(r, conn[r], x, net[e], net[r], born[r],
                 overtook[r], ended[e], sent[r], arrived[e], got'[e])
  <2>1. Direction(r, conn[r], c, net[e], net[r], born[r],
                  overtook[r], ended[e], sent[r], arrived[e], got[e])
    BY <1>2 DEF Inward, c, r
  <2>2. Direction(r, conn[r], x, net[e], net[r], born[r],
                  overtook[r], ended[e], sent[r], arrived[e], got[e] \o read)
    BY <1>3, <1>5, <1>6, <2>1, ReadReceiver
  <2> QED
    BY <1>9, <2>2
<1>12. CASE Pump(e, y, net[e], 0, {})
  <2>1. /\ Direction(e, y, conn[r], net[r], net[e], TRUE, overtook[e],
                     ended[r], sent[e], arrived[r], got'[r])
        /\ Direction(r, conn[r], y, net[e], net[r], born[r],
                     overtook[r], ended[e], sent[r], arrived[e], got'[e])
    BY <1>7, <1>8, <1>10, <1>11, AlikeDirection
  <2> QED
    BY <1>1, <1>3, <1>4, <1>5, <1>12, <2>1, PumpStep DEF r
<1>13. CASE conn' = [conn EXCEPT ![e] = x] /\ UNCHANGED <<net, faults, overtook>>
  <2>1. conn'[e] = x /\ conn'[r] = conn[r]
    BY <1>2, <1>13
  <2>2. Outward(e)' /\ Inward(e)'
    BY <1>1, <1>4, <1>10, <1>11, <1>13, <2>1 DEF Outward, Inward, r
  <2>3. Unborn(e)' /\ Unborn(r)'
    BY <1>1, <1>2, <1>4, <2>1 DEF Unborn
  <2> QED
    BY <2>2, <2>3, BothWaysNext DEF r
<1> QED
  BY <1>1, <1>12, <1>13

\* Looking for bytes, or for the end of the stream.
LEMMA LookStep ==
  ASSUME TypeOK, TypeOK', Streams, NEW e \in Ends, LookForEnd(e)
  PROVE  Streams'
<1> DEFINE r == other(e)
<1>1. /\ r \in Ends /\ r # e /\ ended \in [Ends -> BOOLEAN]
      /\ Outward(e) /\ Inward(e) /\ Unborn(e) /\ Unborn(r)
  BY BothWays, OtherEnd DEF TypeOK
<1>2. /\ ended' = [ended EXCEPT ![e] = @ \/ (conn[e].peer_closed /\ ~conn[e].reset)]
      /\ UNCHANGED <<conn, net, born, sent, got, arrived, overtook>>
  BY DEF LookForEnd
<1>3. ended'[r] = ended[r] /\ (ended'[e] => ended[e] \/ conn[e].peer_closed)
  BY <1>1, <1>2
<1>4. Outward(e)'
  BY <1>1, <1>2, <1>3 DEF Outward
<1>5. Ended(net[e], conn[e], ended'[e]) => Ended(net[e], conn[e], ended[e])
  BY <1>3 DEF Ended
<1>6. Direction(r, conn[r], conn[e], net[e], net[r], born[r],
                overtook[r], ended'[e], sent[r], arrived[e], got[e])
  BY <1>1, <1>5 DEF Inward, Direction
<1>7. Inward(e)' /\ Unborn(e)' /\ Unborn(r)'
  BY <1>1, <1>2, <1>6 DEF Inward, Unborn
<1> QED
  BY <1>4, <1>7, BothWaysNext

LEMMA StillStep ==
  ASSUME Streams, UNCHANGED <<conn, net, born, sent, got, arrived, ended, overtook>>
  PROVE  Streams'
<1>1. \A o \in Ends : StreamOf(o)' /\ Unborn(o)'
  BY DEF Streams, StreamOf, Unborn
<1> QED
  BY <1>1 DEF Streams

LEMMA ShutdownStep ==
  ASSUME TypeOK, TypeOK', Streams, NEW e \in Ends, Shutdown(e)
  PROVE  Streams'
<1> DEFINE c == [conn[e] EXCEPT !.closing = TRUE]
<1>1. conn[e] \in Connection /\ ConnOK(c)
  <2>1. conn[e] \in Connection /\ ConnOK(conn[e])
    BY Typed
  <2>2. \A z : ConnOK(z) => ConnOK([z EXCEPT !.closing = TRUE])
    BY CalledType, Zenon
  <2> QED
    BY <2>1, <2>2
<1>2. SenderAlike(conn[e], c) /\ ReceiverAlike(conn[e], c)
  BY <1>1 DEF SenderAlike, ReceiverAlike, Connection
<1> HIDE DEF c
<1> QED
  BY <1>1, <1>2, AlikeStep DEF Shutdown, c

LEMMA CloseStep ==
  ASSUME TypeOK, TypeOK', Streams, NEW e \in Ends, Close(e)
  PROVE  Streams'
<1> DEFINE r == other(e)
           c == conn[e]
           x == [c EXCEPT !.closing = TRUE,
                          !.state = IF @ = "SynSent" THEN "Closed" ELSE @]
<1>1. UNCHANGED <<born, sent, got, arrived, ended>>
  BY DEF Close
<1>2. CASE exists(e) /\ Pump(e, x, net[e], 0, {"Closed", "TimeWait"})
  <2>1. /\ ConnOK(c) /\ c \in Connection /\ c.recv \in Seq(Byte) /\ born[e] \in BOOLEAN
        /\ got[e] \in Seq(Byte) /\ arrived[e] \in Nat
    BY Typed
  <2>2. ConnOK(x)
    <3>1. \A z : ConnOK(z) => ConnOK([z EXCEPT !.closing = TRUE,
                                        !.state = IF @ = "SynSent" THEN "Closed" ELSE @])
      BY CalledType, Zenon
    <3> QED
      BY <2>1, <3>1, Zenon
  <2>3. /\ x.una = c.una /\ x.nxt = c.nxt /\ x.send = c.send /\ x.fin_sent = c.fin_sent
        /\ x.recv = c.recv /\ x.rcv_nxt = c.rcv_nxt /\ x.peer_closed = c.peer_closed
        /\ x.state = IF c.state = "SynSent" THEN "Closed" ELSE c.state
    <3> HIDE DEF c
    <3> QED
      BY <2>1 DEF Connection
  <2> HIDE DEF x
  <2>4. /\ Outward(e) /\ Inward(e) /\ born[e] = TRUE
        /\ r \in Ends /\ sent[r] \in Nat
    BY <1>2, <2>1, BothWays, OtherEnd, Typed DEF Unborn, exists
  <2> HIDE DEF r, c
  <2>5. /\ Direction(e, c, conn[r], net[r], net[e], TRUE, overtook[e],
                     ended[r], sent[e], arrived[r], got[r])
        /\ Direction(r, conn[r], c, net[e], net[r], born[r],
                     overtook[r], ended[e], sent[r], arrived[e], got[e])
    BY <2>4 DEF Outward, Inward, c, r
  <2>6. /\ Direction(e, x, conn[r], net[r], net[e], TRUE, overtook[e],
                     ended[r], sent[e], arrived[r], got[r])
        /\ Direction(r, conn[r], x, net[e], net[r], born[r],
                     overtook[r], ended[e], sent[r], arrived[e], got[e])
    <3>1. CASE c.state = "SynSent"
      <4>1. x.state = "Closed" /\ c.state # "none"
        BY <2>3, <3>1
      <4>2. Direction(e, x, conn[r], net[r], net[e], TRUE, overtook[e],
                      ended[r], sent[e], arrived[r], got[r])
        BY <2>3, <2>5, <4>1, SenderStops
      <4>3. Direction(r, conn[r], x, net[e], net[r], born[r],
                      overtook[r], ended[e], sent[r], arrived[e], got[e])
        BY <2>1, <2>3, <2>4, <2>5, <4>1, ReceiverStops
      <4> QED
        BY <4>2, <4>3
    <3>2. CASE c.state # "SynSent"
      <4>1. \A d : SenderAlike(d, d) /\ ReceiverAlike(d, d)
        BY DEF SenderAlike, ReceiverAlike
      <4>2. SenderAlike(c, x) /\ ReceiverAlike(c, x)
        BY <2>3, <3>2 DEF SenderAlike, ReceiverAlike
      <4> QED
        BY <2>5, <4>1, <4>2, AlikeDirection
    <3> QED
      BY <3>1, <3>2
  <2> QED
    BY <1>1, <1>2, <2>2, <2>6, CallStep DEF r, c, x
<1>3. CASE UNCHANGED <<conn, net, faults, overtook>>
  BY <1>1, <1>3, StillStep
<1> QED
  BY <1>2, <1>3 DEF Close

LEMMA SameFewer == \A q : Fewer(q, q) /\ Resets(q, q)
BY DEF Fewer, Resets

LEMMA FewerResets == \A x, q : Fewer(x, q) => Resets(x, q)
BY DEF Fewer, Resets

LEMMA TailFewer ==
  ASSUME NEW q \in Seq(Segment), q # <<>>
  PROVE  /\ Fewer(Tail(q), q) /\ Tail(q) \in Seq(Segment)
         /\ \E i \in 1 .. Len(q) : Head(q) = q[i]
<1>1. /\ Len(q) \in Nat \ {0} /\ Head(q) = q[1] /\ Tail(q) \in Seq(Segment)
      /\ Len(Tail(q)) = Len(q) - 1
      /\ \A i \in 1 .. Len(Tail(q)) : Tail(q)[i] = q[i + 1]
  BY HeadTailProperties, EmptySeq, LenProperties
<1>2. \A i \in 1 .. Len(Tail(q)) : i + 1 \in 1 .. Len(q)
  BY <1>1
<1> QED
  BY <1>1, <1>2 DEF Fewer

\* The program dies, a segment is lost, TIME_WAIT is over.
LEMMA LostStep ==
  ASSUME TypeOK, TypeOK', Streams, NEW e \in Ends, Die(e) \/ Lose(e) \/ Expire(e)
  PROVE  Streams'
<1>1. /\ conn \in [Ends -> Connection] /\ net \in [Ends -> Seq(Segment)]
      /\ other(e) \in Ends /\ other(e) # e
  BY OtherEnd DEF TypeOK
<1>2. net = [net EXCEPT ![e] = net[e], ![other(e)] = net[other(e)]]
  BY <1>1
<1>3. CASE Die(e) \/ Expire(e)
  <2>1. /\ conn' = [conn EXCEPT ![e] = NoConnection] /\ UNCHANGED net
        /\ UNCHANGED <<born, overtook, ended, sent, arrived, got>>
    BY <1>3 DEF Die, Expire, history
  <2> QED
    BY <1>2, <2>1, SameFewer, StopStep
<1>4. CASE Lose(e)
  <2>1. /\ net[e] # <<>> /\ net[e] \in Seq(Segment)
        /\ net' = [net EXCEPT ![e] = Tail(net[e]), ![other(e)] = net[other(e)]]
        /\ UNCHANGED conn /\ UNCHANGED <<born, overtook, ended, sent, arrived, got>>
    BY <1>1, <1>4 DEF Lose, history
  <2>2. Outward(e) /\ Inward(e) /\ Unborn(e) /\ Unborn(other(e))
    BY BothWays
  <2>3. Resets(Tail(net[e]), net[e]) /\ Resets(net[other(e)], net[other(e)])
    BY <2>1, SameFewer, FewerResets, TailFewer
  <2>4. net'[e] = Tail(net[e]) /\ net'[other(e)] = net[other(e)]
    BY <1>1, <2>1
  <2>5. Outward(e)' /\ Inward(e)'
    BY <2>1, <2>2, <2>3, <2>4, FewerTravel DEF Outward, Inward
  <2>6. Unborn(e)' /\ Unborn(other(e))'
    BY <2>1, <2>2 DEF Unborn
  <2> QED
    BY <2>5, <2>6, BothWaysNext
<1> QED
  BY <1>3, <1>4

LEMMA TickStep ==
  ASSUME TypeOK, TypeOK', Streams, NEW e \in Ends, Tick(e)
  PROVE  Streams'
<1> DEFINE r    == other(e)
           c    == conn[e]
           cost == IF \A d \in Ends : net[d] = <<>> THEN 0 ELSE 1
           idle == [c EXCEPT !.timer = FALSE, !.retries = 0]
           back == Rewound(c)
           last == [c EXCEPT !.reset = TRUE, !.state = "Closed"]
<1>1. /\ exists(e) /\ UNCHANGED <<born, sent, got, arrived, ended>>
      /\ \/ Pump(e, idle, net[e], cost, {})
         \/ /\ conn' = [conn EXCEPT ![e].reset = TRUE, ![e].state = "Closed"]
            /\ UNCHANGED <<net, overtook>>
         \/ ~GaveUp(c) /\ Pump(e, back, net[e], cost, {})
  BY DEF Tick
<1>2. /\ c \in Connection /\ ConnOK(c) /\ conn \in [Ends -> Connection]
      /\ net \in [Ends -> Seq(Segment)] /\ r \in Ends /\ r # e
      /\ sent[e] \in Nat /\ arrived[r] \in Nat /\ born[e] \in BOOLEAN
  BY Typed, OtherEnd DEF TypeOK
<1>3. /\ ConnOK(idle) /\ (~GaveUp(c) => ConnOK(back))
  <2>1. \A z : ConnOK(z) => ConnOK([z EXCEPT !.timer = FALSE, !.retries = 0])
                            /\ (~GaveUp(z) => ConnOK(Rewound(z)))
    BY CalledType, Zenon
  <2> QED
    BY <1>2, <2>1, Zenon
<1> HIDE DEF cost
<1>4. CASE Pump(e, idle, net[e], cost, {})
  <2>1. SenderAlike(c, idle) /\ ReceiverAlike(c, idle)
    <3> HIDE DEF c
    <3> QED
      BY <1>2 DEF SenderAlike, ReceiverAlike, Connection
  <2> HIDE DEF idle
  <2> QED
    BY <1>1, <1>3, <1>4, <2>1, AlikeStep
<1>5. CASE /\ conn' = [conn EXCEPT ![e].reset = TRUE, ![e].state = "Closed"]
           /\ UNCHANGED <<net, overtook>>
  <2>1. /\ last.state = "Closed" /\ last.send = c.send /\ last.recv = c.recv
        /\ last.peer_closed = c.peer_closed
    <3> HIDE DEF c
    <3> QED
      BY <1>2 DEF Connection
  <2>2. conn' = [conn EXCEPT ![e] = last]
    BY <1>2, <1>5
  <2> HIDE DEF last
  <2>3. net' = [net EXCEPT ![e] = net[e], ![r] = net[r]]
    BY <1>2, <1>5
  <2>4. Resets(net[e], net[e]) /\ Resets(net[r], net[r])
    BY SameFewer
  <2>5. UNCHANGED <<born, overtook, ended, sent, arrived, got>>
    BY <1>1, <1>5
  <2> QED
    BY <1>1, <2>1, <2>2, <2>3, <2>4, <2>5, StopStep
<1>6. CASE ~GaveUp(c) /\ Pump(e, back, net[e], cost, {})
  <2>1. /\ back.state = c.state /\ back.una = c.una /\ back.nxt = c.una
        /\ back.send = c.send /\ ~back.fin_sent
        /\ back.recv = c.recv /\ back.rcv_nxt = c.rcv_nxt /\ back.peer_closed = c.peer_closed
    <3> HIDE DEF c
    <3> QED
      BY <1>2 DEF Rewound, Connection
  <2> HIDE DEF back, c, r
  <2>2. Outward(e) /\ Inward(e) /\ born[e] = TRUE
    BY <1>1, <1>2, BothWays DEF Unborn, exists
  <2>3. Direction(e, c, conn[r], net[r], net[e], TRUE, overtook[e],
                  ended[r], sent[e], arrived[r], got[r])
    BY <2>2 DEF Outward, c, r
  <2>4. Direction(e, back, conn[r], net[r], net[e], TRUE, overtook[e],
                  ended[r], sent[e], arrived[r], got[r])
    BY <1>2, <2>1, <2>3, RewoundSender
  <2>5. Direction(r, conn[r], back, net[e], net[r], born[r],
                  overtook[r], ended[e], sent[r], arrived[e], got[e])
    <3>1. SenderAlike(conn[r], conn[r]) /\ ReceiverAlike(c, back)
      BY <2>1 DEF SenderAlike, ReceiverAlike
    <3> QED
      BY <2>2, <3>1, AlikeDirection DEF Inward, c, r
  <2> QED
    BY <1>1, <1>3, <1>6, <2>4, <2>5, CallStep DEF r
<1> QED
  BY <1>1, <1>4, <1>5, <1>6

\* A segment is rejected, or resets the connection.
LEMMA RefuseStep ==
  ASSUME TypeOK, TypeOK', Streams, NEW e \in Ends, NEW s \in Segment,
         NEW rest, Fewer(rest, net[e]),
         UNCHANGED <<born, overtook, ended, sent, arrived, got>>,
         \/ /\ conn' = [conn EXCEPT ![e] = NoConnection]
            /\ net' = [net EXCEPT ![e] = rest,
                         ![other(e)] = IF "RST" \in s.flags THEN @ ELSE Append(@, Reject(s))]
         \/ /\ exists(e) /\ conn' = [conn EXCEPT ![e].reset = TRUE, ![e].state = "Closed"]
            /\ net' = [net EXCEPT ![e] = rest]
  PROVE  Streams'
<1> DEFINE r    == other(e)
           c    == conn[e]
           last == [c EXCEPT !.reset = TRUE, !.state = "Closed"]
           more == IF "RST" \in s.flags THEN net[r] ELSE Append(net[r], Reject(s))
<1>1. /\ c \in Connection /\ conn \in [Ends -> Connection] /\ net \in [Ends -> Seq(Segment)]
      /\ r \in Ends /\ r # e /\ net[r] \in Seq(Segment)
  BY Typed, OtherEnd DEF TypeOK
<1>2. Resets(rest, net[e]) /\ Resets(net[r], net[r])
  BY SameFewer, FewerResets
<1>3. CASE /\ conn' = [conn EXCEPT ![e] = NoConnection]
           /\ net' = [net EXCEPT ![e] = rest,
                        ![r] = IF "RST" \in s.flags THEN @ ELSE Append(@, Reject(s))]
  <2>1. Resets(more, net[r])
    <3>1. CASE "RST" \in s.flags
      BY <1>2, <3>1
    <3>2. CASE "RST" \notin s.flags
      <4> DEFINE q == net[r]
                 t == Reject(s)
      <4>1. /\ q \in Seq(Segment) /\ t \in Segment
            /\ "RST" \in t.flags /\ t.data = <<>> /\ t.flags \subseteq {"RST", "ACK"}
            /\ more = Append(q, t)
        BY <1>1, <3>2, RejectType
      <4> HIDE DEF q, t, more
      <4>2. /\ Len(q) \in Nat /\ Len(more) = Len(q) + 1
            /\ \A i \in 1 .. Len(q) : more[i] = q[i]
            /\ more[Len(q) + 1] = t
        BY <4>1, AppendProperties, LenProperties
      <4>3. \A i \in 1 .. Len(more) : i \in 1 .. Len(q) \/ i = Len(q) + 1
        BY <4>2
      <4>4. "SYN" \notin t.flags /\ "FIN" \notin t.flags
        BY <4>1
      <4> QED
        BY <4>1, <4>2, <4>3, <4>4 DEF Resets, q
    <3> QED
      BY <3>1, <3>2
  <2>2. net' = [net EXCEPT ![e] = rest, ![r] = more]
    BY <1>1, <1>3
  <2> HIDE DEF more
  <2> QED
    BY <1>2, <1>3, <2>1, <2>2, StopStep
<1>4. CASE /\ exists(e) /\ conn' = [conn EXCEPT ![e].reset = TRUE, ![e].state = "Closed"]
           /\ net' = [net EXCEPT ![e] = rest]
  <2>1. /\ last.state = "Closed" /\ last.send = c.send /\ last.recv = c.recv
        /\ last.peer_closed = c.peer_closed
    <3> HIDE DEF c
    <3> QED
      BY <1>1 DEF Connection
  <2>2. conn' = [conn EXCEPT ![e] = last]
    BY <1>1, <1>4
  <2> HIDE DEF last
  <2>3. net' = [net EXCEPT ![e] = rest, ![r] = net[r]]
    BY <1>1, <1>4
  <2>4. UNCHANGED <<born, overtook, ended, sent, arrived, got>> /\ exists(e)
    BY <1>4
  <2> QED
    BY <1>2, <2>1, <2>2, <2>3, <2>4, StopStep
<1> QED
  BY <1>3, <1>4

\* The listener takes a SYN.
LEMMA AcceptSynStep ==
  ASSUME TypeOK, TypeOK', Streams, NEW e \in Ends, e = Server, ~born[Server],
         NEW s \in Segment, s.flags = {"SYN"}, \E i \in 1 .. Len(net[e]) : s = net[e][i],
         NEW rest \in Seq(Segment), Fewer(rest, net[e]), NEW cost,
         Pump(e, accept_syn(s), rest, cost, {}), born' = [born EXCEPT ![Server] = TRUE],
         UNCHANGED <<ended, sent, arrived, got>>
  PROVE  Streams'
<1> DEFINE r == other(e)
           c == accept_syn(s)
<1>1. /\ r = Client /\ r \in Ends /\ r # e /\ born \in [Ends -> BOOLEAN]
  BY OtherEnd, Sizes DEF TypeOK, other
<1>2. /\ ConnOK(c) /\ c.una = Num(e, 0) /\ c.nxt = Num(e, 0)
      /\ c.state = "SynReceived" /\ c.send = <<>> /\ c.recv = <<>> /\ ~c.fin_sent
      /\ ~c.peer_closed /\ c.rcv_nxt = Plus(s.seq, 1)
  BY AcceptSynType, FirstNumbers
<1> HIDE DEF c, r
<1>3. born[e] = FALSE /\ born'[e] /\ born'[r] = born[r]
  BY <1>1
<1>4. /\ Outward(e) /\ Inward(e)
      /\ conn[e].state = "none" /\ arrived[e] = 0
  BY <1>3, BothWays DEF Unborn
<1>5. /\ conn[e].recv \in Seq(Byte) /\ got[e] \in Seq(Byte)
      /\ sent[r] \in Nat /\ sent[e] \in Nat /\ arrived[r] \in Nat
  BY <1>1, Typed
<1>6. Direction(r, conn[r], conn[e], net[e], net[r], born[r],
                overtook[r], ended[e], sent[r], 0, got[e])
  BY <1>4 DEF Inward, r
<1>7. c.rcv_nxt = Num(r, 1)
  <2>1. s.seq = Num(r, 0)
    BY <1>6 DEF Direction, Carried
  <2>2. Plus(Num(r, 0), 1) = Num(r, 0 + 1)
    BY <1>1, Modulus, NumPlus
  <2> QED
    BY <1>2, <2>1, <2>2
<1>8. Direction(e, c, conn[r], net[r], net[e], TRUE, overtook[e],
                ended[r], sent[e], arrived[r], got[r])
  <2>1. Direction(e, conn[e], conn[r], net[r], net[e], FALSE, overtook[e],
                  ended[r], sent[e], arrived[r], got[r])
    BY <1>3, <1>4 DEF Outward, r
  <2> QED
    BY <1>2, <1>5, <2>1, NewSender
<1>9. Direction(r, conn[r], c, net[e], net[r], born[r],
                overtook[r], ended[e], sent[r], 0, got[e])
  BY <1>2, <1>4, <1>5, <1>6, <1>7, NewReceiver
<1>10. /\ Direction(e, c, conn[r], net[r], rest, TRUE, overtook[e],
                    ended[r], sent[e], arrived[r], got[r])
       /\ Direction(r, conn[r], c, rest, net[r], born[r],
                    overtook[r], ended[e], sent[r], 0, got[e])
  <2>1. Resets(rest, net[e]) /\ Resets(net[r], net[r])
    BY SameFewer, FewerResets
  <2> QED
    BY <1>8, <1>9, <2>1, FewerTravel
<1> QED
  BY <1>2, <1>3, <1>4, <1>10, PumpStep DEF r, c

\* A segment is handled.
LEMMA HandledStep ==
  ASSUME TypeOK, TypeOK', Streams, NEW e \in Ends, exists(e),
         NEW s \in Segment, \E i \in 1 .. Len(net[e]) : s = net[e][i],
         NEW rest \in Seq(Segment), Fewer(rest, net[e]), NEW cost, NEW freed,
         NEW c, c = [conn[e] EXCEPT !.wnd = s.wnd], "RST" \notin s.flags, ~Refused(c, s),
         Pump(e, Handled(c, s), rest, cost, freed), UNCHANGED <<born, ended, sent, got>>,
         arrived' = [arrived EXCEPT ![e] = @ + Len(Handled(c, s).recv) - Len(c.recv)]
  PROVE  Streams'
<1> DEFINE r == other(e)
           d == Handled(c, s)
<1>1. /\ r \in Ends /\ r # e /\ arrived \in [Ends -> Nat]
      /\ Outward(e) /\ Inward(e) /\ born[e] = TRUE
  BY BothWays, OtherEnd, Typed DEF TypeOK, Unborn, exists
<1>2. /\ conn[e] \in Connection /\ ConnOK(conn[e]) /\ ConnOK(conn[r])
      /\ sent[r] \in Nat /\ sent[e] \in Nat /\ arrived[r] \in Nat /\ arrived[e] \in Nat
      /\ got[e] \in Seq(Byte)
  BY <1>1, Typed
<1>3. ConnOK(c)
  <2>1. \A z : ConnOK(z) => \A wnd \in 0 .. RECEIVE_BUFFER : ConnOK([z EXCEPT !.wnd = wnd])
    BY CalledType, Zenon
  <2>2. s.wnd \in 0 .. RECEIVE_BUFFER
    BY DEF Segment
  <2> QED
    BY <1>2, <2>1, <2>2, Zenon
<1>4. SenderAlike(conn[e], c) /\ ReceiverAlike(conn[e], c)
  <2> DEFINE z == conn[e]
  <2>1. z \in Connection /\ c = [z EXCEPT !.wnd = s.wnd]
    BY <1>2
  <2> HIDE DEF z
  <2>2. SenderAlike(z, c) /\ ReceiverAlike(z, c)
    BY <2>1 DEF SenderAlike, ReceiverAlike, Connection
  <2> QED
    BY <2>2 DEF z
<1> HIDE DEF r, d
<1>5. /\ Direction(e, c, conn[r], net[r], net[e], TRUE, overtook[e],
                   ended[r], sent[e], arrived[r], got[r])
      /\ Direction(r, conn[r], c, net[e], net[r], born[r],
                   overtook[r], ended[e], sent[r], arrived[e], got[e])
  <2>1. SenderAlike(conn[r], conn[r]) /\ ReceiverAlike(conn[r], conn[r])
    BY DEF SenderAlike, ReceiverAlike
  <2> QED
    BY <1>1, <1>4, <2>1, AlikeDirection DEF Outward, Inward, r
<1>6. c.state # "none" /\ (c.state = "SynSent" => r # Client)
  <2>1. c.state = conn[e].state
    BY <1>4 DEF SenderAlike
  <2>2. c.state = "SynSent" => e = Client
    BY <1>5 DEF Direction, Sender
  <2> QED
    BY <1>1, <2>1, <2>2 DEF exists
<1>7. Direction(e, d, conn[r], net[r], net[e], TRUE, overtook[e],
                ended[r], sent[e], arrived[r], got[r])
  <2>1. Carried(r, sent[r], s) /\ r = other(e)
    BY <1>5 DEF Direction, r
  <2> QED
    BY <1>2, <1>3, <1>5, <2>1, HandledSender DEF d
<1>8. Direction(r, conn[r], d, net[e], net[r], born[r],
                overtook[r], ended[e], sent[r], arrived'[e], got[e])
  <2>1. arrived'[e] = arrived[e] + Len(Handled(c, s).recv) - Len(c.recv)
    BY <1>1
  <2>2. Direction(r, conn[r], Handled(c, s), net[e], net[r], born[r],
                  overtook[r], ended[e], sent[r],
                  arrived[e] + Len(Handled(c, s).recv) - Len(c.recv), got[e])
    BY <1>1, <1>2, <1>3, <1>5, <1>6, HandledReceiver
  <2> QED
    BY <2>1, <2>2 DEF d
<1>9. /\ Direction(e, d, conn[r], net[r], rest, TRUE, overtook[e],
                   ended[r], sent[e], arrived[r], got[r])
      /\ Direction(r, conn[r], d, rest, net[r], born[r],
                   overtook[r], ended[e], sent[r], arrived'[e], got[e])
  <2>1. Resets(rest, net[e]) /\ Resets(net[r], net[r])
    BY SameFewer, FewerResets
  <2> QED
    BY <1>7, <1>8, <2>1, FewerTravel
<1>10. ConnOK(d) /\ arrived'[r] = arrived[r]
  BY <1>1, <1>3, HandledType DEF d
<1> QED
  BY <1>1, <1>9, <1>10, PumpStep DEF r, d

\* A segment on the way reaches its end, in its turn or out of it.
LEMMA Arrives ==
  ASSUME TypeOK, NEW e \in Ends, Receive(e) \/ ReceiveLater(e)
  PROVE  \E s \in Segment, rest \in Seq(Segment), cost \in {0, 1} :
           /\ Handle(e, s, rest, cost)
           /\ Fewer(rest, net[e]) /\ \E i \in 1 .. Len(net[e]) : s = net[e][i]
<1>0. net[e] \in Seq(Segment)
  BY Typed
<1> DEFINE q == net[e]
<1>1. q # <<>> => /\ Head(q) \in Segment /\ Tail(q) \in Seq(Segment)
                  /\ Fewer(Tail(q), q) /\ \E i \in 1 .. Len(q) : Head(q) = q[i]
  <2> HIDE DEF q
  <2>1. q \in Seq(Segment)
    BY <1>0 DEF q
  <2> QED
    BY <2>1, HeadTailProperties, TailFewer
<1>2. \A i \in 2 .. Len(q) :
        /\ q[i] \in Segment /\ Without(q, i) \in Seq(Segment)
        /\ Fewer(Without(q, i), q) /\ i \in 1 .. Len(q)
  <2> TAKE i \in 2 .. Len(q)
  <2>1. Len(q) \in Nat
    BY <1>0
  <2>2. i \in 1 .. Len(q)
    BY <2>1
  <2> HIDE DEF q
  <2>3. q \in Seq(Segment)
    BY <1>0 DEF q
  <2>4. /\ q[i] \in Segment /\ Without(q, i) \in Seq(Segment)
        /\ \A j \in 1 .. Len(Without(q, i)) : \E k \in 1 .. Len(q) : Without(q, i)[j] = q[k]
    BY <2>3, WithoutType
  <2> QED
    BY <2>2, <2>4 DEF Fewer
<1>3. CASE Receive(e)
  BY <1>1, <1>3 DEF Receive
<1>4. CASE q # <<>> /\ Handle(e, Head(q), q, 1)
  BY <1>0, <1>1, <1>4, SameFewer
<1>5. CASE \E i \in 2 .. Len(q) : Handle(e, q[i], Without(q, i), 1)
  BY <1>2, <1>5
<1> QED
  BY <1>3, <1>4, <1>5 DEF ReceiveLater

\* The service task takes a segment: any of the four ways of handle_tcp.
LEMMA ReceiveStep ==
  ASSUME TypeOK, TypeOK', Streams, NEW e \in Ends, Receive(e) \/ ReceiveLater(e)
  PROVE  Streams'
<1>1. UNCHANGED <<sent, got, ended>>
  BY DEF Receive, ReceiveLater
<1>2. PICK s \in Segment, rest \in Seq(Segment), cost \in {0, 1} :
        /\ Handle(e, s, rest, cost)
        /\ Fewer(rest, net[e]) /\ \E i \in 1 .. Len(net[e]) : s = net[e][i]
  BY Arrives
<1> DEFINE c == [conn[e] EXCEPT !.wnd = s.wnd]
           d == Handled(c, s)
<1>3. CASE /\ ~exists(e) /\ e = Server /\ ~born[Server] /\ s.flags = {"SYN"}
           /\ born' = [born EXCEPT ![Server] = TRUE]
           /\ Pump(e, accept_syn(s), rest, cost, {})
           /\ UNCHANGED <<backlog, arrived, partly>>
  BY <1>1, <1>2, <1>3, AcceptSynStep
<1>4. CASE /\ conn' = [conn EXCEPT ![e] = NoConnection]
           /\ net' = [net EXCEPT ![e] = rest,
                        ![other(e)] = IF "RST" \in s.flags THEN @ ELSE Append(@, Reject(s))]
           /\ UNCHANGED <<born, backlog, arrived, overtook, partly>>
  BY <1>1, <1>2, <1>4, RefuseStep
<1>5. CASE /\ exists(e) /\ "RST" \in s.flags
           /\ conn' = [conn EXCEPT ![e].reset = TRUE, ![e].state = "Closed"]
           /\ net' = [net EXCEPT ![e] = rest]
           /\ UNCHANGED <<born, backlog, arrived, overtook, partly>>
  BY <1>1, <1>2, <1>5, RefuseStep
<1>6. CASE /\ exists(e) /\ "RST" \notin s.flags /\ ~Refused(c, s)
           /\ arrived' = [arrived EXCEPT ![e] = @ + Len(d.recv) - Len(c.recv)]
           /\ Pump(e, d, rest, cost, IF e = Server THEN {"Closed"} ELSE {})
           /\ UNCHANGED born
  <2> DEFINE freed == IF e = Server THEN {"Closed"} ELSE {}
  <2>1. /\ exists(e) /\ "RST" \notin s.flags /\ ~Refused(c, s)
        /\ arrived' = [arrived EXCEPT ![e] = @ + Len(Handled(c, s).recv) - Len(c.recv)]
        /\ Pump(e, Handled(c, s), rest, cost, freed)
        /\ UNCHANGED born
    BY <1>6
  <2>2. c = [conn[e] EXCEPT !.wnd = s.wnd]
    OBVIOUS
  <2> HIDE DEF c, d, freed
  <2> QED
    BY <1>1, <1>2, <2>1, <2>2, HandledStep
<1> QED
  BY <1>2, <1>3, <1>4, <1>5, <1>6 DEF Handle

LEMMA InitStreams ==
  ASSUME Init
  PROVE  Streams
<1> DEFINE D(o) == Direction(o, NoConnection, NoConnection, <<>>, <<>>, FALSE, FALSE, FALSE,
                             0, 0, <<>>)
<1>1. ASSUME NEW o \in Ends
      PROVE  D(o)
  <2> DEFINE c == NoConnection
  <2>1. c.state = "none" /\ c.recv = <<>> /\ ~c.peer_closed
    BY NoneStops
  <2>2. Bytes(o) \in Nat
    BY Modulus
  <2> HIDE DEF c
  <2>3. Sender(o, c, 0, 0)
    BY <2>1 DEF Sender, Opening, Open
  <2>4. <<>> \o c.recv = <<>> /\ Len(<<>>) = 0
    BY <2>1
  <2>5. Receiver(o, c, <<>>, 0, 0)
    BY <2>1, <2>4 DEF Receiver, FromFirst, Amount, Stretch, Opening, Synced, Open, Closers
  <2>6. ~Ended(<<>>, c, FALSE)
    BY <2>1 DEF Ended
  <2>7. /\ \A i \in 1 .. Len(<<>>) : Carried(o, 0, <<>>[i])
        /\ \A i \in 1 .. Len(<<>>) : Acknowledges(o, 0, <<>>[i])
    OBVIOUS
  <2>8. Sending(FALSE, c) => /\ ~FALSE /\ ~Ended(<<>>, c, FALSE)
                             /\ \A i \in 1 .. Len(<<>>) : Acknowledges(o, 0, <<>>[i])
    BY <2>6, <2>7
  <2>9. ~FALSE => /\ Receiver(o, c, <<>>, 0, 0)
                  /\ c.state # "none" => 0 - Len(c.send) <= 0
                  /\ c.state \in Closers \/ Ended(<<>>, c, FALSE) => 0 = 0
    BY <2>1, <2>5
  <2>10. 0 <= Bytes(o) /\ (~FALSE => c.state = "none" /\ 0 = 0)
    BY <2>1, <2>2
  <2>11. Direction(o, c, c, <<>>, <<>>, FALSE, FALSE, FALSE, 0, 0, <<>>)
    BY <2>3, <2>7, <2>8, <2>9, <2>10 DEF Direction
  <2> QED
    BY <2>11 DEF c
<1> HIDE DEF D
<1>2. ASSUME NEW o \in Ends
      PROVE  StreamOf(o) /\ Unborn(o)
  <2>1. other(o) \in Ends
    BY OtherEnd
  <2>2. /\ conn[o] = NoConnection /\ conn[other(o)] = NoConnection
        /\ net[o] = <<>> /\ net[other(o)] = <<>> /\ born[o] = FALSE /\ overtook[o] = FALSE
        /\ ended[other(o)] = FALSE /\ sent[o] = 0 /\ arrived[other(o)] = 0
        /\ got[other(o)] = <<>> /\ arrived[o] = 0
    BY <2>1 DEF Init
  <2>3. StreamOf(o)
    BY <1>1, <2>2 DEF StreamOf, D
  <2> QED
    BY <2>2, <2>3, NoneStops DEF Unborn
<1> QED
  BY <1>2 DEF Streams

LEMMA StreamInduction ==
  ASSUME IInv, [Next]_vars
  PROVE  IInv'
<1>1. TypeOK /\ TypeOK' /\ Streams
  BY TypeInduction DEF IInv
<1> SUFFICES Streams'
  BY <1>1 DEF IInv
<1>2. CASE Connect
  BY <1>1, <1>2, ConnectStep
<1>3. CASE Accept
  BY <1>1, <1>3, StillStep DEF Accept, history
<1>4. ASSUME NEW e \in Ends, Program(e)
      PROVE  Streams'
  <2>1. CASE \E n \in 1 .. Bytes(e) : Send(e, n)
    BY <1>1, <2>1, SendStep
  <2>2. CASE \E n \in 1 .. RECEIVE_BUFFER : Recv(e, n)
    BY <1>1, <2>2, RecvStep
  <2>3. CASE FindNothing(e)
    BY <1>1, <2>3, StillStep DEF FindNothing, history
  <2>4. CASE LookForEnd(e)
    BY <1>1, <2>4, LookStep
  <2>5. CASE Shutdown(e)
    BY <1>1, <2>5, ShutdownStep
  <2>6. CASE Close(e)
    BY <1>1, <2>6, CloseStep
  <2>7. CASE Die(e)
    BY <1>1, <2>7, LostStep
  <2> QED
    BY <1>4, <2>1, <2>2, <2>3, <2>4, <2>5, <2>6, <2>7 DEF Program
<1>5. ASSUME NEW e \in Ends, Network(e)
      PROVE  Streams'
  <2>1. CASE Receive(e) \/ ReceiveLater(e)
    BY <1>1, <2>1, ReceiveStep
  <2>2. CASE Lose(e) \/ Expire(e)
    BY <1>1, <2>2, LostStep
  <2>3. CASE Tick(e)
    BY <1>1, <2>3, TickStep
  <2> QED
    BY <1>5, <2>1, <2>2, <2>3 DEF Network
<1>6. CASE UNCHANGED vars
  BY <1>1, <1>6, StillStep DEF vars, machine, history
<1> QED
  BY <1>2, <1>3, <1>4, <1>5, <1>6 DEF Next

\* The two directions hold together through every call, segment and timer.
THEOREM StreamInvariant == Spec => []IInv
<1>1. Init => IInv
  BY InitType, InitStreams DEF IInv
<1>2. IInv /\ [Next]_vars => IInv'
  BY StreamInduction
<1> QED
  BY <1>1, <1>2, PTL DEF Spec

\* No byte is lost, doubled or put out of place between two programs
\* (accept_data and tcp_pump), whatever the network loses, doubles or reorders.
THEOREM StreamStaysIntact == Spec => []StreamIntact
<1>1. ASSUME IInv
      PROVE  StreamIntact
  <2>1. SUFFICES ASSUME NEW e \in Ends, ~overtook[other(e)]
                 PROVE  LET stream == got[e] \o conn[e].recv
                        IN  /\ stream = [k \in 1 .. Len(stream) |-> k]
                            /\ Len(stream) <= sent[other(e)]
    BY DEF StreamIntact
  <2> DEFINE r      == other(e)
             stream == got[e] \o conn[e].recv
  <2>2. TypeOK /\ r \in Ends /\ Inward(e)
    BY <1>1, BothWays, OtherEnd DEF IInv
  <2>3. FromFirst(got[e], conn[e].recv) /\ Amount(got[e], conn[e].recv) <= arrived[e]
        /\ arrived[e] <= sent[r]
    BY <2>1, <2>2 DEF Inward, Direction, Receiver
  <2>4. /\ got[e] \in Seq(Byte) /\ conn[e].recv \in Seq(Byte)
        /\ arrived[e] \in Nat /\ sent[r] \in Nat
    BY <2>2, Typed
  <2>5. stream \in Seq(Byte)
    BY <2>4, ConcatParts
  <2>6. Stretch(stream, 1) /\ Len(stream) <= arrived[e]
    BY <2>3 DEF FromFirst, Amount
  <2> HIDE DEF stream, r
  <2>7. Len(stream) \in Nat /\ Len(stream) <= sent[r]
    BY <2>3, <2>4, <2>5, <2>6
  <2>8. stream = [k \in 1 .. Len(stream) |-> k]
    <3>1. \A k \in 1 .. Len(stream) : stream[k] = k
      <4>1. \A k \in Int : 1 + k - 1 = k
        OBVIOUS
      <4> QED
        BY <2>6, <4>1 DEF Stretch
    <3> DEFINE same == [k \in 1 .. Len(stream) |-> k]
    <3>2. same \in Seq(Byte) /\ Len(same) = Len(stream)
      <4>1. same \in [1 .. Len(stream) -> Byte]
        BY DEF Byte
      <4> QED
        BY <2>7, <4>1
    <3>3. \A k \in 1 .. Len(stream) : same[k] = k
      OBVIOUS
    <3> HIDE DEF same
    <3>4. stream = same
      BY <2>5, <3>1, <3>2, <3>3, SeqEqual
    <3> QED
      BY <3>4 DEF same
  <2> QED
    BY <2>7, <2>8 DEF stream, r
<1> QED
  BY <1>1, StreamInvariant, PTL

\* A byte leaves the send queue only when the other end has it (acknowledge),
\* so that the timer can send again everything that has not arrived.
THEOREM AcknowledgedIsReceived == Spec => []AckedIsReceived
<1>1. ASSUME IInv
      PROVE  AckedIsReceived
  <2>1. SUFFICES ASSUME NEW e \in Ends, exists(e), ~overtook[e]
                 PROVE  sent[e] - Len(conn[e].send) <= arrived[other(e)]
    BY DEF AckedIsReceived
  <2>2. Outward(e)
    BY <1>1, BothWays DEF IInv
  <2> QED
    BY <2>1, <2>2 DEF Outward, Direction, exists
<1> QED
  BY <1>1, StreamInvariant, PTL

\* A program that is told of the end of the stream has, or can still read,
\* every byte the other one wrote (Sock::read and accept_data's end).
THEOREM EndStaysHonest == Spec => []EndIsHonest
<1>1. ASSUME IInv
      PROVE  EndIsHonest
  <2>1. SUFFICES ASSUME NEW e \in Ends, ended[e], ~overtook[other(e)]
                 PROVE  arrived[e] = sent[other(e)]
    BY DEF EndIsHonest
  <2>2. Inward(e)
    BY <1>1, BothWays DEF IInv
  <2> QED
    BY <2>1, <2>2 DEF Inward, Direction, Ended
<1> QED
  BY <1>1, StreamInvariant, PTL
------------------------------------------------------------------------------
(***************************************************************************)
(* Each direction is a byte stream.  A step changes one part of it at most *)
(* (Touches below): what has been written, what has arrived, what was read *)
(* or told, or the stream is cut.                                          *)
(***************************************************************************)

\* The FIN of one end leaves early only while that end can still write.
Cuts(e) ==
  /\ overtook'[other(e)] = overtook[other(e)]
  /\ \/ overtook'[e] = overtook[e]
     \/ overtook'[e] = TRUE /\ Sending(born[e], conn[e])

LEMMA PumpCuts ==
  ASSUME TypeOK, NEW e \in Ends, NEW c, NEW rest, NEW cost, NEW freed,
         Pump(e, c, rest, cost, freed),
         c.state \in Open => Sending(born[e], conn[e])
  PROVE  Cuts(e)
<1>1. overtook \in [Ends -> BOOLEAN] /\ other(e) \in Ends /\ other(e) # e
  BY OtherEnd DEF TypeOK
<1>2. CASE overtook' = [overtook EXCEPT ![e] = @ \/ Overtakes(c)]
  <2>1. /\ overtook'[other(e)] = overtook[other(e)]
        /\ overtook'[e] = (overtook[e] \/ Overtakes(c))
    BY <1>1, <1>2
  <2>2. CASE Overtakes(c)
    <3>1. Sending(born[e], conn[e])
      BY <2>2 DEF Overtakes
    <3> QED
      BY <2>1, <2>2, <3>1 DEF Cuts
  <2>3. CASE ~Overtakes(c)
    <3>1. overtook'[e] = overtook[e]
      BY <1>1, <2>1, <2>3
    <3> QED
      BY <2>1, <3>1 DEF Cuts
  <2> QED
    BY <2>2, <2>3
<1>3. CASE UNCHANGED overtook
  BY <1>3 DEF Cuts
<1> QED
  BY <1>2, <1>3 DEF Pump

\* A segment does not bring back the time to write.
LEMMA HandledOpen ==
  ASSUME NEW c, ConnOK(c), NEW s \in Segment, Handled(c, s).state \in Open
  PROVE  c.state \in Opening \cup Open
<1> SUFFICES ASSUME c.state \notin Opening \cup Open
             PROVE  FALSE
  OBVIOUS
<1> DEFINE d == Handled(c, s)
<1>1. \/ c.state \in Closers /\ d = Synchronised(c, s)
      \/ d.state = c.state
  BY OthersShape DEF Opening
<1> HIDE DEF d
<1>2. CASE c.state \in Closers /\ d = Synchronised(c, s)
  <2>1. PICK theirs \in BOOLEAN, ours \in BOOLEAN : d.state = NextState(c.state, theirs, ours)
    <3> DEFINE a == IF "ACK" \in s.flags THEN acknowledge(c, s.ack) ELSE c
               b == accept_data(a, s.seq, s.data)
               theirs == FinHere(b, s) \/ c.peer_closed
               ours == c.fin_sent /\ a.una = c.nxt
    <3>1. d.state = NextState(c.state, theirs, ours)
      BY <1>2, SynchronisedShape
    <3>2. theirs \in BOOLEAN /\ ours \in BOOLEAN
      OBVIOUS
    <3> HIDE DEF theirs, ours
    <3> QED
      BY <3>1, <3>2
  <2>2. d.state \in Closers \cup {"Closed"}
    BY <1>2, <2>1, NextStateWhere
  <2> QED
    BY <2>2 DEF d, Open, Closers
<1> QED
  BY <1>1, <1>2 DEF d

LEMMA CallCuts ==
  ASSUME TypeOK, NEW e \in Ends, Program(e)
  PROVE  Cuts(e)
<1> DEFINE c == conn[e]
<1>1. c \in Connection /\ ConnOK(c)
  BY Typed
<1>2. \A x : x.state = c.state => (x.state \in Open => Sending(born[e], c))
  BY DEF Sending
<1>3. ASSUME NEW n, Send(e, n)
      PROVE  Cuts(e)
  <2>1. /\ c.state \in Open
        /\ \E x, cost, freed : Pump(e, x, net[e], cost, freed)
    BY <1>3 DEF Send
  <2> QED
    BY <1>2, <2>1, PumpCuts DEF Sending
<1>4. ASSUME NEW n, Recv(e, n)
      PROVE  Cuts(e)
  <2> DEFINE left == SubSeq(c.recv, Smaller(n, Len(c.recv)) + 1, Len(c.recv))
             d    == [c EXCEPT !.recv = left]
             x    == [d EXCEPT !.need_ack = TRUE]
  <2>1. Pump(e, x, net[e], 0, {}) \/ UNCHANGED overtook
    BY <1>4 DEF Recv
  <2> HIDE DEF left, c
  <2>2. x.state = c.state
    BY <1>1 DEF Connection
  <2> HIDE DEF x
  <2>3. CASE Pump(e, x, net[e], 0, {})
    BY <1>2, <2>2, <2>3, PumpCuts DEF c
  <2>4. CASE UNCHANGED overtook
    BY <2>4 DEF Cuts
  <2> QED
    BY <2>1, <2>3, <2>4
<1>5. CASE FindNothing(e) \/ LookForEnd(e) \/ Die(e)
  BY <1>5 DEF FindNothing, LookForEnd, Die, history, Cuts
<1>6. CASE Shutdown(e)
  <2> DEFINE x == [c EXCEPT !.closing = TRUE]
  <2>1. Pump(e, x, net[e], 0, {})
    BY <1>6 DEF Shutdown
  <2> HIDE DEF c
  <2>2. x.state = c.state
    BY <1>1 DEF Connection
  <2> HIDE DEF x
  <2> QED
    BY <1>2, <2>1, <2>2, PumpCuts DEF c
<1>7. CASE Close(e)
  <2> DEFINE x == [c EXCEPT !.closing = TRUE,
                            !.state = IF @ = "SynSent" THEN "Closed" ELSE @]
  <2>1. Pump(e, x, net[e], 0, {"Closed", "TimeWait"}) \/ UNCHANGED overtook
    BY <1>7 DEF Close
  <2> HIDE DEF c
  <2>2. x.state = c.state \/ x.state = "Closed"
    BY <1>1 DEF Connection
  <2> HIDE DEF x
  <2>3. x.state \in Open => Sending(born[e], conn[e])
    BY <1>2, <2>2 DEF Open, c
  <2>4. CASE Pump(e, x, net[e], 0, {"Closed", "TimeWait"})
    BY <2>3, <2>4, PumpCuts
  <2>5. CASE UNCHANGED overtook
    BY <2>5 DEF Cuts
  <2> QED
    BY <2>1, <2>4, <2>5
<1> QED
  BY <1>3, <1>4, <1>5, <1>6, <1>7 DEF Program

LEMMA NetworkCuts ==
  ASSUME TypeOK, NEW e \in Ends, Network(e)
  PROVE  Cuts(e)
<1> DEFINE c == conn[e]
<1>1. c \in Connection /\ ConnOK(c)
  BY Typed
<1>2. CASE Lose(e) \/ Expire(e)
  BY <1>2 DEF Lose, Expire, history, Cuts
<1>3. CASE Tick(e)
  <2> DEFINE idle == [c EXCEPT !.timer = FALSE, !.retries = 0]
             back == Rewound(c)
  <2>1. UNCHANGED overtook \/ \E cost : Pump(e, idle, net[e], cost, {}) \/ Pump(e, back, net[e], cost, {})
    BY <1>3 DEF Tick
  <2> HIDE DEF c
  <2>2. idle.state = c.state /\ back.state = c.state
    BY <1>1 DEF Connection, Rewound
  <2> HIDE DEF idle, back
  <2>3. /\ idle.state \in Open => Sending(born[e], conn[e])
        /\ back.state \in Open => Sending(born[e], conn[e])
    BY <2>2 DEF Sending, c
  <2>4. CASE UNCHANGED overtook
    BY <2>4 DEF Cuts
  <2> QED
    BY <2>1, <2>3, <2>4, PumpCuts
<1>4. CASE Receive(e) \/ ReceiveLater(e)
  <2>1. PICK s \in Segment, rest \in Seq(Segment), cost \in {0, 1} : Handle(e, s, rest, cost)
    BY <1>4, Arrives
  <2> DEFINE x == [c EXCEPT !.wnd = s.wnd]
             y == Handled(x, s)
             z == accept_syn(s)
  <2>2. \/ UNCHANGED overtook
        \/ Pump(e, z, rest, cost, {})
        \/ Pump(e, y, rest, cost, IF e = Server THEN {"Closed"} ELSE {})
    BY <2>1 DEF Handle
  <2> HIDE DEF c
  <2>3. ConnOK(x) /\ x.state = c.state
    <3>1. s.wnd \in 0 .. RECEIVE_BUFFER
      BY DEF Segment
    <3> QED
      BY <1>1, <3>1 DEF ConnOK, Connection
  <2>4. z.state = "SynReceived"
    BY AcceptSynType
  <2> HIDE DEF x
  <2>5. y.state \in Open => Sending(born[e], conn[e])
    BY <2>3, HandledOpen DEF Sending, c
  <2> HIDE DEF y, z
  <2>6. z.state \in Open => Sending(born[e], conn[e])
    BY <2>4 DEF Open
  <2>7. CASE UNCHANGED overtook
    BY <2>7 DEF Cuts
  <2> QED
    BY <2>2, <2>5, <2>6, <2>7, PumpCuts
<1> QED
  BY <1>2, <1>3, <1>4 DEF Network

\* A step that leaves the bytes of a direction alone either cuts it or does
\* nothing to it.
LEMMA StaysOrCuts ==
  ASSUME IInv, NEW o \in Ends, Cuts(o) \/ Cuts(other(o)),
         UNCHANGED <<sent[o], arrived[other(o)], got[other(o)], ended[other(o)]>>
  PROVE  [Stream(o)!Next]_(Stream(o)!stream)
<1>1. \/ overtook'[o] = overtook[o]
      \/ overtook'[o] = TRUE /\ Sending(born[o], conn[o])
  BY OtherEnd DEF Cuts
<1>2. Sending(born[o], conn[o]) => ~ended[other(o)]
  BY DEF IInv, Streams, StreamOf, Direction, Ended
<1>3. CASE overtook'[o] = overtook[o]
  BY <1>3 DEF Stream!stream
<1>4. CASE overtook'[o] = TRUE /\ ~ended[other(o)]
  BY <1>4 DEF Stream!Cut, Stream!Next
<1> QED
  BY <1>1, <1>2, <1>3, <1>4

LEMMA WriteMaps ==
  ASSUME IInv, NEW e \in Ends, NEW n \in 1 .. Bytes(e), Send(e, n)
  PROVE  Stream(e)!Write
<1> DEFINE r     == other(e)
           c     == conn[e]
           taken == Smaller(n, SEND_BUFFER - Len(c.send))
           x     == [c EXCEPT !.send = @ \o [k \in 1 .. taken |-> sent[e] + k]]
<1>1. /\ taken > 0 /\ c.state \in Open /\ ~c.closing
      /\ sent' = [sent EXCEPT ![e] = sent[e] + taken] /\ Pump(e, x, net[e], 0, {})
      /\ UNCHANGED <<got, arrived, ended>>
  BY DEF Send
<1>2. /\ r \in Ends /\ r # e /\ sent \in [Ends -> Nat] /\ overtook \in [Ends -> BOOLEAN]
      /\ ConnOK(c) /\ sent[e] \in Nat /\ arrived[r] \in Nat /\ n \in Nat /\ SEND_BUFFER \in Nat
      /\ c \in Connection
  <2>1. r \in Ends /\ r # e
    BY OtherEnd
  <2>2. ConnOK(conn[e]) /\ sent[e] \in Nat /\ arrived[r] \in Nat /\ conn[e] \in Connection
    BY <2>1, Typed DEF IInv
  <2>3. sent \in [Ends -> Nat] /\ overtook \in [Ends -> BOOLEAN]
    BY DEF IInv, TypeOK
  <2>4. n \in Nat /\ SEND_BUFFER \in Nat
    BY Modulus, Sizes
  <2> QED
    BY <2>1, <2>2, <2>3, <2>4
<1>3. /\ ~overtook[e] /\ ~ended[r] /\ sent[e] - Len(c.send) <= arrived[r]
  <2>1. Direction(e, c, conn[r], net[r], net[e], born[e], overtook[e],
                  ended[r], sent[e], arrived[r], got[r])
    BY DEF IInv, Streams, StreamOf
  <2>2. Sending(born[e], c) /\ c.state # "none"
    BY <1>1 DEF Sending, Open
  <2> HIDE DEF c, r
  <2> QED
    BY <2>1, <2>2 DEF Direction, Ended
<1>4. taken \in Nat /\ Len(c.send) + taken <= SEND_BUFFER /\ Len(c.send) \in Nat
  <2> HIDE DEF c
  <2> QED
    BY <1>1, <1>2, Fields, TakenType
<1>5. overtook'[e] = overtook[e]
  <2>1. ~Overtakes(x)
    <3> HIDE DEF taken, c
    <3>1. x.closing = c.closing
      BY <1>2 DEF Connection
    <3> HIDE DEF x
    <3> QED
      BY <1>1, <3>1 DEF Overtakes, Sends
  <2> HIDE DEF x
  <2>2. \/ overtook' = [overtook EXCEPT ![e] = @ \/ Overtakes(x)]
        \/ UNCHANGED overtook
    BY <1>1 DEF Pump
  <2> QED
    BY <1>2, <2>1, <2>2
<1> HIDE DEF taken, c, x
<1>6. /\ sent'[e] = sent[e] + taken /\ sent'[e] > sent[e]
      /\ sent'[e] <= arrived[r] + SEND_BUFFER
  BY <1>1, <1>2, <1>3, <1>4
<1> QED
  BY <1>1, <1>3, <1>5, <1>6 DEF Stream!Write, r

\* A sequence that goes on begins as before.
LEMMA BeginsAsBefore ==
  ASSUME NEW s \in Seq(Byte), NEW t \in Seq(Byte)
  PROVE  /\ Len(s \o t) = Len(s) + Len(t) /\ Len(s) \in Nat /\ Len(t) \in Nat
         /\ SubSeq(s \o t, 1, Len(s)) = s
<1>1. /\ s \o t \in Seq(Byte) /\ Len(s \o t) = Len(s) + Len(t)
      /\ \A i \in 1 .. Len(s) : (s \o t)[i] = s[i]
  BY ConcatParts
<1>2. Len(s) \in Nat /\ Len(t) \in Nat /\ \A i \in 1 .. Len(s) : s[i] \in Byte
  BY ElementOfSeq
<1> DEFINE u == SubSeq(s \o t, 1, Len(s))
<1>3. /\ u \in Seq(Byte) /\ Len(u) = Len(s)
      /\ \A i \in 1 .. Len(s) : u[i] = (s \o t)[i]
  <2> DEFINE w == s \o t
             m == Len(s)
  <2>1. \A i \in 1 .. m : w[i] \in Byte
    BY <1>1, <1>2
  <2>2. m \in Nat
    BY <1>2
  <2> HIDE DEF w, m
  <2>3. /\ SubSeq(w, 1, m) \in Seq(Byte)
        /\ Len(SubSeq(w, 1, m)) = IF 1 <= m THEN m - 1 + 1 ELSE 0
        /\ \A i \in 1 .. m - 1 + 1 : SubSeq(w, 1, m)[i] = w[1 + i - 1]
    BY <2>1, <2>2, SubSeqProperties
  <2>4. m - 1 + 1 = m /\ \A i \in 1 .. m : 1 + i - 1 = i
    BY <2>2
  <2> QED
    BY <2>2, <2>3, <2>4 DEF w, m
<1> HIDE DEF u
<1>4. u = s
  <2>1. \A i \in 1 .. Len(s) : u[i] = s[i]
    BY <1>1, <1>3
  <2> QED
    BY <1>3, <2>1, SeqEqual
<1> QED
  BY <1>1, <1>2, <1>4 DEF u

LEMMA ReadMaps ==
  ASSUME IInv, IInv', NEW e \in Ends, NEW n \in 1 .. RECEIVE_BUFFER, Recv(e, n)
  PROVE  [Stream(other(e))!Next]_(Stream(other(e))!stream)
<1> DEFINE o    == other(e)
           c    == conn[e]
           read == TakenOut(c, n)
<1>1. /\ got' = [got EXCEPT ![e] = @ \o read] /\ c.recv # <<>>
      /\ UNCHANGED <<sent, arrived, ended>>
  BY DEF Recv, TakenOut
<1>2. /\ o \in Ends /\ o # e /\ other(o) = e /\ n \in Nat /\ ConnOK(c)
      /\ got \in [Ends -> Seq(Byte)] /\ got[e] \in Seq(Byte) /\ arrived[e] \in Nat
  <2>1. o \in Ends /\ o # e /\ other(o) = e
    BY OtherEnd
  <2>2. ConnOK(conn[e]) /\ got[e] \in Seq(Byte) /\ arrived[e] \in Nat
    BY Typed DEF IInv
  <2>3. got \in [Ends -> Seq(Byte)] /\ n \in Nat
    BY Sizes DEF IInv, TypeOK
  <2> QED
    BY <2>1, <2>2, <2>3
<1>3. overtook'[o] = overtook[o]
  BY CallCuts DEF Cuts, Program, IInv
<1>4. read \in Seq(Byte) /\ Len(read) > 0
  <2>1. read \in Seq(Byte)
    <3> HIDE DEF c
    <3> QED
      BY <1>1, <1>2, RecvType
  <2> DEFINE recv  == c.recv
             taken == Smaller(n, Len(recv))
  <2>2. recv \in Seq(Byte) /\ Len(recv) \in Nat \ {0}
    <3> HIDE DEF c
    <3> QED
      BY <1>1, <1>2, Fields, EmptySeq DEF ConnOK
  <2>3. read = SubSeq(recv, 1, taken)
    BY DEF TakenOut
  <2> HIDE DEF recv, read
  <2>4. taken \in Nat /\ taken >= 1 /\ taken <= Len(recv)
    BY <2>2 DEF Smaller
  <2> HIDE DEF taken
  <2>5. \A i \in 1 .. taken : recv[i] \in Byte
    BY <2>2, <2>4, ElementOfSeq
  <2>6. Len(read) = IF 1 <= taken THEN taken - 1 + 1 ELSE 0
    BY <2>3, <2>4, <2>5, SubSeqProperties
  <2> QED
    BY <2>1, <2>3, <2>4, <2>6
<1> HIDE DEF read, c
<1>5. got'[e] = got[e] \o read
  BY <1>1, <1>2
<1>6. /\ Len(got'[e]) > Len(got[e]) /\ SubSeq(got'[e], 1, Len(got[e])) = got[e]
  <2>1. /\ Len(got'[e]) = Len(got[e]) + Len(read) /\ Len(got[e]) \in Nat /\ Len(read) \in Nat
        /\ SubSeq(got'[e], 1, Len(got[e])) = got[e]
    BY <1>2, <1>4, <1>5, BeginsAsBefore
  <2> QED
    BY <1>4, <2>1
<1>7. /\ sent'[o] = sent[o] /\ arrived'[e] = arrived[e] /\ ended'[e] = ended[e]
  BY <1>1
<1> HIDE DEF o
<1>8. CASE overtook[o]
  <2>1. arrived'[e] >= arrived[e] /\ Len(got'[e]) >= Len(got[e])
    BY <1>2, <1>4, <1>5, <1>6, <1>7, BeginsAsBefore
  <2> QED
    BY <1>2, <1>3, <1>6, <1>7, <1>8, <2>1 DEF Stream!BehindTheCut, Stream!Next, o
<1>9. CASE ~overtook[o]
  <2>1. Receiver(o, conn'[e], got'[e], sent'[o], arrived'[e])
    BY <1>2, <1>3, <1>9 DEF IInv, Streams, StreamOf, Direction
  <2> DEFINE g == got'[e]
             q == conn'[e].recv
  <2>2. /\ g \in Seq(Byte) /\ q \in Seq(Byte) /\ arrived'[e] \in Nat
    BY TypedNext DEF IInv
  <2>3. FromFirst(g, q) /\ Amount(g, q) <= arrived'[e]
    BY <2>1 DEF Receiver
  <2> HIDE DEF g, q
  <2>4. Stretch(g, 1)
    BY <2>2, <2>3, StretchBegins DEF FromFirst
  <2>5. g = [i \in 1 .. Len(g) |-> i]
    <3>1. Len(g) \in Nat /\ \A i \in 1 .. Len(g) : g[i] = i
      BY <2>2, <2>4 DEF Stretch
    <3> QED
      BY <2>2, <3>1
  <2>6. Len(g) <= arrived'[e]
    BY <2>2, <2>3, BeginsAsBefore DEF Amount
  <2> QED
    BY <1>2, <1>3, <1>6, <1>7, <1>9, <2>5, <2>6 DEF Stream!Read, Stream!Next, g, o
<1> QED
  BY <1>8, <1>9

\* The reader is told of the end, or there was none to tell of.
LEMMA TellMaps ==
  ASSUME IInv, IInv', NEW e \in Ends, LookForEnd(e)
  PROVE  [Stream(other(e))!Next]_(Stream(other(e))!stream)
<1> DEFINE o == other(e)
<1>1. /\ o \in Ends /\ other(o) = e /\ ended \in [Ends -> BOOLEAN] /\ arrived[e] \in Nat
      /\ got[e] \in Seq(Byte)
  <2>1. o \in Ends /\ other(o) = e
    BY OtherEnd
  <2> QED
    BY <2>1, Typed DEF IInv, TypeOK
<1>2. /\ ended' = [ended EXCEPT ![e] = @ \/ (conn[e].peer_closed /\ ~conn[e].reset)]
      /\ UNCHANGED <<sent, got, arrived, overtook>>
  BY DEF LookForEnd
<1> HIDE DEF o
<1>3. CASE ended'[e] = ended[e]
  BY <1>1, <1>2, <1>3 DEF Stream!stream, o
<1>4. CASE ended'[e] # ended[e]
  <2>1. ended'[e] = TRUE /\ ~ended[e]
    BY <1>1, <1>2, <1>4
  <2>2. CASE overtook[o]
    <3>1. /\ arrived[e] >= arrived[e] /\ Len(got[e]) >= Len(got[e])
          /\ SubSeq(got[e], 1, Len(got[e])) = got[e]
      <4>1. got[e] \o <<>> = got[e] /\ <<>> \in Seq(Byte)
        BY <1>1
      <4>2. Len(got[e]) \in Nat /\ SubSeq(got[e] \o <<>>, 1, Len(got[e])) = got[e]
        BY <1>1, <4>1, BeginsAsBefore
      <4> QED
        BY <1>1, <4>1, <4>2
    <3> QED
      BY <1>1, <1>2, <2>1, <2>2, <3>1 DEF Stream!BehindTheCut, Stream!Next, o
  <2>3. CASE ~overtook[o]
    <3>1. arrived'[e] = sent'[o]
      BY <1>1, <1>2, <2>1, <2>3 DEF IInv, Streams, StreamOf, Direction, Ended
    <3> QED
      BY <1>1, <1>2, <2>1, <2>3, <3>1 DEF Stream!TellEnd, Stream!Next, o
  <2> QED
    BY <2>2, <2>3
<1> QED
  BY <1>3, <1>4 DEF o

\* Bytes arrive: only what was written, and what the reader has room for.
LEMMA ArriveMaps ==
  ASSUME IInv, IInv', NEW e \in Ends, Receive(e) \/ ReceiveLater(e)
  PROVE  [Stream(other(e))!Next]_(Stream(other(e))!stream)
<1> DEFINE o == other(e)
<1>1. /\ o \in Ends /\ o # e /\ other(o) = e
  BY OtherEnd
<1>2. /\ TypeOK /\ ConnOK(conn[e]) /\ arrived \in [Ends -> Nat] /\ arrived[e] \in Nat
      /\ got[e] \in Seq(Byte) /\ RECEIVE_BUFFER \in Nat
  <2>1. TypeOK
    BY DEF IInv
  <2>2. arrived \in [Ends -> Nat]
    BY <2>1 DEF TypeOK
  <2> QED
    BY <2>1, <2>2, Typed, Sizes
<1>3. overtook'[o] = overtook[o] /\ UNCHANGED <<sent, got, ended>>
  BY <1>2, NetworkCuts DEF Cuts, Network, Receive, ReceiveLater
<1>4. PICK s \in Segment, rest \in Seq(Segment), cost \in {0, 1} : Handle(e, s, rest, cost)
  BY <1>2, Arrives
<1> DEFINE z == conn[e]
           c == [z EXCEPT !.wnd = s.wnd]
           d == Handled(c, s)
<1>5. \/ UNCHANGED arrived
      \/ exists(e) /\ arrived' = [arrived EXCEPT ![e] = @ + Len(d.recv) - Len(c.recv)]
  BY <1>4 DEF Handle
<1>6. CASE UNCHANGED arrived
  BY <1>1, <1>3, <1>6 DEF Stream!stream
<1>7. CASE exists(e) /\ arrived' = [arrived EXCEPT ![e] = @ + Len(d.recv) - Len(c.recv)]
  <2>1. ConnOK(c) /\ c.recv = z.recv
    <3> HIDE DEF z
    <3>1. s.wnd \in 0 .. RECEIVE_BUFFER /\ ConnOK(z)
      BY <1>2 DEF Segment, z
    <3> QED
      BY <3>1 DEF ConnOK, Connection
  <2>2. /\ Len(c.recv) \in Nat /\ Len(d.recv) \in Nat /\ Len(c.recv) <= Len(d.recv)
        /\ Len(d.recv) <= RECEIVE_BUFFER
    <3> HIDE DEF c
    <3> QED
      BY <2>1, HandledType, HandledGrows DEF ConnOK
  <2> HIDE DEF d, c
  <2>3. arrived'[e] = arrived[e] + Len(d.recv) - Len(c.recv)
    BY <1>2, <1>7
  <2> HIDE DEF o
  <2> DEFINE A == arrived[e]
             B == arrived'[e]
             m == Len(c.recv)
             n == Len(d.recv)
  <2>4. A \in Nat /\ m \in Nat /\ n \in Nat /\ m <= n /\ B = A + n - m
    BY <1>2, <2>2, <2>3
  <2> HIDE DEF A, B, m, n
  <2>8. B >= A /\ (B # A => B > A)
    BY <2>4
  <2>5. CASE overtook[o]
    <3>1. SubSeq(got[e], 1, Len(got[e])) = got[e] /\ Len(got[e]) >= Len(got[e])
      <4>1. got[e] \o <<>> = got[e] /\ <<>> \in Seq(Byte)
        BY <1>2
      <4>2. Len(got[e]) \in Nat /\ SubSeq(got[e] \o <<>>, 1, Len(got[e])) = got[e]
        BY <1>2, <4>1, BeginsAsBefore
      <4> QED
        BY <4>1, <4>2
    <3> QED
      BY <1>1, <1>3, <2>5, <2>8, <3>1 DEF Stream!BehindTheCut, Stream!Next, o, A, B
  <2>6. CASE ~overtook[o] /\ arrived'[e] = arrived[e]
    BY <1>1, <1>3, <2>6 DEF Stream!stream, o
  <2>7. CASE ~overtook[o] /\ arrived'[e] # arrived[e]
    <3>1. arrived'[e] <= sent'[o]
      BY <1>1, <1>3, <2>7 DEF IInv, Streams, StreamOf, Direction, Receiver
    <3>2. Amount(got[e], z.recv) = arrived[e]
      <4>1. Receiver(o, conn[e], got[e], sent[o], arrived[e])
        BY <1>1, <2>7 DEF IInv, Streams, StreamOf, Direction
      <4> QED
        BY <1>7, <4>1 DEF Receiver, exists
    <3>3. z.recv \in Seq(Byte)
      BY <1>2, Typed
    <3> HIDE DEF z
    <3>4. Len(got[e]) + Len(c.recv) = arrived[e] /\ Len(got[e]) \in Nat
      BY <1>2, <2>1, <3>2, <3>3, BeginsAsBefore DEF Amount
    <3>5. B <= Len(got[e]) + RECEIVE_BUFFER
      <4> DEFINE k == Len(got[e])
      <4>1. k + m = A /\ k \in Nat /\ n <= RECEIVE_BUFFER /\ RECEIVE_BUFFER \in Nat
        BY <1>2, <2>2, <3>4 DEF A, m, n
      <4> HIDE DEF k
      <4>2. B <= k + RECEIVE_BUFFER
        BY <2>4, <4>1
      <4> QED
        BY <4>2 DEF k
    <3> QED
      BY <1>1, <1>3, <2>7, <2>8, <3>1, <3>5 DEF Stream!Arrive, Stream!Next, o, A, B
  <2> QED
    BY <2>5, <2>6, <2>7 DEF o
<1> QED
  BY <1>5, <1>6, <1>7

\* Every step is one of each stream, or leaves it alone.
LEMMA StepMaps ==
  ASSUME IInv, IInv', [Next]_vars, NEW o \in Ends
  PROVE  [Stream(o)!Next]_(Stream(o)!stream)
<1>1. TypeOK /\ \A e \in Ends : e = o \/ o = other(e)
  BY OtherEnd DEF IInv, Ends, other
<1>2. ASSUME NEW e \in Ends, Program(e)
      PROVE  [Stream(o)!Next]_(Stream(o)!stream)
  <2>1. Cuts(e) /\ e = other(other(e)) /\ other(e) # e
    BY <1>1, <1>2, CallCuts, OtherEnd
  <2>2. CASE \E n \in 1 .. Bytes(e) : Send(e, n)
    <3>1. Stream(e)!Write
      BY <2>2, WriteMaps
    <3>2. o = other(e) => UNCHANGED <<sent[o], arrived[other(o)], got[other(o)], ended[other(o)]>>
      <4>1. sent \in [Ends -> Nat]
        BY <1>1 DEF TypeOK
      <4> QED
        BY <2>1, <2>2, <4>1 DEF Send
    <3> QED
      BY <1>1, <2>1, <3>1, <3>2, StaysOrCuts DEF Stream!Next
  <2>3. CASE \E n \in 1 .. RECEIVE_BUFFER : Recv(e, n)
    <3>1. [Stream(other(e))!Next]_(Stream(other(e))!stream)
      BY <2>3, ReadMaps
    <3>2. o = e => UNCHANGED <<sent[o], arrived[other(o)], got[other(o)], ended[other(o)]>>
      <4>1. got \in [Ends -> Seq(Byte)]
        BY <1>1 DEF TypeOK
      <4> QED
        BY <2>1, <2>3, <4>1 DEF Recv
    <3> QED
      BY <1>1, <2>1, <3>1, <3>2, StaysOrCuts
  <2>4. CASE LookForEnd(e)
    <3>1. [Stream(other(e))!Next]_(Stream(other(e))!stream)
      BY <2>4, TellMaps
    <3>2. o = e => UNCHANGED <<sent[o], arrived[other(o)], got[other(o)], ended[other(o)]>>
      <4>1. ended \in [Ends -> BOOLEAN]
        BY <1>1 DEF TypeOK
      <4> QED
        BY <2>1, <2>4, <4>1 DEF LookForEnd
    <3> QED
      BY <1>1, <2>1, <3>1, <3>2, StaysOrCuts
  <2>5. CASE FindNothing(e) \/ Shutdown(e) \/ Close(e) \/ Die(e)
    <3>1. UNCHANGED <<sent, arrived, got, ended>>
      BY <2>5 DEF FindNothing, Shutdown, Close, Die, history
    <3> QED
      BY <1>1, <2>1, <3>1, StaysOrCuts
  <2> QED
    BY <1>2, <2>2, <2>3, <2>4, <2>5 DEF Program
<1>3. ASSUME NEW e \in Ends, Network(e)
      PROVE  [Stream(o)!Next]_(Stream(o)!stream)
  <2>1. Cuts(e) /\ e = other(other(e)) /\ other(e) # e /\ other(e) \in Ends
    BY <1>1, <1>3, NetworkCuts, OtherEnd
  <2>2. CASE Receive(e) \/ ReceiveLater(e)
    <3>1. [Stream(other(e))!Next]_(Stream(other(e))!stream)
      BY <2>2, ArriveMaps
    <3>2. o = e => UNCHANGED <<sent[o], arrived[other(o)], got[other(o)], ended[other(o)]>>
      <4>1. arrived \in [Ends -> Nat]
        BY <1>1 DEF TypeOK
      <4>2. PICK s, rest, cost : Handle(e, s, rest, cost)
        BY <1>1, <2>2, Arrives
      <4>3. UNCHANGED arrived \/ \E b : arrived' = [arrived EXCEPT ![e] = b]
        BY <4>2 DEF Handle
      <4>4. arrived'[other(e)] = arrived[other(e)] /\ UNCHANGED <<sent, got, ended>>
        BY <2>1, <2>2, <4>1, <4>3 DEF Receive, ReceiveLater
      <4> QED
        BY <4>4
    <3> QED
      BY <1>1, <2>1, <3>1, <3>2, StaysOrCuts
  <2>3. CASE Lose(e) \/ Tick(e) \/ Expire(e)
    <3>1. UNCHANGED <<sent, arrived, got, ended>>
      BY <2>3 DEF Lose, Tick, Expire, history
    <3> QED
      BY <1>1, <2>1, <3>1, StaysOrCuts
  <2> QED
    BY <1>3, <2>2, <2>3 DEF Network
<1>4. CASE Connect
  <2> DEFINE c == [NewConnection("SynSent") EXCEPT !.una = ClientIss, !.nxt = ClientIss]
  <2>1. Client \in Ends /\ Pump(Client, c, net[Client], 0, {}) /\ c.state \notin Open
    BY <1>4, ConnectType DEF Connect, Ends, Open
  <2> HIDE DEF c
  <2>2. Cuts(Client)
    BY <1>1, <2>1, PumpCuts
  <2>3. UNCHANGED <<sent, arrived, got, ended>>
    BY <1>4 DEF Connect
  <2>4. Cuts(o) \/ Cuts(other(o))
    BY <1>1, <2>1, <2>2, OtherEnd
  <2> QED
    BY <2>3, <2>4, StaysOrCuts
<1>5. CASE Accept \/ UNCHANGED vars
  BY <1>5 DEF Accept, vars, history, Stream!stream
<1> QED
  BY <1>2, <1>3, <1>4, <1>5 DEF Next

\* Both directions of a connection are byte streams (stream_send, stream_recv,
\* tcp_pump and handle_tcp), whatever the network and the timers do.
THEOREM TcpImplementsStreams == Spec => ImplementsStreams
<1>1. Init => \A e \in Ends : Stream(e)!Opened
  <2> SUFFICES ASSUME Init, NEW e \in Ends
               PROVE  Stream(e)!Opened
    OBVIOUS
  <2>1. other(e) \in Ends
    BY OtherEnd
  <2> QED
    BY <2>1 DEF Init, Stream!Opened
<1>2. IInv /\ IInv' /\ [Next]_vars => [Stream(Client)!Next]_(Stream(Client)!stream)
  BY StepMaps DEF Ends
<1>3. IInv /\ IInv' /\ [Next]_vars => [Stream(Server)!Next]_(Stream(Server)!stream)
  BY StepMaps DEF Ends
<1> QED
  BY <1>1, <1>2, <1>3, StreamInvariant, PTL DEF Spec, ImplementsStreams
==============================================================================
