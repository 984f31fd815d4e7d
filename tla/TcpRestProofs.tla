---------------------------- MODULE TcpRestProofs ----------------------------
(***************************************************************************)
(* A stream that has come to rest has delivered what was written.          *)
(*                                                                         *)
(* Once faults have been spent little is known of what is on the way, and  *)
(* only the timer says that something is still to come (Armed below).      *)
(* While nothing has gone wrong both directions are as TcpFlowProofs says, *)
(* or the handshake is still on its way (Whole => Handshake below).        *)
(***************************************************************************)
EXTENDS TcpFlowProofs

\* Nothing has gone wrong, and no connection has been given back.
Whole == faults = 0 /\ \A e \in Ends : born[e] => exists(e)

------------------------------------------------------------------------------
(***************************************************************************)
(* The handshake: the SYN is on the way, or its answer, or both ends have  *)
(* left SYN-SENT.                                                          *)
(***************************************************************************)
Fresh(o, c) ==
  /\ c.una = Iss(o) /\ c.nxt = Plus(Iss(o), 1) /\ c.retries = 0 /\ ~c.reset
  /\ c.recv = <<>> /\ ~c.peer_closed

Asking ==
  /\ ~born[Server] /\ conn[Client].state = "SynSent" /\ Fresh(Client, conn[Client])
  /\ net[Client] = <<>> /\ Len(net[Server]) = 1
  /\ LET s == net[Server][1]
     IN  s.flags = {"SYN"} /\ s.seq = ClientIss /\ s.wnd = RECEIVE_BUFFER

Answering ==
  /\ conn[Client].state = "SynSent" /\ Fresh(Client, conn[Client])
  /\ conn[Server].state = "SynReceived" /\ Fresh(Server, conn[Server])
  /\ conn[Server].rcv_nxt = Plus(ClientIss, 1)
  /\ net[Server] = <<>> /\ Len(net[Client]) = 1
  /\ LET s == net[Client][1]
     IN  /\ s.flags = {"SYN", "ACK"} /\ s.seq = ServerIss
         /\ s.ack = Plus(ClientIss, 1) /\ s.wnd = RECEIVE_BUFFER

PartOf(o) ==
  Part(o, conn[o], conn[other(o)], net[other(o)], net[o], FALSE)

Flowing == \A o \in Ends : Sound(conn[o]) /\ Plain(net[o]) /\ PartOf(o)

Handshake == born[Client] => Asking \/ Answering \/ Flowing

------------------------------------------------------------------------------
(***************************************************************************)
(* What holds whatever has gone wrong.                                     *)
(***************************************************************************)

\* Whatever is in flight is watched by the timer, unless the last
\* acknowledgement stopped it, and nothing that may leave is left without it.
Watched(c, part) ==
  c.state \in Open /\ ~c.reset =>
    /\ in_flight(c) > 0 => c.timer \/ part
    /\ c.timer \/ sendable(c) = 0

\* An end that has closed has delivered everything, unless its FIN overtook it.
Closes(c, over, n, A) == c.state = "Closed" /\ ~c.reset /\ ~over => A = n

Armed ==
  \A e \in Ends : /\ Watched(conn[e], partly[e])
                  /\ Closes(conn[e], overtook[e], sent[e], arrived[other(e)])

\* The client is first.
Order == ~born[Client] => ~born[Server] /\ \A e \in Ends : net[e] = <<>>

RestInv == Order /\ Armed /\ (Whole => Handshake)

------------------------------------------------------------------------------
(***************************************************************************)
(* Steps of a machine nothing has gone wrong with.                         *)
(***************************************************************************)
LEMMA PumpedWhole ==
  ASSUME TypeOK, NEW e \in Ends, NEW c, ConnOK(c), NEW rest \in Seq(Segment),
         NEW cost \in Nat, NEW freed, Pump(e, c, rest, cost, freed), Whole', born'[e]
  PROVE  /\ faults = 0 /\ cost = 0
         /\ conn'[e] = Sent(c) /\ conn'[other(e)] = conn[other(e)]
         /\ net'[e] = rest /\ net'[other(e)] = net[other(e)] \o Segments(c)
<1>1. faults \in Nat /\ faults' = 0 /\ conn'[e].state # "none"
  <2>1. exists(e)' /\ faults' = 0
    BY DEF Whole
  <2> QED
    BY <2>1, Sizes DEF TypeOK, exists
<1>2. \/ /\ conn' = [conn EXCEPT ![e] = Freed(Sent(c), freed)]
         /\ net' = [net EXCEPT ![e] = rest, ![other(e)] = @ \o Segments(c)]
         /\ faults' = faults + cost
      \/ faults' = faults + cost + 1
  BY DEF Pump
<1>3. faults = 0 /\ cost = 0 /\ faults' # faults + cost + 1
  BY <1>1, <1>2
<1>4. Sent(c) # NoConnection => Freed(Sent(c), freed) \in {Sent(c), NoConnection}
  BY DEF Freed
<1>5. conn'[e] = Freed(Sent(c), freed) /\ conn'[other(e)] = conn[other(e)]
  BY <1>2, <1>3, OtherEnd DEF TypeOK
<1>6. conn'[e] = Sent(c)
  BY <1>1, <1>5, NoneType DEF Freed
<1>7. net'[e] = rest /\ net'[other(e)] = net[other(e)] \o Segments(c)
  <2> DEFINE t == Segments(c)
  <2>1. net' = [net EXCEPT ![e] = rest, ![other(e)] = @ \o t]
    BY <1>2, <1>3
  <2> HIDE DEF t
  <2>2. net'[e] = rest /\ net'[other(e)] = net[other(e)] \o t
    BY <2>1, OtherEnd DEF TypeOK
  <2> QED
    BY <2>2 DEF t
<1> QED
  BY <1>3, <1>5, <1>6, <1>7

LEMMA JoinPlain ==
  ASSUME NEW q \in Seq(Segment), NEW t \in Seq(Segment), Plain(q), Plain(t)
  PROVE  Plain(q \o t)
<1> DEFINE x == q \o t
<1>1. \A i \in 1 .. Len(x) : (\E j \in 1 .. Len(q) : x[i] = q[j]) \/ (\E j \in 1 .. Len(t) : x[i] = t[j])
  BY Among
<1> HIDE DEF x
<1> QED
  BY <1>1 DEF Plain, x

\* Either end and what is on the way, seen from the end that acts.
LEMMA FlowingEnds ==
  ASSUME NEW e \in Ends
  PROVE  Flowing <=>
           /\ Sound(conn[e]) /\ Sound(conn[other(e)]) /\ Plain(net[e]) /\ Plain(net[other(e)])
           /\ Part(e, conn[e], conn[other(e)], net[other(e)], net[e], FALSE)
           /\ Part(other(e), conn[other(e)], conn[e], net[e], net[other(e)], FALSE)
BY OtherEnd DEF Flowing, PartOf

LEMMA FlowingEndsNext ==
  ASSUME NEW e \in Ends,
         Sound(conn'[e]), Sound(conn'[other(e)]), Plain(net'[e]), Plain(net'[other(e)]),
         Part(e, conn'[e], conn'[other(e)], net'[other(e)], net'[e], FALSE),
         Part(other(e), conn'[other(e)], conn'[e], net'[e], net'[other(e)], FALSE)
  PROVE  Flowing'
BY OtherEnd DEF Flowing, PartOf

\* What an end is after a call or a segment leaves it owing, it pays.
LEMMA PumpFlowing ==
  ASSUME TypeOK, NEW e \in Ends, NEW c, ConnOK(c), NEW rest \in Seq(Segment),
         NEW cost \in Nat, NEW freed, Pump(e, c, rest, cost, freed), Whole', born'[e],
         NEW n \in Nat, NEW A \in Nat, n <= Bytes(e), c.state \in Open => A <= n,
         Sender(e, c, n, A), Sound(c), Sound(conn[other(e)]),
         Plain(rest), Plain(net[other(e)]),
         Part(e, c, conn[other(e)], net[other(e)], rest, FALSE),
         Part(other(e), conn[other(e)], c, rest, net[other(e)], Owes(c))
  PROVE  Flowing'
<1> DEFINE r == other(e)
<1>1. /\ conn'[e] = Sent(c) /\ conn'[r] = conn[r]
      /\ net'[e] = rest /\ net'[r] = net[r] \o Segments(c)
  BY PumpedWhole
<1>2. r \in Ends /\ ConnOK(conn[r]) /\ net[r] \in Seq(Segment)
  BY OtherEnd, Typed
<1>3. /\ Sends(c) # "SYN" /\ Sound(Sent(c))
      /\ Part(e, Sent(c), conn[r], net[r] \o Segments(c), rest, FALSE)
  BY <1>2, SenderTurn
<1>4. Part(r, conn[r], Sent(c), rest, net[r] \o Segments(c), FALSE)
  BY <1>2, <1>3, ReceiverTurn
<1>5. Plain(net[r] \o Segments(c))
  BY <1>2, <1>3, PlainSegments, SegmentsShape, JoinPlain
<1> QED
  BY <1>1, <1>3, <1>4, <1>5, FlowingEndsNext

LEMMA HandshakeSame ==
  ASSUME UNCHANGED <<conn, net, born, faults>>
  PROVE  Whole' = Whole /\ Handshake' = Handshake
BY DEF Whole, Handshake, Asking, Answering, Flowing, PartOf, exists

\* A connection that was given back does not come again.
LEMMA WholeBefore ==
  ASSUME TypeOK, NEW e \in Ends, exists(e) \/ ~born[e], conn'[other(e)] = conn[other(e)],
         born'[other(e)] = born[other(e)], faults' >= faults, Whole'
  PROVE  Whole
<1>1. faults = 0
  BY Sizes DEF Whole, TypeOK
<1>2. born[other(e)] => exists(other(e))
  BY OtherEnd DEF Whole, exists
<1> QED
  BY <1>1, <1>2, OtherEnd DEF Whole

\* Who is where.
LEMMA Parties ==
  ASSUME TypeOK, Streams, Order, Handshake, NEW e \in Ends, exists(e)
  PROVE  /\ born[e] /\ born[Client] /\ (Asking \/ Answering \/ Flowing)
         /\ Asking => e = Client
<1>1. born[e]
  BY DEF Streams, Unborn, exists
<1>2. born[Client]
  BY <1>1 DEF Order, Ends
<1>3. Asking => e = Client
  BY <1>1 DEF Asking, Ends
<1> QED
  BY <1>1, <1>2, <1>3 DEF Handshake

\* What the stream says of the end that acts.
LEMMA SenderFacts ==
  ASSUME TypeOK, Streams, NEW e \in Ends
  PROVE  /\ sent[e] \in Nat /\ arrived[other(e)] \in Nat /\ sent[e] <= Bytes(e)
         /\ Sender(e, conn[e], sent[e], arrived[other(e)])
         /\ conn[e].state \in Open => arrived[other(e)] <= sent[e]
<1>1. Outward(e)
  BY BothWays
<1>2. sent[e] \in Nat /\ arrived[other(e)] \in Nat
  BY OtherEnd, Typed
<1>3. conn[e].state \in Open => arrived[other(e)] <= sent[e]
  BY <1>1 DEF Outward, Direction, Sending, Receiver
<1> QED
  BY <1>1, <1>2, <1>3 DEF Outward, Direction

\* An end that has just sent its SYN.
LEMMA SynTurn ==
  ASSUME NEW o \in Ends, NEW c, ConnOK(c), c.state \in {"SynSent", "SynReceived"},
         c.una = Iss(o), c.nxt = Iss(o), c.retries = 0, ~c.reset, c.recv = <<>>, ~c.peer_closed
  PROVE  LET x == Sent(c)
             t == Segments(c)
         IN  /\ Fresh(o, x) /\ x.state = c.state /\ x.rcv_nxt = c.rcv_nxt
             /\ Len(t) = 1 /\ t[1].seq = Iss(o) /\ t[1].ack = c.rcv_nxt
             /\ t[1].wnd = RECEIVE_BUFFER
             /\ t[1].flags = IF c.state = "SynSent" THEN {"SYN"} ELSE {"SYN", "ACK"}
<1>1. Sends(c) = "SYN"
  BY Fields DEF Sends, ConnOK
<1>2. window(c) = RECEIVE_BUFFER
  BY Sizes DEF window
<1>3. /\ Len(Segments(c)) = 1 /\ Segments(c)[1].seq = Iss(o)
      /\ Segments(c)[1].wnd = RECEIVE_BUFFER
      /\ Segments(c)[1].flags = IF c.state = "SynSent" THEN {"SYN"} ELSE {"SYN", "ACK"}
  BY <1>1, <1>2, BareSegment
<1>4. Segments(c)[1].ack = c.rcv_nxt
  <2>1. 1 \in 1 .. Len(Segments(c))
    BY <1>3
  <2> QED
    BY <2>1, SegmentsShape
<1>5. /\ Sent(c).una = c.una /\ Sent(c).nxt = Plus(c.nxt, 1) /\ Sent(c).retries = c.retries
      /\ Sent(c).reset = c.reset /\ Sent(c).recv = c.recv
      /\ Sent(c).peer_closed = c.peer_closed /\ Sent(c).state = c.state
      /\ Sent(c).rcv_nxt = c.rcv_nxt
  BY <1>1, SentShape, SentRest
<1> QED
  BY <1>3, <1>4, <1>5 DEF Fresh

LEMMA ConnectWhole ==
  ASSUME TypeOK, Streams, Order, Connect, Whole'
  PROVE  Handshake'
<1> DEFINE c == [NewConnection("SynSent") EXCEPT !.una = ClientIss, !.nxt = ClientIss]
<1>1. /\ ~born[Client] /\ born' = [born EXCEPT ![Client] = TRUE]
      /\ Pump(Client, c, net[Client], 0, {})
  BY DEF Connect
<1>2. /\ ConnOK(c) /\ c.una = ClientIss /\ c.nxt = ClientIss /\ c.state = "SynSent"
      /\ c.recv = <<>> /\ ~c.peer_closed
  BY ConnectType
<1>3. c.retries = 0 /\ ~c.reset
  BY DEF NewConnection
<1> HIDE DEF c
<1>4. Client \in Ends /\ Server \in Ends /\ Client # Server /\ other(Client) = Server
  BY Sizes DEF Ends, other
<1>5. ~born[Server] /\ net[Client] = <<>> /\ net[Server] = <<>>
  BY <1>1, <1>4 DEF Order
<1>6. born'[Client] = TRUE /\ born'[Server] = born[Server]
  BY <1>1, <1>4 DEF TypeOK
<1>7. /\ conn'[Client] = Sent(c)
      /\ net'[Client] = net[Client] /\ net'[Server] = net[Server] \o Segments(c)
  <2>1. 0 \in Nat /\ net[Client] \in Seq(Segment)
    BY <1>4, Typed
  <2> QED
    BY <1>1, <1>2, <1>4, <1>6, <2>1, PumpedWhole
<1>8. Iss(Client) = ClientIss
  BY DEF Iss
<1> DEFINE x == Sent(c)
           t == Segments(c)
<1>9. /\ Fresh(Client, x) /\ x.state = "SynSent"
      /\ Len(t) = 1 /\ t[1].seq = ClientIss /\ t[1].wnd = RECEIVE_BUFFER /\ t[1].flags = {"SYN"}
  BY <1>2, <1>3, <1>4, <1>8, SynTurn
<1>10. net'[Server] = t
  <2>1. t \in Seq(Segment)
    BY <1>2, SegmentsShape
  <2> HIDE DEF t
  <2> QED
    BY <1>5, <1>7, <2>1 DEF t
<1> HIDE DEF x, t
<1>11. Asking'
  BY <1>5, <1>6, <1>7, <1>9, <1>10 DEF Asking, x
<1> QED
  BY <1>11 DEF Handshake

\* The listener answers the SYN.
LEMMA AnsweringNext ==
  ASSUME TypeOK, Streams, Asking, NEW rest, rest = <<>>, NEW freed, Whole',
         born' = [born EXCEPT ![Server] = TRUE],
         Pump(Server, accept_syn(net[Server][1]), rest, 0, freed)
  PROVE  Answering'
<1> DEFINE s == net[Server][1]
           c == accept_syn(s)
           x == Sent(c)
           t == Segments(c)
<1>1. Client \in Ends /\ Server \in Ends /\ Client # Server /\ other(Server) = Client
  BY Sizes DEF Ends, other
<1>2. s \in Segment /\ s.seq = ClientIss
  <2>1. net[Server] \in Seq(Segment) /\ 1 \in 1 .. Len(net[Server])
    BY <1>1, Typed DEF Asking
  <2> QED
    BY <2>1, ElementOfSeq DEF Asking
<1> HIDE DEF s
<1>3. ConnOK(c) /\ c.state = "SynReceived" /\ c.recv = <<>> /\ ~c.peer_closed
  BY <1>2, AcceptSynType
<1>4. /\ c.una = ServerIss /\ c.nxt = ServerIss /\ c.retries = 0 /\ ~c.reset
      /\ c.rcv_nxt = Plus(ClientIss, 1)
  BY <1>2 DEF accept_syn, NewConnection
<1> HIDE DEF c
<1>5. Iss(Server) = ServerIss
  BY <1>1 DEF Iss
<1>6. /\ Fresh(Server, x) /\ x.state = "SynReceived" /\ x.rcv_nxt = Plus(ClientIss, 1)
      /\ Len(t) = 1 /\ t[1].seq = ServerIss /\ t[1].ack = Plus(ClientIss, 1)
      /\ t[1].wnd = RECEIVE_BUFFER /\ t[1].flags = {"SYN", "ACK"} /\ t \in Seq(Segment)
  <2>1. c.state # "SynSent"
    BY <1>3
  <2> QED
    BY <1>1, <1>3, <1>4, <1>5, <2>1, SynTurn, SegmentsShape
<1>7. born'[Server]
  BY <1>1 DEF TypeOK
<1>8. /\ conn'[Server] = x /\ conn'[Client] = conn[Client]
      /\ net'[Server] = <<>> /\ net'[Client] = net[Client] \o t
  <2>1. 0 \in Nat /\ rest \in Seq(Segment) /\ Pump(Server, c, rest, 0, freed)
    BY DEF c, s
  <2> QED
    BY <1>1, <1>3, <1>7, <2>1, PumpedWhole
<1> HIDE DEF x, t
<1>9. net[Client] \o t = t
  BY <1>6 DEF Asking
<1> QED
  BY <1>6, <1>8, <1>9 DEF Answering, Asking

LEMMA HandledFacts ==
  ASSUME TypeOK, Streams, NEW e \in Ends, exists(e), NEW s \in Segment,
         \E i \in 1 .. Len(net[e]) : s = net[e][i], "RST" \notin s.flags,
         NEW c, c = [conn[e] EXCEPT !.wnd = s.wnd], ~Refused(c, s)
  PROVE  LET x == Handled(c, s) IN
         /\ ConnOK(c) /\ ConnOK(x) /\ Announced(c, conn[e], s.wnd) /\ born[e]
         /\ Sender(e, x, sent[e], arrived[other(e)])
         /\ x.state \in Open => arrived[other(e)] <= sent[e]
<1> DEFINE n == sent[e]
           A == arrived[other(e)]
           m == sent[other(e)]
<1>1. Announced(c, conn[e], s.wnd)
  BY Typed, Announces
<1>2. ConnOK(c) /\ ConnOK(Handled(c, s))
  BY <1>1, HandledType DEF Announced
<1>3. Outward(e) /\ Inward(e)
  BY BothWays
<1>4. born[e]
  BY DEF Streams, Unborn, exists
<1>5. n \in Nat /\ A \in Nat /\ n <= Bytes(e) /\ Sender(e, conn[e], n, A)
  BY SenderFacts
<1>6. Sender(e, c, n, A)
  BY <1>1, <1>5 DEF Sender, Announced
<1>7. conn[e].state \in Opening \cup Open => A <= n /\ Acknowledges(e, A, s)
  BY <1>3 DEF Outward, Direction, Sending, Receiver
<1>8. Carried(other(e), m, s)
  BY <1>3 DEF Inward, Direction
<1> HIDE DEF n, A, m
<1>9. c.state = conn[e].state
  BY <1>1 DEF Announced
<1>10. /\ Sender(e, Handled(c, s), n, A)
       /\ Handled(c, s).state \in Opening \cup Open => c.state \in Opening \cup Open
  BY <1>2, <1>5, <1>6, <1>7, <1>8, <1>9, SenderHandles
<1> QED
  BY <1>1, <1>2, <1>4, <1>7, <1>9, <1>10 DEF n, A

\* The answer to the SYN makes the client established.
LEMMA AnsweredFields ==
  ASSUME NEW c, ConnOK(c), NEW s \in Segment, c.state = "SynSent", AnswersUs(c, s),
         c.nxt = Plus(c.una, 1)
  PROVE  LET x == Handled(c, s) IN
         /\ x.state = "Established" /\ x.una = c.nxt /\ x.nxt = c.nxt /\ x.wnd = c.wnd
         /\ x.retries = 0 /\ x.timer = FALSE /\ x.reset = c.reset /\ x.recv = c.recv
         /\ x.peer_closed = c.peer_closed /\ x.rcv_nxt = Plus(s.seq, 1) /\ x.need_ack
<1> DEFINE k == Plus(s.seq, 1)
           y == [c EXCEPT !.rcv_nxt = k]
           a == acknowledge(y, s.ack)
           x == [a EXCEPT !.state = "Established", !.need_ack = TRUE]
<1>1. c \in Connection /\ s.ack \in Number /\ s.seq \in Number /\ s.ack = c.nxt
      /\ c.una \in Number
  BY Fields DEF ConnOK, Segment, AnswersUs
<1>2. k \in Number
  BY <1>1, PlusType
<1>3. Handled(c, s) = x
  <2>1. c.state = "SynSent" /\ AnswersUs(c, s)
    OBVIOUS
  <2> HIDE DEF x
  <2> QED
    BY <2>1 DEF Handled, Open, Closers, x, a, y, k
<1> HIDE DEF k
<1>4. /\ y \in Connection /\ y.una = c.una /\ y.nxt = c.nxt /\ y.wnd = c.wnd
      /\ y.reset = c.reset /\ y.recv = c.recv /\ y.peer_closed = c.peer_closed
      /\ y.rcv_nxt = k /\ y.send = c.send
  BY <1>1, <1>2 DEF Connection
<1> HIDE DEF y
<1>5. ConnOK(y)
  BY <1>4 DEF ConnOK
<1>6. after(s.ack, y.una)
  BY <1>1, <1>4, NextNumber
<1>7. /\ ConnOK(a) /\ a.nxt = c.nxt /\ a.wnd = c.wnd /\ a.reset = c.reset /\ a.recv = c.recv
      /\ a.peer_closed = c.peer_closed /\ a.rcv_nxt = k
      /\ a.una = c.nxt /\ a.retries = 0 /\ a.timer = FALSE
  BY <1>1, <1>4, <1>5, <1>6, AcknowledgeShape, AcknowledgeRest
<1> HIDE DEF a
<1>8. a \in Connection
  BY <1>7 DEF ConnOK
<1>9. /\ x.state = "Established" /\ x.una = a.una /\ x.nxt = a.nxt /\ x.wnd = a.wnd
      /\ x.retries = a.retries /\ x.timer = a.timer /\ x.reset = a.reset /\ x.recv = a.recv
      /\ x.peer_closed = a.peer_closed /\ x.rcv_nxt = a.rcv_nxt /\ x.need_ack = TRUE
  BY <1>8 DEF Connection
<1> HIDE DEF x
<1> QED
  BY <1>3, <1>7, <1>9 DEF k

\* The client answers the answer to its SYN, and both streams flow.
LEMMA FirstTurn ==
  ASSUME TypeOK, Answering, NEW s \in Segment, s = net[Client][1],
         NEW c, Announced(c, conn[Client], s.wnd), ConnOK(Handled(c, s)),
         born[Client], Sender(Client, Handled(c, s), sent[Client], arrived[Server]),
         Handled(c, s).state \in Open => arrived[Server] <= sent[Client],
         sent[Client] \in Nat, arrived[Server] \in Nat, sent[Client] <= Bytes(Client),
         NEW freed, Pump(Client, Handled(c, s), <<>>, 0, freed), Whole', UNCHANGED born
  PROVE  Flowing'
<1> DEFINE d == conn[Server]
           x == Handled(c, s)
<1>1. Client \in Ends /\ Server \in Ends /\ Client # Server /\ other(Client) = Server
      /\ other(Server) = Client
  BY Sizes DEF Ends, other
<1>3. /\ s.flags = {"SYN", "ACK"} /\ s.seq = ServerIss /\ s.ack = Plus(ClientIss, 1)
      /\ s.wnd = RECEIVE_BUFFER
  BY DEF Answering
<1>4. Iss(Client) = ClientIss /\ Iss(Server) = ServerIss
  BY <1>1 DEF Iss
<1>5. /\ conn[Client].state = "SynSent" /\ conn[Client].una = ClientIss
      /\ conn[Client].nxt = Plus(ClientIss, 1) /\ ~conn[Client].reset
      /\ conn[Client].recv = <<>> /\ ~conn[Client].peer_closed
  BY <1>4 DEF Answering, Fresh
<1>6. /\ d.state = "SynReceived" /\ d.una = ServerIss /\ d.nxt = Plus(ServerIss, 1)
      /\ ~d.reset /\ d.recv = <<>> /\ ~d.peer_closed /\ d.rcv_nxt = Plus(ClientIss, 1)
      /\ d.retries = 0 /\ ConnOK(d)
  BY <1>1, <1>4, Typed DEF Answering, Fresh
<1>8. /\ c.state = "SynSent" /\ c.una = ClientIss /\ c.nxt = Plus(ClientIss, 1) /\ ~c.reset
      /\ c.recv = <<>> /\ ~c.peer_closed /\ c.wnd = RECEIVE_BUFFER /\ ConnOK(c)
  BY <1>3, <1>5 DEF Announced
<1>9. AnswersUs(c, s)
  BY <1>3, <1>8 DEF AnswersUs
<1>11. /\ ConnOK(x) /\ Sender(Client, x, sent[Client], arrived[Server])
       /\ x.state \in Open => arrived[Server] <= sent[Client]
  OBVIOUS
<1>12. /\ x.state = "Established" /\ x.una = Plus(ClientIss, 1) /\ x.nxt = Plus(ClientIss, 1)
       /\ x.wnd = RECEIVE_BUFFER /\ x.retries = 0 /\ ~x.reset /\ x.recv = <<>>
       /\ ~x.peer_closed /\ x.rcv_nxt = Plus(ServerIss, 1) /\ x.need_ack
  <2>1. c.nxt = Plus(c.una, 1) /\ ConnOK(c) /\ s \in Segment /\ c.state = "SynSent"
    BY <1>8
  <2>2. /\ x.state = "Established" /\ x.una = c.nxt /\ x.nxt = c.nxt /\ x.wnd = c.wnd
        /\ x.retries = 0 /\ x.reset = c.reset /\ x.recv = c.recv
        /\ x.peer_closed = c.peer_closed /\ x.rcv_nxt = Plus(s.seq, 1)
        /\ x.need_ack = TRUE
    BY <2>1, <1>9, AnsweredFields, ZenonT(60)
  <2> HIDE DEF x
  <2> QED
    BY <1>3, <1>8, <2>2
<1> HIDE DEF x, d
<1>13. Sound(x) /\ Sound(d) /\ Plain(<<>>) /\ Owes(x)
  BY <1>6, <1>12 DEF Sound, Plain, Owes, Open
<1>14. Part(Client, x, d, <<>>, <<>>, FALSE)
  <2> DEFINE p == Off(Client, x.nxt)
  <2>1. p \in Nat /\ x.nxt \in Number
    BY <1>1, <1>11, Fields, OffType DEF ConnOK
  <2>2. x.una = x.nxt /\ d.rcv_nxt = x.nxt
    BY <1>6, <1>12
  <2>3. Chain(Client, Off(Client, d.rcv_nxt), <<>>, x.nxt)
    BY <1>1, <2>1, <2>2, ChainEmpty
  <2>4. \A k \in 0 .. Len(<<>>) : /\ k = 0 /\ Ack(Client, x.una, <<>>, k) = p
                                  /\ Wnd(x.wnd, <<>>, k) = RECEIVE_BUFFER
    BY <1>12, <2>2 DEF Ack, Wnd
  <2>5. Edge(Client, d) = p + RECEIVE_BUFFER /\ window(d) = RECEIVE_BUFFER
    BY <1>6, <2>2, Sizes DEF Edge, window
  <2>6. Off(Client, d.rcv_nxt) = p /\ Len(<<>>) = 0 /\ RECEIVE_BUFFER \in Nat
    BY <2>2, Sizes
  <2> HIDE DEF p
  <2>7. Rising(Client, x.una, <<>>)
    BY <2>1, <2>4 DEF Rising
  <2>8. Honest(Client, x, d, <<>>)
    BY <2>1, <2>4, <2>5, <2>6 DEF Honest, p
  <2>9. Settled(Client, x, d, <<>>)
    BY <2>4, <2>5, <2>6 DEF Settled
  <2>10. Flow(Client, x, d, <<>>, <<>>, FALSE)
    BY <1>6, <1>12, <2>3, <2>7, <2>8, <2>9 DEF Flow
  <2> QED
    BY <1>12, <2>10 DEF Part
<1>15. Part(Server, d, x, <<>>, <<>>, Owes(x))
  <2>1. Opened(d, x, <<>>, <<>>, Owes(x))
    BY <1>6, <1>12, <1>13 DEF Opened
  <2> QED
    BY <1>6, <2>1 DEF Part, Open
<1>16. net[Server] = <<>> /\ <<>> \in Seq(Segment) /\ born'[Client] /\ 0 \in Nat
  BY DEF Answering
<1>17. Pump(Client, x, <<>>, 0, freed)
  BY DEF x
<1> QED
  BY <1>1, <1>11, <1>13, <1>14, <1>15, <1>16, <1>17, PumpFlowing DEF d

LEMMA FlowingFirst ==
  ASSUME TypeOK, Streams, Answering, NEW s, s = net[Client][1],
         NEW c, c = [conn[Client] EXCEPT !.wnd = s.wnd], NEW freed,
         Pump(Client, Handled(c, s), <<>>, 0, freed), Whole', UNCHANGED born
  PROVE  Flowing'
<1>1. Client \in Ends /\ Server \in Ends /\ Client # Server /\ other(Client) = Server
      /\ other(Server) = Client
  BY Sizes DEF Ends, other
<1>2. /\ s \in Segment /\ \E i \in 1 .. Len(net[Client]) : s = net[Client][i]
  <2>1. net[Client] \in Seq(Segment) /\ 1 \in 1 .. Len(net[Client])
    BY <1>1, Typed DEF Answering
  <2> QED
    BY <2>1, ElementOfSeq
<1>3. /\ s.flags = {"SYN", "ACK"} /\ s.seq = ServerIss /\ s.ack = Plus(ClientIss, 1)
      /\ s.wnd = RECEIVE_BUFFER
  BY DEF Answering
<1>5. conn[Client].state = "SynSent" /\ conn[Client].nxt = Plus(ClientIss, 1)
  BY <1>1 DEF Answering, Fresh, Iss
<1>7. Announced(c, conn[Client], s.wnd)
  BY <1>1, <1>2, Typed, Announces
<1>9. s.ack = c.nxt
  BY <1>3, <1>5, <1>7 DEF Announced
<1>10. exists(Client) /\ "RST" \notin s.flags /\ ~Refused(c, s)
  BY <1>3, <1>5, <1>9 DEF AnswersUs, Refused, exists
<1>11. /\ ConnOK(Handled(c, s)) /\ born[Client]
       /\ Sender(Client, Handled(c, s), sent[Client], arrived[Server])
       /\ Handled(c, s).state \in Open => arrived[Server] <= sent[Client]
  BY <1>1, <1>2, <1>10, HandledFacts
<1>12. sent[Client] \in Nat /\ arrived[Server] \in Nat /\ sent[Client] <= Bytes(Client)
  BY <1>1, SenderFacts
<1> QED
  BY <1>2, <1>7, <1>11, <1>12, FirstTurn

\* Two ends past the handshake: a segment arrives in its turn.
LEMMA ReceiveFlowing ==
  ASSUME TypeOK, Streams, Flowing, NEW e \in Ends, exists(e), net[e] # <<>>,
         NEW c, c = [conn[e] EXCEPT !.wnd = Head(net[e]).wnd], NEW freed,
         Pump(e, Handled(c, Head(net[e])), Tail(net[e]), 0, freed), Whole', UNCHANGED born
  PROVE  Flowing'
<1> DEFINE s == Head(net[e])
           d == conn[other(e)]
           x == Handled(c, s)
           n == sent[e]
           A == arrived[other(e)]
<1>1. other(e) \in Ends /\ other(other(e)) = e
  BY Sizes DEF Ends, other
<1>2. /\ net[e] \in Seq(Segment) /\ net[other(e)] \in Seq(Segment)
      /\ ConnOK(conn[e]) /\ ConnOK(d)
  BY <1>1, Typed
<1>3. /\ Tail(net[e]) \in Seq(Segment) /\ s = net[e][1] /\ s \in Segment
      /\ 1 \in 1 .. Len(net[e]) /\ Len(Tail(net[e])) = Len(net[e]) - 1
      /\ Len(net[e]) \in Nat \ {0}
      /\ \A i \in 1 .. Len(net[e]) - 1 : Tail(net[e])[i] = net[e][i + 1]
  BY <1>2, TailParts
<1>4. /\ Sound(conn[e]) /\ Sound(d) /\ Plain(net[e]) /\ Plain(net[other(e)])
      /\ Part(e, conn[e], d, net[other(e)], net[e], FALSE)
      /\ Part(other(e), d, conn[e], net[e], net[other(e)], FALSE)
  BY FlowingEnds
<1>5. Answer(s)
  BY <1>3, <1>4 DEF Answer, Plain
<1>6. "RST" \notin s.flags /\ ~Refused(c, s)
  BY <1>5 DEF Answer, Refused
<1>7. /\ ConnOK(x) /\ Announced(c, conn[e], s.wnd) /\ born[e]
      /\ Sender(e, x, n, A) /\ (x.state \in Open => A <= n)
  <2>1. \E i \in 1 .. Len(net[e]) : s = net[e][i]
    BY <1>3
  <2> HIDE DEF x
  <2> QED
    BY <1>3, <1>6, <2>1, HandledFacts DEF x
<1>8. /\ n \in Nat /\ A \in Nat /\ n <= Bytes(e) /\ Sender(e, conn[e], n, A)
      /\ (conn[e].state \in Open => A <= n)
  BY SenderFacts
<1>9. Plain(Tail(net[e]))
  <2> DEFINE q == net[e]
             t == Tail(q)
  <2>1. /\ Plain(q) /\ Len(q) \in Nat \ {0} /\ Len(t) = Len(q) - 1
        /\ \A i \in 1 .. Len(q) - 1 : t[i] = q[i + 1]
    BY <1>3, <1>4
  <2> HIDE DEF q, t
  <2>2. \A i \in 1 .. Len(t) : i + 1 \in 1 .. Len(q) /\ t[i] = q[i + 1]
    BY <2>1
  <2>3. Plain(t)
    BY <2>1, <2>2 DEF Plain
  <2> QED
    BY <2>3 DEF t, q
<1> HIDE DEF n, A
<1>10. Part(e, x, d, net[other(e)], Tail(net[e]), FALSE) /\ Sound(x)
  BY <1>2, <1>4, <1>5, <1>7, <1>8, SenderTakes
<1>11. Part(other(e), d, x, Tail(net[e]), net[other(e)], Owes(x))
  <2>1. ASSUME conn[e].state = "SynReceived"
        PROVE  s.ack = conn[e].nxt /\ conn[e].nxt = Plus(conn[e].una, 1)
    BY <1>3, <1>4, <2>1 DEF Part, Opened
  <2> QED
    BY <1>1, <1>2, <1>4, <1>5, <1>7, <2>1, ReceiverTakes
<1>12. Pump(e, x, Tail(net[e]), 0, freed) /\ born'[e] /\ 0 \in Nat
  BY <1>7
<1> HIDE DEF x, d, s
<1> QED
  BY <1>3, <1>4, <1>7, <1>8, <1>9, <1>10, <1>11, <1>12, PumpFlowing DEF d

LEMMA ReceiveWhole ==
  ASSUME TypeOK, Streams, Order, Whole => Handshake, NEW e \in Ends, Receive(e), Whole'
  PROVE  Handshake'
<1> DEFINE s == Head(net[e])
           c == [conn[e] EXCEPT !.wnd = s.wnd]
<1>1. Client \in Ends /\ Server \in Ends /\ Client # Server /\ other(Client) = Server
      /\ other(Server) = Client /\ e \in {Client, Server}
  BY Sizes DEF Ends, other
<1>2. net[e] # <<>> /\ Handle(e, s, Tail(net[e]), 0)
  BY DEF Receive
<1>3. net[e] \in Seq(Segment) /\ s = net[e][1] /\ Len(Tail(net[e])) = Len(net[e]) - 1
      /\ Tail(net[e]) \in Seq(Segment) /\ Len(net[e]) \in Nat \ {0}
  BY <1>1, <1>2, Typed, TailParts
<1>4. faults' >= faults
  <2>1. faults \in Nat
    BY Sizes DEF TypeOK
  <2>2. faults' = faults + 0 \/ faults' = faults + 0 + 1
    BY <1>2 DEF Handle, Pump
  <2> QED
    BY <2>1, <2>2
<1>5. born[Client]
  BY <1>1, <1>2 DEF Order
<1>6. Whole /\ Handshake
  <2>1. exists(e) \/ ~born[e]
    <3>1. CASE ~exists(e) /\ born[e]
      <4>1. conn'[e] = NoConnection /\ born'[e]
        BY <1>2, <3>1, Typed DEF Handle, TypeOK
      <4> QED
        BY <4>1 DEF Whole, exists, NoConnection, NewConnection
    <3> QED
      BY <3>1
  <2>2. conn'[other(e)] = conn[other(e)] /\ born'[other(e)] = born[other(e)]
    <3>1. /\ other(e) \in Ends /\ other(e) # e /\ conn \in [Ends -> Connection]
          /\ born \in [Ends -> BOOLEAN]
      BY OtherEnd DEF TypeOK
    <3>2. \E z : conn' = [conn EXCEPT ![e] = z]
      BY <1>2 DEF Handle, Pump
    <3>3. born' = born \/ (e = Server /\ born' = [born EXCEPT ![Server] = TRUE])
      BY <1>2 DEF Handle
    <3> QED
      BY <3>1, <3>2, <3>3
  <2> QED
    BY <1>4, <2>1, <2>2, WholeBefore
<1>7. CASE Asking
  <2>1. e = Server /\ Len(net[Server]) = 1
    BY <1>1, <1>2, <1>7 DEF Asking
  <2>2. Tail(net[e]) = <<>>
    <3>1. Tail(net[e]) \in Seq(Segment) /\ Len(Tail(net[e])) = 0
      BY <1>3, <2>1
    <3> QED
      BY <3>1, EmptySeq
  <2>3. s.flags = {"SYN"} /\ ~born[Server] /\ s = net[Server][1]
    BY <1>3, <1>7, <2>1 DEF Asking
  <2>4. ~exists(Server)
    BY <1>1, <2>3 DEF Streams, Unborn, exists
  <2>5. born' = [born EXCEPT ![Server] = TRUE] /\ Pump(Server, accept_syn(s), <<>>, 0, {})
    BY <1>2, <2>1, <2>2, <2>3, <2>4 DEF Handle
  <2>6. Answering'
    BY <1>7, <2>3, <2>5, AnsweringNext
  <2> QED
    BY <2>6 DEF Handshake
<1>8. CASE Answering
  <2>1. e = Client /\ Len(net[Client]) = 1
    BY <1>1, <1>2, <1>8 DEF Answering
  <2>2. Tail(net[e]) = <<>>
    <3>1. Tail(net[e]) \in Seq(Segment) /\ Len(Tail(net[e])) = 0
      BY <1>3, <2>1
    <3> QED
      BY <3>1, EmptySeq
  <2>3. /\ s.flags = {"SYN", "ACK"} /\ s.ack = Plus(ClientIss, 1) /\ s = net[Client][1]
        /\ conn[Client].state = "SynSent" /\ conn[Client].nxt = Plus(ClientIss, 1)
    BY <1>1, <1>3, <1>8, <2>1 DEF Answering, Fresh, Iss
  <2>4. exists(e) /\ "RST" \notin s.flags
    BY <2>1, <2>3 DEF exists
  <2>5. s.ack = c.nxt
    BY <1>1, <2>1, <2>3, Typed DEF ConnOK, Connection
  <2>6. ~Refused(c, s)
    BY <2>3, <2>5 DEF Refused, AnswersUs
  <2>7. \E freed : Pump(e, Handled(c, s), <<>>, 0, freed) /\ UNCHANGED born
    BY <1>2, <2>2, <2>4, <2>6 DEF Handle
  <2>8. Flowing'
    BY <1>8, <2>1, <2>3, <2>7, FlowingFirst
  <2> QED
    BY <2>8 DEF Handshake
<1>9. CASE Flowing
  <2>1. exists(e) /\ Answer(s)
    <3>1. Sound(conn[e]) /\ Plain(net[e]) /\ 1 \in 1 .. Len(net[e])
      BY <1>3, <1>9 DEF Flowing
    <3> QED
      BY <1>3, <3>1 DEF Sound, Plain, Answer, exists
  <2>2. "RST" \notin s.flags /\ ~Refused(c, s)
    BY <2>1 DEF Answer, Refused
  <2>3. \E freed : Pump(e, Handled(c, s), Tail(net[e]), 0, freed) /\ UNCHANGED born
    BY <1>2, <2>1, <2>2 DEF Handle
  <2>4. Flowing'
    BY <1>2, <1>9, <2>1, <2>3, ReceiveFlowing
  <2> QED
    BY <2>4 DEF Handshake
<1> QED
  BY <1>5, <1>6, <1>7, <1>8, <1>9 DEF Handshake

------------------------------------------------------------------------------
(***************************************************************************)
(* Calls of programs on a whole stream.                                    *)
(***************************************************************************)

\* x differs from c in what the program does only.
Similar(c, x) ==
  /\ ConnOK(x) /\ x.state = c.state /\ x.una = c.una /\ x.nxt = c.nxt /\ x.wnd = c.wnd
  /\ x.rcv_nxt = c.rcv_nxt /\ x.recv = c.recv /\ x.fin_sent = c.fin_sent
  /\ x.peer_closed = c.peer_closed /\ x.reset = c.reset
  /\ x.retries \in {c.retries, 0} /\ (c.closing => x.closing)

LEMMA SimilarFlowing ==
  ASSUME TypeOK, Streams, Flowing, NEW e \in Ends, NEW c, Similar(conn[e], c), NEW freed,
         Pump(e, c, net[e], 0, freed), Whole', born'[e],
         NEW n \in Nat, sent[e] <= n, n <= Bytes(e), Sender(e, c, n, arrived[other(e)])
  PROVE  Flowing'
<1> DEFINE d == conn[other(e)]
           A == arrived[other(e)]
<1>1. /\ sent[e] \in Nat /\ A \in Nat /\ (conn[e].state \in Open => A <= sent[e])
  BY SenderFacts
<1>2. /\ Sound(conn[e]) /\ Sound(d) /\ Plain(net[e]) /\ Plain(net[other(e)])
      /\ Part(e, conn[e], d, net[other(e)], net[e], FALSE)
      /\ Part(other(e), d, conn[e], net[e], net[other(e)], FALSE)
  BY FlowingEnds
<1>3. net[e] \in Seq(Segment) /\ 0 \in Nat
  BY Typed
<1> HIDE DEF d, A
<1>4. ConnOK(c) /\ c.state = conn[e].state
  BY DEF Similar
<1>5. c.state \in Open => A <= n
  BY <1>1, <1>4
<1>6. Sound(c)
  BY <1>2 DEF Sound, Similar
<1>7. Part(e, c, d, net[other(e)], net[e], FALSE)
  <2>1. /\ c.state = conn[e].state /\ c.una = conn[e].una /\ c.nxt = conn[e].nxt
        /\ c.wnd = conn[e].wnd /\ c.retries \in {conn[e].retries, 0}
        /\ c.fin_sent = conn[e].fin_sent /\ (conn[e].closing => c.closing)
    BY DEF Similar
  <2>2. d.state = "SynReceived" => d.state = "SynReceived"
    OBVIOUS
  <2> QED
    BY <1>2, <2>1, <2>2, PartAlike
<1>8. Part(other(e), d, c, net[e], net[other(e)], Owes(c))
  <2>1. /\ c.rcv_nxt = conn[e].rcv_nxt /\ c.recv = conn[e].recv
        /\ c.peer_closed = conn[e].peer_closed
        /\ (c.state = "SynReceived" => conn[e].state = "SynReceived")
    BY DEF Similar
  <2>2. d.retries \in {d.retries, 0} /\ (d.closing => d.closing)
    OBVIOUS
  <2> QED
    BY <1>2, <2>1, <2>2, PartAlike
<1> QED
  BY <1>1, <1>2, <1>3, <1>4, <1>5, <1>6, <1>7, <1>8, PumpFlowing DEF d, A

\* During the handshake a call changes nothing on the wire.
LEMMA SimilarWaiting ==
  ASSUME TypeOK, Streams, Asking \/ Answering, NEW e \in Ends, exists(e),
         NEW c, Similar(conn[e], c), NEW freed,
         Pump(e, c, net[e], 0, freed), Whole', born'[e], UNCHANGED born
  PROVE  Asking' \/ Answering'
<1>1. Client \in Ends /\ Server \in Ends /\ Client # Server /\ other(Client) = Server
      /\ other(Server) = Client /\ e \in {Client, Server} /\ other(e) \in Ends
  BY Sizes DEF Ends, other
<1>2. Asking => e = Client
  BY <1>1 DEF Asking, Streams, Unborn, exists
<1>3. Fresh(e, conn[e]) /\ conn[e].state \in {"SynSent", "SynReceived"}
  BY <1>1, <1>2 DEF Asking, Answering
<1>4. /\ Fresh(e, c) /\ c.state = conn[e].state /\ c.rcv_nxt = conn[e].rcv_nxt /\ ConnOK(c)
  BY <1>3 DEF Fresh, Similar
<1>5. c.nxt # c.una
  BY <1>4, IssNumber, NextNumber DEF Fresh
<1>6. Sends(c) = "nothing"
  BY <1>3, <1>4, <1>5 DEF Sends, Fresh
<1>7. Sent(c) = c
  BY <1>6 DEF Sent
<1>8. Segments(c) = <<>>
  BY <1>4, <1>6, BareSegment
<1>9. net[e] \in Seq(Segment) /\ net[other(e)] \in Seq(Segment) /\ 0 \in Nat
  BY <1>1, Typed
<1>10. /\ conn'[e] = c /\ conn'[other(e)] = conn[other(e)]
       /\ net'[e] = net[e] /\ net'[other(e)] = net[other(e)]
  <2>1. /\ conn'[e] = Sent(c) /\ conn'[other(e)] = conn[other(e)]
        /\ net'[e] = net[e] /\ net'[other(e)] = net[other(e)] \o Segments(c)
    BY <1>4, <1>9, PumpedWhole
  <2> QED
    BY <1>7, <1>8, <1>9, <2>1
<1>11. ASSUME Asking PROVE Asking'
  BY <1>1, <1>2, <1>4, <1>10, <1>11 DEF Asking
<1>12. ASSUME Answering PROVE Answering'
  BY <1>1, <1>4, <1>10, <1>12 DEF Answering
<1> QED
  BY <1>11, <1>12

LEMMA SimilarWhole ==
  ASSUME TypeOK, Streams, Order, Whole => Handshake, NEW e \in Ends, exists(e),
         NEW c, Similar(conn[e], c), NEW freed,
         Pump(e, c, net[e], 0, freed), UNCHANGED born, Whole',
         NEW n \in Nat, sent[e] <= n, n <= Bytes(e), Sender(e, c, n, arrived[other(e)])
  PROVE  Handshake'
<1>1. born[e] /\ born'[e]
  BY DEF Streams, Unborn, exists
<1>2. conn'[other(e)] = conn[other(e)] /\ faults' >= faults
  <2>1. /\ other(e) \in Ends /\ other(e) # e /\ conn \in [Ends -> Connection]
        /\ faults \in Nat
    BY OtherEnd, Sizes DEF TypeOK
  <2>2. /\ \E z : conn' = [conn EXCEPT ![e] = z]
        /\ faults' = faults + 0 \/ faults' = faults + 0 + 1
    BY DEF Pump
  <2> QED
    BY <2>1, <2>2
<1>3. Whole
  BY <1>1, <1>2, WholeBefore
<1>4. Asking \/ Answering \/ Flowing
  BY <1>3, Parties
<1>5. Asking' \/ Answering' \/ Flowing'
  BY <1>1, <1>4, SimilarFlowing, SimilarWaiting
<1> QED
  BY <1>5 DEF Handshake

\* What stream_send makes of an end.
LEMMA GivenFacts ==
  ASSUME TypeOK, Streams, NEW e \in Ends, NEW n \in 1 .. Bytes(e), Send(e, n)
  PROVE  /\ exists(e) /\ conn[e].state \in Open /\ UNCHANGED <<born, arrived, partly>>
         /\ \E x : \E m \in Nat :
              /\ Similar(conn[e], x) /\ x.timer = conn[e].timer /\ Pump(e, x, net[e], 0, {})
              /\ sent' = [sent EXCEPT ![e] = m] /\ sent[e] <= m /\ m <= Bytes(e)
              /\ Sender(e, x, m, arrived[other(e)])
<1> DEFINE r     == other(e)
           c     == conn[e]
           k     == sent[e]
           taken == Smaller(n, SEND_BUFFER - Len(c.send))
           more  == [j \in 1 .. taken |-> k + j]
           x     == [c EXCEPT !.send = @ \o more]
<1>1. /\ taken > 0 /\ c.state \in Open /\ k + n <= Bytes(e)
      /\ Pump(e, x, net[e], 0, {}) /\ UNCHANGED <<born, arrived, partly>>
      /\ sent' = [sent EXCEPT ![e] = k + taken]
  BY DEF Send
<1>2. /\ r \in Ends /\ r # e /\ n \in Nat /\ Bytes(e) \in Nat /\ exists(e)
      /\ Outward(e) /\ Unborn(e)
  BY <1>1, BothWays, OtherEnd, Modulus DEF Open, exists
<1>3. /\ ConnOK(c) /\ c \in Connection /\ k \in Nat /\ arrived[r] \in Nat
      /\ net[r] \in Seq(Segment) /\ net[e] \in Seq(Segment) /\ born[e] \in BOOLEAN
  BY <1>2, Typed
<1>4. born[e] = TRUE
  BY <1>1, <1>2, <1>3 DEF Unborn, Open
<1>5. taken \in Nat /\ taken <= n /\ Len(c.send) + taken <= SEND_BUFFER
  <2> HIDE DEF c
  <2> QED
    BY <1>1, <1>2, <1>3, TakenType
<1> HIDE DEF taken
<1>6. more \in Seq(Byte) /\ Len(more) = taken /\ Follows(more, k)
  BY <1>3, <1>5, NumberedType
<1> HIDE DEF more
<1>7. /\ ConnOK(x) /\ Len(x.send) = Len(c.send) + taken
      /\ Continues(x.send, c.send, k)
      /\ x.state = c.state /\ x.una = c.una /\ x.nxt = c.nxt /\ x.recv = c.recv
      /\ x.rcv_nxt = c.rcv_nxt /\ x.fin_sent = c.fin_sent
      /\ x.peer_closed = c.peer_closed
  <2>1. ConnOK(c) /\ k \in Nat /\ Len(c.send) + Len(more) <= SEND_BUFFER
    BY <1>3, <1>5, <1>6
  <2> HIDE DEF c, k
  <2>2. LET d == Given(c, more)
        IN  /\ ConnOK(d) /\ Len(d.send) = Len(c.send) + Len(more)
            /\ Continues(d.send, c.send, k)
            /\ d.state = c.state /\ d.una = c.una /\ d.nxt = c.nxt /\ d.recv = c.recv
            /\ d.rcv_nxt = c.rcv_nxt /\ d.fin_sent = c.fin_sent
            /\ d.peer_closed = c.peer_closed
    BY <1>6, <2>1, SendType
  <2> QED
    BY <1>6, <2>2 DEF x, Given
<1>8. /\ x.wnd = c.wnd /\ x.reset = c.reset /\ x.retries = c.retries
      /\ x.closing = c.closing /\ x.timer = c.timer
  <2> HIDE DEF c
  <2> QED
    BY <1>3 DEF Connection
<1> HIDE DEF x
<1>9. k + taken <= Bytes(e) /\ k + taken \in Nat /\ k <= k + taken
  <2> HIDE DEF k
  <2> QED
    BY <1>1, <1>2, <1>3, <1>5
<1>10. Direction(e, x, conn[r], net[r], net[e], TRUE, overtook[e],
                 ended[r], k + taken, arrived[r], got[r])
  <2>1. Direction(e, c, conn[r], net[r], net[e], TRUE, overtook[e],
                  ended[r], k, arrived[r], got[r])
    BY <1>2, <1>4 DEF Outward
  <2> HIDE DEF c, k, r
  <2> QED
    BY <1>1, <1>3, <1>5, <1>7, <1>9, <2>1, GivenSender
<1>11. Sender(e, x, k + taken, arrived[r])
  BY <1>10 DEF Direction
<1>12. Similar(c, x)
  BY <1>7, <1>8 DEF Similar
<1> HIDE DEF x, taken
<1> QED
  BY <1>1, <1>2, <1>8, <1>9, <1>11, <1>12

LEMMA SendWhole ==
  ASSUME TypeOK, Streams, Order, Whole => Handshake, NEW e \in Ends,
         NEW n \in 1 .. Bytes(e), Send(e, n), Whole'
  PROVE  Handshake'
BY GivenFacts, SimilarWhole

\* stream_shutdown and stream_close.
LEMMA ClosingWhole ==
  ASSUME TypeOK, Streams, Order, Whole => Handshake, NEW e \in Ends,
         Shutdown(e) \/ Close(e), Whole'
  PROVE  Handshake'
<1> DEFINE c == conn[e]
           x == [c EXCEPT !.closing = TRUE]
           z == [c EXCEPT !.closing = TRUE, !.state = IF @ = "SynSent" THEN "Closed" ELSE @]
<1>1. /\ ConnOK(c) /\ c \in Connection
  BY Typed
<1>2. ConnOK(x) /\ ConnOK(z)
  <2> HIDE DEF c
  <2> QED
    BY <1>1, CalledType
<1>3. Similar(c, x) /\ SenderAlike(c, x) /\ x.closing
  <2> HIDE DEF c
  <2> QED
    BY <1>1, <1>2 DEF Similar, SenderAlike, Connection
<1>4. IF c.state = "SynSent" THEN z.state = "Closed" ELSE z = x
  <2> HIDE DEF c
  <2> QED
    BY <1>1 DEF Connection
<1>5. UNCHANGED born
  BY DEF Shutdown, Close
<1>6. net[e] \in Seq(Segment) /\ 0 \in Nat
  BY Typed
<1>7. \A freed : exists(e) /\ Pump(e, x, net[e], 0, freed) => Handshake'
  <2>1. /\ sent[e] \in Nat /\ sent[e] <= sent[e] /\ sent[e] <= Bytes(e)
        /\ Sender(e, c, sent[e], arrived[other(e)])
    BY SenderFacts
  <2>2. Sender(e, x, sent[e], arrived[other(e)])
    BY <1>3, <2>1 DEF SenderAlike, Sender
  <2> HIDE DEF x
  <2> QED
    BY <1>3, <1>5, <2>1, <2>2, SimilarWhole
<1>8. CASE exists(e) /\ Pump(e, z, net[e], 0, {"Closed", "TimeWait"})
  <2>1. CASE c.state = "SynSent"
    <3>1. z.state = "Closed"
      BY <1>4, <2>1
    <3> HIDE DEF z
    <3>2. Sends(z) = "nothing"
      BY <3>1 DEF Sends, Open, Closers
    <3>3. Sent(z).state = "Closed"
      BY <3>1, <3>2 DEF Sent
    <3>4. conn'[e] = NoConnection
      BY <1>8, <3>2, <3>3, Typed DEF Pump, Freed, TypeOK
    <3>5. born'[e]
      BY <1>5, <1>8 DEF Streams, Unborn, exists
    <3> QED
      BY <3>4, <3>5 DEF Whole, exists, NoConnection, NewConnection
  <2>2. CASE c.state # "SynSent"
    BY <1>4, <1>7, <1>8, <2>2
  <2> QED
    BY <2>1, <2>2
<1>9. CASE Close(e) /\ ~exists(e) /\ UNCHANGED <<conn, net, faults, overtook>>
  BY <1>5, <1>9, HandshakeSame
<1>10. CASE Shutdown(e)
  BY <1>7, <1>10 DEF Shutdown
<1> QED
  BY <1>8, <1>9, <1>10 DEF Close

\* A program that reads makes room, and an announcement when it has to.
LEMMA ReadPart ==
  ASSUME NEW o \in Ends, NEW c, ConnOK(c), NEW d, ConnOK(d), NEW q \in Seq(Segment),
         NEW b \in Seq(Segment), Part(o, c, d, q, b, FALSE), d.recv # <<>>,
         NEW y, ConnOK(y), y.rcv_nxt = d.rcv_nxt, y.peer_closed = d.peer_closed,
         y.state = d.state, window(d) <= window(y),
         NEW still, c.state \in Open /\ ~d.peer_closed => still \/ ~OpensWindow(d, y)
  PROVE  Part(o, c, y, q, b, still)
<1>1. c.state # "SynReceived"
  BY DEF Part, Opened
<1>2. ASSUME c.state \in Open
      PROVE  Flow(o, c, y, q, b, still)
  <2>1. Flow(o, c, d, q, b, FALSE)
    BY <1>2 DEF Part
  <2>2. Off(o, d.rcv_nxt) \in Nat /\ window(d) \in Nat /\ window(y) \in Nat
    BY Fields, OffType, WindowType DEF ConnOK
  <2>3. Off(o, d.rcv_nxt) <= Off(o, y.rcv_nxt) /\ Edge(o, d) <= Edge(o, y)
    BY <2>2 DEF Edge
  <2>4. Honest(o, c, y, b)
    BY <2>1, <2>3, AnswersAhead DEF Flow
  <2>5. ASSUME ~OpensWindow(d, y)
        PROVE  Settled(o, c, y, b)
    <3>1. Settled(o, c, d, b) /\ Threshold \in Int
      BY <2>1, Sizes DEF Flow, Threshold, Smaller
    <3>2. window(d) < Threshold => window(y) < Threshold
      BY <2>2, <2>5, <3>1 DEF OpensWindow
    <3> QED
      BY <3>1, <3>2 DEF Settled
  <2>6. still \/ Settled(o, c, y, b)
    BY <1>2, <2>1, <2>5 DEF Flow
  <2> QED
    BY <2>1, <2>4, <2>6 DEF Flow
<1>3. ASSUME Fin(c, d, q, b, FALSE)
      PROVE  Fin(c, y, q, b, still)
  BY <1>3 DEF Fin, Untaken, Taken
<1>4. ASSUME Done(c, d, q, b)
      PROVE  Done(c, y, q, b)
  BY <1>4 DEF Done
<1> QED
  BY <1>1, <1>2, <1>3, <1>4 DEF Part

\* A fresh or closed end has nothing to read, or nothing more to announce.
LEMMA ReaderAnswers ==
  ASSUME TypeOK, Streams, Flowing, NEW e \in Ends, conn[e].recv # <<>>,
         conn[other(e)].state \in Open, ~conn[e].peer_closed
  PROVE  conn[e].state \in Open \cup Closers /\ ~conn[e].reset
<1> DEFINE r == other(e)
           d == conn[e]
<1>1. r \in Ends /\ Inward(e) /\ Sound(d) /\ d \in Connection
  BY OtherEnd, BothWays, Typed DEF Flowing
<1>2. Sending(born[r], conn[r]) /\ ~overtook[r] /\ Receiver(r, d, got[e], sent[r], arrived[e])
  <2>1. Sending(born[r], conn[r])
    BY DEF Sending
  <2> QED
    BY <1>1, <2>1 DEF Inward, Direction
<1>3. d.state # "SynReceived"
  <2>1. SUFFICES ASSUME d.state = "SynReceived" PROVE FALSE
    OBVIOUS
  <2>2. arrived[e] = 0 /\ Amount(got[e], d.recv) <= arrived[e]
    BY <1>2, <2>1 DEF Receiver, Opening
  <2>3. got[e] \in Seq(Byte) /\ d.recv \in Seq(Byte)
    BY Typed, Fields
  <2> HIDE DEF d
  <2>4. Len(got[e] \o d.recv) = Len(got[e]) + Len(d.recv) /\ Len(got[e]) \in Nat
        /\ Len(d.recv) \in Nat /\ (Len(d.recv) = 0 => d.recv = <<>>)
    BY <2>3
  <2>5. Len(got[e] \o d.recv) <= 0
    BY <2>2 DEF Amount
  <2>6. d.recv # <<>>
    BY DEF d
  <2> DEFINE l == Len(got[e] \o d.recv)
             k == Len(d.recv)
  <2>7. l = Len(got[e]) + k /\ Len(got[e]) \in Nat /\ k \in Nat /\ k # 0 /\ l <= 0
    BY <2>4, <2>5, <2>6
  <2> HIDE DEF l, k
  <2> QED
    BY <2>7
<1> HIDE DEF d
<1>4. d.state \in States /\ d.state # "Closed"
  BY <1>1, Fields DEF Sound, d
<1> QED
  BY <1>1, <1>3, <1>4 DEF Sound, States, Open, Closers, d

\* What a call that reads leaves alone, and what it makes room for.
Reads(c, x) ==
  /\ ConnOK(x) /\ x.state = c.state /\ x.una = c.una /\ x.nxt = c.nxt /\ x.send = c.send
  /\ x.wnd = c.wnd /\ x.timer = c.timer /\ x.retries = c.retries /\ x.closing = c.closing
  /\ x.fin_sent = c.fin_sent /\ x.rcv_nxt = c.rcv_nxt /\ x.peer_closed = c.peer_closed
  /\ x.reset = c.reset /\ window(c) <= window(x)

\* stream_recv leaves x, and y when the window is announced.
LEMMA ReadFields ==
  ASSUME NEW c, ConnOK(c), NEW n \in Nat, c.recv # <<>>
  PROVE  LET x == LeftOver(c, n)
             y == [x EXCEPT !.need_ack = TRUE]
         IN  Reads(c, x) /\ Reads(c, y) /\ y.need_ack = TRUE
<1> DEFINE x == LeftOver(c, n)
           y == [x EXCEPT !.need_ack = TRUE]
<1>1. /\ ConnOK(x) /\ ConnOK(y)
      /\ x.state = c.state /\ x.una = c.una /\ x.nxt = c.nxt /\ x.send = c.send
      /\ x.rcv_nxt = c.rcv_nxt /\ x.fin_sent = c.fin_sent
      /\ x.peer_closed = c.peer_closed
  BY RecvType
<1>2. /\ x.wnd = c.wnd /\ x.timer = c.timer /\ x.retries = c.retries
      /\ x.closing = c.closing /\ x.reset = c.reset
      /\ window(c) <= window(x)
  <2>1. c \in Connection /\ c.recv \in Seq(Byte)
    BY Fields DEF ConnOK
  <2>2. /\ x.wnd = c.wnd /\ x.timer = c.timer /\ x.retries = c.retries
        /\ x.closing = c.closing /\ x.reset = c.reset
        /\ x.recv = SubSeq(c.recv, Smaller(n, Len(c.recv)) + 1, Len(c.recv))
    BY <2>1 DEF LeftOver, Connection
  <2> HIDE DEF x
  <2>3. Len(c.recv) \in Nat /\ Smaller(n, Len(c.recv)) \in Nat
        /\ Smaller(n, Len(c.recv)) <= Len(c.recv)
    BY <2>1 DEF Smaller
  <2> DEFINE k == Smaller(n, Len(c.recv))
             l == Len(c.recv)
  <2>4. Len(SubSeq(c.recv, k + 1, l)) <= l
    <3>1. k + 1 \in Nat \ {0} /\ l \in Nat /\ k + 1 <= l + 1
      BY <2>3
    <3>2. Len(SubSeq(c.recv, k + 1, l)) = IF k + 1 <= l THEN l - (k + 1) + 1 ELSE 0
      <4>1. k + 1 \in Int /\ l \in Int
        BY <3>1
      <4> HIDE DEF k, l
      <4> QED
        BY <4>1
    <3> HIDE DEF k, l
    <3> QED
      BY <3>1, <3>2
  <2>5. Len(x.recv) <= Len(c.recv) /\ Len(x.recv) \in Nat
    BY <1>1, <2>2, <2>4, Fields DEF ConnOK
  <2> QED
    BY <2>2, <2>3, <2>5, Sizes DEF window
<1>3. /\ y.wnd = x.wnd /\ y.retries = x.retries /\ y.closing = x.closing /\ y.reset = x.reset
      /\ y.state = x.state /\ y.una = x.una /\ y.nxt = x.nxt /\ y.send = x.send
      /\ y.rcv_nxt = x.rcv_nxt /\ y.fin_sent = x.fin_sent /\ y.recv = x.recv
      /\ y.peer_closed = x.peer_closed /\ y.timer = x.timer /\ y.need_ack = TRUE
  <2>1. x \in Connection
    BY <1>1 DEF ConnOK
  <2> HIDE DEF x
  <2> QED
    BY <2>1 DEF Connection
<1> HIDE DEF x, y
<1>4. window(y) = window(x)
  BY <1>3 DEF window
<1>5. Reads(c, x) /\ Reads(c, y) /\ y.need_ack = TRUE
  BY <1>1, <1>2, <1>3, <1>4 DEF Reads
<1> QED
  BY <1>5 DEF x, y

LEMMA RecvWhole ==
  ASSUME TypeOK, Streams, Order, Whole => Handshake, NEW e \in Ends,
         NEW n \in 1 .. RECEIVE_BUFFER, Recv(e, n), Whole'
  PROVE  Handshake'
<1> DEFINE r     == other(e)
           c     == conn[e]
           x     == LeftOver(c, n)
           y     == [x EXCEPT !.need_ack = TRUE]
<1>1. /\ exists(e) /\ c.recv # <<>> /\ UNCHANGED born
      /\ \/ Pump(e, y, net[e], 0, {})
         \/ /\ ~OpensWindow(c, x)
            /\ conn' = [conn EXCEPT ![e] = x] /\ UNCHANGED <<net, faults, overtook>>
  BY DEF Recv, LeftOver
<1>2. r \in Ends /\ r # e /\ other(r) = e /\ n \in Nat
  BY OtherEnd, Sizes
<1>3. /\ ConnOK(c) /\ ConnOK(conn[r]) /\ net[e] \in Seq(Segment) /\ net[r] \in Seq(Segment)
  BY <1>2, Typed
<1>4. born[e] /\ born'[e]
  BY <1>1 DEF Streams, Unborn, exists
<1>5. Reads(c, x) /\ Reads(c, y) /\ y.need_ack = TRUE
  <2>1. ConnOK(c) /\ c.recv # <<>>
    BY <1>1, <1>3
  <2> HIDE DEF c
  <2> QED
    BY <1>2, <2>1, ReadFields
<1> HIDE DEF x, y
<1>8. Whole
  <2>1. conn'[r] = conn[r] /\ faults' >= faults
    <3>1. conn \in [Ends -> Connection] /\ faults \in Nat
      BY Sizes DEF TypeOK
    <3>2. /\ \E z : conn' = [conn EXCEPT ![e] = z]
          /\ faults' = faults + 0 \/ faults' = faults + 0 + 1 \/ faults' = faults
      BY <1>1 DEF Pump
    <3> QED
      BY <1>2, <3>1, <3>2
  <2> QED
    BY <1>1, <1>4, <2>1, WholeBefore
<1>9. Flowing
  <2>1. Asking \/ Answering \/ Flowing
    BY <1>1, <1>8, Parties
  <2>2. Asking => e = Client
    BY <1>1, <1>8, Parties
  <2> QED
    BY <1>1, <2>1, <2>2 DEF Asking, Answering, Fresh, Ends
<1> DEFINE d == conn[r]
<1>10. /\ Sound(c) /\ Sound(d) /\ Plain(net[e]) /\ Plain(net[r])
       /\ Part(e, c, d, net[r], net[e], FALSE) /\ Part(r, d, c, net[e], net[r], FALSE)
  BY <1>9, FlowingEnds
<1>11. /\ sent[e] \in Nat /\ arrived[r] \in Nat /\ sent[e] <= Bytes(e)
       /\ Sender(e, c, sent[e], arrived[r])
       /\ (c.state \in Open => arrived[r] <= sent[e])
  BY SenderFacts
<1>12. d.state \in Open /\ ~c.peer_closed => c.state \in Open \cup Closers /\ ~c.reset
  BY <1>1, <1>9, ReaderAnswers
<1> HIDE DEF c, d
<1>13. ASSUME NEW z, Reads(c, z)
       PROVE  /\ ConnOK(z) /\ Sound(z) /\ Part(e, z, d, net[r], net[e], FALSE)
              /\ Sender(e, z, sent[e], arrived[r])
              /\ (z.state \in Open => arrived[r] <= sent[e])
  <2>1. z.retries \in {c.retries, 0} /\ (c.closing => z.closing)
    BY <1>13 DEF Reads
  <2>2. Sound(z)
    BY <1>10, <1>13 DEF Sound, Reads
  <2>3. d.state = "SynReceived" => d.state = "SynReceived"
    OBVIOUS
  <2>4. Part(e, z, d, net[r], net[e], FALSE)
    <3>1. /\ z.state = c.state /\ z.una = c.una /\ z.nxt = c.nxt /\ z.wnd = c.wnd
          /\ z.fin_sent = c.fin_sent
      BY <1>13 DEF Reads
    <3> QED
      BY <1>10, <2>1, <2>3, <3>1, PartAlike
  <2>5. Sender(e, z, sent[e], arrived[r]) /\ (z.state \in Open => arrived[r] <= sent[e])
    BY <1>11, <1>13 DEF Sender, Reads
  <2> QED
    BY <1>13, <2>2, <2>4, <2>5 DEF Reads
<1>14. CASE Pump(e, y, net[e], 0, {})
  <2>1. d.state \in Open /\ ~c.peer_closed => Owes(y)
    BY <1>5, <1>12 DEF Owes, Reads
  <2>2. Part(r, d, y, net[e], net[r], Owes(y))
    BY <1>1, <1>2, <1>3, <1>5, <1>10, <2>1, ReadPart DEF c, d, Reads
  <2>3. Flowing'
    BY <1>3, <1>4, <1>5, <1>10, <1>11, <1>13, <1>14, <2>2, PumpFlowing DEF d
  <2> QED
    BY <2>3 DEF Handshake
<1>15. CASE /\ ~OpensWindow(c, x)
            /\ conn' = [conn EXCEPT ![e] = x] /\ UNCHANGED <<net, faults, overtook>>
  <2>1. Part(r, d, x, net[e], net[r], FALSE)
    BY <1>1, <1>2, <1>3, <1>5, <1>10, <1>15, ReadPart DEF c, d, Reads
  <2>2. conn'[e] = x /\ conn'[r] = d
    BY <1>2, <1>15, Typed DEF d, TypeOK
  <2>3. Flowing'
    BY <1>5, <1>10, <1>13, <1>15, <2>1, <2>2, FlowingEndsNext
  <2> QED
    BY <2>3 DEF Handshake
<1> QED
  BY <1>1, <1>14, <1>15 DEF c

------------------------------------------------------------------------------
(***************************************************************************)
(* The timer of a whole stream fires only when nothing is on the way, and  *)
(* then only a FIN can be in flight.                                       *)
(***************************************************************************)
LEMMA AtRest ==
  ASSUME TypeOK, Flowing, NEW e \in Ends, \A o \in Ends : net[o] = <<>>
  PROVE  LET c == conn[e]
             d == conn[other(e)]
         IN  /\ c.state # "SynReceived" /\ d.state # "SynReceived"
             /\ c.state \in Open => c.nxt = c.una /\ d.rcv_nxt = c.una
             /\ in_flight(c) # 0 => /\ c.state \in {"FinWait1", "Closing", "LastAck"}
                                    /\ Fin(c, d, <<>>, <<>>, FALSE) /\ c.retries = 0
<1> DEFINE c == conn[e]
           d == conn[other(e)]
<1>1. /\ other(e) \in Ends /\ other(other(e)) = e /\ ConnOK(c) /\ ConnOK(d)
      /\ c.state \in States
  BY OtherEnd, Typed, Fields
<1>2. /\ Sound(c) /\ Part(e, c, d, <<>>, <<>>, FALSE) /\ Part(other(e), d, c, <<>>, <<>>, FALSE)
  BY <1>1, FlowingEnds
<1>3. c.una \in Number /\ c.nxt \in Number /\ d.rcv_nxt \in Number
  BY <1>1, Fields DEF ConnOK
<1> HIDE DEF c, d
<1>4. c.state # "SynReceived" /\ d.state # "SynReceived"
  BY <1>2 DEF Part, Opened
<1>5. ASSUME c.state \in Open
      PROVE  c.nxt = c.una /\ d.rcv_nxt = c.una
  <2>1. Flow(e, c, d, <<>>, <<>>, FALSE)
    BY <1>2, <1>5 DEF Part
  <2>2. Off(e, c.nxt) = Off(e, d.rcv_nxt)
    BY <1>3, <2>1, ChainEmpty DEF Flow
  <2>3. Len(<<>>) = 0
    OBVIOUS
  <2>4. Off(e, c.una) = Off(e, d.rcv_nxt)
    BY <2>1, <2>3 DEF Flow, Settled, Ack
  <2> QED
    BY <1>3, <2>2, <2>4, OffSame
<1>6. c.state \in {"FinWait2", "TimeWait", "Closed"} => c.nxt = c.una
  BY <1>2 DEF Part, Done
<1>7. c.nxt = c.una => in_flight(c) = 0
  BY <1>3, NextNumber DEF in_flight
<1>8. ASSUME c.state \in {"FinWait1", "Closing", "LastAck"}
      PROVE  Fin(c, d, <<>>, <<>>, FALSE) /\ c.retries = 0
  <2>1. Fin(c, d, <<>>, <<>>, FALSE)
    BY <1>2, <1>8 DEF Part
  <2>2. ~(\E k \in 1 .. Len(<<>>) : TRUE)
    OBVIOUS
  <2>3. ~Taken(c, d, <<>>, FALSE)
    BY <2>2 DEF Taken
  <2>4. Untaken(c, d, <<>>, <<>>)
    BY <2>1, <2>3 DEF Fin
  <2> QED
    BY <2>1, <2>2, <2>4 DEF Untaken
<1>9. c.state \in Open \cup {"SynReceived", "FinWait1", "Closing", "LastAck", "FinWait2",
                             "TimeWait", "Closed"}
  BY <1>1, <1>2 DEF Sound, States, Open, c
<1> QED
  BY <1>4, <1>5, <1>6, <1>7, <1>8, <1>9 DEF c, d

LEMMA TickWhole ==
  ASSUME TypeOK, Streams, Order, Whole => Handshake, NEW e \in Ends, Tick(e), Whole'
  PROVE  Handshake'
<1> DEFINE r    == other(e)
           c    == conn[e]
           d    == conn[r]
           cost == IF \A o \in Ends : net[o] = <<>> THEN 0 ELSE 1
           idle == [c EXCEPT !.timer = FALSE, !.retries = 0]
           x    == Rewound(c)
<1>1. /\ exists(e) /\ UNCHANGED born
      /\ \/ in_flight(c) = 0 /\ Pump(e, idle, net[e], cost, {})
         \/ /\ in_flight(c) # 0 /\ GaveUp(c)
            /\ conn' = [conn EXCEPT ![e].reset = TRUE, ![e].state = "Closed"]
            /\ faults' = faults + cost
         \/ in_flight(c) # 0 /\ ~GaveUp(c) /\ Pump(e, x, net[e], cost, {})
  BY DEF Tick
<1>2. /\ c \in Connection /\ ConnOK(c) /\ ConnOK(d) /\ r \in Ends /\ r # e
      /\ net[e] \in Seq(Segment) /\ net[r] \in Seq(Segment) /\ faults \in Nat
      /\ conn \in [Ends -> Connection]
  BY Typed, OtherEnd, Sizes DEF TypeOK
<1>3. born[e] /\ born'[e]
  BY <1>1 DEF Streams, Unborn, exists
<1>4. cost \in {0, 1} /\ (cost = 0 => \A o \in Ends : net[o] = <<>>)
  OBVIOUS
<1> HIDE DEF cost
<1>5. conn'[r] = conn[r]
  BY <1>1, <1>2 DEF Pump
<1>7. faults' >= faults /\ cost = 0
  <2>1. faults' = faults + cost \/ faults' = faults + cost + 1
    BY <1>1 DEF Pump
  <2>2. faults' = 0
    BY DEF Whole
  <2> QED
    BY <1>2, <1>4, <2>1, <2>2
<1>8. Whole
  BY <1>1, <1>3, <1>5, <1>7, WholeBefore
<1>9. \A o \in Ends : net[o] = <<>>
  BY <1>4, <1>7
<1>10. Flowing
  <2>1. Asking \/ Answering \/ Flowing
    BY <1>1, <1>8, Parties
  <2>2. Client \in Ends /\ Server \in Ends
    BY DEF Ends
  <2>3. Len(net[Client]) = 0 /\ Len(net[Server]) = 0
    BY <1>9, <2>2
  <2> QED
    BY <2>1, <2>3 DEF Asking, Answering
<1>11. /\ c.state # "SynReceived" /\ d.state # "SynReceived"
       /\ in_flight(c) # 0 => /\ c.state \in {"FinWait1", "Closing", "LastAck"}
                              /\ Fin(c, d, <<>>, <<>>, FALSE) /\ c.retries = 0
  BY <1>9, <1>10, AtRest
<1>12. in_flight(c) # 0 => ~GaveUp(c)
  BY <1>11, TcpAssumption DEF GaveUp
<1>13. CASE in_flight(c) = 0 /\ Pump(e, idle, net[e], cost, {})
  <2>1. ConnOK(idle)
    <3> HIDE DEF c
    <3> QED
      BY <1>2, CalledType
  <2>2. Similar(c, idle) /\ SenderAlike(c, idle)
    <3> HIDE DEF c
    <3> QED
      BY <1>2, <2>1 DEF Similar, SenderAlike, Connection
  <2>3. /\ sent[e] \in Nat /\ sent[e] <= sent[e] /\ sent[e] <= Bytes(e)
        /\ Sender(e, c, sent[e], arrived[r])
    BY SenderFacts
  <2>4. Sender(e, idle, sent[e], arrived[r])
    BY <2>2, <2>3 DEF SenderAlike, Sender
  <2> HIDE DEF idle
  <2> QED
    BY <1>1, <1>7, <1>13, <2>2, <2>3, <2>4, SimilarWhole
<1>14. CASE in_flight(c) # 0 /\ ~GaveUp(c) /\ Pump(e, x, net[e], cost, {})
  <2>1. /\ Sound(c) /\ Sound(d) /\ Part(e, c, d, <<>>, <<>>, FALSE)
        /\ Part(r, d, c, <<>>, <<>>, FALSE)
    BY <1>2, <1>9, <1>10, FlowingEnds
  <2>2. ConnOK(x)
    <3> HIDE DEF c
    <3> QED
      BY <1>2, <1>14, CalledType
  <2>3. x.rcv_nxt = c.rcv_nxt /\ x.recv = c.recv /\ x.peer_closed = c.peer_closed
        /\ x.state = c.state
    <3> HIDE DEF c
    <3> QED
      BY <1>2 DEF Rewound, Connection
  <2>4. /\ Sends(x) = "FIN" /\ Sound(Sent(x))
        /\ Part(e, Sent(x), d, Segments(x), <<>>, FALSE)
    <3>1. /\ ConnOK(c) /\ ConnOK(d) /\ c.state \in {"FinWait1", "Closing", "LastAck"}
          /\ Fin(c, d, <<>>, <<>>, FALSE) /\ d.state # "SynReceived" /\ ~GaveUp(c) /\ Sound(c)
      BY <1>2, <1>11, <1>14, <2>1
    <3> HIDE DEF c, d
    <3> QED
      BY <3>1, RewoundTurn
  <2> HIDE DEF x, c
  <2>5. Part(r, d, x, <<>>, <<>>, Owes(x))
    <3>1. d.retries \in {d.retries, 0} /\ (d.closing => d.closing)
          /\ (x.state = "SynReceived" => c.state = "SynReceived")
      BY <2>3
    <3> HIDE DEF d
    <3> QED
      BY <2>1, <2>3, <3>1, PartAlike
  <2>6. Part(r, d, Sent(x), <<>>, <<>> \o Segments(x), FALSE)
    <3>1. /\ r \in Ends /\ ConnOK(d) /\ ConnOK(x) /\ Sends(x) # "SYN" /\ <<>> \in Seq(Segment)
          /\ Part(r, d, x, <<>>, <<>>, Owes(x))
      BY <1>2, <2>2, <2>4, <2>5
    <3> HIDE DEF r, d
    <3> QED
      BY <3>1, ReceiverTurn
  <2>7. Segments(x) \in Seq(Segment) /\ Plain(Segments(x))
    BY <2>2, <2>4, SegmentsShape, PlainSegments
  <2>8. <<>> \o Segments(x) = Segments(x)
    BY <2>7
  <2>9. /\ conn'[e] = Sent(x) /\ conn'[r] = d /\ net'[e] = <<>> /\ net'[r] = Segments(x)
    <3>1. 0 \in Nat /\ net[e] \in Seq(Segment) /\ Pump(e, x, net[e], 0, {})
      BY <1>2, <1>7, <1>14
    <3>2. /\ conn'[e] = Sent(x) /\ conn'[r] = d /\ net'[e] = net[e]
          /\ net'[r] = net[r] \o Segments(x)
      BY <1>3, <2>2, <3>1, PumpedWhole
    <3> QED
      BY <1>2, <1>9, <2>8, <3>2
  <2>10. Plain(<<>>)
    BY DEF Plain
  <2>11. Flowing'
    BY <2>1, <2>4, <2>6, <2>7, <2>8, <2>9, <2>10, FlowingEndsNext
  <2> QED
    BY <2>11 DEF Handshake
<1> QED
  BY <1>1, <1>12, <1>13, <1>14

\* Every step of a whole stream.
LEMMA WholeInduction ==
  ASSUME TypeOK, Streams, Order, Whole => Handshake, [Next]_vars, Whole'
  PROVE  Handshake'
<1>1. faults \in Nat /\ faults' = 0
  BY Sizes DEF TypeOK, Whole
<1>2. faults' < faults + 1
  BY <1>1
<1>3. CASE Connect
  BY <1>3, ConnectWhole
<1>4. CASE Accept \/ UNCHANGED vars
  BY <1>4, HandshakeSame DEF Accept, vars, machine
<1>5. ASSUME NEW e \in Ends, FindNothing(e) \/ LookForEnd(e)
      PROVE  Handshake'
  BY <1>5, HandshakeSame DEF FindNothing, LookForEnd
<1>6. ASSUME NEW e \in Ends, Die(e) \/ Lose(e)
      PROVE  FALSE
  <2>1. faults' = faults + 1
    BY <1>6 DEF Die, Lose
  <2> QED
    BY <1>1, <2>1
<1>7. ASSUME NEW e \in Ends, ReceiveLater(e)
      PROVE  FALSE
  <2>1. \E s, rest : Handle(e, s, rest, 1)
    BY <1>7 DEF ReceiveLater
  <2>2. faults' = faults + 1 \/ faults' = faults + 1 + 1
    BY <2>1 DEF Handle, Pump
  <2> QED
    BY <1>1, <2>2
<1>8. ASSUME NEW e \in Ends, Expire(e)
      PROVE  FALSE
  <2>1. /\ conn[e].state = "TimeWait" /\ conn' = [conn EXCEPT ![e] = NoConnection]
        /\ UNCHANGED born
    BY <1>8 DEF Expire
  <2>2. born'[e]
    BY <2>1 DEF Streams, Unborn
  <2>3. conn'[e] = NoConnection
    BY <2>1 DEF TypeOK
  <2> QED
    BY <2>2, <2>3 DEF Whole, exists, NoConnection, NewConnection
<1>9. ASSUME NEW e \in Ends, NEW n \in 1 .. Bytes(e), Send(e, n)
      PROVE  Handshake'
  BY <1>9, SendWhole
<1>10. ASSUME NEW e \in Ends, NEW n \in 1 .. RECEIVE_BUFFER, Recv(e, n)
       PROVE  Handshake'
  BY <1>10, RecvWhole
<1>11. ASSUME NEW e \in Ends, Shutdown(e) \/ Close(e)
       PROVE  Handshake'
  BY <1>11, ClosingWhole
<1>12. ASSUME NEW e \in Ends, Receive(e)
       PROVE  Handshake'
  BY <1>12, ReceiveWhole
<1>13. ASSUME NEW e \in Ends, Tick(e)
       PROVE  Handshake'
  BY <1>13, TickWhole
<1> QED
  BY <1>3, <1>4, <1>5, <1>6, <1>7, <1>8, <1>9, <1>10, <1>11, <1>12, <1>13
  DEF Next, Program, Network

------------------------------------------------------------------------------
(***************************************************************************)
(* The timer, whatever has gone wrong.                                     *)
(***************************************************************************)

\* Before a turn: what is in flight is watched.
Waits(c, part) ==
  c.state \in Open /\ ~c.reset /\ in_flight(c) > 0 => c.timer \/ part

\* A turn leaves nothing unwatched, and nothing that may leave.
LEMMA TurnWatched ==
  ASSUME NEW o \in Ends, NEW c, ConnOK(c), NEW n \in Nat, NEW A \in Nat,
         n <= Bytes(o), c.state \in Open => A <= n /\ Sender(o, c, n, A),
         NEW part, Waits(c, part)
  PROVE  Watched(Sent(c), part)
<1> DEFINE x == Sent(c)
<1>1. c \in Connection /\ x \in Connection /\ x.reset = c.reset /\ x.una = c.una
      /\ sendable(c) \in Nat /\ in_flight(c) \in Nat /\ c.una \in Number
  <2>1. c \in Connection
    BY DEF ConnOK
  <2> QED
    BY <2>1, SentShape, SentRest, SendableType, InFlightType, Fields DEF ConnOK, Number
<1>2. SUFFICES ASSUME x.state \in Open, ~x.reset
               PROVE  (in_flight(x) > 0 => x.timer \/ part) /\ (x.timer \/ sendable(x) = 0)
  BY DEF Watched
<1>3. CASE Sends(c) = "data"
  <2>1. c.state \in Open
    BY <1>3, SendsWhere
  <2>2. /\ sendable(c) \in Nat \ {0} /\ Off(o, c.una) <= Off(o, c.nxt)
        /\ Off(o, x.nxt) = Off(o, c.nxt) + sendable(c)
    BY <1>3, <2>1, DataRoom
  <2>3. x.nxt \in Number /\ Off(o, c.una) \in Nat /\ Off(o, c.nxt) \in Nat
    BY <1>1, Fields, OffType DEF Connection
  <2> HIDE DEF x
  <2>4. Off(o, c.una) <= Off(o, x.nxt) /\ Off(o, x.nxt) - Off(o, c.una) > 0
    BY <2>2, <2>3
  <2>5. in_flight(x) > 0
    BY <1>1, <2>3, <2>4, OffMinus DEF in_flight
  <2>6. x.timer = (c.timer \/ in_flight(x) > 0)
    BY <1>3, SentRest DEF x
  <2> QED
    BY <2>5, <2>6
<1>4. CASE Sends(c) = "SYN"
  <2>1. x.state = c.state /\ c.state \in Opening
    BY <1>4, SentShape, SendsWhere
  <2> QED
    BY <1>2, <2>1 DEF Opening, Open
<1>5. CASE Sends(c) = "FIN"
  <2>1. x.state = AfterFin(c.state)
    BY <1>5, SentShape
  <2> QED
    BY <1>2, <2>1 DEF AfterFin, Open
<1>6. CASE Sends(c) \in {"ACK", "nothing"}
  <2>1. /\ x.state = c.state /\ x.nxt = c.nxt /\ x.send = c.send /\ x.wnd = c.wnd
        /\ x.timer = c.timer
    BY <1>6, SentShape, SentRest
  <2>2. in_flight(x) = in_flight(c) /\ sendable(x) = sendable(c)
    BY <1>1, <2>1 DEF in_flight, sendable
  <2>3. ~(sendable(c) > 0)
    BY <1>1, <1>2, <1>6, <2>1 DEF Sends, Open, Closers
  <2> QED
    BY <1>1, <1>2, <2>1, <2>2, <2>3 DEF Waits
<1>7. Sends(c) \in {"SYN", "data", "FIN", "ACK", "nothing"}
  BY SendsValues
<1> QED
  BY <1>3, <1>4, <1>5, <1>6, <1>7

LEMMA UnsentWatched ==
  ASSUME NEW c, ConnOK(c), NEW part
  PROVE  Watched(Unsent(c), part) /\ Unsent(c).reset = c.reset
<1>1. Unsent(c).timer = TRUE /\ Unsent(c).reset = c.reset
  BY DEF Unsent, ConnOK, Connection
<1> QED
  BY <1>1 DEF Watched

\* What a segment makes of a connection is watched as long as partly follows it.
LEMMA HandledWaits ==
  ASSUME NEW o \in Ends, NEW c, ConnOK(c), NEW n \in Nat, NEW A \in Nat, Sender(o, c, n, A),
         NEW s \in Segment, NEW part, Waits(c, part)
  PROVE  LET x == Handled(c, s)
         IN  Waits(x, IF x.una = c.una THEN part ELSE in_flight(x) > 0)
<1> DEFINE x == Handled(c, s)
           a == acknowledge(c, s.ack)
<1>1. /\ c \in Connection /\ s.ack \in Number /\ s.seq \in Number /\ s.data \in Seq(Byte)
      /\ c.una \in Number /\ c.nxt \in Number
  BY Fields DEF Segment, ConnOK
<1>2. SUFFICES ASSUME x.state \in Open, ~x.reset, in_flight(x) > 0, x.una = c.una
               PROVE  x.timer \/ part
  BY DEF Waits
<1>3. a.una = IF after(s.ack, c.una) THEN s.ack ELSE c.una
  BY <1>1, AcknowledgeRest
<1>4. ASSUME c.state \in Opening, s.ack = c.nxt, x.una = a.una, x.nxt = c.nxt
      PROVE  FALSE
  <2>1. c.una = Num(o, 0) /\ c.nxt \in {Num(o, 0), Num(o, 1)}
    BY <1>4 DEF Sender
  <2>2. after(Num(o, 1), Num(o, 0))
    <3>1. 1 \in 0 .. Bytes(o) + 1 /\ 0 \in 0 .. Bytes(o) + 1
      BY Modulus
    <3> QED
      BY <3>1, NumAfter
  <2> HIDE DEF x, a
  <2>3. x.una = x.nxt
    BY <1>3, <1>4, <2>1, <2>2
  <2> QED
    BY <1>1, <1>2, <1>4, <2>3, NextNumber DEF in_flight
<1>5. CASE c.state = "SynSent"
  <2>1. CASE AnswersUs(c, s)
    <3>0. x # c
      BY <1>2, <1>5 DEF Open
    <3>1. x.una = a.una /\ x.nxt = c.nxt
      BY <1>5, <2>1, <3>0, OpenedShape
    <3> QED
      BY <1>4, <1>5, <2>1, <3>1 DEF AnswersUs, Opening
  <2>2. CASE ~AnswersUs(c, s)
    <3>1. x = c \/ x = [c EXCEPT !.rcv_nxt = Plus(s.seq, 1), !.state = "SynReceived",
                                 !.need_ack = TRUE]
      BY <1>5, <2>2 DEF Handled, Open, Closers
    <3>2. x.state \in {"SynSent", "SynReceived"}
      <4> HIDE DEF x
      <4> QED
        BY <1>1, <1>5, <3>1 DEF Connection
    <3> HIDE DEF x
    <3> QED
      BY <1>2, <3>2 DEF Open
  <2> QED
    BY <2>1, <2>2
<1>6. CASE c.state = "SynReceived"
  <2> DEFINE y == [a EXCEPT !.state = "Established"]
  <2>1. \/ x = c
        \/ /\ s.ack = c.nxt /\ x = accept_data(y, s.seq, s.data)
           /\ ConnOK(y) /\ y.una = a.una /\ y.nxt = c.nxt
    BY <1>6, OpenedShape
  <2> HIDE DEF y, x
  <2>2. x # c
    BY <1>2, <1>6 DEF Open
  <2>3. x.una = y.una /\ x.nxt = y.nxt
    <3>1. ConnOK(y) /\ x = accept_data(y, s.seq, s.data)
      BY <2>1, <2>2
    <3> QED
      BY <1>1, <3>1, AcceptShape
  <2> QED
    BY <1>4, <1>6, <2>1, <2>2, <2>3 DEF Opening, x
<1>7. CASE c.state \in (Open \cup Closers) \ {"TimeWait"}
  <2> DEFINE y == IF "ACK" \in s.flags THEN a ELSE c
             f == accept_data(y, s.seq, s.data)
  <2>1. x = Synchronised(c, s)
    BY <1>7, OthersShape DEF Open, Closers
  <2>2. /\ x.una = y.una /\ x.nxt = c.nxt /\ x.timer = y.timer /\ x.reset = c.reset
        /\ x.state = NextState(c.state, FinHere(f, s) \/ c.peer_closed,
                               c.fin_sent /\ y.una = c.nxt)
    BY <2>1, SynchronisedShape, SynchronisedRest
  <2> HIDE DEF x, f
  <2>3. c.state \in Open
    <3>1. \E theirs, ours \in BOOLEAN : x.state = NextState(c.state, theirs, ours)
      <4>1. (FinHere(f, s) \/ c.peer_closed) \in BOOLEAN
            /\ (c.fin_sent /\ y.una = c.nxt) \in BOOLEAN
        OBVIOUS
      <4> QED
        BY <2>2, <4>1
    <3>2. c.state \in Closers => x.state \in Closers \cup {"Closed"}
      BY <3>1, NextStateWhere
    <3> QED
      BY <1>2, <1>7, <3>2 DEF Open, Closers
  <2>4. y.timer = c.timer
    <3>1. a.timer = IF after(s.ack, c.una) THEN FALSE ELSE c.timer
      BY <1>1, AcknowledgeRest
    <3>2. ~after(c.una, c.una)
      BY <1>1, NextNumber
    <3> HIDE DEF a
    <3> QED
      BY <1>2, <1>3, <2>2, <3>1, <3>2
  <2>5. in_flight(x) = in_flight(c)
    BY <1>2, <2>2 DEF in_flight
  <2> HIDE DEF y
  <2> QED
    BY <1>2, <2>2, <2>3, <2>4, <2>5 DEF Waits
<1>8. CASE c.state \notin Opening /\ c.state \notin (Open \cup Closers) \ {"TimeWait"}
  <2>1. x.state = c.state
    BY <1>8, OthersShape DEF Opening
  <2> QED
    BY <1>2, <1>8, <2>1 DEF Open
<1> QED
  BY <1>5, <1>6, <1>7, <1>8 DEF Opening

\* Only the answer to the FIN closes a connection.
LEMMA HandledCloses ==
  ASSUME NEW c, ConnOK(c), NEW s \in Segment, Handled(c, s).state = "Closed"
  PROVE  c.state \in {"Closed", "LastAck"} /\ Handled(c, s).reset = c.reset
<1> DEFINE x == Handled(c, s)
<1>1. /\ c \in Connection /\ s.ack \in Number /\ s.seq \in Number /\ s.data \in Seq(Byte)
  BY DEF Segment, ConnOK
<1>2. CASE c.state = "SynSent"
  <2>1. CASE AnswersUs(c, s)
    BY <1>2, <2>1, OpenedShape
  <2>2. CASE ~AnswersUs(c, s)
    <3>1. x = c \/ x = [c EXCEPT !.rcv_nxt = Plus(s.seq, 1), !.state = "SynReceived",
                                 !.need_ack = TRUE]
      BY <1>2, <2>2 DEF Handled, Open, Closers
    <3>2. x.state \in {"SynSent", "SynReceived"}
      <4> HIDE DEF x
      <4> QED
        BY <1>1, <1>2, <3>1 DEF Connection
    <3> HIDE DEF x
    <3> QED
      BY <3>2 DEF x
  <2> QED
    BY <2>1, <2>2
<1>3. CASE c.state = "SynReceived"
  <2> DEFINE y == [acknowledge(c, s.ack) EXCEPT !.state = "Established"]
  <2>1. \/ x = c
        \/ x = accept_data(y, s.seq, s.data) /\ ConnOK(y) /\ y.state = "Established"
    BY <1>3, OpenedShape
  <2> HIDE DEF y, x
  <2>2. x.state \in {"SynReceived", "Established"}
    <3>1. CASE x = c
      BY <1>3, <3>1
    <3>2. CASE x # c
      <4>1. ConnOK(y) /\ x = accept_data(y, s.seq, s.data) /\ y.state = "Established"
        BY <2>1, <3>2
      <4>2. x.state = y.state
        BY <1>1, <4>1, AcceptShape
      <4> QED
        BY <4>1, <4>2
    <3> QED
      BY <3>1, <3>2
  <2> QED
    BY <2>2 DEF x
<1>4. CASE c.state \in (Open \cup Closers) \ {"TimeWait"}
  <2>1. x = Synchronised(c, s)
    BY <1>4, OthersShape DEF Open, Closers
  <2>2. \E theirs, ours : x.state = NextState(c.state, theirs, ours)
    BY <2>1, SynchronisedShape
  <2>3. x.reset = c.reset
    BY <2>1, SynchronisedRest
  <2> HIDE DEF x
  <2>4. x.state = "Closed"
    BY DEF x
  <2>5. c.state \in {"Closed", "LastAck"}
    BY <2>2, <2>4 DEF NextState
  <2> QED
    BY <2>3, <2>5 DEF x
<1>5. CASE c.state \notin Opening /\ c.state \notin (Open \cup Closers) \ {"TimeWait"}
  <2>1. x.state = c.state
    BY <1>5, OthersShape DEF Opening
  <2>2. c.state = "Closed"
    BY <2>1
  <2> QED
    BY <2>2, HandledLate
<1> QED
  BY <1>2, <1>3, <1>4, <1>5 DEF Opening

LEMMA PumpArmed ==
  ASSUME TypeOK, NEW e \in Ends, NEW c, ConnOK(c), NEW rest, NEW cost, NEW freed,
         Pump(e, c, rest, cost, freed), NEW n \in Nat, NEW A \in Nat, n <= Bytes(e),
         c.state \in Open => A <= n /\ Sender(e, c, n, A),
         NEW part, Waits(c, part), Closes(c, overtook[e], n, A)
  PROVE  /\ Watched(conn'[e], part) /\ Closes(conn'[e], overtook'[e], n, A)
         /\ conn'[other(e)] = conn[other(e)] /\ overtook'[other(e)] = overtook[other(e)]
<1>1. /\ conn \in [Ends -> Connection] /\ overtook \in [Ends -> BOOLEAN]
      /\ other(e) \in Ends /\ other(e) # e
  BY OtherEnd DEF TypeOK
<1> DEFINE Turned(z) == /\ Watched(z, part)
                        /\ z.state = "Closed" => c.state = "Closed"
                        /\ z.reset = c.reset
<1>2. Turned(Sent(c))
  <2>1. Sent(c).state = "Closed" => c.state = "Closed"
    BY SentShape, SendsWhere DEF AfterFin
  <2> QED
    BY <2>1, TurnWatched, SentRest
<1>3. Turned(Unsent(c))
  BY UnsentWatched, UnsentShape
<1>4. \A z : Turned(z) => /\ Watched(Freed(z, freed), part)
                          /\ Closes(z, overtook[e], n, A)
                          /\ Closes(Freed(z, freed), overtook[e], n, A)
  <2>1. Watched(NoConnection, part) /\ Closes(NoConnection, overtook[e], n, A)
    BY DEF Watched, Closes, NoConnection, NewConnection, Open
  <2>2. \A z : Freed(z, freed) = z \/ Freed(z, freed) = NoConnection
    BY DEF Freed
  <2>3. \A z : Turned(z) => Closes(z, overtook[e], n, A)
    BY DEF Closes
  <2> QED
    BY <2>1, <2>2, <2>3
<1>5. PICK z : Turned(z) /\ conn' = [conn EXCEPT ![e] = Freed(z, freed)]
  BY <1>2, <1>3 DEF Pump
<1>6. /\ overtook'[e] = overtook[e] \/ overtook'[e]
      /\ overtook'[other(e)] = overtook[other(e)]
  BY <1>1 DEF Pump
<1>7. conn'[e] = Freed(z, freed) /\ conn'[other(e)] = conn[other(e)]
  BY <1>1, <1>5
<1>8. Closes(conn'[e], overtook[e], n, A) => Closes(conn'[e], overtook'[e], n, A)
  BY <1>6 DEF Closes
<1> QED
  BY <1>4, <1>5, <1>6, <1>7, <1>8

\* The other end stays as it is, but may have less to wait for.
LEMMA ArmedEnds ==
  ASSUME TypeOK, TypeOK', Streams', Armed, NEW e \in Ends,
         Watched(conn'[e], partly'[e]),
         Closes(conn'[e], overtook'[e], sent'[e], arrived[other(e)]),
         conn'[other(e)] = conn[other(e)], overtook'[other(e)] = overtook[other(e)],
         partly'[other(e)] = partly[other(e)], sent'[other(e)] = sent[other(e)],
         arrived'[other(e)] = arrived[other(e)], arrived'[e] >= arrived[e]
  PROVE  Armed'
<1> DEFINE r == other(e)
<1>1. r \in Ends /\ other(r) = e /\ Ends = {e, r}
  BY OtherEnd
<1>2. Watched(conn[r], partly[r]) /\ Closes(conn[r], overtook[r], sent[r], arrived[e])
  BY <1>1 DEF Armed
<1>3. Closes(conn'[r], overtook'[r], sent'[r], arrived'[e])
  <2>1. SUFFICES ASSUME conn[r].state = "Closed", ~conn[r].reset, ~overtook[r]
                 PROVE  arrived'[e] = sent[r]
    BY DEF Closes
  <2>2. arrived[e] = sent[r]
    BY <1>2, <2>1 DEF Closes
  <2>3. Receiver(r, conn'[e], got'[e], sent'[r], arrived'[e])
    BY <1>1, <2>1 DEF Streams, StreamOf, Direction
  <2>4. arrived'[e] <= sent[r]
    BY <2>3 DEF Receiver
  <2>5. arrived'[e] \in Nat /\ arrived[e] \in Nat
    BY Typed, TypedNext
  <2> QED
    BY <2>2, <2>4, <2>5
<1> HIDE DEF r
<1>4. /\ Watched(conn'[r], partly'[r])
      /\ Closes(conn'[r], overtook'[r], sent'[r], arrived'[other(r)])
  BY <1>1, <1>2, <1>3 DEF r
<1>5. Closes(conn'[e], overtook'[e], sent'[e], arrived'[other(e)])
  OBVIOUS
<1> QED
  BY <1>1, <1>4, <1>5 DEF Armed

\* A call or a timer turns the connection of e into c and pumps it.
LEMMA CalledArmed ==
  ASSUME TypeOK, TypeOK', Streams', Armed, NEW e \in Ends, NEW c, ConnOK(c),
         NEW rest, NEW cost, NEW freed, Pump(e, c, rest, cost, freed),
         NEW n \in Nat, n <= Bytes(e), sent' = [sent EXCEPT ![e] = n],
         c.state \in Open => arrived[other(e)] <= n /\ Sender(e, c, n, arrived[other(e)]),
         Waits(c, partly[e]), Closes(c, overtook[e], n, arrived[other(e)]),
         UNCHANGED <<arrived, partly>>
  PROVE  Armed'
<1>1. other(e) \in Ends /\ other(e) # e
  BY OtherEnd
<1>2. arrived[other(e)] \in Nat /\ arrived[e] \in Nat /\ sent \in [Ends -> Nat]
  BY <1>1, Typed DEF TypeOK
<1>3. /\ Watched(conn'[e], partly[e])
      /\ Closes(conn'[e], overtook'[e], n, arrived[other(e)])
      /\ conn'[other(e)] = conn[other(e)] /\ overtook'[other(e)] = overtook[other(e)]
  BY <1>2, PumpArmed
<1>4. sent'[e] = n /\ sent'[other(e)] = sent[other(e)] /\ arrived'[e] >= arrived[e]
  BY <1>1, <1>2
<1> QED
  BY <1>3, <1>4, ArmedEnds

\* An end that is given back, or told that the connection is lost.
LEMMA StoppedArmed ==
  ASSUME TypeOK, TypeOK', Streams', Armed, NEW e \in Ends, NEW z,
         z.state \notin Open, z.state = "Closed" => z.reset,
         conn' = [conn EXCEPT ![e] = z],
         UNCHANGED <<sent, arrived, overtook, partly>>
  PROVE  Armed'
<1>1. other(e) \in Ends /\ other(e) # e
  BY OtherEnd
<1>2. conn'[e] = z /\ conn'[other(e)] = conn[other(e)] /\ arrived'[e] >= arrived[e]
  BY <1>1, Typed DEF TypeOK
<1>3. Watched(conn'[e], partly'[e])
      /\ Closes(conn'[e], overtook'[e], sent'[e], arrived[other(e)])
  BY <1>2 DEF Watched, Closes
<1> QED
  BY <1>2, <1>3, ArmedEnds

\* What a call leaves alone keeps an end watched.
LEMMA SimilarWaits ==
  ASSUME NEW c, NEW x, x.state = c.state, x.una = c.una, x.nxt = c.nxt,
         x.reset = c.reset, x.timer = c.timer, NEW part, Watched(c, part),
         NEW over, NEW n, NEW A, Closes(c, over, n, A)
  PROVE  Waits(x, part) /\ Closes(x, over, n, A)
<1>1. in_flight(x) = in_flight(c)
  BY DEF in_flight
<1> QED
  BY <1>1 DEF Waits, Watched, Closes

LEMMA ProgramArmed ==
  ASSUME TypeOK, TypeOK', Streams, Streams', Armed, NEW e \in Ends, Program(e)
  PROVE  Armed'
<1> DEFINE c == conn[e]
           A == arrived[other(e)]
<1>1. /\ sent[e] \in Nat /\ A \in Nat /\ sent[e] <= Bytes(e) /\ Sender(e, c, sent[e], A)
      /\ (c.state \in Open => A <= sent[e])
  BY SenderFacts
<1>2. /\ ConnOK(c) /\ c \in Connection /\ sent = [sent EXCEPT ![e] = sent[e]]
      /\ Watched(c, partly[e]) /\ Closes(c, overtook[e], sent[e], A)
      /\ conn \in [Ends -> Connection]
  BY Typed DEF TypeOK, Armed
<1> HIDE DEF c, A
<1>3. ASSUME NEW n \in 1 .. Bytes(e), Send(e, n)
      PROVE  Armed'
  <2>1. PICK x : \E m \in Nat :
              /\ Similar(conn[e], x) /\ x.timer = conn[e].timer /\ Pump(e, x, net[e], 0, {})
              /\ sent' = [sent EXCEPT ![e] = m] /\ sent[e] <= m /\ m <= Bytes(e)
              /\ Sender(e, x, m, arrived[other(e)])
    BY <1>3, GivenFacts
  <2>2. PICK m \in Nat :
              /\ Similar(conn[e], x) /\ x.timer = conn[e].timer /\ Pump(e, x, net[e], 0, {})
              /\ sent' = [sent EXCEPT ![e] = m] /\ sent[e] <= m /\ m <= Bytes(e)
              /\ Sender(e, x, m, arrived[other(e)])
    BY <2>1
  <2>3. c.state \in Open /\ UNCHANGED <<arrived, partly>>
    BY <1>3, GivenFacts DEF c
  <2>4. /\ x.state = c.state /\ x.una = c.una /\ x.nxt = c.nxt /\ x.reset = c.reset
        /\ x.timer = c.timer /\ ConnOK(x)
    BY <2>2 DEF Similar, c
  <2>5. Waits(x, partly[e])
    BY <1>2, <2>4, SimilarWaits
  <2>6. Closes(x, overtook[e], m, A)
    BY <2>3, <2>4 DEF Closes, Open
  <2>7. A <= m
    BY <1>1, <2>2, <2>3
  <2> QED
    BY <2>2, <2>3, <2>4, <2>5, <2>6, <2>7, CalledArmed DEF A
<1>4. ASSUME NEW x, ConnOK(x), SenderAlike(c, x), x.reset = c.reset, x.timer = c.timer,
             NEW freed, Pump(e, x, net[e], 0, freed), UNCHANGED <<sent, arrived, partly>>
      PROVE  Armed'
  <2>1. /\ x.state = c.state /\ x.una = c.una /\ x.nxt = c.nxt
    BY <1>4 DEF SenderAlike
  <2>2. Waits(x, partly[e]) /\ Closes(x, overtook[e], sent[e], A)
    BY <1>2, <1>4, <2>1, SimilarWaits
  <2>3. x.state \in Open => A <= sent[e] /\ Sender(e, x, sent[e], A)
    BY <1>1, <1>4, <2>1 DEF SenderAlike, Sender
  <2>4. sent' = [sent EXCEPT ![e] = sent[e]]
    BY <1>2, <1>4
  <2> QED
    BY <1>1, <1>4, <2>2, <2>3, <2>4, CalledArmed DEF A
<1>5. ASSUME NEW n \in 1 .. RECEIVE_BUFFER, Recv(e, n)
      PROVE  Armed'
  <2> DEFINE x == LeftOver(c, n)
             y == [x EXCEPT !.need_ack = TRUE]
  <2>1. /\ c.recv # <<>> /\ UNCHANGED <<sent, arrived, partly>>
        /\ \/ Pump(e, y, net[e], 0, {})
           \/ conn' = [conn EXCEPT ![e] = x] /\ UNCHANGED <<net, faults, overtook>>
    BY <1>5 DEF Recv, LeftOver, c
  <2>2. Reads(c, x) /\ Reads(c, y)
    <3>1. n \in Nat
      BY Sizes
    <3> QED
      BY <1>2, <2>1, <3>1, ReadFields
  <2> HIDE DEF x, y
  <2>3. CASE Pump(e, y, net[e], 0, {})
    BY <1>4, <2>1, <2>2, <2>3 DEF Reads, SenderAlike
  <2>4. CASE conn' = [conn EXCEPT ![e] = x] /\ UNCHANGED <<net, faults, overtook>>
    <3>1. other(e) \in Ends /\ other(e) # e /\ arrived[e] \in Nat
      BY OtherEnd, Typed
    <3>2. conn'[e] = x /\ conn'[other(e)] = conn[other(e)] /\ arrived'[e] >= arrived[e]
      BY <1>2, <2>1, <2>4, <3>1
    <3>3. sendable(x) = sendable(c) /\ in_flight(x) = in_flight(c)
      BY <2>2 DEF Reads, sendable, in_flight
    <3>4. Watched(x, partly[e]) /\ Closes(x, overtook[e], sent[e], A)
      BY <1>2, <2>2, <3>3 DEF Watched, Closes, Reads
    <3> QED
      BY <2>1, <2>4, <3>2, <3>4, ArmedEnds DEF A
  <2> QED
    BY <2>1, <2>3, <2>4
<1>6. ASSUME FindNothing(e) \/ LookForEnd(e)
      PROVE  Armed'
  BY <1>6 DEF FindNothing, LookForEnd, history, Armed
<1>7. ASSUME Shutdown(e) \/ Close(e)
      PROVE  Armed'
  <2> DEFINE x == [c EXCEPT !.closing = TRUE]
             z == [c EXCEPT !.closing = TRUE, !.state = IF @ = "SynSent" THEN "Closed" ELSE @]
  <2>1. /\ UNCHANGED <<sent, arrived, partly>>
        /\ \/ Pump(e, x, net[e], 0, {})
           \/ Pump(e, z, net[e], 0, {"Closed", "TimeWait"})
           \/ UNCHANGED <<conn, net, faults, overtook>>
    BY <1>7 DEF Shutdown, Close, c
  <2>2. ConnOK(x) /\ ConnOK(z)
    BY <1>2, CalledType
  <2>3. SenderAlike(c, x) /\ x.reset = c.reset /\ x.timer = c.timer
    BY <1>2 DEF SenderAlike, Connection
  <2>4. IF c.state = "SynSent" THEN z.state = "Closed" ELSE z = x
    BY <1>2 DEF Connection
  <2> HIDE DEF x, z
  <2>5. CASE Pump(e, z, net[e], 0, {"Closed", "TimeWait"}) /\ c.state = "SynSent"
    <3>1. z.state = "Closed"
      BY <2>4, <2>5
    <3>2. sent[e] = 0 /\ A = 0
      BY <1>1, <2>5 DEF Sender, Opening
    <3>3. Waits(z, partly[e]) /\ Closes(z, overtook[e], sent[e], A)
      BY <3>1, <3>2 DEF Waits, Closes, Open
    <3>4. z.state \notin Open /\ sent' = [sent EXCEPT ![e] = sent[e]]
      BY <1>2, <2>1, <3>1 DEF Open
    <3> QED
      BY <1>1, <2>1, <2>2, <2>5, <3>3, <3>4, CalledArmed DEF A
  <2>6. CASE UNCHANGED <<conn, net, faults, overtook>>
    BY <2>1, <2>6 DEF Armed
  <2> QED
    BY <1>4, <2>1, <2>2, <2>3, <2>4, <2>5, <2>6
<1>8. ASSUME Die(e)
      PROVE  Armed'
  <2>1. NoConnection.state = "none"
    BY NoneType
  <2> QED
    BY <1>8, <2>1, StoppedArmed DEF Die, Open, history
<1> QED
  BY <1>3, <1>5, <1>6, <1>7, <1>8 DEF Program

\* A segment that is handled: the last acknowledgement that told something new
\* decides whether what is left in flight is still watched.
LEMMA HandledArmed ==
  ASSUME TypeOK, TypeOK', Streams, Streams', Armed, NEW e \in Ends, exists(e),
         NEW s \in Segment, \E i \in 1 .. Len(net[e]) : s = net[e][i], NEW rest,
         NEW cost, NEW freed, NEW c, c = [conn[e] EXCEPT !.wnd = s.wnd],
         "RST" \notin s.flags, ~Refused(c, s),
         Pump(e, Handled(c, s), rest, cost, freed), UNCHANGED sent,
         arrived' = [arrived EXCEPT ![e] = @ + Len(Handled(c, s).recv) - Len(c.recv)],
         partly' = [partly EXCEPT ![e] = IF Handled(c, s).una = c.una THEN @
                                         ELSE in_flight(Handled(c, s)) > 0]
  PROVE  Armed'
<1> DEFINE k == conn[e]
           r == other(e)
           x == Handled(c, s)
           n == sent[e]
           A == arrived[r]
           p == IF x.una = c.una THEN partly[e] ELSE in_flight(x) > 0
<1>1. /\ ConnOK(c) /\ ConnOK(x) /\ Announced(c, k, s.wnd) /\ Sender(e, x, n, A)
      /\ x.state \in Open => A <= n
  BY HandledFacts
<1>2. n \in Nat /\ A \in Nat /\ n <= Bytes(e) /\ Sender(e, k, n, A)
  BY SenderFacts
<1>3. /\ r \in Ends /\ r # e /\ arrived \in [Ends -> Nat] /\ partly \in [Ends -> BOOLEAN]
      /\ Watched(k, partly[e]) /\ Closes(k, overtook[e], n, A) /\ Outward(e)
  BY OtherEnd, BothWays DEF TypeOK, Armed
<1>4. /\ partly'[e] = p /\ partly'[r] = partly[r] /\ arrived'[r] = arrived[r]
      /\ arrived'[e] = arrived[e] + Len(x.recv) - Len(c.recv) /\ arrived[e] \in Nat
  <2> HIDE DEF x
  <2> QED
    BY <1>3 DEF x
<1>5. arrived'[e] >= arrived[e]
  <2>1. Len(c.recv) \in Nat /\ Len(x.recv) \in Nat /\ Len(c.recv) <= Len(x.recv)
    BY <1>1, HandledGrows
  <2> DEFINE l == Len(c.recv)
             m == Len(x.recv)
  <2>2. arrived'[e] = arrived[e] + m - l /\ arrived[e] \in Nat /\ l \in Nat /\ m \in Nat /\ l <= m
    BY <1>4, <2>1
  <2>3. \A h, i, j \in Nat : i <= j => h + j - i >= h
    OBVIOUS
  <2> HIDE DEF l, m
  <2> QED
    BY <2>2, <2>3
<1>6. Closes(x, overtook[e], n, A)
  <2>1. SUFFICES ASSUME x.state = "Closed", ~x.reset, ~overtook[e]
                 PROVE  A = n
    BY DEF Closes
  <2>2. c.state \in {"Closed", "LastAck"} /\ x.reset = c.reset
    BY <1>1, <2>1, HandledCloses
  <2>3. k.state \in {"Closed", "LastAck"} /\ ~k.reset
    <3> HIDE DEF x, k
    <3> QED
      BY <1>1, <2>1, <2>2 DEF Announced
  <2>4. CASE k.state = "Closed"
    BY <1>3, <2>1, <2>3, <2>4 DEF Closes
  <2>5. CASE k.state = "LastAck"
    BY <1>3, <2>1, <2>5 DEF Outward, Direction, Closers
  <2> QED
    BY <2>3, <2>4, <2>5
<1>7. Waits(x, p)
  <2>1. /\ c.state = k.state /\ c.una = k.una /\ c.nxt = k.nxt /\ c.reset = k.reset
        /\ c.timer = k.timer /\ c.send = k.send /\ c.fin_sent = k.fin_sent
    BY <1>1 DEF Announced
  <2> HIDE DEF k
  <2>2. Waits(c, partly[e])
    BY <1>3, <2>1, SimilarWaits
  <2>3. Sender(e, c, n, A)
    BY <1>2, <2>1 DEF Sender
  <2> QED
    BY <1>1, <1>2, <2>2, <2>3, HandledWaits
<1>8. Pump(e, x, rest, cost, freed) /\ sent'[e] = n /\ sent'[r] = sent[r]
  OBVIOUS
<1> HIDE DEF x, p, n, A
<1>9. /\ Watched(conn'[e], p) /\ Closes(conn'[e], overtook'[e], n, A)
      /\ conn'[other(e)] = conn[other(e)] /\ overtook'[other(e)] = overtook[other(e)]
  BY <1>1, <1>2, <1>6, <1>7, <1>8, PumpArmed
<1> QED
  BY <1>4, <1>5, <1>8, <1>9, ArmedEnds DEF A

LEMMA ReceiveArmed ==
  ASSUME TypeOK, TypeOK', Streams, Streams', Armed, NEW e \in Ends,
         Receive(e) \/ ReceiveLater(e)
  PROVE  Armed'
<1>1. UNCHANGED sent
  BY DEF Receive, ReceiveLater
<1>2. PICK s \in Segment, rest \in Seq(Segment), cost \in {0, 1} :
        /\ Handle(e, s, rest, cost)
        /\ Fewer(rest, net[e]) /\ \E i \in 1 .. Len(net[e]) : s = net[e][i]
  BY Arrives
<1> DEFINE c == [conn[e] EXCEPT !.wnd = s.wnd]
           d == Handled(c, s)
           k == conn[e]
           last == [k EXCEPT !.reset = TRUE, !.state = "Closed"]
<1>3. CASE Pump(e, accept_syn(s), rest, cost, {}) /\ UNCHANGED <<arrived, partly>>
  <2> DEFINE x == accept_syn(s)
  <2>1. ConnOK(x) /\ x.state = "SynReceived"
    BY AcceptSynType
  <2> HIDE DEF x
  <2>2. /\ x.state \notin Open /\ Waits(x, partly[e])
        /\ Closes(x, overtook[e], sent[e], arrived[other(e)])
    BY <2>1 DEF Open, Waits, Closes
  <2>3. /\ sent[e] \in Nat /\ sent[e] <= Bytes(e) /\ sent' = [sent EXCEPT ![e] = sent[e]]
    BY <1>1, SenderFacts DEF TypeOK
  <2> QED
    BY <1>3, <2>1, <2>2, <2>3, CalledArmed DEF x
<1>4. CASE /\ conn' = [conn EXCEPT ![e] = NoConnection]
           /\ UNCHANGED <<arrived, overtook, partly>>
  <2>1. NoConnection.state = "none"
    BY NoneType
  <2> QED
    BY <1>1, <1>4, <2>1, StoppedArmed DEF Open
<1>5. CASE /\ conn' = [conn EXCEPT ![e].reset = TRUE, ![e].state = "Closed"]
           /\ UNCHANGED <<arrived, overtook, partly>>
  <2>1. k \in Connection /\ conn \in [Ends -> Connection]
    BY Typed DEF TypeOK
  <2>2. conn' = [conn EXCEPT ![e] = last]
    BY <1>5, <2>1
  <2>3. last.state = "Closed" /\ last.reset
    <3> HIDE DEF k
    <3> QED
      BY <2>1 DEF Connection
  <2> HIDE DEF last
  <2> QED
    BY <1>1, <1>5, <2>2, <2>3, StoppedArmed DEF Open
<1>6. CASE /\ exists(e) /\ "RST" \notin s.flags /\ ~Refused(c, s)
           /\ arrived' = [arrived EXCEPT ![e] = @ + Len(d.recv) - Len(c.recv)]
           /\ partly' = [partly EXCEPT ![e] = IF d.una = c.una THEN @ ELSE in_flight(d) > 0]
           /\ Pump(e, d, rest, cost, IF e = Server THEN {"Closed"} ELSE {})
  <2> DEFINE freed == IF e = Server THEN {"Closed"} ELSE {}
  <2>1. /\ exists(e) /\ "RST" \notin s.flags /\ ~Refused(c, s)
        /\ arrived' = [arrived EXCEPT ![e] = @ + Len(Handled(c, s).recv) - Len(c.recv)]
        /\ partly' = [partly EXCEPT ![e] = IF Handled(c, s).una = c.una THEN @
                                           ELSE in_flight(Handled(c, s)) > 0]
        /\ Pump(e, Handled(c, s), rest, cost, freed)
    BY <1>6
  <2>2. c = [conn[e] EXCEPT !.wnd = s.wnd]
    OBVIOUS
  <2> HIDE DEF c, d, freed
  <2> QED
    BY <1>1, <1>2, <2>1, <2>2, HandledArmed
<1> QED
  BY <1>2, <1>3, <1>4, <1>5, <1>6 DEF Handle

LEMMA TickArmed ==
  ASSUME TypeOK, TypeOK', Streams, Streams', Armed, NEW e \in Ends, Tick(e)
  PROVE  Armed'
<1> DEFINE c    == conn[e]
           cost == IF \A o \in Ends : net[o] = <<>> THEN 0 ELSE 1
           idle == [c EXCEPT !.timer = FALSE, !.retries = 0]
           x    == Rewound(c)
           last == [c EXCEPT !.reset = TRUE, !.state = "Closed"]
           n    == sent[e]
           A    == arrived[other(e)]
<1>1. /\ UNCHANGED <<sent, arrived, partly>>
      /\ \/ in_flight(c) = 0 /\ Pump(e, idle, net[e], cost, {})
         \/ /\ conn' = [conn EXCEPT ![e].reset = TRUE, ![e].state = "Closed"]
            /\ UNCHANGED overtook
         \/ ~GaveUp(c) /\ Pump(e, x, net[e], cost, {})
  BY DEF Tick
<1>2. /\ c \in Connection /\ ConnOK(c) /\ conn \in [Ends -> Connection] /\ c.una \in Number
      /\ Watched(c, partly[e]) /\ Closes(c, overtook[e], n, A) /\ sent \in [Ends -> Nat]
  BY Typed, Fields DEF TypeOK, Armed
<1>3. /\ n \in Nat /\ A \in Nat /\ n <= Bytes(e) /\ Sender(e, c, n, A)
      /\ (c.state \in Open => A <= n)
  BY SenderFacts
<1>4. sent' = [sent EXCEPT ![e] = n]
  BY <1>1, <1>2
<1> HIDE DEF c, cost, n, A
<1>5. CASE in_flight(c) = 0 /\ Pump(e, idle, net[e], cost, {})
  <2>1. ConnOK(idle)
    BY <1>2, CalledType
  <2>2. /\ idle.state = c.state /\ idle.una = c.una /\ idle.nxt = c.nxt /\ idle.send = c.send
        /\ idle.fin_sent = c.fin_sent /\ idle.reset = c.reset
    BY <1>2 DEF Connection
  <2> HIDE DEF idle
  <2>3. in_flight(idle) = 0
    BY <1>5, <2>2 DEF in_flight
  <2>4. Waits(idle, partly[e]) /\ Closes(idle, overtook[e], n, A)
    BY <1>2, <2>2, <2>3 DEF Waits, Closes
  <2>5. idle.state \in Open => A <= n /\ Sender(e, idle, n, A)
    BY <1>3, <2>2 DEF Sender
  <2> QED
    BY <1>1, <1>3, <1>4, <1>5, <2>1, <2>4, <2>5, CalledArmed DEF A
<1>6. CASE /\ conn' = [conn EXCEPT ![e].reset = TRUE, ![e].state = "Closed"]
           /\ UNCHANGED overtook
  <2>1. conn' = [conn EXCEPT ![e] = last]
    BY <1>2, <1>6 DEF c
  <2>2. last.state = "Closed" /\ last.reset
    BY <1>2 DEF Connection
  <2> HIDE DEF last
  <2> QED
    BY <1>1, <1>6, <2>1, <2>2, StoppedArmed DEF Open
<1>7. CASE ~GaveUp(c) /\ Pump(e, x, net[e], cost, {})
  <2>1. ConnOK(x)
    BY <1>2, <1>7, CalledType
  <2>2. /\ x.state = c.state /\ x.una = c.una /\ x.nxt = c.una /\ x.send = c.send
        /\ x.fin_sent = FALSE /\ x.reset = c.reset
    BY <1>2 DEF Rewound, Connection
  <2> HIDE DEF x
  <2>3. ~(in_flight(x) > 0)
    <3>1. in_flight(x) = 0
      BY <1>2, <2>2, NextNumber DEF in_flight
    <3> QED
      BY <3>1
  <2>4. Waits(x, partly[e]) /\ Closes(x, overtook[e], n, A)
    BY <1>2, <2>2, <2>3 DEF Waits, Closes
  <2>5. ASSUME x.state \in Open
        PROVE  A <= n /\ Sender(e, x, n, A)
    <3>1. PICK u \in 1 .. A + 1 : c.una = Num(e, u) /\ Len(c.send) = n - u + 1
                                  /\ Stretch(c.send, u)
      BY <1>3, <2>2, <2>5 DEF Sender
    <3>2. u \in 1 .. n + 1 /\ A <= n
      BY <1>3, <2>2, <2>5, <3>1
    <3>3. x.state \notin Opening
      BY <2>5 DEF Opening, Open
    <3> QED
      BY <2>2, <3>1, <3>2, <3>3 DEF Sender, Opening
  <2> QED
    BY <1>1, <1>3, <1>4, <1>7, <2>1, <2>4, <2>5, CalledArmed DEF A
<1> QED
  BY <1>1, <1>5, <1>6, <1>7

LEMMA ConnectArmed ==
  ASSUME TypeOK, TypeOK', Streams, Streams', Armed, Connect
  PROVE  Armed'
<1> DEFINE c == [NewConnection("SynSent") EXCEPT !.una = ClientIss, !.nxt = ClientIss]
<1>1. ConnOK(c) /\ c.state = "SynSent"
  BY ConnectType
<1>2. /\ Client \in Ends /\ Pump(Client, c, net[Client], 0, {})
      /\ UNCHANGED <<sent, arrived, partly>>
  BY DEF Connect, Ends
<1> HIDE DEF c
<1>3. /\ c.state \notin Open /\ Waits(c, partly[Client])
      /\ Closes(c, overtook[Client], sent[Client], arrived[other(Client)])
  BY <1>1 DEF Open, Waits, Closes
<1>4. /\ sent[Client] \in Nat /\ sent[Client] <= Bytes(Client)
      /\ sent' = [sent EXCEPT ![Client] = sent[Client]]
  BY <1>2, SenderFacts DEF TypeOK
<1> QED
  BY <1>1, <1>2, <1>3, <1>4, CalledArmed

\* The timer watches whatever the network and the programs do.
LEMMA ArmedInduction ==
  ASSUME TypeOK, TypeOK', Streams, Streams', Armed, [Next]_vars
  PROVE  Armed'
<1>1. CASE Connect
  BY <1>1, ConnectArmed
<1>2. CASE Accept \/ UNCHANGED vars
  BY <1>2 DEF Accept, vars, machine, history, Armed
<1>3. ASSUME NEW e \in Ends, Program(e)
      PROVE  Armed'
  BY <1>3, ProgramArmed
<1>4. ASSUME NEW e \in Ends, Network(e)
      PROVE  Armed'
  <2>1. CASE Receive(e) \/ ReceiveLater(e)
    BY <2>1, ReceiveArmed
  <2>2. CASE Tick(e)
    BY <2>2, TickArmed
  <2>3. CASE Lose(e)
    BY <2>3 DEF Lose, history, Armed
  <2>4. CASE Expire(e)
    <3>1. NoConnection.state = "none"
      BY NoneType
    <3> QED
      BY <2>4, <3>1, StoppedArmed DEF Expire, Open, history
  <2> QED
    BY <1>4, <2>1, <2>2, <2>3, <2>4 DEF Network
<1> QED
  BY <1>1, <1>2, <1>3, <1>4 DEF Next

------------------------------------------------------------------------------
(***************************************************************************)
(* The invariant, and what it says of a connection at rest.                *)
(***************************************************************************)

\* Before the client connects nothing happens at all.
LEMMA OrderInduction ==
  ASSUME TypeOK, Streams, Order, [Next]_vars
  PROVE  Order'
<1>1. SUFFICES ASSUME ~born'[Client]
               PROVE  ~born'[Server] /\ \A e \in Ends : net'[e] = <<>>
  BY DEF Order
<1>2. Client \in Ends /\ Server \in Ends /\ Client # Server /\ born \in [Ends -> BOOLEAN]
  BY Sizes DEF Ends, TypeOK
<1>3. CASE ~born[Client]
  <2>1. /\ ~born[Server]
        /\ \A e \in Ends : net[e] = <<>> /\ conn[e].state = "none" /\ ~exists(e)
    BY <1>2, <1>3 DEF Order, Streams, Unborn, Ends, exists
  <2>2. ~Connect
    BY <1>1, <1>2 DEF Connect
  <2>3. ASSUME NEW e \in Ends, Program(e)
        PROVE  UNCHANGED <<net, born>>
    BY <2>1, <2>3
    DEF Program, Send, Recv, FindNothing, LookForEnd, Shutdown, Close, Die, Open
  <2>4. ASSUME NEW e \in Ends
        PROVE  ~Network(e)
    <3>1. net[e] = <<>>
      BY <2>1
    <3>2. 2 .. Len(net[e]) = {}
      <4>1. Len(<<>>) = 0 /\ 2 .. 0 = {}
        OBVIOUS
      <4> QED
        BY <3>1, <4>1
    <3> QED
      BY <2>1, <3>1, <3>2 DEF Network, Receive, ReceiveLater, Lose, Tick, Expire
  <2>5. UNCHANGED <<net, born>>
    BY <2>2, <2>3, <2>4 DEF Next, Accept, vars, machine
  <2> QED
    BY <2>1, <2>5
<1>4. CASE born[Client]
  <2>1. born' = born \/ \E o \in Ends : born' = [born EXCEPT ![o] = TRUE]
    <3>1. CASE Connect
      BY <1>2, <3>1 DEF Connect
    <3>2. CASE Accept \/ UNCHANGED vars
      BY <3>2 DEF Accept, vars, machine
    <3>3. ASSUME NEW e \in Ends, Program(e)
          PROVE  born' = born
      BY <3>3 DEF Program, Send, Recv, FindNothing, LookForEnd, Shutdown, Close, Die
    <3>4. ASSUME NEW e \in Ends, Receive(e) \/ ReceiveLater(e)
          PROVE  (born' = born) \/ born' = [born EXCEPT ![Server] = TRUE]
      <4>1. PICK s, rest, cost : Handle(e, s, rest, cost)
        BY <3>4 DEF Receive, ReceiveLater
      <4> QED
        BY <4>1 DEF Handle
    <3>5. ASSUME NEW e \in Ends, Lose(e) \/ Tick(e) \/ Expire(e)
          PROVE  born' = born
      BY <3>5 DEF Lose, Tick, Expire
    <3> QED
      BY <1>2, <3>1, <3>2, <3>3, <3>4, <3>5 DEF Next, Network
  <2> QED
    BY <1>1, <1>2, <1>4, <2>1
<1> QED
  BY <1>3, <1>4

\* While nothing has gone wrong both directions are known exactly, and whatever
\* has gone wrong, the timer watches what is in flight and what may leave, unless
\* the last acknowledgement stopped it (acknowledge, tcp_pump and tcp_tick).
THEOREM RestInvariant == Spec => []RestInv
<1>1. Init => RestInv
  <2>1. ASSUME Init
        PROVE  RestInv
    <3>1. \A e \in Ends : /\ conn[e] = NoConnection /\ net[e] = <<>> /\ ~born[e]
      BY <2>1 DEF Init
    <3>2. Client \in Ends /\ Server \in Ends
      BY DEF Ends
    <3>3. NoConnection.state = "none"
      BY NoneType
    <3>4. Order /\ Handshake
      BY <3>1, <3>2 DEF Order, Handshake
    <3>5. Armed
      BY <3>1, <3>3 DEF Armed, Watched, Closes, Open
    <3> QED
      BY <3>4, <3>5 DEF RestInv
  <2> QED
    BY <2>1
<1>2. IInv /\ RestInv /\ [Next]_vars => RestInv'
  <2>1. SUFFICES ASSUME IInv, RestInv, [Next]_vars
                 PROVE  RestInv'
    OBVIOUS
  <2>2. TypeOK /\ TypeOK' /\ Streams /\ Streams'
    BY <2>1, StreamInduction DEF IInv
  <2>3. Order'
    BY <2>1, <2>2, OrderInduction DEF RestInv
  <2>4. Armed'
    BY <2>1, <2>2, ArmedInduction DEF RestInv
  <2>5. Whole' => Handshake'
    BY <2>1, <2>2, WholeInduction DEF RestInv
  <2> QED
    BY <2>3, <2>4, <2>5 DEF RestInv
<1> QED
  BY <1>1, <1>2, StreamInvariant, PTL DEF Spec

\* An end that may leave nothing has nothing left.
LEMMA NothingMayLeave ==
  ASSUME NEW c, c.state \in Open, ~c.reset, ~c.timer, c.wnd \in Nat, c.send \in Seq(Byte),
         in_flight(c) \in Nat, ~(in_flight(c) > 0), c.wnd > 0, NEW part, Watched(c, part)
  PROVE  c.send = <<>>
<1>1. sendable(c) = 0 /\ in_flight(c) = 0
  BY DEF Watched
<1> DEFINE l == Len(c.send)
<1>2. l \in Nat
  OBVIOUS
<1>3. sendable(c) = Smaller(NotBelow0(l - 0), NotBelow0(c.wnd - 0))
  BY <1>1 DEF sendable
<1> HIDE DEF l
<1>4. l = 0
  BY <1>1, <1>2, <1>3 DEF Smaller, NotBelow0
<1> QED
  BY <1>4, EmptySeq DEF l

\* An end at rest that may still send has had everything acknowledged.
LEMMA RestedOpen ==
  ASSUME TypeOK, Streams, RestInv, Quiet, ~GivenUp, NEW e \in Ends,
         conn[e].state \in Open, ~conn[e].reset,
         faults > 0 => ~partly[e] /\ conn[e].wnd # 0
  PROVE  conn[e].send = <<>>
<1> DEFINE c == conn[e]
           d == conn[other(e)]
<1>1. /\ ConnOK(c) /\ c.wnd \in Nat /\ c.send \in Seq(Byte) /\ in_flight(c) \in Nat
      /\ c.una \in Number /\ c.nxt \in Number /\ faults \in Nat
      /\ other(e) \in Ends /\ other(other(e)) = e
  <2>1. ConnOK(c) /\ c \in Connection
    BY Typed
  <2>2. other(e) \in Ends /\ other(other(e)) = e
    BY OtherEnd
  <2>3. faults \in Nat
    BY Sizes DEF TypeOK
  <2> HIDE DEF c
  <2>4. c.wnd \in Nat /\ c.send \in Seq(Byte) /\ c.una \in Number /\ c.nxt \in Number
    BY <2>1, Fields, Sizes
  <2>5. in_flight(c) \in Nat
    BY <2>1, InFlightType, Sizes DEF Number
  <2> QED
    BY <2>1, <2>2, <2>3, <2>4, <2>5
<1>2. Watched(c, partly[e]) /\ ~c.timer /\ d.recv = <<>> /\ \A o \in Ends : net[o] = <<>>
  BY <1>1 DEF RestInv, Armed, Quiet
<1>3. CASE faults > 0
  <2>1. ~(in_flight(c) > 0) /\ c.wnd > 0
    BY <1>1, <1>2, <1>3 DEF Watched
  <2> HIDE DEF c
  <2> QED
    BY <1>1, <1>2, <2>1, NothingMayLeave DEF c
<1>4. CASE ~(faults > 0)
  <2>1. Whole
    <3>1. faults = 0
      BY <1>1, <1>4
    <3>2. \A o \in Ends : born[o] => exists(o)
      BY Zenon DEF GivenUp
    <3> QED
      BY <3>1, <3>2 DEF Whole
  <2>2. exists(e)
    BY DEF exists, Open
  <2>3. Flowing
    <3>1. Asking \/ Answering \/ Flowing
      BY <2>1, <2>2, Parties DEF RestInv
    <3>2. Client \in Ends /\ Server \in Ends
      BY DEF Ends
    <3>3. Len(net[Client]) = 0 /\ Len(net[Server]) = 0
      BY <1>2, <3>2
    <3> QED
      BY <3>1, <3>3 DEF Asking, Answering
  <2>4. c.nxt = c.una
    BY <1>2, <2>3, AtRest
  <2>5. Part(e, c, d, <<>>, <<>>, FALSE)
    BY <1>1, <1>2, <2>3, FlowingEnds
  <2> HIDE DEF c, d
  <2>6. Settled(e, c, d, <<>>)
    <3>1. c.state \in Open
      BY DEF c
    <3> QED
      BY <2>5, <3>1 DEF Part, Flow
  <2>7. c.wnd < Threshold => window(d) < Threshold
    <3>1. Len(<<>>) = 0
      OBVIOUS
    <3> QED
      BY <2>6, <3>1 DEF Settled, Wnd
  <2>8. window(d) = RECEIVE_BUFFER
    <3>1. Len(<<>>) = 0 /\ RECEIVE_BUFFER \in Nat
      BY Sizes
    <3> QED
      BY <1>2, <3>1 DEF window
  <2>9. Threshold \in Nat \ {0} /\ Threshold < RECEIVE_BUFFER
    <3>1. RECEIVE_BUFFER \in Nat /\ RECEIVE_BUFFER >= 2 /\ MSS \in Nat \ {0}
      BY TcpAssumption
    <3>2. RECEIVE_BUFFER \div 2 \in Nat \ {0} /\ RECEIVE_BUFFER \div 2 < RECEIVE_BUFFER
      BY <3>1
    <3> QED
      BY <3>1, <3>2 DEF Threshold, Smaller
  <2>10. c.wnd > 0
    <3>1. RECEIVE_BUFFER \in Nat
      BY Sizes
    <3>2. ~(c.wnd < Threshold)
      BY <2>7, <2>8, <2>9, <3>1
    <3> QED
      BY <1>1, <2>9, <3>2
  <2>11. ~(in_flight(c) > 0)
    BY <1>1, <2>4, NextNumber DEF in_flight
  <2> QED
    BY <1>1, <1>2, <2>10, <2>11, NothingMayLeave DEF c
<1> QED
  BY <1>3, <1>4

\* When everything has come to rest, every byte that was written has been read,
\* unless the writer knows better, a FIN overtook it, or a fault left the sender
\* without its timer or with a closed window (tcp_pump, acknowledge, tcp_tick,
\* and the announcements of stream_recv).
THEOREM NothingStaysBehind == Spec => []NothingStalls
<1>1. ASSUME IInv, RestInv
      PROVE  NothingStalls
  <2>1. SUFFICES ASSUME NEW e \in Ends, Quiet, ~Told(e), ~GivenUp, ~overtook[e],
                        faults > 0 => ~partly[e] /\ conn[e].wnd # 0
                 PROVE  Delivered(e)
    BY DEF NothingStalls
  <2> DEFINE r == other(e)
             c == conn[e]
             d == conn[r]
             n == sent[e]
             A == arrived[r]
  <2>2. /\ TypeOK /\ Streams /\ r \in Ends /\ c.state \in States /\ c.state # "none" /\ ~c.reset
        /\ n \in Nat /\ A \in Nat /\ got[r] \in Seq(Byte) /\ c.send \in Seq(Byte)
    BY <1>1, <2>1, Typed, OtherEnd, Fields DEF IInv, Told, exists
  <2>3. /\ Receiver(e, d, got[r], n, A) /\ Sender(e, c, n, A)
        /\ c.state \in Closers => A = n
    BY <2>1, <2>2, BothWays DEF Outward, Direction
  <2>4. d.recv = <<>> /\ Closes(c, overtook[e], n, A)
    BY <1>1, <2>1, <2>2 DEF Quiet, RestInv, Armed
  <2>5. A <= n
    BY <2>3 DEF Receiver
  <2>6. A = n
    <3>1. CASE c.state \in Opening
      BY <2>3, <3>1 DEF Sender
    <3>2. CASE c.state \in Open
      <4>1. c.send = <<>>
        BY <1>1, <2>1, <2>2, <3>2, RestedOpen
      <4>2. PICK u \in 1 .. A + 1 : Len(c.send) = n - u + 1
        BY <2>3, <3>2 DEF Sender
      <4>3. n - u + 1 = 0
        BY <4>1, <4>2
      <4> HIDE DEF n, A
      <4> QED
        BY <2>2, <2>5, <4>2, <4>3
    <3>3. CASE c.state \in Closers
      BY <2>3, <3>3
    <3>4. CASE c.state = "Closed"
      BY <2>1, <2>2, <2>4, <3>4 DEF Closes
    <3> HIDE DEF c
    <3> QED
      BY <2>2, <3>1, <3>2, <3>3, <3>4 DEF States, Opening, Open, Closers
  <2>7. Len(got[r]) = A
    <3>1. Amount(got[r], d.recv) = Len(got[r]) /\ Len(got[r]) \in Nat
      <4>1. got[r] \o <<>> = got[r] /\ Len(got[r]) \in Nat
        BY <2>2
      <4> QED
        BY <2>4, <4>1 DEF Amount
    <3>2. CASE exists(r)
      BY <2>3, <3>1, <3>2 DEF Receiver, exists
    <3>3. CASE ~exists(r)
      <4>1. ~born[r]
        BY <2>1, <2>2, <3>3 DEF GivenUp
      <4>2. A = 0
        BY <2>2, <4>1 DEF Streams, Unborn
      <4>3. Amount(got[r], d.recv) <= A
        BY <2>3 DEF Receiver
      <4> QED
        BY <3>1, <4>2, <4>3
    <3> QED
      BY <3>2, <3>3
  <2> QED
    BY <2>6, <2>7 DEF Delivered
<1> QED
  BY <1>1, StreamInvariant, RestInvariant, PTL
==============================================================================
