-------------------------------- MODULE Tcp ----------------------------------
(***************************************************************************)
(* One TCP connection between two machines that run this kernel            *)
(* (crates/kernel/src/net/stream.rs and the TCP half of net/mod.rs).       *)
(*                                                                         *)
(* Every call of a program, every segment that arrives and every timer     *)
(* works under the lock of the interface, so each is one step, tcp_pump    *)
(* included: whatever a call makes the connection owe leaves in that step. *)
(* The network hands segments over in order unless a fault is spent on     *)
(* losing one, doubling one or letting a later one overtake; a fault is    *)
(* also what makes the neighbour's ARP entry expire before a segment       *)
(* leaves.  Timers are only armed or not: an armed one may fire at any     *)
(* moment, before or after the answer that would have cancelled it.        *)
(*                                                                         *)
(* The bytes of a program are numbered 1, 2, ... so that a byte lost,      *)
(* doubled or out of place shows.                                          *)
(***************************************************************************)
EXTENDS Integers, Sequences, FiniteSets

CONSTANTS
  Client, Server,  \* the end that connects and the end that listens
  SEQ,             \* sequence numbers are taken modulo SEQ
  ClientIss, ServerIss, \* initial_sequence of either end
  MSS,             \* bytes in a segment, of both ends
  RECEIVE_BUFFER,
  SEND_BUFFER,
  MAX_RETRIES,
  ClientBytes, ServerBytes, \* bound: bytes a program writes
  MaxFaults        \* bound: what goes wrong on the way, and programs that die

Ends == {Client, Server}

ASSUME TcpAssumption ==
  /\ Client # Server
  /\ SEQ \in Nat /\ MSS \in Nat \ {0} /\ MAX_RETRIES \in Nat \ {0}
  /\ RECEIVE_BUFFER \in Nat /\ RECEIVE_BUFFER >= MSS /\ RECEIVE_BUFFER >= 2
  /\ SEND_BUFFER \in Nat \ {0}
  /\ ClientBytes \in Nat /\ ServerBytes \in Nat
  /\ 2 * (ClientBytes + 2) < SEQ /\ 2 * (ServerBytes + 2) < SEQ
  /\ ClientIss \in 0 .. SEQ - 1 /\ ServerIss \in 0 .. SEQ - 1
  /\ MaxFaults \in Nat

VARIABLES
  conn,     \* the slot of either end: a Connection, or state "none"
  net,      \* the segments on the way to an end
  using,    \* the program holds the descriptor
  looked,   \* Sock::read has found nothing and not yet asked for the end
  backlog,  \* the listener's backlog names the connection
  born,     \* the end has had its connection; the server has no other free slot
  faults,   \* faults spent
  sent,     \* history: bytes the program of an end has handed over
  got,      \* history: bytes the program of an end has read
  arrived,  \* history: how many bytes an end has accepted
  ended,    \* history: the program has read the end of the stream
  overtook, \* history: the FIN left while bytes were still to be sent
  partly    \* history: the last acknowledgement left something in flight

machine == <<conn, net, using, looked, backlog, born, faults>>
history == <<sent, got, arrived, ended, overtook, partly>>
vars    == <<machine, history>>

other(e) == IF e = Client THEN Server ELSE Client
Bytes(e) == IF e = Client THEN ClientBytes ELSE ServerBytes

Smaller(a, b) == IF a < b THEN a ELSE b
NotBelow0(a)  == IF a < 0 THEN 0 ELSE a

---------------------------------------------------------------------------
(* Sequence numbers and segments (net/tcp.rs).                             *)

Plus(a, n)   == (a + n) % SEQ
Minus(a, b)  == (a - b) % SEQ
before(a, b) == Minus(a, b) >= SEQ \div 2
Differs(a, b) == a # b
after(a, b)  == before(b, a)

Flags == {"SYN", "ACK", "FIN", "RST"}

segment(flags, seq, ack, wnd, data) ==
  [flags |-> flags, seq |-> seq, ack |-> ack, wnd |-> wnd, data |-> data]

span(s) == Len(s.data) + (IF "SYN" \in s.flags THEN 1 ELSE 0)
                       + (IF "FIN" \in s.flags THEN 1 ELSE 0)

---------------------------------------------------------------------------
(* Connections.                                                            *)

States == {"none", "Closed", "SynSent", "SynReceived", "Established", "FinWait1",
           "FinWait2", "Closing", "TimeWait", "CloseWait", "LastAck"}
Open   == {"Established", "CloseWait"}
Closers == {"FinWait1", "FinWait2", "Closing", "LastAck", "TimeWait"}

NewConnection(state) ==
  [state |-> state, una |-> 0, nxt |-> 0, wnd |-> 0, rcv_nxt |-> 0,
   send |-> <<>>, recv |-> <<>>, timer |-> FALSE, retries |-> 0,
   need_ack |-> FALSE, closing |-> FALSE, fin_sent |-> FALSE,
   peer_closed |-> FALSE, reset |-> FALSE]

NoConnection == NewConnection("none")
exists(e) == conn[e].state # "none"

window(c)    == RECEIVE_BUFFER - Len(c.recv)
in_flight(c) == Minus(c.nxt, c.una)

\* What may leave now, over as many segments as it takes.
sendable(c) ==
  IF c.state \notin Open THEN 0
  ELSE Smaller(NotBelow0(Len(c.send) - in_flight(c)), NotBelow0(c.wnd - in_flight(c)))

AckedBytes(c, ack) ==
  LET acked == Minus(ack, c.una)
  IN IF c.fin_sent /\ ack = c.nxt THEN acked - 1 ELSE acked

acknowledge(c, ack) ==
  IF ~after(ack, c.una) THEN c
  ELSE [c EXCEPT !.send = SubSeq(@, Smaller(AckedBytes(c, ack), Len(@)) + 1, Len(@)),
                 !.una = ack, !.retries = 0, !.timer = FALSE]

NotOld(c, seq)  == ~before(seq, c.rcv_nxt)
InOrder(c, seq) == seq = c.rcv_nxt

Everything(c, data) == Len(data)
Fitting(c, data)    == Smaller(Len(data), window(c))

accept_data(c, seq, data) ==
  IF data = <<>> THEN c
  ELSE IF ~InOrder(c, seq) THEN [c EXCEPT !.need_ack = TRUE]
  ELSE LET taken == Fitting(c, data)
       IN [c EXCEPT !.recv = @ \o SubSeq(data, 1, taken),
                    !.rcv_nxt = Plus(@, taken), !.need_ack = TRUE]

NoTimer(c) == c
arm(c) == [c EXCEPT !.timer = @ \/ in_flight(c) > 0]

---------------------------------------------------------------------------
(* tcp_pump: what the connection owes leaves as the SYN, as data, as the   *)
(* FIN or as a bare acknowledgement.  A turn that sent data or the FIN is  *)
(* followed by one that has nothing more to send.                          *)

AnyMoment(c)       == TRUE
NothingInFlight(c) == in_flight(c) = 0

Sends(c) == IF c.reset THEN "nothing"
            ELSE IF c.state \in {"SynSent", "SynReceived"}
                 THEN IF c.nxt = c.una THEN "SYN" ELSE "nothing"
            ELSE IF c.state \notin Open \cup Closers THEN "nothing"
            ELSE IF sendable(c) > 0 THEN "data"
            ELSE IF c.closing /\ ~c.fin_sent /\ NothingInFlight(c) THEN "FIN"
            ELSE IF c.need_ack THEN "ACK" ELSE "nothing"

\* The bytes from snd_nxt on, cut into segments of at most MSS.
Chunks(c) ==
  LET size  == sendable(c)
      from  == in_flight(c)
      Chunk(i) == SubSeq(c.send, from + i * MSS + 1, from + Smaller((i + 1) * MSS, size))
  IN [i \in 1 .. (size + MSS - 1) \div MSS |->
        segment({"ACK"}, Plus(c.nxt, (i - 1) * MSS), c.rcv_nxt, window(c), Chunk(i - 1))]

Segments(c) ==
  LET what        == Sends(c)
      Bare(flags) == <<segment(flags, c.nxt, c.rcv_nxt, window(c), <<>>)>>
  IN CASE what = "SYN"  -> Bare(IF c.state = "SynSent" THEN {"SYN"} ELSE {"SYN", "ACK"})
       [] what = "data" -> Chunks(c)
       [] what = "FIN"  -> Bare({"ACK", "FIN"})
       [] what = "ACK"  -> Bare({"ACK"})
       [] OTHER         -> <<>>

AfterFin(state) == CASE state = "CloseWait"   -> "LastAck"
                     [] state = "Established" -> "FinWait1"
                     [] OTHER                 -> state

Sent(c) ==
  LET what == Sends(c)
  IN CASE what = "SYN"  -> arm([c EXCEPT !.nxt = Plus(@, 1), !.need_ack = FALSE])
       [] what = "data" -> arm([c EXCEPT !.nxt = Plus(@, sendable(c)), !.need_ack = FALSE])
       [] what = "FIN"  -> arm([c EXCEPT !.nxt = Plus(@, 1), !.need_ack = FALSE,
                                         !.fin_sent = TRUE, !.state = AfterFin(@)])
       [] what = "ACK"  -> [c EXCEPT !.need_ack = FALSE]
       [] OTHER         -> c

\* send_ipv4 answered Pending: nothing left, the timer comes back to it.
Unsent(c) == [c EXCEPT !.timer = TRUE]

Overtakes(c) == Sends(c) = "FIN" /\ c.state \in Open /\ Len(c.send) > in_flight(c)

\* The connection of e becomes c and is pumped; rest is what is left on the
\* way to e, cost the faults spent so far, and a slot that ends up in one of
\* the states freed is given back.
Freed(c, states) == IF c.state \in states THEN NoConnection ELSE c

Pump(e, c, rest, cost, freed) ==
  \/ /\ conn' = [conn EXCEPT ![e] = Freed(Sent(c), freed)]
     /\ net' = [net EXCEPT ![e] = rest, ![other(e)] = @ \o Segments(c)]
     /\ overtook' = [overtook EXCEPT ![e] = @ \/ Overtakes(c)]
     /\ faults' = faults + cost
  \/ /\ Sends(c) # "nothing" /\ faults + cost < MaxFaults
     /\ conn' = [conn EXCEPT ![e] = Freed(Unsent(c), freed)]
     /\ net' = [net EXCEPT ![e] = rest]
     /\ faults' = faults + cost + 1
     /\ UNCHANGED overtook

---------------------------------------------------------------------------
(* What programs do.                                                       *)

Init ==
  /\ conn = [e \in Ends |-> NoConnection]
  /\ net = [e \in Ends |-> <<>>]
  /\ using = [e \in Ends |-> FALSE]
  /\ looked = [e \in Ends |-> FALSE]
  /\ backlog = FALSE
  /\ born = [e \in Ends |-> FALSE]
  /\ faults = 0
  /\ sent = [e \in Ends |-> 0]
  /\ got = [e \in Ends |-> <<>>]
  /\ arrived = [e \in Ends |-> 0]
  /\ ended = [e \in Ends |-> FALSE]
  /\ overtook = [e \in Ends |-> FALSE]
  /\ partly = [e \in Ends |-> FALSE]

\* stream_open and stream_connect.
Connect ==
  /\ ~born[Client]
  /\ born' = [born EXCEPT ![Client] = TRUE]
  /\ using' = [using EXCEPT ![Client] = TRUE]
  /\ Pump(Client, [NewConnection("SynSent") EXCEPT !.una = ClientIss, !.nxt = ClientIss],
          net[Client], 0, {})
  /\ UNCHANGED <<backlog, looked, sent, got, arrived, ended, partly>>

\* stream_accept; the listening program keeps trying.
Accept ==
  /\ backlog
  /\ backlog' = FALSE
  /\ using' = [using EXCEPT ![Server] = TRUE]
  /\ UNCHANGED <<conn, net, born, faults, looked, history>>

\* stream_send of n bytes: as many as there is room for.
Send(e, n) ==
  /\ using[e] /\ conn[e].state \in Open
  /\ ~conn[e].reset /\ ~conn[e].closing
  /\ sent[e] + n <= Bytes(e)
  /\ LET c     == conn[e]
         taken == Smaller(n, SEND_BUFFER - Len(c.send))
     IN /\ taken > 0
        /\ sent' = [sent EXCEPT ![e] = @ + taken]
        /\ Pump(e, [c EXCEPT !.send = @ \o [k \in 1 .. taken |-> sent[e] + k]], net[e], 0, {})
  /\ UNCHANGED <<using, looked, backlog, born, got, arrived, ended, partly>>

\* The window is announced again when the read has opened it this far.
Threshold == Smaller(MSS, RECEIVE_BUFFER \div 2)
OpensWindow(c, d) == window(c) < Threshold /\ window(d) >= Threshold

\* stream_recv of up to n bytes, as Sock::read calls it: bytes, or another
\* look to see whether nothing means the end.
Recv(e, n) ==
  /\ using[e] /\ exists(e) /\ ~looked[e]
  /\ conn[e].recv # <<>>
  /\ LET c     == conn[e]
         taken == Smaller(n, Len(c.recv))
         d     == [c EXCEPT !.recv = SubSeq(@, taken + 1, Len(@))]
     IN /\ got' = [got EXCEPT ![e] = @ \o SubSeq(c.recv, 1, taken)]
        /\ \/ /\ OpensWindow(c, d)
              /\ Pump(e, [d EXCEPT !.need_ack = TRUE], net[e], 0, {})
           \/ /\ ~OpensWindow(c, d)
              /\ conn' = [conn EXCEPT ![e] = d]
              /\ UNCHANGED <<net, faults, overtook>>
  /\ UNCHANGED <<using, looked, backlog, born, sent, arrived, ended, partly>>

FindNothing(e) ==
  /\ using[e] /\ exists(e) /\ ~looked[e] /\ ~ended[e] /\ Bytes(other(e)) > 0
  /\ conn[e].recv = <<>> /\ ~conn[e].reset
  /\ looked' = [looked EXCEPT ![e] = TRUE]
  /\ UNCHANGED <<conn, net, using, backlog, born, faults, history>>

\* LookForEnd that takes an empty queue for the end.
EmptyIsEnd(e) ==
  /\ looked[e]
  /\ looked' = [looked EXCEPT ![e] = FALSE]
  /\ ended' = [ended EXCEPT ![e] = @ \/ ~conn[e].reset]
  /\ UNCHANGED <<conn, net, using, backlog, born, faults, sent, got, arrived, overtook, partly>>

\* stream_info, called without the lock in between.
LookForEnd(e) ==
  /\ looked[e]
  /\ looked' = [looked EXCEPT ![e] = FALSE]
  /\ ended' = [ended EXCEPT ![e] = @ \/ (conn[e].peer_closed /\ ~conn[e].reset)]
  /\ UNCHANGED <<conn, net, using, backlog, born, faults, sent, got, arrived, overtook, partly>>

\* stream_shutdown.
Shutdown(e) ==
  /\ using[e] /\ exists(e) /\ ~conn[e].closing
  /\ Pump(e, [conn[e] EXCEPT !.closing = TRUE], net[e], 0, {})
  /\ UNCHANGED <<using, looked, backlog, born, sent, got, arrived, ended, partly>>

\* stream_close, when the last descriptor is dropped.
Close(e) ==
  /\ using[e] /\ ~looked[e]
  /\ using' = [using EXCEPT ![e] = FALSE]
  /\ \/ /\ exists(e)
        /\ Pump(e, [conn[e] EXCEPT !.closing = TRUE,
                                   !.state = IF @ = "SynSent" THEN "Closed" ELSE @],
                net[e], 0, {"Closed", "TimeWait"})
     \/ /\ ~exists(e)
        /\ UNCHANGED <<conn, net, faults, overtook>>
  /\ UNCHANGED <<looked, backlog, born, sent, got, arrived, ended, partly>>

\* close_owner: the program is gone, and its listening socket with it.
Die(e) ==
  /\ exists(e) /\ faults < MaxFaults
  /\ faults' = faults + 1
  /\ conn' = [conn EXCEPT ![e] = NoConnection]
  /\ using' = [using EXCEPT ![e] = FALSE]
  /\ looked' = [looked EXCEPT ![e] = FALSE]
  /\ backlog' = (backlog /\ e # Server)
  /\ UNCHANGED <<net, born, history>>

---------------------------------------------------------------------------
(* handle_tcp.                                                             *)

Reject(s) ==
  IF "ACK" \in s.flags THEN segment({"RST"}, s.ack, 0, 0, <<>>)
  ELSE segment({"RST", "ACK"}, 0, Plus(s.seq, span(s)), 0, <<>>)

accept_syn(s) ==
  [NewConnection("SynReceived") EXCEPT !.una = ServerIss, !.nxt = ServerIss,
     !.rcv_nxt = Plus(s.seq, 1), !.wnd = s.wnd, !.need_ack = TRUE]

\* State of a connection from its own, the end of the peer and the
\* acknowledgement of its own FIN.
NextState(state, theirs, ours) ==
  CASE state = "Established" /\ theirs          -> "CloseWait"
    [] state = "FinWait1" /\ theirs /\ ours     -> "TimeWait"
    [] state = "FinWait1" /\ theirs /\ ~ours    -> "Closing"
    [] state = "FinWait1" /\ ~theirs /\ ours    -> "FinWait2"
    [] state = "FinWait2" /\ theirs             -> "TimeWait"
    [] state = "Closing" /\ ours                -> "TimeWait"
    [] state = "LastAck" /\ ours                -> "Closed"
    [] OTHER                                    -> state

AtBoundary(c, s)  == Plus(s.seq, Len(s.data)) = c.rcv_nxt

FinHere(c, s) == "FIN" \in s.flags /\ AtBoundary(c, s)

Synchronised(c, s) ==
  LET a == IF "ACK" \in s.flags THEN acknowledge(c, s.ack) ELSE c
      b == accept_data(a, s.seq, s.data)
      d == IF FinHere(b, s) /\ ~b.peer_closed
           THEN [b EXCEPT !.peer_closed = TRUE, !.rcv_nxt = Plus(@, 1), !.need_ack = TRUE]
           ELSE b
  IN [d EXCEPT !.state = NextState(@, FinHere(b, s) \/ d.peer_closed,
                                   d.fin_sent /\ d.una = d.nxt)]

AnswersUs(c, s) == {"SYN", "ACK"} \subseteq s.flags /\ s.ack = c.nxt

Refused(c, s) ==
  /\ c.state = "SynSent" /\ {"SYN", "ACK"} \subseteq s.flags /\ ~AnswersUs(c, s)

Handled(c, s) ==
  CASE c.state = "SynSent" /\ AnswersUs(c, s) ->
         [acknowledge([c EXCEPT !.rcv_nxt = Plus(s.seq, 1)], s.ack)
            EXCEPT !.state = "Established", !.need_ack = TRUE]
    [] c.state = "SynSent" /\ "SYN" \in s.flags /\ ~AnswersUs(c, s) ->
         [c EXCEPT !.rcv_nxt = Plus(s.seq, 1), !.state = "SynReceived", !.need_ack = TRUE]
    [] c.state = "SynReceived" /\ "ACK" \in s.flags /\ s.ack = c.nxt ->
         accept_data([acknowledge(c, s.ack) EXCEPT !.state = "Established"], s.seq, s.data)
    [] c.state \in (Open \cup Closers) \ {"TimeWait"} -> Synchronised(c, s)
    [] c.state = "TimeWait" -> [c EXCEPT !.need_ack = TRUE]
    [] OTHER -> c

\* Segment s reaches e.
Handle(e, s, rest, cost) ==
  LET c == [conn[e] EXCEPT !.wnd = s.wnd]
      d == Handled(c, s)
  IN
  \/ /\ ~exists(e) /\ e = Server /\ ~born[Server] /\ s.flags = {"SYN"}
     /\ born' = [born EXCEPT ![Server] = TRUE]
     /\ Pump(e, accept_syn(s), rest, cost, {})
     /\ UNCHANGED <<backlog, arrived, partly>>
  \/ /\ \/ ~exists(e) /\ ~(e = Server /\ ~born[Server] /\ s.flags = {"SYN"})
        \/ exists(e) /\ "RST" \notin s.flags /\ Refused(c, s)
     /\ conn' = [conn EXCEPT ![e] = NoConnection]
     /\ net' = [net EXCEPT ![e] = rest,
                  ![other(e)] = IF "RST" \in s.flags THEN @ ELSE Append(@, Reject(s))]
     /\ faults' = faults + cost
     /\ UNCHANGED <<born, backlog, arrived, overtook, partly>>
  \/ /\ exists(e) /\ "RST" \in s.flags
     /\ conn' = [conn EXCEPT ![e].reset = TRUE, ![e].state = "Closed"]
     /\ net' = [net EXCEPT ![e] = rest]
     /\ faults' = faults + cost
     /\ UNCHANGED <<born, backlog, arrived, overtook, partly>>
  \/ /\ exists(e) /\ "RST" \notin s.flags /\ ~Refused(c, s)
     /\ arrived' = [arrived EXCEPT ![e] = @ + Len(d.recv) - Len(c.recv)]
     /\ partly' = [partly EXCEPT ![e] = IF d.una = c.una THEN @ ELSE in_flight(d) > 0]
     /\ Pump(e, d, rest, cost, IF e = Server THEN {"Closed"} ELSE {})
     /\ backlog' = (/\ \/ backlog
                       \/ e = Server /\ c.state = "SynReceived" /\ d.state = "Established"
                    /\ ~(e = Server /\ conn'[e].state = "none"))
     /\ UNCHANGED born

Without(queue, i) == SubSeq(queue, 1, i - 1) \o SubSeq(queue, i + 1, Len(queue))

\* The service task takes the next segment.
Receive(e) ==
  /\ net[e] # <<>>
  /\ Handle(e, Head(net[e]), Tail(net[e]), 0)
  /\ UNCHANGED <<using, looked, sent, got, ended>>

\* A later segment overtakes the first, or one arrives and is still to come again.
ReceiveLater(e) ==
  /\ faults < MaxFaults
  /\ \/ \E i \in 2 .. Len(net[e]) : Handle(e, net[e][i], Without(net[e], i), 1)
     \/ net[e] # <<>> /\ Handle(e, Head(net[e]), net[e], 1)
  /\ UNCHANGED <<using, looked, sent, got, ended>>

Lose(e) ==
  /\ net[e] # <<>> /\ faults < MaxFaults
  /\ net' = [net EXCEPT ![e] = Tail(@)]
  /\ faults' = faults + 1
  /\ UNCHANGED <<conn, using, looked, backlog, born, history>>

---------------------------------------------------------------------------
(* tcp_tick.                                                               *)

\* Go-back-N: everything unacknowledged counts as unsent again.
Rewound(c) == [c EXCEPT !.retries = @ + 1, !.timer = TRUE, !.nxt = c.una, !.fin_sent = FALSE]

GaveUp(c) == c.retries >= MAX_RETRIES

Tick(e) ==
  /\ exists(e) /\ conn[e].timer
  /\ LET c    == conn[e]
         cost == IF \A d \in Ends : net[d] = <<>> THEN 0 ELSE 1
     IN /\ faults + cost <= MaxFaults
        /\ \/ /\ in_flight(c) = 0
              /\ Pump(e, [c EXCEPT !.timer = FALSE, !.retries = 0], net[e], cost, {})
           \/ /\ in_flight(c) # 0 /\ GaveUp(c)
              /\ conn' = [conn EXCEPT ![e].reset = TRUE, ![e].state = "Closed"]
              /\ faults' = faults + cost
              /\ UNCHANGED <<net, overtook>>
           \/ /\ in_flight(c) # 0 /\ ~GaveUp(c)
              /\ Pump(e, Rewound(c), net[e], cost, {})
  /\ UNCHANGED <<using, looked, backlog, born, sent, got, arrived, ended, partly>>

\* TIME_WAIT is over.
Expire(e) ==
  /\ conn[e].state = "TimeWait"
  /\ conn' = [conn EXCEPT ![e] = NoConnection]
  /\ UNCHANGED <<net, using, looked, backlog, born, faults, history>>

Program(e) ==
  \/ \E n \in 1 .. Bytes(e) : Send(e, n)
  \/ \E n \in 1 .. RECEIVE_BUFFER : Recv(e, n)
  \/ FindNothing(e) \/ LookForEnd(e)
  \/ Shutdown(e) \/ Close(e) \/ Die(e)

Network(e) == Receive(e) \/ ReceiveLater(e) \/ Lose(e) \/ Tick(e) \/ Expire(e)

Next == Connect \/ Accept \/ \E e \in Ends : Program(e) \/ Network(e)

Spec == Init /\ [][Next]_vars

---------------------------------------------------------------------------
(* Properties.                                                             *)

Number == 0 .. SEQ - 1
Byte   == Nat \ {0}

Segment == [flags : SUBSET Flags, seq : Number, ack : Number,
            wnd : 0 .. RECEIVE_BUFFER, data : Seq(Byte)]

Connection == [state : States, una : Number, nxt : Number, wnd : 0 .. RECEIVE_BUFFER,
               rcv_nxt : Number, send : Seq(Byte), recv : Seq(Byte), timer : BOOLEAN,
               retries : 0 .. MAX_RETRIES, need_ack : BOOLEAN, closing : BOOLEAN,
               fin_sent : BOOLEAN, peer_closed : BOOLEAN, reset : BOOLEAN]

\* Every variable keeps its shape; in particular neither buffer of a
\* connection ever holds more than it was given room for, and the retries
\* stay within the limit that ends the connection.
TypeOK ==
  /\ conn \in [Ends -> Connection]
  /\ \A e \in Ends : Len(conn[e].recv) <= RECEIVE_BUFFER /\ Len(conn[e].send) <= SEND_BUFFER
  /\ net \in [Ends -> Seq(Segment)]
  /\ using \in [Ends -> BOOLEAN] /\ looked \in [Ends -> BOOLEAN]
  /\ backlog \in BOOLEAN /\ born \in [Ends -> BOOLEAN]
  /\ faults \in 0 .. MaxFaults
  /\ sent \in [Ends -> Nat] /\ got \in [Ends -> Seq(Byte)] /\ arrived \in [Ends -> Nat]
  /\ ended \in [Ends -> BOOLEAN] /\ overtook \in [Ends -> BOOLEAN]
  /\ partly \in [Ends -> BOOLEAN]

\* What a program has read, followed by what waits for it, is the beginning
\* of what the program at the other end wrote: whatever is lost, doubled,
\* overtaken or sent again, no byte is missing, doubled or out of place
\* (accept_data takes only what comes next, tcp_pump sends from snd_nxt on).
\* A FIN that overtakes data takes the number of a byte, and the byte after it
\* may still be on the way.
StreamIntact ==
  \A e \in Ends : LET stream == got[e] \o conn[e].recv
                  IN \/ /\ stream = [k \in 1 .. Len(stream) |-> k]
                        /\ Len(stream) <= sent[other(e)]
                     \/ overtook[other(e)]

\* A byte leaves the send queue only when the other end has accepted it: the
\* queue is the retransmission window, and acknowledge must not take a byte
\* for the number of the FIN, or one more than was acknowledged.
AckedIsReceived ==
  \A e \in Ends : exists(e) => \/ sent[e] - Len(conn[e].send) <= arrived[other(e)]
                              \/ overtook[e]

\* A program is told of the end of the stream only when every byte the other
\* program wrote has come, unless the other end's FIN overtook its own data.
EndIsHonest ==
  \A e \in Ends : ended[e] => \/ arrived[e] = sent[other(e)]
                              \/ overtook[other(e)]

\* Nothing is on the way, armed or waiting to be read or accepted: unless a
\* program calls something new, the connection stays as it is.  The timer of an
\* end that was reset or has given up may still be armed: nothing comes of it.
Quiet ==
  /\ ~backlog
  /\ \A e \in Ends :
       /\ net[e] = <<>> /\ ~looked[e]
       /\ (conn[e].timer => conn[e].reset) /\ conn[e].state # "TimeWait"
       /\ conn[e].recv = <<>>

Delivered(e) == Len(got[other(e)]) = sent[e]
Told(e)      == conn[e].reset \/ ~exists(e)
GivenUp      == \E e \in Ends : born[e] /\ ~(using[e] /\ exists(e))

\* When everything has come to rest and both programs hold their descriptors,
\* all that was written has been read or the writer knows that the connection
\* is lost.  Three things get in the way: the FIN that overtakes data, and,
\* after a fault, an acknowledgement of a part of what is in flight (it stops
\* the timer) and a window the peer closed and opened again unnoticed.
NothingStalls ==
  Quiet => \A e \in Ends : \/ Delivered(e) \/ Told(e) \/ GivenUp
                           \/ overtook[e]
                           \/ faults > 0 /\ (partly[e] \/ conn[e].wnd = 0)

\* The direction that end e writes, as its two programs see it.
Stream(e) == INSTANCE ByteStream WITH
  written <- sent[e], arrived <- arrived[other(e)], read <- got[other(e)],
  ended <- ended[other(e)], cut <- overtook[e]

\* Each direction of a connection, with its segments, windows and timers, is a
\* byte stream (stream_send, stream_recv, tcp_pump, handle_tcp): what is read is
\* what was written, flow control holds from end to end, and the end is the end.
\* This is \A e \in Ends : Stream(e)!StreamSpec, in the form TLC takes.
ImplementsStreams ==
  /\ \A e \in Ends : Stream(e)!Opened
  /\ [][Stream(Client)!Next]_(Stream(Client)!stream)
  /\ [][Stream(Server)!Next]_(Stream(Server)!stream)
==============================================================================
