----------------------------- MODULE ByteStream ------------------------------
(***************************************************************************)
(* What one direction of a TCP connection promises to the program that     *)
(* writes and the program that reads (crates/kernel/src/net/stream.rs),    *)
(* whatever segments, windows and timers look like: the bytes 1, 2, ...    *)
(* come out in order, none lost and none twice, and are never taken back;  *)
(* neither side is made to hold more than its buffer; the reader is told   *)
(* of the end only when every byte has arrived, and nothing is written     *)
(* after that.                                                             *)
(*                                                                         *)
(* A FIN that leaves before bytes that were written cuts the stream.  From *)
(* then on nothing more is written, and of the rest only that it does not  *)
(* go backwards is promised.                                               *)
(***************************************************************************)
EXTENDS Naturals, Sequences

CONSTANTS SEND_BUFFER, RECEIVE_BUFFER

VARIABLES
  written, \* bytes the writer has handed over
  arrived, \* bytes the other end has accepted
  read,    \* every byte the reader was given, in order
  ended,   \* the reader was told of the end
  cut      \* the FIN left too early

stream == <<written, arrived, read, ended, cut>>

Opened == written = 0 /\ arrived = 0 /\ read = <<>> /\ ~ended /\ ~cut

Write ==
  /\ ~ended /\ ~cut
  /\ written' > written /\ written' <= arrived + SEND_BUFFER
  /\ UNCHANGED <<arrived, read, ended, cut>>

Arrive ==
  /\ ~cut
  /\ arrived' > arrived /\ arrived' <= written
  /\ arrived' <= Len(read) + RECEIVE_BUFFER
  /\ UNCHANGED <<written, read, ended, cut>>

Read ==
  /\ ~cut
  /\ Len(read') > Len(read) /\ Len(read') <= arrived
  /\ read' = [i \in 1 .. Len(read') |-> i]
  /\ UNCHANGED <<written, arrived, ended, cut>>

TellEnd ==
  /\ ~cut /\ arrived = written
  /\ ended' = TRUE
  /\ UNCHANGED <<written, arrived, read, cut>>

Cut ==
  /\ ~ended
  /\ cut' = TRUE
  /\ UNCHANGED <<written, arrived, read, ended>>

BehindTheCut ==
  /\ cut
  /\ arrived' >= arrived
  /\ Len(read') >= Len(read) /\ SubSeq(read', 1, Len(read)) = read
  /\ ended => ended'
  /\ UNCHANGED <<written, cut>>

Next == Write \/ Arrive \/ Read \/ TellEnd \/ Cut \/ BehindTheCut

StreamSpec == Opened /\ [][Next]_stream
==============================================================================
