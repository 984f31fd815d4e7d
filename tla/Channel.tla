------------------------------- MODULE Channel -------------------------------
(***************************************************************************)
(* What a pipe (crates/kernel/src/user/pipe.rs) promises to its users,     *)
(* whatever the ring, the locks and the sleeping look like: bytes come out *)
(* in the order they went in, none lost and none twice; the end of file is *)
(* answered only when nothing is left and nobody can write any more; a     *)
(* writer is refused only when nobody can read any more.                   *)
(***************************************************************************)
EXTENDS Naturals, Sequences

CONSTANT CAPACITY   \* bytes the pipe may hold

VARIABLES
  sent,      \* every byte ever written, in order
  received,  \* every byte ever read, in order
  readers,   \* live reading ends
  writers,   \* live writing ends
  ended,     \* some read has answered "end of file"
  refused    \* some write has answered "broken pipe"

chan == <<sent, received, readers, writers, ended, refused>>

Extends(longer, shorter) ==
  Len(longer) > Len(shorter) /\ SubSeq(longer, 1, Len(shorter)) = shorter

Create ==
  /\ sent = <<>> /\ received = <<>>
  /\ readers = 1 /\ writers = 1
  /\ ~ended /\ ~refused

Write ==
  /\ writers > 0 /\ readers > 0
  /\ Extends(sent', sent)
  /\ Len(sent') - Len(received) <= CAPACITY
  /\ UNCHANGED <<received, readers, writers, ended, refused>>

Read ==
  /\ readers > 0
  /\ Extends(received', received)
  /\ Len(received') <= Len(sent) /\ SubSeq(sent, 1, Len(received')) = received'
  /\ UNCHANGED <<sent, readers, writers, ended, refused>>

ReadEnd ==
  /\ readers > 0 /\ writers = 0 /\ received = sent
  /\ ended' = TRUE
  /\ UNCHANGED <<sent, received, readers, writers, refused>>

WriteRefused ==
  /\ writers > 0 /\ readers = 0
  /\ refused' = TRUE
  /\ UNCHANGED <<sent, received, readers, writers, ended>>

\* A new end is always a copy of a live one.
Open ==
  \/ readers > 0 /\ readers' = readers + 1 /\ UNCHANGED writers
  \/ writers > 0 /\ writers' = writers + 1 /\ UNCHANGED readers

Close ==
  \/ readers > 0 /\ readers' = readers - 1 /\ UNCHANGED writers
  \/ writers > 0 /\ writers' = writers - 1 /\ UNCHANGED readers

Ends == (Open \/ Close) /\ UNCHANGED <<sent, received, ended, refused>>

ChannelSpec ==
  Create /\ [][Write \/ Read \/ ReadEnd \/ WriteRefused \/ Ends]_chan
==============================================================================
