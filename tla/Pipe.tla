-------------------------------- MODULE Pipe ---------------------------------
(***************************************************************************)
(* The kernel's pipe (crates/kernel/src/user/pipe.rs) with the calls that  *)
(* use it (user/syscall.rs) and the event generation (io_events.rs).       *)
(*                                                                         *)
(* Two kinds of caller wait differently.  A program whose standard stream  *)
(* is a pipe (Stdio) sleeps on the pipe itself, with block_on_lock.  A     *)
(* read or write of a descriptor remembers the generation of I/O events,   *)
(* tries, and sleeps unless the generation has moved.  Whoever changes the *)
(* pipe does three things after releasing its lock, in this order: wakes   *)
(* the sleepers of the pipe, moves the generation, wakes its sleepers; the *)
(* other tasks run between any two of them.                                *)
(*                                                                         *)
(* A call works on a copy of the program's end (Waiting, stdin.clone()),   *)
(* which counts as a live end until the call returns and drops it.         *)
(***************************************************************************)
EXTENDS Integers, Sequences, FiniteSets, FiniteSetsExt

CONSTANTS
  CAPACITY,  \* bytes in the ring
  Readers,   \* tasks that read
  Writers,   \* tasks that write
  Stdio,     \* those of them that use a standard stream
  MaxBytes,  \* bound: bytes written in all
  MaxEnds    \* bound: descriptors of one side

Tasks == Readers \cup Writers

ASSUME PipeAssumption ==
  /\ CAPACITY \in Nat \ {0}
  /\ MaxBytes \in Nat /\ MaxEnds \in Nat \ {0}
  /\ Readers \cap Writers = {} /\ Stdio \subseteq Tasks
  /\ IsFiniteSet(Tasks)

VARIABLES
  bytes,     \* Inner::bytes
  head,      \* Inner::head
  len,       \* Inner::len
  readers,   \* Inner::readers
  writers,   \* Inner::writers
  readFds,   \* reading ends that programs hold
  writeFds,  \* writing ends that programs hold
  pc,        \* where a task is in its call
  after,     \* where it goes when it has woken the others
  todo,      \* bytes a writer has still to write
  stale,     \* tasks whose remembered generation is no longer the current one
  sent,      \* history: how many bytes were written; byte n is the number n
  received,  \* history: the bytes read
  ended,     \* history: some read answered 0
  refused    \* history: some write answered Broken

ring    == <<bytes, head, len>>
ends    == <<readers, writers, readFds, writeFds>>
caller  == <<pc, after, todo, stale>>
history == <<sent, received, ended, refused>>
vars    == <<ring, ends, caller, history>>

At(t, where) == pc[t] = where
Goto(t, where) == pc' = [pc EXCEPT ![t] = where]
WholeRequest(a, b) == a

Smaller(a, b) == IF a <= b THEN a ELSE b

\* The bound MaxBytes counts what is written and what calls are about to write.
Promised == sent + MapThenSumSet(LAMBDA t : todo[t], Writers)

\* Where a woken task looks again.
Resume(t) == IF t \in Stdio THEN "try" ELSE "look"

free == CAPACITY - len

\* Descriptors of the side that task t is on, and the two counts of it.
Fds(t) == IF t \in Readers THEN readFds ELSE writeFds

CountEnds(t, n) ==
  IF t \in Readers THEN readers' = readers + n /\ UNCHANGED writers
                   ELSE writers' = writers + n /\ UNCHANGED readers

CountFds(t, n) ==
  IF t \in Readers THEN readFds' = readFds + n /\ UNCHANGED writeFds
                   ELSE writeFds' = writeFds + n /\ UNCHANGED readFds

\* Reader::ready, Writer::ready and the closures given to block_on_lock.
Ready(t) ==
  IF t \in Readers THEN len > 0 \/ writers = 0 ELSE free > 0 \/ readers = 0

------------------------------------------------------------------------------
Init ==
  /\ bytes = [i \in 0 .. (CAPACITY - 1) |-> 0]
  /\ head = 0 /\ len = 0
  /\ readers = 1 /\ writers = 1
  /\ readFds = 1 /\ writeFds = 1
  /\ pc = [t \in Tasks |-> "out"]
  /\ after = [t \in Tasks |-> "out"]
  /\ todo = [t \in Tasks |-> 0]
  /\ stale = {}
  /\ sent = 0 /\ received = <<>>
  /\ ended = FALSE /\ refused = FALSE

------------------------------------------------------------------------------
(***************************************************************************)
(* One call of read or write.                                              *)
(***************************************************************************)

BorrowEnd(t) == UNCHANGED <<readers, writers>>

\* clone() of the end behind the descriptor.
CopyEnd(t) == CountEnds(t, 1)

\* The system call finds the descriptor and copies the end behind it.
Enter(t) ==
  /\ At(t, "out") /\ Fds(t) > 0
  /\ CopyEnd(t)
  /\ IF t \in Readers
       THEN UNCHANGED todo
       ELSE \E n \in 1 .. (MaxBytes - Promised) : todo' = [todo EXCEPT ![t] = n]
  /\ Goto(t, Resume(t))
  /\ UNCHANGED <<ring, readFds, writeFds, after, stale, history>>

\* io_events::generation(), before the attempt.
Look(t) ==
  /\ At(t, "look")
  /\ stale' = stale \ {t}
  /\ Goto(t, "try")
  /\ UNCHANGED <<ring, ends, after, todo, history>>

\* The caller has changed the pipe, released its lock and now has to wake.
Changed(t, next) ==
  /\ Goto(t, "wake")
  /\ after' = [after EXCEPT ![t] = next]

\* Inner::pop copies out of the ring ...
Taken(k) == [j \in 1 .. k |-> bytes[(head + j - 1) % CAPACITY]]

\* ... as much as there is, up to the size of the caller's buffer.
ReadBytes(t) ==
  /\ At(t, "try") /\ t \in Readers /\ len > 0
  /\ \E want \in 1 .. CAPACITY :
       LET k == Smaller(want, len)
       IN  /\ received' = received \o Taken(k)
           /\ head' = (head + k) % CAPACITY
           /\ len' = len - k
  /\ Changed(t, "leave")
  /\ UNCHANGED <<bytes, ends, todo, stale, sent, ended, refused>>

ReadEof(t) ==
  /\ At(t, "try") /\ t \in Readers
  /\ len = 0 /\ writers = 0
  /\ ended' = TRUE
  /\ Goto(t, "leave")
  /\ UNCHANGED <<ring, ends, after, todo, stale, sent, received, refused>>

StoredAtLen(k) ==
  [i \in 0 .. (CAPACITY - 1) |->
     LET offset == (i - len) % CAPACITY
     IN  IF offset < k THEN sent + 1 + offset ELSE bytes[i]]

\* Inner::push: k bytes after the last one, around the end of the ring.
Stored(k) ==
  [i \in 0 .. (CAPACITY - 1) |->
     LET offset == (i - (head + len)) % CAPACITY
     IN  IF offset < k THEN sent + 1 + offset ELSE bytes[i]]

\* As much as fits.  A standard stream answers how much that was; a write to
\* a descriptor goes on until everything is written.
WriteBytes(t) ==
  /\ At(t, "try") /\ t \in Writers
  /\ readers > 0 /\ free > 0
  /\ LET k == Smaller(todo[t], free)
     IN  /\ bytes' = Stored(k)
         /\ len' = len + k
         /\ sent' = sent + k
         /\ todo' = [todo EXCEPT ![t] = @ - k]
         /\ Changed(t, IF t \in Stdio \/ k = todo[t] THEN "leave" ELSE "look")
  /\ UNCHANGED <<head, ends, stale, received, ended, refused>>

WriteBroken(t) ==
  /\ At(t, "try") /\ t \in Writers
  /\ readers = 0
  /\ refused' = TRUE
  /\ Goto(t, "leave")
  /\ UNCHANGED <<ring, ends, after, todo, stale, sent, received, ended>>

WouldBlock(t) ==
  /\ At(t, "try") /\ ~Ready(t)
  /\ Goto(t, "block")
  /\ UNCHANGED <<ring, ends, after, todo, stale, history>>

NothingNew(t) == FALSE

\* What the closure finds under the scheduler's lock.
SomethingNew(t) == IF t \in Stdio THEN Ready(t) ELSE t \in stale

\* block_on_lock or io_events::wait.
Block(t) ==
  /\ At(t, "block")
  /\ Goto(t, IF SomethingNew(t) THEN Resume(t) ELSE "asleep")
  /\ UNCHANGED <<ring, ends, after, todo, stale, history>>

\* The 250 ms after which a wait of a descriptor looks around.
Timeout(t) ==
  /\ At(t, "asleep") /\ t \notin Stdio
  /\ Goto(t, "look")
  /\ UNCHANGED <<ring, ends, after, todo, stale, history>>

Awakened(S, t, next) ==
  pc' = [u \in Tasks |->
           IF u = t THEN next
           ELSE IF u \in S /\ At(u, "asleep") THEN Resume(u) ELSE pc[u]]

NobodyOnPipe == {}

\* Who sleeps on the pipe's own address.
SleepersOnPipe == Stdio

\* wake_lock(channel).
WakePipe(t) ==
  /\ At(t, "wake")
  /\ Awakened(SleepersOnPipe, t, "bump")
  /\ UNCHANGED <<ring, ends, after, todo, stale, history>>

\* io_events::notify: the generation moves ...
Bump(t) ==
  /\ At(t, "bump")
  /\ stale' = Tasks
  /\ Goto(t, "futex")
  /\ UNCHANGED <<ring, ends, after, todo, history>>

\* ... and those who sleep on it are woken.
WakeEvents(t) ==
  /\ At(t, "futex")
  /\ Awakened(Tasks \ Stdio, t, after[t])
  /\ UNCHANGED <<ring, ends, after, todo, stale, history>>

DropSilently(t) ==
  /\ Goto(t, "out")
  /\ UNCHANGED after

\* Drop for Reader and for Writer: after the count, the same wake-ups.
DropWakes(t) == Changed(t, "out")

\* The call is over and drops its copy of the end.
Leave(t) ==
  /\ At(t, "leave")
  /\ CountEnds(t, -1)
  /\ DropWakes(t)
  /\ todo' = [todo EXCEPT ![t] = 0]
  /\ UNCHANGED <<ring, readFds, writeFds, stale, history>>

------------------------------------------------------------------------------
\* close(), or the end of the program that held the descriptor.
CloseFd(t) ==
  /\ At(t, "out") /\ Fds(t) > 0
  /\ CountFds(t, -1) /\ CountEnds(t, -1)
  /\ DropWakes(t)
  /\ UNCHANGED <<ring, todo, stale, history>>

\* dup, or a program started with this stream.
DupFd(t) ==
  /\ At(t, "out") /\ Fds(t) \in 1 .. (MaxEnds - 1)
  /\ CountFds(t, 1) /\ CountEnds(t, 1)
  /\ UNCHANGED <<ring, caller, history>>

\* Nothing is left to do: both sides are closed.
Closed ==
  /\ readFds = 0 /\ writeFds = 0 /\ \A t \in Tasks : At(t, "out")
  /\ UNCHANGED vars

\* What a task does inside a call, until the call returns.
Step(t) ==
  \/ Look(t) \/ ReadBytes(t) \/ ReadEof(t) \/ WriteBytes(t) \/ WriteBroken(t)
  \/ WouldBlock(t) \/ Block(t) \/ WakePipe(t) \/ Bump(t) \/ WakeEvents(t)
  \/ Leave(t)

Next ==
  \/ \E t \in Tasks : Step(t)
  \/ \E t \in Tasks : Timeout(t)
  \/ \E t \in Tasks : Enter(t)
  \/ \E t \in Tasks : CloseFd(t)
  \/ \E t \in Tasks : DupFd(t)
  \/ Closed

Spec == Init /\ [][Next]_vars

\* A task inside a call goes on.  Nobody has to start or to close anything,
\* and no wait has to run out.
FairSpec == Spec /\ \A t \in Tasks : WF_vars(Step(t))

------------------------------------------------------------------------------
Where == {"out", "look", "try", "wake", "bump", "futex", "block", "asleep", "leave"}

\* The shape of the state.
TypeOK ==
  /\ bytes \in [0 .. (CAPACITY - 1) -> Nat]
  /\ head \in 0 .. (CAPACITY - 1) /\ len \in 0 .. CAPACITY
  /\ readers \in Nat /\ writers \in Nat
  /\ readFds \in 0 .. MaxEnds /\ writeFds \in 0 .. MaxEnds
  /\ pc \in [Tasks -> Where]
  /\ after \in [Tasks -> {"look", "leave", "out"}]
  /\ todo \in [Tasks -> Nat]
  /\ stale \subseteq Tasks
  /\ sent \in Nat
  /\ received \in Seq(Nat)
  /\ ended \in BOOLEAN /\ refused \in BOOLEAN

\* The ring with its wrap-around, the locks and the copies of the ends
\* implement the channel: order kept, nothing lost, end of file and refusal
\* only when they are final.
Abstract == INSTANCE Channel WITH sent <- [i \in 1 .. sent |-> i]
ImplementsChannel == Abstract!ChannelSpec

\* A task holds its copy of an end from Enter to Leave.
Holds(t) ==
  \/ pc[t] \in {"look", "try", "block", "asleep", "leave"}
  \/ pc[t] \in {"wake", "bump", "futex"} /\ after[t] # "out"

\* The counts that the end of file stands on: as many as there are
\* descriptors and calls in progress, neither leaked nor dropped twice.
CountsExact ==
  /\ readers = readFds + Cardinality({t \in Readers : Holds(t)})
  /\ writers = writeFds + Cardinality({t \in Writers : Holds(t)})

\* No lost wake-up: nobody sleeps on a pipe that is ready for him unless
\* somebody who changed it is still on the way to wake him.
NobodySleepsThrough ==
  \A t \in Tasks :
    At(t, "asleep") /\ Ready(t) =>
      \E u \in Tasks :
        pc[u] \in IF t \in Stdio THEN {"wake"} ELSE {"wake", "bump", "futex"}

\* A read that waits when the last writer goes comes to its end, and does not
\* need the timeout for it.
EndReachesReaders ==
  \A t \in Readers : (Holds(t) /\ writers = 0) ~> ~Holds(t)

\* A write that waits when the last reader goes comes to its end.
EndReachesWriters ==
  \A t \in Writers : (Holds(t) /\ readers = 0) ~> ~Holds(t)
==============================================================================
