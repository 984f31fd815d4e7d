----------------------------- MODULE PipeProofs ------------------------------
(***************************************************************************)
(* Proofs about Pipe, for every capacity, any number of readers, writers   *)
(* and descriptors, and any division of the tasks into those that use a    *)
(* standard stream and those that use a descriptor: the counts of live     *)
(* ends are exact, nobody sleeps through a change, and the pipe            *)
(* implements Channel.                                                     *)
(***************************************************************************)
EXTENDS Pipe, FiniteSetTheorems, SequenceTheorems, TLAPS

\* Who has remembered the generation and found nothing is told of a change
\* before it falls asleep: the generation moves, or is about to.
NobodyDozesOff ==
  \A t \in Tasks \ Stdio :
    At(t, "block") /\ t \notin stale /\ Ready(t) =>
      \E u \in Tasks : pc[u] \in {"wake", "bump"}

\* The counts need no more than the shape of the state to be inductive, and
\* the other way round: what is counted is a number.
IInv == TypeOK /\ CountsExact

------------------------------------------------------------------------------
(***************************************************************************)
(* The counts of the ends.                                                 *)
(***************************************************************************)

HoldersOf(S) == {t \in S : Holds(t)}

LEMMA FiniteSides == IsFiniteSet(Readers) /\ IsFiniteSet(Writers)
BY PipeAssumption, FS_Subset DEF Tasks

\* The number of holders follows the one task that begins or ends a call.
LEMMA HoldersShape ==
  ASSUME NEW S \in SUBSET Tasks, IsFiniteSet(S), NEW t \in Tasks,
         \A u \in Tasks \ {t} : Holds(u)' <=> Holds(u)
  PROVE  /\ Cardinality(HoldersOf(S)) \in Nat
         /\ (Holds(t)' <=> Holds(t)) \/ t \notin S =>
              Cardinality(HoldersOf(S))' = Cardinality(HoldersOf(S))
         /\ t \in S /\ ~Holds(t) /\ Holds(t)' =>
              Cardinality(HoldersOf(S))' = Cardinality(HoldersOf(S)) + 1
         /\ t \in S /\ Holds(t) /\ ~Holds(t)' =>
              Cardinality(HoldersOf(S))' = Cardinality(HoldersOf(S)) - 1
<1>1. HoldersOf(S) \subseteq S
  BY DEF HoldersOf
<1>2. IsFiniteSet(HoldersOf(S))
  BY <1>1, FS_Subset
<1>3. Cardinality(HoldersOf(S)) \in Nat
  BY <1>2, FS_CardinalityType
<1>4. ASSUME (Holds(t)' <=> Holds(t)) \/ t \notin S
      PROVE  Cardinality(HoldersOf(S))' = Cardinality(HoldersOf(S))
  <2>1. HoldersOf(S)' = HoldersOf(S)
    BY <1>4 DEF HoldersOf
  <2> QED
    BY <2>1
<1>5. ASSUME t \in S, ~Holds(t), Holds(t)'
      PROVE  Cardinality(HoldersOf(S))' = Cardinality(HoldersOf(S)) + 1
  <2>1. HoldersOf(S)' = HoldersOf(S) \cup {t} /\ t \notin HoldersOf(S)
    BY <1>5 DEF HoldersOf
  <2>2. Cardinality(HoldersOf(S) \cup {t}) = Cardinality(HoldersOf(S)) + 1
    BY <1>2, <2>1, FS_AddElement
  <2> QED
    BY <2>1, <2>2
<1>6. ASSUME t \in S, Holds(t), ~Holds(t)'
      PROVE  Cardinality(HoldersOf(S))' = Cardinality(HoldersOf(S)) - 1
  <2>1. HoldersOf(S)' = HoldersOf(S) \ {t} /\ t \in HoldersOf(S)
    BY <1>6 DEF HoldersOf
  <2>2. Cardinality(HoldersOf(S) \ {t}) = Cardinality(HoldersOf(S)) - 1
    BY <1>2, <2>1, FS_RemoveElement
  <2> QED
    BY <2>1, <2>2
<1> QED
  BY <1>3, <1>4, <1>5, <1>6

\* Nobody begins or ends a call, and the ends stay as they are.
LEMMA CountsKept ==
  ASSUME IInv, UNCHANGED ends, \A u \in Tasks : Holds(u)' <=> Holds(u)
  PROVE  CountsExact'
<1>1. HoldersOf(Readers)' = HoldersOf(Readers) /\ HoldersOf(Writers)' = HoldersOf(Writers)
  BY DEF HoldersOf, Tasks
<1> QED
  BY <1>1 DEF IInv, CountsExact, HoldersOf, ends

LEMMA HoldersAreCounted ==
  ASSUME IInv
  PROVE  /\ readers = readFds + Cardinality(HoldersOf(Readers))
         /\ writers = writeFds + Cardinality(HoldersOf(Writers))
         /\ Cardinality(HoldersOf(Readers)) \in Nat
         /\ Cardinality(HoldersOf(Writers)) \in Nat
<1>1. HoldersOf(Readers) \subseteq Readers /\ HoldersOf(Writers) \subseteq Writers
  BY DEF HoldersOf
<1>2. IsFiniteSet(HoldersOf(Readers)) /\ IsFiniteSet(HoldersOf(Writers))
  BY <1>1, FiniteSides, FS_Subset
<1> QED
  BY <1>2, FS_CardinalityType DEF IInv, CountsExact, HoldersOf

\* A task begins its call with a new end, or leaves it and drops the end.
LEMMA CallCounted ==
  ASSUME IInv, NEW t \in Tasks, NEW n \in {1, -1}, CountEnds(t, n),
         UNCHANGED <<readFds, writeFds>>,
         n = 1 => ~Holds(t) /\ Holds(t)',
         n = -1 => Holds(t) /\ ~Holds(t)',
         \A u \in Tasks \ {t} : Holds(u)' <=> Holds(u)
  PROVE  CountsExact'
<1>1. Readers \in SUBSET Tasks /\ Writers \in SUBSET Tasks
  BY DEF Tasks
<1>2. readers \in Nat /\ writers \in Nat /\ readFds \in Nat /\ writeFds \in Nat
  BY DEF IInv, TypeOK
<1>3. CASE t \in Readers
  <2>1. t \notin Writers
    BY <1>3, PipeAssumption
  <2>2. Cardinality(HoldersOf(Writers))' = Cardinality(HoldersOf(Writers))
    BY <1>1, <2>1, FiniteSides, HoldersShape
  <2>3. Cardinality(HoldersOf(Readers))' = Cardinality(HoldersOf(Readers)) + n
    BY <1>1, <1>3, FiniteSides, HoldersShape
  <2>4. readers' = readers + n /\ writers' = writers
    BY <1>3 DEF CountEnds
  <2>5. readers' = readFds' + Cardinality(HoldersOf(Readers))'
    BY <1>2, <2>3, <2>4, HoldersAreCounted
  <2>6. writers' = writeFds' + Cardinality(HoldersOf(Writers))'
    BY <1>2, <2>2, <2>4, HoldersAreCounted
  <2> QED
    BY <2>5, <2>6 DEF CountsExact, HoldersOf
<1>4. CASE t \notin Readers
  <2>1. t \in Writers
    BY <1>4 DEF Tasks
  <2>2. Cardinality(HoldersOf(Readers))' = Cardinality(HoldersOf(Readers))
    BY <1>1, <1>4, FiniteSides, HoldersShape
  <2>3. Cardinality(HoldersOf(Writers))' = Cardinality(HoldersOf(Writers)) + n
    BY <1>1, <2>1, FiniteSides, HoldersShape
  <2>4. writers' = writers + n /\ readers' = readers
    BY <1>4 DEF CountEnds
  <2>5. writers' = writeFds' + Cardinality(HoldersOf(Writers))'
    BY <1>2, <2>3, <2>4, HoldersAreCounted
  <2>6. readers' = readFds' + Cardinality(HoldersOf(Readers))'
    BY <1>2, <2>2, <2>4, HoldersAreCounted
  <2> QED
    BY <2>5, <2>6 DEF CountsExact, HoldersOf
<1> QED
  BY <1>3, <1>4

\* A program copies or closes a descriptor.
LEMMA FdCounted ==
  ASSUME IInv, NEW t \in Tasks, NEW n \in {1, -1}, CountEnds(t, n), CountFds(t, n),
         \A u \in Tasks : Holds(u)' <=> Holds(u)
  PROVE  CountsExact'
<1>1. HoldersOf(Readers)' = HoldersOf(Readers) /\ HoldersOf(Writers)' = HoldersOf(Writers)
  BY DEF HoldersOf, Tasks
<1>2. readers \in Nat /\ writers \in Nat /\ readFds \in Nat /\ writeFds \in Nat
  BY DEF IInv, TypeOK
<1>3. /\ readers' = readFds' + Cardinality(HoldersOf(Readers))
      /\ writers' = writeFds' + Cardinality(HoldersOf(Writers))
  <2>1. CASE t \in Readers
    BY <2>1, <1>2, HoldersAreCounted DEF CountEnds, CountFds
  <2>2. CASE t \notin Readers
    BY <2>2, <1>2, HoldersAreCounted DEF CountEnds, CountFds
  <2> QED
    BY <2>1, <2>2
<1> QED
  BY <1>1, <1>3 DEF CountsExact, HoldersOf

\* What is counted is a number.
LEMMA EndsAreNumbers ==
  ASSUME CountsExact', readFds' \in Nat, writeFds' \in Nat
  PROVE  readers' \in Nat /\ writers' \in Nat
<1>1. HoldersOf(Readers)' \subseteq Readers /\ HoldersOf(Writers)' \subseteq Writers
  BY DEF HoldersOf
<1>2. IsFiniteSet(HoldersOf(Readers)') /\ IsFiniteSet(HoldersOf(Writers)')
  BY <1>1, FiniteSides, FS_Subset
<1>3. Cardinality(HoldersOf(Readers)') \in Nat /\ Cardinality(HoldersOf(Writers)') \in Nat
  BY <1>2, FS_CardinalityType
<1> QED
  BY <1>3 DEF CountsExact, HoldersOf

------------------------------------------------------------------------------
(***************************************************************************)
(* Type correctness and the counts, action by action.                      *)
(***************************************************************************)

\* Only the task that moves can begin or end a call.
LEMMA MoveShape ==
  ASSUME TypeOK, NEW t \in Tasks, NEW where \in Where, Goto(t, where),
         NEW next \in {"look", "leave", "out"},
         after' = after \/ after' = [after EXCEPT ![t] = next]
  PROVE  /\ pc' \in [Tasks -> Where] /\ pc'[t] = where
         /\ \A u \in Tasks \ {t} : pc'[u] = pc[u] /\ after'[u] = after[u]
         /\ after' \in [Tasks -> {"look", "leave", "out"}]
         /\ after' # after => after'[t] = next
         /\ \A u \in Tasks \ {t} : Holds(u)' <=> Holds(u)
BY DEF TypeOK, Goto, Holds

\* A wake-up moves the task that wakes and those that sleep.
LEMMA AwakenedShape ==
  ASSUME TypeOK, NEW t \in Tasks, NEW S \in SUBSET Tasks, NEW next \in Where,
         Awakened(S, t, next), UNCHANGED after
  PROVE  /\ pc' \in [Tasks -> Where] /\ pc'[t] = next
         /\ \A u \in Tasks \ {t} :
              \/ pc'[u] = pc[u] /\ (u \in S => pc[u] # "asleep")
              \/ u \in S /\ pc[u] = "asleep" /\ pc'[u] = Resume(u)
         /\ \A u \in Tasks \ {t} : Holds(u)' <=> Holds(u)
<1>1. \A u \in Tasks : Resume(u) \in {"try", "look"}
  BY DEF Resume
<1>2. pc' \in [Tasks -> Where] /\ pc'[t] = next
  BY <1>1 DEF TypeOK, Awakened, Where
<1>3. \A u \in Tasks \ {t} :
        \/ pc'[u] = pc[u] /\ (u \in S => pc[u] # "asleep")
        \/ u \in S /\ pc[u] = "asleep" /\ pc'[u] = Resume(u)
  BY DEF Awakened, At
<1>4. ASSUME NEW u \in Tasks \ {t} PROVE Holds(u)' <=> Holds(u)
  <2>1. CASE pc'[u] = pc[u]
    BY <2>1 DEF Holds
  <2>2. CASE pc[u] = "asleep" /\ pc'[u] = Resume(u)
    BY <2>2, <1>1 DEF Holds
  <2> QED
    BY <1>3, <2>1, <2>2
<1> QED
  BY <1>2, <1>3, <1>4

LEMMA Remainder == \A x \in Int : x % CAPACITY \in 0 .. (CAPACITY - 1)
BY PipeAssumption

LEMMA InitKeeps == Init => IInv
<1> SUFFICES ASSUME Init PROVE IInv
  OBVIOUS
<1>1. TypeOK
  <2>1. head \in 0 .. (CAPACITY - 1) /\ len \in 0 .. CAPACITY
    BY PipeAssumption DEF Init
  <2>2. bytes \in [0 .. (CAPACITY - 1) -> Nat]
    BY DEF Init
  <2>3. readFds \in 0 .. MaxEnds /\ writeFds \in 0 .. MaxEnds
    BY PipeAssumption DEF Init
  <2>4. received \in Seq(Nat)
    BY DEF Init
  <2>5. /\ pc \in [Tasks -> Where] /\ after \in [Tasks -> {"look", "leave", "out"}]
        /\ todo \in [Tasks -> Nat] /\ stale \subseteq Tasks
    BY DEF Init, Where
  <2> QED
    BY <2>1, <2>2, <2>3, <2>4, <2>5 DEF Init, TypeOK
<1>2. HoldersOf(Readers) = {} /\ HoldersOf(Writers) = {}
  BY DEF Init, HoldersOf, Holds, Tasks
<1>3. CountsExact
  <2>1. Cardinality(HoldersOf(Readers)) = 0 /\ Cardinality(HoldersOf(Writers)) = 0
    BY <1>2, FS_EmptySet
  <2>2. /\ readers = readFds + Cardinality(HoldersOf(Readers))
        /\ writers = writeFds + Cardinality(HoldersOf(Writers))
    BY <2>1 DEF Init
  <2> QED
    BY <2>2 DEF CountsExact, HoldersOf
<1> QED
  BY <1>1, <1>3 DEF IInv

LEMMA EnterKeeps ==
  ASSUME IInv, NEW t \in Tasks, Enter(t)
  PROVE  IInv'
<1> USE DEF IInv
<1>1. Resume(t) \in {"try", "look"}
  BY DEF Resume
<1>2. Goto(t, Resume(t)) /\ after' = after /\ Resume(t) \in Where
  BY <1>1 DEF Enter, Where
<1>3. /\ pc' \in [Tasks -> Where] /\ pc'[t] = Resume(t)
      /\ \A u \in Tasks \ {t} : Holds(u)' <=> Holds(u)
  BY <1>2, MoveShape
<1>4. ~Holds(t) /\ Holds(t)'
  BY <1>1, <1>3 DEF Enter, At, Holds
<1>5. CountsExact'
  BY <1>3, <1>4, CallCounted DEF Enter, CopyEnd
<1>6. todo' \in [Tasks -> Nat]
  <2>1. CASE t \in Readers
    BY <2>1 DEF Enter, TypeOK
  <2>2. CASE t \notin Readers
    <3>1. PICK n \in 1 .. (MaxBytes - Promised) : todo' = [todo EXCEPT ![t] = n]
      BY <2>2 DEF Enter
    <3>2. n \in Nat
      BY <3>1
    <3> QED
      BY <3>1, <3>2 DEF TypeOK
  <2> QED
    BY <2>1, <2>2
<1>7. readFds' \in Nat /\ writeFds' \in Nat
  BY DEF Enter, TypeOK
<1>8. readers' \in Nat /\ writers' \in Nat
  BY <1>5, <1>7, EndsAreNumbers
<1>9. TypeOK'
  BY <1>3, <1>6, <1>8 DEF TypeOK, Enter, ring, history
<1> QED
  BY <1>5, <1>9

\* Steps of a call that change neither the pipe nor its ends.
LEMMA WaitKeeps ==
  ASSUME IInv, NEW t \in Tasks, Look(t) \/ WouldBlock(t) \/ Block(t) \/ Timeout(t)
  PROVE  IInv'
<1> USE DEF IInv
<1>1. Resume(t) \in {"try", "look"}
  BY DEF Resume
<1>2. PICK where \in {"look", "try", "block", "asleep"} : Goto(t, where)
  BY <1>1 DEF Look, WouldBlock, Block, Timeout
<1>3. after' = after /\ where \in Where
  BY DEF Look, WouldBlock, Block, Timeout, Where
<1>4. /\ pc' \in [Tasks -> Where] /\ pc'[t] = where
      /\ \A u \in Tasks \ {t} : Holds(u)' <=> Holds(u)
  BY <1>2, <1>3, MoveShape
<1>5. Holds(t) /\ Holds(t)'
  BY <1>2, <1>4 DEF Look, WouldBlock, Block, Timeout, At, Holds
<1>6. UNCHANGED ends
  BY DEF Look, WouldBlock, Block, Timeout
<1>7. CountsExact'
  BY <1>4, <1>5, <1>6, CountsKept
<1>8. stale' \subseteq Tasks
  BY DEF Look, WouldBlock, Block, Timeout, TypeOK
<1>9. TypeOK'
  BY <1>3, <1>4, <1>6, <1>8
     DEF TypeOK, Look, WouldBlock, Block, Timeout, ring, ends, history
<1> QED
  BY <1>7, <1>9

\* What is in the ring is numbers, wherever the pointers stand.
LEMMA TakenShape ==
  ASSUME TypeOK, NEW k \in Nat
  PROVE  /\ Taken(k) \in Seq(Nat) /\ Len(Taken(k)) = k
         /\ received \o Taken(k) \in Seq(Nat)
         /\ (head + k) % CAPACITY \in 0 .. (CAPACITY - 1)
<1>1. \A j \in 1 .. k : bytes[(head + j - 1) % CAPACITY] \in Nat
  <2>1. ASSUME NEW j \in 1 .. k
        PROVE  (head + j - 1) % CAPACITY \in 0 .. (CAPACITY - 1)
    <3>1. head + j - 1 \in Int
      BY PipeAssumption DEF TypeOK
    <3> QED
      BY <3>1, Remainder
  <2> QED
    BY <2>1 DEF TypeOK
<1>2. Taken(k) \in Seq(Nat)
  BY <1>1, IsASeq DEF Taken
<1>3. Len(Taken(k)) = k
  BY <1>1 DEF Taken
<1>4. (head + k) % CAPACITY \in 0 .. (CAPACITY - 1)
  <2>1. head + k \in Int
    BY PipeAssumption DEF TypeOK
  <2> QED
    BY <2>1, Remainder
<1> QED
  BY <1>2, <1>3, <1>4, ConcatProperties DEF TypeOK

LEMMA StoredShape ==
  ASSUME TypeOK, NEW k \in Nat
  PROVE  Stored(k) \in [0 .. (CAPACITY - 1) -> Nat]
<1>1. ASSUME NEW i \in 0 .. (CAPACITY - 1)
      PROVE  (i - (head + len)) % CAPACITY \in Nat
  BY Remainder, PipeAssumption DEF TypeOK
<1>2. ASSUME NEW i \in 0 .. (CAPACITY - 1)
      PROVE  Stored(k)[i] \in Nat
  <2> DEFINE offset == (i - (head + len)) % CAPACITY
  <2>1. offset \in Nat
    BY <1>1
  <2>2. sent + 1 + offset \in Nat /\ bytes[i] \in Nat
    BY <2>1 DEF TypeOK
  <2>3. Stored(k)[i] = IF offset < k THEN sent + 1 + offset ELSE bytes[i]
    BY DEF Stored
  <2> QED
    BY <2>2, <2>3
<1> QED
  BY <1>2 DEF Stored

LEMMA ReadKeeps ==
  ASSUME IInv, NEW t \in Tasks, ReadBytes(t) \/ ReadEof(t)
  PROVE  IInv'
<1> USE DEF IInv
<1>1. PICK where \in {"wake", "leave"} :
        /\ Goto(t, where)
        /\ where = "wake" => after' = [after EXCEPT ![t] = "leave"]
        /\ where = "leave" => after' = after
  BY DEF ReadBytes, ReadEof, Changed
<1>2. where \in Where
  BY DEF Where
<1>3. /\ pc' \in [Tasks -> Where] /\ pc'[t] = where
      /\ after' \in [Tasks -> {"look", "leave", "out"}]
      /\ \A u \in Tasks \ {t} : Holds(u)' <=> Holds(u)
  <2>1. after' = after \/ after' = [after EXCEPT ![t] = "leave"]
    BY <1>1
  <2> QED
    BY <1>1, <1>2, <2>1, MoveShape
<1>4. Holds(t) /\ Holds(t)'
  <2>1. pc[t] = "try"
    BY DEF ReadBytes, ReadEof, At
  <2>2. where = "wake" => after'[t] = "leave"
    BY <1>1 DEF TypeOK
  <2> QED
    BY <1>3, <2>1, <2>2 DEF Holds
<1>5. UNCHANGED ends
  BY DEF ReadBytes, ReadEof
<1>6. CountsExact'
  BY <1>3, <1>4, <1>5, CountsKept
<1>7. /\ bytes' = bytes /\ head' \in 0 .. (CAPACITY - 1) /\ len' \in 0 .. CAPACITY
      /\ received' \in Seq(Nat)
  <2>1. CASE ReadBytes(t)
    <3>1. PICK want \in 1 .. CAPACITY :
            /\ received' = received \o Taken(Smaller(want, len))
            /\ head' = (head + Smaller(want, len)) % CAPACITY
            /\ len' = len - Smaller(want, len)
      BY <2>1 DEF ReadBytes
    <3>2. /\ len \in 0 .. CAPACITY /\ CAPACITY \in Nat /\ want \in Nat
          /\ Smaller(want, len) \in Nat /\ Smaller(want, len) <= len
      <4>1. len \in 0 .. CAPACITY /\ CAPACITY \in Nat /\ want \in Nat
        BY PipeAssumption DEF TypeOK
      <4> QED
        BY <4>1 DEF Smaller
    <3>3. len' \in 0 .. CAPACITY
      BY <3>1, <3>2
    <3> QED
      BY <2>1, <3>1, <3>2, <3>3, TakenShape DEF ReadBytes
  <2>2. CASE ReadEof(t)
    BY <2>2 DEF ReadEof, ring, TypeOK
  <2> QED
    BY <2>1, <2>2
<1>8. /\ UNCHANGED <<todo, stale, sent, refused>> /\ ended' \in BOOLEAN
  BY DEF ReadBytes, ReadEof, TypeOK
<1>9. TypeOK'
  BY <1>3, <1>5, <1>7, <1>8 DEF TypeOK, ends
<1> QED
  BY <1>6, <1>9

LEMMA WriteKeeps ==
  ASSUME IInv, NEW t \in Tasks, WriteBytes(t) \/ WriteBroken(t)
  PROVE  IInv'
<1> USE DEF IInv
<1>1. PICK where \in {"wake", "leave"}, next \in {"look", "leave"} :
        /\ Goto(t, where)
        /\ where = "wake" => after' = [after EXCEPT ![t] = next]
        /\ where = "leave" => after' = after
  BY DEF WriteBytes, WriteBroken, Changed
<1>2. where \in Where /\ next \in {"look", "leave", "out"}
  BY DEF Where
<1>3. /\ pc' \in [Tasks -> Where] /\ pc'[t] = where
      /\ after' \in [Tasks -> {"look", "leave", "out"}]
      /\ \A u \in Tasks \ {t} : Holds(u)' <=> Holds(u)
  <2>1. after' = after \/ after' = [after EXCEPT ![t] = next]
    BY <1>1
  <2> QED
    BY <1>1, <1>2, <2>1, MoveShape
<1>4. Holds(t) /\ Holds(t)'
  <2>1. pc[t] = "try"
    BY DEF WriteBytes, WriteBroken, At
  <2>2. where = "wake" => after'[t] = next
    BY <1>1 DEF TypeOK
  <2> QED
    BY <1>3, <2>1, <2>2 DEF Holds
<1>5. UNCHANGED ends
  BY DEF WriteBytes, WriteBroken
<1>6. CountsExact'
  BY <1>3, <1>4, <1>5, CountsKept
<1>7. /\ bytes' \in [0 .. (CAPACITY - 1) -> Nat] /\ len' \in 0 .. CAPACITY
      /\ head' = head /\ sent' \in Nat /\ todo' \in [Tasks -> Nat]
  <2>1. CASE WriteBytes(t)
    <3> DEFINE k == Smaller(todo[t], free)
    <3>1. k \in Nat /\ k <= free /\ k <= todo[t]
      BY PipeAssumption DEF Smaller, TypeOK, free
    <3>2. bytes' = Stored(k) /\ len' = len + k /\ sent' = sent + k /\ head' = head
      BY <2>1 DEF WriteBytes
    <3>3. todo' = [todo EXCEPT ![t] = @ - k]
      BY <2>1 DEF WriteBytes
    <3>4. todo[t] - k \in Nat
      BY <3>1 DEF TypeOK
    <3>5. todo' \in [Tasks -> Nat]
      BY <3>3, <3>4 DEF TypeOK
    <3>6. len + k \in 0 .. CAPACITY /\ sent + k \in Nat
      BY <3>1, PipeAssumption DEF TypeOK, free
    <3>7. bytes' \in [0 .. (CAPACITY - 1) -> Nat]
      BY <3>1, <3>2, StoredShape
    <3> QED
      BY <3>2, <3>5, <3>6, <3>7
  <2>2. CASE WriteBroken(t)
    BY <2>2 DEF WriteBroken, ring, TypeOK
  <2> QED
    BY <2>1, <2>2
<1>8. /\ UNCHANGED <<stale, received, ended>> /\ refused' \in BOOLEAN
  BY DEF WriteBytes, WriteBroken, TypeOK
<1>9. TypeOK'
  BY <1>3, <1>5, <1>7, <1>8 DEF TypeOK, ends
<1> QED
  BY <1>6, <1>9

LEMMA WakeKeeps ==
  ASSUME IInv, NEW t \in Tasks, WakePipe(t) \/ Bump(t) \/ WakeEvents(t)
  PROVE  IInv'
<1> USE DEF IInv
<1>1. after' = after
  BY DEF WakePipe, Bump, WakeEvents
<1>2. /\ pc' \in [Tasks -> Where]
      /\ \A u \in Tasks : Holds(u)' <=> Holds(u)
  <2>1. CASE WakePipe(t)
    <3>1. Awakened(SleepersOnPipe, t, "bump") /\ SleepersOnPipe \subseteq Tasks
      BY <2>1, PipeAssumption DEF WakePipe, SleepersOnPipe
    <3>2. "bump" \in Where
      BY DEF Where
    <3>3. /\ pc' \in [Tasks -> Where] /\ pc'[t] = "bump"
          /\ \A u \in Tasks \ {t} : Holds(u)' <=> Holds(u)
      BY <1>1, <3>1, <3>2, AwakenedShape
    <3>4. Holds(t)' <=> Holds(t)
      BY <1>1, <2>1, <3>3 DEF WakePipe, At, Holds
    <3> QED
      BY <3>3, <3>4
  <2>2. CASE Bump(t)
    <3>1. Goto(t, "futex") /\ "futex" \in Where
      BY <2>2 DEF Bump, Where
    <3>2. /\ pc' \in [Tasks -> Where] /\ pc'[t] = "futex"
          /\ \A u \in Tasks \ {t} : Holds(u)' <=> Holds(u)
      BY <1>1, <3>1, MoveShape
    <3>3. Holds(t)' <=> Holds(t)
      BY <1>1, <2>2, <3>2 DEF Bump, At, Holds
    <3> QED
      BY <3>2, <3>3
  <2>3. CASE WakeEvents(t)
    <3>1. after[t] \in {"look", "leave", "out"} /\ after[t] \in Where
      BY DEF TypeOK, Where
    <3>2. Awakened(Tasks \ Stdio, t, after[t])
      BY <2>3 DEF WakeEvents
    <3>3. /\ pc' \in [Tasks -> Where] /\ pc'[t] = after[t]
          /\ \A u \in Tasks \ {t} : Holds(u)' <=> Holds(u)
      BY <1>1, <3>1, <3>2, AwakenedShape
    <3>4. Holds(t)' <=> Holds(t)
      BY <1>1, <2>3, <3>1, <3>3 DEF WakeEvents, At, Holds
    <3> QED
      BY <3>3, <3>4
  <2> QED
    BY <2>1, <2>2, <2>3
<1>3. UNCHANGED <<ring, ends, todo, history>>
  BY DEF WakePipe, Bump, WakeEvents
<1>4. CountsExact'
  BY <1>2, <1>3, CountsKept
<1>5. stale' \subseteq Tasks
  BY DEF WakePipe, Bump, WakeEvents, TypeOK
<1>6. TypeOK'
  BY <1>1, <1>2, <1>3, <1>5 DEF TypeOK, ring, ends, history
<1> QED
  BY <1>4, <1>6

LEMMA LeaveKeeps ==
  ASSUME IInv, NEW t \in Tasks, Leave(t)
  PROVE  IInv'
<1> USE DEF IInv
<1>1. Goto(t, "wake") /\ after' = [after EXCEPT ![t] = "out"] /\ "wake" \in Where
  BY DEF Leave, DropWakes, Changed, Where
<1>2. /\ pc' \in [Tasks -> Where] /\ pc'[t] = "wake"
      /\ after' \in [Tasks -> {"look", "leave", "out"}]
      /\ \A u \in Tasks \ {t} : Holds(u)' <=> Holds(u)
  BY <1>1, MoveShape
<1>3. after'[t] = "out"
  BY <1>1 DEF TypeOK
<1>4. Holds(t) /\ ~Holds(t)'
  BY <1>2, <1>3 DEF Leave, At, Holds
<1>5. CountsExact'
  BY <1>2, <1>4, CallCounted DEF Leave
<1>6. readFds' \in Nat /\ writeFds' \in Nat
  BY DEF Leave, TypeOK
<1>7. readers' \in Nat /\ writers' \in Nat
  BY <1>5, <1>6, EndsAreNumbers
<1>8. todo' \in [Tasks -> Nat]
  BY DEF Leave, TypeOK
<1>9. TypeOK'
  BY <1>2, <1>7, <1>8 DEF TypeOK, Leave, ring, history
<1> QED
  BY <1>5, <1>9

LEMMA FdKeeps ==
  ASSUME IInv, NEW t \in Tasks, CloseFd(t) \/ DupFd(t)
  PROVE  IInv'
<1> USE DEF IInv
<1>1. /\ pc' \in [Tasks -> Where]
      /\ after' \in [Tasks -> {"look", "leave", "out"}]
      /\ \A u \in Tasks : Holds(u)' <=> Holds(u)
  <2>1. CASE CloseFd(t)
    <3>1. Goto(t, "wake") /\ after' = [after EXCEPT ![t] = "out"] /\ "wake" \in Where
      BY <2>1 DEF CloseFd, DropWakes, Changed, Where
    <3>2. /\ pc' \in [Tasks -> Where] /\ pc'[t] = "wake"
          /\ after' \in [Tasks -> {"look", "leave", "out"}]
          /\ \A u \in Tasks \ {t} : Holds(u)' <=> Holds(u)
      BY <3>1, MoveShape
    <3>3. after'[t] = "out"
      BY <3>1 DEF TypeOK
    <3>4. ~Holds(t) /\ ~Holds(t)'
      BY <2>1, <3>2, <3>3 DEF CloseFd, At, Holds
    <3> QED
      BY <3>2, <3>4
  <2>2. CASE DupFd(t)
    <3>1. pc' = pc /\ after' = after
      BY <2>2 DEF DupFd, caller
    <3> QED
      BY <3>1 DEF TypeOK, Holds
  <2> QED
    BY <2>1, <2>2
<1>2. PICK n \in {1, -1} : CountFds(t, n) /\ CountEnds(t, n)
  BY DEF CloseFd, DupFd
<1>3. CountsExact'
  BY <1>1, <1>2, FdCounted
<1>4. readFds' \in 0 .. MaxEnds /\ writeFds' \in 0 .. MaxEnds
  <2>1. readFds \in Int /\ writeFds \in Int /\ MaxEnds \in Int
    BY PipeAssumption DEF TypeOK
  <2>2. CASE CloseFd(t)
    BY <2>1, <2>2 DEF CloseFd, CountFds, Fds, TypeOK
  <2>3. CASE DupFd(t)
    BY <2>1, <2>3 DEF DupFd, CountFds, Fds, TypeOK
  <2> QED
    BY <2>2, <2>3
<1>5. readers' \in Nat /\ writers' \in Nat
  <2>1. readFds' \in Nat /\ writeFds' \in Nat
    BY <1>4, PipeAssumption
  <2> QED
    BY <1>3, <2>1, EndsAreNumbers
<1>6. UNCHANGED <<ring, todo, stale, history>>
  BY DEF CloseFd, DupFd, caller
<1>7. TypeOK'
  BY <1>1, <1>4, <1>5, <1>6 DEF TypeOK, ring, history
<1> QED
  BY <1>3, <1>7

LEMMA StutterKeeps ==
  ASSUME IInv, UNCHANGED vars
  PROVE  IInv'
<1>1. UNCHANGED <<ring, ends, caller, history>>
  BY DEF vars
<1>2. CountsExact'
  <2>1. \A u \in Tasks : Holds(u)' <=> Holds(u)
    BY <1>1 DEF caller, Holds
  <2> QED
    BY <1>1, <2>1, CountsKept
<1>3. TypeOK'
  BY <1>1 DEF IInv, TypeOK, ring, ends, caller, history
<1> QED
  BY <1>2, <1>3 DEF IInv

LEMMA Induction ==
  ASSUME IInv, [Next]_vars
  PROVE  IInv'
<1>1. ASSUME NEW t \in Tasks, Step(t) PROVE IInv'
  BY <1>1, WaitKeeps, ReadKeeps, WriteKeeps, WakeKeeps, LeaveKeeps DEF Step
<1>2. ASSUME NEW t \in Tasks, Timeout(t) PROVE IInv'
  BY <1>2, WaitKeeps
<1>3. ASSUME NEW t \in Tasks, Enter(t) PROVE IInv'
  BY <1>3, EnterKeeps
<1>4. ASSUME NEW t \in Tasks, CloseFd(t) \/ DupFd(t) PROVE IInv'
  BY <1>4, FdKeeps
<1>5. CASE Closed \/ UNCHANGED vars
  BY <1>5, StutterKeeps DEF Closed
<1> QED
  BY <1>1, <1>2, <1>3, <1>4, <1>5 DEF Next

LEMMA Invariance == Spec => []IInv
<1>1. IInv /\ [Next]_vars => IInv'
  BY Induction
<1> QED
  BY <1>1, InitKeeps, PTL DEF Spec

\* Whatever the tasks do, the state keeps its shape: the pointers stay inside
\* the ring and no count of ends goes below zero.
THEOREM PipeTypeCorrect == Spec => []TypeOK
<1>1. IInv => TypeOK
  BY DEF IInv
<1> QED
  BY <1>1, Invariance, PTL

\* The counts that the end of file stands on are as many as there are
\* descriptors and calls in progress, for any number of tasks.
THEOREM EndsExactlyCounted == Spec => []CountsExact
<1>1. IInv => CountsExact
  BY DEF IInv
<1> QED
  BY <1>1, Invariance, PTL

------------------------------------------------------------------------------
(***************************************************************************)
(* Nobody sleeps through a change.                                         *)
(***************************************************************************)

WInv == NobodySleepsThrough /\ NobodyDozesOff

Waking == {"wake", "bump", "futex"}

\* After a change of the pipe whoever made it is on the way to wake the others.
LEMMA ChangeWakes ==
  ASSUME NEW t \in Tasks, pc'[t] = "wake"
  PROVE  WInv'
<1>1. NobodySleepsThrough'
  BY DEF NobodySleepsThrough
<1>2. NobodyDozesOff'
  BY DEF NobodyDozesOff
<1> QED
  BY <1>1, <1>2 DEF WInv

\* A step that makes the pipe ready for nobody, made by a task that wakes
\* nobody: it falls asleep only if there is nothing new for it.
LEMMA QuietWInv ==
  ASSUME IInv, WInv, NEW t \in Tasks, pc[t] \notin Waking,
         \A u \in Tasks : Ready(u)' => Ready(u),
         \A u \in Tasks \ {t} : pc'[u] = pc[u],
         stale' = stale \/ (stale' = stale \ {t} /\ pc'[t] = "try"),
         pc'[t] = "asleep" => (Block(t) /\ ~SomethingNew(t)) \/ pc[t] = "asleep",
         pc'[t] = "block" => ~Ready(t) \/ pc[t] = "block"
  PROVE  WInv'
<1>1. \A u \in Tasks : pc[u] \in Waking => pc'[u] = pc[u]
  OBVIOUS
<1>2. NobodySleepsThrough'
  <2> SUFFICES ASSUME NEW v \in Tasks, pc'[v] = "asleep", Ready(v)'
               PROVE  \E u \in Tasks :
                        pc'[u] \in IF v \in Stdio THEN {"wake"} ELSE Waking
    BY DEF NobodySleepsThrough, At, Waking
  <2>1. Ready(v)
    OBVIOUS
  <2>2. \E u \in Tasks : pc[u] \in IF v \in Stdio THEN {"wake"} ELSE Waking
    <3>1. CASE pc[v] = "asleep"
      BY <2>1, <3>1 DEF WInv, NobodySleepsThrough, At, Waking
    <3>2. CASE pc[v] # "asleep"
      <4>1. v = t /\ Block(t) /\ ~SomethingNew(t)
        BY <3>2
      <4>2. v \notin Stdio /\ v \notin stale /\ pc[v] = "block"
        BY <2>1, <4>1 DEF SomethingNew, Block, At
      <4> QED
        BY <2>1, <4>2 DEF WInv, NobodyDozesOff, At, Waking
    <3> QED
      BY <3>1, <3>2
  <2> QED
    BY <1>1, <2>2 DEF Waking
<1>3. NobodyDozesOff'
  <2> SUFFICES ASSUME NEW v \in Tasks \ Stdio, pc'[v] = "block", v \notin stale', Ready(v)'
               PROVE  \E u \in Tasks : pc'[u] \in {"wake", "bump"}
    BY DEF NobodyDozesOff, At
  <2>1. Ready(v)
    OBVIOUS
  <2>2. pc[v] = "block" /\ v \notin stale
    BY <2>1
  <2>3. \E u \in Tasks : pc[u] \in {"wake", "bump"}
    BY <2>1, <2>2 DEF WInv, NobodyDozesOff, At
  <2> QED
    BY <1>1, <2>3 DEF Waking
<1> QED
  BY <1>2, <1>3 DEF WInv

\* More ends make nobody ready, and neither does a step that leaves pipe and
\* ends alone.
LEMMA ReadyKept ==
  ASSUME TypeOK, UNCHANGED ring, readers' \in Nat, writers' \in Nat,
         readers' >= readers, writers' >= writers
  PROVE  \A u \in Tasks : Ready(u)' => Ready(u)
BY DEF Ready, ring, free, TypeOK

LEMMA WaitWInv ==
  ASSUME IInv, WInv, NEW t \in Tasks,
         \/ Look(t) \/ WouldBlock(t) \/ Block(t) \/ Timeout(t)
         \/ ReadEof(t) \/ WriteBroken(t)
  PROVE  WInv'
<1> USE DEF IInv
<1>1. UNCHANGED <<ring, ends>>
  BY DEF Look, WouldBlock, Block, Timeout, ReadEof, WriteBroken
<1>2. \A u \in Tasks : Ready(u)' => Ready(u)
  BY <1>1, ReadyKept DEF ends, TypeOK
<1>3. PICK where \in {"look", "try", "block", "asleep", "leave"} : Goto(t, where)
  BY DEF Look, WouldBlock, Block, Timeout, ReadEof, WriteBroken, Resume
<1>4. pc'[t] = where /\ \A u \in Tasks \ {t} : pc'[u] = pc[u]
  BY <1>3 DEF Goto, TypeOK
<1>5. pc[t] \notin Waking
  BY DEF Look, WouldBlock, Block, Timeout, ReadEof, WriteBroken, At, Waking
<1>6. stale' = stale \/ (stale' = stale \ {t} /\ pc'[t] = "try")
  <2>1. CASE Look(t)
    BY <2>1 DEF Look, Goto, TypeOK
  <2>2. CASE WouldBlock(t) \/ Block(t) \/ Timeout(t)
    BY <2>2 DEF WouldBlock, Block, Timeout
  <2>3. CASE ReadEof(t) \/ WriteBroken(t)
    BY <2>3 DEF ReadEof, WriteBroken
  <2> QED
    BY <2>1, <2>2, <2>3
<1>7. pc'[t] = "asleep" => (Block(t) /\ ~SomethingNew(t)) \/ pc[t] = "asleep"
  <2> HAVE pc'[t] = "asleep"
  <2>1. Block(t)
    BY DEF Look, WouldBlock, Block, Timeout, ReadEof, WriteBroken, Goto, TypeOK
  <2>2. pc'[t] = IF SomethingNew(t) THEN Resume(t) ELSE "asleep"
    BY <2>1 DEF Block, Goto, TypeOK
  <2> QED
    BY <2>1, <2>2 DEF Resume
<1>8. pc'[t] = "block" => ~Ready(t) \/ pc[t] = "block"
  <2>1. CASE Look(t)
    BY <2>1 DEF Look, Goto, TypeOK
  <2>2. CASE WouldBlock(t)
    BY <2>2 DEF WouldBlock
  <2>3. CASE Block(t) \/ Timeout(t) \/ ReadEof(t) \/ WriteBroken(t)
    <3>1. pc'[t] # "block"
      BY <2>3 DEF Block, Timeout, ReadEof, WriteBroken, Goto, Resume, TypeOK
    <3> QED
      BY <3>1
  <2> QED
    BY <2>1, <2>2, <2>3
<1> QED
  BY <1>2, <1>4, <1>5, <1>6, <1>7, <1>8, QuietWInv

LEMMA OpenWInv ==
  ASSUME IInv, IInv', WInv, NEW t \in Tasks, Enter(t) \/ DupFd(t)
  PROVE  WInv'
<1> USE DEF IInv
<1>1. UNCHANGED <<ring, stale>>
  BY DEF Enter, DupFd, caller
<1>2. CountEnds(t, 1)
  BY DEF Enter, DupFd, CopyEnd
<1>3. readers' \in Nat /\ writers' \in Nat /\ readers' >= readers /\ writers' >= writers
  <2>1. readers \in Nat /\ writers \in Nat
    BY DEF TypeOK
  <2> QED
    BY <1>2, <2>1 DEF CountEnds
<1>4. \A u \in Tasks : Ready(u)' => Ready(u)
  BY <1>1, <1>3, ReadyKept
<1>5. /\ pc[t] = "out" /\ pc'[t] \in {"out", "try", "look"}
      /\ \A u \in Tasks \ {t} : pc'[u] = pc[u]
  BY DEF Enter, DupFd, At, Goto, Resume, caller, TypeOK
<1>6. pc[t] \notin Waking /\ pc'[t] # "asleep" /\ pc'[t] # "block"
  BY <1>5 DEF Waking
<1>7. stale' = stale \/ (stale' = stale \ {t} /\ pc'[t] = "try")
  BY <1>1
<1>8. pc'[t] = "asleep" => (Block(t) /\ ~SomethingNew(t)) \/ pc[t] = "asleep"
  BY <1>6
<1>9. pc'[t] = "block" => ~Ready(t) \/ pc[t] = "block"
  BY <1>6
<1> QED
  BY <1>4, <1>5, <1>6, <1>7, <1>8, <1>9, QuietWInv

LEMMA WakeWInv ==
  ASSUME IInv, WInv, NEW t \in Tasks, WakePipe(t) \/ Bump(t) \/ WakeEvents(t)
  PROVE  WInv'
<1> USE DEF IInv
<1>1. \A u \in Tasks : Ready(u)' <=> Ready(u)
  BY DEF WakePipe, Bump, WakeEvents, ring, ends, Ready, free
<1>2. CASE WakePipe(t)
  <2>1. Awakened(Stdio, t, "bump") /\ UNCHANGED after /\ Stdio \subseteq Tasks
    BY <1>2, PipeAssumption DEF WakePipe, SleepersOnPipe
  <2>2. /\ pc'[t] = "bump"
        /\ \A u \in Stdio : pc'[u] # "asleep"
    BY <2>1 DEF Awakened, At, Resume
  <2> QED
    BY <2>2 DEF WInv, NobodySleepsThrough, NobodyDozesOff, At
<1>3. CASE Bump(t)
  <2>1. pc[t] = "bump" /\ pc' = [pc EXCEPT ![t] = "futex"] /\ stale' = Tasks
    BY <1>3 DEF Bump, Goto, At
  <2>2. pc'[t] = "futex" /\ \A u \in Tasks \ {t} : pc'[u] = pc[u]
    BY <2>1 DEF TypeOK
  <2>3. NobodyDozesOff'
    BY <2>1 DEF NobodyDozesOff
  <2>4. NobodySleepsThrough'
    <3> SUFFICES ASSUME NEW v \in Tasks, pc'[v] = "asleep", Ready(v)
                 PROVE  \E u \in Tasks :
                          pc'[u] \in IF v \in Stdio THEN {"wake"} ELSE Waking
      BY <1>1 DEF NobodySleepsThrough, At, Waking
    <3>1. pc[v] = "asleep"
      BY <2>2
    <3>2. CASE v \in Stdio
      <4>1. PICK u \in Tasks : pc[u] = "wake"
        BY <3>1, <3>2 DEF WInv, NobodySleepsThrough, At
      <4> QED
        BY <2>1, <2>2, <3>2, <4>1
    <3>3. CASE v \notin Stdio
      BY <2>2, <3>3 DEF Waking
    <3> QED
      BY <3>2, <3>3
  <2> QED
    BY <2>3, <2>4 DEF WInv
<1>4. CASE WakeEvents(t)
  <2>1. Awakened(Tasks \ Stdio, t, after[t]) /\ UNCHANGED <<after, stale>> /\ pc[t] = "futex"
    BY <1>4 DEF WakeEvents, At
  <2>2. pc'[t] \in {"look", "leave", "out"}
    BY <2>1 DEF Awakened, TypeOK
  <2>3. \A u \in Tasks \ {t} : \/ pc'[u] = pc[u] /\ (u \notin Stdio => pc[u] # "asleep")
                               \/ pc[u] = "asleep" /\ pc'[u] \in {"try", "look"}
    BY <2>1 DEF Awakened, At, Resume
  <2>4. \A u \in Tasks : pc[u] \in {"wake", "bump"} => pc'[u] = pc[u]
    BY <2>1, <2>3
  <2>5. NobodySleepsThrough'
    <3> SUFFICES ASSUME NEW v \in Tasks, pc'[v] = "asleep", Ready(v)
                 PROVE  \E u \in Tasks :
                          pc'[u] \in IF v \in Stdio THEN {"wake"} ELSE Waking
      BY <1>1 DEF NobodySleepsThrough, At, Waking
    <3>1. pc[v] = "asleep" /\ v \in Stdio
      BY <2>2, <2>3
    <3>2. PICK u \in Tasks : pc[u] = "wake"
      BY <3>1 DEF WInv, NobodySleepsThrough, At
    <3> QED
      BY <2>4, <3>1, <3>2
  <2>6. NobodyDozesOff'
    <3> SUFFICES ASSUME NEW v \in Tasks \ Stdio, pc'[v] = "block", v \notin stale, Ready(v)
                 PROVE  \E u \in Tasks : pc'[u] \in {"wake", "bump"}
      BY <1>1, <2>1 DEF NobodyDozesOff, At
    <3>1. pc[v] = "block"
      BY <2>2, <2>3
    <3>2. PICK u \in Tasks : pc[u] \in {"wake", "bump"}
      BY <3>1 DEF WInv, NobodyDozesOff, At
    <3> QED
      BY <2>4, <3>2
  <2> QED
    BY <2>5, <2>6 DEF WInv
<1> QED
  BY <1>2, <1>3, <1>4

LEMMA ChangeWInv ==
  ASSUME IInv, NEW t \in Tasks, ReadBytes(t) \/ WriteBytes(t) \/ Leave(t) \/ CloseFd(t)
  PROVE  WInv'
<1>1. Goto(t, "wake")
  BY DEF ReadBytes, WriteBytes, Leave, CloseFd, DropWakes, Changed
<1>2. pc'[t] = "wake"
  BY <1>1 DEF Goto, IInv, TypeOK
<1> QED
  BY <1>2, ChangeWakes

LEMMA WInduction ==
  ASSUME IInv, IInv', WInv, [Next]_vars
  PROVE  WInv'
<1>1. ASSUME NEW t \in Tasks, Step(t) PROVE WInv'
  BY <1>1, WaitWInv, ChangeWInv, WakeWInv DEF Step
<1>2. ASSUME NEW t \in Tasks, Timeout(t) PROVE WInv'
  BY <1>2, WaitWInv
<1>3. ASSUME NEW t \in Tasks, Enter(t) \/ DupFd(t) PROVE WInv'
  BY <1>3, OpenWInv
<1>4. ASSUME NEW t \in Tasks, CloseFd(t) PROVE WInv'
  BY <1>4, ChangeWInv
<1>5. CASE Closed \/ UNCHANGED vars
  <2>1. UNCHANGED <<ring, ends, pc, stale>>
    BY <1>5 DEF Closed, vars, caller
  <2> QED
    BY <2>1 DEF WInv, NobodySleepsThrough, NobodyDozesOff, At, Ready, free, ring, ends
<1> QED
  BY <1>1, <1>2, <1>3, <1>4, <1>5 DEF Next

\* No lost wake-up, for any number of tasks of either kind: whoever sleeps on
\* a pipe that is ready for it is about to be woken by the task that made it so.
THEOREM NoSleepThroughChange == Spec => []NobodySleepsThrough
<1>1. Init => WInv
  <2> SUFFICES ASSUME Init PROVE WInv
    OBVIOUS
  <2>1. \A t \in Tasks : pc[t] = "out"
    BY DEF Init
  <2> QED
    BY <2>1 DEF WInv, NobodySleepsThrough, NobodyDozesOff, At
<1>2. IInv /\ IInv' /\ WInv /\ [Next]_vars => WInv'
  BY WInduction
<1>3. WInv => NobodySleepsThrough
  BY DEF WInv
<1> QED
  BY <1>1, <1>2, <1>3, Invariance, PTL DEF Spec

------------------------------------------------------------------------------
(***************************************************************************)
(* The ring: what was read, followed by what lies in the ring from head    *)
(* on, is what was written.                                                *)
(***************************************************************************)

RInv ==
  /\ Len(received) + len = sent
  /\ \A i \in 1 .. Len(received) : received[i] = i
  /\ \A j \in 0 .. (len - 1) : bytes[(head + j) % CAPACITY] = Len(received) + 1 + j

\* A writer inside a call has something to write until it is done.
TInv ==
  \A t \in Writers :
    \/ pc[t] \in {"look", "try", "block", "asleep"}
    \/ pc[t] \in Waking /\ after[t] = "look"
    => todo[t] > 0

\* A position that has run over the end of the ring, or behind its start, is
\* brought back.
LEMMA Around ==
  ASSUME NEW x \in Int
  PROVE  /\ 0 <= x /\ x < CAPACITY => x % CAPACITY = x
         /\ CAPACITY <= x /\ x < 2 * CAPACITY => x % CAPACITY = x - CAPACITY
         /\ -CAPACITY <= x /\ x < 0 => x % CAPACITY = x + CAPACITY
         /\ -(2 * CAPACITY) <= x /\ x < -CAPACITY => x % CAPACITY = x + 2 * CAPACITY
BY PipeAssumption

\* What a read takes out continues what was read before.
LEMMA TakenContinues ==
  ASSUME TypeOK, RInv, NEW k \in 0 .. len
  PROVE  \A i \in 1 .. Len(received \o Taken(k)) : (received \o Taken(k))[i] = i
<1>1. k \in Nat /\ len \in Nat /\ head \in Nat
  BY PipeAssumption DEF TypeOK
<1>2. Taken(k) \in Seq(Nat) /\ Len(Taken(k)) = k
  BY <1>1, TakenShape
<1>3. received \in Seq(Nat) /\ Len(received) \in Nat
  BY LenProperties DEF TypeOK
<1>4. ASSUME NEW j \in 1 .. k PROVE Taken(k)[j] = Len(received) + j
  <2>1. j - 1 \in 0 .. (len - 1) /\ head + (j - 1) = head + j - 1
    BY <1>1
  <2>2. bytes[(head + (j - 1)) % CAPACITY] = Len(received) + 1 + (j - 1)
    BY <2>1 DEF RInv
  <2>3. Taken(k)[j] = bytes[(head + j - 1) % CAPACITY]
    BY DEF Taken
  <2> QED
    BY <1>3, <2>1, <2>2, <2>3
<1>5. /\ Len(received \o Taken(k)) = Len(received) + k
      /\ \A i \in 1 .. (Len(received) + k) :
           (received \o Taken(k))[i] = IF i <= Len(received) THEN received[i]
                                       ELSE Taken(k)[i - Len(received)]
  BY <1>2, <1>3, ConcatProperties
<1>6. ASSUME NEW i \in 1 .. (Len(received) + k)
      PROVE  (received \o Taken(k))[i] = i
  <2>1. CASE i <= Len(received)
    BY <1>3, <1>5, <2>1 DEF RInv
  <2>2. CASE i > Len(received)
    <3>1. i - Len(received) \in 1 .. k
      BY <1>1, <1>3, <2>2
    <3> QED
      BY <1>3, <1>4, <1>5, <2>2, <3>1
  <2>3. i \in Int /\ Len(received) \in Int
    BY <1>3, <1>6
  <2>4. i <= Len(received) \/ i > Len(received)
    BY <2>3
  <2> QED
    BY <2>1, <2>2, <2>4
<1> QED
  BY <1>5, <1>6

\* After a read of k bytes the ring begins k places further on.
LEMMA TurnedHead ==
  ASSUME TypeOK, NEW k \in 0 .. len, NEW j \in 0 .. (len - k - 1)
  PROVE  (((head + k) % CAPACITY) + j) % CAPACITY = (head + (k + j)) % CAPACITY
<1>1. k \in Nat /\ j \in Nat /\ len \in 0 .. CAPACITY /\ head \in 0 .. (CAPACITY - 1)
      /\ CAPACITY \in Nat /\ k + j < CAPACITY
  BY PipeAssumption DEF TypeOK
<1>2. CASE head + k < CAPACITY
  <2>1. (head + k) % CAPACITY = head + k
    BY <1>1, <1>2, Around
  <2> QED
    BY <1>1, <2>1
<1>3. CASE head + k >= CAPACITY
  <2>1. (head + k) % CAPACITY = head + k - CAPACITY
    BY <1>1, <1>3, Around
  <2>2. (head + k - CAPACITY + j) % CAPACITY = head + k - CAPACITY + j
    BY <1>1, <1>3, Around
  <2>3. (head + (k + j)) % CAPACITY = head + (k + j) - CAPACITY
    BY <1>1, <1>3, Around
  <2> QED
    BY <1>1, <2>1, <2>2, <2>3
<1> QED
  BY <1>1, <1>2, <1>3

\* The place of the j-th byte from head on, as push finds it.
LEMMA PlaceOf ==
  ASSUME TypeOK, NEW j \in 0 .. (CAPACITY - 1)
  PROVE  LET i == (head + j) % CAPACITY
         IN  /\ i \in 0 .. (CAPACITY - 1)
             /\ j < len  => (i - (head + len)) % CAPACITY = CAPACITY + j - len
             /\ j >= len => (i - (head + len)) % CAPACITY = j - len
<1> DEFINE i == (head + j) % CAPACITY
<1>1. len \in 0 .. CAPACITY /\ head \in 0 .. (CAPACITY - 1) /\ CAPACITY \in Nat \ {0}
  BY PipeAssumption DEF TypeOK
<1>2. CASE head + j < CAPACITY
  <2>1. i = head + j
    BY <1>1, <1>2, Around
  <2>2. i - (head + len) = j - len
    BY <1>1, <2>1
  <2>3. j < len => (j - len) % CAPACITY = CAPACITY + j - len
    BY <1>1, Around
  <2>4. j >= len => (j - len) % CAPACITY = j - len
    BY <1>1, Around
  <2> QED
    BY <1>1, <1>2, <2>1, <2>2, <2>3, <2>4
<1>3. CASE head + j >= CAPACITY
  <2>1. i = head + j - CAPACITY
    BY <1>1, <1>3, Around
  <2>2. i - (head + len) = j - len - CAPACITY
    BY <1>1, <2>1
  <2>3. j < len => (j - len - CAPACITY) % CAPACITY = CAPACITY + j - len
    BY <1>1, Around
  <2>4. j >= len => (j - len - CAPACITY) % CAPACITY = j - len
    BY <1>1, Around
  <2>5. i \in 0 .. (CAPACITY - 1)
    BY <1>1, <1>3, <2>1
  <2> QED
    BY <2>2, <2>3, <2>4, <2>5
<1> QED
  BY <1>1, <1>2, <1>3

LEMMA ReadRInv ==
  ASSUME IInv, RInv, NEW t \in Tasks, ReadBytes(t)
  PROVE  /\ RInv'
         /\ \E k \in 1 .. len : received' = received \o Taken(k) /\ len' = len - k
<1> USE DEF IInv
<1>1. PICK want \in 1 .. CAPACITY :
        /\ received' = received \o Taken(Smaller(want, len))
        /\ head' = (head + Smaller(want, len)) % CAPACITY
        /\ len' = len - Smaller(want, len)
  BY DEF ReadBytes
<1> DEFINE k == Smaller(want, len)
<1>2. k \in 1 .. len /\ k \in 0 .. len /\ k \in Nat /\ len \in Nat
  BY PipeAssumption DEF Smaller, TypeOK, ReadBytes
<1>3. received' = received \o Taken(k) /\ head' = (head + k) % CAPACITY /\ len' = len - k
      /\ bytes' = bytes /\ sent' = sent
  BY <1>1 DEF ReadBytes
<1> HIDE DEF k
<1>4. Taken(k) \in Seq(Nat) /\ Len(Taken(k)) = k
  BY <1>2, TakenShape
<1>5. received \in Seq(Nat) /\ Len(received) \in Nat
  BY LenProperties DEF TypeOK
<1>6. Len(received') = Len(received) + k
  BY <1>3, <1>4, <1>5, ConcatProperties
<1>7. \A i \in 1 .. Len(received') : received'[i] = i
  BY <1>2, <1>3, TakenContinues
<1>8. ASSUME NEW j \in 0 .. (len' - 1)
      PROVE  bytes'[(head' + j) % CAPACITY] = Len(received') + 1 + j
  <2>1. j \in 0 .. (len - k - 1) /\ k + j \in 0 .. (len - 1)
    BY <1>2, <1>3, <1>8
  <2>2. (head' + j) % CAPACITY = (head + (k + j)) % CAPACITY
    BY <1>2, <1>3, <2>1, TurnedHead
  <2>3. bytes[(head + (k + j)) % CAPACITY] = Len(received) + 1 + (k + j)
    BY <2>1 DEF RInv
  <2>4. j \in Int
    BY <2>1
  <2> QED
    BY <1>2, <1>3, <1>5, <1>6, <2>2, <2>3, <2>4
<1>9. Len(received') + len' = sent'
  <2>1. Len(received) + len = sent
    BY DEF RInv
  <2>2. Len(received) + k + (len - k) = Len(received) + len
    BY <1>2, <1>5
  <2> QED
    BY <1>3, <1>6, <2>1, <2>2
<1> QED
  BY <1>2, <1>3, <1>7, <1>8, <1>9 DEF RInv

LEMMA WriteRInv ==
  ASSUME IInv, RInv, TInv, NEW t \in Tasks, WriteBytes(t)
  PROVE  /\ RInv'
         /\ sent' > sent /\ len' \in 0 .. CAPACITY /\ received' = received
<1> USE DEF IInv
<1> DEFINE k == Smaller(todo[t], free)
<1>1. bytes' = Stored(k) /\ len' = len + k /\ sent' = sent + k
      /\ head' = head /\ received' = received
  BY DEF WriteBytes
<1>2. todo[t] > 0 /\ free > 0
  BY DEF WriteBytes, At, TInv
<1>3. k \in 1 .. (CAPACITY - len)
  BY <1>2, PipeAssumption DEF Smaller, TypeOK, free
<1>4. len \in 0 .. CAPACITY /\ CAPACITY \in Nat /\ sent \in Nat
  BY PipeAssumption DEF TypeOK
<1> HIDE DEF k
<1>5. received \in Seq(Nat) /\ Len(received) \in Nat
  BY LenProperties DEF TypeOK
<1>6. ASSUME NEW j \in 0 .. (len + k - 1)
      PROVE  Stored(k)[(head + j) % CAPACITY] = Len(received) + 1 + j
  <2> DEFINE i == (head + j) % CAPACITY
  <2>1. j \in 0 .. (CAPACITY - 1) /\ j \in Int
    BY <1>3, <1>4, <1>6
  <2>2. /\ i \in 0 .. (CAPACITY - 1)
        /\ j < len  => (i - (head + len)) % CAPACITY = CAPACITY + j - len
        /\ j >= len => (i - (head + len)) % CAPACITY = j - len
    BY <2>1, PlaceOf
  <2>3. Stored(k)[i] = IF (i - (head + len)) % CAPACITY < k
                       THEN sent + 1 + ((i - (head + len)) % CAPACITY) ELSE bytes[i]
    BY <2>2 DEF Stored
  <2>4. CASE j < len
    <3>1. j \in 0 .. (len - 1) /\ ~(CAPACITY + j - len < k)
      BY <1>3, <1>4, <2>1, <2>4
    <3>2. bytes[i] = Len(received) + 1 + j
      BY <3>1 DEF RInv
    <3> QED
      BY <2>2, <2>3, <2>4, <3>1, <3>2
  <2>5. CASE j >= len
    <3>1. j - len < k /\ sent + 1 + (j - len) = Len(received) + 1 + j
      BY <1>3, <1>4, <1>5, <1>6, <2>5 DEF RInv
    <3> QED
      BY <2>2, <2>3, <2>5, <3>1
  <2> QED
    BY <1>4, <2>1, <2>4, <2>5
<1>7. Len(received) + (len + k) = sent + k /\ sent + k > sent /\ len + k \in 0 .. CAPACITY
  BY <1>3, <1>4, <1>5 DEF RInv
<1>8. RInv'
  <2>1. Len(received') + len' = sent'
    BY <1>1, <1>7
  <2>2. \A i \in 1 .. Len(received') : received'[i] = i
    BY <1>1 DEF RInv
  <2>3. \A j \in 0 .. (len' - 1) : bytes'[(head' + j) % CAPACITY] = Len(received') + 1 + j
    <3>1. \A j \in 0 .. (len + k - 1) :
            Stored(k)[(head + j) % CAPACITY] = Len(received) + 1 + j
      BY <1>6
    <3>2. len' - 1 = len + k - 1
      BY <1>1, <1>3, <1>4
    <3>3. bytes' = Stored(k) /\ head' = head /\ received' = received
      BY <1>1
    <3> QED
      BY <3>1, <3>2, <3>3
  <2> QED
    BY <2>1, <2>2, <2>3 DEF RInv
<1> QED
  BY <1>1, <1>7, <1>8

LEMMA TInvStep ==
  ASSUME IInv, IInv', TInv, [Next]_vars
  PROVE  TInv'
<1> USE DEF IInv
<1> SUFFICES ASSUME NEW v \in Writers,
                    \/ pc'[v] \in {"look", "try", "block", "asleep"}
                    \/ pc'[v] \in Waking /\ after'[v] = "look"
             PROVE  todo'[v] > 0
  BY DEF TInv
<1>1. v \in Tasks /\ v \notin Readers /\ todo[v] \in Nat
  BY PipeAssumption DEF Tasks, TypeOK
<1>2. ASSUME NEW t \in Tasks, t # v, Step(t) \/ Timeout(t) \/ Enter(t) \/ CloseFd(t) \/ DupFd(t)
      PROVE  todo'[v] > 0
  <2>1. after'[v] = after[v]
    BY <1>1, <1>2 DEF Step, Look, ReadBytes, ReadEof, WriteBytes, WriteBroken, WouldBlock,
       Block, WakePipe, Bump, WakeEvents, Leave, Timeout, Enter, CloseFd, DupFd, DropWakes,
       Changed, caller, TypeOK
  <2>2. todo'[v] = todo[v]
    <3>1. CASE Enter(t)
      <4>1. todo' = todo \/ \E n \in 1 .. (MaxBytes - Promised) : todo' = [todo EXCEPT ![t] = n]
        BY <3>1 DEF Enter
      <4> QED
        BY <1>1, <1>2, <4>1 DEF TypeOK
    <3>2. CASE ~Enter(t)
      BY <1>1, <1>2, <3>2 DEF Step, Look, ReadBytes, ReadEof, WriteBytes, WriteBroken,
         WouldBlock, Block, WakePipe, Bump, WakeEvents, Leave, Timeout, CloseFd, DupFd,
         caller, TypeOK
    <3> QED
      BY <3>1, <3>2
  <2>3. pc'[v] = pc[v] \/ (pc[v] = "asleep" /\ pc'[v] \in {"look", "try"})
    BY <1>1, <1>2 DEF Step, Look, ReadBytes, ReadEof, WriteBytes, WriteBroken, WouldBlock,
       Block, WakePipe, Bump, WakeEvents, Leave, Timeout, Enter, CloseFd, DupFd, DropWakes,
       Changed, Goto, Awakened, At, Resume, caller, TypeOK
  <2> QED
    BY <2>1, <2>2, <2>3 DEF TInv
<1>3. CASE Step(v) \/ Timeout(v) \/ Enter(v) \/ CloseFd(v) \/ DupFd(v)
  <2>1. CASE Look(v) \/ WouldBlock(v) \/ Block(v) \/ Timeout(v)
    <3>1. pc[v] \in {"look", "try", "block", "asleep"} /\ todo' = todo
      BY <2>1 DEF Look, WouldBlock, Block, Timeout, At
    <3> QED
      BY <3>1 DEF TInv
  <2>2. CASE WakePipe(v) \/ Bump(v)
    <3>1. /\ pc[v] \in Waking /\ pc'[v] \in Waking
          /\ todo' = todo /\ after' = after
      BY <1>1, <2>2 DEF WakePipe, Bump, At, Goto, Awakened, Waking, TypeOK
    <3> QED
      BY <3>1 DEF TInv, Waking
  <2>3. CASE WakeEvents(v)
    <3>1. /\ pc[v] \in Waking /\ pc'[v] = after[v]
          /\ todo' = todo /\ after' = after
      BY <1>1, <2>3 DEF WakeEvents, At, Awakened, Waking
    <3>2. after[v] \in {"look", "leave", "out"}
      BY <1>1 DEF TypeOK
    <3> QED
      BY <3>1, <3>2 DEF TInv, Waking
  <2>4. CASE WriteBytes(v)
    <3> DEFINE k == Smaller(todo[v], free)
    <3>1. /\ pc'[v] = "wake"
          /\ after'[v] = IF v \in Stdio \/ k = todo[v] THEN "leave" ELSE "look"
          /\ todo'[v] = todo[v] - k
      BY <1>1, <2>4 DEF WriteBytes, Changed, Goto, TypeOK
    <3>2. k # todo[v]
      BY <3>1
    <3>3. k \in Int /\ k <= todo[v]
      <4>1. todo[v] \in Nat
        BY <1>1 DEF TypeOK
      <4>2. free \in Int
        <5>1. CAPACITY \in Int /\ len \in Int
          BY <1>1, PipeAssumption DEF TypeOK
        <5> QED
          BY <5>1 DEF free
      <4> QED
        BY <4>1, <4>2 DEF Smaller
    <3> QED
      BY <1>1, <3>1, <3>2, <3>3
  <2>5. CASE WriteBroken(v)
    BY <1>1, <2>5 DEF WriteBroken, Goto, TypeOK, Waking
  <2>6. CASE Leave(v) \/ CloseFd(v)
    <3>1. pc'[v] = "wake" /\ after'[v] = "out"
      BY <1>1, <2>6 DEF Leave, CloseFd, DropWakes, Changed, Goto, TypeOK
    <3> QED
      BY <3>1
  <2>7. CASE DupFd(v)
    <3>1. pc' = pc /\ pc[v] = "out"
      BY <2>7 DEF DupFd, caller, At
    <3> QED
      BY <3>1 DEF Waking
  <2>8. CASE Enter(v)
    <3>1. PICK n \in 1 .. (MaxBytes - Promised) : todo' = [todo EXCEPT ![v] = n]
      BY <1>1, <2>8 DEF Enter
    <3>2. n > 0
      BY <3>1
    <3> QED
      BY <1>1, <3>1, <3>2 DEF TypeOK
  <2>9. ~ReadBytes(v) /\ ~ReadEof(v)
    BY <1>1 DEF ReadBytes, ReadEof
  <2> QED
    BY <1>3, <2>1, <2>2, <2>3, <2>4, <2>5, <2>6, <2>7, <2>8, <2>9 DEF Step
<1>4. CASE Closed \/ UNCHANGED vars
  BY <1>4 DEF Closed, vars, caller, TInv
<1> QED
  BY <1>2, <1>3, <1>4 DEF Next

LEMMA RInvStep ==
  ASSUME IInv, RInv, TInv, [Next]_vars
  PROVE  RInv'
<1>1. ASSUME NEW t \in Tasks, ReadBytes(t) PROVE RInv'
  BY <1>1, ReadRInv
<1>2. ASSUME NEW t \in Tasks, WriteBytes(t) PROVE RInv'
  BY <1>2, WriteRInv
<1>3. ASSUME UNCHANGED <<bytes, head, len, received, sent>> PROVE RInv'
  BY <1>3 DEF RInv
<1>4. ASSUME NEW t \in Tasks,
             Step(t) \/ Timeout(t) \/ Enter(t) \/ CloseFd(t) \/ DupFd(t),
             ~ReadBytes(t), ~WriteBytes(t)
      PROVE  UNCHANGED <<bytes, head, len, received, sent>>
  BY <1>4 DEF Step, Look, ReadEof, WriteBroken, WouldBlock, Block, WakePipe, Bump,
     WakeEvents, Leave, Timeout, Enter, CloseFd, DupFd, ring, history
<1>5. CASE Closed \/ UNCHANGED vars
  BY <1>3, <1>5 DEF Closed, vars, ring, history
<1> QED
  BY <1>1, <1>2, <1>3, <1>4, <1>5 DEF Next

------------------------------------------------------------------------------
(***************************************************************************)
(* The refinement: every step of the pipe is a step of the channel, or     *)
(* leaves the channel as it is.                                            *)
(***************************************************************************)

LEMMA InitMaps == Init => Abstract!Create
<1> SUFFICES ASSUME Init PROVE Abstract!Create
  OBVIOUS
<1>1. [i \in 1 .. sent |-> i] = <<>>
  BY DEF Init
<1> QED
  BY <1>1 DEF Init, Abstract!Create

\* The bytes written are the numbers up to sent.
LEMMA Numbers ==
  ASSUME NEW n \in Nat, NEW k \in 0 .. n
  PROVE  /\ [i \in 1 .. n |-> i] \in Seq(Nat) /\ Len([i \in 1 .. n |-> i]) = n
         /\ SubSeq([i \in 1 .. n |-> i], 1, k) = [i \in 1 .. k |-> i]
<1>1. [i \in 1 .. n |-> i] \in Seq(Nat) /\ Len([i \in 1 .. n |-> i]) = n
  BY IsASeq
<1>2. SubSeq([i \in 1 .. n |-> i], 1, k) = [i \in 1 .. k |-> i]
  BY <1>1, SubSeqProperties
<1> QED
  BY <1>1, <1>2

LEMMA ReadIsNumbers ==
  ASSUME NEW r \in Seq(Nat), NEW rest \in Nat, NEW all \in Nat, Len(r) + rest = all,
         \A i \in 1 .. Len(r) : r[i] = i
  PROVE  /\ Len(r) \in 0 .. all
         /\ r = [i \in 1 .. Len(r) |-> i]
<1>1. Len(r) \in Nat /\ DOMAIN r = 1 .. Len(r)
  BY LenProperties
<1>2. Len(r) \in 0 .. all
  BY <1>1
<1>3. r = [i \in 1 .. Len(r) |-> i]
  BY <1>1
<1> QED
  BY <1>2, <1>3

\* Whoever holds an end is one of those that are counted.
LEMMA HolderHasEnd ==
  ASSUME IInv, NEW t \in Tasks, Holds(t) \/ Fds(t) > 0
  PROVE  /\ t \in Readers => readers > 0
         /\ t \notin Readers => writers > 0
<1>1. /\ readers = readFds + Cardinality(HoldersOf(Readers))
      /\ writers = writeFds + Cardinality(HoldersOf(Writers))
      /\ Cardinality(HoldersOf(Readers)) \in Nat
      /\ Cardinality(HoldersOf(Writers)) \in Nat
  BY HoldersAreCounted
<1>2. readFds \in Nat /\ writeFds \in Nat
  BY PipeAssumption DEF IInv, TypeOK
<1>3. CASE Fds(t) > 0
  BY <1>1, <1>2, <1>3 DEF Fds
<1>4. CASE Holds(t)
  <2>1. ASSUME NEW S \in SUBSET Tasks, IsFiniteSet(S), t \in S
        PROVE  Cardinality(HoldersOf(S)) # 0
    <3>1. t \in HoldersOf(S) /\ HoldersOf(S) \subseteq S
      BY <1>4, <2>1 DEF HoldersOf
    <3>2. IsFiniteSet(HoldersOf(S))
      BY <2>1, <3>1, FS_Subset
    <3> QED
      BY <3>1, <3>2, FS_EmptySet
  <2>2. Readers \in SUBSET Tasks /\ Writers \in SUBSET Tasks /\ t \in Readers \cup Writers
    BY DEF Tasks
  <2>3. t \in Readers => Cardinality(HoldersOf(Readers)) # 0
    BY <2>1, <2>2, FiniteSides
  <2>4. t \notin Readers => Cardinality(HoldersOf(Writers)) # 0
    BY <2>1, <2>2, FiniteSides
  <2> QED
    BY <1>1, <1>2, <2>3, <2>4
<1> QED
  BY <1>3, <1>4

LEMMA WriteMaps ==
  ASSUME IInv, RInv, TInv, NEW t \in Tasks, WriteBytes(t)
  PROVE  Abstract!Write
<1> USE DEF IInv
<1>1. RInv' /\ sent' > sent /\ len' \in 0 .. CAPACITY /\ received' = received
  BY WriteRInv
<1>2. sent \in Nat /\ sent' \in Nat /\ len' \in Int /\ CAPACITY \in Int
  <2>1. sent \in Nat
    BY DEF TypeOK
  <2>2. Smaller(todo[t], free) \in Int /\ sent' = sent + Smaller(todo[t], free)
    BY PipeAssumption DEF WriteBytes, Smaller, free, TypeOK
  <2> QED
    BY <1>1, <2>1, <2>2, PipeAssumption
<1>3. Len(received) \in Nat /\ Len(received) + len' = sent'
  <2>1. Len(received) \in Nat
    BY LenProperties DEF TypeOK
  <2> QED
    BY <1>1, <2>1 DEF RInv
<1>4. t \notin Readers /\ Holds(t) /\ readers > 0
  BY PipeAssumption DEF WriteBytes, At, Holds
<1>5. writers > 0
  BY <1>4, HolderHasEnd
<1>6. /\ Len([i \in 1 .. sent |-> i]) = sent /\ Len([i \in 1 .. sent' |-> i]) = sent'
      /\ SubSeq([i \in 1 .. sent' |-> i], 1, sent) = [i \in 1 .. sent |-> i]
  <2>1. sent \in 0 .. sent /\ sent \in 0 .. sent'
    BY <1>1, <1>2
  <2> QED
    BY <1>2, <2>1, Numbers
<1>7. Abstract!Extends([i \in 1 .. sent' |-> i], [i \in 1 .. sent |-> i])
  BY <1>1, <1>6 DEF Abstract!Extends
<1>8. Len([i \in 1 .. sent' |-> i]) - Len(received) <= CAPACITY
  BY <1>1, <1>2, <1>3, <1>6
<1>9. UNCHANGED <<received, readers, writers, ended, refused>>
  BY DEF WriteBytes, ends
<1> QED
  BY <1>4, <1>5, <1>7, <1>8, <1>9 DEF Abstract!Write

LEMMA ReadMaps ==
  ASSUME IInv, IInv', RInv, RInv', NEW t \in Tasks, ReadBytes(t)
  PROVE  Abstract!Read
<1> USE DEF IInv
<1>1. PICK k \in 1 .. len : received' = received \o Taken(k)
  BY ReadRInv
<1>2. k \in Nat /\ k > 0
  BY <1>1, PipeAssumption DEF TypeOK
<1>3. Taken(k) \in Seq(Nat) /\ Len(Taken(k)) = k
  BY <1>2, TakenShape
<1>4. received \in Seq(Nat) /\ Len(received) \in Nat
  BY LenProperties DEF TypeOK
<1>5. Len(received') = Len(received) + k
  BY <1>1, <1>3, <1>4, ConcatProperties
<1>6. Len(received') > Len(received)
  BY <1>2, <1>4, <1>5
<1>7. Len(received) \in 0 .. sent /\ received = [i \in 1 .. Len(received) |-> i]
  <2>1. received \in Seq(Nat) /\ len \in Nat /\ sent \in Nat
    BY PipeAssumption DEF TypeOK
  <2> QED
    BY <2>1, ReadIsNumbers DEF RInv
<1>8. Len(received') \in 0 .. sent' /\ received' = [i \in 1 .. Len(received') |-> i]
  <2>1. received' \in Seq(Nat) /\ len' \in Nat /\ sent' \in Nat
    BY PipeAssumption DEF TypeOK
  <2>2. Len(received') + len' = sent' /\ \A i \in 1 .. Len(received') : received'[i] = i
    BY DEF RInv
  <2> QED
    BY <2>1, <2>2, ReadIsNumbers
<1>9. sent' = sent /\ sent \in Nat
  BY DEF ReadBytes, TypeOK
<1>10. SubSeq(received', 1, Len(received)) = received
  <2>1. Len(received) \in 0 .. Len(received') /\ Len(received') \in Nat
    BY <1>2, <1>4, <1>5
  <2>2. SubSeq([i \in 1 .. Len(received') |-> i], 1, Len(received))
          = [i \in 1 .. Len(received) |-> i]
    BY <2>1, Numbers
  <2> QED
    BY <1>7, <1>8, <2>2
<1>11. /\ SubSeq([i \in 1 .. sent |-> i], 1, Len(received')) = received'
       /\ Len(received') <= Len([i \in 1 .. sent |-> i])
  <2>1. Len(received') \in 0 .. sent
    BY <1>8, <1>9
  <2>2. /\ Len([i \in 1 .. sent |-> i]) = sent
        /\ SubSeq([i \in 1 .. sent |-> i], 1, Len(received'))
             = [i \in 1 .. Len(received') |-> i]
    BY <1>9, <2>1, Numbers
  <2> QED
    BY <1>8, <1>9, <2>1, <2>2
<1>12. t \in Readers /\ Holds(t)
  BY DEF ReadBytes, At, Holds
<1>13. readers > 0
  BY <1>12, HolderHasEnd
<1>14. Abstract!Extends(received', received)
  BY <1>6, <1>10 DEF Abstract!Extends
<1>15. UNCHANGED <<sent, readers, writers, ended, refused>>
  BY DEF ReadBytes, ends
<1> QED
  BY <1>11, <1>13, <1>14, <1>15 DEF Abstract!Read

LEMMA ReadEofMaps ==
  ASSUME IInv, RInv, NEW t \in Tasks, ReadEof(t)
  PROVE  Abstract!ReadEnd
<1> USE DEF IInv
<1>1. t \in Readers /\ Holds(t) /\ writers = 0 /\ len = 0
  BY DEF ReadEof, At, Holds
<1>2. readers > 0
  BY <1>1, HolderHasEnd
<1>3. Len(received) \in Nat /\ Len(received) + len = sent
  BY LenProperties DEF TypeOK, RInv
<1>4. Len(received) = sent
  BY <1>1, <1>3
<1>5. received = [i \in 1 .. sent |-> i]
  <2>1. received \in Seq(Nat) /\ len \in Nat /\ sent \in Nat
    BY PipeAssumption DEF TypeOK
  <2> QED
    BY <1>4, <2>1, ReadIsNumbers DEF RInv
<1>6. ended' = TRUE /\ UNCHANGED <<sent, received, readers, writers, refused>>
  BY DEF ReadEof, ends
<1> QED
  BY <1>1, <1>2, <1>5, <1>6 DEF Abstract!ReadEnd

LEMMA WriteBrokenMaps ==
  ASSUME IInv, NEW t \in Tasks, WriteBroken(t)
  PROVE  Abstract!WriteRefused
<1>1. t \notin Readers /\ Holds(t) /\ readers = 0
  BY PipeAssumption DEF WriteBroken, At, Holds
<1>2. writers > 0
  BY <1>1, HolderHasEnd
<1>3. refused' = TRUE /\ UNCHANGED <<sent, received, readers, writers, ended>>
  BY DEF WriteBroken, ends
<1> QED
  BY <1>1, <1>2, <1>3 DEF Abstract!WriteRefused

LEMMA EndsMap ==
  ASSUME IInv, NEW t \in Tasks, Enter(t) \/ Leave(t) \/ CloseFd(t) \/ DupFd(t)
  PROVE  Abstract!Ends
<1> USE DEF IInv
<1>1. Holds(t) \/ Fds(t) > 0
  <2>1. Fds(t) \in Int /\ MaxEnds \in Int
    BY PipeAssumption DEF Fds, TypeOK
  <2> QED
    BY <2>1 DEF Enter, Leave, CloseFd, DupFd, At, Holds
<1>2. (t \in Readers => readers > 0) /\ (t \notin Readers => writers > 0)
  BY <1>1, HolderHasEnd
<1>3. CountEnds(t, 1) \/ CountEnds(t, -1)
  BY DEF Enter, Leave, CloseFd, DupFd, CopyEnd
<1>4. readers + (-1) = readers - 1 /\ writers + (-1) = writers - 1
  BY DEF TypeOK
<1>5. UNCHANGED <<sent, received, ended, refused>>
  BY DEF Enter, Leave, CloseFd, DupFd, history
<1> QED
  BY <1>2, <1>3, <1>4, <1>5 DEF CountEnds, Abstract!Ends, Abstract!Open, Abstract!Close

\* What only moves tasks is invisible to the channel.
LEMMA MovesAreInvisible ==
  ASSUME NEW t \in Tasks,
         \/ Look(t) \/ WouldBlock(t) \/ Block(t) \/ Timeout(t)
         \/ WakePipe(t) \/ Bump(t) \/ WakeEvents(t)
  PROVE  UNCHANGED Abstract!chan
<1>1. UNCHANGED <<ends, history>>
  BY DEF Look, WouldBlock, Block, Timeout, WakePipe, Bump, WakeEvents
<1> QED
  BY <1>1 DEF ends, history, Abstract!chan

ChannelStep ==
  Abstract!Write \/ Abstract!Read \/ Abstract!ReadEnd \/ Abstract!WriteRefused
    \/ Abstract!Ends

LEMMA StepMaps ==
  ASSUME IInv, IInv', RInv, RInv', TInv, [Next]_vars
  PROVE  ChannelStep \/ UNCHANGED Abstract!chan
<1>1. ASSUME NEW t \in Tasks, Step(t) PROVE ChannelStep \/ UNCHANGED Abstract!chan
  BY <1>1, WriteMaps, ReadMaps, ReadEofMaps, WriteBrokenMaps, EndsMap, MovesAreInvisible
     DEF Step, ChannelStep
<1>2. ASSUME NEW t \in Tasks, Timeout(t) PROVE UNCHANGED Abstract!chan
  BY <1>2, MovesAreInvisible
<1>3. ASSUME NEW t \in Tasks, Enter(t) \/ CloseFd(t) \/ DupFd(t) PROVE ChannelStep
  BY <1>3, EndsMap DEF ChannelStep
<1>4. CASE Closed \/ UNCHANGED vars
  BY <1>4 DEF Closed, vars, ends, history, Abstract!chan
<1> QED
  BY <1>1, <1>2, <1>3, <1>4 DEF Next

\* The pipe implements the channel, for every capacity and any number of
\* tasks: the ring with its wrap-around keeps the order and loses nothing, and
\* end of file and refusal are answered only when they are final.
THEOREM PipeImplementsChannel == Spec => ImplementsChannel
<1> DEFINE All == IInv /\ RInv /\ TInv
<1>1. Init => Abstract!Create
  BY InitMaps
<1>2. Init => All
  <2> SUFFICES ASSUME Init PROVE All
    OBVIOUS
  <2>1. RInv
    BY DEF Init, RInv
  <2>2. TInv
    BY DEF Init, TInv, Waking, Tasks
  <2> QED
    BY <2>1, <2>2, InitKeeps
<1>3. All /\ [Next]_vars => All'
  <2> SUFFICES ASSUME All, [Next]_vars PROVE All'
    OBVIOUS
  <2>1. IInv'
    BY Induction
  <2> QED
    BY <2>1, RInvStep, TInvStep
<1>4. All /\ All' /\ [Next]_vars =>
        [Abstract!Write \/ Abstract!Read \/ Abstract!ReadEnd \/ Abstract!WriteRefused
           \/ Abstract!Ends]_(Abstract!chan)
  BY StepMaps DEF ChannelStep
<1> HIDE DEF All
<1> QED
  BY <1>1, <1>2, <1>3, <1>4, PTL DEF Spec, ImplementsChannel, Abstract!ChannelSpec
==============================================================================
