----------------------------- MODULE KillProofs ------------------------------
(***************************************************************************)
(* Proofs about Kill: a task never stands on a destroyed address space,    *)
(* for any number of slots, tasks, programs, kills and execve calls.       *)
(*                                                                         *)
(* A task that is in its space has its program in its own slot of PROGRAMS *)
(* (Placed), and no two tasks share a slot (OwnSlot), so the program has a *)
(* reference.  That the space is still the program's space rests on        *)
(* execve: when the main thread is about to replace it, every other thread *)
(* has left it for good, or one was overlooked (Alone).                    *)
(***************************************************************************)
EXTENDS Kill, TLAPS

\* Where a task may stand on its program's tables.
InSpace == {"user", "returning", "asking", "asked", "blocked", "calling",
            "standing"} \cup Leaving

Entered == InSpace \cup {"clearing"}

Here(t) == task[t].pc \notin {"none", "gone"}

\* A task that was ever started has a program, and the program a space.
Begun ==
  \A t \in Ids : task[t] # NoTask => /\ task[t].of \in Processes
                                     /\ program[task[t].of].space # 0

NoneYet == \A t \in Ids : task[t].pc = "none" => task[t] = NoTask

OwnSlot ==
  \A t, u \in Ids : Here(t) /\ Here(u) /\ task[t].slot = task[u].slot => t = u

Placed ==
  \A t \in Ids : task[t].pc \in Entered => PROGRAMS[task[t].slot] = task[t].of

OneMain ==
  \A t, u \in Ids :
    task[t].main /\ task[u].main /\ task[t].of = task[u].of => t = u

Leads == \A t \in Ids : task[t].pc \in Leaving => task[t].main

StandsInside == \A t \in Ids : on[t] # 0 => task[t].pc \in InSpace

\* The space a task is on, or is about to enter, is its program's.
Current ==
  \A t \in Ids :
    \/ task[t].of \in overlooked
    \/ /\ on[t] # 0 => on[t] = program[task[t].of].space
       /\ task[t].pc = "rooted" => task[t].root = program[task[t].of].space

\* Whoever replaces the space is alone.
Over == {"none", "dropping", "finished", "gone"}

Alone ==
  \A t \in Ids :
    task[t].pc = "replacing" =>
      \/ task[t].of \in overlooked
      \/ \A u \in Ids \ {t} : task[u].of = task[t].of => task[u].pc \in Over

KillerHolds ==
  /\ killer.pc # "idle" => killer.id \in Ids
  /\ killer.pc \in {"held", "raised"} => killer.of \in Processes

IInv ==
  /\ TypeOK /\ KillerHolds
  /\ Begun /\ NoneYet /\ OwnSlot /\ Placed /\ OneMain /\ Leads
  /\ StandsInside /\ Current /\ Alone

------------------------------------------------------------------------------
\* Init establishes the invariant.
LEMMA InitIInv == Init => IInv
<1> SUFFICES ASSUME Init PROVE IInv
  OBVIOUS
<1>1. TypeOK
  <2>1. 1 \in Slots
    BY KillAssumption DEF Slots
  <2>2. NoTask \in Task
    BY <2>1 DEF NoTask, Task, Places
  <2>3. NoKiller \in [pc : {"idle", "found", "held", "raised"},
                      id : Ids \cup {0}, slot : Slots, of : Processes \cup {0}]
    BY <2>1 DEF NoKiller
  <2> QED
    BY <2>2, <2>3, KillAssumption DEF Init, TypeOK
<1>2. KillerHolds
  BY DEF Init, KillerHolds, NoKiller
<1>3. Begun /\ NoneYet /\ OwnSlot /\ Placed /\ OneMain /\ Leads
  BY DEF Init, Begun, NoneYet, OwnSlot, Placed, OneMain, Leads, NoTask, Here,
         Entered, InSpace, Leaving
<1>4. StandsInside /\ Current /\ Alone
  BY DEF Init, StandsInside, Current, Alone, NoTask
<1> QED
  BY <1>1, <1>2, <1>3, <1>4 DEF IInv
------------------------------------------------------------------------------
\* A wake-up touches the pc of tasks that are blocked, and nothing else.
LEMMA WakeShape ==
  ASSUME TypeOK, NEW T \in SUBSET Ids, NEW next \in [Ids -> Task], Wake(T, next)
  PROVE  /\ task' \in [Ids -> Task]
         /\ deaf' \subseteq Ids
         /\ \A u \in Ids :
              \/ task'[u] = next[u]
              \/ /\ task[u].pc = "blocked"
                 /\ task'[u].pc \in {"asking", "asked", "returning"}
                 /\ task'[u].slot = task[u].slot /\ task'[u].of = task[u].of
                 /\ task'[u].main = task[u].main /\ task'[u].root = task[u].root
<1>1. \A call : AfterWaking(call) \in {"asking", "asked", "returning"}
  BY DEF AfterWaking
<1>2. {"asking", "asked", "returning"} \subseteq Places
  BY DEF Places
<1>3. ASSUME NEW u \in Ids PROVE [task[u] EXCEPT !.pc = AfterWaking(task[u].call)] \in Task
  <2>1. AfterWaking(task[u].call) \in Places
    BY <1>1, <1>2
  <2>2. \A r \in Task, pc \in Places : [r EXCEPT !.pc = pc] \in Task
    BY DEF Task
  <2> QED
    BY <2>1, <2>2 DEF TypeOK
<1> DEFINE woken == [t \in Ids |->
                      IF t \in T /\ Asleep(t)
                      THEN [task[t] EXCEPT !.pc = AfterWaking(task[t].call)]
                      ELSE next[t]]
<1>4. CASE task' = woken /\ deaf' = deaf \ T
  <2>1. woken \in [Ids -> Task]
    BY <1>3
  <2>2. ASSUME NEW u \in Ids, ~(u \in T /\ Asleep(u)) PROVE task'[u] = next[u]
    BY <1>4, <2>2
  <2>3. ASSUME NEW u \in Ids, u \in T /\ Asleep(u)
        PROVE  /\ task[u].pc = "blocked"
               /\ task'[u].pc \in {"asking", "asked", "returning"}
               /\ task'[u].slot = task[u].slot /\ task'[u].of = task[u].of
               /\ task'[u].main = task[u].main /\ task'[u].root = task[u].root
    <3>1. task'[u] = [task[u] EXCEPT !.pc = AfterWaking(task[u].call)]
      BY <1>4, <2>3
    <3>2. task[u] \in Task
      BY DEF TypeOK
    <3> QED
      BY <3>1, <3>2, <1>1, <2>3 DEF Asleep, Task
  <2> QED
    BY <1>4, <2>1, <2>2, <2>3 DEF TypeOK
<1>5. CASE task' = next /\ deaf' = deaf \cup {t \in T : Unwakeable(t)}
  BY <1>5 DEF TypeOK
<1> QED
  BY <1>4, <1>5 DEF Wake
------------------------------------------------------------------------------
\* Most steps only move tasks about inside their spaces: such a step keeps
\* everything the invariant says of slots, programs and spaces.
Moves(u) ==
  /\ task[u].pc \in InSpace \ {"replacing"}
  /\ task'[u].pc \in InSpace \ {"replacing"}
  /\ task'[u].pc \in Leaving => task[u].main \/ task[u].pc \in Leaving
  /\ task'[u].slot = task[u].slot /\ task'[u].of = task[u].of
  /\ task'[u].main = task[u].main /\ task'[u].root = task[u].root

Quiet ==
  /\ PROGRAMS' = PROGRAMS /\ on' = on
  /\ \A p \in Processes : program'[p].space = program[p].space
  /\ overlooked \subseteq overlooked'
  /\ \A u \in Ids : task'[u] = task[u] \/ Moves(u)

LEMMA QuietKeeps ==
  ASSUME IInv, Quiet
  PROVE  /\ Begun' /\ NoneYet' /\ OwnSlot' /\ Placed' /\ OneMain' /\ Leads'
         /\ StandsInside' /\ Current' /\ Alone'
<1> USE DEF IInv
<1>1. \A u \in Ids : /\ task'[u].slot = task[u].slot /\ task'[u].of = task[u].of
                     /\ task'[u].main = task[u].main /\ task'[u].root = task[u].root
  BY DEF Quiet, Moves
<1>2. \A u \in Ids : \/ task'[u].pc = task[u].pc
                     \/ /\ task[u].pc \in InSpace \ {"replacing"}
                        /\ task'[u].pc \in InSpace \ {"replacing"}
  BY DEF Quiet, Moves
<1>3. \A u \in Ids : Here(u)' <=> Here(u)
  BY <1>2 DEF Here, InSpace, Leaving
<1>4. Begun'
  <2> SUFFICES ASSUME NEW u \in Ids, (task[u] # NoTask)'
               PROVE  task'[u].of \in Processes /\ program'[task'[u].of].space # 0
    BY DEF Begun
  <2>1. task[u] # NoTask
    BY DEF Quiet, Moves, NoTask, InSpace, Leaving
  <2>2. task[u].of \in Processes /\ program[task[u].of].space # 0
    BY <2>1 DEF Begun
  <2> QED
    BY <1>1, <2>2 DEF Quiet
<1>5. NoneYet'
  BY DEF Quiet, Moves, NoneYet, NoTask, InSpace, Leaving
<1>6. OwnSlot'
  BY <1>1, <1>3 DEF OwnSlot
<1>7. Placed'
  BY <1>1, <1>2 DEF Placed, Quiet, Entered
<1>8. OneMain'
  BY <1>1 DEF OneMain
<1>9. Leads'
  BY <1>1 DEF Leads, Quiet, Moves
<1>10. StandsInside'
  BY <1>2 DEF StandsInside, Quiet
<1>11. Current'
  <2> SUFFICES ASSUME NEW u \in Ids, u \in Ids,
                      task'[u].of \notin overlooked'
               PROVE  /\ on'[u] # 0 => on'[u] = program'[task'[u].of].space
                      /\ (task[u].pc = "rooted")'
                           => task'[u].root = program'[task'[u].of].space
    BY DEF Current
  <2>1. /\ on[u] # 0 => on[u] = program[task[u].of].space
        /\ task[u].pc = "rooted" => task[u].root = program[task[u].of].space
    BY <1>1 DEF Current, Quiet
  <2>2. on[u] # 0 \/ task[u].pc = "rooted" => task[u] # NoTask
    BY DEF StandsInside, InSpace, Leaving, NoTask
  <2>3. on[u] # 0 \/ task[u].pc = "rooted" => task[u].of \in Processes
    BY <2>2 DEF Begun
  <2>4. (task[u].pc = "rooted")' => task[u].pc = "rooted"
    BY <1>2 DEF InSpace, Leaving
  <2> QED
    BY <1>1, <2>1, <2>3, <2>4 DEF Quiet
<1>12. Alone'
  <2> SUFFICES ASSUME NEW t \in Ids, (task[t].pc = "replacing")',
                      task'[t].of \notin overlooked',
                      NEW u \in Ids \ {t}, task'[u].of = task'[t].of
               PROVE  task'[u].pc \in Over
    BY DEF Alone
  <2>1. task[t].pc = "replacing" /\ task[t].of \notin overlooked
    BY <1>1, <1>2 DEF Quiet
  <2>2. task[u].pc \in Over
    BY <1>1, <2>1 DEF Alone
  <2> QED
    BY <1>2, <2>2 DEF Over, InSpace, Leaving
<1> QED
  BY <1>4, <1>5, <1>6, <1>7, <1>8, <1>9, <1>10, <1>11, <1>12
------------------------------------------------------------------------------
\* The three ways an action writes the entry of one task.
LEMMA GotoShape ==
  ASSUME TypeOK, NEW t \in Ids, NEW pc \in Places, Goto(t, pc)
  PROVE  /\ task' \in [Ids -> Task]
         /\ \A u \in Ids \ {t} : task'[u] = task[u]
         /\ task'[t].pc = pc /\ task'[t].call = task[t].call
         /\ task'[t].slot = task[t].slot /\ task'[t].of = task[t].of
         /\ task'[t].main = task[t].main /\ task'[t].root = task[t].root
<1> DEFINE entry == [task[t] EXCEPT !.pc = pc]
<1>1. task \in [Ids -> Task] /\ task[t] \in Task
  BY DEF TypeOK
<1>2. /\ entry \in Task /\ entry.pc = pc /\ entry.call = task[t].call
      /\ entry.slot = task[t].slot /\ entry.of = task[t].of
      /\ entry.main = task[t].main /\ entry.root = task[t].root
  BY <1>1 DEF Task
<1>3. task' = [task EXCEPT ![t] = entry]
  BY DEF Goto
<1> HIDE DEF entry
<1> QED
  BY <1>1, <1>2, <1>3

LEMMA CallShape ==
  ASSUME TypeOK, NEW t \in Ids, NEW pc \in Places,
         NEW call \in Waits \cup {"none", "end", "exec"},
         NEW next, next = [task EXCEPT ![t].pc = pc, ![t].call = call]
  PROVE  /\ next \in [Ids -> Task]
         /\ \A u \in Ids \ {t} : next[u] = task[u]
         /\ next[t].pc = pc
         /\ next[t].slot = task[t].slot /\ next[t].of = task[t].of
         /\ next[t].main = task[t].main /\ next[t].root = task[t].root
<1> DEFINE entry == [task[t] EXCEPT !.pc = pc, !.call = call]
<1>1. task \in [Ids -> Task] /\ task[t] \in Task
  BY DEF TypeOK
<1>2. /\ entry \in Task /\ entry.pc = pc
      /\ entry.slot = task[t].slot /\ entry.of = task[t].of
      /\ entry.main = task[t].main /\ entry.root = task[t].root
  BY <1>1 DEF Task
<1>3. next = [task EXCEPT ![t] = entry]
  OBVIOUS
<1> HIDE DEF entry
<1> QED
  BY <1>1, <1>2, <1>3

LEMMA LeftShape ==
  ASSUME TypeOK, NEW t \in Ids
  PROVE  /\ Left(t) \in [Ids -> Task]
         /\ \A u \in Ids \ {t} : Left(t)[u] = task[u]
         /\ Left(t)[t].pc = IF task[t].main THEN "listing" ELSE "standing"
         /\ Left(t)[t].slot = task[t].slot /\ Left(t)[t].of = task[t].of
         /\ Left(t)[t].main = task[t].main /\ Left(t)[t].root = task[t].root
<1> DEFINE pc == IF task[t].main THEN "listing" ELSE "standing"
<1>1. pc \in Places
  BY DEF Places, Leaving
<1>2. Left(t) = [task EXCEPT ![t].pc = pc, ![t].call = "end"]
  BY DEF Left
<1> HIDE DEF pc
<1>3. /\ Left(t) \in [Ids -> Task]
      /\ \A u \in Ids \ {t} : Left(t)[u] = task[u]
      /\ Left(t)[t].pc = pc
      /\ Left(t)[t].slot = task[t].slot /\ Left(t)[t].of = task[t].of
      /\ Left(t)[t].main = task[t].main /\ Left(t)[t].root = task[t].root
  BY <1>1, <1>2, CallShape
<1> QED
  BY <1>3 DEF pc

\* Raising a flag changes no space, and only tells of tasks that sleep.
LEMMA FlagShape ==
  ASSUME TypeOK, NEW p, NEW named, Flag(p, named)
  PROVE  /\ program' \in [Processes -> [kill : BOOLEAN, space : Nat]]
         /\ \A q \in Processes : program'[q].space = program[q].space
         /\ deaf' \subseteq Ids
<1>1. /\ program \in [Processes -> [kill : BOOLEAN, space : Nat]]
      /\ program' = [program EXCEPT ![p].kill = TRUE]
  BY DEF Flag, TypeOK
<1>2. /\ program' \in [Processes -> [kill : BOOLEAN, space : Nat]]
      /\ \A q \in Processes : program'[q].space = program[q].space
  BY <1>1
<1>3. deaf' \subseteq Ids
  BY DEF TypeOK, Flag, Threads
<1> QED
  BY <1>2, <1>3
------------------------------------------------------------------------------
\* The quiet steps, each with its type.
LEMMA WaitSteps ==
  ASSUME IInv, NEW t \in Ids,
         \/ BeginWait(t) \/ Ask(t) \/ Sleep(t) \/ TimeUp(t) \/ Event(t)
         \/ CheckKill(t) \/ Exit(t)
  PROVE  TypeOK' /\ KillerHolds' /\ Quiet
<1> USE DEF IInv
<1>1. CASE BeginWait(t)
  <2>1. PICK call \in IF task[t].main THEN MainCalls ELSE ThreadCalls :
          task' = [task EXCEPT ![t].call = call,
                               ![t].pc = IF call \in Asks THEN "asking" ELSE "asked"]
    BY <1>1 DEF BeginWait
  <2> DEFINE pc == IF call \in Asks THEN "asking" ELSE "asked"
  <2>2. pc \in {"asking", "asked"} /\ pc \in Places
    BY DEF Places
  <2>3. call \in Waits
    BY KillAssumption DEF Waits
  <2>4. task' = [task EXCEPT ![t].pc = pc, ![t].call = call]
    BY <2>1 DEF TypeOK, Task
  <2> HIDE DEF pc
  <2>5. /\ task' \in [Ids -> Task]
        /\ \A u \in Ids \ {t} : task'[u] = task[u]
        /\ task'[t].pc = pc
        /\ task'[t].slot = task[t].slot /\ task'[t].of = task[t].of
        /\ task'[t].main = task[t].main /\ task'[t].root = task[t].root
    BY <2>2, <2>3, <2>4, CallShape
  <2>6. TypeOK' /\ KillerHolds'
    BY <1>1, <2>5 DEF BeginWait, TypeOK, KillerHolds
  <2>7. Moves(t)
    BY <1>1, <2>2, <2>5 DEF BeginWait, Moves, InSpace, Leaving
  <2> QED
    BY <1>1, <2>5, <2>6, <2>7 DEF BeginWait, Quiet
<1>2. CASE Ask(t)
  <2> DEFINE pc == IF kill_pending(t) THEN "returning" ELSE "asked"
  <2>1. pc \in {"returning", "asked"} /\ pc \in Places /\ Goto(t, pc)
    BY <1>2 DEF Places, Ask
  <2> HIDE DEF pc
  <2>2. TypeOK' /\ KillerHolds'
    BY <1>2, <2>1, GotoShape DEF Ask, TypeOK, KillerHolds
  <2>3. Moves(t)
    BY <1>2, <2>1, GotoShape DEF Ask, Moves, InSpace, Leaving
  <2> QED
    BY <1>2, <2>1, <2>2, <2>3, GotoShape DEF Ask, Quiet
<1>3. CASE Sleep(t)
  <2>1. "blocked" \in Places
    BY DEF Places
  <2>2. TypeOK' /\ KillerHolds'
    BY <1>3, <2>1, GotoShape DEF Sleep, TypeOK, KillerHolds
  <2>3. Moves(t)
    BY <1>3, <2>1, GotoShape DEF Sleep, Moves, InSpace, Leaving
  <2> QED
    BY <1>3, <2>1, <2>2, <2>3, GotoShape DEF Sleep, Quiet
<1>4. CASE TimeUp(t)
  <2> DEFINE pc == AfterWaking(task[t].call)
  <2>1. pc \in {"asking", "asked", "returning"} /\ pc \in Places /\ Goto(t, pc)
    BY <1>4 DEF Places, TimeUp, AfterWaking
  <2> HIDE DEF pc
  <2>2. TypeOK' /\ KillerHolds'
    BY <1>4, <2>1, GotoShape DEF TimeUp, TypeOK, KillerHolds
  <2>3. Moves(t)
    BY <1>4, <2>1, GotoShape DEF TimeUp, Asleep, Moves, InSpace, Leaving
  <2> QED
    BY <1>4, <2>1, <2>2, <2>3, GotoShape DEF TimeUp, Quiet
<1>5. CASE Event(t)
  <2>1. "returning" \in Places
    BY DEF Places
  <2>2. TypeOK' /\ KillerHolds'
    BY <1>5, <2>1, GotoShape DEF Event, TypeOK, KillerHolds
  <2>3. Moves(t)
    BY <1>5, <2>1, GotoShape DEF Event, Moves, InSpace, Leaving
  <2> QED
    BY <1>5, <2>1, <2>2, <2>3, GotoShape DEF Event, Quiet
<1>6. CASE task[t].pc \in {"user", "returning"} /\ task' = Left(t)
           /\ UNCHANGED <<PROGRAMS, program, on, siblings, killer, kills, deaf,
                          overlooked, accepted>>
  <2>1. TypeOK' /\ KillerHolds'
    BY <1>6, LeftShape DEF TypeOK, KillerHolds
  <2>2. Moves(t)
    BY <1>6, LeftShape DEF Moves, InSpace, Leaving
  <2> QED
    BY <1>6, <2>1, <2>2, LeftShape DEF Quiet
<1>7. CASE Exit(t)
  BY <1>6, <1>7 DEF Exit
<1>8. CASE CheckKill(t)
  <2>1. CASE kill_pending(t)
    BY <1>6, <1>8, <2>1 DEF CheckKill
  <2>2. CASE ~kill_pending(t)
    <3>1. task' = [task EXCEPT ![t].pc = "user", ![t].call = "none"]
      BY <1>8, <2>2 DEF CheckKill
    <3>2. "user" \in Places
      BY DEF Places
    <3>3. /\ task' \in [Ids -> Task]
          /\ \A u \in Ids \ {t} : task'[u] = task[u]
          /\ task'[t].pc = "user"
          /\ task'[t].slot = task[t].slot /\ task'[t].of = task[t].of
          /\ task'[t].main = task[t].main /\ task'[t].root = task[t].root
      BY <3>1, <3>2, CallShape
    <3>4. TypeOK' /\ KillerHolds'
      BY <1>8, <3>3 DEF CheckKill, TypeOK, KillerHolds
    <3>5. Moves(t)
      BY <1>8, <3>3 DEF CheckKill, Moves, InSpace, Leaving
    <3> QED
      BY <1>8, <3>3, <3>4, <3>5 DEF CheckKill, Quiet
  <2> QED
    BY <2>1, <2>2
<1> QED
  BY <1>1, <1>2, <1>3, <1>4, <1>5, <1>7, <1>8
LEMMA ThreadSteps ==
  ASSUME IInv, NEW t \in Ids,
         \/ ExitGroup(t) \/ WakeMain(t) \/ Exec(t) \/ RaiseFlag(t)
         \/ WakeSibling(t) \/ TwoSeconds(t)
  PROVE  TypeOK' /\ KillerHolds' /\ Quiet
<1> USE DEF IInv
<1>1. CASE ExitGroup(t)
  <2>1. "calling" \in Places /\ Goto(t, "calling")
    BY <1>1 DEF Places, ExitGroup
  <2>2. /\ program' \in [Processes -> [kill : BOOLEAN, space : Nat]]
        /\ \A q \in Processes : program'[q].space = program[q].space
        /\ deaf' \subseteq Ids
    BY <1>1, FlagShape DEF ExitGroup
  <2>3. TypeOK' /\ KillerHolds'
    BY <1>1, <2>1, <2>2, GotoShape DEF ExitGroup, TypeOK, KillerHolds
  <2>4. Moves(t)
    BY <1>1, <2>1, GotoShape DEF ExitGroup, Moves, InSpace, Leaving
  <2> QED
    BY <1>1, <2>1, <2>2, <2>3, <2>4, GotoShape DEF ExitGroup, Quiet
<1>2. CASE WakeMain(t)
  <2> DEFINE T == {u \in Threads(task[t].of) : task[u].main}
  <2>1. T \in SUBSET Ids /\ Left(t) \in [Ids -> Task] /\ Wake(T, Left(t))
    BY <1>2, LeftShape DEF WakeMain, Threads
  <2> HIDE DEF T
  <2>2. /\ task' \in [Ids -> Task]
        /\ deaf' \subseteq Ids
        /\ \A u \in Ids :
             \/ task'[u] = Left(t)[u]
             \/ /\ task[u].pc = "blocked"
                /\ task'[u].pc \in {"asking", "asked", "returning"}
                /\ task'[u].slot = task[u].slot /\ task'[u].of = task[u].of
                /\ task'[u].main = task[u].main /\ task'[u].root = task[u].root
    BY <2>1, WakeShape
  <2>3. TypeOK' /\ KillerHolds'
    BY <1>2, <2>2 DEF WakeMain, TypeOK, KillerHolds
  <2>4. ASSUME NEW u \in Ids PROVE task'[u] = task[u] \/ Moves(u)
    <3>1. CASE u # t
      BY <2>2, <3>1, LeftShape DEF Moves, InSpace, Leaving
    <3>2. CASE u = t
      BY <1>2, <2>2, <3>2, LeftShape DEF WakeMain, Moves, InSpace, Leaving
    <3> QED
      BY <3>1, <3>2
  <2> QED
    BY <1>2, <2>3, <2>4 DEF WakeMain, Quiet
<1>3. CASE Exec(t)
  <2>1. "listing" \in Places
    BY DEF Places, Leaving
  <2>2. task' = [task EXCEPT ![t].pc = "listing", ![t].call = "exec"]
    BY <1>3 DEF Exec
  <2>3. /\ task' \in [Ids -> Task]
        /\ \A u \in Ids \ {t} : task'[u] = task[u]
        /\ task'[t].pc = "listing"
        /\ task'[t].slot = task[t].slot /\ task'[t].of = task[t].of
        /\ task'[t].main = task[t].main /\ task'[t].root = task[t].root
    BY <2>1, <2>2, CallShape
  <2>4. TypeOK' /\ KillerHolds'
    BY <1>3, <2>3 DEF Exec, TypeOK, KillerHolds
  <2>5. Moves(t)
    BY <1>3, <2>3 DEF Exec, Moves, InSpace, Leaving
  <2> QED
    BY <1>3, <2>3, <2>4, <2>5 DEF Exec, Quiet
<1>4. CASE RaiseFlag(t)
  <2>1. "waking" \in Places /\ Goto(t, "waking")
    BY <1>4 DEF Places, Leaving, RaiseFlag
  <2>2. /\ program' \in [Processes -> [kill : BOOLEAN, space : Nat]]
        /\ \A q \in Processes : program'[q].space = program[q].space
        /\ deaf' \subseteq Ids
    BY <1>4, FlagShape DEF RaiseFlag
  <2>3. TypeOK' /\ KillerHolds'
    BY <1>4, <2>1, <2>2, GotoShape DEF RaiseFlag, TypeOK, KillerHolds
  <2>4. Moves(t)
    BY <1>4, <2>1, GotoShape DEF RaiseFlag, Moves, InSpace, Leaving
  <2> QED
    BY <1>4, <2>1, <2>2, <2>3, <2>4, GotoShape DEF RaiseFlag, Quiet
<1>5. CASE WakeSibling(t)
  <2>1. PICK s \in siblings[t] :
          LET rest == siblings[t] \ {s}
              next == IF rest # {} THEN "waking"
                      ELSE IF task[t].call = "exec" THEN "waiting" ELSE "standing"
          IN  /\ \A r \in rest : s < r
              /\ siblings' = [siblings EXCEPT ![t] = rest]
              /\ Wake(InSlot(s), [task EXCEPT ![t].pc = next])
    BY <1>5 DEF WakeSibling
  <2> DEFINE pc == IF siblings[t] \ {s} # {} THEN "waking"
                   ELSE IF task[t].call = "exec" THEN "waiting" ELSE "standing"
             after == [task EXCEPT ![t].pc = pc]
  <2>2. pc \in {"waking", "waiting", "standing"} /\ pc \in Places
    BY DEF Places, Leaving
  <2>3. Wake(InSlot(s), after) /\ siblings' = [siblings EXCEPT ![t] = siblings[t] \ {s}]
    BY <2>1
  <2> HIDE DEF pc
  <2>4. /\ after \in [Ids -> Task]
        /\ \A u \in Ids \ {t} : after[u] = task[u]
        /\ after[t].pc = pc
        /\ after[t].slot = task[t].slot /\ after[t].of = task[t].of
        /\ after[t].main = task[t].main /\ after[t].root = task[t].root
    BY <2>2 DEF TypeOK, Task
  <2> HIDE DEF after
  <2>5. InSlot(s) \in SUBSET Ids
    BY DEF InSlot
  <2>6. /\ task' \in [Ids -> Task]
        /\ deaf' \subseteq Ids
        /\ \A u \in Ids :
             \/ task'[u] = after[u]
             \/ /\ task[u].pc = "blocked"
                /\ task'[u].pc \in {"asking", "asked", "returning"}
                /\ task'[u].slot = task[u].slot /\ task'[u].of = task[u].of
                /\ task'[u].main = task[u].main /\ task'[u].root = task[u].root
    BY <2>3, <2>4, <2>5, WakeShape
  <2>7. TypeOK' /\ KillerHolds'
    BY <1>5, <2>3, <2>6 DEF WakeSibling, TypeOK, KillerHolds
  <2>8. ASSUME NEW u \in Ids PROVE task'[u] = task[u] \/ Moves(u)
    <3>1. CASE u # t
      BY <2>4, <2>6, <3>1 DEF Moves, InSpace, Leaving
    <3>2. CASE u = t
      BY <1>5, <2>2, <2>4, <2>6, <3>2 DEF WakeSibling, Moves, InSpace, Leaving
    <3> QED
      BY <3>1, <3>2
  <2> QED
    BY <1>5, <2>7, <2>8 DEF WakeSibling, Quiet
<1>6. CASE TwoSeconds(t)
  <2>1. "returning" \in Places /\ Goto(t, "returning")
    BY <1>6 DEF Places, TwoSeconds
  <2>2. /\ program' \in [Processes -> [kill : BOOLEAN, space : Nat]]
        /\ \A q \in Processes : program'[q].space = program[q].space
    <3>1. /\ program \in [Processes -> [kill : BOOLEAN, space : Nat]]
          /\ program' = [program EXCEPT ![task[t].of].kill = FALSE]
      BY <1>6 DEF TwoSeconds, TypeOK
    <3> QED
      BY <3>1
  <2>3. TypeOK' /\ KillerHolds'
    <3>1. UNCHANGED <<PROGRAMS, on, siblings, killer, kills, deaf, overlooked, accepted>>
      BY <1>6 DEF TwoSeconds
    <3>2. task' \in [Ids -> Task]
      BY <2>1, GotoShape
    <3>3. TypeOK'
      BY <2>2, <3>1, <3>2 DEF TypeOK
    <3> QED
      BY <2>2, <3>1, <3>3 DEF KillerHolds
  <2>4. Moves(t)
    BY <1>6, <2>1, GotoShape DEF TwoSeconds, Moves, InSpace, Leaving
  <2> QED
    BY <1>6, <2>1, <2>2, <2>3, <2>4, GotoShape DEF TwoSeconds, Quiet
<1> QED
  BY <1>1, <1>2, <1>3, <1>4, <1>5, <1>6

LEMMA KillerSteps ==
  ASSUME IInv, Killer \/ \E t \in Ids : Lookup(t)
  PROVE  TypeOK' /\ KillerHolds' /\ Quiet
<1> USE DEF IInv
<1>1. ASSUME NEW t \in Ids, Lookup(t) PROVE TypeOK' /\ KillerHolds' /\ Quiet
  <2>1. task[t].slot \in Slots
    BY DEF TypeOK, Task
  <2>2. killer' \in [pc : {"idle", "found", "held", "raised"}, id : Ids \cup {0},
                     slot : Slots, of : Processes \cup {0}]
        /\ killer'.pc = "found" /\ killer'.id = t
    BY <1>1, <2>1 DEF Lookup, NoKiller
  <2>3. kills' \in 0 .. MaxKills
    <3>1. kills' = kills + 1 /\ kills < MaxKills
      BY <1>1 DEF Lookup
    <3>2. kills \in 0 .. MaxKills
      BY DEF TypeOK
    <3>3. MaxKills \in Nat
      BY KillAssumption
    <3> QED
      BY <3>1, <3>2, <3>3
  <2>4. UNCHANGED <<PROGRAMS, program, task, on, siblings, deaf, overlooked, accepted>>
    BY <1>1 DEF Lookup
  <2>5. TypeOK'
    BY <2>2, <2>3, <2>4 DEF TypeOK
  <2>6. KillerHolds'
    BY <2>2, <2>4 DEF KillerHolds
  <2>7. Quiet
    BY <2>4 DEF Quiet
  <2> QED
    BY <2>5, <2>6, <2>7
<1>2. CASE TakeProgram
  <2>1. NoKiller \in [pc : {"idle", "found", "held", "raised"}, id : Ids \cup {0},
                     slot : Slots, of : Processes \cup {0}]
    BY KillAssumption DEF NoKiller, Slots
  <2>2. CASE PROGRAMS[killer.slot] = 0
    BY <1>2, <2>1, <2>2 DEF TakeProgram, TypeOK, KillerHolds, Quiet, NoKiller
  <2>3. CASE PROGRAMS[killer.slot] # 0
    <3>1. PROGRAMS[killer.slot] \in Processes
      BY <2>3 DEF TypeOK
    <3>2. killer' = [killer EXCEPT !.pc = "held", !.of = PROGRAMS[killer.slot]]
      BY <1>2, <2>3 DEF TakeProgram
    <3> QED
      BY <1>2, <3>1, <3>2 DEF TakeProgram, TypeOK, KillerHolds, Quiet
  <2> QED
    BY <2>2, <2>3
<1>3. CASE RequestKill
  <2>1. /\ program' \in [Processes -> [kill : BOOLEAN, space : Nat]]
        /\ \A q \in Processes : program'[q].space = program[q].space
        /\ deaf' \subseteq Ids
    BY <1>3, FlagShape DEF RequestKill
  <2>2. accepted' \subseteq Processes
    BY <1>3 DEF RequestKill, TypeOK, KillerHolds
  <2>3. killer' = [killer EXCEPT !.pc = "raised"]
    BY <1>3 DEF RequestKill
  <2> QED
    BY <1>3, <2>1, <2>2, <2>3 DEF RequestKill, TypeOK, KillerHolds, Quiet
<1>4. CASE WakeKilled
  <2>1. {killer.id} \in SUBSET Ids /\ task \in [Ids -> Task] /\ Wake({killer.id}, task)
    BY <1>4 DEF WakeKilled, KillerHolds, TypeOK
  <2>2. /\ task' \in [Ids -> Task]
        /\ deaf' \subseteq Ids
        /\ \A u \in Ids :
             \/ task'[u] = task[u]
             \/ /\ task[u].pc = "blocked"
                /\ task'[u].pc \in {"asking", "asked", "returning"}
                /\ task'[u].slot = task[u].slot /\ task'[u].of = task[u].of
                /\ task'[u].main = task[u].main /\ task'[u].root = task[u].root
    BY <2>1, WakeShape
  <2>3. NoKiller \in [pc : {"idle", "found", "held", "raised"}, id : Ids \cup {0},
                     slot : Slots, of : Processes \cup {0}]
    BY KillAssumption DEF NoKiller, Slots
  <2>4. TypeOK' /\ KillerHolds'
    BY <1>4, <2>2, <2>3 DEF WakeKilled, TypeOK, KillerHolds, NoKiller
  <2>5. \A u \in Ids : task'[u] = task[u] \/ Moves(u)
    BY <2>2 DEF Moves, InSpace, Leaving
  <2> QED
    BY <1>4, <2>4, <2>5 DEF WakeKilled, Quiet
<1> QED
  BY <1>1, <1>2, <1>3, <1>4 DEF Killer

------------------------------------------------------------------------------
\* spawn_raw: a fresh task in a slot nobody else is in from then on.
LEMMA SpawnShape ==
  ASSUME IInv, NEW t \in Ids, NEW p \in Processes, NEW main \in BOOLEAN,
         SpawnRaw(t, p, main)
  PROVE  /\ task[t] = NoTask
         /\ task' \in [Ids -> Task]
         /\ task'[t].pc = "starting" /\ task'[t].of = p /\ task'[t].main = main
         /\ \A u \in Ids \ {t} :
              \/ task'[u] = task[u]
              \/ /\ task[u].pc = "finished" /\ task'[u].pc = "gone"
                 /\ task'[u].slot = task[u].slot /\ task'[u].of = task[u].of
                 /\ task'[u].main = task[u].main /\ task'[u].root = task[u].root
         /\ \A u \in Ids \ {t} : Here(u)' => task'[u].slot # task'[t].slot
<1> USE DEF IInv
<1>1. PICK s \in FreeSlots :
        task' = [u \in Ids |->
          IF u = t
          THEN [NoTask EXCEPT !.pc = "starting", !.slot = s, !.of = p, !.main = main]
          ELSE IF u \in InSlot(s) THEN [task[u] EXCEPT !.pc = "gone"] ELSE task[u]]
  BY DEF SpawnRaw
<1>2. s \in Slots /\ \A u \in InSlot(s) : task[u].pc = "finished"
  BY <1>1 DEF FreeSlots
<1>3. task[t] = NoTask
  BY DEF SpawnRaw
<1>4. task'[t] = [pc |-> "starting", call |-> "none", slot |-> s, of |-> p,
                  main |-> main, root |-> 0]
  BY <1>1 DEF NoTask
<1>5. task'[t] \in Task
  BY <1>2, <1>4 DEF Task, Places, Starting
<1>6. ASSUME NEW u \in Ids \ {t}
      PROVE  /\ task'[u] \in Task
             /\ \/ task'[u] = task[u]
                \/ /\ task[u].pc = "finished" /\ task'[u].pc = "gone"
                   /\ task'[u].slot = task[u].slot /\ task'[u].of = task[u].of
                   /\ task'[u].main = task[u].main /\ task'[u].root = task[u].root
             /\ task'[u].pc \notin {"none", "gone"} => task'[u].slot # s
  <2>1. task[u] \in Task
    BY DEF TypeOK
  <2>2. CASE u \in InSlot(s)
    <3>1. task'[u] = [task[u] EXCEPT !.pc = "gone"] /\ task[u].pc = "finished"
      BY <1>1, <1>2, <2>2
    <3> QED
      BY <2>1, <3>1 DEF Task, Places
  <2>3. CASE u \notin InSlot(s)
    <3>1. task'[u] = task[u]
      BY <1>1, <2>3
    <3> QED
      BY <2>1, <2>3, <3>1 DEF InSlot
  <2> QED
    BY <2>2, <2>3
<1>7. task' \in [Ids -> Task]
  <2>1. task' = [u \in Ids |-> task'[u]]
    BY <1>1
  <2>2. \A u \in Ids : task'[u] \in Task
    BY <1>5, <1>6
  <2> QED
    BY <2>1, <2>2
<1>8. \A u \in Ids \ {t} : Here(u)' => task'[u].slot # task'[t].slot
  BY <1>4, <1>6 DEF Here
<1> QED
  BY <1>3, <1>4, <1>6, <1>7, <1>8

\* What the two kinds of spawn have in common.
LEMMA SpawnKeeps ==
  ASSUME IInv, NEW t \in Ids, NEW p \in Processes, NEW main \in BOOLEAN,
         SpawnRaw(t, p, main),
         UNCHANGED <<PROGRAMS, on, siblings, killer, kills, deaf, overlooked, accepted>>,
         program' \in [Processes -> [kill : BOOLEAN, space : Nat]],
         program'[p].space # 0,
         \A q \in Processes : program[q].space # 0 =>
                              program'[q].space = program[q].space,
         main => \A u \in Ids : task[u].of # p,
         \A u \in Ids : task[u].pc = "replacing" =>
                          task[u].of \in overlooked \/ task[u].of # p
  PROVE  IInv'
<1> USE DEF IInv
<1>1. /\ task[t] = NoTask
      /\ task' \in [Ids -> Task]
      /\ task'[t].pc = "starting" /\ task'[t].of = p /\ task'[t].main = main
      /\ \A u \in Ids \ {t} :
           \/ task'[u] = task[u]
           \/ /\ task[u].pc = "finished" /\ task'[u].pc = "gone"
              /\ task'[u].slot = task[u].slot /\ task'[u].of = task[u].of
              /\ task'[u].main = task[u].main /\ task'[u].root = task[u].root
      /\ \A u \in Ids \ {t} : Here(u)' => task'[u].slot # task'[t].slot
  BY SpawnShape
<1>2. task[t].pc = "none"
  BY <1>1 DEF NoTask
<1>3. on[t] = 0
  BY <1>2 DEF StandsInside, InSpace, Leaving, TypeOK
<1>4. TypeOK' /\ KillerHolds'
  BY <1>1 DEF TypeOK, KillerHolds
<1>5. Begun'
  <2> SUFFICES ASSUME NEW u \in Ids, task'[u] # NoTask
               PROVE  task'[u].of \in Processes /\ program'[task'[u].of].space # 0
    BY DEF Begun
  <2>1. CASE u = t
    BY <1>1, <2>1
  <2>2. CASE u # t
    <3>1. task'[u].of = task[u].of /\ task[u] # NoTask
      BY <1>1, <2>2 DEF NoTask
    <3>2. task[u].of \in Processes /\ program[task[u].of].space # 0
      BY <3>1 DEF Begun
    <3> QED
      BY <3>1, <3>2
  <2> QED
    BY <2>1, <2>2
<1>6. NoneYet'
  BY <1>1 DEF NoneYet
<1>7. OwnSlot'
  <2> SUFFICES ASSUME NEW u \in Ids, NEW v \in Ids, u # v, Here(u)', Here(v)'
               PROVE  task'[u].slot # task'[v].slot
    BY DEF OwnSlot
  <2>1. CASE u # t /\ v # t
    <3>1. /\ Here(u) /\ task'[u].slot = task[u].slot
          /\ Here(v) /\ task'[v].slot = task[v].slot
      BY <1>1, <2>1 DEF Here
    <3> QED
      BY <3>1 DEF OwnSlot
  <2> QED
    BY <1>1, <2>1
<1>8. Placed'
  BY <1>1 DEF Placed, Entered, InSpace, Leaving
<1>9. OneMain'
  <2> SUFFICES ASSUME NEW u \in Ids, NEW v \in Ids, u # v,
                      task'[u].main, task'[v].main, task'[u].of = task'[v].of
               PROVE  FALSE
    BY DEF OneMain
  <2>1. CASE u # t /\ v # t
    BY <1>1, <2>1 DEF OneMain
  <2>2. CASE u = t \/ v = t
    BY <1>1, <2>2
  <2> QED
    BY <2>1, <2>2
<1>10. Leads'
  BY <1>1 DEF Leads, Leaving
<1>11. StandsInside'
  BY <1>1, <1>3 DEF StandsInside, InSpace, Leaving
<1>12. Current'
  <2> SUFFICES ASSUME NEW u \in Ids, task'[u].of \notin overlooked'
               PROVE  /\ on'[u] # 0 => on'[u] = program'[task'[u].of].space
                      /\ task'[u].pc = "rooted"
                           => task'[u].root = program'[task'[u].of].space
    BY DEF Current
  <2>1. CASE u = t
    BY <1>1, <1>3, <2>1
  <2>2. CASE u # t
    <3>1. task'[u].of = task[u].of /\ task'[u].root = task[u].root
          /\ (task'[u].pc = "rooted" => task[u].pc = "rooted")
      BY <1>1, <2>2
    <3>2. on[u] # 0 \/ task[u].pc = "rooted" => task[u] # NoTask
      BY DEF StandsInside, InSpace, Leaving, NoTask
    <3>3. on[u] # 0 \/ task[u].pc = "rooted" =>
            task[u].of \in Processes /\ program[task[u].of].space # 0
      BY <3>2 DEF Begun
    <3>4. /\ on[u] # 0 => on[u] = program[task[u].of].space
          /\ task[u].pc = "rooted" => task[u].root = program[task[u].of].space
      BY <3>1 DEF Current
    <3> QED
      BY <3>1, <3>3, <3>4
  <2> QED
    BY <2>1, <2>2
<1>13. Alone'
  <2> SUFFICES ASSUME NEW v \in Ids, task'[v].pc = "replacing",
                      task'[v].of \notin overlooked',
                      NEW u \in Ids \ {v}, task'[u].of = task'[v].of
               PROVE  task'[u].pc \in Over
    BY DEF Alone
  <2>1. v # t /\ task'[v] = task[v]
    BY <1>1
  <2>2. u # t
    BY <1>1, <2>1
  <2>3. task[u].pc \in Over
    BY <1>1, <2>1, <2>2 DEF Alone
  <2> QED
    BY <1>1, <2>2, <2>3 DEF Over
<1> QED
  BY <1>4, <1>5, <1>6, <1>7, <1>8, <1>9, <1>10, <1>11, <1>12, <1>13

LEMMA SpawnSteps ==
  ASSUME IInv,
         \/ \E t \in Ids, p \in Processes : Launch(t, p)
         \/ \E t, u \in Ids : SpawnThread(t, u)
  PROVE  IInv'
<1> USE DEF IInv
<1>1. ASSUME NEW t \in Ids, NEW p \in Processes, Launch(t, p) PROVE IInv'
  <2>1. /\ SpawnRaw(t, p, TRUE)
        /\ UNCHANGED <<PROGRAMS, on, siblings, killer, kills, deaf, overlooked, accepted>>
        /\ program[p].space = 0
        /\ program' = [program EXCEPT ![p].space = 1]
    BY <1>1 DEF Launch
  <2>2. /\ program' \in [Processes -> [kill : BOOLEAN, space : Nat]]
        /\ program'[p].space # 0
        /\ \A q \in Processes : program[q].space # 0 =>
                                program'[q].space = program[q].space
    BY <2>1 DEF TypeOK
  <2>3. \A u \in Ids : task[u].of # p
    <3> SUFFICES ASSUME NEW u \in Ids, task[u].of = p PROVE FALSE
      OBVIOUS
    <3>1. task[u] # NoTask
      BY KillAssumption DEF NoTask
    <3> QED
      BY <2>1, <3>1 DEF Begun
  <2> QED
    BY <2>1, <2>2, <2>3, SpawnKeeps
<1>2. ASSUME NEW t \in Ids, NEW u \in Ids, SpawnThread(t, u) PROVE IInv'
  <2> DEFINE p == task[t].of
  <2>1. /\ SpawnRaw(u, p, FALSE) /\ task[t].pc = "user"
        /\ UNCHANGED <<PROGRAMS, on, siblings, killer, kills, deaf, overlooked, accepted>>
        /\ program' = program
    BY <1>2 DEF SpawnThread
  <2>2. p \in Processes /\ program[p].space # 0
    BY <2>1 DEF Begun, NoTask
  <2>3. /\ program' \in [Processes -> [kill : BOOLEAN, space : Nat]]
        /\ program'[p].space # 0
        /\ \A q \in Processes : program[q].space # 0 =>
                                program'[q].space = program[q].space
    BY <2>1, <2>2 DEF TypeOK
  <2>4. \A v \in Ids : task[v].pc = "replacing" =>
                         task[v].of \in overlooked \/ task[v].of # p
    BY <2>1 DEF Alone, Over
  <2> HIDE DEF p
  <2> QED
    BY <2>1, <2>2, <2>3, <2>4, SpawnKeeps
<1> QED
  BY <1>1, <1>2

------------------------------------------------------------------------------
LEMMA ReadRootStep ==
  ASSUME IInv, NEW t \in Ids, ReadRoot(t)
  PROVE  IInv'
<1> USE DEF IInv
<1>1. task[t].pc = "starting" /\ task[t] # NoTask /\ task[t] \in Task
  BY DEF ReadRoot, NoTask, TypeOK
<1>2. task[t].of \in Processes
  BY <1>1 DEF Begun
<1> DEFINE space == program[task[t].of].space
<1>3. space \in Nat
  BY <1>2 DEF TypeOK
<1>4. task' = [task EXCEPT ![t].pc = "rooted", ![t].root = space]
  BY DEF ReadRoot
<1> HIDE DEF space
<1>5. "rooted" \in Places
  BY DEF Places, Starting
<1>6. /\ task' \in [Ids -> Task]
      /\ \A u \in Ids \ {t} : task'[u] = task[u]
      /\ task'[t].pc = "rooted" /\ task'[t].root = space
      /\ task'[t].slot = task[t].slot /\ task'[t].of = task[t].of
      /\ task'[t].main = task[t].main
  <2> DEFINE entry == [task[t] EXCEPT !.pc = "rooted", !.root = space]
  <2>1. task \in [Ids -> Task] /\ task[t] \in Task
    BY DEF TypeOK
  <2>2. /\ entry \in Task /\ entry.pc = "rooted" /\ entry.root = space
        /\ entry.slot = task[t].slot /\ entry.of = task[t].of
        /\ entry.main = task[t].main
    BY <1>3, <1>5, <2>1 DEF Task
  <2>3. task' = [task EXCEPT ![t] = entry]
    BY <1>4
  <2> HIDE DEF entry
  <2> QED
    BY <2>1, <2>2, <2>3
<1>7. UNCHANGED <<PROGRAMS, program, on, siblings, killer, kills, deaf, overlooked, accepted>>
  BY DEF ReadRoot
<1>8. TypeOK' /\ KillerHolds'
  BY <1>6, <1>7 DEF TypeOK, KillerHolds
<1>9. \A u \in Ids : task'[u].slot = task[u].slot /\ task'[u].of = task[u].of
                     /\ task'[u].main = task[u].main /\ (Here(u)' <=> Here(u))
  BY <1>1, <1>6 DEF Here
<1>10. Begun'
  BY <1>1, <1>6, <1>7 DEF Begun
<1>11. NoneYet' /\ OwnSlot' /\ OneMain'
  BY <1>6, <1>9 DEF NoneYet, OwnSlot, OneMain
<1>12. Placed' /\ Leads' /\ StandsInside'
  <2>1. on[t] = 0
    BY <1>1 DEF StandsInside, InSpace, Leaving, TypeOK
  <2> QED
    BY <2>1, <1>6, <1>7 DEF Placed, Leads, StandsInside, Entered, InSpace, Leaving
<1>13. Current'
  <2> SUFFICES ASSUME NEW u \in Ids, task'[u].of \notin overlooked'
               PROVE  /\ on'[u] # 0 => on'[u] = program'[task'[u].of].space
                      /\ task'[u].pc = "rooted"
                           => task'[u].root = program'[task'[u].of].space
    BY DEF Current
  <2>1. CASE u = t
    <3>1. on[t] = 0
      BY <1>1 DEF StandsInside, InSpace, Leaving, TypeOK
    <3> QED
      BY <2>1, <3>1, <1>6, <1>7 DEF space
  <2>2. CASE u # t
    BY <2>2, <1>6, <1>7 DEF Current
  <2> QED
    BY <2>1, <2>2
<1>14. Alone'
  <2> SUFFICES ASSUME NEW v \in Ids, task'[v].pc = "replacing",
                      task'[v].of \notin overlooked',
                      NEW u \in Ids \ {v}, task'[u].of = task'[v].of
               PROVE  task'[u].pc \in Over
    BY DEF Alone
  <2>1. v # t /\ task[u].pc \in Over
    BY <1>6, <1>7, <1>9 DEF Alone
  <2>2. u # t
    BY <1>1, <2>1 DEF Over
  <2> QED
    BY <1>6, <2>1, <2>2
<1> QED
  BY <1>8, <1>10, <1>11, <1>12, <1>13, <1>14

LEMMA EnterStep ==
  ASSUME IInv, NEW t \in Ids, Enter(t)
  PROVE  IInv'
<1> USE DEF IInv
<1>1. task[t].pc = "rooted" /\ task[t] # NoTask /\ task[t] \in Task
  BY DEF Enter, NoTask, TypeOK
<1>2. task[t].of \in Processes /\ task[t].slot \in Slots /\ task[t].root \in Nat
  BY <1>1 DEF Begun, Task
<1>3. "user" \in Places
  BY DEF Places
<1>4. task' = [task EXCEPT ![t].pc = "user", ![t].root = 0]
  BY DEF Enter
<1>5. /\ task' \in [Ids -> Task]
      /\ \A u \in Ids \ {t} : task'[u] = task[u]
      /\ task'[t].pc = "user"
      /\ task'[t].slot = task[t].slot /\ task'[t].of = task[t].of
      /\ task'[t].main = task[t].main
  <2> DEFINE entry == [task[t] EXCEPT !.pc = "user", !.root = 0]
  <2>1. task \in [Ids -> Task] /\ task[t] \in Task
    BY DEF TypeOK
  <2>2. /\ entry \in Task /\ entry.pc = "user"
        /\ entry.slot = task[t].slot /\ entry.of = task[t].of
        /\ entry.main = task[t].main
    BY <1>3, <2>1 DEF Task
  <2>3. task' = [task EXCEPT ![t] = entry]
    BY <1>4
  <2> HIDE DEF entry
  <2> QED
    BY <2>1, <2>2, <2>3
<1>6. /\ PROGRAMS' = [PROGRAMS EXCEPT ![task[t].slot] = task[t].of]
      /\ on' = [on EXCEPT ![t] = task[t].root]
      /\ UNCHANGED <<program, siblings, killer, kills, deaf, overlooked, accepted>>
  BY DEF Enter
<1>7. TypeOK' /\ KillerHolds'
  BY <1>2, <1>5, <1>6 DEF TypeOK, KillerHolds
<1>8. \A u \in Ids : task'[u].slot = task[u].slot /\ task'[u].of = task[u].of
                     /\ task'[u].main = task[u].main /\ (Here(u)' <=> Here(u))
  BY <1>1, <1>5 DEF Here
<1>9. Begun'
  BY <1>1, <1>5, <1>6 DEF Begun
<1>10. NoneYet' /\ OwnSlot' /\ OneMain'
  BY <1>5, <1>8 DEF NoneYet, OwnSlot, OneMain
<1>11. Placed'
  <2> SUFFICES ASSUME NEW u \in Ids, task'[u].pc \in Entered
               PROVE  PROGRAMS'[task'[u].slot] = task'[u].of
    BY DEF Placed
  <2>1. CASE u = t
    BY <2>1, <1>2, <1>6, <1>8 DEF TypeOK
  <2>2. CASE u # t
    <3>1. task'[u] = task[u] /\ Here(u) /\ Here(t)
      BY <2>2, <1>1, <1>5 DEF Here, Entered, InSpace, Leaving
    <3>2. task[u].slot # task[t].slot
      BY <2>2, <3>1 DEF OwnSlot
    <3>3. PROGRAMS[task[u].slot] = task[u].of
      BY <3>1 DEF Placed
    <3>4. task[u].slot \in Slots
      BY DEF TypeOK, Task
    <3> QED
      BY <3>1, <3>2, <3>3, <3>4, <1>6 DEF TypeOK
  <2> QED
    BY <2>1, <2>2
<1>12. Leads'
  BY <1>5 DEF Leads, Leaving
<1>13. StandsInside'
  BY <1>5, <1>6 DEF StandsInside, InSpace, Leaving, TypeOK
<1>14. Current'
  BY <1>1, <1>5, <1>6 DEF Current, TypeOK
<1>15. Alone'
  <2> SUFFICES ASSUME NEW v \in Ids, task'[v].pc = "replacing",
                      task'[v].of \notin overlooked',
                      NEW u \in Ids \ {v}, task'[u].of = task'[v].of
               PROVE  task'[u].pc \in Over
    BY DEF Alone
  <2>1. v # t /\ task[u].pc \in Over
    BY <1>5, <1>6, <1>8 DEF Alone
  <2>2. u # t
    BY <1>1, <2>1 DEF Over
  <2> QED
    BY <1>5, <2>1, <2>2
<1> QED
  BY <1>7, <1>9, <1>10, <1>11, <1>12, <1>13, <1>14, <1>15

------------------------------------------------------------------------------
\* One live task goes on, in its slot and program.
LEMMA GotoKeeps ==
  ASSUME IInv, NEW t \in Ids, NEW pc \in Places, Goto(t, pc), Here(t),
         pc \notin {"none", "gone"},
         \A q \in Processes : program[q].space # 0 => program'[q].space # 0
  PROVE  /\ task' \in [Ids -> Task]
         /\ Begun' /\ NoneYet' /\ OwnSlot' /\ OneMain'
         /\ \A u \in Ids \ {t} : task'[u] = task[u]
         /\ task'[t].pc = pc
         /\ \A u \in Ids : /\ task'[u].slot = task[u].slot /\ task'[u].of = task[u].of
                           /\ task'[u].main = task[u].main /\ task'[u].root = task[u].root
<1> USE DEF IInv
<1>1. /\ task' \in [Ids -> Task]
      /\ \A u \in Ids \ {t} : task'[u] = task[u]
      /\ task'[t].pc = pc
      /\ \A u \in Ids : /\ task'[u].slot = task[u].slot /\ task'[u].of = task[u].of
                        /\ task'[u].main = task[u].main /\ task'[u].root = task[u].root
  BY GotoShape
<1>2. \A u \in Ids : Here(u)' <=> Here(u)
  BY <1>1 DEF Here
<1>3. \A u \in Ids : task'[u] # NoTask => task[u] # NoTask
  BY <1>1 DEF Here, NoTask
<1>4. Begun'
  BY <1>1, <1>3 DEF Begun
<1>5. NoneYet' /\ OwnSlot' /\ OneMain'
  BY <1>1, <1>2 DEF NoneYet, OwnSlot, OneMain
<1> QED
  BY <1>1, <1>4, <1>5

\* When a listing of PROGRAMS finds none of the others, they have left for
\* good, or one of them is overlooked.
LEMMA NobodyRegistered ==
  ASSUME IInv, NEW t \in Ids, task[t].pc \in Leaving,
         Registered(task[t].of, task[t].slot) = {}, Overlooks(task[t].of)
  PROVE  /\ overlooked \subseteq overlooked' /\ overlooked' \subseteq Processes
         /\ \/ task[t].of \in overlooked'
            \/ \A u \in Ids \ {t} : task[u].of = task[t].of => task[u].pc \in Over
<1> USE DEF IInv
<1>1. task[t] # NoTask /\ Here(t) /\ task[t].main
  BY DEF Leaving, NoTask, Here, Leads
<1>2. task[t].of \in Processes
  BY <1>1 DEF Begun
<1>3. ASSUME NEW u \in Ids \ {t}, task[u].of = task[t].of, task[u].pc \notin Over
      PROVE  u \in Unregistered(task[t].of)
  <2>1. task[u] \in Task /\ Here(u)
    BY <1>3 DEF TypeOK, Here, Over
  <2>2. task[u].slot # task[t].slot /\ task[u].slot \in Slots
    BY <1>1, <2>1 DEF OwnSlot, Task
  <2>3. PROGRAMS[task[u].slot] # task[u].of
    BY <1>3, <2>2 DEF Registered
  <2>4. task[u].pc \notin Entered
    BY <2>3 DEF Placed
  <2>5. task[u].pc \in Starting
    BY <1>3, <2>1, <2>4 DEF Task, Places, Over, Entered, InSpace
  <2>6. ~task[u].main
    BY <1>1, <1>3 DEF OneMain
  <2> QED
    BY <1>3, <2>5, <2>6 DEF Unregistered, Threads, Lives, Over
<1>4. /\ overlooked \subseteq overlooked' /\ overlooked' \subseteq Processes
      /\ Unregistered(task[t].of) # {} => task[t].of \in overlooked'
  BY <1>2 DEF Overlooks, TypeOK
<1> QED
  BY <1>3, <1>4

\* The main thread is through with the others: it will leave, or replace.
LEMMA ThroughWithOthers ==
  ASSUME IInv, NEW t \in Ids, task[t].pc \in Leaving \ {"replacing"},
         Registered(task[t].of, task[t].slot) = {}, Overlooks(task[t].of),
         NEW pc \in {"replacing", "standing"}, Goto(t, pc),
         \A q \in Processes : program'[q].space = program[q].space,
         program' \in [Processes -> [kill : BOOLEAN, space : Nat]],
         siblings' \in [Ids -> SUBSET Slots],
         UNCHANGED <<PROGRAMS, on, killer, kills, deaf, accepted>>
  PROVE  IInv'
<1> USE DEF IInv
<1>1. pc \in Places /\ pc \notin {"none", "gone"} /\ Here(t)
  BY DEF Places, Leaving, Here
<1>2. /\ task' \in [Ids -> Task]
      /\ Begun' /\ NoneYet' /\ OwnSlot' /\ OneMain'
      /\ \A u \in Ids \ {t} : task'[u] = task[u]
      /\ task'[t].pc = pc
      /\ \A u \in Ids : /\ task'[u].slot = task[u].slot /\ task'[u].of = task[u].of
                        /\ task'[u].main = task[u].main /\ task'[u].root = task[u].root
  BY <1>1, GotoKeeps
<1>3. /\ overlooked \subseteq overlooked' /\ overlooked' \subseteq Processes
      /\ \/ task[t].of \in overlooked'
         \/ \A u \in Ids \ {t} : task[u].of = task[t].of => task[u].pc \in Over
  BY NobodyRegistered
<1>4. TypeOK' /\ KillerHolds'
  BY <1>2, <1>3 DEF TypeOK, KillerHolds
<1>5. Placed' /\ Leads' /\ StandsInside'
  BY <1>2 DEF Placed, Leads, StandsInside, Entered, InSpace, Leaving
<1>6. Current'
  <2> SUFFICES ASSUME NEW u \in Ids, task[u].of \notin overlooked
               PROVE  /\ on[u] # 0 => on[u] = program'[task[u].of].space
                      /\ task'[u].pc = "rooted"
                           => task[u].root = program'[task[u].of].space
    BY <1>2, <1>3 DEF Current
  <2>1. on[u] # 0 \/ task[u].pc = "rooted" => task[u] # NoTask
    BY DEF StandsInside, InSpace, Leaving, NoTask
  <2>2. on[u] # 0 \/ task[u].pc = "rooted" => task[u].of \in Processes
    BY <2>1 DEF Begun
  <2>3. task'[u].pc = "rooted" => task[u].pc = "rooted"
    BY <1>2
  <2> QED
    BY <2>2, <2>3 DEF Current
<1>7. Alone'
  <2> SUFFICES ASSUME NEW v \in Ids, task'[v].pc = "replacing",
                      task[v].of \notin overlooked',
                      NEW u \in Ids \ {v}, task[u].of = task[v].of
               PROVE  task'[u].pc \in Over
    BY <1>2 DEF Alone
  <2>1. CASE v = t
    BY <1>2, <1>3, <2>1
  <2>2. CASE v # t
    <3>1. task[v].pc = "replacing" /\ task[u].pc \in Over
      BY <1>2, <1>3, <2>2 DEF Alone
    <3>2. u # t
      BY <3>1 DEF Over, Leaving
    <3> QED
      BY <1>2, <3>1, <3>2
  <2> QED
    BY <2>1, <2>2
<1> QED
  BY <1>2, <1>4, <1>5, <1>6, <1>7

LEMMA ListSteps ==
  ASSUME IInv, NEW t \in Ids, ListSiblings(t) \/ OthersGone(t)
  PROVE  IInv'
<1> USE DEF IInv
<1>1. CASE ListSiblings(t)
  <2> DEFINE found == Registered(task[t].of, task[t].slot)
  <2>1. /\ task[t].pc = "listing" /\ siblings' = [siblings EXCEPT ![t] = found]
        /\ UNCHANGED <<PROGRAMS, program, on, killer, kills, deaf, accepted>>
    BY <1>1 DEF ListSiblings
  <2>2. siblings' \in [Ids -> SUBSET Slots]
    BY <2>1 DEF TypeOK, Registered
  <2>3. CASE found # {}
    <3>1. Goto(t, "flagging") /\ overlooked' = overlooked /\ "flagging" \in Places
      BY <1>1, <2>3 DEF ListSiblings, Places, Leaving
    <3>2. TypeOK' /\ KillerHolds'
      BY <2>1, <2>2, <3>1, GotoShape DEF TypeOK, KillerHolds
    <3>3. Moves(t)
      BY <2>1, <3>1, GotoShape DEF Moves, InSpace, Leaving
    <3>4. Quiet
      BY <2>1, <3>1, <3>3, GotoShape DEF Quiet
    <3> QED
      BY <3>2, <3>4, QuietKeeps
  <2>4. CASE found = {}
    <3> DEFINE pc == IF task[t].call = "exec" THEN "replacing" ELSE "standing"
    <3>1. Goto(t, pc) /\ Overlooks(task[t].of)
      BY <1>1, <2>4 DEF ListSiblings
    <3>2. pc \in {"replacing", "standing"}
      OBVIOUS
    <3>3. task[t].pc \in Leaving \ {"replacing"}
      BY <2>1 DEF Leaving
    <3>4. /\ program' \in [Processes -> [kill : BOOLEAN, space : Nat]]
          /\ \A q \in Processes : program'[q].space = program[q].space
      BY <2>1 DEF TypeOK
    <3> HIDE DEF pc
    <3> QED
      BY <2>1, <2>2, <2>4, <3>1, <3>2, <3>3, <3>4, ThroughWithOthers
  <2> QED
    BY <2>3, <2>4
<1>2. CASE OthersGone(t)
  <2>1. /\ task[t].pc \in Leaving \ {"replacing"}
        /\ Registered(task[t].of, task[t].slot) = {} /\ Overlooks(task[t].of)
        /\ Goto(t, "replacing")
        /\ program' = [program EXCEPT ![task[t].of].kill = FALSE]
        /\ UNCHANGED <<PROGRAMS, on, siblings, killer, kills, deaf, accepted>>
    BY <1>2 DEF OthersGone, Leaving
  <2>2. /\ program' \in [Processes -> [kill : BOOLEAN, space : Nat]]
        /\ \A q \in Processes : program'[q].space = program[q].space
    <3>1. program \in [Processes -> [kill : BOOLEAN, space : Nat]]
      BY DEF TypeOK
    <3>2. program' = [program EXCEPT ![task[t].of].kill = FALSE]
      BY <2>1
    <3> QED
      BY <3>1, <3>2
  <2>3. siblings' \in [Ids -> SUBSET Slots]
    BY <2>1 DEF TypeOK
  <2> QED
    BY <2>1, <2>2, <2>3, ThroughWithOthers
<1> QED
  BY <1>1, <1>2

------------------------------------------------------------------------------
\* The new space is the program's, and nobody is left on the old one.
LEMMA ReplaceStep ==
  ASSUME IInv, NEW t \in Ids, Replace(t)
  PROVE  IInv'
<1> USE DEF IInv
<1> DEFINE p == task[t].of
<1>1. /\ task[t].pc = "replacing" /\ Goto(t, "returning")
      /\ program' = [program EXCEPT ![p].space = @ + 1]
      /\ on' = [on EXCEPT ![t] = program[p].space + 1]
      /\ UNCHANGED <<PROGRAMS, siblings, killer, kills, deaf, overlooked, accepted>>
  BY DEF Replace
<1>2. task[t] # NoTask /\ Here(t) /\ "returning" \in Places
  BY <1>1 DEF NoTask, Here, Places
<1>3. p \in Processes
  BY <1>2 DEF Begun
<1>4. program[p].space \in Nat
  BY <1>3 DEF TypeOK
<1>5. /\ program' \in [Processes -> [kill : BOOLEAN, space : Nat]]
      /\ program'[p].space = program[p].space + 1
      /\ \A q \in Processes \ {p} : program'[q] = program[q]
  BY <1>1, <1>3, <1>4 DEF TypeOK
<1>6. /\ on' \in [Ids -> Nat] /\ on'[t] = program[p].space + 1
      /\ \A u \in Ids \ {t} : on'[u] = on[u]
  BY <1>1, <1>4 DEF TypeOK
<1>7. \A q \in Processes : program[q].space # 0 => program'[q].space # 0
  BY <1>4, <1>5
<1>8. /\ task' \in [Ids -> Task]
      /\ Begun' /\ NoneYet' /\ OwnSlot' /\ OneMain'
      /\ \A u \in Ids \ {t} : task'[u] = task[u]
      /\ task'[t].pc = "returning"
      /\ \A u \in Ids : /\ task'[u].slot = task[u].slot /\ task'[u].of = task[u].of
                        /\ task'[u].main = task[u].main /\ task'[u].root = task[u].root
  BY <1>1, <1>2, <1>7, GotoKeeps
<1> HIDE DEF p
<1>9. TypeOK' /\ KillerHolds'
  BY <1>1, <1>5, <1>6, <1>8 DEF TypeOK, KillerHolds
<1>10. Placed' /\ Leads' /\ StandsInside'
  BY <1>1, <1>6, <1>8 DEF Placed, Leads, StandsInside, Entered, InSpace, Leaving
<1>11. Current'
  <2> SUFFICES ASSUME NEW u \in Ids, task[u].of \notin overlooked
               PROVE  /\ on'[u] # 0 => on'[u] = program'[task[u].of].space
                      /\ task'[u].pc = "rooted"
                           => task[u].root = program'[task[u].of].space
    BY <1>1, <1>8 DEF Current
  <2>1. CASE u = t
    BY <2>1, <1>5, <1>6, <1>8 DEF p
  <2>2. CASE u # t /\ task[u].of = p
    <3>1. task[u].pc \in Over
      BY <2>2, <1>1 DEF Alone, p
    <3>2. on[u] = 0 /\ task[u].pc # "rooted"
      BY <3>1 DEF StandsInside, Over, InSpace, Leaving
    <3> QED
      BY <2>2, <3>2, <1>6, <1>8
  <2>3. CASE u # t /\ task[u].of # p
    <3>1. on[u] # 0 \/ task[u].pc = "rooted" => task[u] # NoTask
      BY DEF StandsInside, InSpace, Leaving, NoTask
    <3>2. on[u] # 0 \/ task[u].pc = "rooted" => task[u].of \in Processes \ {p}
      BY <2>3, <3>1 DEF Begun
    <3> QED
      BY <2>3, <3>2, <1>5, <1>6, <1>8 DEF Current
  <2> QED
    BY <2>1, <2>2, <2>3
<1>12. Alone'
  <2> SUFFICES ASSUME NEW v \in Ids, task'[v].pc = "replacing",
                      task[v].of \notin overlooked,
                      NEW u \in Ids \ {v}, task[u].of = task[v].of
               PROVE  task'[u].pc \in Over
    BY <1>1, <1>8 DEF Alone
  <2>1. v # t /\ task[u].pc \in Over
    BY <1>8 DEF Alone
  <2>2. u # t
    BY <1>1, <2>1 DEF Over
  <2> QED
    BY <1>8, <2>1, <2>2
<1> QED
  BY <1>8, <1>9, <1>10, <1>11, <1>12

\* The three steps of an end: off the space, out of PROGRAMS, finished.
LEMMA EndSteps ==
  ASSUME IInv, NEW t \in Ids, LeaveSpace(t) \/ ClearSlot(t) \/ Finish(t)
  PROVE  IInv'
<1> USE DEF IInv
<1>1. UNCHANGED <<program, siblings, killer, kills, deaf, overlooked, accepted>>
  BY DEF LeaveSpace, ClearSlot, Finish
<1>2. PICK pc \in {"clearing", "dropping", "finished"} :
        /\ Goto(t, pc)
        /\ \/ task[t].pc = "standing" /\ pc = "clearing"
           \/ task[t].pc = "clearing" /\ pc = "dropping"
           \/ task[t].pc = "dropping" /\ pc = "finished"
  BY DEF LeaveSpace, ClearSlot, Finish
<1>3. /\ pc \in Places /\ pc \notin {"none", "gone"} /\ Here(t)
      /\ \A q \in Processes : program[q].space # 0 => program'[q].space # 0
  BY <1>1, <1>2 DEF Places, Here
<1>4. /\ task' \in [Ids -> Task]
      /\ Begun' /\ NoneYet' /\ OwnSlot' /\ OneMain'
      /\ \A u \in Ids \ {t} : task'[u] = task[u]
      /\ task'[t].pc = pc
      /\ \A u \in Ids : /\ task'[u].slot = task[u].slot /\ task'[u].of = task[u].of
                        /\ task'[u].main = task[u].main /\ task'[u].root = task[u].root
  BY <1>2, <1>3, GotoKeeps
<1>5. task[t].slot \in Slots
  BY DEF TypeOK, Task
<1>6. /\ on' \in [Ids -> Nat] /\ on'[t] = 0
      /\ \A u \in Ids \ {t} : on'[u] = on[u]
  <2>1. CASE LeaveSpace(t)
    BY <2>1 DEF LeaveSpace, TypeOK
  <2>2. CASE ClearSlot(t)
    BY <2>2 DEF ClearSlot, TypeOK, StandsInside, InSpace, Leaving
  <2>3. CASE Finish(t)
    BY <2>3 DEF Finish, TypeOK, StandsInside, InSpace, Leaving
  <2> QED
    BY <2>1, <2>2, <2>3
<1>7. /\ PROGRAMS' \in [Slots -> Processes \cup {0}]
      /\ \A s \in Slots \ {task[t].slot} : PROGRAMS'[s] = PROGRAMS[s]
      /\ task[t].pc = "standing" => PROGRAMS' = PROGRAMS
  <2>1. CASE LeaveSpace(t)
    BY <2>1 DEF LeaveSpace, TypeOK
  <2>2. CASE ClearSlot(t)
    BY <2>2, <1>5 DEF ClearSlot, TypeOK
  <2>3. CASE Finish(t)
    BY <2>3 DEF Finish, TypeOK
  <2> QED
    BY <2>1, <2>2, <2>3
<1>8. TypeOK' /\ KillerHolds'
  BY <1>1, <1>4, <1>6, <1>7 DEF TypeOK, KillerHolds
<1>9. Placed'
  <2> SUFFICES ASSUME NEW u \in Ids, task'[u].pc \in Entered
               PROVE  PROGRAMS'[task[u].slot] = task[u].of
    BY <1>4 DEF Placed
  <2>1. CASE u = t
    <3>1. task[t].pc = "standing"
      BY <2>1, <1>2, <1>4 DEF Entered, InSpace, Leaving
    <3> QED
      BY <2>1, <3>1, <1>7 DEF Placed, Entered, InSpace
  <2>2. CASE u # t
    <3>1. task[u].pc \in Entered /\ Here(u)
      BY <2>2, <1>4 DEF Here, Entered, InSpace, Leaving
    <3>2. task[u].slot \in Slots \ {task[t].slot}
      BY <2>2, <3>1, <1>3 DEF OwnSlot, TypeOK, Task
    <3> QED
      BY <3>1, <3>2, <1>7 DEF Placed
  <2> QED
    BY <2>1, <2>2
<1>10. Leads'
  BY <1>4 DEF Leads, Leaving
<1>11. StandsInside'
  BY <1>4, <1>6 DEF StandsInside
<1>12. Current'
  BY <1>1, <1>4, <1>6 DEF Current
<1>13. Alone'
  <2> SUFFICES ASSUME NEW v \in Ids, task'[v].pc = "replacing",
                      task[v].of \notin overlooked,
                      NEW u \in Ids \ {v}, task[u].of = task[v].of
               PROVE  task'[u].pc \in Over
    BY <1>1, <1>4 DEF Alone
  <2>1. v # t /\ task[u].pc \in Over
    BY <1>4 DEF Alone
  <2>2. CASE u # t
    BY <1>4, <2>1, <2>2
  <2>3. CASE u = t
    BY <1>2, <1>4, <2>1, <2>3 DEF Over
  <2> QED
    BY <2>2, <2>3
<1> QED
  BY <1>4, <1>8, <1>9, <1>10, <1>11, <1>12, <1>13

------------------------------------------------------------------------------
LEMMA StutterStep ==
  ASSUME IInv, UNCHANGED vars
  PROVE  IInv'
<1> USE DEF IInv
<1>1. TypeOK' /\ KillerHolds'
  BY DEF vars, TypeOK, KillerHolds
<1>2. Quiet
  BY DEF vars, Quiet
<1> QED
  BY <1>1, <1>2, QuietKeeps

\* Every step preserves the invariant.
LEMMA Induction == IInv /\ [Next]_vars => IInv'
<1> SUFFICES ASSUME IInv, [Next]_vars PROVE IInv'
  OBVIOUS
<1>1. ASSUME NEW t \in Ids, Run(t) PROVE IInv'
  <2>1. CASE ReadRoot(t)
    BY <2>1, ReadRootStep
  <2>2. CASE Enter(t)
    BY <2>2, EnterStep
  <2>3. CASE Ask(t) \/ Sleep(t) \/ TimeUp(t) \/ CheckKill(t)
    <3>1. TypeOK' /\ KillerHolds' /\ Quiet
      BY <2>3, WaitSteps
    <3> QED
      BY <3>1, QuietKeeps DEF IInv
  <2>4. CASE WakeMain(t) \/ RaiseFlag(t) \/ WakeSibling(t) \/ TwoSeconds(t)
    <3>1. TypeOK' /\ KillerHolds' /\ Quiet
      BY <2>4, ThreadSteps
    <3> QED
      BY <3>1, QuietKeeps DEF IInv
  <2>5. CASE ListSiblings(t) \/ OthersGone(t)
    BY <2>5, ListSteps
  <2>6. CASE Replace(t)
    BY <2>6, ReplaceStep
  <2>7. CASE LeaveSpace(t) \/ ClearSlot(t) \/ Finish(t)
    BY <2>7, EndSteps
  <2> QED
    BY <1>1, <2>1, <2>2, <2>3, <2>4, <2>5, <2>6, <2>7 DEF Run
<1>2. ASSUME NEW t \in Ids, Program(t) PROVE IInv'
  <2>1. CASE BeginWait(t) \/ Event(t) \/ Exit(t)
    <3>1. TypeOK' /\ KillerHolds' /\ Quiet
      BY <2>1, WaitSteps
    <3> QED
      BY <3>1, QuietKeeps DEF IInv
  <2>2. CASE ExitGroup(t) \/ Exec(t)
    <3>1. TypeOK' /\ KillerHolds' /\ Quiet
      BY <2>2, ThreadSteps
    <3> QED
      BY <3>1, QuietKeeps DEF IInv
  <2>3. CASE \E u \in Ids : SpawnThread(t, u)
    BY <2>3, SpawnSteps
  <2> QED
    BY <1>2, <2>1, <2>2, <2>3 DEF Program
<1>3. ASSUME (\E t \in Ids : Lookup(t)) \/ Killer PROVE IInv'
  <2>1. TypeOK' /\ KillerHolds' /\ Quiet
    BY <1>3, KillerSteps DEF Killer
  <2> QED
    BY <2>1, QuietKeeps DEF IInv
<1>4. CASE \E t \in Ids, p \in Processes : Launch(t, p)
  BY <1>4, SpawnSteps
<1>5. CASE UNCHANGED vars
  BY <1>5, StutterStep
<1> QED
  BY <1>1, <1>2, <1>3, <1>4, <1>5 DEF Next

\* The invariant gives the property: a task that stands on a space is in a
\* slot of its program, which therefore has a reference, and the space is the
\* one the program has.
LEMMA Reached == IInv => SpaceOutlivesUsers
<1> SUFFICES ASSUME IInv, NEW t \in Ids, on[t] # 0, task[t].of \notin overlooked
             PROVE  Alive(task[t].of, on[t])
  BY DEF SpaceOutlivesUsers
<1>1. task[t].pc \in Entered
  BY DEF IInv, StandsInside, Entered
<1>2. PROGRAMS[task[t].slot] = task[t].of /\ task[t].slot \in Slots
  BY <1>1 DEF IInv, Placed, TypeOK, Task
<1>3. on[t] = program[task[t].of].space
  BY DEF IInv, Current
<1> QED
  BY <1>2, <1>3 DEF Alive, Referenced

LEMMA Invariance == Spec => []IInv
<1>1. Init => IInv
  BY InitIInv
<1>2. IInv /\ [Next]_vars => IInv'
  BY Induction
<1> QED
  BY <1>1, <1>2, PTL DEF Spec

\* The slot table, the tasks, the programs and the histories keep their types
\* over every run, whatever slots, tasks, kills and execve calls there are.
THEOREM KillTypeCorrect == Spec => []TypeOK
<1>1. IInv => TypeOK
  BY DEF IInv
<1> QED
  BY <1>1, Invariance, PTL

\* A processor never stands on the tables of a space that has been destroyed:
\* neither when the last reference to a program goes (finish, thread_entry)
\* nor when exec replaces the space, unless the listing overlooked a thread.
THEOREM NeverOnDestroyedSpace == Spec => []SpaceOutlivesUsers
<1>1. IInv => SpaceOutlivesUsers
  BY Reached
<1> QED
  BY <1>1, Invariance, PTL
==============================================================================
