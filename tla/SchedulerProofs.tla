--------------------------- MODULE SchedulerProofs ---------------------------
(***************************************************************************)
(* Proofs about Scheduler: no two processors ever execute on one stack,    *)
(* the stack under a processor is neither freed nor given to a new task,   *)
(* and what runs, waits and is woken is marked so, for any number of       *)
(* processors, slots and keys.                                             *)
(*                                                                         *)
(* OneStackPerCpu speaks of sp, which the code cannot see; what the code   *)
(* maintains is the mark Task::cpu.  The inductive invariant says that the *)
(* marks are exactly the current and the not yet released previous tasks   *)
(* of the processors, and where in a switch the stack pointer is.          *)
(***************************************************************************)
EXTENDS Scheduler, WellFoundedInduction, TLAPS

\* Which stack a processor is on at each point of a context switch.
SwitchPoint(c) ==
  /\ phase[c] = "code" => sp[c] = current[c] /\ previous[c] = None
  /\ phase[c] = "switch" => sp[c] = previous[c] /\ previous[c] # None
  /\ phase[c] = "finish" => sp[c] = current[c] /\ previous[c] # None
  /\ previous[c] # current[c]

\* A processor's current and previous tasks carry its mark ...
MarksSet ==
  \A c \in Cpus : /\ cpu[current[c]] = c
                  /\ previous[c] # None => cpu[previous[c]] = c

\* ... and an idle task only that of its own processor.
IdleMarks ==
  \A c \in Cpus : /\ cpu[c] \in {c, None}
                  /\ current[c] \in TaskSlots \cup {c}

\* A task that can still run has a stack, and so does one with a mark.
StacksHeld ==
  \A s \in TaskSlots :
    /\ state[s] \in {"Ready", "Running", "Blocked"} => stack[s]
    /\ cpu[s] # None => stack[s] /\ state[s] # "Empty"

IInv ==
  /\ TypeOK
  /\ \A c \in Cpus : SwitchPoint(c)
  /\ MarksSet
  /\ IdleMarks
  /\ StacksHeld

------------------------------------------------------------------------------
\* Slots, processors and "none" do not mix.
LEMMA SlotFacts ==
  /\ Cpus \subseteq Slots /\ TaskSlots \subseteq Slots
  /\ None \notin Slots /\ None \notin Cpus
  /\ \A s \in Slots : s \in TaskSlots <=> ~IsIdle(s)
  /\ \A s \in Slots : s \in Cpus <=> IsIdle(s)
  /\ MAX_TASKS \in Nat /\ MAX_CPUS \in Nat
BY SchedulerAssumption DEF Cpus, Slots, TaskSlots, None, IsIdle

\* Every reason to wait that the code builds is one of Waits.
LEMMA WaitFacts ==
  /\ NoWait \in Waits /\ Until \in Waits
  /\ TaskWaits \cup KeyWaits \subseteq Waits
BY DEF Waits

\* pick_next answers "stay", a ready task nobody's processor is on, or the
\* idle task of its own processor, and the last only from another task.
LEMMA PickNextShape ==
  ASSUME NEW c \in Cpus, NEW st, NEW next \in Slots, next \in PickNext(c, st)
  PROVE  \/ next \in TaskSlots /\ st[next] = "Ready" /\ cpu[next] = None
         \/ next = c /\ ~IsIdle(current[c])
<1>1. None \notin Slots
  BY SlotFacts
<1> QED
  BY <1>1 DEF PickNext, Nearest, Candidates

\* free_slot answers a slot of a task: an empty one, or one whose finished
\* task has no processor's mark.
LEMMA FreeSlotShape ==
  ASSUME NEW s \in FreeSlot
  PROVE  s \in TaskSlots /\ (state[s] = "Empty" \/ cpu[s] = None)
BY DEF FreeSlot

------------------------------------------------------------------------------
\* The state has its type.  Kept by every action on its own.
THEOREM TypeCorrect == Spec => []TypeOK
<1>1. Init => TypeOK
  BY SchedulerAssumption, SlotFacts, WaitFacts
     DEF Init, TypeOK, Slots, Cpus, IsIdle, None
<1>2. TypeOK /\ [Next]_vars => TypeOK'
  <2> SUFFICES ASSUME TypeOK, [Next]_vars PROVE TypeOK'
    OBVIOUS
  <2> USE SlotFacts, WaitFacts
  <2>1. ASSUME NEW c \in Cpus, SwitchContext(c) PROVE TypeOK'
    BY <2>1 DEF SwitchContext, TypeOK, table, code, events
  <2>2. ASSUME NEW c \in Cpus, FinishSwitch(c) PROVE TypeOK'
    BY <2>2 DEF FinishSwitch, DropMark, TypeOK, code, events
  <2>3. ASSUME NEW c \in Cpus, ScheduleWith(c),
               at' \in [Slots -> {"code", "yield"}]
        PROVE  TypeOK'
    <3>1. AfterExpiry \in [Slots -> {"Empty", "Ready", "Running", "Blocked", "Finished"}]
      BY DEF AfterExpiry, TypeOK
    <3>2. /\ stack' \in [Slots -> BOOLEAN]
          /\ wait' \in [Slots -> Waits]
          /\ due' \subseteq Slots
      BY <2>3 DEF ScheduleWith, AfterReap, TypeOK
    <3>3. UNCHANGED <<id, next_id, call, posted, waking, handler>>
      BY <2>3 DEF ScheduleWith, events
    <3>4. CASE Stay(c)
      BY <2>3, <3>1, <3>2, <3>3, <3>4 DEF Stay, cpus, TypeOK
    <3>5. ASSUME NEW next \in Slots, SwitchTo(c, next) PROVE TypeOK'
      BY <2>3, <3>1, <3>2, <3>3, <3>5 DEF SwitchTo, TypeOK
    <3> QED
      BY <2>3, <3>4, <3>5 DEF ScheduleWith
  <2>4. ASSUME NEW c \in Cpus, Preempt(c) PROVE TypeOK'
    BY <2>3, <2>4 DEF Preempt, TypeOK
  <2>5. ASSUME NEW c \in Cpus, Yield(c) PROVE TypeOK'
    BY <2>3, <2>5 DEF Yield, TypeOK
  <2>6. ASSUME NEW c \in Cpus, NEW w \in Waits, Block(current[c], w),
               call' \in [Slots -> Waits]
        PROVE  TypeOK'
    BY <2>6 DEF Block, TypeOK, cpus, events
  <2>7. ASSUME NEW c \in Cpus, Sleep(c) PROVE TypeOK'
    BY <2>6, <2>7 DEF Sleep, TypeOK
  <2>8. ASSUME NEW c \in Cpus, NEW w \in TaskWaits \cup KeyWaits, BlockOn(c, w)
        PROVE  TypeOK'
    BY <2>6, <2>8 DEF BlockOn, TypeOK
  <2>9. ASSUME NEW c \in Cpus, Return(c) PROVE TypeOK'
    BY <2>9 DEF Return, TypeOK, table, cpus
  <2>10. ASSUME NEW c \in Cpus, GiveUp(c) PROVE TypeOK'
    BY <2>10 DEF GiveUp, TypeOK, table, cpus, events
  <2>11. ASSUME NEW c \in Cpus, NEW k \in Locks \cup Futexes, Post(c, k)
         PROVE  TypeOK'
    BY <2>11 DEF Post, TypeOK, table, cpus, code, Keys
  <2>12. ASSUME NEW W, NEW hurried \in BOOLEAN, MakeReady(W, hurried)
         PROVE  /\ state' \in [Slots -> {"Empty", "Ready", "Running", "Blocked", "Finished"}]
                /\ wait' \in [Slots -> Waits]
                /\ boost' \in [Slots -> BOOLEAN]
                /\ due' \subseteq Slots
    BY <2>12 DEF MakeReady, TypeOK
  <2>13. ASSUME NEW k, Wake(k)
         PROVE  /\ state' \in [Slots -> {"Empty", "Ready", "Running", "Blocked", "Finished"}]
                /\ wait' \in [Slots -> Waits]
                /\ boost' \in [Slots -> BOOLEAN]
                /\ due' \subseteq Slots
    BY <2>13 DEF Wake, MakeReady, TypeOK
  <2>14. ASSUME NEW c \in Cpus, WakeByTask(c) PROVE TypeOK'
    BY <2>13, <2>14 DEF WakeByTask, TypeOK, cpus, code
  <2>15. ASSUME NEW c \in Cpus, NEW i \in 1 .. MaxId, WakeTask(c, i) PROVE TypeOK'
    BY <2>12, <2>15 DEF WakeTask, TypeOK, cpus, code, events
  <2>16. ASSUME NEW c \in Cpus, NEW k \in Irqs \cup Inputs, Interrupt(c, k)
         PROVE  TypeOK'
    BY <2>16 DEF Interrupt, TypeOK, table, cpus, code, Keys
  <2>17. ASSUME NEW c \in Cpus, WakeByHandler(c) PROVE TypeOK'
    BY <2>13, <2>17 DEF WakeByHandler, TypeOK, cpus, code
  <2>18. ASSUME NEW s \in TaskSlots, DeadlinePasses(s) PROVE TypeOK'
    BY <2>18 DEF DeadlinePasses, TypeOK, table, cpus, code, events
  <2>19. ASSUME NEW c \in Cpus, Spawn(c) PROVE TypeOK'
    <3>1. next_id \in 0 .. MaxId /\ next_id + 1 \in 1 .. (MaxId + 1)
      BY <2>19, SchedulerAssumption DEF Spawn, TypeOK
    <3>2. PICK s \in FreeSlot :
            /\ state' = [state EXCEPT ![s] = "Ready"]
            /\ wait'  = [wait EXCEPT ![s] = NoWait]
            /\ id'    = [id EXCEPT ![s] = next_id]
            /\ cpu'   = [cpu EXCEPT ![s] = None]
            /\ stack' = [stack EXCEPT ![s] = TRUE]
            /\ boost' = [boost EXCEPT ![s] = FALSE]
            /\ at'    = [at EXCEPT ![s] = "code"]
            /\ call'  = [call EXCEPT ![s] = NoWait]
      BY <2>19 DEF Spawn
    <3>3. s \in Slots
      BY FreeSlotShape, SlotFacts
    <3> QED
      BY <2>19, <3>1, <3>2, <3>3 DEF Spawn, TypeOK, cpus, events
  <2>20. ASSUME NEW c \in Cpus, Exit(c) PROVE TypeOK'
    BY <2>20 DEF Exit, TypeOK, cpus, events
  <2>21. CASE UNCHANGED vars
    BY <2>21 DEF vars, table, cpus, code, events, TypeOK
  <2> QED
    BY <2>1, <2>2, <2>4, <2>5, <2>7, <2>8, <2>9, <2>10, <2>11, <2>14, <2>15,
       <2>16, <2>17, <2>18, <2>19, <2>20, <2>21 DEF Next
<1> QED
  BY <1>1, <1>2, PTL DEF Spec

------------------------------------------------------------------------------
\* What the steps have to keep besides the types.
IInvNoType == (\A c \in Cpus : SwitchPoint(c)) /\ MarksSet /\ IdleMarks /\ StacksHeld

\* Steps that move no processor and no mark keep the invariant when they
\* leave StacksHeld intact.
LEMMA NoSwitchKeeps ==
  ASSUME IInv, UNCHANGED <<cpu, cpus>>, StacksHeld'
  PROVE  IInvNoType'
BY DEF IInv, IInvNoType, SwitchPoint, MarksSet, IdleMarks, cpus

\* Waking keeps StacksHeld: who is woken was Blocked and had a stack.
LEMMA WakingKeeps ==
  ASSUME IInv, NEW W \in SUBSET Slots, NEW h,
         \A s \in W : state[s] = "Blocked",
         state' = [s \in Slots |-> IF s \in W THEN "Ready" ELSE state[s]],
         UNCHANGED <<cpu, stack>>
  PROVE  StacksHeld'
BY SlotFacts DEF IInv, TypeOK, StacksHeld

\* schedule(), the step that chooses and marks the next task.
LEMMA ScheduleKeeps ==
  ASSUME IInv, NEW c \in Cpus, Executes(c), ScheduleWith(c), TypeOK'
  PROVE  IInvNoType'
<1> DEFINE me == current[c]
<1>1. /\ phase[c] = "code" /\ sp[c] = me /\ previous[c] = None
      /\ cpu[me] = c /\ me \in Slots /\ c \in Slots /\ c # None
  BY SlotFacts DEF IInv, TypeOK, SwitchPoint, MarksSet, Executes
<1>2. /\ \A s \in Slots : AfterExpiry[s] # state[s] =>
                           AfterExpiry[s] = "Ready" /\ state[s] = "Blocked"
      /\ \A s \in Slots : stack[s] /\ ~Reapable(s) => stack'[s]
  <2>1. \A s \in Slots : AfterExpiry[s] # state[s] =>
                           AfterExpiry[s] = "Ready" /\ state[s] = "Blocked"
    BY DEF AfterExpiry, Expired
  <2>2. \A s \in Slots : stack[s] /\ ~Reapable(s) => stack'[s]
    BY DEF ScheduleWith, AfterReap
  <2> QED
    BY <2>1, <2>2
<1>3. CASE Stay(c)
  <2>1. StacksHeld'
    BY <1>1, <1>2, <1>3, SlotFacts
       DEF Stay, StacksHeld, Reapable, IInv, TypeOK
  <2> QED
    BY <1>3, <2>1, NoSwitchKeeps DEF Stay
<1>4. ASSUME NEW next \in Slots, SwitchTo(c, next) PROVE IInvNoType'
  <2>1. \/ next \in TaskSlots /\ AfterExpiry[next] = "Ready" /\ cpu[next] = None
        \/ next = c /\ ~IsIdle(me)
    BY <1>4, PickNextShape DEF SwitchTo
  <2>2. next # me
    BY <1>1, <2>1, SlotFacts
  <2>3. /\ current' = [current EXCEPT ![c] = next]
        /\ previous' = [previous EXCEPT ![c] = me]
        /\ phase' = [phase EXCEPT ![c] = "switch"]
        /\ sp' = sp
        /\ cpu' = [cpu EXCEPT ![next] = c]
    BY <1>4 DEF SwitchTo
  <2>4. \A d \in Cpus \ {c} : next # current[d] /\ next # previous[d]
    BY <1>1, <2>1, SlotFacts DEF IInv, MarksSet, IdleMarks, TypeOK
  <2>5. (\A d \in Cpus : SwitchPoint(d))'
    BY <1>1, <2>2, <2>3, SlotFacts DEF IInv, TypeOK, SwitchPoint
  <2>6. MarksSet'
    BY <1>1, <2>2, <2>3, <2>4, SlotFacts DEF IInv, TypeOK, MarksSet
  <2>7. IdleMarks'
    BY <1>1, <2>1, <2>3, SlotFacts DEF IInv, TypeOK, IdleMarks
  <2>8. StacksHeld'
    <3>1. state' = [AfterExpiry EXCEPT ![me] = IF @ = "Running" THEN "Ready" ELSE @,
                                       ![next] = "Running"]
      BY <1>4 DEF SwitchTo
    <3>2. AfterExpiry \in [Slots -> {"Empty", "Ready", "Running", "Blocked", "Finished"}]
      BY DEF AfterExpiry, IInv, TypeOK
    <3> SUFFICES ASSUME NEW s \in TaskSlots
                 PROVE  /\ state'[s] \in {"Ready", "Running", "Blocked"} => stack'[s]
                        /\ cpu'[s] # None => stack'[s] /\ state'[s] # "Empty"
      BY DEF StacksHeld
    <3>3. s \in Slots /\ (state[s] \in {"Ready", "Running", "Blocked"} => stack[s])
                     /\ (cpu[s] # None => stack[s] /\ state[s] # "Empty")
      BY SlotFacts DEF IInv, StacksHeld
    <3>4. CASE s = next
      <4>1. state[s] \in {"Ready", "Blocked"}
        BY <1>2, <2>1, <3>3, <3>4, SlotFacts, <1>1
      <4>2. stack'[s]
        BY <1>2, <3>3, <4>1 DEF Reapable
      <4>3. state'[s] = "Running"
        BY <2>2, <3>1, <3>2, <3>3, <3>4
      <4> QED
        BY <4>2, <4>3
    <3>5. CASE s = me
      <4>1. stack'[s] /\ state[s] # "Empty"
        BY <1>1, <1>2, <3>3, <3>5 DEF Reapable
      <4>2. AfterExpiry[s] # "Empty"
        BY <1>2, <3>3, <4>1
      <4>3. state'[s] # "Empty"
        BY <2>2, <3>1, <3>2, <3>3, <3>5, <4>2
      <4> QED
        BY <4>1, <4>3
    <3>6. CASE s # next /\ s # me
      <4>1. state'[s] = AfterExpiry[s] /\ cpu'[s] = cpu[s]
        BY <2>3, <3>1, <3>2, <3>3, <3>6 DEF IInv, TypeOK
      <4>2. AfterExpiry[s] \in {"Ready", "Running", "Blocked"}
              => state[s] \in {"Ready", "Running", "Blocked"} /\ ~Reapable(s)
        BY <1>2, <3>3 DEF Reapable
      <4>3. cpu[s] # None => ~Reapable(s) /\ AfterExpiry[s] # "Empty"
        BY <1>2, <3>3 DEF Reapable
      <4> QED
        BY <1>2, <3>3, <4>1, <4>2, <4>3
    <3> QED
      BY <3>4, <3>5, <3>6
  <2> QED
    BY <2>5, <2>6, <2>7, <2>8 DEF IInvNoType
<1> QED
  BY <1>3, <1>4 DEF ScheduleWith

\* finish_switch, the step that drops a mark: only that of the task this
\* processor has left for good.
LEMMA FinishKeeps ==
  ASSUME IInv, NEW c \in Cpus, FinishSwitch(c)
  PROVE  IInvNoType'
<1>1. /\ previous[c] \in Slots /\ previous[c] # current[c]
      /\ cpu[previous[c]] = c /\ sp[c] = current[c]
  BY SlotFacts DEF IInv, TypeOK, SwitchPoint, MarksSet, FinishSwitch
<1>2. \A d \in Cpus \ {c} : previous[c] # current[d] /\ previous[c] # previous[d]
  BY <1>1, SlotFacts DEF IInv, MarksSet
<1> QED
  BY <1>1, <1>2, SlotFacts
     DEF IInv, IInvNoType, TypeOK, SwitchPoint, MarksSet, IdleMarks, StacksHeld,
         FinishSwitch, DropMark

\* spawn_raw: a fresh slot carries no mark.
LEMMA SpawnKeeps ==
  ASSUME IInv, NEW c \in Cpus, Spawn(c)
  PROVE  IInvNoType'
<1>1. PICK s \in FreeSlot : /\ state' = [state EXCEPT ![s] = "Ready"]
                            /\ cpu'   = [cpu EXCEPT ![s] = None]
                            /\ stack' = [stack EXCEPT ![s] = TRUE]
  BY DEF Spawn
<1>2. s \in TaskSlots /\ cpu[s] = None
  BY FreeSlotShape DEF IInv, StacksHeld
<1>3. cpu' = cpu
  BY <1>1, <1>2, SlotFacts DEF IInv, TypeOK
<1>4. StacksHeld'
  BY <1>1, <1>2, <1>3, SlotFacts DEF IInv, TypeOK, StacksHeld
<1> QED
  BY <1>3, <1>4, NoSwitchKeeps DEF Spawn

\* A task that marks itself Blocked has its stack: it is executing.
LEMMA BlockKeeps ==
  ASSUME IInv, NEW c \in Cpus, NEW w, Executes(c), Block(current[c], w)
  PROVE  IInvNoType'
<1>1. current[c] \in Slots /\ cpu[current[c]] # None
  BY SlotFacts DEF IInv, TypeOK, MarksSet
<1>2. StacksHeld'
  BY <1>1, SlotFacts DEF IInv, TypeOK, StacksHeld, Block
<1> QED
  BY <1>2, NoSwitchKeeps DEF Block

\* MakeReady and Wake, which differ only in who is woken.
LEMMA WakeKeeps ==
  ASSUME IInv, NEW k, Wake(k), UNCHANGED <<cpu, stack, cpus>>
  PROVE  IInvNoType'
<1>1. PICK W \in WakeSets(k) :
        state' = [s \in Slots |-> IF s \in W THEN "Ready" ELSE state[s]]
  BY DEF Wake, MakeReady
<1>2. W \subseteq Slots /\ \A s \in W : state[s] = "Blocked"
  BY DEF WakeSets, Waiters
<1> QED
  BY <1>1, <1>2, WakingKeeps, NoSwitchKeeps

LEMMA ExitKeeps ==
  ASSUME IInv, NEW c \in Cpus, Exit(c)
  PROVE  IInvNoType'
<1>1. current[c] \in Slots /\ cpu[current[c]] # None
  BY SlotFacts DEF IInv, TypeOK, MarksSet
<1>2. \A s \in WaitersOf(id[current[c]]) : state[s] = "Blocked"
  BY DEF WaitersOf
<1>3. state' = [s \in Slots |->
                  IF s = current[c] THEN "Finished"
                  ELSE IF s \in WaitersOf(id[current[c]]) THEN "Ready" ELSE state[s]]
  BY DEF Exit
<1>4. StacksHeld'
  BY <1>1, <1>2, <1>3, SlotFacts DEF IInv, TypeOK, StacksHeld, Exit
<1> QED
  BY <1>4, NoSwitchKeeps DEF Exit

\* One step per action; the types come from TypeCorrect.
LEMMA Induction == IInv /\ TypeOK' /\ [Next]_vars => IInv'
<1> SUFFICES ASSUME IInv, TypeOK', [Next]_vars PROVE IInvNoType'
  BY DEF IInv, IInvNoType
<1>1. ASSUME UNCHANGED <<state, cpu, stack, cpus>> PROVE IInvNoType'
  BY <1>1, NoSwitchKeeps DEF IInv, StacksHeld
<1>2. ASSUME NEW c \in Cpus, SwitchContext(c) PROVE IInvNoType'
  BY <1>2, SlotFacts
     DEF SwitchContext, table, IInv, IInvNoType, TypeOK,
         SwitchPoint, MarksSet, IdleMarks, StacksHeld
<1>3. ASSUME NEW c \in Cpus, FinishSwitch(c) PROVE IInvNoType'
  BY <1>3, FinishKeeps
<1>4. ASSUME NEW c \in Cpus, Preempt(c) \/ Yield(c) PROVE IInvNoType'
  BY <1>4, ScheduleKeeps DEF Preempt, Yield
<1>5. ASSUME NEW c \in Cpus, Sleep(c) PROVE IInvNoType'
  BY <1>5, BlockKeeps DEF Sleep, IsFree, AtCode
<1>6. ASSUME NEW c \in Cpus, NEW w \in TaskWaits \cup KeyWaits, BlockOn(c, w)
      PROVE  IInvNoType'
  BY <1>6, BlockKeeps DEF BlockOn, IsFree, AtCode
<1>7. ASSUME NEW c \in Cpus, Return(c) \/ GiveUp(c) PROVE IInvNoType'
  BY <1>1, <1>7 DEF Return, GiveUp, table
<1>8. ASSUME NEW c \in Cpus, NEW k, Post(c, k) \/ Interrupt(c, k) PROVE IInvNoType'
  BY <1>1, <1>8 DEF Post, Interrupt, table
<1>9. ASSUME NEW c \in Cpus, WakeByTask(c) \/ WakeByHandler(c) PROVE IInvNoType'
  BY <1>9, WakeKeeps DEF WakeByTask, WakeByHandler
<1>10. ASSUME NEW c \in Cpus, NEW i, WakeTask(c, i) PROVE IInvNoType'
  <2> DEFINE W == {s \in TaskSlots : id[s] = i /\ state[s] = "Blocked"}
  <2>1. /\ state' = [s \in Slots |-> IF s \in W THEN "Ready" ELSE state[s]]
        /\ UNCHANGED <<cpu, stack, cpus>>
    BY <1>10 DEF WakeTask, MakeReady
  <2>2. W \subseteq Slots /\ \A s \in W : state[s] = "Blocked"
    BY SlotFacts
  <2> HIDE DEF W
  <2> QED
    BY <2>1, <2>2, WakingKeeps, NoSwitchKeeps
<1>11. ASSUME NEW s \in TaskSlots, DeadlinePasses(s) PROVE IInvNoType'
  BY <1>1, <1>11 DEF DeadlinePasses, table
<1>12. ASSUME NEW c \in Cpus, Spawn(c) PROVE IInvNoType'
  BY <1>12, SpawnKeeps
<1>13. ASSUME NEW c \in Cpus, Exit(c) PROVE IInvNoType'
  BY <1>13, ExitKeeps
<1>14. CASE UNCHANGED vars
  BY <1>1, <1>14 DEF vars, table
<1> QED
  BY <1>2, <1>3, <1>4, <1>5, <1>6, <1>7, <1>8, <1>9, <1>10, <1>11, <1>12,
     <1>13, <1>14 DEF Next

LEMMA InitIInv == Init => IInv
<1> SUFFICES ASSUME Init PROVE IInv
  OBVIOUS
<1>1. TypeOK
  BY SchedulerAssumption, SlotFacts, WaitFacts
     DEF Init, TypeOK, Slots, Cpus, IsIdle, None
<1>2. \A c \in Cpus : SwitchPoint(c)
  BY SlotFacts DEF Init, SwitchPoint
<1>3. MarksSet
  BY SlotFacts DEF Init, MarksSet
<1>4. IdleMarks
  BY SlotFacts DEF Init, IdleMarks
<1>5. StacksHeld
  BY SlotFacts DEF Init, StacksHeld
<1> QED
  BY <1>1, <1>2, <1>3, <1>4, <1>5 DEF IInv

LEMMA Invariance == Spec => []IInv
<1>1. Init => IInv
  BY InitIInv
<1>2. IInv /\ TypeOK' /\ [Next]_vars => IInv'
  BY Induction
<1>3. Spec => []TypeOK
  BY TypeCorrect
<1> QED
  BY <1>1, <1>2, <1>3, PTL DEF Spec

------------------------------------------------------------------------------
\* No stack is ever under two processors: a processor is on the stack of a
\* task that carries its mark, at every point of a context switch.
THEOREM NeverTwoOnOneStack == Spec => []OneStackPerCpu
<1>1. IInv => OneStackPerCpu
  BY DEF IInv, TypeOK, SwitchPoint, MarksSet, OneStackPerCpu
<1> QED
  BY <1>1, Invariance, PTL

\* reap and free_slot never take the ground from under a processor.
THEOREM NeverOnFreedStack == Spec => []ExecutesOnHeldStack
<1>1. IInv => ExecutesOnHeldStack
  BY SlotFacts
     DEF IInv, TypeOK, SwitchPoint, MarksSet, StacksHeld, ExecutesOnHeldStack
<1> QED
  BY <1>1, Invariance, PTL

\* The same for the slot: spawn_raw never hands it to a new task while some
\* processor is on the old one's stack.
THEOREM NeverReusedUnderCpu == Spec => LiveSlotKept
<1> DEFINE Kept == \A s \in Slots : id'[s] # id[s] => \A c \in Cpus : sp[c] # s
<1>1. ASSUME IInv, [Next]_vars PROVE Kept
  <2>1. CASE id' = id
    BY <2>1
  <2>2. ASSUME NEW c \in Cpus, Spawn(c) PROVE Kept
    <3>1. PICK f \in FreeSlot : id' = [id EXCEPT ![f] = next_id]
      BY <2>2 DEF Spawn
    <3>2. f \in TaskSlots /\ cpu[f] = None
      BY <1>1, FreeSlotShape DEF IInv, StacksHeld
    <3>3. \A s \in Slots : id'[s] # id[s] => s = f
      BY <1>1, <3>1 DEF IInv, TypeOK
    <3>4. \A d \in Cpus : sp[d] # f
      BY <1>1, <3>2, SlotFacts DEF IInv, TypeOK, SwitchPoint, MarksSet
    <3> QED
      BY <3>3, <3>4
  <2>3. (\A c \in Cpus : ~Spawn(c)) => id' = id
    BY <1>1 DEF Next, vars, table, SwitchContext, FinishSwitch, Preempt, Yield,
       ScheduleWith, Sleep, BlockOn, Block, Return, GiveUp, Post, WakeByTask,
       WakeTask, Interrupt, WakeByHandler, DeadlinePasses, Exit
  <2> QED
    BY <2>1, <2>2, <2>3
<1>2. IInv /\ [Next]_vars => [Kept]_vars
  BY <1>1
<1> QED
  BY <1>2, Invariance, PTL DEF Spec, LiveSlotKept

------------------------------------------------------------------------------
(***************************************************************************)
(* What runs is marked Running, nobody waits for a task that is gone, and  *)
(* no wake-up is lost.  The three hang together: a wake-up is not lost     *)
(* because the task that takes what was posted is one that executes, and a *)
(* task that executes is not one that sleeps.                              *)
(***************************************************************************)

\* An idle task never blocks.
IdleCalm == \A c \in Cpus : at[c] = "code" /\ call[c] = NoWait

RInv == RunningIsCurrent /\ IdleCalm

------------------------------------------------------------------------------
(***************************************************************************)
(* Running tasks.                                                          *)
(***************************************************************************)

\* No two processors have one task, because its mark names one of them.
LEMMA CurrentOnce ==
  ASSUME IInv, NEW c \in Cpus, NEW d \in Cpus, current[c] = current[d]
  PROVE  c = d
BY DEF IInv, MarksSet

\* Steps that leave the processors alone and make nobody Running or
\* un-Running who executes.
LEMMA RunningKept ==
  ASSUME IInv, RInv, UNCHANGED <<current, at>>,
         \A s \in TaskSlots : state'[s] = "Running" => state[s] = "Running",
         \A c \in Cpus : state[current[c]] = "Running" => state'[current[c]] = "Running",
         \A c \in Cpus : call'[c] = call[c]
  PROVE  RInv'
BY DEF RInv, RunningIsCurrent, IdleCalm

\* The current task of a processor stops, by itself.
LEMMA RunningStops ==
  ASSUME IInv, RInv, NEW c \in Cpus, Executes(c), ~IsIdle(current[c]),
         UNCHANGED current, at' = [at EXCEPT ![current[c]] = "yield"],
         state'[current[c]] # "Running",
         \A s \in TaskSlots : state'[s] = "Running" => state[s] = "Running",
         \A s \in Slots \ {current[c]} : state[s] = "Running" => state'[s] = "Running",
         \A d \in Cpus : call'[d] = call[d]
  PROVE  RInv'
<1> DEFINE me == current[c]
<1>1. me \in TaskSlots /\ me \notin Cpus
  BY SlotFacts DEF IInv, TypeOK
<1>2. at'[me] = "yield" /\ \A s \in Slots \ {me} : at'[s] = at[s]
  BY <1>1, SlotFacts DEF IInv, TypeOK
<1>3. \A s \in TaskSlots : state'[s] = "Running" =>
        \E d \in Cpus : current'[d] = s /\ \A e \in Cpus : current'[e] = s => e = d
  BY DEF RInv, RunningIsCurrent
<1>4. ASSUME NEW d \in Cpus, at'[current'[d]] = "code"
      PROVE  state'[current'[d]] = "Running"
  <2>1. current[d] # me /\ current[d] \in Slots
    BY <1>2, <1>4 DEF IInv, TypeOK
  <2>2. state[current[d]] = "Running"
    BY <1>2, <1>4, <2>1 DEF RInv, RunningIsCurrent
  <2> QED
    BY <2>1, <2>2
<1>5. IdleCalm'
  BY <1>1, <1>2, SlotFacts DEF RInv, IdleCalm
<1> QED
  BY <1>3, <1>4, <1>5 DEF RInv, RunningIsCurrent

\* Whoever schedule() finds blocked and due becomes Ready, nobody else changes.
LEMMA ExpiryShape ==
  ASSUME TypeOK
  PROVE  /\ AfterExpiry \in [Slots -> {"Empty", "Ready", "Running", "Blocked", "Finished"}]
         /\ \A s \in Slots : \/ AfterExpiry[s] = state[s] /\ ~Expired(s)
                             \/ AfterExpiry[s] = "Ready" /\ state[s] = "Blocked" /\ Expired(s)
BY DEF AfterExpiry, Expired, TypeOK

\* schedule(): the task that goes on is Running, the one that is left is not.
LEMMA RunningScheduled ==
  ASSUME IInv, RInv, NEW c \in Cpus, Executes(c), ScheduleWith(c),
         at' = at \/ at' = [at EXCEPT ![current[c]] = "code"]
  PROVE  RInv'
<1> USE DEF IInv
<1> DEFINE me == current[c]
<1>1. me \in Slots /\ cpu[me] = c /\ c \in Slots
  BY SlotFacts DEF TypeOK, MarksSet
<1>2. \A d \in Cpus \ {c} : current[d] \in Slots /\ current[d] # me
  BY CurrentOnce DEF TypeOK
<1>3. \A s \in Slots \ {me} : at'[s] = at[s]
  BY DEF TypeOK
<1>4. IdleCalm'
  <2>1. call' = call
    BY DEF ScheduleWith
  <2>2. \A d \in Cpus : at'[d] = at[d] \/ at'[d] = "code"
    BY SlotFacts DEF TypeOK
  <2> QED
    BY <2>1, <2>2 DEF RInv, IdleCalm
<1>5. CASE Stay(c)
  <2>1. /\ current' = current
        /\ state' = [AfterExpiry EXCEPT ![me] =
                       IF ~IsIdle(me) /\ @ = "Ready" THEN "Running" ELSE @]
    BY <1>5 DEF Stay, cpus
  <2>2. state'[me] = "Running"
    <3>1. CASE IsIdle(me)
      <4>1. me = c
        BY <1>1, <3>1, SlotFacts DEF IdleMarks
      <4>2. state[me] = "Running"
        BY <4>1 DEF RInv, IdleCalm, RunningIsCurrent
      <4> QED
        BY <1>1, <2>1, <3>1, <4>2, ExpiryShape
    <3>2. CASE ~IsIdle(me)
      <4>1. AfterExpiry[me] \in {"Running", "Ready"}
        <5>1. None \in PickNext(c, AfterExpiry)
          BY <1>5 DEF Stay
        <5>2. None \notin Slots /\ Candidates(AfterExpiry) \subseteq Slots /\ c # None
          BY SlotFacts DEF Candidates
        <5> QED
          BY <3>2, <5>1, <5>2 DEF PickNext, Nearest
      <4> QED
        BY <1>1, <2>1, <3>2, <4>1, ExpiryShape
    <3> QED
      BY <3>1, <3>2
  <2>3. \A s \in Slots \ {me} : state'[s] = AfterExpiry[s]
    BY <2>1, ExpiryShape
  <2>4. \A s \in Slots \ {me} : state'[s] = "Running" <=> state[s] = "Running"
    BY <2>3, ExpiryShape
  <2>5. \A s \in TaskSlots : state'[s] = "Running" =>
          \E d \in Cpus : current'[d] = s /\ \A e \in Cpus : current'[e] = s => e = d
    <3> TAKE s \in TaskSlots
    <3> HAVE state'[s] = "Running"
    <3>1. CASE s = me
      BY <2>1, <3>1, CurrentOnce
    <3>2. CASE s # me
      BY <2>1, <2>4, <3>2, SlotFacts DEF RInv, RunningIsCurrent
    <3> QED
      BY <3>1, <3>2
  <2>6. \A d \in Cpus : at'[current'[d]] = "code" => state'[current'[d]] = "Running"
    <3> TAKE d \in Cpus
    <3> HAVE at'[current'[d]] = "code"
    <3>1. CASE d = c
      BY <2>1, <2>2, <3>1
    <3>2. CASE d # c
      BY <1>2, <1>3, <2>1, <2>4, <3>2 DEF RInv, RunningIsCurrent
    <3> QED
      BY <3>1, <3>2
  <2> QED
    BY <1>4, <2>5, <2>6 DEF RInv, RunningIsCurrent
<1>6. ASSUME NEW next \in Slots, SwitchTo(c, next) PROVE RInv'
  <2>1. \/ next \in TaskSlots /\ cpu[next] = None
        \/ next = c /\ ~IsIdle(me)
    BY <1>6, PickNextShape DEF SwitchTo
  <2>2. next # me
    BY <1>1, <2>1, SlotFacts
  <2>3. /\ current' = [current EXCEPT ![c] = next]
        /\ state' = [AfterExpiry EXCEPT ![me] = IF @ = "Running" THEN "Ready" ELSE @,
                                        ![next] = "Running"]
    BY <1>6 DEF SwitchTo
  <2>4. current'[c] = next /\ \A d \in Cpus \ {c} : current'[d] = current[d]
    BY <2>3 DEF TypeOK
  <2>5. state'[next] = "Running" /\ state'[me] # "Running"
    BY <1>1, <2>2, <2>3, ExpiryShape
  <2>6. \A s \in Slots \ {me, next} : state'[s] = "Running" <=> state[s] = "Running"
    <3>1. \A s \in Slots \ {me, next} : state'[s] = AfterExpiry[s]
      BY <2>3, ExpiryShape
    <3> QED
      BY <3>1, ExpiryShape
  <2>7. \A d \in Cpus \ {c} : current[d] # next
    BY <1>1, <2>1, SlotFacts DEF MarksSet, IdleMarks, TypeOK
  <2>8. \A s \in TaskSlots : state'[s] = "Running" =>
          \E d \in Cpus : current'[d] = s /\ \A e \in Cpus : current'[e] = s => e = d
    <3> TAKE s \in TaskSlots
    <3> HAVE state'[s] = "Running"
    <3>1. CASE s = next
      BY <2>4, <2>7, <3>1
    <3>2. CASE s # next
      <4>1. s # me /\ s \in Slots
        BY <2>5, SlotFacts
      <4>2. PICK d \in Cpus : current[d] = s /\ \A e \in Cpus : current[e] = s => e = d
        BY <2>6, <3>2, <4>1 DEF RInv, RunningIsCurrent
      <4>3. d # c
        BY <4>1, <4>2
      <4> QED
        BY <2>4, <3>2, <4>2, <4>3
    <3> QED
      BY <3>1, <3>2
  <2>9. \A d \in Cpus : at'[current'[d]] = "code" => state'[current'[d]] = "Running"
    <3> TAKE d \in Cpus
    <3> HAVE at'[current'[d]] = "code"
    <3>1. CASE d = c
      BY <2>4, <2>5, <3>1
    <3>2. CASE d # c
      <4>1. current'[d] = current[d] /\ current[d] \in Slots \ {me, next}
        BY <1>2, <2>4, <2>7, <3>2
      <4> QED
        BY <1>3, <2>6, <4>1 DEF RInv, RunningIsCurrent
    <3> QED
      BY <3>1, <3>2
  <2> QED
    BY <1>4, <2>8, <2>9 DEF RInv, RunningIsCurrent
<1> QED
  BY <1>5, <1>6 DEF ScheduleWith

\* Waking touches only what sleeps.
LEMMA WakeSetsShape ==
  ASSUME NEW k, NEW W \in WakeSets(k)
  PROVE  W \subseteq Slots /\ \A s \in W : state[s] = "Blocked"
BY DEF WakeSets, Waiters

LEMMA RunningWoken ==
  ASSUME IInv, RInv, NEW W \in SUBSET Slots, \A s \in W : state[s] = "Blocked",
         state' = [s \in Slots |-> IF s \in W THEN "Ready" ELSE state[s]],
         UNCHANGED <<current, at, call>>
  PROVE  RInv'
<1>1. \A s \in TaskSlots : state'[s] = "Running" => state[s] = "Running"
  BY SlotFacts
<1>2. \A c \in Cpus : state[current[c]] = "Running" => state'[current[c]] = "Running"
  BY DEF IInv, TypeOK
<1> QED
  BY <1>1, <1>2, RunningKept

LEMMA RunningSpawn ==
  ASSUME IInv, RInv, NEW c \in Cpus, Spawn(c)
  PROVE  RInv'
<1> USE DEF IInv
<1>1. PICK f \in FreeSlot : /\ state' = [state EXCEPT ![f] = "Ready"]
                            /\ at' = [at EXCEPT ![f] = "code"]
                            /\ call' = [call EXCEPT ![f] = NoWait]
  BY DEF Spawn
<1>2. f \in TaskSlots /\ f \in Slots /\ f \notin Cpus /\ cpu[f] = None
  BY FreeSlotShape, SlotFacts DEF StacksHeld
<1>3. current' = current /\ \A d \in Cpus : current[d] \in Slots \ {f}
  BY <1>2, SlotFacts DEF Spawn, cpus, MarksSet, TypeOK
<1>4. \A s \in Slots \ {f} : state'[s] = state[s] /\ at'[s] = at[s] /\ call'[s] = call[s]
  BY <1>1 DEF TypeOK
<1>5. state'[f] = "Ready"
  BY <1>1, <1>2 DEF TypeOK
<1>6. RunningIsCurrent'
  <2>1. \A s \in TaskSlots : state'[s] = "Running" =>
          \E d \in Cpus : current'[d] = s /\ \A e \in Cpus : current'[e] = s => e = d
    BY <1>3, <1>4, <1>5, SlotFacts DEF RInv, RunningIsCurrent
  <2>2. \A d \in Cpus : at'[current'[d]] = "code" => state'[current'[d]] = "Running"
    BY <1>3, <1>4 DEF RInv, RunningIsCurrent
  <2> QED
    BY <2>1, <2>2 DEF RunningIsCurrent
<1>7. IdleCalm'
  BY <1>2, <1>4, SlotFacts DEF RInv, IdleCalm
<1> QED
  BY <1>6, <1>7 DEF RInv

LEMMA RunningExit ==
  ASSUME IInv, RInv, NEW c \in Cpus, Exit(c)
  PROVE  RInv'
<1> USE DEF IInv
<1> DEFINE me == current[c]
           W  == WaitersOf(id[me])
<1>1. Executes(c) /\ ~IsIdle(me) /\ me \in Slots
  BY DEF Exit, IsFree, AtCode, TypeOK
<1>2. state' = [s \in Slots |-> IF s = me THEN "Finished"
                                ELSE IF s \in W THEN "Ready" ELSE state[s]]
  BY DEF Exit
<1>3. \A s \in W : state[s] = "Blocked"
  BY DEF WaitersOf
<1> HIDE DEF W
<1>4. state'[me] # "Running"
  BY <1>1, <1>2
<1>5. /\ \A s \in TaskSlots : state'[s] = "Running" => state[s] = "Running"
      /\ \A s \in Slots \ {me} : state[s] = "Running" => state'[s] = "Running"
  BY <1>2, <1>3, SlotFacts
<1>6. UNCHANGED <<current, call>> /\ at' = [at EXCEPT ![me] = "yield"]
  BY DEF Exit, cpus
<1> QED
  BY <1>1, <1>4, <1>5, <1>6, RunningStops

LEMMA RunningBlock ==
  ASSUME IInv, RInv, NEW c \in Cpus, NEW w, Executes(c), ~IsIdle(current[c]),
         Block(current[c], w), call' = call \/ call' = [call EXCEPT ![current[c]] = w]
  PROVE  RInv'
<1> DEFINE me == current[c]
<1>1. me \in TaskSlots /\ me \in Slots /\ me \notin Cpus
  BY SlotFacts DEF IInv, TypeOK
<1>2. state' = [state EXCEPT ![me] = "Blocked"]
      /\ at' = [at EXCEPT ![me] = "yield"] /\ UNCHANGED current
  BY DEF Block, cpus
<1>3. /\ state'[me] # "Running"
      /\ \A s \in TaskSlots : state'[s] = "Running" => state[s] = "Running"
      /\ \A s \in Slots \ {me} : state[s] = "Running" => state'[s] = "Running"
  BY <1>1, <1>2, SlotFacts DEF IInv, TypeOK
<1>4. \A d \in Cpus : call'[d] = call[d]
  BY <1>1, SlotFacts DEF IInv, TypeOK
<1> QED
  BY <1>2, <1>3, <1>4, RunningStops

\* Only a task inside of a call blocks again, and no idle task is.
LEMMA BlockerIsTask ==
  ASSUME IInv, RInv, NEW c \in Cpus, NEW w \in TaskWaits \cup KeyWaits, BlockOn(c, w)
  PROVE  Executes(c) /\ ~IsIdle(current[c])
<1>1. w # NoWait
  BY DEF TaskWaits, KeyWaits, ForTask, ForKey, NoWait
<1>2. current[c] \in Cpus => call[current[c]] = NoWait
  BY DEF RInv, IdleCalm
<1> QED
  BY <1>1, <1>2, SlotFacts DEF IInv, TypeOK, BlockOn, IsFree, AtCode

LEMMA RunningInduction == IInv /\ RInv /\ [Next]_vars => RInv'
<1> SUFFICES ASSUME IInv, RInv, [Next]_vars PROVE RInv'
  OBVIOUS
<1>1. ASSUME UNCHANGED <<state, current, at>>, \A c \in Cpus : call'[c] = call[c]
      PROVE  RInv'
  BY <1>1, RunningKept
<1>2. ASSUME NEW c \in Cpus, SwitchContext(c) \/ FinishSwitch(c) PROVE RInv'
  BY <1>1, <1>2 DEF SwitchContext, FinishSwitch, table, code
<1>3. ASSUME NEW c \in Cpus, Preempt(c) \/ Yield(c) PROVE RInv'
  BY <1>3, RunningScheduled DEF Preempt, Yield
<1>4. ASSUME NEW c \in Cpus, Sleep(c) PROVE RInv'
  BY <1>4, RunningBlock DEF Sleep, IsFree, AtCode
<1>5. ASSUME NEW c \in Cpus, NEW w \in TaskWaits \cup KeyWaits, BlockOn(c, w) PROVE RInv'
  <2>1. Block(current[c], w) /\ call' = [call EXCEPT ![current[c]] = w]
    BY <1>5 DEF BlockOn
  <2> QED
    BY <1>5, <2>1, BlockerIsTask, RunningBlock
<1>6. ASSUME NEW c \in Cpus, Return(c) \/ GiveUp(c) PROVE RInv'
  <2>1. UNCHANGED <<state, current, at>> /\ call' = [call EXCEPT ![current[c]] = NoWait]
    BY <1>6 DEF Return, GiveUp, table, cpus
  <2>2. \A d \in Cpus : call'[d] = call[d]
    BY <2>1, SlotFacts DEF IInv, TypeOK, RInv, IdleCalm
  <2> QED
    BY <1>1, <2>1, <2>2
<1>7. ASSUME NEW c \in Cpus, NEW k, Post(c, k) \/ Interrupt(c, k) PROVE RInv'
  BY <1>1, <1>7 DEF Post, Interrupt, table, cpus, code
<1>8. ASSUME NEW c \in Cpus, WakeByTask(c) \/ WakeByHandler(c) PROVE RInv'
  <2>1. PICK k : Wake(k)
    BY <1>8 DEF WakeByTask, WakeByHandler
  <2>2. PICK W \in WakeSets(k) :
          state' = [s \in Slots |-> IF s \in W THEN "Ready" ELSE state[s]]
    BY <2>1 DEF Wake, MakeReady
  <2>3. UNCHANGED <<current, at, call>>
    BY <1>8 DEF WakeByTask, WakeByHandler, cpus, code
  <2> QED
    BY <2>2, <2>3, WakeSetsShape, RunningWoken
<1>9. ASSUME NEW c \in Cpus, NEW i, WakeTask(c, i) PROVE RInv'
  <2> DEFINE W == {s \in TaskSlots : id[s] = i /\ state[s] = "Blocked"}
  <2>1. state' = [s \in Slots |-> IF s \in W THEN "Ready" ELSE state[s]]
    BY <1>9 DEF WakeTask, MakeReady
  <2>2. W \subseteq Slots /\ \A s \in W : state[s] = "Blocked"
    BY SlotFacts
  <2>3. UNCHANGED <<current, at, call>>
    BY <1>9 DEF WakeTask, cpus, code
  <2> HIDE DEF W
  <2> QED
    BY <2>1, <2>2, <2>3, RunningWoken
<1>10. ASSUME NEW s \in TaskSlots, DeadlinePasses(s) PROVE RInv'
  BY <1>1, <1>10 DEF DeadlinePasses, table, cpus, code
<1>11. ASSUME NEW c \in Cpus, Spawn(c) \/ Exit(c) PROVE RInv'
  BY <1>11, RunningSpawn, RunningExit
<1>12. CASE UNCHANGED vars
  BY <1>1, <1>12 DEF vars, table, cpus, code
<1> QED
  BY <1>2, <1>3, <1>4, <1>5, <1>6, <1>7, <1>8, <1>9, <1>10, <1>11, <1>12 DEF Next

LEMMA RunningInit == Init => RInv
<1> SUFFICES ASSUME Init PROVE RInv
  OBVIOUS
<1>1. \A s \in TaskSlots : state[s] # "Running"
  BY SlotFacts DEF Init
<1>2. \A c \in Cpus : current[c] = c /\ state[c] = "Running"
  BY SlotFacts DEF Init
<1>3. IdleCalm
  BY SlotFacts DEF Init, IdleCalm
<1> QED
  BY <1>1, <1>2, <1>3 DEF RInv, RunningIsCurrent

LEMMA RunningInvariance == Spec => []RInv
BY RunningInit, RunningInduction, Invariance, PTL DEF Spec

\* Ready and Running mean what they say, on any number of processors: a
\* Running task is the current one of exactly one processor, and a processor
\* in a task's own code executes a Running task.
THEOREM RunningIsExact == Spec => []RunningIsCurrent
<1>1. RInv => RunningIsCurrent
  BY DEF RInv
<1> QED
  BY <1>1, RunningInvariance, PTL

------------------------------------------------------------------------------
(***************************************************************************)
(* Waiting for a task.                                                     *)
(***************************************************************************)

Ended == {"Finished", "Empty"}

\* What every step does to those who sleep and those who are gone, except
\* when a task blocks, exits or is spawned.
Calm ==
  /\ id' = id
  /\ \A s \in Slots : state'[s] = "Blocked" => state[s] = "Blocked" /\ wait'[s] = wait[s]
  /\ \A s \in TaskSlots :
       state[s] \in Ended \/ state'[s] \in Ended => state'[s] = state[s]

LEMMA ScheduleIsCalm ==
  ASSUME IInv, NEW c \in Cpus, ScheduleWith(c)
  PROVE  Calm
<1> USE DEF IInv
<1> DEFINE me == current[c]
<1>1. me \in Slots /\ c \in Slots /\ c \notin TaskSlots
  BY SlotFacts DEF TypeOK, Cpus, TaskSlots
<1>2. id' = id /\ wait' = [s \in Slots |-> IF Expired(s) THEN NoWait ELSE wait[s]]
  BY DEF ScheduleWith
<1>3. \A s \in Slots : \/ state'[s] = AfterExpiry[s]
                       \/ AfterExpiry[s] \in {"Ready", "Running"}
                          /\ state'[s] \in {"Ready", "Running"}
                       \/ s \notin TaskSlots /\ state'[s] = "Running"
  <2>1. CASE Stay(c)
    <3>1. state' = [AfterExpiry EXCEPT ![me] =
                      IF ~IsIdle(me) /\ @ = "Ready" THEN "Running" ELSE @]
      BY <2>1 DEF Stay
    <3> QED
      BY <1>1, <3>1, ExpiryShape
  <2>2. ASSUME NEW next \in Slots, SwitchTo(c, next)
        PROVE  \A s \in Slots : \/ state'[s] = AfterExpiry[s]
                                \/ AfterExpiry[s] \in {"Ready", "Running"}
                                   /\ state'[s] \in {"Ready", "Running"}
                                \/ s \notin TaskSlots /\ state'[s] = "Running"
    <3>1. \/ next \in TaskSlots /\ AfterExpiry[next] = "Ready"
          \/ next = c
      BY <2>2, PickNextShape DEF SwitchTo
    <3>2. state' = [AfterExpiry EXCEPT ![me] = IF @ = "Running" THEN "Ready" ELSE @,
                                       ![next] = "Running"]
      BY <2>2 DEF SwitchTo
    <3>3. state'[next] = "Running"
      BY <3>2, ExpiryShape
    <3>4. \A s \in Slots \ {next} :
            \/ state'[s] = AfterExpiry[s]
            \/ AfterExpiry[s] = "Running" /\ state'[s] = "Ready"
      BY <1>1, <3>2, ExpiryShape
    <3> QED
      BY <1>1, <3>1, <3>3, <3>4
  <2> QED
    BY <2>1, <2>2 DEF ScheduleWith
<1>4. \A s \in Slots : state'[s] = "Blocked" => state[s] = "Blocked" /\ wait'[s] = wait[s]
  <2> TAKE s \in Slots
  <2> HAVE state'[s] = "Blocked"
  <2>1. AfterExpiry[s] = "Blocked"
    BY <1>3
  <2>2. state[s] = "Blocked" /\ ~Expired(s)
    BY <2>1, ExpiryShape
  <2> QED
    BY <1>2, <2>2
<1>5. \A s \in TaskSlots :
        state[s] \in Ended \/ state'[s] \in Ended => state'[s] = state[s]
  BY <1>3, ExpiryShape, SlotFacts DEF Ended
<1> QED
  BY <1>2, <1>4, <1>5 DEF Calm

LEMMA WakingIsCalm ==
  ASSUME IInv, NEW W \in SUBSET Slots, NEW h, \A s \in W : state[s] = "Blocked",
         MakeReady(W, h), UNCHANGED id
  PROVE  Calm
<1>1. \A s \in Slots : state'[s] = IF s \in W THEN "Ready" ELSE state[s]
  BY DEF MakeReady
<1>2. \A s \in Slots : s \notin W => wait'[s] = wait[s]
  BY DEF MakeReady
<1> QED
  BY <1>1, <1>2, SlotFacts DEF Calm, Ended

LEMMA CalmSteps ==
  ASSUME IInv, [Next]_vars,
         \A c \in Cpus : ~Sleep(c) /\ ~Spawn(c) /\ ~Exit(c)
                         /\ \A w \in TaskWaits \cup KeyWaits : ~BlockOn(c, w)
  PROVE  Calm
<1>1. ASSUME UNCHANGED <<id, state, wait>> PROVE Calm
  BY <1>1 DEF Calm
<1>2. ASSUME NEW c \in Cpus, SwitchContext(c) \/ FinishSwitch(c) PROVE Calm
  BY <1>1, <1>2 DEF SwitchContext, FinishSwitch, table
<1>3. ASSUME NEW c \in Cpus, Preempt(c) \/ Yield(c) PROVE Calm
  BY <1>3, ScheduleIsCalm DEF Preempt, Yield
<1>4. ASSUME NEW c \in Cpus, Return(c) \/ GiveUp(c) PROVE Calm
  BY <1>1, <1>4 DEF Return, GiveUp, table
<1>5. ASSUME NEW c \in Cpus, NEW k, Post(c, k) \/ Interrupt(c, k) PROVE Calm
  BY <1>1, <1>5 DEF Post, Interrupt, table
<1>6. ASSUME NEW c \in Cpus, WakeByTask(c) \/ WakeByHandler(c) PROVE Calm
  <2>1. PICK k : Wake(k)
    BY <1>6 DEF WakeByTask, WakeByHandler
  <2>2. PICK W \in WakeSets(k) : MakeReady(W, k \in Irqs \cup Inputs)
    BY <2>1 DEF Wake
  <2>3. UNCHANGED id
    BY <1>6 DEF WakeByTask, WakeByHandler
  <2> QED
    BY <2>2, <2>3, WakeSetsShape, WakingIsCalm
<1>7. ASSUME NEW c \in Cpus, NEW i, WakeTask(c, i) PROVE Calm
  <2> DEFINE W == {s \in TaskSlots : id[s] = i /\ state[s] = "Blocked"}
  <2>1. MakeReady(W, FALSE) /\ UNCHANGED id
    BY <1>7 DEF WakeTask
  <2>2. W \subseteq Slots /\ \A s \in W : state[s] = "Blocked"
    BY SlotFacts
  <2> HIDE DEF W
  <2> QED
    BY <2>1, <2>2, WakingIsCalm
<1>8. ASSUME NEW s \in TaskSlots, DeadlinePasses(s) PROVE Calm
  BY <1>1, <1>8 DEF DeadlinePasses, table
<1>9. CASE UNCHANGED vars
  BY <1>1, <1>9 DEF vars, table
<1> QED
  BY <1>2, <1>3, <1>4, <1>5, <1>6, <1>7, <1>8, <1>9 DEF Next

EmptyNoId == \A s \in TaskSlots : state[s] = "Empty" => id[s] = None

WInv == NoWaiterLeftBehind /\ EmptyNoId

LEMMA WaiterCalm ==
  ASSUME WInv, Calm
  PROVE  WInv'
BY SlotFacts DEF WInv, NoWaiterLeftBehind, EmptyNoId, Calm, Ended

\* A task blocks, for something other than a task or for one that is alive.
LEMMA WaiterBlock ==
  ASSUME IInv, WInv, NEW c \in Cpus, NEW w, Block(current[c], w), ~IsIdle(current[c]),
         state[current[c]] = "Running",
         \A i \in 1 .. MaxId : w = ForTask(i) =>
           \E t \in TaskSlots : id[t] = i /\ state[t] # "Finished"
  PROVE  WInv'
<1> DEFINE me == current[c]
<1>1. me \in Slots /\ me \in TaskSlots
  BY SlotFacts DEF IInv, TypeOK
<1>2. /\ state' = [state EXCEPT ![me] = "Blocked"] /\ wait' = [wait EXCEPT ![me] = w]
      /\ id' = id
  BY DEF Block
<1>3. /\ state'[me] = "Blocked" /\ wait'[me] = w
      /\ \A s \in Slots \ {me} : state'[s] = state[s] /\ wait'[s] = wait[s]
  BY <1>1, <1>2 DEF IInv, TypeOK
<1>4. \A t \in TaskSlots : state[t] \notin Ended => state'[t] \notin Ended
  BY <1>3, SlotFacts DEF Ended
<1>5. EmptyNoId'
  BY <1>1, <1>2, <1>3, SlotFacts DEF WInv, EmptyNoId
<1>6. NoWaiterLeftBehind'
  <2> SUFFICES ASSUME NEW s \in Slots, NEW i \in 1 .. MaxId,
                      state'[s] = "Blocked", wait'[s] = ForTask(i)
               PROVE  \E t \in TaskSlots : id[t] = i /\ state[t] \notin Ended
    BY <1>2, <1>4 DEF NoWaiterLeftBehind, Ended
  <2>1. CASE s = me
    <3>1. PICK t \in TaskSlots : id[t] = i /\ state[t] # "Finished"
      BY <1>3, <2>1
    <3>2. i # None
      BY DEF None
    <3> QED
      BY <3>1, <3>2 DEF WInv, EmptyNoId, Ended
  <2>2. CASE s # me
    BY <1>3, <2>2 DEF WInv, NoWaiterLeftBehind, Ended
  <2> QED
    BY <2>1, <2>2
<1> QED
  BY <1>5, <1>6 DEF WInv

LEMMA WaiterSpawn ==
  ASSUME IInv, WInv, NEW c \in Cpus, Spawn(c)
  PROVE  WInv'
<1>1. PICK f \in FreeSlot : /\ state' = [state EXCEPT ![f] = "Ready"]
                            /\ wait' = [wait EXCEPT ![f] = NoWait]
                            /\ id' = [id EXCEPT ![f] = next_id]
  BY DEF Spawn
<1>2. f \in TaskSlots /\ f \in Slots /\ state[f] \in Ended
  BY SlotFacts DEF FreeSlot, Ended
<1>3. /\ state'[f] = "Ready"
      /\ \A s \in Slots \ {f} : state'[s] = state[s] /\ wait'[s] = wait[s] /\ id'[s] = id[s]
  BY <1>1, <1>2 DEF IInv, TypeOK
<1> QED
  BY <1>2, <1>3, SlotFacts DEF WInv, NoWaiterLeftBehind, EmptyNoId, Ended

LEMMA WaiterExit ==
  ASSUME IInv, WInv, NEW c \in Cpus, Exit(c), state[current[c]] = "Running"
  PROVE  WInv'
<1> DEFINE me == current[c]
           W  == WaitersOf(id[me])
<1>1. me \in Slots /\ me \in TaskSlots /\ id' = id
  BY SlotFacts DEF IInv, TypeOK, Exit, IsFree
<1>2. \A s \in Slots : /\ state'[s] = IF s = me THEN "Finished"
                                      ELSE IF s \in W THEN "Ready" ELSE state[s]
                       /\ wait'[s] = IF s \in W THEN NoWait ELSE wait[s]
  BY DEF Exit
<1>3. \A s \in Slots : s \in W <=> state[s] = "Blocked" /\ wait[s] = ForTask(id[me])
  BY DEF WaitersOf
<1> HIDE DEF W
<1>4. EmptyNoId'
  BY <1>1, <1>2, SlotFacts DEF WInv, EmptyNoId
<1>5. NoWaiterLeftBehind'
  <2> SUFFICES ASSUME NEW s \in Slots, NEW i \in 1 .. MaxId,
                      state'[s] = "Blocked", wait'[s] = ForTask(i)
               PROVE  \E t \in TaskSlots : id[t] = i /\ state'[t] \notin Ended
    BY <1>1 DEF NoWaiterLeftBehind, Ended
  <2>1. s # me /\ s \notin W /\ state[s] = "Blocked" /\ wait[s] = ForTask(i)
    BY <1>2
  <2>2. i # id[me]
    BY <1>3, <2>1
  <2>3. PICK t \in TaskSlots : id[t] = i /\ state[t] \notin Ended
    BY <2>1 DEF WInv, NoWaiterLeftBehind, Ended
  <2>4. t # me /\ t \in Slots
    BY <2>2, <2>3, SlotFacts
  <2>5. state'[t] \notin Ended
    BY <1>2, <2>3, <2>4 DEF Ended
  <2> QED
    BY <2>3, <2>5
<1> QED
  BY <1>4, <1>5 DEF WInv

LEMMA FreeRuns ==
  ASSUME RInv, NEW c \in Cpus, AtCode(c)
  PROVE  state[current[c]] = "Running"
BY DEF RInv, RunningIsCurrent, AtCode

LEMMA WaiterInduction == IInv /\ RInv /\ WInv /\ [Next]_vars => WInv'
<1> SUFFICES ASSUME IInv, RInv, WInv, [Next]_vars PROVE WInv'
  OBVIOUS
<1>1. ASSUME NEW c \in Cpus, Sleep(c) PROVE WInv'
  <2>1. \A i \in 1 .. MaxId : Until # ForTask(i)
    BY DEF Until, ForTask
  <2>2. Block(current[c], Until) /\ ~IsIdle(current[c]) /\ AtCode(c)
    BY <1>1 DEF Sleep, IsFree
  <2> QED
    BY <2>1, <2>2, FreeRuns, WaiterBlock
<1>2. ASSUME NEW c \in Cpus, NEW w \in TaskWaits \cup KeyWaits, BlockOn(c, w) PROVE WInv'
  <2>1. Block(current[c], w) /\ AtCode(c) /\ ~Satisfied(w)
    BY <1>2 DEF BlockOn, IsFree
  <2>2. ~IsIdle(current[c])
    BY <1>2, BlockerIsTask
  <2>3. \A i \in 1 .. MaxId : w = ForTask(i) =>
          \E t \in TaskSlots : id[t] = i /\ state[t] # "Finished"
    BY <2>1 DEF Satisfied, ForTask
  <2> QED
    BY <2>1, <2>2, <2>3, FreeRuns, WaiterBlock
<1>3. ASSUME NEW c \in Cpus, Spawn(c) PROVE WInv'
  BY <1>3, WaiterSpawn
<1>4. ASSUME NEW c \in Cpus, Exit(c) PROVE WInv'
  BY <1>4, FreeRuns, WaiterExit DEF Exit, IsFree
<1> QED
  BY <1>1, <1>2, <1>3, <1>4, CalmSteps, WaiterCalm

\* wait(id) never sleeps for a task that is gone, whatever slots are reused in
\* between: the exit has woken every waiter, and nobody begins to wait later.
THEOREM NoWaiterForTheDead == Spec => []NoWaiterLeftBehind
<1>1. Init => WInv
  <2> SUFFICES ASSUME Init PROVE WInv
    OBVIOUS
  <2>1. \A s \in Slots : state[s] # "Blocked"
    BY DEF Init
  <2>2. EmptyNoId
    BY SlotFacts DEF Init, EmptyNoId
  <2> QED
    BY <2>1, <2>2 DEF WInv, NoWaiterLeftBehind
<1>2. IInv /\ RInv /\ WInv /\ [Next]_vars => WInv'
  BY WaiterInduction
<1>3. WInv => NoWaiterLeftBehind
  BY DEF WInv
<1> QED
  BY <1>1, <1>2, <1>3, Invariance, RunningInvariance, PTL DEF Spec

------------------------------------------------------------------------------
(***************************************************************************)
(* Wake-ups.                                                               *)
(***************************************************************************)

\* SomebodyWillLook without the calls that are not about a key.
TakerAwake(k) ==
  k \in Futexes /\ \E s \in Slots : state[s] # "Blocked" /\ call[s].why = "Key"
                                    /\ call[s].of = k

\* NoLostWakeup with that.
NothingLost ==
  \A s \in Slots, k \in Keys :
    (state[s] = "Blocked" /\ WaitsFor(s, k) /\ k \in posted)
      => WakeIsComing(k) \/ TakerAwake(k)

\* Who sleeps for a key is inside of the call that asked for it ...
SleepsInCall ==
  \A s \in Slots : state[s] = "Blocked" /\ wait[s].why = "Key" => call[s] = wait[s]

\* ... and who is gone is inside of none.
GoneFromCall == \A s \in TaskSlots : state[s] \in Ended => call[s] = NoWait

LInv == NothingLost /\ SleepsInCall /\ GoneFromCall

LEMMA ReasonShapes ==
  /\ NoWait.why = "None" /\ Until.why = "Until"
  /\ \A w \in TaskWaits \cup KeyWaits : w.why \in {"Task", "Key"}
  /\ \A w \in TaskWaits \cup KeyWaits : w.why = "Key" => (Satisfied(w) <=> w.of \in posted)
BY DEF NoWait, Until, TaskWaits, KeyWaits, ForTask, ForKey, Satisfied

\* Steps that put nobody to sleep, end nobody, and leave calls and events.
LEMMA LostCalm ==
  ASSUME LInv, Calm, UNCHANGED <<call, events>>
  PROVE  LInv'
<1>1. \A k : WakeIsComing(k) => WakeIsComing(k)'
  BY DEF WakeIsComing, events
<1>2. \A k : TakerAwake(k) => TakerAwake(k)'
  BY DEF TakerAwake, Calm
<1>3. NothingLost'
  BY <1>1, <1>2 DEF LInv, NothingLost, Calm, WaitsFor, events
<1>4. SleepsInCall'
  BY DEF LInv, SleepsInCall, Calm
<1>5. GoneFromCall'
  BY DEF LInv, GoneFromCall, Calm
<1> QED
  BY <1>3, <1>4, <1>5 DEF LInv

\* A task sleeps: outside of any call for a time, or inside of one for what is
\* not there.
LEMMA LostBlock ==
  ASSUME IInv, LInv, NEW c \in Cpus, NEW w, Block(current[c], w),
         state[current[c]] = "Running",
         \/ w.why # "Key" /\ call[current[c]] = NoWait
         \/ /\ call[current[c]] \in {NoWait, w}
            /\ call' = [call EXCEPT ![current[c]] = w]
            /\ w.why = "Key" => w.of \notin posted,
         call' = call \/ call' = [call EXCEPT ![current[c]] = w]
  PROVE  LInv'
<1> DEFINE me == current[c]
<1>1. me \in Slots
  BY DEF IInv, TypeOK
<1>2. /\ state'[me] = "Blocked" /\ wait'[me] = w
      /\ \A s \in Slots \ {me} : state'[s] = state[s] /\ wait'[s] = wait[s]
                                 /\ call'[s] = call[s]
      /\ UNCHANGED events
  BY <1>1 DEF Block, IInv, TypeOK
<1>3. w.why = "Key" => call'[me] = w /\ w.of \notin posted
  BY <1>1 DEF IInv, TypeOK
<1>4. \A k \in posted : TakerAwake(k) => TakerAwake(k)'
  <2> SUFFICES ASSUME NEW k \in posted, k \in Futexes, NEW t \in Slots,
                      state[t] # "Blocked", call[t].why = "Key", call[t].of = k
               PROVE  TakerAwake(k)'
    BY DEF TakerAwake
  <2>1. t # me
    BY ReasonShapes
  <2> QED
    BY <1>2, <2>1 DEF TakerAwake
<1>5. NothingLost'
  <2> SUFFICES ASSUME NEW s \in Slots, NEW k \in Keys, state'[s] = "Blocked",
                      wait'[s].why = "Key", wait'[s].of = k, k \in posted
               PROVE  WakeIsComing(k)' \/ TakerAwake(k)'
    BY <1>2 DEF NothingLost, WaitsFor, events
  <2>1. s # me
    BY <1>2, <1>3
  <2>2. WakeIsComing(k) \/ TakerAwake(k)
    BY <1>2, <2>1 DEF LInv, NothingLost, WaitsFor
  <2>3. WakeIsComing(k) => WakeIsComing(k)'
    BY <1>2 DEF WakeIsComing, events
  <2> QED
    BY <1>4, <2>2, <2>3
<1>6. SleepsInCall'
  BY <1>1, <1>2, <1>3 DEF LInv, SleepsInCall
<1>7. GoneFromCall'
  BY <1>1, <1>2, SlotFacts DEF LInv, GoneFromCall, Ended
<1> QED
  BY <1>5, <1>6, <1>7 DEF LInv

\* A call ends: with what it waited for, which is taken, or without, when it
\* is not there.
LEMMA LostEnds ==
  ASSUME IInv, LInv, NEW c \in Cpus, state[current[c]] = "Running",
         UNCHANGED <<state, wait, waking, handler>>,
         call' = [call EXCEPT ![current[c]] = NoWait],
         posted' \subseteq posted,
         call[current[c]].why = "Key" => call[current[c]].of \notin posted'
  PROVE  LInv'
<1> DEFINE me == current[c]
<1>1. me \in Slots /\ call'[me] = NoWait /\ \A s \in Slots \ {me} : call'[s] = call[s]
  BY DEF IInv, TypeOK
<1>2. \A k : WakeIsComing(k) => WakeIsComing(k)'
  BY DEF WakeIsComing
<1>3. \A k \in posted' : TakerAwake(k) => TakerAwake(k)'
  <2> SUFFICES ASSUME NEW k \in posted', k \in Futexes, NEW t \in Slots,
                      state[t] # "Blocked", call[t].why = "Key", call[t].of = k
               PROVE  TakerAwake(k)'
    BY DEF TakerAwake
  <2>1. t # me
    OBVIOUS
  <2> QED
    BY <1>1, <2>1 DEF TakerAwake
<1>4. NothingLost'
  BY <1>2, <1>3 DEF LInv, NothingLost, WaitsFor
<1>5. SleepsInCall'
  BY <1>1 DEF LInv, SleepsInCall
<1>6. GoneFromCall'
  BY <1>1, SlotFacts DEF LInv, GoneFromCall
<1> QED
  BY <1>4, <1>5, <1>6 DEF LInv

\* A condition comes true, and its maker is on the way.
LEMMA LostPosted ==
  ASSUME LInv, NEW k \in Keys, UNCHANGED <<state, wait, call>>,
         posted' = posted \cup {k}, WakeIsComing(k)',
         \A i \in Keys : WakeIsComing(i) => WakeIsComing(i)'
  PROVE  LInv'
<1>1. \A i : TakerAwake(i) => TakerAwake(i)'
  BY DEF TakerAwake
<1>2. NothingLost'
  BY <1>1 DEF LInv, NothingLost, WaitsFor
<1> QED
  BY <1>2 DEF LInv, SleepsInCall, GoneFromCall

\* Every nonempty set of slots has a first one.
LEMMA FirstSlot ==
  ASSUME NEW T \in SUBSET Slots, T # {}
  PROVE  \E x \in T : \A y \in T : x <= y
<1>1. T \subseteq Nat
  BY SlotFacts DEF Slots
<1>2. \E x \in T : \A y \in T : <<y, x>> \notin OpToRel(<, Nat)
  BY <1>1, NatLessThanWellFounded, WFMin, Zenon
<1>3. \A x, y \in Nat : <<y, x>> \in OpToRel(<, Nat) <=> y < x
  BY DEF OpToRel
<1>4. \A x, y \in T : ~(y < x) => x <= y
  BY <1>1
<1> QED
  BY <1>1, <1>2, <1>3, <1>4

\* The wake-up arrives: nobody still sleeps for k, or, with a count, one who
\* did is awake inside of its call.
LEMMA LostWoken ==
  ASSUME IInv, LInv, NEW k, Wake(k), UNCHANGED <<id, call, posted>>,
         \A i \in Keys \ {k} : WakeIsComing(i) => WakeIsComing(i)'
  PROVE  LInv'
<1>1. PICK W \in WakeSets(k) : MakeReady(W, k \in Irqs \cup Inputs)
  BY DEF Wake
<1>2. W \subseteq Slots /\ \A s \in W : state[s] = "Blocked"
  BY WakeSetsShape
<1>3. Calm
  BY <1>1, <1>2, WakingIsCalm
<1>4. \A s \in Slots : state'[s] = IF s \in W THEN "Ready" ELSE state[s]
  BY <1>1 DEF MakeReady
<1>5. \A i : TakerAwake(i) => TakerAwake(i)'
  BY <1>3 DEF TakerAwake, Calm
<1>6. NothingLost'
  <2> SUFFICES ASSUME NEW s \in Slots, NEW i \in Keys, state'[s] = "Blocked",
                      wait'[s].why = "Key", wait'[s].of = i, i \in posted
               PROVE  WakeIsComing(i)' \/ TakerAwake(i)'
    BY DEF NothingLost, WaitsFor
  <2>1. state[s] = "Blocked" /\ WaitsFor(s, i) /\ s \notin W
    BY <1>3, <1>4 DEF Calm, WaitsFor
  <2>2. CASE i # k
    BY <1>5, <2>1, <2>2 DEF LInv, NothingLost
  <2>3. CASE i = k
    <3>1. s \in Waiters(k)
      BY <2>1, <2>3 DEF Waiters
    <3>2. k \in Futexes /\ W = {t \in Waiters(k) : \A u \in Waiters(k) : t <= u}
      BY <2>1, <3>1 DEF WakeSets
    <3>3. PICK m \in W : TRUE
      BY <3>1, <3>2, FirstSlot DEF Waiters
    <3>4. state[m] = "Blocked" /\ WaitsFor(m, k) /\ m \in Slots
      BY <3>2, <3>3 DEF Waiters
    <3>5. call[m] = wait[m]
      BY <3>4 DEF LInv, SleepsInCall, WaitsFor
    <3>6. state'[m] # "Blocked" /\ call'[m].why = "Key" /\ call'[m].of = k
      BY <1>4, <3>3, <3>4, <3>5 DEF WaitsFor
    <3> QED
      BY <2>3, <3>2, <3>4, <3>6 DEF TakerAwake
  <2> QED
    BY <2>2, <2>3
<1>7. SleepsInCall'
  BY <1>3 DEF LInv, SleepsInCall, Calm
<1>8. GoneFromCall'
  BY <1>3 DEF LInv, GoneFromCall, Calm
<1> QED
  BY <1>6, <1>7, <1>8 DEF LInv

\* A new task begins outside of any call; the slot's old one ended there.
LEMMA LostSpawn ==
  ASSUME IInv, LInv, NEW c \in Cpus, Spawn(c)
  PROVE  LInv'
<1>1. PICK f \in FreeSlot : /\ state' = [state EXCEPT ![f] = "Ready"]
                            /\ wait' = [wait EXCEPT ![f] = NoWait]
                            /\ call' = [call EXCEPT ![f] = NoWait]
  BY DEF Spawn
<1>2. f \in TaskSlots /\ f \in Slots /\ state[f] \in Ended
  BY SlotFacts DEF FreeSlot, Ended
<1>3. /\ state'[f] = "Ready" /\ call'[f] = NoWait
      /\ \A s \in Slots \ {f} : state'[s] = state[s] /\ wait'[s] = wait[s]
                                /\ call'[s] = call[s]
  BY <1>1, <1>2 DEF IInv, TypeOK
<1>4. call[f] = NoWait
  BY <1>2 DEF LInv, GoneFromCall
<1>5. \A k : WakeIsComing(k) => WakeIsComing(k)'
  BY DEF Spawn, WakeIsComing, events
<1>6. \A k : TakerAwake(k) => TakerAwake(k)'
  BY <1>3, <1>4, ReasonShapes DEF TakerAwake
<1>7. NothingLost'
  <2> SUFFICES ASSUME NEW s \in Slots, NEW k \in Keys, state'[s] = "Blocked",
                      wait'[s].why = "Key", wait'[s].of = k, k \in posted
               PROVE  WakeIsComing(k)' \/ TakerAwake(k)'
    BY DEF NothingLost, WaitsFor, Spawn, events
  <2>1. s # f
    BY <1>3
  <2> QED
    BY <1>3, <1>5, <1>6, <2>1 DEF LInv, NothingLost, WaitsFor
<1>8. SleepsInCall'
  BY <1>3 DEF LInv, SleepsInCall
<1>9. GoneFromCall'
  BY <1>3, SlotFacts DEF LInv, GoneFromCall
<1> QED
  BY <1>7, <1>8, <1>9 DEF LInv

\* A task ends outside of any call.
LEMMA LostExit ==
  ASSUME IInv, LInv, NEW c \in Cpus, Exit(c), state[current[c]] = "Running"
  PROVE  LInv'
<1> DEFINE me == current[c]
           W  == WaitersOf(id[me])
<1>1. me \in Slots /\ call[me] = NoWait /\ UNCHANGED <<call, events>>
  BY DEF IInv, TypeOK, Exit, IsFree
<1>2. \A s \in Slots : /\ state'[s] = IF s = me THEN "Finished"
                                      ELSE IF s \in W THEN "Ready" ELSE state[s]
                       /\ wait'[s] = IF s \in W THEN NoWait ELSE wait[s]
  BY DEF Exit
<1>3. \A s \in W : state[s] = "Blocked"
  BY DEF WaitersOf
<1> HIDE DEF W
<1>4. \A s \in Slots : state'[s] = "Blocked" => state[s] = "Blocked" /\ wait'[s] = wait[s]
  BY <1>2
<1>5. \A s \in Slots : state[s] # "Blocked" => state'[s] # "Blocked"
  BY <1>2, <1>3
<1>6. \A k : WakeIsComing(k) => WakeIsComing(k)'
  BY <1>1 DEF WakeIsComing, events
<1>7. \A k : TakerAwake(k) => TakerAwake(k)'
  BY <1>1, <1>5 DEF TakerAwake
<1>8. NothingLost'
  BY <1>1, <1>4, <1>6, <1>7 DEF LInv, NothingLost, WaitsFor, events
<1>9. SleepsInCall'
  BY <1>1, <1>4 DEF LInv, SleepsInCall
<1>10. GoneFromCall'
  BY <1>1, <1>2, SlotFacts DEF LInv, GoneFromCall, Ended
<1> QED
  BY <1>8, <1>9, <1>10 DEF LInv

LEMMA LostInduction == IInv /\ RInv /\ LInv /\ [Next]_vars => LInv'
<1> SUFFICES ASSUME IInv, RInv, LInv, [Next]_vars PROVE LInv'
  OBVIOUS
<1> USE DEF IInv
<1>1. ASSUME UNCHANGED <<id, state, wait, call, events>> PROVE LInv'
  BY <1>1, LostCalm DEF Calm
<1>2. ASSUME NEW c \in Cpus, SwitchContext(c) \/ FinishSwitch(c) PROVE LInv'
  BY <1>1, <1>2 DEF SwitchContext, FinishSwitch, table, code
<1>3. ASSUME NEW c \in Cpus, Preempt(c) \/ Yield(c) PROVE LInv'
  BY <1>3, ScheduleIsCalm, LostCalm DEF Preempt, Yield, ScheduleWith
<1>4. ASSUME NEW c \in Cpus, Sleep(c) PROVE LInv'
  <2>1. Block(current[c], Until) /\ AtCode(c) /\ call[current[c]] = NoWait /\ call' = call
    BY <1>4 DEF Sleep, IsFree
  <2> QED
    BY <2>1, FreeRuns, ReasonShapes, LostBlock
<1>5. ASSUME NEW c \in Cpus, NEW w \in TaskWaits \cup KeyWaits, BlockOn(c, w) PROVE LInv'
  <2>1. /\ Block(current[c], w) /\ AtCode(c) /\ ~Satisfied(w)
        /\ call[current[c]] \in {NoWait, w}
        /\ call' = [call EXCEPT ![current[c]] = w]
    BY <1>5 DEF BlockOn, IsFree
  <2>2. w.why = "Key" => w.of \notin posted
    BY <2>1, ReasonShapes
  <2> QED
    BY <2>1, <2>2, FreeRuns, LostBlock
<1>6. ASSUME NEW c \in Cpus, Return(c) \/ GiveUp(c) PROVE LInv'
  <2> DEFINE me == current[c]
  <2>1. /\ AtCode(c) /\ UNCHANGED <<state, wait, waking, handler>>
        /\ call' = [call EXCEPT ![me] = NoWait]
    BY <1>6 DEF Return, GiveUp, table, events
  <2>2. posted' \subseteq posted
    BY <1>6 DEF Return, GiveUp, events
  <2>3. call[me].why = "Key" => call[me].of \notin posted'
    BY <1>6 DEF Return, GiveUp, events, Satisfied
  <2> QED
    BY <2>1, <2>2, <2>3, FreeRuns, LostEnds
<1>7. ASSUME NEW c \in Cpus, NEW k \in Locks \cup Futexes, Post(c, k) PROVE LInv'
  <2>1. current[c] \in Slots /\ waking[current[c]] = None /\ k \in Keys /\ None \notin Keys
    BY <1>7, SchedulerAssumption DEF Post, IsFree, AtCode, TypeOK, Keys
  <2>2. waking' = [waking EXCEPT ![current[c]] = k] /\ UNCHANGED handler
    BY <1>7 DEF Post
  <2>3. WakeIsComing(k)'
    BY <2>1, <2>2 DEF WakeIsComing, TypeOK
  <2>4. \A i \in Keys : WakeIsComing(i) => WakeIsComing(i)'
    BY <2>1, <2>2 DEF WakeIsComing, TypeOK
  <2>5. UNCHANGED <<state, wait, call>> /\ posted' = posted \cup {k}
    BY <1>7 DEF Post, table, code
  <2> QED
    BY <2>1, <2>3, <2>4, <2>5, LostPosted
<1>8. ASSUME NEW c \in Cpus, NEW k \in Irqs \cup Inputs, Interrupt(c, k) PROVE LInv'
  <2>1. handler[c] = None /\ k \in Keys /\ None \notin Keys
    BY <1>8, SchedulerAssumption DEF Interrupt, Executes, Keys
  <2>2. handler' = [handler EXCEPT ![c] = k] /\ UNCHANGED waking
    BY <1>8 DEF Interrupt
  <2>3. WakeIsComing(k)'
    BY <2>1, <2>2 DEF WakeIsComing, TypeOK
  <2>4. \A i \in Keys : WakeIsComing(i) => WakeIsComing(i)'
    BY <2>1, <2>2 DEF WakeIsComing, TypeOK
  <2>5. UNCHANGED <<state, wait, call>> /\ posted' = posted \cup {k}
    BY <1>8 DEF Interrupt, table, code
  <2> QED
    BY <2>1, <2>3, <2>4, <2>5, LostPosted
<1>9. ASSUME NEW c \in Cpus, WakeByTask(c) PROVE LInv'
  <2> DEFINE k == waking[current[c]]
  <2>1. Wake(k) /\ UNCHANGED <<id, call, posted, handler>>
        /\ waking' = [waking EXCEPT ![current[c]] = None]
    BY <1>9 DEF WakeByTask, code
  <2>2. \A i \in Keys \ {k} : WakeIsComing(i) => WakeIsComing(i)'
    BY <2>1 DEF WakeIsComing, TypeOK
  <2> QED
    BY <2>1, <2>2, LostWoken
<1>10. ASSUME NEW c \in Cpus, WakeByHandler(c) PROVE LInv'
  <2> DEFINE k == handler[c]
  <2>1. Wake(k) /\ UNCHANGED <<id, call, posted, waking>>
        /\ handler' = [handler EXCEPT ![c] = None]
    BY <1>10 DEF WakeByHandler, code
  <2>2. \A i \in Keys \ {k} : WakeIsComing(i) => WakeIsComing(i)'
    BY <2>1 DEF WakeIsComing, TypeOK
  <2> QED
    BY <2>1, <2>2, LostWoken
<1>11. ASSUME NEW c \in Cpus, NEW i, WakeTask(c, i) PROVE LInv'
  <2> DEFINE W == {s \in TaskSlots : id[s] = i /\ state[s] = "Blocked"}
  <2>1. MakeReady(W, FALSE) /\ UNCHANGED <<id, call, events>>
    BY <1>11 DEF WakeTask, code
  <2>2. W \subseteq Slots /\ \A s \in W : state[s] = "Blocked"
    BY SlotFacts
  <2> HIDE DEF W
  <2> QED
    BY <2>1, <2>2, WakingIsCalm, LostCalm
<1>12. ASSUME NEW s \in TaskSlots, DeadlinePasses(s) PROVE LInv'
  BY <1>1, <1>12 DEF DeadlinePasses, table, code
<1>13. ASSUME NEW c \in Cpus, Spawn(c) PROVE LInv'
  BY <1>13, LostSpawn
<1>14. ASSUME NEW c \in Cpus, Exit(c) PROVE LInv'
  BY <1>14, FreeRuns, LostExit DEF Exit, IsFree
<1>15. CASE UNCHANGED vars
  BY <1>1, <1>15 DEF vars, table, code
<1> QED
  BY <1>2, <1>3, <1>4, <1>5, <1>6, <1>7, <1>8, <1>9, <1>10, <1>11, <1>12, <1>13,
     <1>14, <1>15 DEF Next

\* No wake-up is lost, on any number of processors and for any number of
\* sleepers: whoever sleeps on a condition that holds has a waker on the way,
\* or one who was woken for it and has yet to look.
THEOREM NoWakeupIsLost == Spec => []NoLostWakeup
<1>1. Init => LInv
  <2> SUFFICES ASSUME Init PROVE LInv
    OBVIOUS
  <2>1. (\A s \in Slots : state[s] # "Blocked") /\ \A s \in Slots : call[s] = NoWait
    BY DEF Init
  <2> QED
    BY <2>1, SlotFacts DEF LInv, NothingLost, SleepsInCall, GoneFromCall
<1>2. IInv /\ RInv /\ LInv /\ [Next]_vars => LInv'
  BY LostInduction
<1>3. LInv => NoLostWakeup
  <2>1. \A k : TakerAwake(k) => SomebodyWillLook(k)
    BY DEF TakerAwake, SomebodyWillLook
  <2> QED
    BY <2>1 DEF LInv, NothingLost, NoLostWakeup
<1> QED
  BY <1>1, <1>2, <1>3, Invariance, RunningInvariance, PTL DEF Spec
==============================================================================
