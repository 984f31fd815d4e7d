------------------------------ MODULE Scheduler ------------------------------
(***************************************************************************)
(* The kernel's task scheduler (crates/kernel/src/sched): round-robin with *)
(* preemption over a fixed table of slots, on one or several processors.   *)
(*                                                                         *)
(* Everything the code does under SCHED.lock() is one action: the lock     *)
(* excludes the other processors and closes interrupts on its own.  What   *)
(* happens outside the lock is a step of its own, because there the other  *)
(* processors see the table as it is:                                      *)
(*                                                                         *)
(*   - a task that marked itself Blocked or Finished and has not called    *)
(*     schedule() yet (at = "yield");                                      *)
(*   - a processor that chose the next task and still executes on the      *)
(*     stack of the previous one (phase = "switch");                       *)
(*   - a processor on the new stack that has not released the previous     *)
(*     task (phase = "finish");                                            *)
(*   - a task or an interrupt handler that set the condition others wait   *)
(*     for and has not called wake_* yet (waking, handler).                *)
(*                                                                         *)
(* Time, the slice counter and the statistics are left out: a tick may     *)
(* preempt at any step, a deadline may pass at any step.  The machine is   *)
(* modelled from the moment run() has set `running`, with every processor  *)
(* in its idle task.                                                       *)
(***************************************************************************)
EXTENDS Integers, FiniteSets

CONSTANTS
  MAX_CPUS,   \* processors; slot c < MAX_CPUS is the idle task of processor c
  MAX_TASKS,  \* slots of the table, idle ones included
  Spawned,    \* how many tasks the boot code spawned before run()
  MaxId,      \* bound: the last task id spawn hands out
  Locks,      \* addresses used with block_on_lock
  Irqs,       \* sources used with block_on_irq and block_on_irq_until
  Inputs,     \* the input queue: {} or one element
  Futexes     \* keys used with block_on_futex

Keys == Locks \cup Irqs \cup Inputs \cup Futexes
None == -1

ASSUME SchedulerAssumption ==
  /\ MAX_CPUS \in Nat \ {0}
  /\ MAX_TASKS \in Nat /\ MAX_TASKS > MAX_CPUS
  /\ Spawned \in 0 .. (MAX_TASKS - MAX_CPUS)
  /\ MaxId \in Nat /\ Spawned <= MaxId
  /\ None \notin Keys

Cpus      == 0 .. (MAX_CPUS - 1)
Slots     == 0 .. (MAX_TASKS - 1)
TaskSlots == MAX_CPUS .. (MAX_TASKS - 1)
IsIdle(s) == s < MAX_CPUS

VARIABLES
  state,     \* Task::state, or "Empty" for a slot of the table that is None
  wait,      \* what a Blocked task waits for
  id,        \* Task::id; slots are reused, ids are not
  cpu,       \* Task::cpu: the processor its context is live on, or None
  stack,     \* whether Task::stack is held
  boost,     \* Task::boost
  next_id,
  current,   \* Cpu::current
  previous,  \* Cpu::previous
  sp,        \* the slot on whose stack the processor really executes
  phase,     \* how far the processor is through a context switch
  at,        \* "yield": the task is about to call schedule()
  call,      \* the blocking call a task is inside of, None outside
  posted,    \* the keys whose condition currently holds
  waking,    \* key a task has posted and not called wake_* for
  handler,   \* the same for the interrupt handler of a processor
  due        \* the Blocked slots whose deadline has passed

table    == <<state, wait, id, cpu, stack, boost, next_id>>
cpus     == <<current, previous, sp, phase>>
code     == <<at, call>>
events   == <<posted, waking, handler>>
vars     == <<table, cpus, code, events, due>>

(***************************************************************************)
(* Reasons to wait: enum Wait.                                             *)
(***************************************************************************)
NoWait        == [why |-> "None",  of |-> None, timed |-> FALSE]
Until         == [why |-> "Until", of |-> None, timed |-> TRUE]
ForTask(i)    == [why |-> "Task",  of |-> i,    timed |-> FALSE]
ForKey(k, t)  == [why |-> "Key",   of |-> k,    timed |-> t]

\* Lock waits have no deadline, input waits always have one.
KeyWaits == {ForKey(k, FALSE) : k \in Locks \cup Irqs \cup Futexes}
              \cup {ForKey(k, TRUE) : k \in Irqs \cup Inputs \cup Futexes}
TaskWaits == {ForTask(i) : i \in 1 .. MaxId}
Waits == {NoWait, Until} \cup TaskWaits \cup KeyWaits

WaitsFor(s, k) == wait[s].why = "Key" /\ wait[s].of = k

------------------------------------------------------------------------------
\* What schedule() and the wake_* functions compute under the lock.

WakeExpiredInputsOnly(s) ==
  state[s] = "Blocked" /\ s \in due /\ wait[s].why = "Key"

\* wake_expired: the kinds of wait that carry a tick.
Expired(s) == state[s] = "Blocked" /\ s \in due /\ wait[s].timed

AfterExpiry == [s \in Slots |-> IF Expired(s) THEN "Ready" ELSE state[s]]

ReapableUnlessCurrent(s) ==
  state[s] = "Finished" /\ \A c \in Cpus : current[c] # s

\* reap: a finished task whose context is live nowhere gives its stack back.
Reapable(s) == s \in TaskSlots /\ state[s] = "Finished" /\ cpu[s] = None

AfterReap == [s \in Slots |-> stack[s] /\ ~Reapable(s)]

CandidatesWithoutMark(st) == {s \in TaskSlots : st[s] = "Ready"}

Candidates(st) == {s \in TaskSlots : st[s] = "Ready" /\ cpu[s] = None}

DistanceFromZero(from, s) == s

\* How many steps of the walk `(current + step) % MAX_TASKS` lead to s.
Distance(from, s) == (s - from) % MAX_TASKS

Nearest(from, S) ==
  {s \in S : \A t \in S : Distance(from, s) <= Distance(from, t)}

\* pick_next: boosted candidates first, then any; None is "stay".
PickNext(c, st) ==
  LET ready  == Candidates(st)
      urgent == {s \in ready : boost[s]}
      me     == current[c]
  IN  CASE urgent # {} -> Nearest(me, urgent)
        [] urgent = {} /\ ready # {} -> Nearest(me, ready)
        [] ready = {} /\ (IsIdle(me) \/ st[me] \in {"Running", "Ready"}) -> {None}
        [] OTHER -> {c}

FreeSlotWithoutMark ==
  LET empty == {s \in TaskSlots : state[s] = "Empty"}
      gone  == {s \in TaskSlots : state[s] = "Finished"}
  IN  IF empty # {} THEN {s \in empty : \A t \in empty : s <= t}
      ELSE {s \in gone : \A t \in gone : id[s] <= id[t]}

\* free_slot: the first empty slot, else the oldest finished one nobody runs.
FreeSlot ==
  LET empty == {s \in TaskSlots : state[s] = "Empty"}
      gone  == {s \in TaskSlots : state[s] = "Finished" /\ cpu[s] = None}
  IN  IF empty # {} THEN {s \in empty : \A t \in empty : s <= t}
      ELSE {s \in gone : \A t \in gone : id[s] <= id[t]}

\* The tasks W stop waiting; kinds of wait that hurry also get the boost.
MakeReady(W, hurried) ==
  /\ state' = [s \in Slots |-> IF s \in W THEN "Ready" ELSE state[s]]
  /\ wait'  = [s \in Slots |-> IF s \in W THEN NoWait ELSE wait[s]]
  /\ boost' = [s \in Slots |-> boost[s] \/ (hurried /\ s \in W)]
  /\ due'   = due \ W

Waiters(k) == {s \in Slots : state[s] = "Blocked" /\ WaitsFor(s, k)}

\* wake_lock, wake_irq and wake_input wake every waiter; wake_futex wakes
\* `count` of them in slot order, or all of them for count = 0.
WakeSets(k) ==
  LET all == Waiters(k)
  IN  IF k \in Futexes
        THEN {all, {s \in all : \A t \in all : s <= t}}
        ELSE {all}

Wake(k) ==
  \E W \in WakeSets(k) : MakeReady(W, k \in Irqs \cup Inputs)

------------------------------------------------------------------------------
Init ==
  /\ state = [s \in Slots |->
                IF IsIdle(s) THEN "Running"
                ELSE IF s < MAX_CPUS + Spawned THEN "Ready" ELSE "Empty"]
  /\ wait  = [s \in Slots |-> NoWait]
  /\ id    = [s \in Slots |->
                IF IsIdle(s) THEN 0
                ELSE IF s < MAX_CPUS + Spawned THEN s - MAX_CPUS + 1 ELSE None]
  /\ cpu   = [s \in Slots |-> IF IsIdle(s) THEN s ELSE None]
  /\ stack = [s \in Slots |-> ~IsIdle(s) /\ s < MAX_CPUS + Spawned]
  /\ boost = [s \in Slots |-> FALSE]
  /\ next_id = Spawned + 1
  /\ current  = [c \in Cpus |-> c]
  /\ previous = [c \in Cpus |-> None]
  /\ sp       = [c \in Cpus |-> c]
  /\ phase    = [c \in Cpus |-> "code"]
  /\ at       = [s \in Slots |-> "code"]
  /\ call     = [s \in Slots |-> NoWait]
  /\ posted   = {}
  /\ waking   = [s \in Slots |-> None]
  /\ handler  = [c \in Cpus |-> None]
  /\ due      = {}

------------------------------------------------------------------------------
(***************************************************************************)
(* The context switch.                                                     *)
(***************************************************************************)

\* Interrupts are open and no handler is running: the processor executes the
\* code of its current task.
Executes(c) == phase[c] = "code" /\ handler[c] = None

StayReady(c) ==
  /\ None \in PickNext(c, AfterExpiry)
  /\ state' = AfterExpiry
  /\ UNCHANGED <<cpu, boost, cpus>>

\* The branch of schedule_with that keeps the current task.
Stay(c) ==
  LET me == current[c]
      st == AfterExpiry
  IN  /\ None \in PickNext(c, st)
      /\ state' = [st EXCEPT ![me] =
                     IF ~IsIdle(me) /\ @ = "Ready" THEN "Running" ELSE @]
      /\ UNCHANGED <<cpu, boost, cpus>>

\* The branch of schedule_with that takes another task: the marks are set
\* here, under the lock; the stacks change later.
SwitchTo(c, next) ==
  LET me == current[c]
      st == AfterExpiry
  IN  /\ next \in PickNext(c, st)
      /\ state' = [st EXCEPT ![me] = IF @ = "Running" THEN "Ready" ELSE @,
                             ![next] = "Running"]
      /\ cpu'      = [cpu EXCEPT ![next] = c]
      /\ boost'    = [boost EXCEPT ![next] = FALSE]
      /\ previous' = [previous EXCEPT ![c] = me]
      /\ current'  = [current EXCEPT ![c] = next]
      /\ phase'    = [phase EXCEPT ![c] = "switch"]
      /\ UNCHANGED sp

\* schedule_with, up to the release of the lock.
ScheduleWith(c) ==
  /\ stack' = AfterReap
  /\ wait' = [s \in Slots |-> IF Expired(s) THEN NoWait ELSE wait[s]]
  /\ due' = {s \in due : ~Expired(s)}
  /\ \/ Stay(c)
     \/ \E next \in Slots : SwitchTo(c, next)
  /\ UNCHANGED <<id, next_id, call, events>>

\* arch::switch_context: the registers of the old task are saved, the
\* processor continues on the stack of the new one.
SwitchContext(c) ==
  /\ phase[c] = "switch"
  /\ sp' = [sp EXCEPT ![c] = current[c]]
  /\ phase' = [phase EXCEPT ![c] = "finish"]
  /\ UNCHANGED <<table, current, previous, code, events, due>>

ForgetMark(c) == cpu

MarkWithSlot(c) == [cpu EXCEPT ![previous[c]] = current[c]]

\* What finish_switch does to the marks.
DropMark(c) == [cpu EXCEPT ![previous[c]] = None]

\* finish_switch, after switch_context returns or first thing in task_start.
FinishSwitch(c) ==
  /\ phase[c] = "finish"
  /\ cpu' = DropMark(c)
  /\ previous' = [previous EXCEPT ![c] = None]
  /\ phase' = [phase EXCEPT ![c] = "code"]
  /\ UNCHANGED <<state, wait, id, stack, boost, next_id, current, sp>>
  /\ UNCHANGED <<code, events, due>>

\* preempt_point at the end of an interrupt: any point of the task's code,
\* also between "marked Blocked" and schedule().
Preempt(c) ==
  /\ Executes(c)
  /\ ScheduleWith(c)
  /\ UNCHANGED at

------------------------------------------------------------------------------
(***************************************************************************)
(* What the code of the current task may do.                               *)
(***************************************************************************)

AtCode(c) == Executes(c) /\ at[current[c]] = "code" /\ waking[current[c]] = None

\* Outside of any blocking call.  Idle tasks only ever call schedule().
IsFree(c) == AtCode(c) /\ ~IsIdle(current[c]) /\ call[current[c]] = NoWait

\* schedule() called by the task itself: yield_now, the second half of every
\* blocking call and of exit, the idle loop.
Yield(c) ==
  LET me == current[c]
  IN  /\ Executes(c)
      /\ at[me] = "yield" \/ (AtCode(c) /\ call[me] = NoWait)
      /\ ScheduleWith(c)
      /\ at' = [at EXCEPT ![me] = "code"]

Block(me, w) ==
  /\ state' = [state EXCEPT ![me] = "Blocked"]
  /\ wait'  = [wait EXCEPT ![me] = w]
  /\ at'    = [at EXCEPT ![me] = "yield"]
  /\ UNCHANGED <<id, cpu, stack, boost, next_id, cpus, events, due>>

\* sleep_until: one sleep, no condition to check again.
Sleep(c) ==
  /\ IsFree(c)
  /\ Block(current[c], Until)
  /\ UNCHANGED call

NeverReady(w) == FALSE

\* The condition the caller's closure checks under the scheduler's lock; for
\* wait(id) the search of the table.
Satisfied(w) ==
  IF w.why = "Task"
    THEN \A s \in TaskSlots : id[s] = w.of => state[s] = "Finished"
    ELSE w.of \in posted

\* One round of a blocking call that has to sleep: wait, block_on_lock,
\* block_on_irq, block_on_irq_until, block_on_input, block_on_futex.
BlockOn(c, w) ==
  LET me == current[c]
  IN  /\ IsFree(c) \/ (AtCode(c) /\ call[me] = w)
      /\ ~Satisfied(w)
      /\ Block(me, w)
      /\ call' = [call EXCEPT ![me] = w]

\* The call ends: what it waited for is there and the caller takes it.
Return(c) ==
  LET me == current[c]
  IN  /\ AtCode(c) /\ call[me] # NoWait
      /\ Satisfied(call[me])
      /\ posted' = posted \ {call[me].of}
      /\ call' = [call EXCEPT ![me] = NoWait]
      /\ UNCHANGED <<table, cpus, at, waking, handler, due>>

\* A call with a deadline ends without what it waited for.
GiveUp(c) ==
  LET me == current[c]
  IN  /\ AtCode(c) /\ call[me].timed
      /\ ~Satisfied(call[me])
      /\ call' = [call EXCEPT ![me] = NoWait]
      /\ UNCHANGED <<table, cpus, at, events, due>>

\* A task makes a condition true: Mutex unlocks, a pipe end moves bytes, a
\* program changes its futex word.  The wake-up is a later call.
Post(c, k) ==
  /\ IsFree(c)
  /\ posted' = posted \cup {k}
  /\ waking' = [waking EXCEPT ![current[c]] = k]
  /\ UNCHANGED <<table, cpus, code, handler, due>>

\* wake_lock or wake_futex, called by the task after Post.
WakeByTask(c) ==
  LET me == current[c]
  IN  /\ Executes(c) /\ waking[me] # None
      /\ Wake(waking[me])
      /\ waking' = [waking EXCEPT ![me] = None]
      /\ UNCHANGED <<id, cpu, stack, next_id, cpus, code, posted, handler>>

\* wake(id), the kill request's wake-up: whatever the task waits for.
WakeTask(c, i) ==
  /\ IsFree(c)
  /\ MakeReady({s \in TaskSlots : id[s] = i /\ state[s] = "Blocked"}, FALSE)
  /\ UNCHANGED <<id, cpu, stack, next_id, cpus, code, events>>

\* A device or the input queue: the handler sets the condition ...
Interrupt(c, k) ==
  /\ Executes(c)
  /\ posted' = posted \cup {k}
  /\ handler' = [handler EXCEPT ![c] = k]
  /\ UNCHANGED <<table, cpus, code, waking, due>>

\* ... and then calls wake_irq or wake_input.
WakeByHandler(c) ==
  /\ handler[c] # None
  /\ Wake(handler[c])
  /\ handler' = [handler EXCEPT ![c] = None]
  /\ UNCHANGED <<id, cpu, stack, next_id, cpus, code, posted, waking>>

\* The time of a Blocked task's deadline comes.
DeadlinePasses(s) ==
  /\ state[s] = "Blocked" /\ wait[s].timed /\ s \notin due
  /\ due' = due \cup {s}
  /\ UNCHANGED <<table, cpus, code, events>>

\* spawn_raw: the new task in a free slot; a full table changes nothing.
Spawn(c) ==
  /\ IsFree(c) /\ next_id <= MaxId
  /\ \E s \in FreeSlot :
       /\ state' = [state EXCEPT ![s] = "Ready"]
       /\ wait'  = [wait EXCEPT ![s] = NoWait]
       /\ id'    = [id EXCEPT ![s] = next_id]
       /\ cpu'   = [cpu EXCEPT ![s] = None]
       /\ stack' = [stack EXCEPT ![s] = TRUE]
       /\ boost' = [boost EXCEPT ![s] = FALSE]
       /\ at'    = [at EXCEPT ![s] = "code"]
       /\ call'  = [call EXCEPT ![s] = NoWait]
  /\ next_id' = next_id + 1
  /\ UNCHANGED <<cpus, events, due>>

NoWaiters(i) == {}

\* The tasks wake_waiters wakes when task i finishes.
WaitersOf(i) ==
  {s \in Slots : state[s] = "Blocked" /\ wait[s] = ForTask(i)}

\* exit_current_with, up to its schedule().
Exit(c) ==
  LET me == current[c]
      W  == WaitersOf(id[me])
  IN  /\ IsFree(c)
      /\ state' = [s \in Slots |-> IF s = me THEN "Finished"
                                   ELSE IF s \in W THEN "Ready" ELSE state[s]]
      /\ wait'  = [s \in Slots |-> IF s \in W THEN NoWait ELSE wait[s]]
      /\ at'    = [at EXCEPT ![me] = "yield"]
      /\ UNCHANGED <<id, cpu, stack, boost, next_id, cpus, call, events, due>>

------------------------------------------------------------------------------
Next ==
  \/ \E c \in Cpus : SwitchContext(c)
  \/ \E c \in Cpus : FinishSwitch(c)
  \/ \E c \in Cpus : Preempt(c)
  \/ \E c \in Cpus : Yield(c)
  \/ \E c \in Cpus : Sleep(c)
  \/ \E c \in Cpus, w \in TaskWaits \cup KeyWaits : BlockOn(c, w)
  \/ \E c \in Cpus : Return(c)
  \/ \E c \in Cpus : GiveUp(c)
  \/ \E c \in Cpus, k \in Locks \cup Futexes : Post(c, k)
  \/ \E c \in Cpus : WakeByTask(c)
  \/ \E c \in Cpus, i \in 1 .. MaxId : WakeTask(c, i)
  \/ \E c \in Cpus, k \in Irqs \cup Inputs : Interrupt(c, k)
  \/ \E c \in Cpus : WakeByHandler(c)
  \/ \E s \in TaskSlots : DeadlinePasses(s)
  \/ \E c \in Cpus : Spawn(c)
  \/ \E c \in Cpus : Exit(c)

Spec == Init /\ [][Next]_vars

------------------------------------------------------------------------------
(***************************************************************************)
(* Safety.                                                                 *)
(***************************************************************************)

\* The shape of the table and of the per-processor state.
TypeOK ==
  /\ state \in [Slots -> {"Empty", "Ready", "Running", "Blocked", "Finished"}]
  /\ wait \in [Slots -> Waits]
  /\ id \in [Slots -> {None} \cup 0 .. MaxId]
  /\ cpu \in [Slots -> Cpus \cup {None}]
  /\ stack \in [Slots -> BOOLEAN]
  /\ boost \in [Slots -> BOOLEAN]
  /\ next_id \in 1 .. (MaxId + 1)
  /\ current \in [Cpus -> Slots]
  /\ previous \in [Cpus -> Slots \cup {None}]
  /\ sp \in [Cpus -> Slots]
  /\ phase \in [Cpus -> {"code", "switch", "finish"}]
  /\ at \in [Slots -> {"code", "yield"}]
  /\ call \in [Slots -> Waits]
  /\ posted \subseteq Keys
  /\ waking \in [Slots -> Keys \cup {None}]
  /\ handler \in [Cpus -> Keys \cup {None}]
  /\ due \subseteq Slots

\* Two processors never execute on one stack: the window between "the next
\* task is chosen" and "the registers of the old one are saved" is closed by
\* the mark Task::cpu.
OneStackPerCpu == \A c, d \in Cpus : c # d => sp[c] # sp[d]

\* The stack a processor executes on is not given back to the heap, and its
\* slot is not emptied, whatever the other processors reap or spawn.
ExecutesOnHeldStack ==
  \A c \in Cpus : ~IsIdle(sp[c]) => stack[sp[c]] /\ state[sp[c]] # "Empty"

\* A slot gets a new task only when no processor is still on the old one's
\* stack.
LiveSlotKept ==
  [][\A s \in Slots : id'[s] # id[s] => \A c \in Cpus : sp[c] # s]_vars

\* "Ready" and "Running" mean what they say: every Running task is the
\* current one of exactly one processor, and a processor that executes a
\* task's own code executes a Running task.
RunningIsCurrent ==
  /\ \A s \in TaskSlots : state[s] = "Running" =>
       \E c \in Cpus : current[c] = s /\ \A d \in Cpus : current[d] = s => d = c
  /\ \A c \in Cpus : at[current[c]] = "code" => state[current[c]] = "Running"

\* Somebody is about to call wake_* for k.
WakeIsComing(k) ==
  \/ \E s \in Slots : waking[s] = k
  \/ \E c \in Cpus : handler[c] = k

\* A wake_futex with a count has woken some waiter of k that has yet to look.
SomebodyWillLook(k) ==
  k \in Futexes /\ \E s \in Slots : state[s] # "Blocked" /\ call[s].of = k

\* No lost wake-up: nobody sleeps on a condition that holds, unless the one
\* who made it true is still on the way to wake the sleepers.  The check
\* under the scheduler's lock and "set first, wake afterwards" together.
NoLostWakeup ==
  \A s \in Slots, k \in Keys :
    (state[s] = "Blocked" /\ WaitsFor(s, k) /\ k \in posted)
      => WakeIsComing(k) \/ SomebodyWillLook(k)

\* wait(id) sleeps only for a task that is still alive: the exit wakes its
\* waiters once, so a waiter left behind would sleep forever.
NoWaiterLeftBehind ==
  \A s \in Slots, i \in 1 .. MaxId :
    (state[s] = "Blocked" /\ wait[s] = ForTask(i)) =>
      \E t \in TaskSlots : id[t] = i /\ state[t] \notin {"Finished", "Empty"}

------------------------------------------------------------------------------
(***************************************************************************)
(* Liveness.  A processor's own steps are taken.  Interrupts keep coming   *)
(* and every one of them ends in preempt_point, whose flag the timer tick  *)
(* raises when the slice is over; handlers may run in between, so the      *)
(* preemption of a processor is strongly fair and the rest weakly.         *)
(***************************************************************************)
Fairness ==
  /\ \A c \in Cpus : /\ WF_vars(SwitchContext(c))
                     /\ WF_vars(FinishSwitch(c))
                     /\ WF_vars(WakeByHandler(c))
                     /\ SF_vars(Preempt(c))
  /\ \A s \in TaskSlots : WF_vars(DeadlinePasses(s))

FairSpec == Spec /\ Fairness

\* Round-robin: every task that is ready gets a processor.
ReadyRuns ==
  \A s \in TaskSlots : (state[s] = "Ready") ~> (state[s] = "Running")

\* A wait with a deadline ends, whether or not anybody wakes the task.
DeadlineHonoured ==
  \A s \in TaskSlots :
    (state[s] = "Blocked" /\ wait[s].timed) ~> (state[s] # "Blocked")

\* The stack of a finished task returns to the heap.
StackReclaimed ==
  \A s \in TaskSlots :
    (state[s] = "Finished") ~> (state[s] # "Finished" \/ ~stack[s])
==============================================================================
