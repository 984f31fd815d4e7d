-------------------------------- MODULE Kill ---------------------------------
(***************************************************************************)
(* How programs, their threads and their address spaces come to an end     *)
(* (crates/kernel/src/user/mod.rs): a kill asked for from outside, the     *)
(* return of the main thread, exit_group of a Linux thread, and execve,    *)
(* which removes the other threads and replaces the address space.         *)
(*                                                                         *)
(* The kernel never stops a task in the middle of a system call.  A kill   *)
(* raises kill_requested of the program, wakes a task, and the task leaves *)
(* at its next return to ring 3.  A task asleep in the kernel leaves only  *)
(* if it wakes and if the call it sleeps in lets it out:                   *)
(*   slice  asks kill_pending on every turn and sleeps 100 ms at most      *)
(*          (terminal, sockets, poll, pipes);                              *)
(*   sleep  sleeps once, to a deadline (sleep_ms, futex_wait with one);    *)
(*   futex  sleeps once, without a deadline (futex_wait);                  *)
(*   join   asks once, then waits for the event however often it is woken  *)
(*          (sched::wait).                                                 *)
(* Each lock held is one step: SCHED, PROGRAMS and the program's mutex are *)
(* taken one after the other, and anything may happen in between.          *)
(***************************************************************************)
EXTENDS Naturals, FiniteSets

CONSTANTS
  MAX_TASKS,   \* slots of the task table a program can run in
  MaxId,       \* bound: tasks ever started
  Processes,   \* bound: programs ever started, as a set of numbers
  MainCalls,   \* bound: the calls a main thread waits in
  ThreadCalls, \* bound: the calls the other threads wait in
  MaxKills,    \* bound: kills asked for
  MaxExecs     \* bound: successful execve calls of a program

ASSUME KillAssumption ==
  /\ MAX_TASKS \in Nat \ {0} /\ MaxId \in Nat
  /\ Processes \subseteq Nat \ {0}
  /\ MainCalls \cup ThreadCalls \subseteq {"slice", "sleep", "futex", "join"}
  /\ MaxKills \in Nat /\ MaxExecs \in Nat

VARIABLES
  PROGRAMS,   \* the program a slot executes, 0 for none
  program,    \* kill_requested of a program and which of its spaces it has
  task,       \* where a task stands, in which slot, for which program
  on,         \* the space the processor uses when a task runs, 0: the kernel's
  siblings,   \* the slots a main thread has still to wake
  killer,     \* a request_kill in progress
  kills,      \* requests begun
  deaf,       \* history: asleep without a deadline after its wake-up is over
  overlooked, \* history: programs whose unregistered thread a listing missed
  accepted    \* history: programs whose main task a request named

vars == <<PROGRAMS, program, task, on, siblings, killer, kills,
          deaf, overlooked, accepted>>

Slots == 1 .. MAX_TASKS
Ids   == 1 .. MaxId
Waits == {"slice", "sleep", "futex", "join"}

Asks      == {"slice", "join"}     \* kill_pending is asked before the sleep
Undated   == {"futex", "join"}     \* nothing but a wake-up ends the sleep
Starting  == {"starting", "rooted"}
Leaving   == {"listing", "flagging", "waking", "waiting", "replacing"}
Places    == {"none", "finished", "gone", "user", "returning", "asking",
              "asked", "blocked", "calling", "standing", "clearing", "dropping"}
             \cup Starting \cup Leaving

NoTask   == [pc |-> "none", call |-> "none", slot |-> 1, of |-> 0,
             main |-> FALSE, root |-> 0]
NoKiller == [pc |-> "idle", id |-> 0, slot |-> 1, of |-> 0]

-----------------------------------------------------------------------------
Lives(t)    == task[t].pc \notin {"none", "finished", "gone"}
Threads(p)  == {t \in Ids : Lives(t) /\ task[t].of = p}
InSlot(s)   == {t \in Ids : task[t].slot = s /\ task[t].pc \notin {"none", "gone"}}
Asleep(t)   == task[t].pc = "blocked"
Unwakeable(t) == Asleep(t) /\ task[t].call \in Undated

\* The main thread keeps its program in PROGRAMS only; the others hold a
\* reference in their ThreadStart as well, until they have cleared the slot.
Referenced(p) ==
  \/ \E s \in Slots : PROGRAMS[s] = p
  \/ \E t \in Threads(p) : ~task[t].main \/ task[t].pc \in Starting
  \/ killer.of = p

Alive(p, space) == Referenced(p) /\ program[p].space = space

Registered(p, s) == {r \in Slots \ {s} : PROGRAMS[r] = p}

\* Threads of p that no listing of PROGRAMS can see.
Unregistered(p) == {t \in Threads(p) : task[t].pc \in Starting /\ ~task[t].main}

\* What a wake-up finds a blocked task do next: ask again, sleep again, return.
AfterWaking(call) ==
  CASE call = "slice" -> "asking"
    [] call = "join"  -> "asked"
    [] OTHER          -> "returning"

Goto(t, pc) == task' = [task EXCEPT ![t].pc = pc]

\* sched::wake on the tasks T by a caller that has moved on to next: a task
\* that is not blocked yet notices nothing, and a wake-up that finds the
\* scheduler's lock taken is dropped.
Wake(T, next) ==
  \/ /\ task' = [t \in Ids |->
                  IF t \in T /\ Asleep(t)
                  THEN [task[t] EXCEPT !.pc = AfterWaking(task[t].call)]
                  ELSE next[t]]
     /\ deaf' = deaf \ T
  \/ /\ \E t \in T : Asleep(t)
     /\ task' = next
     /\ deaf' = deaf \cup {t \in T : Unwakeable(t)}

\* kill_requested of p goes up; the tasks in named are still to be woken.
Flag(p, named) ==
  /\ program' = [program EXCEPT ![p].kill = TRUE]
  /\ deaf' = deaf \cup {t \in Threads(p) \ named : Unwakeable(t)}

-----------------------------------------------------------------------------
Init ==
  /\ PROGRAMS = [s \in Slots |-> 0]
  /\ program = [p \in Processes |-> [kill |-> FALSE, space |-> 0]]
  /\ task = [t \in Ids |-> NoTask]
  /\ on = [t \in Ids |-> 0]
  /\ siblings = [t \in Ids |-> {}]
  /\ killer = NoKiller /\ kills = 0
  /\ deaf = {} /\ overlooked = {} /\ accepted = {}

\* Mutant: slots counted from zero.
FreeFromZero == {s \in 0 .. MAX_TASKS : InSlot(s) = {}}

\* free_slot: the first empty slot, else the first of a finished task.
FreeSlots ==
  LET empty    == {s \in Slots : InSlot(s) = {}}
      finished == {s \in Slots : \A t \in InSlot(s) : task[t].pc = "finished"}
  IN  IF empty # {} THEN empty ELSE finished

SpawnRaw(t, p, main) ==
  /\ task[t] = NoTask
  /\ \A u \in 1 .. t - 1 : task[u] # NoTask
  /\ \E s \in FreeSlots :
       /\ \A r \in FreeSlots : s <= r
       /\ task' = [u \in Ids |->
            IF u = t
            THEN [NoTask EXCEPT !.pc = "starting", !.slot = s, !.of = p, !.main = main]
            ELSE IF u \in InSlot(s) THEN [task[u] EXCEPT !.pc = "gone"] ELSE task[u]]

\* A program: from the shell, a supervisor or another program, or by fork.
Launch(t, p) ==
  /\ program[p].space = 0
  /\ \A q \in Processes : q < p => program[q].space # 0
  /\ SpawnRaw(t, p, TRUE)
  /\ program' = [program EXCEPT ![p].space = 1]
  /\ UNCHANGED <<PROGRAMS, on, siblings, killer, kills, deaf, overlooked, accepted>>

\* A thread of the program the caller executes.
SpawnThread(t, u) ==
  /\ task[t].pc = "user"
  /\ SpawnRaw(u, task[t].of, FALSE)
  /\ UNCHANGED <<PROGRAMS, program, on, siblings, killer, kills, deaf, overlooked, accepted>>

\* A task reads the root of its space, enters PROGRAMS, tells the scheduler.
ReadRoot(t) ==
  /\ task[t].pc = "starting"
  /\ task' = [task EXCEPT ![t].pc = "rooted", ![t].root = program[task[t].of].space]
  /\ UNCHANGED <<PROGRAMS, program, on, siblings, killer, kills, deaf, overlooked, accepted>>

Enter(t) ==
  /\ task[t].pc = "rooted"
  /\ PROGRAMS' = [PROGRAMS EXCEPT ![task[t].slot] = task[t].of]
  /\ on' = [on EXCEPT ![t] = task[t].root]
  /\ task' = [task EXCEPT ![t].pc = "user", ![t].root = 0]
  /\ UNCHANGED <<program, siblings, killer, kills, deaf, overlooked, accepted>>

-----------------------------------------------------------------------------
(***************************************************************************)
(* System calls that wait, and the return to ring 3.                       *)
(***************************************************************************)
BeginWait(t) ==
  /\ task[t].pc = "user"
  /\ \E call \in IF task[t].main THEN MainCalls ELSE ThreadCalls :
       task' = [task EXCEPT ![t].call = call,
                            ![t].pc = IF call \in Asks THEN "asking" ELSE "asked"]
  /\ UNCHANGED <<PROGRAMS, program, on, siblings, killer, kills, deaf, overlooked, accepted>>

kill_pending(t) == program[task[t].of].kill

\* Mutant: the loop goes back to sleep without asking.
AskNobody(t) ==
  /\ task[t].pc = "asking"
  /\ Goto(t, "asked")
  /\ UNCHANGED <<PROGRAMS, program, on, siblings, killer, kills, deaf, overlooked, accepted>>

Ask(t) ==
  /\ task[t].pc = "asking"
  /\ Goto(t, IF kill_pending(t) THEN "returning" ELSE "asked")
  /\ UNCHANGED <<PROGRAMS, program, on, siblings, killer, kills, deaf, overlooked, accepted>>

\* The scheduler's lock: the task is Blocked.
Sleep(t) ==
  /\ task[t].pc = "asked"
  /\ Goto(t, "blocked")
  /\ deaf' = IF kill_pending(t) /\ task[t].call \in Undated THEN deaf \cup {t} ELSE deaf
  /\ UNCHANGED <<PROGRAMS, program, on, siblings, killer, kills, overlooked, accepted>>

\* The deadline of a wait that has one.
TimeUp(t) ==
  /\ Asleep(t) /\ task[t].call \notin Undated
  /\ Goto(t, AfterWaking(task[t].call))
  /\ UNCHANGED <<PROGRAMS, program, on, siblings, killer, kills, deaf, overlooked, accepted>>

\* What the call waits for comes.
Event(t) ==
  /\ task[t].pc \in {"asking", "blocked"} /\ task[t].call # "sleep"
  /\ Goto(t, "returning")
  /\ deaf' = deaf \ {t}
  /\ UNCHANGED <<PROGRAMS, program, on, siblings, killer, kills, overlooked, accepted>>

\* return_to_kernel: the main thread goes on in finish, another in thread_entry.
Left(t) ==
  [task EXCEPT ![t].pc = IF task[t].main THEN "listing" ELSE "standing",
               ![t].call = "end"]

\* check_kill, after a system call and after an interrupt.
CheckKill(t) ==
  /\ \/ task[t].pc = "returning"
     \/ task[t].pc = "user" /\ kill_pending(t)
  /\ task' = IF kill_pending(t) THEN Left(t)
             ELSE [task EXCEPT ![t].pc = "user", ![t].call = "none"]
  /\ UNCHANGED <<PROGRAMS, program, on, siblings, killer, kills, deaf, overlooked, accepted>>

\* exit, thread_exit, or a fault.
Exit(t) ==
  /\ task[t].pc = "user"
  /\ task' = Left(t)
  /\ UNCHANGED <<PROGRAMS, program, on, siblings, killer, kills, deaf, overlooked, accepted>>

\* exit_group of a Linux thread: the main thread is asked to go, and woken.
ExitGroup(t) ==
  /\ task[t].pc = "user" /\ ~task[t].main
  /\ Flag(task[t].of, {u \in Threads(task[t].of) : task[u].main})
  /\ Goto(t, "calling")
  /\ UNCHANGED <<PROGRAMS, on, siblings, killer, kills, overlooked, accepted>>

WakeMain(t) ==
  /\ task[t].pc = "calling"
  /\ Wake({u \in Threads(task[t].of) : task[u].main}, Left(t))
  /\ UNCHANGED <<PROGRAMS, program, on, siblings, killer, kills, overlooked, accepted>>

-----------------------------------------------------------------------------
(***************************************************************************)
(* The main thread ends the others: end_other_threads in finish,           *)
(* stop_other_threads in exec.                                             *)
(***************************************************************************)
Exec(t) ==
  /\ task[t].pc = "user" /\ task[t].main
  /\ program[task[t].of].space <= MaxExecs
  /\ task' = [task EXCEPT ![t].pc = "listing", ![t].call = "exec"]
  /\ UNCHANGED <<PROGRAMS, program, on, siblings, killer, kills, deaf, overlooked, accepted>>

\* A listing that finds nobody is the last: a thread that has not registered
\* yet is overlooked.
Overlooks(p) ==
  overlooked' = IF Unregistered(p) # {} THEN overlooked \cup {p} ELSE overlooked

ListSiblings(t) ==
  LET p     == task[t].of
      found == Registered(p, task[t].slot)
  IN  /\ task[t].pc = "listing"
      /\ siblings' = [siblings EXCEPT ![t] = found]
      /\ IF found # {} THEN Goto(t, "flagging") /\ UNCHANGED overlooked
         ELSE /\ Goto(t, IF task[t].call = "exec" THEN "replacing" ELSE "standing")
              /\ Overlooks(p)
      /\ UNCHANGED <<PROGRAMS, program, on, killer, kills, deaf, accepted>>

\* Mutant: the siblings are woken, but no flag is up when they ask.
RaiseNothing(t) ==
  /\ task[t].pc = "flagging"
  /\ Goto(t, "waking")
  /\ UNCHANGED <<PROGRAMS, program, on, siblings, killer, kills, deaf, overlooked, accepted>>

RaiseFlag(t) ==
  /\ task[t].pc = "flagging"
  /\ Flag(task[t].of, {u \in Ids : task[u].slot \in siblings[t]})
  /\ Goto(t, "waking")
  /\ UNCHANGED <<PROGRAMS, on, siblings, killer, kills, overlooked, accepted>>

\* Whoever is in the slot by now is woken.
WakeSibling(t) ==
  /\ task[t].pc = "waking"
  /\ \E s \in siblings[t] :
       LET rest == siblings[t] \ {s}
           next == IF rest # {} THEN "waking"
                   ELSE IF task[t].call = "exec" THEN "waiting" ELSE "standing"
       IN  /\ \A r \in rest : s < r
           /\ siblings' = [siblings EXCEPT ![t] = rest]
           /\ Wake(InSlot(s), [task EXCEPT ![t].pc = next])
  /\ UNCHANGED <<PROGRAMS, program, on, killer, kills, overlooked, accepted>>

\* exec asks every millisecond whether the others are gone, for two seconds,
\* and takes the flag down either way.
OthersGone(t) ==
  /\ task[t].pc = "waiting"
  /\ Registered(task[t].of, task[t].slot) = {}
  /\ program' = [program EXCEPT ![task[t].of].kill = FALSE]
  /\ Goto(t, "replacing")
  /\ Overlooks(task[t].of)
  /\ UNCHANGED <<PROGRAMS, on, siblings, killer, kills, deaf, accepted>>

TwoSeconds(t) ==
  /\ task[t].pc = "waiting"
  /\ program' = [program EXCEPT ![task[t].of].kill = FALSE]
  /\ Goto(t, "returning")
  /\ UNCHANGED <<PROGRAMS, on, siblings, killer, kills, deaf, overlooked, accepted>>

\* The new space takes the place of the old one, which is destroyed.
Replace(t) ==
  /\ task[t].pc = "replacing"
  /\ program' = [program EXCEPT ![task[t].of].space = @ + 1]
  /\ on' = [on EXCEPT ![t] = program[task[t].of].space + 1]
  /\ Goto(t, "returning")
  /\ UNCHANGED <<PROGRAMS, siblings, killer, kills, deaf, overlooked, accepted>>

-----------------------------------------------------------------------------
(***************************************************************************)
(* The end of a task, in the order of finish and of thread_entry.          *)
(***************************************************************************)
\* Mutant: the scheduler is not told.
StayInSpace(t) ==
  /\ task[t].pc = "standing"
  /\ Goto(t, "clearing")
  /\ UNCHANGED <<PROGRAMS, program, on, siblings, killer, kills, deaf, overlooked, accepted>>

LeaveSpace(t) ==
  /\ task[t].pc = "standing"
  /\ on' = [on EXCEPT ![t] = 0]
  /\ Goto(t, "clearing")
  /\ UNCHANGED <<PROGRAMS, program, siblings, killer, kills, deaf, overlooked, accepted>>

ClearSlot(t) ==
  /\ task[t].pc = "clearing"
  /\ PROGRAMS' = [PROGRAMS EXCEPT ![task[t].slot] = 0]
  /\ Goto(t, "dropping")
  /\ UNCHANGED <<program, on, siblings, killer, kills, deaf, overlooked, accepted>>

\* The reference of the task goes, and the task is Finished.
Finish(t) ==
  /\ task[t].pc = "dropping"
  /\ Goto(t, "finished")
  /\ UNCHANGED <<PROGRAMS, program, on, siblings, killer, kills, deaf, overlooked, accepted>>

-----------------------------------------------------------------------------
(***************************************************************************)
(* request_kill, from the shell or another program.                        *)
(***************************************************************************)
Lookup(t) ==
  /\ killer.pc = "idle" /\ kills < MaxKills
  /\ Lives(t)
  /\ kills' = kills + 1
  /\ killer' = [NoKiller EXCEPT !.pc = "found", !.id = t, !.slot = task[t].slot]
  /\ UNCHANGED <<PROGRAMS, program, task, on, siblings, deaf, overlooked, accepted>>

\* The reference is cloned under the lock of PROGRAMS: NotAProgram if none.
TakeProgram ==
  /\ killer.pc = "found"
  /\ killer' = IF PROGRAMS[killer.slot] = 0 THEN NoKiller
               ELSE [killer EXCEPT !.pc = "held", !.of = PROGRAMS[killer.slot]]
  /\ UNCHANGED <<PROGRAMS, program, task, on, siblings, kills, deaf, overlooked, accepted>>

RequestKill ==
  /\ killer.pc = "held"
  /\ Flag(killer.of, {killer.id})
  /\ accepted' = IF task[killer.id].of = killer.of /\ task[killer.id].main
                 THEN accepted \cup {killer.of} ELSE accepted
  /\ killer' = [killer EXCEPT !.pc = "raised"]
  /\ UNCHANGED <<PROGRAMS, task, on, siblings, kills, overlooked>>

WakeKilled ==
  /\ killer.pc = "raised"
  /\ Wake({killer.id}, task)
  /\ killer' = NoKiller
  /\ UNCHANGED <<PROGRAMS, program, on, siblings, kills, overlooked, accepted>>

-----------------------------------------------------------------------------
\* What the processor does with a task on its own account.
Run(t) ==
  \/ ReadRoot(t) \/ Enter(t) \/ Ask(t) \/ Sleep(t) \/ TimeUp(t) \/ CheckKill(t)
  \/ WakeMain(t) \/ ListSiblings(t) \/ RaiseFlag(t) \/ WakeSibling(t)
  \/ OthersGone(t) \/ TwoSeconds(t) \/ Replace(t)
  \/ LeaveSpace(t) \/ ClearSlot(t) \/ Finish(t)

\* What a program asks for, and what it waits for.
Program(t) ==
  \/ BeginWait(t) \/ Event(t) \/ Exit(t) \/ ExitGroup(t) \/ Exec(t)
  \/ \E u \in Ids : SpawnThread(t, u)

Killer == TakeProgram \/ RequestKill \/ WakeKilled

Next ==
  \/ \E t \in Ids : Run(t) \/ Program(t) \/ Lookup(t)
  \/ \E t \in Ids, p \in Processes : Launch(t, p)
  \/ Killer

Spec == Init /\ [][Next]_vars

\* Every task gets the processor again and again, and no deadline is missed.
FairSpec ==
  Spec /\ (\A t \in Ids : WF_vars(Run(t))) /\ WF_vars(Killer)


-----------------------------------------------------------------------------
Task == [pc : Places, call : Waits \cup {"none", "end", "exec"}, slot : Slots,
         of : Processes \cup {0}, main : BOOLEAN, root : Nat]

TypeOK ==
  /\ PROGRAMS \in [Slots -> Processes \cup {0}]
  /\ program \in [Processes -> [kill : BOOLEAN, space : Nat]]
  /\ task \in [Ids -> Task]
  /\ on \in [Ids -> Nat]
  /\ siblings \in [Ids -> SUBSET Slots]
  /\ killer \in [pc : {"idle", "found", "held", "raised"}, id : Ids \cup {0},
                 slot : Slots, of : Processes \cup {0}]
  /\ kills \in 0 .. MaxKills
  /\ deaf \subseteq Ids
  /\ overlooked \subseteq Processes /\ accepted \subseteq Processes

\* No processor stands on the tables of a space that has been destroyed,
\* neither of a program nobody refers to nor of one execve has replaced, unless
\* a thread that was not in PROGRAMS yet was overlooked.
SpaceOutlivesUsers ==
  \A t \in Ids : on[t] # 0 => \/ Alive(task[t].of, on[t])
                              \/ task[t].of \in overlooked

MainEnded(p) ==
  \E t \in Ids : task[t].main /\ task[t].of = p /\ task[t].pc \in {"finished", "gone"}

\* The end of the main thread is the end of the program: every other thread
\* ends, unless the main thread overlooked one, or it is asleep without a
\* deadline in a call that lets no kill in, past its only wake-up.
OrphansEnd ==
  \A t \in Ids :
    (Lives(t) /\ MainEnded(task[t].of))
      ~> (~Lives(t) \/ t \in deaf \/ task[t].of \in overlooked)

\* An accepted kill that names the main task of a program ends the program,
\* whatever system call it is in, unless that sleep is one of those, or an
\* execve in progress has taken the request down with its own flag.
KilledProgramEnds ==
  \A p \in Processes :
    p \in accepted
      ~> \/ MainEnded(p)
         \/ \E t \in Threads(p) : task[t].main /\ t \in deaf
         \/ ~program[p].kill

=============================================================================
