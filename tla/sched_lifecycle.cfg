SPECIFICATION FairSpec
CONSTANTS
  MAX_CPUS = 2
  MAX_TASKS = 4
  Spawned = 2
  MaxId = 3
  Locks = {}
  Irqs = {}
  Inputs = {}
  Futexes = {futex}
INVARIANT OneStackPerCpu
INVARIANT ExecutesOnHeldStack
INVARIANT NoWaiterLeftBehind
INVARIANT NoLostWakeup
PROPERTY LiveSlotKept
PROPERTY DeadlineHonoured
PROPERTY StackReclaimed
