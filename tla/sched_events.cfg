SPECIFICATION Spec
CONSTANTS
  MAX_CPUS = 2
  MAX_TASKS = 4
  Spawned = 2
  MaxId = 2
  Locks = {lock}
  Irqs = {irq}
  Inputs = {}
  Futexes = {}
INVARIANT TypeOK
INVARIANT NoLostWakeup
INVARIANT RunningIsCurrent
