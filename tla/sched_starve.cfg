SPECIFICATION FairSpec
CONSTANTS
  MAX_CPUS = 1
  MAX_TASKS = 4
  Spawned = 3
  MaxId = 3
  Locks = {}
  Irqs = {irq}
  Inputs = {}
  Futexes = {}
PROPERTY ReadyRuns
