SPECIFICATION FairSpec
CONSTANTS
  MAX_CPUS = 1
  MAX_TASKS = 4
  Spawned = 3
  MaxId = 3
  Locks = {}
  Irqs = {}
  Inputs = {}
  Futexes = {}
PROPERTY ReadyRuns
