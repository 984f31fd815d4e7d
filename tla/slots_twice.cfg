SPECIFICATION Spec
CONSTANTS
  DEFAULT_TRIES = 3
  Versions = {0, 1, 2}
  Bad = {1}
  MaxLosses = 0
  MaxTears = 0
  LoaderFaults = 0
  KernelFaults = 0
  OncePerBoot = FALSE
INVARIANT RunningSlotKept
