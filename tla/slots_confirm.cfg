SPECIFICATION Spec
CONSTANTS
  DEFAULT_TRIES = 3
  Versions = {0, 1, 2}
  Bad = {1}
  MaxLosses = 0
  MaxTears = 0
  LoaderFaults = 1
  KernelFaults = 0
  OncePerBoot = TRUE
INVARIANT ConfirmsItself
