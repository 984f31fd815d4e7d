SPECIFICATION FairSpec
CONSTANTS
  DEFAULT_TRIES = 3
  Versions = {0, 1, 2}
  Bad = {1}
  MaxLosses = 5
  MaxTears = 2
  LoaderFaults = 1
  KernelFaults = 2
  OncePerBoot = TRUE
INVARIANT TypeOK
INVARIANT RecordReadable
INVARIANT AlwaysAWayBack
INVARIANT ConfirmedCameUp
INVARIANT RunningSlotKept
PROPERTY OldOrNew
PROPERTY BackToWork
