SPECIFICATION Spec
CONSTANTS
  Files = {"kernel", "initrd", "display"}
  Size = 6
  MaxLength = 2
  MaxMade = 6
  Checked = TRUE
INVARIANT TypeOK
INVARIANT OthersWhole
INVARIANT NothingLost
CHECK_DEADLOCK FALSE
