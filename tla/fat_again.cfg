SPECIFICATION Spec
CONSTANTS
  Files = {"kernel", "initrd"}
  Size = 6
  MaxLength = 2
  MaxMade = 6
  Checked = FALSE
CHECK_DEADLOCK FALSE
INVARIANT UpdateWhole
