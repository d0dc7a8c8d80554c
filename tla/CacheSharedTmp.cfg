CONSTANTS
  Refreshes = {r1, r2}
  Inodes = {i1, i2, i3, i4}
  WriteMayFail = FALSE
  MaxVersion = 3
  MaxCrashes = 0
  None = None
  Partial = Partial
SPECIFICATION Spec
INVARIANT AtomicRename
