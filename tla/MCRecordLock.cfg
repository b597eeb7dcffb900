SPECIFICATION Spec
CONSTANTS
  Owners = {o1, o2}
  Writers = {o1, o2}
  Threads = {t1}
  Eof = 3
  MaxMem = 2
  Waits <- SomeWaits
  WithGap = FALSE
INVARIANTS Exclusion SleepersOnLive NoAbort Canonical
PROPERTY RangeLockSpec
SYMMETRY OwnerSymmetry
VIEW WithoutCall
