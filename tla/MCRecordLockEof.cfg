SPECIFICATION Spec
CONSTANTS
  Owners = {o1, o2}
  Writers = {o1, o2}
  Threads = {t1}
  Eof = 3
  MaxMem = 2
  Waits <- SomeWaits
  WithGap = TRUE
INVARIANT Exclusion
VIEW WithoutCall
