SPECIFICATION Spec
CONSTANTS
  Readers = {t1, t2}
  Writers = {t2, t3}
  Classes = {"seqpack"}
  write_limit = 4
  write_atomic = 4
  size_large = 2
  MaxEnds = 1
  RecordControl = TRUE
INVARIANT NoAbort
CHECK_DEADLOCK FALSE
