SPECIFICATION Spec
CONSTANTS
  Readers = {t1, t2}
  Writers = {t2, t3}
  Classes = {"stream", "seqpack", "dgram"}
  write_limit = 4
  write_atomic = 4
  size_large = 2
  MaxEnds = 2
  RecordControl = FALSE
INVARIANTS SleepersHaveCause NoAbort FreedUnused BrokenMatches
CHECK_DEADLOCK FALSE
