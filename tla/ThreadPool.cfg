SPECIFICATION FairSpec
CONSTANTS
  Threads = {t1, t2, t3}
  Master = t1
  Objects = {o1, o2}
  NoObject = NoObject
  EarlyDestroy = FALSE
INVARIANTS CountersMatch NoStalePayload NoAbort
PROPERTIES GracePeriodSpec DeferredIsReleased
