SPECIFICATION FairSpec
CONSTANTS
  p1 = p1
  p2 = p2
  c1 = c1
  c2 = c2
  b1 = b1
  Threads = {t1, t2}
  Ports = {p1, p2}
  Classes = {c1, c2}
  Buckets = {b1}
  All = All
  ClassOf <- TwoClasses
  BucketOf <- OneBucket
  Inhibitable = {p1, b1, All}
  Gone = {p1}
  ForeignCancel = {t1}
  MaxSeqno <- TwoAndOne
  None = None
INVARIANTS CountersMatch InhibitionHolds NoStaleCancel InterruptNotLost
  SleepersFlagged InhibitorsHaveCause
PROPERTIES InhibitReturns
CHECK_DEADLOCK FALSE
