SPECIFICATION FairSpec
CONSTANTS
  Threads = {t1, t2, t3}
  Creator = t1
  MaxRights = 3
  MaxQueue = 1
INVARIANTS SendersHoldReference FreedUnused
PROPERTIES UnusedIsFreed
