SPECIFICATION Spec
CONSTANTS
  Workers = {w1, w2}
  Objects = {o1, o2, o3}
  Kinds = {k1, k2}
  None = None
  MaxQueued = 3
INVARIANTS InhibitedQuiet ClaimsUnique
PROPERTIES SerialSpec RequestServed InhibitReturns
