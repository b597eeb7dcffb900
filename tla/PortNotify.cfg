SPECIFICATION FairSpec
CONSTANTS
  Rpcs = {r1, r2, r3}
  Ports = {p1}
  MaxAsks = 2
  MaxMessages = 2
INVARIANTS KernelArmed CancelJustified
PROPERTIES DeathInterrupts
