SPECIFICATION ServiceFairSpec
CONSTANTS
  Threads = {t1, t2, t3, t4}
  Master = t1
  Messages = {m1, m2}
  CreateFails = TRUE
INVARIANTS ThreadsCounted ListenerReady
PROPERTIES RequestReceived
