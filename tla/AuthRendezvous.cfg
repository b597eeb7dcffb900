SPECIFICATION FairSpec
CONSTANTS
  Rendezvous = {r1, r2}
  MayFail = {r1}
  MaxCalls = 3
INVARIANTS RecordsLive NoMissedMeeting RefsBalanced
PROPERTIES TransactionCompletes
