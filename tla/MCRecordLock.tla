---------------------------- MODULE MCRecordLock ----------------------------
(* Instances of RecordLock for TLC. *)
EXTENDS RecordLock, TLC

(* Sleeping calls ask for the whole file or for a byte in its middle. *)
SomeWaits == {<<0, 0>>, <<1, 1>>}

OwnerSymmetry == Permutations(Owners)

(* No action reads the history variable call, and RangeLockSpec is checked *)
(* on every step: states that differ in nothing else need not be told      *)
(* apart.                                                                  *)
WithoutCall == <<locks, req, woken, aborted>>
=============================================================================
