----------------------------- MODULE RangeLock ------------------------------
(***************************************************************************)
(* What fshelp_rlock_tweak promises the users of a file: every open file   *)
(* holds each byte in some mode, and a call that asks for a range of bytes *)
(* and a mode does to the caller's bytes in the range what it was asked    *)
(* for, or nothing, or, without memory, part of it.                        *)
(***************************************************************************)
EXTENDS Integers

CONSTANTS
  Owners,   \* the open files, struct rlock_peropen
  Eof       \* the bytes are 0 .. Eof; Eof stands for the rest of the file

VARIABLES
  held,   \* the mode in which each owner holds each byte
  call    \* the call that was made: who asked for what, and the answer

vars == <<held, call>>

Bytes == 0 .. Eof
Modes == {"un", "rd", "wr"}

Conflict(m, n) == m # "un" /\ n # "un" /\ "wr" \in {m, n}

(* A read lock over an own write lock leaves the write lock. *)
Stronger(m, n) == IF "wr" \in {m, n} THEN "wr" ELSE IF m = "un" THEN n ELSE m

NoCall == [answer |-> "none"]

Init ==
  /\ held = [o \in Owners |-> [b \in Bytes |-> "un"]]
  /\ call = NoCall

(* O asked for the bytes R to be put in mode TYPE. *)
Answer(o, R, type, answer) ==
  call' = [po |-> o, bytes |-> R, type |-> type, answer |-> answer]

Grantable(o, R, type) ==
  \A p \in Owners \ {o} : \A b \in R : ~Conflict(type, held[p][b])

Locked(h, R, type) ==
  [b \in Bytes |-> IF b \in R THEN Stronger(type, h[b]) ELSE h[b]]

Unlocked(h, R) == [b \in Bytes |-> IF b \in R THEN "un" ELSE h[b]]

Lock(o, R, type) ==
  /\ Answer(o, R, type, "ok")
  /\ Grantable(o, R, type)
  /\ held' = [held EXCEPT ![o] = Locked(held[o], R, type)]

Unlock(o, R) ==
  /\ Answer(o, R, "un", "ok")
  /\ held' = [held EXCEPT ![o] = Unlocked(held[o], R)]

(* EAGAIN, or the call goes to sleep: only if the lock cannot be granted.  *)
Refuse(o, R, type) ==
  /\ \E answer \in {"again", "wait"} : Answer(o, R, type, answer)
  /\ ~Grantable(o, R, type)
  /\ UNCHANGED held

(* EINTR: the sleep is over without the lock. *)
Interrupt(o, R, type) ==
  /\ Answer(o, R, type, "intr")
  /\ UNCHANGED held

(* An unlock without memory loses nothing. *)
FailUnlock(o, R) ==
  /\ Answer(o, R, "un", "nomem")
  /\ UNCHANGED held

(* A lock without memory may lose locks of the caller, and get some of     *)
(* what it asked for, but never more than that.                            *)
Fail(o, R, type) ==
  /\ Answer(o, R, type, "nomem")
  /\ Grantable(o, R, type)
  /\ held' \in [Owners -> [Bytes -> Modes]]
  /\ \A p \in Owners \ {o} : held'[p] = held[p]
  /\ \A b \in Bytes :
       held'[o][b] \in {"un", held[o][b], Locked(held[o], R, type)[b]}

Next ==
  \E o \in Owners, from \in Bytes : \E to \in from .. Eof :
    \/ Unlock(o, from .. to) \/ FailUnlock(o, from .. to)
    \/ \E type \in {"rd", "wr"} :
         \/ Lock(o, from .. to, type) \/ Fail(o, from .. to, type)
         \/ Refuse(o, from .. to, type) \/ Interrupt(o, from .. to, type)

Spec == Init /\ [][Next]_vars

-----------------------------------------------------------------------------
(* Mutual exclusion of record locks: a byte that one open file holds for   *)
(* writing is held by no other one.                                        *)
Exclusion ==
  \A o, p \in Owners : o # p =>
    \A b \in Bytes : ~Conflict(held[o][b], held[p][b])

(* Type correctness. *)
TypeOK == held \in [Owners -> [Bytes -> Modes]]
=============================================================================
