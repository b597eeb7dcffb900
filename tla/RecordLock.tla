----------------------------- MODULE RecordLock -----------------------------
(***************************************************************************)
(* Record locks of a file (libfshelp/rlock-tweak.c, rlock.h,               *)
(* rlock-drop-peropen.c): every open file has a list of locked regions     *)
(* sorted by start, in which fshelp_rlock_tweak merges a new lock and from *)
(* which it cuts an unlocked region.  A caller that must wait sleeps on    *)
(* the condition of ONE conflicting region.  The caller holds the node's   *)
(* mutex, so that a call is one step unless it sleeps.                     *)
(***************************************************************************)
EXTENDS Integers, FiniteSets, Folds

CONSTANTS
  Owners,    \* the open files, struct rlock_peropen
  Writers,   \* those opened with O_WRITE
  Threads,   \* threads that can sleep in F_SETLKW64
  Eof,       \* bound: offsets are below Eof; byte Eof is the rest of the file
  MaxMem,    \* bound: no call needs more allocations
  Waits,     \* bound: the <<start, len>> that a call with F_SETLKW64 asks for
  WithGap    \* FALSE: nobody asks for a region that ends before an own lock
             \* to the end of the file starts

ASSUME RecordLockAssumption ==
  /\ Writers \subseteq Owners
  /\ Eof \in Nat \ {0} /\ MaxMem \in Nat
  /\ WithGap \in BOOLEAN

VARIABLES
  locks,     \* po->locks: the regions of each open file
  req,       \* what a sleeping thread asks for, or NoReq
  woken,     \* sleeping threads whose condition was broadcast
  aborted,   \* history: an assertion of the code failed
  call       \* history: the last call, what it asked for and its answer

vars == <<locks, req, woken, aborted, call>>

NoReq  == [po |-> "none"]
Starts == 0 .. Eof - 1
Lens   == 0 .. Eof          \* 0: to the end of the file

(* struct rlock_list, without the list that it is in; WAIT is the set of   *)
(* threads on its condition variable.                                      *)
Region == [start : 0 .. Eof, len : Lens, type : {"rd", "wr"},
           wait : SUBSET Threads]

End(l) == l.start + l.len

Init ==
  /\ locks = [o \in Owners |-> {}]
  /\ req = [t \in Threads |-> NoReq]
  /\ woken = {}
  /\ aborted = FALSE
  /\ call = [answer |-> "none"]

(* po->locks is sorted by start. *)
last(ls) == CHOOSE l \in ls : \A k \in ls : k.start <= l.start

-----------------------------------------------------------------------------
(* The loops over the caller's regions are folds.  Their state C: the rest *)
(* START, LEN of the request, the regions LIST behind the loop, threads    *)
(* that were woken, allocations left, whether the loop has returned, its   *)
(* error, and whether an assertion failed.                                 *)
Call(start, len, mem) ==
  [start |-> start, len |-> len, list |-> {}, woken |-> {}, mem |-> mem,
   done |-> FALSE, stop |-> FALSE, err |-> FALSE, abort |-> FALSE]

keep(c, l)    == [c EXCEPT !.list = @ \cup {l}]
return(c)     == [c EXCEPT !.done = TRUE]
enomem(c)     == [c EXCEPT !.done = TRUE, !.err = TRUE]
assert(c, p)  == [c EXCEPT !.abort = @ \/ ~p]
ask(c, s, n)  == [c EXCEPT !.start = s, !.len = n]
wake(c, l)    == [c EXCEPT !.woken = @ \cup l.wait]

gen_lock(c, start, len, type) ==
  IF c.mem = 0
    THEN enomem(c)
    ELSE [c EXCEPT !.mem = @ - 1,
                   !.list = @ \cup {[start |-> start, len |-> len,
                                     type |-> type, wait |-> {}]}]

\* a wrong rele_lock, for the mutants
rele_lock_silent(c, l) == c

rele_lock(c, l) == wake(c, l)

overlap(start, len, l) ==
  \/ len = 0 /\ l.len = 0
  \/ len = 0 /\ End(l) > start
  \/ l.len = 0 /\ start + len > l.start
  \/ End(l) > start /\ start + len > l.start

\* a wrong conflicts, for the mutants
conflicts_writers(o, start, len, type) ==
  {e \in UNION {{p} \X locks[p] : p \in Owners \ {o}} :
     e[2].type = "wr" /\ overlap(start, len, e[2])}

conflicts(o, start, len, type) ==
  {e \in UNION {{p} \X locks[p] : p \in Owners \ {o}} :
     "wr" \in {e[2].type, type} /\ overlap(start, len, e[2])}

(* The regions at which the search of box->locks may stop.  New regions    *)
(* are put in by start, but a region whose start moves stays where it is,  *)
(* so that any of the conflicting ones may come first.                     *)
find_conflict(o, start, len, type) == conflicts(o, start, len, type)

-----------------------------------------------------------------------------
(* unlock_region: one region L of the loop. *)
unlock_one(c, l) ==
  LET start == c.start
      len   == c.len
      end   == start + len
  IN IF c.done THEN keep(c, l)
     ELSE IF l.len # 0 /\ End(l) <= start THEN keep(c, l)
     ELSE IF len # 0 /\ end <= l.start THEN return(keep(c, l))
     \* we wrap the region
     ELSE IF start <= l.start /\ (len = 0 \/ (l.len # 0 /\ End(l) <= end))
       THEN rele_lock(c, l)
     \* its head is unlocked
     ELSE IF start <= l.start /\ (l.len = 0 \/ l.start < end)
       THEN assert(keep(wake(c, l),
                        [l EXCEPT !.start = end, !.wait = {},
                                  !.len = IF @ = 0 THEN 0 ELSE End(l) - end]),
                   len # 0 /\ (l.len = 0 \/ end < End(l)))
     \* its tail is unlocked
     ELSE IF /\ l.start < start
             /\ \/ start < End(l) /\ (len = 0 \/ End(l) <= end)
                \/ len = 0 /\ l.len = 0
       THEN assert(keep(wake(c, l), [l EXCEPT !.len = start - l.start,
                                              !.wait = {}]),
                   len = 0 \/ (l.len # 0 /\ End(l) <= end))
     \* its middle is unlocked; its waiters stay with the lower half
     ELSE IF l.start < start /\ (l.len = 0 \/ (len # 0 /\ end < End(l)))
       THEN LET g == gen_lock(c, end, IF l.len = 0 THEN 0 ELSE End(l) - end,
                              l.type)
            IN assert(return(keep(g, IF g.err THEN l
                                     ELSE [l EXCEPT !.len = start - l.start])),
                      len # 0)
     ELSE assert(keep(c, l), FALSE)

-----------------------------------------------------------------------------
(* merge_in, the branches of its loop, in the order of the code. *)

(* We are wrapped by the region. *)
\* a wrong within, for the mutants
within_off_by_one(c, l) ==
  /\ l.start <= c.start
  /\ l.len = 0 \/ (c.len # 0 /\ c.start + c.len <= End(l) + 1)

within(c, l) ==
  /\ l.start <= c.start
  /\ l.len = 0 \/ (c.len # 0 /\ c.start + c.len <= End(l))

split(c, l, type) ==
  LET end   == c.start + c.len
      head  == l.start < c.start
      tail  == (l.len = 0 /\ c.len # 0) \/ end < End(l)
      h     == IF head THEN gen_lock(c, l.start, c.start - l.start, "rd")
               ELSE c
      t     == IF tail
                 THEN gen_lock(h, end, IF l.len = 0 THEN 0 ELSE End(l) - end,
                               "rd")
                 ELSE h
  IN IF type \in {l.type, "rd"} THEN return(keep(c, l))
     ELSE IF t.err THEN enomem(keep(c, l))
     ELSE IF tail
       THEN return(keep(t, [l EXCEPT !.start = c.start, !.len = c.len,
                                     !.type = "wr"]))
       ELSE rele_lock(ask(t, c.start,
                          IF l.len = 0 THEN 0 ELSE End(l) - c.start), l)

(* We wrap the region. *)
\* a wrong wraps, for the mutants
wraps_bounded(c, l) ==
  c.start <= l.start /\ l.len # 0 /\ End(l) <= c.start + c.len

wraps(c, l) ==
  /\ c.start <= l.start
  /\ c.len = 0 \/ (l.len # 0 /\ End(l) <= c.start + c.len)

swallow(c, l, type) ==
  LET end  == c.start + c.len
      head == c.start < l.start
      h    == IF head THEN gen_lock(c, c.start, l.start - c.start, "rd") ELSE c
  IN IF type \in {l.type, "wr"} THEN rele_lock(c, l)
     ELSE IF h.err THEN keep(h, l)
     ELSE IF l.len # 0 /\ (c.len = 0 \/ End(l) < end)
       THEN keep(ask(h, End(l), IF c.len = 0 THEN 0 ELSE end - End(l)), l)
       ELSE assert(return(keep(h, l)), head)

(* Our start falls in the region or just after it, our end beyond it. *)
\* a wrong starts_in, for the mutants
starts_inside(c, l) ==
  /\ l.start < c.start /\ c.start < End(l)
  /\ c.len = 0 \/ c.start + c.len > End(l)

starts_in(c, l) ==
  /\ l.start < c.start /\ c.start <= End(l)
  /\ c.len = 0 \/ c.start + c.len > End(l)

extend_up(c, l, type) ==
  assert(
    IF type = l.type
      THEN rele_lock(ask(c, l.start, IF c.len = 0 THEN 0
                                     ELSE c.len + c.start - l.start), l)
    ELSE IF c.start = End(l) THEN keep(c, l)
    ELSE IF type = "wr" THEN keep(c, [l EXCEPT !.len = c.start - l.start])
    ELSE keep(ask(c, End(l), IF c.len = 0 THEN 0
                             ELSE c.len - (End(l) - c.start)), l),
    l.len # 0)

(* Our start falls before the region, our end in it or just before it;     *)
(* but a region to the end of the file may start anywhere after our end.   *)
ends_in(c, l) ==
  c.start < l.start /\ (l.len = 0 \/ l.start <= c.start + c.len)

extend_down(c, l, type) ==
  LET end == c.start + c.len
      e   == gen_lock(c, c.start,
                      IF type = "wr" THEN c.len ELSE l.start - c.start, type)
  IN assert(
       IF type = l.type
         THEN return(keep(c, [l EXCEPT !.start = c.start,
                                !.len = IF @ = 0 THEN 0 ELSE End(l) - c.start]))
       ELSE IF l.start = end THEN keep(c, l)
       ELSE IF e.err THEN keep(e, l)
       ELSE IF type = "wr"
         THEN return(keep(e, [l EXCEPT !.start = end,
                                !.len = IF @ = 0 THEN 0 ELSE End(l) - end]))
       ELSE return(keep(e, l)),
       c.len # 0 /\ (l.len = 0 \/ end < End(l)))

merge_one(c, l, type) ==
  IF c.done \/ c.stop THEN keep(c, l)
  ELSE IF within(c, l) THEN split(c, l, type)
  ELSE IF wraps(c, l) THEN swallow(c, l, type)
  ELSE IF starts_in(c, l) THEN extend_up(c, l, type)
  ELSE IF ends_in(c, l) THEN extend_down(c, l, type)
  ELSE IF c.start < l.start /\ c.len # 0 /\ c.start + c.len <= l.start
    THEN [keep(c, l) EXCEPT !.stop = TRUE]
  ELSE assert(keep(c, l), c.start >= End(l) /\ l.len # 0)

-----------------------------------------------------------------------------
(* The two loops; an unlock has the type "un". *)
turn(c, l, type) ==
  IF type = "un" THEN unlock_one(c, l) ELSE merge_one(c, l, type)

each_region(o, c, type) ==
  MapThenFoldSet(LAMBDA l, k : turn(k, l, type), c, LAMBDA l : l, last, locks[o])

unlock_region(o, start, len, mem) ==
  each_region(o, Call(start, len, mem), "un")

merge_in(o, start, len, type, mem) ==
  LET c == each_region(o, Call(start, len, mem), type)
  IN IF c.done THEN c ELSE gen_lock(c, c.start, c.len, type)

-----------------------------------------------------------------------------
(* The bytes of a region or of a request. *)
Bytes == 0 .. Eof
range(start, len) == IF len = 0 THEN start .. Eof ELSE start .. start + len - 1

Answer(o, start, len, type, answer) ==
  call' = [po |-> o, bytes |-> range(start, len), type |-> type,
           answer |-> answer]

(* What a call of O does to the state; ROUSED are the threads that it does *)
(* not leave woken.                                                        *)
Apply(o, start, len, type, c, roused) ==
  /\ locks' = [locks EXCEPT ![o] = c.list]
  /\ woken' = (woken \ roused) \cup c.woken
  /\ aborted' = (aborted \/ c.abort)
  /\ Answer(o, start, len, type, IF c.err THEN "nomem" ELSE "ok")

(* MEM allocations succeed in a call, which fails if it needs more.  *)
Memory(c, mem) == mem < MaxMem => c.err

Gap(o, start, len) ==
  \E l \in locks[o] : l.len = 0 /\ len # 0 /\ start + len < l.start

Request(o, start, len, type) ==
  /\ type = "wr" => o \in Writers
  /\ WithGap \/ ~Gap(o, start, len)

(* fshelp_rlock_tweak with F_SETLK64, or F_SETLKW64 without a conflict.    *)
(* F_GETLK64 changes nothing.                                              *)
setlk(o, start, len, type, mem) ==
  LET c == merge_in(o, start, len, type, mem)
  IN /\ Request(o, start, len, type)
     /\ find_conflict(o, start, len, type) = {}
     /\ Memory(c, mem)
     /\ Apply(o, start, len, type, c, {})
     /\ UNCHANGED req

(* F_SETLK64 with a conflict: EAGAIN. *)
setlk_again(o, start, len, type) ==
  /\ Request(o, start, len, type)
  /\ find_conflict(o, start, len, type) # {}
  /\ Answer(o, start, len, type, "again")
  /\ UNCHANGED <<locks, req, woken, aborted>>

(* fshelp_rlock_tweak with F_UNLCK. *)
unlock(o, start, len, mem) ==
  LET c == unlock_region(o, start, len, mem)
  IN /\ Memory(c, mem)
     /\ Apply(o, start, len, "un", c, {})
     /\ UNCHANGED req

Join(t, e) ==
  locks' = [locks EXCEPT ![e[1]] =
              (@ \ {e[2]}) \cup {[e[2] EXCEPT !.wait = @ \cup {t}]}]

(* F_SETLKW64 with a conflict: sleep on the region that was found. *)
setlkw(t, o, start, len, type) ==
  /\ req[t] = NoReq
  /\ Request(o, start, len, type)
  /\ \E e \in find_conflict(o, start, len, type) : Join(t, e)
  /\ req' = [req EXCEPT ![t] = [po |-> o, start |-> start, len |-> len,
                                type |-> type]]
  /\ Answer(o, start, len, type, "wait")
  /\ UNCHANGED <<woken, aborted>>

(* A woken thread looks for a conflict again. *)
retry(t, mem) ==
  LET r == req[t]
      c == merge_in(r.po, r.start, r.len, r.type, mem)
  IN /\ t \in woken
     /\ WithGap \/ ~Gap(r.po, r.start, r.len)
     /\ \/ /\ find_conflict(r.po, r.start, r.len, r.type) = {}
           /\ Memory(c, mem)
           /\ Apply(r.po, r.start, r.len, r.type, c, {t})
           /\ req' = [req EXCEPT ![t] = NoReq]
        \/ /\ mem = MaxMem
           /\ \E e \in find_conflict(r.po, r.start, r.len, r.type) : Join(t, e)
           /\ woken' = woken \ {t}
           /\ Answer(r.po, r.start, r.len, r.type, "wait")
           /\ UNCHANGED <<req, aborted>>

Leave(t) ==
  [o \in Owners |-> {[l EXCEPT !.wait = @ \ {t}] : l \in locks[o]}]

(* The sleep is cancelled: EINTR. *)
interrupt(t) ==
  /\ req[t] # NoReq
  /\ locks' = Leave(t)
  /\ woken' = woken \ {t}
  /\ req' = [req EXCEPT ![t] = NoReq]
  /\ Answer(req[t].po, req[t].start, req[t].len, req[t].type, "intr")
  /\ UNCHANGED aborted

(* fshelp_rlock_drop_peropen, once no call of the open file is left: as if *)
(* the whole file were unlocked.                                           *)
drop_peropen(o) ==
  /\ \A t \in Threads : req[t].po # o
  /\ woken' = woken \cup UNION {l.wait : l \in locks[o]}
  /\ locks' = [locks EXCEPT ![o] = {}]
  /\ Answer(o, 0, 0, "un", "ok")
  /\ UNCHANGED <<req, aborted>>

Next ==
  \/ \E o \in Owners, start \in Starts, len \in Lens :
       /\ start + len <= Eof
       /\ \/ \E type \in {"rd", "wr"} :
               \/ \E mem \in 0 .. MaxMem : setlk(o, start, len, type, mem)
               \/ setlk_again(o, start, len, type)
               \/ /\ <<start, len>> \in Waits
                  /\ \E t \in Threads : setlkw(t, o, start, len, type)
          \/ \E mem \in 0 .. MaxMem : unlock(o, start, len, mem)
  \/ \E t \in Threads :
       \/ \E mem \in 0 .. MaxMem : retry(t, mem)
       \/ interrupt(t)
  \/ \E o \in Owners : drop_peropen(o)

Spec == Init /\ [][Next]_vars

-----------------------------------------------------------------------------
covers(l) == range(l.start, l.len)

Held(o, b) ==
  LET ls == {l \in locks[o] : b \in covers(l)}
  IN IF ls = {} THEN "un"
     ELSE IF \E l \in ls : l.type = "wr" THEN "wr" ELSE "rd"

Ranges == INSTANCE RangeLock WITH
  held <- [o \in Owners |-> [b \in Bytes |-> Held(o, b)]]

(* The lists of regions implement the locks of bytes: a call of            *)
(* fshelp_rlock_tweak that succeeds puts exactly the bytes that it was     *)
(* asked for in the mode that it was asked for, and changes no other byte  *)
(* and no other open file; EAGAIN and a sleep mean that another open file  *)
(* holds a conflicting lock, and change nothing; and a call without memory *)
(* grants nothing that was not asked for.                                  *)
RangeLockSpec == Ranges!Spec

(* Two open files never hold conflicting locks on a byte. *)
Exclusion == Ranges!Exclusion

(* A sleeping thread that nobody woke is on the condition of a region that *)
(* still exists, of another open file and of a conflicting type.           *)
SleepersOnLive ==
  \A t \in Threads : req[t] # NoReq /\ t \notin woken =>
    \E o \in Owners \ {req[t].po} : \E l \in locks[o] :
      t \in l.wait /\ "wr" \in {l.type, req[t].type}

(* No assertion of merge_in and unlock_region fails. *)
NoAbort == ~aborted

(* The regions of an open file are in a canonical form: no two of them     *)
(* overlap, and no two of the same type touch.                             *)
Canonical ==
  \A o \in Owners : \A k, l \in locks[o] : k # l =>
    /\ covers(k) \cap covers(l) = {}
    /\ k.type = l.type /\ k.len # 0 => End(k) # l.start
=============================================================================
