-------------------------- MODULE RecordLockProofs --------------------------
(***************************************************************************)
(* Safety of the lists of regions, for any open files, threads, memory and *)
(* file size, and their refinement of the locks of bytes.                  *)
(*                                                                         *)
(* A branch of a loop is described by the regions it leaves behind and the *)
(* rest of the request (Moves).  From that follow, for a turn of a loop,   *)
(* where sleepers go and what bytes appear (Turned), that regions stay     *)
(* apart (Neatly), that bytes are kept (Keeping, Cuts) and that nothing    *)
(* leaves the file (Fitting); by induction over the regions of a list the  *)
(* same for a whole loop (Looped, Tidy, Conserved, Freed); and from that   *)
(* what a call does to the state.                                          *)
(***************************************************************************)
EXTENDS RecordLock, FiniteSetTheorems, NaturalsInduction, WellFoundedInduction,
        TLAPS

(* Regions, and the state of a loop over them. *)
Regions == [start : Nat, len : Nat, type : {"rd", "wr"}, wait : SUBSET Threads]
Loops == [start : Nat, len : Nat, list : SUBSET Regions, woken : SUBSET Threads,
          mem : Nat, done : BOOLEAN, stop : BOOLEAN, err : BOOLEAN,
          abort : BOOLEAN]

(* A step of a loop from C to D: the rest of the request, the regions and  *)
(* woken threads that it adds, whether it returns and fails.  No assertion *)
(* fails.                                                                  *)
Moves(c, d, s, n, new, roused, done, err) ==
  /\ d \in Loops
  /\ d.start = s /\ d.len = n
  /\ d.list = c.list \cup new /\ d.woken = c.woken \cup roused
  /\ d.done = done /\ d.err = err
  /\ d.stop = c.stop /\ d.abort = c.abort

-----------------------------------------------------------------------------
(* The primitives of the loops. *)
LEMMA KeepMoves ==
  ASSUME NEW c \in Loops, NEW l \in Regions
  PROVE  Moves(c, keep(c, l), c.start, c.len, {l}, {}, c.done, c.err)
BY DEF Moves, keep, Loops

LEMMA ReturnMoves ==
  ASSUME NEW c \in Loops
  PROVE  /\ Moves(c, return(c), c.start, c.len, {}, {}, TRUE, c.err)
         /\ Moves(c, enomem(c), c.start, c.len, {}, {}, TRUE, TRUE)
BY DEF Moves, return, enomem, Loops

LEMMA AssertMoves ==
  ASSUME NEW c \in Loops, NEW p, p
  PROVE  assert(c, p) \in Loops /\ assert(c, p) = c
BY DEF assert, Loops

LEMMA AskMoves ==
  ASSUME NEW c \in Loops, NEW s \in Nat, NEW n \in Nat
  PROVE  Moves(c, ask(c, s, n), s, n, {}, {}, c.done, c.err)
BY DEF Moves, ask, Loops

LEMMA WakeMoves ==
  ASSUME NEW c \in Loops, NEW l \in Regions
  PROVE  /\ Moves(c, wake(c, l), c.start, c.len, {}, l.wait, c.done, c.err)
         /\ rele_lock(c, l) = wake(c, l)
<1>1. l.wait \in SUBSET Threads
  BY DEF Regions
<1> QED BY <1>1 DEF Moves, wake, rele_lock, Loops

region(s, n, type, w) == [start |-> s, len |-> n, type |-> type, wait |-> w]
fresh(s, n, type) == region(s, n, type, {})

LEMMA RegionTyped ==
  ASSUME NEW s \in Nat, NEW n \in Nat, NEW type \in {"rd", "wr"},
         NEW w \in SUBSET Threads
  PROVE  region(s, n, type, w) \in Regions
BY DEF region, Regions

LEMMA RegionIs ==
  ASSUME NEW l \in Regions
  PROVE  l = region(l.start, l.len, l.type, l.wait)
BY DEF Regions, region

LEMMA CutRegion ==
  ASSUME NEW l \in Regions, NEW s \in Nat, NEW n \in Nat, NEW type \in {"rd", "wr"}
  PROVE  /\ [l EXCEPT !.len = n] = region(l.start, n, l.type, l.wait)
         /\ [l EXCEPT !.start = s, !.len = n] = region(s, n, l.type, l.wait)
         /\ [l EXCEPT !.start = s, !.len = n, !.type = type]
              = region(s, n, type, l.wait)
<1> DEFINE a == [l EXCEPT !.len = n]
           b == [l EXCEPT !.start = s, !.len = n]
           c == [l EXCEPT !.start = s, !.len = n, !.type = type]
<1>1. /\ a \in Regions /\ a.start = l.start /\ a.len = n
      /\ a.type = l.type /\ a.wait = l.wait
  BY DEF Regions
<1>2. /\ b \in Regions /\ b.start = s /\ b.len = n
      /\ b.type = l.type /\ b.wait = l.wait
  BY DEF Regions
<1>3. /\ c \in Regions /\ c.start = s /\ c.len = n
      /\ c.type = type /\ c.wait = l.wait
  BY DEF Regions
<1> HIDE DEF a, b, c
<1>4. /\ a = region(l.start, n, l.type, l.wait)
      /\ b = region(s, n, l.type, l.wait)
      /\ c = region(s, n, type, l.wait)
  BY <1>1, <1>2, <1>3, RegionIs
<1> QED BY <1>4 DEF a, b, c

LEMMA GenLockMoves ==
  ASSUME NEW c \in Loops, NEW s \in Nat, NEW n \in Nat, NEW type \in {"rd", "wr"}
  PROVE  /\ fresh(s, n, type) \in Regions
         /\ \/ Moves(c, gen_lock(c, s, n, type), c.start, c.len, {}, {}, TRUE, TRUE)
            \/ Moves(c, gen_lock(c, s, n, type), c.start, c.len,
                     {fresh(s, n, type)}, {}, c.done, c.err)
<1>1. fresh(s, n, type) \in Regions
  BY DEF Regions, fresh, region
<1>2. CASE c.mem = 0
  BY <1>1, <1>2, ReturnMoves DEF gen_lock
<1>3. CASE c.mem # 0
  <2>1. gen_lock(c, s, n, type)
          = [c EXCEPT !.mem = @ - 1, !.list = @ \cup {fresh(s, n, type)}]
    BY <1>3 DEF gen_lock, fresh, region
  <2>2. Moves(c, [c EXCEPT !.mem = @ - 1, !.list = @ \cup {fresh(s, n, type)}],
              c.start, c.len, {fresh(s, n, type)}, {}, c.done, c.err)
    <3>1. c.mem - 1 \in Nat
      BY <1>3 DEF Loops
    <3> QED BY <1>1, <3>1 DEF Moves, Loops
  <2> QED BY <1>1, <2>1, <2>2
<1> QED BY <1>2, <1>3

(* Two moves in a row. *)
LEMMA MovesTwice ==
  ASSUME NEW c \in Loops, NEW d, NEW e,
         NEW s, NEW n, NEW new, NEW roused, NEW done, NEW err,
         NEW s2, NEW n2, NEW new2, NEW roused2, NEW done2, NEW err2,
         Moves(c, d, s, n, new, roused, done, err),
         Moves(d, e, s2, n2, new2, roused2, done2, err2)
  PROVE  Moves(c, e, s2, n2, new \cup new2, roused \cup roused2, done2, err2)
BY DEF Moves

-----------------------------------------------------------------------------
(* The branches of unlock_region's loop. *)
UnlockMoves(c, l, d) ==
  LET start == c.start
      len   == c.len
      end   == start + len
      rest  == IF l.len = 0 THEN 0 ELSE End(l) - end
  IN \* keep
     \/ c.done /\ Moves(c, d, start, len, {l}, {}, TRUE, c.err)
     \/ /\ ~c.done /\ l.len # 0 /\ End(l) <= start
        /\ Moves(c, d, start, len, {l}, {}, FALSE, c.err)
     \/ /\ ~c.done /\ len # 0 /\ end <= l.start
        /\ Moves(c, d, start, len, {l}, {}, TRUE, c.err)
     \* wrapped
     \/ /\ ~c.done /\ start <= l.start
        /\ len = 0 \/ (l.len # 0 /\ End(l) <= end)
        /\ Moves(c, d, start, len, {}, l.wait, FALSE, c.err)
     \* head
     \/ /\ ~c.done /\ start <= l.start /\ len # 0 /\ l.start < end
        /\ l.len = 0 \/ end < End(l)
        /\ Moves(c, d, start, len, {region(end, rest, l.type, {})}, l.wait,
                 FALSE, c.err)
     \* tail
     \/ /\ ~c.done /\ l.start < start
        /\ len = 0 \/ (l.len # 0 /\ End(l) <= end)
        /\ l.len # 0 => start < End(l)
        /\ Moves(c, d, start, len, {region(l.start, start - l.start, l.type, {})},
                 l.wait, FALSE, c.err)
     \* middle
     \/ /\ ~c.done /\ l.start < start /\ len # 0
        /\ l.len = 0 \/ end < End(l)
        /\ \/ Moves(c, d, start, len, {l}, {}, TRUE, TRUE)
           \/ Moves(c, d, start, len,
                    {region(l.start, start - l.start, l.type, l.wait),
                     region(end, rest, l.type, {})}, {}, TRUE, c.err)

LEMMA UnlockOne ==
  ASSUME NEW c \in Loops, c.err => c.done, NEW l \in Regions
  PROVE  UnlockMoves(c, l, unlock_one(c, l))
<1> DEFINE start == c.start
           len   == c.len
           end   == start + len
           rest  == IF l.len = 0 THEN 0 ELSE End(l) - end
           d     == unlock_one(c, l)
<1>1. /\ start \in Nat /\ len \in Nat /\ c.done \in BOOLEAN /\ c.err \in BOOLEAN
      /\ l.start \in Nat /\ l.len \in Nat /\ l.type \in {"rd", "wr"}
      /\ l.wait \in SUBSET Threads /\ end \in Nat /\ End(l) = l.start + l.len
  BY DEF Loops, Regions, End
<1>2. CASE c.done
  BY <1>1, <1>2, KeepMoves DEF unlock_one, UnlockMoves
<1>3. CASE ~c.done /\ l.len # 0 /\ End(l) <= start
  BY <1>1, <1>3, KeepMoves DEF unlock_one, UnlockMoves
<1>4. CASE ~c.done /\ ~(l.len # 0 /\ End(l) <= start) /\ len # 0 /\ end <= l.start
  <2>1. d = return(keep(c, l))
    BY <1>4 DEF unlock_one
  <2>2. Moves(c, keep(c, l), start, len, {l}, {}, FALSE, c.err)
    BY <1>1, <1>4, KeepMoves
  <2>3. Moves(keep(c, l), return(keep(c, l)), start, len, {}, {}, TRUE, c.err)
    BY <2>2, ReturnMoves DEF Moves
  <2>4. Moves(c, d, start, len, {l}, {}, TRUE, c.err)
    BY <2>1, <2>2, <2>3 DEF Moves
  <2> QED BY <1>4, <2>4 DEF UnlockMoves
<1> DEFINE meet == /\ ~c.done /\ ~(l.len # 0 /\ End(l) <= start)
                   /\ ~(len # 0 /\ end <= l.start)
           wrap == start <= l.start /\ (len = 0 \/ (l.len # 0 /\ End(l) <= end))
<1>5. CASE meet /\ wrap
  <2>1. d = wake(c, l)
    BY <1>5, WakeMoves DEF unlock_one
  <2> QED BY <1>1, <1>5, <2>1, WakeMoves DEF UnlockMoves
<1>6. CASE meet /\ ~wrap /\ start <= l.start
  <2>1. len # 0 /\ l.start < end /\ (l.len = 0 \/ end < End(l)) /\ rest \in Nat
    BY <1>1, <1>6
  <2>2. [l EXCEPT !.start = end, !.wait = {},
                  !.len = IF @ = 0 THEN 0 ELSE End(l) - end]
          = region(end, rest, l.type, {})
    <3> DEFINE e == [l EXCEPT !.start = end, !.wait = {},
                              !.len = IF @ = 0 THEN 0 ELSE End(l) - end]
    <3>1. /\ e \in Regions /\ e.start = end /\ e.len = rest
          /\ e.type = l.type /\ e.wait = {}
      BY <1>1, <2>1 DEF Regions
    <3> HIDE DEF e
    <3>2. e = region(end, rest, l.type, {})
      BY <3>1, RegionIs
    <3> QED BY <3>2 DEF e
  <2> DEFINE w == wake(c, l)
             k == keep(w, region(end, rest, l.type, {}))
  <2>3. d = assert(k, len # 0 /\ (l.len = 0 \/ end < End(l)))
    BY <1>1, <1>6, <2>1, <2>2 DEF unlock_one
  <2>4. Moves(c, w, start, len, {}, l.wait, FALSE, c.err)
    BY <1>1, <1>6, WakeMoves
  <2>5. region(end, rest, l.type, {}) \in Regions
    BY <1>1, <2>1, RegionTyped
  <2>6. Moves(w, k, start, len, {region(end, rest, l.type, {})}, {}, FALSE, c.err)
    BY <2>4, <2>5, KeepMoves DEF Moves
  <2>7. Moves(c, k, start, len, {region(end, rest, l.type, {})}, l.wait, FALSE,
              c.err)
    BY <2>4, <2>6 DEF Moves
  <2>8. d = k
    BY <2>1, <2>3, <2>7, AssertMoves DEF Moves
  <2> QED BY <1>6, <2>1, <2>7, <2>8 DEF UnlockMoves
<1>7. CASE /\ meet /\ l.start < start
           /\ len = 0 \/ (l.len # 0 /\ End(l) <= end)
  <2>1. l.len # 0 => start < End(l)
    BY <1>1, <1>7
  <2>2. start - l.start \in Nat
    BY <1>1, <1>7
  <2> DEFINE x == region(l.start, start - l.start, l.type, {})
             w == wake(c, l)
             k == keep(w, x)
  <2>3. [l EXCEPT !.len = start - l.start, !.wait = {}] = x
    <3> DEFINE e == [l EXCEPT !.len = start - l.start, !.wait = {}]
    <3>1. /\ e \in Regions /\ e.start = l.start /\ e.len = start - l.start
          /\ e.type = l.type /\ e.wait = {}
      BY <1>1, <2>2 DEF Regions
    <3> QED BY <3>1, RegionIs
  <2>4. d = assert(k, len = 0 \/ (l.len # 0 /\ End(l) <= end))
    <3>1. /\ ~c.done /\ ~(l.len # 0 /\ End(l) <= start)
          /\ ~(len # 0 /\ end <= l.start)
          /\ ~(start <= l.start)
          /\ l.start < start
          /\ \/ start < End(l) /\ (len = 0 \/ End(l) <= end)
             \/ len = 0 /\ l.len = 0
      BY <1>1, <1>7, <2>1
    <3> QED BY <3>1, <2>3 DEF unlock_one
  <2>5. Moves(c, w, start, len, {}, l.wait, FALSE, c.err)
    BY <1>1, <1>7, WakeMoves
  <2>6. x \in Regions
    BY <1>1, <2>2, RegionTyped
  <2> HIDE DEF x
  <2>7. Moves(w, k, start, len, {x}, {}, FALSE, c.err)
    BY <2>5, <2>6, KeepMoves DEF Moves
  <2>8. Moves(c, k, start, len, {x}, l.wait, FALSE, c.err)
    BY <2>5, <2>7 DEF Moves
  <2>9. d = k
    BY <1>7, <2>4, <2>8, AssertMoves DEF Moves
  <2> QED BY <1>7, <2>1, <2>8, <2>9 DEF UnlockMoves, x
<1>8. CASE /\ meet /\ l.start < start /\ len # 0
           /\ l.len = 0 \/ end < End(l)
  <2>1. start - l.start \in Nat /\ rest \in Nat
    BY <1>1, <1>8
  <2> DEFINE x == region(l.start, start - l.start, l.type, l.wait)
             y == region(end, rest, l.type, {})
             g == gen_lock(c, end, rest, l.type)
             k == keep(g, IF g.err THEN l ELSE x)
  <2>2. [l EXCEPT !.len = start - l.start] = x
    BY <1>1, <2>1, CutRegion
  <2>3. d = assert(return(k), len # 0)
    <3>1. /\ ~c.done /\ ~(l.len # 0 /\ End(l) <= start)
          /\ ~(len # 0 /\ end <= l.start)
          /\ ~(start <= l.start)
          /\ ~(/\ l.start < start
               /\ \/ start < End(l) /\ (len = 0 \/ End(l) <= end)
                  \/ len = 0 /\ l.len = 0)
          /\ l.start < start /\ (l.len = 0 \/ (len # 0 /\ end < End(l)))
      BY <1>1, <1>8
    <3> QED BY <3>1, <2>2 DEF unlock_one
  <2>4. x \in Regions /\ y \in Regions
    BY <1>1, <2>1, RegionTyped
  <2>5. \/ Moves(c, g, start, len, {}, {}, TRUE, TRUE)
        \/ Moves(c, g, start, len, {y}, {}, FALSE, c.err)
    BY <1>1, <1>8, <2>1, GenLockMoves DEF fresh
  <2> HIDE DEF x, y, g
  <2>6. CASE Moves(c, g, start, len, {}, {}, TRUE, TRUE)
    <3>1. k = keep(g, l) /\ Moves(g, k, start, len, {l}, {}, TRUE, TRUE)
      BY <2>6, KeepMoves DEF Moves
    <3>2. Moves(k, return(k), start, len, {}, {}, TRUE, TRUE)
      BY <3>1, ReturnMoves DEF Moves
    <3>3. Moves(c, return(k), start, len, {l}, {}, TRUE, TRUE)
      BY <2>6, <3>1, <3>2 DEF Moves
    <3>4. d = return(k)
      BY <1>8, <2>3, <3>3, AssertMoves DEF Moves
    <3> QED BY <1>8, <3>3, <3>4 DEF UnlockMoves
  <2>7. CASE Moves(c, g, start, len, {y}, {}, FALSE, c.err)
    <3>0. c.err = FALSE
      BY <1>1, <1>8
    <3>1. k = keep(g, x) /\ Moves(g, k, start, len, {x}, {}, FALSE, c.err)
      BY <2>4, <2>7, <3>0, KeepMoves DEF Moves
    <3>2. Moves(k, return(k), start, len, {}, {}, TRUE, c.err)
      BY <3>1, ReturnMoves DEF Moves
    <3>3. Moves(c, return(k), start, len, {x, y}, {}, TRUE, c.err)
      BY <2>7, <3>1, <3>2 DEF Moves
    <3>4. d = return(k)
      BY <1>8, <2>3, <3>3, AssertMoves DEF Moves
    <3> QED BY <1>8, <3>3, <3>4 DEF UnlockMoves, x, y
  <2> QED BY <2>5, <2>6, <2>7
<1>9. QED
  <2>1. \/ c.done
        \/ ~c.done /\ l.len # 0 /\ End(l) <= start
        \/ /\ ~c.done /\ ~(l.len # 0 /\ End(l) <= start)
           /\ len # 0 /\ end <= l.start
        \/ meet /\ wrap
        \/ meet /\ ~wrap /\ start <= l.start
        \/ meet /\ ~wrap /\ l.start < start
    BY <1>1
  <2>2. ASSUME meet, ~wrap, l.start < start
        PROVE  \/ len = 0 \/ (l.len # 0 /\ End(l) <= end)
               \/ len # 0 /\ (l.len = 0 \/ end < End(l))
    BY <1>1, <2>2
  <2> QED BY <1>2, <1>3, <1>4, <1>5, <1>6, <1>7, <1>8, <2>1, <2>2

-----------------------------------------------------------------------------
(* The branches of merge_in's loop. *)
only(p, k) == IF p THEN {k} ELSE {}

LEMMA SomeGenMoves ==
  ASSUME NEW c \in Loops, NEW p \in BOOLEAN, NEW s, NEW n,
         NEW type \in {"rd", "wr"}, p => s \in Nat /\ n \in Nat,
         NEW h, h = IF p THEN gen_lock(c, s, n, type) ELSE c
  PROVE  \/ Moves(c, h, c.start, c.len, {}, {}, TRUE, TRUE)
         \/ Moves(c, h, c.start, c.len, only(p, region(s, n, type, {})), {},
                  c.done, c.err)
<1>1. CASE p
  BY <1>1, GenLockMoves DEF only, fresh
<1>2. CASE ~p
  BY <1>2 DEF only, Moves
<1> QED BY <1>1, <1>2

SplitMoves(c, l, type, d) ==
  LET start == c.start
      len   == c.len
      end   == start + len
      head  == only(l.start < start, region(l.start, start - l.start, "rd", {}))
  IN \/ /\ type \in {l.type, "rd"}
        /\ Moves(c, d, start, len, {l}, {}, TRUE, FALSE)
     \/ /\ type = "wr" /\ l.type = "rd"
        /\ Moves(c, d, start, len, {l}, {}, TRUE, TRUE)
     \/ /\ type = "wr" /\ l.type = "rd" /\ len # 0
        /\ l.len = 0 \/ end < End(l)
        /\ Moves(c, d, start, len,
                 head \cup {region(end, IF l.len = 0 THEN 0 ELSE End(l) - end,
                                   "rd", {}),
                            region(start, len, "wr", l.wait)}, {}, TRUE, FALSE)
     \/ /\ type = "wr" /\ l.type = "rd"
        /\ \/ l.len = 0 /\ len = 0
           \/ l.len # 0 /\ len # 0 /\ end = End(l)
        /\ Moves(c, d, start, len, head, l.wait, FALSE, FALSE)

LEMMA SplitOne ==
  ASSUME NEW c \in Loops, ~c.done, ~c.err, NEW l \in Regions, within(c, l),
         NEW type \in {"rd", "wr"}
  PROVE  SplitMoves(c, l, type, split(c, l, type))
<1> DEFINE start == c.start
           len   == c.len
           end   == start + len
           rest  == IF l.len = 0 THEN 0 ELSE End(l) - end
           before == l.start < start
           after  == (l.len = 0 /\ len # 0) \/ end < End(l)
           x == region(l.start, start - l.start, "rd", {})
           y == region(end, rest, "rd", {})
           z == region(start, len, "wr", l.wait)
           h == IF before THEN gen_lock(c, l.start, start - l.start, "rd") ELSE c
           t == IF after THEN gen_lock(h, end, rest, "rd") ELSE h
           d == split(c, l, type)
<1>1. /\ start \in Nat /\ len \in Nat /\ c.done = FALSE /\ c.err = FALSE
      /\ l.start \in Nat /\ l.len \in Nat /\ l.type \in {"rd", "wr"}
      /\ l.wait \in SUBSET Threads /\ end \in Nat /\ End(l) = l.start + l.len
      /\ before \in BOOLEAN /\ after \in BOOLEAN
  BY DEF Loops, Regions, End
<1>2. /\ l.start <= start
      /\ l.len = 0 \/ (len # 0 /\ end <= End(l))
  BY DEF within
<1>3. CASE type \in {l.type, "rd"}
  <2>1. d = return(keep(c, l))
    BY <1>3 DEF split
  <2> HIDE DEF d
  <2>2. Moves(c, keep(c, l), start, len, {l}, {}, FALSE, FALSE)
    BY <1>1, KeepMoves
  <2>3. Moves(keep(c, l), d, start, len, {}, {}, TRUE, FALSE)
    BY <2>1, <2>2, ReturnMoves DEF Moves
  <2>4. Moves(c, d, start, len, {l}, {}, TRUE, FALSE)
    BY <2>2, <2>3 DEF Moves
  <2> QED BY <1>3, <2>4 DEF SplitMoves, d
<1>4. CASE type \notin {l.type, "rd"}
  <2>1. type = "wr" /\ l.type = "rd"
    BY <1>1, <1>4
  <2>2. /\ before => start - l.start \in Nat
        /\ after => rest \in Nat
        /\ after <=> (len # 0 /\ (l.len = 0 \/ end < End(l)))
        /\ ~after => \/ l.len = 0 /\ len = 0
                     \/ l.len # 0 /\ len # 0 /\ end = End(l)
    BY <1>1, <1>2
  <2>3. d = IF t.err THEN enomem(keep(c, l))
            ELSE IF after
              THEN return(keep(t, [l EXCEPT !.start = start, !.len = len,
                                            !.type = "wr"]))
              ELSE rele_lock(ask(t, start, IF l.len = 0 THEN 0
                                           ELSE End(l) - start), l)
    BY <1>4 DEF split
  <2> HIDE DEF d
  <2>4. \/ Moves(c, h, start, len, {}, {}, TRUE, TRUE)
        \/ Moves(c, h, start, len, only(before, x), {}, FALSE, FALSE)
    BY <1>1, <2>2, SomeGenMoves
  <2>5. h \in Loops
    BY <2>4 DEF Moves
  <2> HIDE DEF h, before, after, x, y
  <2>6. \/ Moves(h, t, h.start, h.len, {}, {}, TRUE, TRUE)
        \/ Moves(h, t, h.start, h.len, only(after, y), {}, h.done, h.err)
    <3> HIDE DEF t, rest, end
    <3>1. t = IF after THEN gen_lock(h, end, rest, "rd") ELSE h
      BY DEF t
    <3>2. y = region(end, rest, "rd", {})
      BY DEF y
    <3> QED BY <1>1, <2>2, <2>5, <3>1, <3>2, SomeGenMoves
  <2> HIDE DEF t
  <2>7. CASE t.err
    <3>1. d = enomem(keep(c, l))
      BY <2>3, <2>7
    <3>2. Moves(c, keep(c, l), start, len, {l}, {}, FALSE, FALSE)
      BY <1>1, KeepMoves
    <3>3. Moves(keep(c, l), d, start, len, {}, {}, TRUE, TRUE)
      BY <3>1, <3>2, ReturnMoves DEF Moves
    <3>4. Moves(c, d, start, len, {l}, {}, TRUE, TRUE)
      BY <3>2, <3>3 DEF Moves
    <3> QED BY <2>1, <3>4 DEF SplitMoves, d
  <2>8. CASE ~t.err
    <3>1. Moves(c, t, start, len, only(before, x) \cup only(after, y), {}, FALSE,
                FALSE)
      BY <2>4, <2>6, <2>8 DEF Moves
    <3>2. CASE after
      <4>1. [l EXCEPT !.start = start, !.len = len, !.type = "wr"] = z
        BY <1>1, CutRegion
      <4>2. z \in Regions
        BY <1>1, RegionTyped
      <4> DEFINE k == keep(t, z)
      <4> HIDE DEF z
      <4>3. d = return(k)
        BY <2>3, <2>8, <3>2, <4>1
      <4>4. Moves(t, k, start, len, {z}, {}, FALSE, FALSE)
        BY <3>1, <4>2, KeepMoves DEF Moves
      <4>5. Moves(k, d, start, len, {}, {}, TRUE, FALSE)
        BY <4>3, <4>4, ReturnMoves DEF Moves
      <4>6. only(after, y) = {y}
        BY <3>2 DEF only
      <4>7. Moves(c, d, start, len, only(before, x) \cup {y, z}, {}, TRUE, FALSE)
        BY <3>1, <4>4, <4>5, <4>6 DEF Moves
      <4> QED BY <2>1, <2>2, <3>2, <4>7 DEF SplitMoves, x, y, z, before, d
    <3>3. CASE ~after
      <4>1. (IF l.len = 0 THEN 0 ELSE End(l) - start) = len
        BY <1>1, <2>2, <3>3
      <4>9. Moves(t, ask(t, start, len), start, len, {}, {}, t.done, t.err)
        <5>1. t \in Loops
          BY <3>1 DEF Moves
        <5> QED BY <1>1, <5>1, AskMoves
      <4> DEFINE a == ask(t, start, len)
      <4>2. d = wake(a, l)
        <5>1. d = rele_lock(a, l)
          BY <2>3, <2>8, <3>3, <4>1
        <5> QED BY <5>1 DEF rele_lock
      <4>3. Moves(t, a, start, len, {}, {}, FALSE, FALSE)
        BY <3>1, <4>9 DEF Moves
      <4>4. Moves(a, d, start, len, {}, l.wait, FALSE, FALSE)
        BY <4>2, <4>3, WakeMoves DEF Moves
      <4>5. only(after, y) = {}
        BY <3>3 DEF only
      <4>6. Moves(c, d, start, len, only(before, x), l.wait, FALSE, FALSE)
        BY <3>1, <4>3, <4>4, <4>5 DEF Moves
      <4> QED BY <2>1, <2>2, <3>3, <4>6 DEF SplitMoves, x, before, d
    <3> QED BY <3>2, <3>3
  <2> QED
    <3>1. t.err \in BOOLEAN
      BY <2>5, <2>6 DEF Moves, Loops
    <3> QED BY <2>7, <2>8
<1> QED BY <1>3, <1>4

(* A primitive after a move. *)
LEMMA MovesOn ==
  ASSUME NEW c \in Loops, NEW d, NEW s, NEW n, NEW new, NEW roused,
         NEW done, NEW err, Moves(c, d, s, n, new, roused, done, err),
         NEW l \in Regions
  PROVE  /\ Moves(c, keep(d, l), s, n, new \cup {l}, roused, done, err)
         /\ Moves(c, return(d), s, n, new, roused, TRUE, err)
         /\ Moves(c, rele_lock(d, l), s, n, new, roused \cup l.wait, done, err)
         /\ \A a \in Nat, b \in Nat :
              Moves(c, ask(d, a, b), a, b, new, roused, done, err)
<1>1. d \in Loops
  BY DEF Moves
<1>2. Moves(d, keep(d, l), d.start, d.len, {l}, {}, d.done, d.err)
  BY <1>1, KeepMoves
<1>3. Moves(d, return(d), d.start, d.len, {}, {}, TRUE, d.err)
  BY <1>1, ReturnMoves
<1>4. Moves(d, rele_lock(d, l), d.start, d.len, {}, l.wait, d.done, d.err)
  BY <1>1, WakeMoves
<1>5. \A a \in Nat, b \in Nat :
        Moves(d, ask(d, a, b), a, b, {}, {}, d.done, d.err)
  BY <1>1, AskMoves
<1> HIDE DEF Moves
<1>6. Moves(c, keep(d, l), s, n, new \cup {l}, roused, done, err)
  BY <1>2 DEF Moves
<1>7. Moves(c, return(d), s, n, new, roused, TRUE, err)
  BY <1>3 DEF Moves
<1>8. Moves(c, rele_lock(d, l), s, n, new, roused \cup l.wait, done, err)
  BY <1>4 DEF Moves
<1>9. ASSUME NEW a \in Nat, NEW b \in Nat
      PROVE Moves(c, ask(d, a, b), a, b, new, roused, done, err)
  <2>1. Moves(d, ask(d, a, b), a, b, {}, {}, d.done, d.err)
    BY <1>5
  <2> QED BY <2>1 DEF Moves
<1> QED BY <1>6, <1>7, <1>8, <1>9

SwallowMoves(c, l, type, d) ==
  LET start == c.start
      len   == c.len
      end   == start + len
      head  == only(start < l.start, region(start, l.start - start, "rd", {}))
  IN \/ /\ type \in {l.type, "wr"}
        /\ Moves(c, d, start, len, {}, l.wait, FALSE, FALSE)
     \/ /\ type = "rd" /\ l.type = "wr"
        /\ Moves(c, d, start, len, {l}, {}, TRUE, TRUE)
     \/ /\ type = "rd" /\ l.type = "wr" /\ l.len # 0
        /\ len = 0 \/ End(l) < end
        /\ Moves(c, d, End(l), IF len = 0 THEN 0 ELSE end - End(l),
                 head \cup {l}, {}, FALSE, FALSE)
     \/ /\ type = "rd" /\ l.type = "wr" /\ start < l.start
        /\ \/ l.len = 0 /\ len = 0
           \/ l.len # 0 /\ len # 0 /\ End(l) = end
        /\ Moves(c, d, start, len, {region(start, l.start - start, "rd", {}), l},
                 {}, TRUE, FALSE)

LEMMA SwallowOne ==
  ASSUME NEW c \in Loops, ~c.done, ~c.err, NEW l \in Regions, ~within(c, l),
         wraps(c, l), NEW type \in {"rd", "wr"}
  PROVE  SwallowMoves(c, l, type, swallow(c, l, type))
<1> DEFINE start == c.start
           len   == c.len
           end   == start + len
           rest  == IF len = 0 THEN 0 ELSE end - End(l)
           before == start < l.start
           x == region(start, l.start - start, "rd", {})
           h == IF before THEN gen_lock(c, start, l.start - start, "rd") ELSE c
           d == swallow(c, l, type)
           on == l.len # 0 /\ (len = 0 \/ End(l) < end)
<1>1. /\ start \in Nat /\ len \in Nat /\ c.done = FALSE /\ c.err = FALSE
      /\ l.start \in Nat /\ l.len \in Nat /\ l.type \in {"rd", "wr"}
      /\ l.wait \in SUBSET Threads /\ end \in Nat /\ End(l) = l.start + l.len
      /\ before \in BOOLEAN
  BY DEF Loops, Regions, End
<1>2. /\ start <= l.start
      /\ len = 0 \/ (l.len # 0 /\ End(l) <= end)
      /\ ~(l.start <= start /\ (l.len = 0 \/ (len # 0 /\ end <= End(l))))
  BY DEF within, wraps
<1>3. Moves(c, c, start, len, {}, {}, FALSE, FALSE)
  BY <1>1 DEF Moves
<1>4. CASE type \in {l.type, "wr"}
  <2>1. d = rele_lock(c, l)
    BY <1>4 DEF swallow
  <2>2. Moves(c, rele_lock(c, l), start, len, {}, {} \cup l.wait, FALSE, FALSE)
    BY <1>3, MovesOn
  <2>3. {} \cup l.wait = l.wait
    OBVIOUS
  <2> QED BY <1>4, <2>1, <2>2, <2>3 DEF SwallowMoves
<1>5. CASE type \notin {l.type, "wr"}
  <2>1. type = "rd" /\ l.type = "wr"
    BY <1>1, <1>5
  <2>2. before => l.start - start \in Nat
    BY <1>1
  <2>3. d = IF h.err THEN keep(h, l)
            ELSE IF on THEN keep(ask(h, End(l), rest), l)
            ELSE assert(return(keep(h, l)), before)
    BY <1>5 DEF swallow
  <2>4. \/ Moves(c, h, start, len, {}, {}, TRUE, TRUE)
        \/ Moves(c, h, start, len, only(before, x), {}, FALSE, FALSE)
    BY <1>1, <2>2, SomeGenMoves
  <2> HIDE DEF h, d
  <2>5. CASE Moves(c, h, start, len, {}, {}, TRUE, TRUE)
    <3>1. d = keep(h, l)
      BY <2>3, <2>5 DEF Moves
    <3>2. Moves(c, keep(h, l), start, len, {} \cup {l}, {}, TRUE, TRUE)
      BY <2>5, MovesOn
    <3>3. {} \cup {l} = {l}
      OBVIOUS
    <3> QED BY <2>1, <3>1, <3>2, <3>3 DEF SwallowMoves, d
  <2>6. CASE Moves(c, h, start, len, only(before, x), {}, FALSE, FALSE)
    <3>1. ~h.err
      BY <2>6 DEF Moves
    <3>2. CASE on
      <4>1. d = keep(ask(h, End(l), rest), l)
        BY <2>3, <3>1, <3>2
      <4>2. End(l) \in Nat /\ rest \in Nat
        BY <1>1, <3>2
      <4> DEFINE a == ask(h, End(l), rest)
      <4>3. Moves(c, a, End(l), rest, only(before, x), {}, FALSE, FALSE)
        BY <2>6, <4>2, MovesOn
      <4> HIDE DEF rest, a
      <4>4. Moves(c, keep(a, l), End(l), rest, only(before, x) \cup {l}, {}, FALSE,
                  FALSE)
        BY <4>3, MovesOn
      <4> QED BY <2>1, <3>2, <4>1, <4>4 DEF SwallowMoves, d, rest, a
    <3>3. CASE ~on
      <4>1. /\ before
            /\ \/ l.len = 0 /\ len = 0
               \/ l.len # 0 /\ len # 0 /\ End(l) = end
        BY <1>1, <1>2, <3>3
      <4> DEFINE k == keep(h, l)
      <4>2. d = assert(return(k), before)
        BY <2>3, <3>1, <3>3
      <4>3. Moves(c, k, start, len, only(before, x) \cup {l}, {}, FALSE, FALSE)
        BY <2>6, MovesOn
      <4> HIDE DEF k
      <4>4. Moves(c, return(k), start, len, only(before, x) \cup {l}, {}, TRUE, FALSE)
        BY <4>3, MovesOn
      <4>5. only(before, x) \cup {l} = {x, l}
        BY <4>1 DEF only
      <4>6. d = return(k)
        BY <4>1, <4>2, <4>4, AssertMoves DEF Moves
      <4> QED BY <2>1, <4>1, <4>4, <4>5, <4>6 DEF SwallowMoves, d
    <3> QED BY <3>2, <3>3
  <2> QED BY <2>4, <2>5, <2>6
<1> QED BY <1>4, <1>5

UpMoves(c, l, type, d) ==
  LET start == c.start
      len   == c.len
      end   == start + len
  IN /\ l.len # 0
     /\ \/ /\ type = l.type
           /\ Moves(c, d, l.start, IF len = 0 THEN 0 ELSE end - l.start, {},
                    l.wait, FALSE, FALSE)
        \/ /\ type # l.type /\ start = End(l)
           /\ Moves(c, d, start, len, {l}, {}, FALSE, FALSE)
        \/ /\ type = "wr" /\ l.type = "rd"
           /\ Moves(c, d, start, len,
                    {region(l.start, start - l.start, "rd", l.wait)}, {},
                    FALSE, FALSE)
        \/ /\ type = "rd" /\ l.type = "wr"
           /\ Moves(c, d, End(l), IF len = 0 THEN 0 ELSE end - End(l), {l}, {},
                    FALSE, FALSE)

LEMMA UpOne ==
  ASSUME NEW c \in Loops, ~c.done, ~c.err, NEW l \in Regions, starts_in(c, l),
         NEW type \in {"rd", "wr"}
  PROVE  UpMoves(c, l, type, extend_up(c, l, type))
<1> DEFINE start == c.start
           len   == c.len
           end   == start + len
           n     == IF len = 0 THEN 0 ELSE len + start - l.start
           m     == IF len = 0 THEN 0 ELSE len - (End(l) - start)
           x     == region(l.start, start - l.start, l.type, l.wait)
           d     == extend_up(c, l, type)
           e     == IF type = l.type THEN rele_lock(ask(c, l.start, n), l)
                    ELSE IF start = End(l) THEN keep(c, l)
                    ELSE IF type = "wr" THEN keep(c, x)
                    ELSE keep(ask(c, End(l), m), l)
<1>1. /\ start \in Nat /\ len \in Nat /\ c.done = FALSE /\ c.err = FALSE
      /\ l.start \in Nat /\ l.len \in Nat /\ l.type \in {"rd", "wr"}
      /\ l.wait \in SUBSET Threads /\ end \in Nat /\ End(l) = l.start + l.len
  BY DEF Loops, Regions, End
<1>2. /\ l.start < start /\ start <= End(l) /\ l.len # 0
      /\ len = 0 \/ end > End(l)
  BY <1>1 DEF starts_in
<1>3. /\ n \in Nat /\ m \in Nat /\ start - l.start \in Nat /\ End(l) \in Nat
      /\ n = IF len = 0 THEN 0 ELSE end - l.start
      /\ m = IF len = 0 THEN 0 ELSE end - End(l)
  BY <1>1, <1>2
<1>4. Moves(c, c, start, len, {}, {}, FALSE, FALSE)
  BY <1>1 DEF Moves
<1>5. [l EXCEPT !.len = start - l.start] = x /\ x \in Regions
  BY <1>1, <1>3, CutRegion, RegionTyped
<1>6. d = assert(e, l.len # 0)
  BY <1>5 DEF extend_up
<1> HIDE DEF d, n, m, x
<1>7. d = e
  <2>1. e \in Loops
    <3>1. Moves(c, ask(c, l.start, n), l.start, n, {}, {}, FALSE, FALSE)
      BY <1>1, <1>3, <1>4, MovesOn
    <3>2. rele_lock(ask(c, l.start, n), l) \in Loops
      <4>1. Moves(c, rele_lock(ask(c, l.start, n), l), l.start, n, {},
                  {} \cup l.wait, FALSE, FALSE)
        BY <3>1, MovesOn
      <4> QED BY <4>1 DEF Moves
    <3>3. Moves(c, ask(c, End(l), m), End(l), m, {}, {}, FALSE, FALSE)
      BY <1>3, <1>4, MovesOn
    <3>4. keep(ask(c, End(l), m), l) \in Loops
      <4>1. Moves(c, keep(ask(c, End(l), m), l), End(l), m, {} \cup {l}, {},
                  FALSE, FALSE)
        BY <3>3, MovesOn
      <4> QED BY <4>1 DEF Moves
    <3>5. keep(c, l) \in Loops /\ keep(c, x) \in Loops
      BY <1>5, KeepMoves DEF Moves
    <3> QED BY <3>2, <3>4, <3>5
  <2> HIDE DEF e
  <2> QED BY <1>2, <1>6, <2>1, AssertMoves
<1>8. CASE type = l.type
  <2> DEFINE a == ask(c, l.start, n)
  <2>1. Moves(c, a, l.start, n, {}, {}, FALSE, FALSE)
    BY <1>1, <1>3, <1>4, MovesOn
  <2> HIDE DEF a
  <2>2. Moves(c, rele_lock(a, l), l.start, n, {}, {} \cup l.wait, FALSE, FALSE)
    BY <2>1, MovesOn
  <2>3. {} \cup l.wait = l.wait
    OBVIOUS
  <2>4. Moves(c, d, l.start, n, {}, l.wait, FALSE, FALSE)
    BY <1>7, <1>8, <2>2, <2>3 DEF a
  <2> QED BY <1>2, <1>3, <1>8, <2>4 DEF UpMoves, d
<1>9. CASE type # l.type /\ start = End(l)
  <2>1. d = keep(c, l)
    BY <1>7, <1>9
  <2>2. Moves(c, d, start, len, {l}, {}, FALSE, FALSE)
    BY <1>1, <2>1, KeepMoves
  <2> QED BY <1>2, <1>9, <2>2 DEF UpMoves, d
<1>10. CASE type # l.type /\ start # End(l) /\ type = "wr"
  <2>1. d = keep(c, x)
    BY <1>7, <1>10
  <2>2. Moves(c, d, start, len, {x}, {}, FALSE, FALSE)
    BY <1>1, <1>5, <2>1, KeepMoves
  <2> QED BY <1>1, <1>2, <1>10, <2>2 DEF UpMoves, d, x
<1>11. CASE type # l.type /\ start # End(l) /\ type = "rd"
  <2> DEFINE a == ask(c, End(l), m)
  <2>1. Moves(c, a, End(l), m, {}, {}, FALSE, FALSE)
    BY <1>3, <1>4, MovesOn
  <2> HIDE DEF a
  <2>2. Moves(c, keep(a, l), End(l), m, {} \cup {l}, {}, FALSE, FALSE)
    BY <2>1, MovesOn
  <2>3. {} \cup {l} = {l} /\ d = keep(a, l)
    BY <1>7, <1>11 DEF a
  <2>4. Moves(c, d, End(l), m, {l}, {}, FALSE, FALSE)
    BY <2>2, <2>3
  <2> QED BY <1>1, <1>2, <1>3, <1>11, <2>4 DEF UpMoves, d
<1> QED BY <1>8, <1>9, <1>10, <1>11

DownMoves(c, l, type, d) ==
  LET start == c.start
      len   == c.len
      end   == start + len
      up    == IF l.len = 0 THEN 0 ELSE End(l) - start
      rest  == IF l.len = 0 THEN 0 ELSE End(l) - end
  IN /\ len # 0
     /\ l.len = 0 \/ end < End(l)
     /\ \/ /\ type = l.type
           /\ Moves(c, d, start, len, {region(start, up, type, l.wait)}, {},
                    TRUE, FALSE)
        \/ /\ type # l.type /\ l.start = end
           /\ Moves(c, d, start, len, {l}, {}, FALSE, FALSE)
        \/ /\ type # l.type
           /\ Moves(c, d, start, len, {l}, {}, TRUE, TRUE)
        \/ /\ type = "wr" /\ l.type = "rd"
           /\ Moves(c, d, start, len, {region(start, len, "wr", {}),
                                       region(end, rest, "rd", l.wait)}, {},
                    TRUE, FALSE)
        \/ /\ type = "rd" /\ l.type = "wr"
           /\ Moves(c, d, start, len, {region(start, l.start - start, "rd", {}), l},
                    {}, TRUE, FALSE)

LEMMA DownOne ==
  ASSUME NEW c \in Loops, ~c.done, ~c.err, NEW l \in Regions, ~wraps(c, l),
         ends_in(c, l), NEW type \in {"rd", "wr"}
  PROVE  DownMoves(c, l, type, extend_down(c, l, type))
<1> DEFINE start == c.start
           len   == c.len
           end   == start + len
           up    == IF l.len = 0 THEN 0 ELSE End(l) - start
           rest  == IF l.len = 0 THEN 0 ELSE End(l) - end
           part  == IF type = "wr" THEN len ELSE l.start - start
           x     == region(start, up, l.type, l.wait)
           y     == region(end, rest, l.type, l.wait)
           z     == region(start, part, type, {})
           d     == extend_down(c, l, type)
           g     == gen_lock(c, start, part, type)
           e     == IF type = l.type THEN return(keep(c, x))
                    ELSE IF l.start = end THEN keep(c, l)
                    ELSE IF g.err THEN keep(g, l)
                    ELSE IF type = "wr" THEN return(keep(g, y))
                    ELSE return(keep(g, l))
<1>1. /\ start \in Nat /\ len \in Nat /\ c.done = FALSE /\ c.err = FALSE
      /\ l.start \in Nat /\ l.len \in Nat /\ l.type \in {"rd", "wr"}
      /\ l.wait \in SUBSET Threads /\ end \in Nat /\ End(l) = l.start + l.len
  BY DEF Loops, Regions, End
<1>2. start < l.start /\ len # 0 /\ (l.len = 0 \/ end < End(l))
  BY <1>1 DEF wraps, ends_in
<1>3. up \in Nat /\ rest \in Nat /\ part \in Nat
  BY <1>1, <1>2
<1>4. Moves(c, c, start, len, {}, {}, FALSE, FALSE)
  BY <1>1 DEF Moves
<1>5. /\ [l EXCEPT !.start = start, !.len = IF @ = 0 THEN 0 ELSE End(l) - start] = x
      /\ [l EXCEPT !.start = end, !.len = IF @ = 0 THEN 0 ELSE End(l) - end] = y
      /\ x \in Regions /\ y \in Regions
  BY <1>1, <1>3, CutRegion, RegionTyped
<1>6. d = assert(e, len # 0 /\ (l.len = 0 \/ end < End(l)))
  BY <1>5 DEF extend_down
<1>7. \/ Moves(c, g, start, len, {}, {}, TRUE, TRUE)
      \/ Moves(c, g, start, len, {z}, {}, FALSE, FALSE)
  BY <1>1, <1>3, GenLockMoves DEF fresh
<1> HIDE DEF d, g, x, y, z, part, rest, up
<1>8. ASSUME e \in Loops
      PROVE  d = e
  <2> HIDE DEF e
  <2> QED BY <1>2, <1>6, <1>8, AssertMoves
<1>9. CASE type = l.type
  <2> DEFINE k == keep(c, x)
  <2>1. Moves(c, k, start, len, {x}, {}, FALSE, FALSE)
    BY <1>1, <1>5, KeepMoves
  <2> HIDE DEF k
  <2>2. Moves(c, return(k), start, len, {x}, {}, TRUE, FALSE)
    BY <1>5, <2>1, MovesOn
  <2>3. e = return(k)
    BY <1>9 DEF k
  <2>4. d = return(k)
    BY <1>8, <2>2, <2>3 DEF Moves
  <2> QED BY <1>2, <1>9, <2>2, <2>4 DEF DownMoves, d, x, up
<1>10. CASE type # l.type /\ l.start = end
  <2>1. Moves(c, keep(c, l), start, len, {l}, {}, FALSE, FALSE)
    BY <1>1, KeepMoves
  <2>2. e = keep(c, l)
    BY <1>10
  <2>3. d = keep(c, l)
    BY <1>8, <2>1, <2>2 DEF Moves
  <2> QED BY <1>2, <1>10, <2>1, <2>3 DEF DownMoves, d
<1>11. CASE /\ type # l.type /\ l.start # end
            /\ Moves(c, g, start, len, {}, {}, TRUE, TRUE)
  <2>1. Moves(c, keep(g, l), start, len, {} \cup {l}, {}, TRUE, TRUE)
    BY <1>11, MovesOn
  <2>2. e = keep(g, l) /\ {} \cup {l} = {l}
    BY <1>11 DEF Moves
  <2>3. d = keep(g, l)
    BY <1>8, <2>1, <2>2 DEF Moves
  <2> QED BY <1>2, <1>11, <2>1, <2>2, <2>3 DEF DownMoves, d
<1>12. CASE /\ type # l.type /\ l.start # end
            /\ Moves(c, g, start, len, {z}, {}, FALSE, FALSE)
  <2> DEFINE r == IF type = "wr" THEN y ELSE l
             k == keep(g, r)
  <2>1. r \in Regions
    BY <1>5
  <2>2. e = return(k)
    BY <1>12 DEF Moves
  <2> HIDE DEF r
  <2>3. Moves(c, k, start, len, {z} \cup {r}, {}, FALSE, FALSE)
    BY <1>12, <2>1, MovesOn
  <2> HIDE DEF k
  <2>4. Moves(c, return(k), start, len, {z} \cup {r}, {}, TRUE, FALSE)
    BY <2>1, <2>3, MovesOn
  <2>5. d = return(k)
    BY <1>8, <2>2, <2>4 DEF Moves
  <2>6. {z} \cup {r} = {z, r}
    OBVIOUS
  <2>7. Moves(c, d, start, len, {z, r}, {}, TRUE, FALSE)
    BY <2>4, <2>5, <2>6
  <2>8. CASE type = "wr"
    <3>1. r = region(end, rest, "rd", l.wait) /\ z = region(start, len, "wr", {})
          /\ l.type = "rd"
      BY <1>1, <1>12, <2>8 DEF r, y, z, part
    <3> QED BY <1>2, <2>7, <2>8, <3>1 DEF DownMoves, d, rest
  <2>9. CASE type = "rd"
    <3>1. r = l /\ z = region(start, l.start - start, "rd", {}) /\ l.type = "wr"
      BY <1>1, <1>12, <2>9 DEF r, z, part
    <3> QED BY <1>2, <2>7, <2>9, <3>1 DEF DownMoves, d
  <2> QED BY <2>8, <2>9
<1> QED BY <1>7, <1>9, <1>10, <1>11, <1>12

MergeMoves(c, l, type, d) ==
  LET end == c.start + c.len
  IN \* the loop was left
     \/ /\ c.done \/ c.stop
        /\ Moves(c, d, c.start, c.len, {l}, {}, c.done, c.err)
     \/ ~c.done /\ ~c.stop /\ within(c, l) /\ SplitMoves(c, l, type, d)
     \/ /\ ~c.done /\ ~c.stop /\ ~within(c, l) /\ wraps(c, l)
        /\ SwallowMoves(c, l, type, d)
     \/ ~c.done /\ ~c.stop /\ starts_in(c, l) /\ UpMoves(c, l, type, d)
     \/ ~c.done /\ ~c.stop /\ ends_in(c, l) /\ DownMoves(c, l, type, d)
     \* the region is behind the request: the loop is left
     \/ /\ ~c.done /\ ~c.stop /\ c.len # 0 /\ l.len # 0 /\ end < l.start
        /\ d \in Loops
        /\ d.start = c.start /\ d.len = c.len
        /\ d.list = c.list \cup {l} /\ d.woken = c.woken
        /\ d.done = FALSE /\ d.err = FALSE /\ d.stop = TRUE /\ d.abort = c.abort
     \* the region is before the request
     \/ /\ ~c.done /\ ~c.stop /\ l.len # 0 /\ End(l) < c.start
        /\ Moves(c, d, c.start, c.len, {l}, {}, FALSE, FALSE)

LEMMA MergeOne ==
  ASSUME NEW c \in Loops, c.err => c.done, NEW l \in Regions,
         NEW type \in {"rd", "wr"}
  PROVE  MergeMoves(c, l, type, merge_one(c, l, type))
<1> DEFINE start == c.start
           len   == c.len
           end   == start + len
           d     == merge_one(c, l, type)
<1>1. /\ start \in Nat /\ len \in Nat /\ c.done \in BOOLEAN /\ c.err \in BOOLEAN
      /\ c.stop \in BOOLEAN /\ c.abort \in BOOLEAN
      /\ l.start \in Nat /\ l.len \in Nat /\ end \in Nat
      /\ End(l) = l.start + l.len
  BY DEF Loops, Regions, End
<1>2. Moves(c, keep(c, l), start, len, {l}, {}, c.done, c.err)
  BY KeepMoves
<1>3. CASE c.done \/ c.stop
  <2>1. d = keep(c, l)
    BY <1>3 DEF merge_one
  <2> QED BY <1>2, <1>3, <2>1 DEF MergeMoves
<1> DEFINE go == ~c.done /\ ~c.stop
<1>4. CASE go /\ within(c, l)
  <2>1. d = split(c, l, type)
    BY <1>4 DEF merge_one
  <2> QED BY <1>4, <2>1, SplitOne DEF MergeMoves
<1>5. CASE go /\ ~within(c, l) /\ wraps(c, l)
  <2>1. d = swallow(c, l, type)
    BY <1>5 DEF merge_one
  <2> QED BY <1>5, <2>1, SwallowOne DEF MergeMoves
<1>6. CASE go /\ ~within(c, l) /\ ~wraps(c, l) /\ starts_in(c, l)
  <2>1. d = extend_up(c, l, type)
    BY <1>6 DEF merge_one
  <2> QED BY <1>6, <2>1, UpOne DEF MergeMoves
<1>7. CASE go /\ ~within(c, l) /\ ~wraps(c, l) /\ ~starts_in(c, l) /\ ends_in(c, l)
  <2>1. d = extend_down(c, l, type)
    BY <1>7 DEF merge_one
  <2> QED BY <1>7, <2>1, DownOne DEF MergeMoves
<1>8. CASE go /\ ~within(c, l) /\ ~wraps(c, l) /\ ~starts_in(c, l) /\ ~ends_in(c, l)
  <2>1. \/ start < l.start /\ len # 0 /\ end < l.start /\ l.len # 0
        \/ l.len # 0 /\ End(l) < start /\ ~(start < l.start)
    BY <1>1, <1>8 DEF within, wraps, starts_in, ends_in
  <2>2. c.done = FALSE /\ c.err = FALSE
    BY <1>1, <1>8
  <2>3. CASE start < l.start /\ len # 0 /\ end < l.start /\ l.len # 0
    <3> DEFINE k == keep(c, l)
    <3>1. d = [k EXCEPT !.stop = TRUE]
      <4>1. end <= l.start
        BY <1>1, <2>3
      <4> QED BY <1>8, <2>3, <4>1 DEF merge_one
    <3> HIDE DEF k, d
    <3>2. Moves(c, k, start, len, {l}, {}, FALSE, FALSE)
      BY <1>2, <2>2 DEF k
    <3>3. k \in Loops
      BY <3>2 DEF Moves
    <3>4. /\ d \in Loops /\ d.start = k.start /\ d.len = k.len
          /\ d.list = k.list /\ d.woken = k.woken /\ d.done = k.done
          /\ d.err = k.err /\ d.abort = k.abort /\ d.stop = TRUE
      BY <3>1, <3>3 DEF Loops
    <3>5. /\ d.start = start /\ d.len = len /\ d.list = c.list \cup {l}
          /\ d.woken = c.woken /\ d.done = FALSE /\ d.err = FALSE
          /\ d.abort = c.abort
      BY <3>2, <3>4 DEF Moves
    <3> QED BY <1>8, <2>3, <3>4, <3>5 DEF MergeMoves, d
  <2>4. CASE l.len # 0 /\ End(l) < start /\ ~(start < l.start)
    <3>1. d = assert(keep(c, l), start >= End(l) /\ l.len # 0)
      BY <1>8, <2>4 DEF merge_one
    <3>2. start >= End(l)
      BY <1>1, <2>4
    <3>3. d = keep(c, l)
      BY <1>2, <2>4, <3>1, <3>2, AssertMoves DEF Moves
    <3> QED BY <1>2, <1>8, <2>2, <2>4, <3>3 DEF MergeMoves
  <2> QED BY <2>1, <2>3, <2>4
<1> QED BY <1>3, <1>4, <1>5, <1>6, <1>7, <1>8

-----------------------------------------------------------------------------
(* What one turn of either loop does, whatever branch it takes.            *)

(* Byte B is in the range START, LEN. *)
In(b, s, n) == s <= b /\ (n = 0 \/ b < s + n)

(* The bytes of a region that a turn leaves behind are those of the region *)
(* it met or of the request, of the same type.                             *)
Piece(c, l, type, k) ==
  \A b \in 0 .. Eof : In(b, k.start, k.len) =>
    \/ k.type = l.type /\ In(b, l.start, l.len)
    \/ k.type = type /\ In(b, c.start, c.len)

(* So are those of the rest of the request.                                *)
Rest(c, l, type, s, n) ==
  \A b \in 0 .. Eof : In(b, s, n) =>
    \/ type = l.type /\ In(b, l.start, l.len)
    \/ In(b, c.start, c.len)

(* The rest of the request ends where the request ends. *)
SameEnd(c, s, n) == (n = 0 <=> c.len = 0) /\ (n # 0 => s + n = c.start + c.len)

(* The sleepers of the region are woken or have one region to sleep on. *)
Sleepers(l, new, roused) ==
  \/ roused = l.wait /\ \A k \in new : k.wait = {}
  \/ /\ roused = {}
     /\ \E m \in new : /\ m.wait = l.wait /\ m.type \in {l.type, "wr"}
                       /\ \A k \in new : k = m \/ k.wait = {}

(* L does not lie behind a gap that would be closed (see WithGap). *)
NoGap(c, l, type) ==
  type # "un" => ~(l.len = 0 /\ c.len # 0 /\ c.start + c.len < l.start)

Turned(c, l, type, d) ==
  \E new \in SUBSET Regions, roused \in SUBSET Threads :
    /\ d \in Loops /\ d.abort = c.abort /\ (d.err => d.done)
    /\ IsFiniteSet(new)
    /\ d.list = c.list \cup new /\ d.woken = c.woken \cup roused
    /\ Sleepers(l, new, roused)
    /\ SameEnd(c, d.start, d.len)
    /\ NoGap(c, l, type) => /\ \A k \in new : Piece(c, l, type, k)
                            /\ Rest(c, l, type, d.start, d.len)

LEMMA TurnedBy ==
  ASSUME NEW c \in Loops, NEW l \in Regions, NEW type, NEW d, NEW s, NEW n,
         NEW new \in SUBSET Regions, NEW roused \in SUBSET Threads,
         NEW done, NEW err, Moves(c, d, s, n, new, roused, done, err),
         err => done, IsFiniteSet(new), Sleepers(l, new, roused),
         SameEnd(c, s, n),
         NoGap(c, l, type) => /\ \A k \in new : Piece(c, l, type, k)
                              /\ Rest(c, l, type, s, n)
  PROVE  Turned(c, l, type, d)
BY DEF Turned, Moves

LEMMA RegionFields ==
  ASSUME NEW s, NEW n, NEW type, NEW w
  PROVE  /\ region(s, n, type, w).start = s /\ region(s, n, type, w).len = n
         /\ region(s, n, type, w).type = type /\ region(s, n, type, w).wait = w
BY DEF region

LEMMA Finites ==
  /\ IsFiniteSet({})
  /\ \A x : IsFiniteSet({x})
  /\ \A x, y : IsFiniteSet({x, y})
  /\ \A p \in BOOLEAN : \A x : IsFiniteSet(only(p, x))
  /\ \A p \in BOOLEAN : \A x, y : IsFiniteSet(only(p, x) \cup {y})
  /\ \A p \in BOOLEAN : \A x, y, z : IsFiniteSet(only(p, x) \cup {y, z})
<1>1. IsFiniteSet({}) /\ \A x : IsFiniteSet({x})
  BY FS_EmptySet, FS_Singleton
<1>2. ASSUME NEW x, NEW y PROVE IsFiniteSet({x, y})
  <2>1. {x, y} = {x} \cup {y}
    OBVIOUS
  <2>2. IsFiniteSet({x}) /\ IsFiniteSet({y})
    BY <1>1
  <2>3. IsFiniteSet({x} \cup {y})
    BY <2>2, FS_Union
  <2> QED BY <2>1, <2>3
<1>3. ASSUME NEW p \in BOOLEAN, NEW x PROVE IsFiniteSet(only(p, x))
  BY <1>1 DEF only
<1> QED BY <1>1, <1>2, <1>3, FS_Union

(* A region that is kept as it is. *)
LEMMA TurnedKeep ==
  ASSUME NEW c \in Loops, NEW l \in Regions, NEW type, NEW d,
         NEW done, NEW err, Moves(c, d, c.start, c.len, {l}, {}, done, err),
         err => done
  PROVE  Turned(c, l, type, d)
<1>1. IsFiniteSet({l}) /\ {l} \in SUBSET Regions
  BY Finites
<1>2. Sleepers(l, {l}, {})
  BY DEF Sleepers
<1>3. SameEnd(c, c.start, c.len)
  BY DEF SameEnd
<1>4. Piece(c, l, type, l) /\ Rest(c, l, type, c.start, c.len)
  BY DEF Piece, Rest
<1>5. {} \in SUBSET Threads
  OBVIOUS
<1> HIDE DEF Moves, Piece, Rest, SameEnd, Sleepers
<1>6. \A k \in {l} : Piece(c, l, type, k)
  BY <1>4
<1> QED BY <1>1, <1>2, <1>3, <1>4, <1>5, <1>6, TurnedBy

LEMMA UnlockTurned ==
  ASSUME NEW c \in Loops, c.err => c.done, NEW l \in Regions, NEW d,
         UnlockMoves(c, l, d)
  PROVE  Turned(c, l, "un", d)
<1> DEFINE start == c.start
           len   == c.len
           end   == start + len
           rest  == IF l.len = 0 THEN 0 ELSE End(l) - end
           x == region(end, rest, l.type, {})
           y == region(l.start, start - l.start, l.type, {})
           z == region(l.start, start - l.start, l.type, l.wait)
<1>1. /\ start \in Nat /\ len \in Nat /\ c.err \in BOOLEAN /\ c.done \in BOOLEAN
      /\ l.start \in Nat /\ l.len \in Nat /\ l.type \in {"rd", "wr"}
      /\ l.wait \in SUBSET Threads /\ end \in Nat /\ End(l) = l.start + l.len
  BY DEF Loops, Regions, End
<1>2. SameEnd(c, start, len) /\ Rest(c, l, "un", start, len)
  BY DEF SameEnd, Rest
<1>3. CASE \E done, err \in BOOLEAN :
             /\ err => done
             /\ Moves(c, d, start, len, {l}, {}, done, err)
  BY <1>3, TurnedKeep
<1>4. CASE Moves(c, d, start, len, {}, l.wait, FALSE, c.err) /\ ~c.err
  <2>1. Sleepers(l, {}, l.wait) /\ IsFiniteSet({})
    BY Finites DEF Sleepers
  <2> QED BY <1>1, <1>2, <1>4, <2>1, TurnedBy
<1>5. CASE /\ len # 0 /\ start <= l.start /\ l.start < end
           /\ l.len = 0 \/ end < End(l)
           /\ Moves(c, d, start, len, {x}, l.wait, FALSE, c.err) /\ ~c.err
  <2>1. rest \in Nat /\ x \in Regions
    BY <1>1, <1>5, RegionTyped
  <2>2. x.start = end /\ x.len = rest /\ x.type = l.type /\ x.wait = {}
    BY RegionFields
  <2>3. Piece(c, l, "un", x)
    BY <1>1, <1>5, <2>2 DEF Piece, In
  <2> HIDE DEF x
  <2>4. Sleepers(l, {x}, l.wait) /\ IsFiniteSet({x})
    BY <2>2, Finites DEF Sleepers
  <2>5. \A k \in {x} : Piece(c, l, "un", k)
    BY <2>3
  <2> QED BY <1>1, <1>2, <1>5, <2>1, <2>4, <2>5, TurnedBy
<1>6. CASE /\ l.start < start /\ (l.len # 0 => start < End(l))
           /\ Moves(c, d, start, len, {y}, l.wait, FALSE, c.err) /\ ~c.err
  <2>1. start - l.start \in Nat /\ y \in Regions
    BY <1>1, <1>6, RegionTyped
  <2>2. /\ y.start = l.start /\ y.len = start - l.start /\ y.type = l.type
        /\ y.wait = {}
    BY RegionFields
  <2>3. Piece(c, l, "un", y)
    BY <1>1, <1>6, <2>2 DEF Piece, In
  <2> HIDE DEF y
  <2>4. Sleepers(l, {y}, l.wait) /\ IsFiniteSet({y})
    BY <2>2, Finites DEF Sleepers
  <2>5. \A k \in {y} : Piece(c, l, "un", k)
    BY <2>3
  <2> QED BY <1>1, <1>2, <1>6, <2>1, <2>4, <2>5, TurnedBy
<1>7. CASE /\ len # 0 /\ l.start < start /\ (l.len = 0 \/ end < End(l))
           /\ Moves(c, d, start, len, {z, x}, {}, TRUE, c.err) /\ ~c.err
  <2>1. /\ start - l.start \in Nat /\ rest \in Nat
        /\ x \in Regions /\ z \in Regions
    BY <1>1, <1>7, RegionTyped
  <2>2. /\ x.start = end /\ x.len = rest /\ x.type = l.type /\ x.wait = {}
        /\ z.start = l.start /\ z.len = start - l.start /\ z.type = l.type
        /\ z.wait = l.wait
    BY RegionFields
  <2>3. Piece(c, l, "un", x) /\ Piece(c, l, "un", z)
    <3>1. Piece(c, l, "un", x)
      BY <1>1, <1>7, <2>2 DEF Piece, In
    <3>2. Piece(c, l, "un", z)
      BY <1>1, <1>7, <2>2 DEF Piece, In
    <3> QED BY <3>1, <3>2
  <2> HIDE DEF x, z
  <2>4. Sleepers(l, {z, x}, {}) /\ IsFiniteSet({z, x})
    BY <2>2, Finites DEF Sleepers
  <2>5. \A k \in {z, x} : Piece(c, l, "un", k)
    BY <2>3
  <2> QED BY <1>1, <1>2, <1>7, <2>1, <2>4, <2>5, TurnedBy
<1> HIDE DEF Moves
<1> QED BY <1>1, <1>3, <1>4, <1>5, <1>6, <1>7 DEF UnlockMoves

LEMMA SplitTurned ==
  ASSUME NEW c \in Loops, NEW l \in Regions, NEW d, NEW type \in {"rd", "wr"},
         within(c, l), SplitMoves(c, l, type, d)
  PROVE  Turned(c, l, type, d)
<1> DEFINE start == c.start
           len   == c.len
           end   == start + len
           rest  == IF l.len = 0 THEN 0 ELSE End(l) - end
           before == l.start < start
           x == region(l.start, start - l.start, "rd", {})
           y == region(end, rest, "rd", {})
           z == region(start, len, "wr", l.wait)
           head == only(before, x)
<1>1. /\ start \in Nat /\ len \in Nat /\ before \in BOOLEAN
      /\ l.start \in Nat /\ l.len \in Nat /\ l.type \in {"rd", "wr"}
      /\ l.wait \in SUBSET Threads /\ end \in Nat /\ End(l) = l.start + l.len
  BY DEF Loops, Regions, End
<1>2. SameEnd(c, start, len) /\ Rest(c, l, type, start, len)
  BY DEF SameEnd, Rest
<1>3. /\ l.start <= start
      /\ l.len = 0 \/ (len # 0 /\ end <= End(l))
  BY DEF within
<1>4. /\ x.start = l.start /\ x.len = start - l.start /\ x.type = "rd"
      /\ x.wait = {}
      /\ y.start = end /\ y.len = rest /\ y.type = "rd" /\ y.wait = {}
      /\ z.start = start /\ z.len = len /\ z.type = "wr" /\ z.wait = l.wait
  BY RegionFields
<1>5. l.type = "rd" => \A k \in head : k.wait = {} /\ Piece(c, l, type, k)
  BY <1>1, <1>3, <1>4 DEF only, Piece, In
<1>6. head \in SUBSET Regions /\ IsFiniteSet(head)
  <2>1. before => x \in Regions
    <3>1. before => start - l.start \in Nat
      BY <1>1
    <3>2. {} \in SUBSET Threads
      OBVIOUS
    <3> QED BY <1>1, <3>1, <3>2, RegionTyped
  <2> HIDE DEF x, before
  <2> QED BY <1>1, <2>1, Finites DEF only
<1>7. CASE \E done, err \in BOOLEAN :
             /\ err => done
             /\ Moves(c, d, start, len, {l}, {}, done, err)
  BY <1>7, TurnedKeep
<1>8. CASE /\ type = "wr" /\ l.type = "rd" /\ len # 0
           /\ l.len = 0 \/ end < End(l)
           /\ Moves(c, d, start, len, head \cup {y, z}, {}, TRUE, FALSE)
  <2>1. rest \in Nat /\ y \in Regions /\ z \in Regions
    BY <1>1, <1>8, RegionTyped
  <2>2. Piece(c, l, type, y)
    BY <1>1, <1>3, <1>4, <1>8 DEF Piece, In
  <2>3. Piece(c, l, type, z)
    BY <1>1, <1>4, <1>8 DEF Piece, In
  <2>4. IsFiniteSet(head \cup {y, z})
    <3> HIDE DEF y, z, x, before
    <3> QED BY <1>1, Finites
  <2> HIDE DEF y, z, head
  <2>5. Sleepers(l, head \cup {y, z}, {})
    BY <1>4, <1>5, <1>8 DEF Sleepers
  <2>6. \A k \in head \cup {y, z} : Piece(c, l, type, k)
    BY <1>5, <1>8, <2>2, <2>3
  <2>7. head \cup {y, z} \in SUBSET Regions
    BY <1>6, <2>1
  <2> QED BY <1>2, <1>8, <2>4, <2>5, <2>6, <2>7, TurnedBy
<1>9. CASE /\ type = "wr" /\ l.type = "rd"
           /\ Moves(c, d, start, len, head, l.wait, FALSE, FALSE)
  <2> HIDE DEF head
  <2>1. Sleepers(l, head, l.wait)
    BY <1>5, <1>9 DEF Sleepers
  <2> QED BY <1>1, <1>2, <1>5, <1>6, <1>9, <2>1, TurnedBy
<1> HIDE DEF Moves
<1> QED BY <1>7, <1>8, <1>9 DEF SplitMoves

LEMMA SwallowTurned ==
  ASSUME NEW c \in Loops, NEW l \in Regions, NEW d, NEW type \in {"rd", "wr"},
         wraps(c, l), SwallowMoves(c, l, type, d)
  PROVE  Turned(c, l, type, d)
<1> DEFINE start == c.start
           len   == c.len
           end   == start + len
           rest  == IF len = 0 THEN 0 ELSE end - End(l)
           before == start < l.start
           x == region(start, l.start - start, "rd", {})
           head == only(before, x)
<1>1. /\ start \in Nat /\ len \in Nat /\ before \in BOOLEAN
      /\ l.start \in Nat /\ l.len \in Nat /\ l.type \in {"rd", "wr"}
      /\ l.wait \in SUBSET Threads /\ end \in Nat /\ End(l) = l.start + l.len
  BY DEF Loops, Regions, End
<1>2. SameEnd(c, start, len) /\ Rest(c, l, type, start, len)
  BY DEF SameEnd, Rest
<1>3. /\ start <= l.start
      /\ len = 0 \/ (l.len # 0 /\ End(l) <= end)
  BY DEF wraps
<1>4. /\ x.start = start /\ x.len = l.start - start /\ x.type = "rd"
      /\ x.wait = {}
  BY RegionFields
<1>5. type = "rd" => \A k \in head : k.wait = {} /\ Piece(c, l, type, k)
  BY <1>1, <1>3, <1>4 DEF only, Piece, In
<1>6. head \in SUBSET Regions /\ IsFiniteSet(head \cup {l})
  <2>1. before => x \in Regions
    <3>1. before => l.start - start \in Nat
      BY <1>1
    <3> QED BY <1>1, <3>1, RegionTyped
  <2> HIDE DEF x, before
  <2> QED BY <1>1, <2>1, Finites DEF only
<1>7. CASE \E done, err \in BOOLEAN :
             /\ err => done
             /\ Moves(c, d, start, len, {l}, {}, done, err)
  BY <1>7, TurnedKeep
<1>8. CASE Moves(c, d, start, len, {}, l.wait, FALSE, FALSE)
  <2>1. Sleepers(l, {}, l.wait) /\ IsFiniteSet({})
    BY Finites DEF Sleepers
  <2> QED BY <1>1, <1>2, <1>8, <2>1, TurnedBy
<1>9. ASSUME NEW s, NEW n, NEW done \in BOOLEAN, type = "rd",
             SameEnd(c, s, n), Rest(c, l, type, s, n),
             Moves(c, d, s, n, head \cup {l}, {}, done, FALSE)
      PROVE  Turned(c, l, type, d)
  <2>1. Piece(c, l, type, l)
    BY DEF Piece
  <2> HIDE DEF head
  <2>2. Sleepers(l, head \cup {l}, {})
    BY <1>5, <1>9 DEF Sleepers
  <2>3. \A k \in head \cup {l} : Piece(c, l, type, k)
    BY <1>5, <1>9, <2>1
  <2>4. head \cup {l} \in SUBSET Regions
    BY <1>6
  <2> QED BY <1>6, <1>9, <2>2, <2>3, <2>4, TurnedBy
<1>10. CASE /\ type = "rd" /\ l.len # 0
            /\ len = 0 \/ End(l) < end
            /\ Moves(c, d, End(l), rest, head \cup {l}, {}, FALSE, FALSE)
  <2>1. SameEnd(c, End(l), rest)
    BY <1>1, <1>10 DEF SameEnd
  <2>2. Rest(c, l, type, End(l), rest)
    BY <1>1, <1>3, <1>10 DEF Rest, In
  <2> QED BY <1>9, <1>10, <2>1, <2>2
<1>11. CASE /\ type = "rd" /\ before
            /\ Moves(c, d, start, len, {x, l}, {}, TRUE, FALSE)
  <2>1. head \cup {l} = {x, l}
    BY <1>11 DEF only
  <2> QED BY <1>2, <1>9, <1>11, <2>1
<1> HIDE DEF Moves
<1> QED BY <1>7, <1>8, <1>10, <1>11 DEF SwallowMoves

LEMMA UpTurned ==
  ASSUME NEW c \in Loops, NEW l \in Regions, NEW d, NEW type \in {"rd", "wr"},
         starts_in(c, l), UpMoves(c, l, type, d)
  PROVE  Turned(c, l, type, d)
<1> DEFINE start == c.start
           len   == c.len
           end   == start + len
           low   == IF len = 0 THEN 0 ELSE end - l.start
           rest  == IF len = 0 THEN 0 ELSE end - End(l)
           x     == region(l.start, start - l.start, "rd", l.wait)
<1>1. /\ start \in Nat /\ len \in Nat
      /\ l.start \in Nat /\ l.len \in Nat /\ l.type \in {"rd", "wr"}
      /\ l.wait \in SUBSET Threads /\ end \in Nat /\ End(l) = l.start + l.len
  BY DEF Loops, Regions, End
<1>2. /\ l.start < start /\ start <= End(l) /\ l.len # 0
      /\ len = 0 \/ end > End(l)
  BY <1>1 DEF starts_in
<1>3. CASE Moves(c, d, start, len, {l}, {}, FALSE, FALSE)
  BY <1>3, TurnedKeep
<1>4. CASE type = l.type /\ Moves(c, d, l.start, low, {}, l.wait, FALSE, FALSE)
  <2>1. SameEnd(c, l.start, low)
    BY <1>1, <1>2 DEF SameEnd
  <2>2. Rest(c, l, type, l.start, low)
    BY <1>1, <1>2, <1>4 DEF Rest, In
  <2>3. Sleepers(l, {}, l.wait) /\ IsFiniteSet({})
    BY Finites DEF Sleepers
  <2> QED BY <1>1, <1>4, <2>1, <2>2, <2>3, TurnedBy
<1>5. CASE l.type = "rd" /\ Moves(c, d, start, len, {x}, {}, FALSE, FALSE)
  <2>1. start - l.start \in Nat
    BY <1>1, <1>2
  <2>2. x \in Regions
    BY <1>1, <2>1, RegionTyped
  <2>3. /\ x.start = l.start /\ x.len = start - l.start /\ x.type = l.type
        /\ x.wait = l.wait
    BY <1>5, RegionFields
  <2>4. Piece(c, l, type, x)
    BY <1>1, <1>2, <2>3 DEF Piece, In
  <2> HIDE DEF x
  <2>5. Sleepers(l, {x}, {}) /\ IsFiniteSet({x})
    BY <2>3, Finites DEF Sleepers
  <2>6. \A k \in {x} : Piece(c, l, type, k)
    BY <2>4
  <2>7. SameEnd(c, start, len) /\ Rest(c, l, type, start, len)
    BY DEF SameEnd, Rest
  <2>8. {x} \in SUBSET Regions /\ {} \in SUBSET Threads
    BY <2>2
  <2> QED BY <1>5, <2>5, <2>6, <2>7, <2>8, TurnedBy
<1>6. CASE Moves(c, d, End(l), rest, {l}, {}, FALSE, FALSE)
  <2>1. SameEnd(c, End(l), rest)
    BY <1>1, <1>2 DEF SameEnd
  <2>2. Rest(c, l, type, End(l), rest)
    BY <1>1, <1>2 DEF Rest, In
  <2>3. Sleepers(l, {l}, {}) /\ IsFiniteSet({l})
    BY Finites DEF Sleepers
  <2>4. \A k \in {l} : Piece(c, l, type, k)
    BY DEF Piece
  <2>5. {l} \in SUBSET Regions /\ {} \in SUBSET Threads
    OBVIOUS
  <2> QED BY <1>6, <2>1, <2>2, <2>3, <2>4, <2>5, TurnedBy
<1> HIDE DEF Moves
<1> QED BY <1>3, <1>4, <1>5, <1>6 DEF UpMoves

LEMMA DownTurned ==
  ASSUME NEW c \in Loops, NEW l \in Regions, NEW d, NEW type \in {"rd", "wr"},
         ends_in(c, l), DownMoves(c, l, type, d)
  PROVE  Turned(c, l, type, d)
<1> DEFINE start == c.start
           len   == c.len
           end   == start + len
           up    == IF l.len = 0 THEN 0 ELSE End(l) - start
           rest  == IF l.len = 0 THEN 0 ELSE End(l) - end
           v     == region(start, up, type, l.wait)
           x     == region(start, len, "wr", {})
           y     == region(end, rest, "rd", l.wait)
           z     == region(start, l.start - start, "rd", {})
<1>1. /\ start \in Nat /\ len \in Nat
      /\ l.start \in Nat /\ l.len \in Nat /\ l.type \in {"rd", "wr"}
      /\ l.wait \in SUBSET Threads /\ end \in Nat /\ End(l) = l.start + l.len
  BY DEF Loops, Regions, End
<1>2. /\ start < l.start /\ len # 0 /\ (l.len = 0 \/ end < End(l))
      /\ l.len # 0 => l.start <= end
  BY DEF ends_in, DownMoves
<1>3. NoGap(c, l, type) => l.start <= end
  BY <1>1, <1>2 DEF NoGap
<1>4. up \in Nat /\ rest \in Nat /\ l.start - start \in Nat
  BY <1>1, <1>2
<1>5. v \in Regions /\ x \in Regions /\ y \in Regions /\ z \in Regions
  BY <1>1, <1>4, RegionTyped
<1>6. /\ v.start = start /\ v.len = up /\ v.type = type /\ v.wait = l.wait
      /\ x.start = start /\ x.len = len /\ x.type = "wr" /\ x.wait = {}
      /\ y.start = end /\ y.len = rest /\ y.type = "rd" /\ y.wait = l.wait
      /\ z.start = start /\ z.len = l.start - start /\ z.type = "rd"
      /\ z.wait = {}
  BY RegionFields
<1>7. SameEnd(c, start, len) /\ Rest(c, l, type, start, len)
  BY DEF SameEnd, Rest
<1>8. CASE \E done, err \in BOOLEAN :
             /\ err => done
             /\ Moves(c, d, start, len, {l}, {}, done, err)
  BY <1>8, TurnedKeep
<1>9. CASE type = l.type /\ Moves(c, d, start, len, {v}, {}, TRUE, FALSE)
  <2>1. NoGap(c, l, type) => Piece(c, l, type, v)
    BY <1>1, <1>2, <1>3, <1>6, <1>9 DEF Piece, In
  <2> HIDE DEF v
  <2>2. Sleepers(l, {v}, {}) /\ IsFiniteSet({v})
    BY <1>6, <1>9, Finites DEF Sleepers
  <2>3. NoGap(c, l, type) => \A k \in {v} : Piece(c, l, type, k)
    BY <2>1
  <2>4. {v} \in SUBSET Regions /\ {} \in SUBSET Threads
    BY <1>5
  <2> QED BY <1>7, <1>9, <2>2, <2>3, <2>4, TurnedBy
<1>10. CASE /\ type = "wr" /\ l.type = "rd"
            /\ Moves(c, d, start, len, {x, y}, {}, TRUE, FALSE)
  <2>1. NoGap(c, l, type) => Piece(c, l, type, x) /\ Piece(c, l, type, y)
    <3>1. Piece(c, l, type, x)
      BY <1>1, <1>6, <1>10 DEF Piece, In
    <3>2. NoGap(c, l, type) => Piece(c, l, type, y)
      BY <1>1, <1>2, <1>3, <1>6, <1>10 DEF Piece, In
    <3> QED BY <3>1, <3>2
  <2> HIDE DEF x, y
  <2>2. Sleepers(l, {x, y}, {}) /\ IsFiniteSet({x, y})
    BY <1>6, <1>10, Finites DEF Sleepers
  <2>3. NoGap(c, l, type) => \A k \in {x, y} : Piece(c, l, type, k)
    BY <2>1
  <2>4. {x, y} \in SUBSET Regions /\ {} \in SUBSET Threads
    BY <1>5
  <2> QED BY <1>7, <1>10, <2>2, <2>3, <2>4, TurnedBy
<1>11. CASE /\ type = "rd"
            /\ Moves(c, d, start, len, {z, l}, {}, TRUE, FALSE)
  <2>1. NoGap(c, l, type) => Piece(c, l, type, z) /\ Piece(c, l, type, l)
    BY <1>1, <1>2, <1>3, <1>6, <1>11 DEF Piece, In
  <2> HIDE DEF z
  <2>2. Sleepers(l, {z, l}, {}) /\ IsFiniteSet({z, l})
    BY <1>6, Finites DEF Sleepers
  <2>3. NoGap(c, l, type) => \A k \in {z, l} : Piece(c, l, type, k)
    BY <2>1
  <2>4. {z, l} \in SUBSET Regions /\ {} \in SUBSET Threads
    BY <1>5
  <2> QED BY <1>7, <1>11, <2>2, <2>3, <2>4, TurnedBy
<1> HIDE DEF Moves
<1> QED BY <1>8, <1>9, <1>10, <1>11 DEF DownMoves

LEMMA TurnTurned ==
  ASSUME NEW c \in Loops, c.err => c.done, NEW l \in Regions,
         NEW type \in {"un", "rd", "wr"}
  PROVE  Turned(c, l, type, turn(c, l, type))
<1> DEFINE d == turn(c, l, type)
<1>1. CASE type = "un"
  BY <1>1, UnlockOne, UnlockTurned DEF turn
<1>2. CASE type \in {"rd", "wr"}
  <2>1. d = merge_one(c, l, type)
    BY <1>2 DEF turn
  <2>2. MergeMoves(c, l, type, d)
    BY <1>2, <2>1, MergeOne
  <2> HIDE DEF d
  <2>3. CASE \E done, err \in BOOLEAN :
               /\ err => done
               /\ Moves(c, d, c.start, c.len, {l}, {}, done, err)
    BY <2>3, TurnedKeep DEF d
  <2>4. CASE /\ d \in Loops
             /\ d.start = c.start /\ d.len = c.len
             /\ d.list = c.list \cup {l} /\ d.woken = c.woken
             /\ d.done = FALSE /\ d.err = FALSE /\ d.abort = c.abort
    <3>1. {l} \in SUBSET Regions /\ {} \in SUBSET Threads /\ IsFiniteSet({l})
      BY Finites
    <3>2. d.woken = c.woken \cup {}
      BY <2>4
    <3>3. Sleepers(l, {l}, {}) /\ SameEnd(c, d.start, d.len)
      BY <2>4 DEF Sleepers, SameEnd
    <3>4. \A k \in {l} : Piece(c, l, type, k)
      BY DEF Piece
    <3>5. Rest(c, l, type, d.start, d.len)
      BY <2>4 DEF Rest
    <3>6. Turned(c, l, type, d)
      BY <2>4, <3>1, <3>2, <3>3, <3>4, <3>5 DEF Turned
    <3> QED BY <3>6 DEF d
  <2>5. c.done \in BOOLEAN /\ c.err \in BOOLEAN
    BY DEF Loops
  <2>6. QED
    <3>1. CASE within(c, l) /\ SplitMoves(c, l, type, d)
      BY <1>2, <3>1, SplitTurned DEF d
    <3>2. CASE wraps(c, l) /\ SwallowMoves(c, l, type, d)
      BY <1>2, <3>2, SwallowTurned DEF d
    <3>3. CASE starts_in(c, l) /\ UpMoves(c, l, type, d)
      BY <1>2, <3>3, UpTurned DEF d
    <3>4. CASE ends_in(c, l) /\ DownMoves(c, l, type, d)
      BY <1>2, <3>4, DownTurned DEF d
    <3> QED BY <2>2, <2>3, <2>4, <2>5, <3>1, <3>2, <3>3, <3>4 DEF MergeMoves, d
<1> QED BY <1>1, <1>2

-----------------------------------------------------------------------------
(* The loops as recursive functions.                                       *)

(* Every set of natural numbers has a least element. *)
LEMMA LeastNumber ==
  ASSUME NEW T, T \subseteq Nat, T # {}
  PROVE  \E m \in T : \A k \in T : m <= k
<1> DEFINE R == OpToRel(<, Nat)
<1>1. IsWellFoundedOn(R, Nat)
  BY NatLessThanWellFounded
<1>2. \A x, y \in Nat : x < y => <<x, y>> \in R
  BY DEF OpToRel
<1> HIDE DEF R
<1>3. PICK m \in T : \A y \in T : ~ (<<y, m>> \in R)
  BY <1>1, WFMin
<1>4. ASSUME NEW k \in T PROVE m <= k
  <2>1. m \in Nat /\ k \in Nat
    OBVIOUS
  <2>2. ~(k < m)
    BY <1>2, <1>3, <2>1
  <2> QED BY <2>1, <2>2
<1> QED BY <1>4

(* A list that is not empty has a last region. *)
LEMMA LastRegion ==
  ASSUME NEW ls \in SUBSET Regions, IsFiniteSet(ls), ls # {}
  PROVE  last(ls) \in ls /\ \A k \in ls : k.start <= last(ls).start
<1> DEFINE Has(T) == \E l \in T : \A k \in T : k.start <= l.start
           Bad == {n \in Nat : \E T \in SUBSET Regions :
                     IsFiniteSet(T) /\ T # {} /\ Cardinality(T) = n /\ ~Has(T)}
<1>1. Bad = {}
  <2> SUFFICES ASSUME Bad # {} PROVE FALSE
    OBVIOUS
  <2>1. PICK m \in Bad : \A k \in Bad : m <= k
    BY LeastNumber
  <2>2. PICK T \in SUBSET Regions :
          IsFiniteSet(T) /\ T # {} /\ Cardinality(T) = m /\ ~Has(T)
    BY <2>1
  <2>3. PICK x : x \in T
    BY <2>2
  <2> DEFINE U == T \ {x}
  <2>4. IsFiniteSet(U) /\ Cardinality(U) = m - 1 /\ Cardinality(U) \in Nat
        /\ U \in SUBSET Regions
    BY <2>2, <2>3, FS_RemoveElement, FS_CardinalityType
  <2>5. m \in Nat /\ \A k \in T : k.start \in Nat
    BY DEF Regions
  <2>6. CASE U = {}
    <3>1. \A k \in T : k.start <= x.start
      BY <2>3, <2>5, <2>6
    <3> QED BY <2>2, <2>3, <3>1
  <2>7. CASE U # {}
    <3>1. m - 1 \notin Bad
      BY <2>1, <2>4, <2>5
    <3>2. Has(U)
      BY <2>4, <2>7, <3>1
    <3>3. PICK y \in U : \A k \in U : k.start <= y.start
      BY <3>2
    <3>4. CASE x.start <= y.start
      BY <2>2, <2>3, <2>5, <3>3, <3>4
    <3>5. CASE ~(x.start <= y.start)
      <4>1. \A k \in T : k.start <= x.start
        BY <2>3, <2>5, <3>3, <3>5
      <4> QED BY <2>2, <2>3, <4>1
    <3> QED BY <3>4, <3>5
  <2> QED BY <2>6, <2>7
<1>2. Has(ls)
  BY <1>1, FS_CardinalityType
<1> QED BY <1>2 DEF last

Unrolled(g, D, c, type) ==
  g = [ls \in D |-> IF ls = {} THEN c
                    ELSE turn(g[ls \ {last(ls)}], last(ls), type)]

(* The function that the fold chooses exists. *)
LEMMA LoopUnrolls ==
  ASSUME NEW S \in SUBSET Regions, IsFiniteSet(S), NEW c, NEW type
  PROVE  \E g : Unrolled(g, SUBSET S, c, type)
<1> DEFINE Level(n) == {ls \in SUBSET S : Cardinality(ls) <= n}
           Bad == {n \in Nat : ~ \E g : Unrolled(g, Level(n), c, type)}
<1>1. \A ls \in SUBSET S : /\ IsFiniteSet(ls) /\ Cardinality(ls) \in Nat
                           /\ Cardinality(ls) <= Cardinality(S)
                           /\ Cardinality(ls) = 0 <=> ls = {}
  BY FS_Subset, FS_CardinalityType, FS_EmptySet
<1>2. \A ls \in SUBSET S : ls # {} =>
        /\ last(ls) \in ls /\ ls \ {last(ls)} \in SUBSET S
        /\ Cardinality(ls \ {last(ls)}) = Cardinality(ls) - 1
  BY <1>1, LastRegion, FS_RemoveElement
<1>3. Bad = {}
  <2> SUFFICES ASSUME Bad # {} PROVE FALSE
    OBVIOUS
  <2>1. PICK m \in Bad : \A k \in Bad : m <= k
    BY LeastNumber
  <2>2. m \in Nat /\ ~ \E g : Unrolled(g, Level(m), c, type)
    BY <2>1
  <2>3. CASE m = 0
    <3>1. \A ls \in Level(m) : ls = {}
      BY <1>1, <2>3
    <3> DEFINE g == [ls \in Level(m) |-> c]
    <3>2. Unrolled(g, Level(m), c, type)
      BY <3>1 DEF Unrolled
    <3> QED BY <2>2, <3>2
  <2>4. CASE m # 0
    <3>0. m - 1 \in Nat
      BY <2>2, <2>4
    <3>1. m - 1 \in Nat /\ m - 1 \notin Bad
      <4> HIDE DEF Bad
      <4> QED BY <2>1, <2>2, <3>0
    <3>2. PICK g : Unrolled(g, Level(m - 1), c, type)
      BY <3>1
    <3> DEFINE f(ls) == IF ls = {} THEN c
                        ELSE turn(g[ls \ {last(ls)}], last(ls), type)
               h == [ls \in Level(m) |-> f(ls)]
    <3>3. \A ls \in Level(m - 1) : g[ls] = f(ls)
      BY <3>2 DEF Unrolled
    <3>4. \A ls \in Level(m) : ls # {} => ls \ {last(ls)} \in Level(m - 1)
      BY <1>1, <1>2, <2>2
    <3>5. \A ls \in Level(m - 1) : ls \in Level(m)
      BY <1>1, <2>2
    <3> HIDE DEF f, Level
    <3>6. \A ls \in Level(m - 1) : h[ls] = g[ls]
      BY <3>3, <3>5
    <3>7. \A ls \in Level(m) :
            h[ls] = IF ls = {} THEN c ELSE turn(h[ls \ {last(ls)}], last(ls), type)
      BY <3>4, <3>6 DEF f
    <3>8. Unrolled(h, Level(m), c, type)
      BY <3>7 DEF Unrolled
    <3> QED BY <2>2, <3>8
  <2> QED BY <2>3, <2>4
<1>4. Cardinality(S) \in Nat
  BY FS_CardinalityType
<1>5. Level(Cardinality(S)) = SUBSET S
  BY <1>1
<1>6. \E g : Unrolled(g, Level(Cardinality(S)), c, type)
  BY <1>3, <1>4
<1> QED BY <1>5, <1>6

Unroll(S, c, type) == CHOOSE g : Unrolled(g, SUBSET S, c, type)

(* The loop over a list: its result is that of the last turn. *)
LEMMA EachRegion ==
  ASSUME NEW o \in Owners, NEW c, NEW type,
         locks[o] \in SUBSET Regions, IsFiniteSet(locks[o])
  PROVE  /\ Unrolled(Unroll(locks[o], c, type), SUBSET locks[o], c, type)
         /\ each_region(o, c, type) = Unroll(locks[o], c, type)[locks[o]]
<1> DEFINE S == locks[o]
           h == Unroll(S, c, type)
<1>1. Unrolled(h, SUBSET S, c, type)
  BY LoopUnrolls DEF Unroll
<1>2. each_region(o, c, type) = h[S]
  BY DEF each_region, MapThenFoldSet, Unrolled, Unroll
<1> QED BY <1>1, <1>2

(* Induction over the regions of a list, from its first to its last. *)
LEMMA ListInduction ==
  ASSUME NEW S \in SUBSET Regions, IsFiniteSet(S), NEW G, {} \in G,
         \A ls \in SUBSET S : ls # {} /\ ls \ {last(ls)} \in G => ls \in G
  PROVE  S \in G
<1> DEFINE Bad == {n \in Nat : \E ls \in SUBSET S :
                     Cardinality(ls) = n /\ ls \notin G}
<1>1. \A ls \in SUBSET S : IsFiniteSet(ls) /\ Cardinality(ls) \in Nat
  BY FS_Subset, FS_CardinalityType
<1>2. Bad = {}
  <2> SUFFICES ASSUME Bad # {} PROVE FALSE
    OBVIOUS
  <2>1. PICK m \in Bad : \A k \in Bad : m <= k
    BY LeastNumber
  <2>2. PICK ls \in SUBSET S : Cardinality(ls) = m /\ ls \notin G
    BY <2>1
  <2>3. ls # {} /\ IsFiniteSet(ls) /\ ls \in SUBSET Regions
    BY <1>1, <2>2
  <2>4. last(ls) \in ls
    BY <2>3, LastRegion
  <2>5. /\ ls \ {last(ls)} \in SUBSET S
        /\ Cardinality(ls \ {last(ls)}) = m - 1
        /\ Cardinality(ls \ {last(ls)}) \in Nat
    BY <1>1, <2>2, <2>3, <2>4, FS_RemoveElement
  <2>6. ls \ {last(ls)} \notin G
    BY <2>2, <2>3
  <2>7. m - 1 \in Bad
    BY <2>5, <2>6
  <2> QED BY <2>1, <2>5, <2>7
<1> QED BY <1>1, <1>2

-----------------------------------------------------------------------------
(* What a loop has done when it is past the regions LS: C is its state at  *)
(* the beginning, D the one it has reached.                                *)

(* A thread waits for one region only. *)
OneWait(ls) == \A k, l \in ls : k.wait \cap l.wait # {} => k = l

(* The sleepers of the regions are woken or sleep on what has become of    *)
(* one of them.                                                            *)
Waiting(ls, d) ==
  /\ \A l \in ls : \A t \in l.wait :
       \/ t \in d.woken
       \/ \E k \in d.list : t \in k.wait /\ k.type \in {l.type, "wr"}
  /\ \A t \in d.woken : \E l \in ls : t \in l.wait
  /\ \A k \in d.list : \A t \in k.wait : \E l \in ls : t \in l.wait
  /\ OneWait(ls) => /\ OneWait(d.list)
                    /\ \A k \in d.list : k.wait \cap d.woken = {}

(* No byte of the regions D.LIST, or of the rest of the request, is new,   *)
(* except the bytes of the request.                                        *)
Covered(c, ls, type, d) ==
  /\ \A k \in d.list : \A b \in 0 .. Eof : In(b, k.start, k.len) =>
       \/ \E l \in ls : l.type = k.type /\ In(b, l.start, l.len)
       \/ k.type = type /\ In(b, c.start, c.len)
  /\ \A b \in 0 .. Eof : In(b, d.start, d.len) =>
       \/ \E l \in ls : l.type = type /\ In(b, l.start, l.len)
       \/ In(b, c.start, c.len)

Looped(c, ls, type, d) ==
  /\ d \in Loops /\ d.abort = c.abort /\ (d.err => d.done)
  /\ IsFiniteSet(d.list)
  /\ Waiting(ls, d)
  /\ SameEnd(c, d.start, d.len)
  /\ (\A l \in ls : NoGap(c, l, type)) => Covered(c, ls, type, d)

LEMMA WaitingTurn ==
  ASSUME NEW ls \in SUBSET Regions, NEW l \in ls, NEW c \in Loops,
         Waiting(ls \ {l}, c), NEW d \in Loops, NEW new \in SUBSET Regions,
         NEW roused \in SUBSET Threads, Sleepers(l, new, roused),
         d.list = c.list \cup new, d.woken = c.woken \cup roused
  PROVE  Waiting(ls, d)
<1>1. ASSUME NEW k \in ls, NEW t \in k.wait
      PROVE  \/ t \in d.woken
             \/ \E m \in d.list : t \in m.wait /\ m.type \in {k.type, "wr"}
  <2>1. CASE k = l
    BY <1>1, <2>1 DEF Sleepers
  <2>2. CASE k # l
    BY <1>1, <2>2 DEF Waiting
  <2> QED BY <2>1, <2>2
<1>2. \A t \in d.woken : \E k \in ls : t \in k.wait
  BY DEF Waiting, Sleepers
<1>3. \A k \in d.list : \A t \in k.wait : \E m \in ls : t \in m.wait
  BY DEF Waiting, Sleepers
<1>4. ASSUME OneWait(ls)
      PROVE  OneWait(d.list) /\ \A k \in d.list : k.wait \cap d.woken = {}
  <2>1. OneWait(c.list) /\ \A k \in c.list : k.wait \cap c.woken = {}
    BY <1>4 DEF OneWait, Waiting
  <2>2. \A k \in c.list : k.wait \cap l.wait = {}
    BY <1>4 DEF OneWait, Waiting
  <2>3. c.woken \cap l.wait = {}
    BY <1>4 DEF OneWait, Waiting
  <2>4. CASE roused = l.wait /\ \A k \in new : k.wait = {}
    BY <2>1, <2>2, <2>4 DEF OneWait
  <2>5. CASE /\ roused = {}
             /\ \E m \in new : /\ m.wait = l.wait
                               /\ \A k \in new : k = m \/ k.wait = {}
    <3>1. PICK m \in new : /\ m.wait = l.wait
                           /\ \A k \in new : k = m \/ k.wait = {}
      BY <2>5
    <3>2. \A k \in d.list : k.wait \cap d.woken = {}
      BY <2>1, <2>3, <2>5, <3>1
    <3>3. OneWait(d.list)
      BY <2>1, <2>2, <3>1 DEF OneWait
    <3> QED BY <3>2, <3>3
  <2> QED BY <2>4, <2>5 DEF Sleepers
<1> QED BY <1>1, <1>2, <1>3, <1>4 DEF Waiting

LEMMA CoveredTurn ==
  ASSUME NEW c0 \in Loops, NEW ls \in SUBSET Regions, NEW l \in ls,
         NEW c \in Loops, NEW type, Covered(c0, ls \ {l}, type, c),
         NEW d \in Loops, NEW new \in SUBSET Regions, d.list = c.list \cup new,
         \A k \in new : Piece(c, l, type, k),
         Rest(c, l, type, d.start, d.len)
  PROVE  Covered(c0, ls, type, d)
<1>1. ASSUME NEW k \in d.list, NEW b \in 0 .. Eof, In(b, k.start, k.len)
      PROVE  \/ \E m \in ls : m.type = k.type /\ In(b, m.start, m.len)
             \/ k.type = type /\ In(b, c0.start, c0.len)
  <2>1. CASE k \in c.list
    BY <1>1, <2>1 DEF Covered
  <2>2. CASE k \in new
    BY <1>1, <2>2 DEF Covered, Piece
  <2> QED BY <2>1, <2>2
<1>2. ASSUME NEW b \in 0 .. Eof, In(b, d.start, d.len)
      PROVE  \/ \E m \in ls : m.type = type /\ In(b, m.start, m.len)
             \/ In(b, c0.start, c0.len)
  BY <1>2 DEF Covered, Rest
<1> QED BY <1>1, <1>2 DEF Covered

LEMMA LoopedTurn ==
  ASSUME NEW c0 \in Loops, NEW ls \in SUBSET Regions, NEW l \in ls, NEW c,
         NEW type \in {"un", "rd", "wr"}, Looped(c0, ls \ {l}, type, c)
  PROVE  Looped(c0, ls, type, turn(c, l, type))
<1> DEFINE d == turn(c, l, type)
<1>1. c \in Loops /\ c.abort = c0.abort /\ (c.err => c.done)
      /\ IsFiniteSet(c.list) /\ SameEnd(c0, c.start, c.len) /\ l \in Regions
  BY DEF Looped
<1>2. Turned(c, l, type, d)
  BY <1>1, TurnTurned
<1> HIDE DEF d
<1>3. PICK new \in SUBSET Regions, roused \in SUBSET Threads :
        /\ d \in Loops /\ d.abort = c.abort /\ (d.err => d.done)
        /\ IsFiniteSet(new)
        /\ d.list = c.list \cup new /\ d.woken = c.woken \cup roused
        /\ Sleepers(l, new, roused)
        /\ SameEnd(c, d.start, d.len)
        /\ NoGap(c, l, type) => /\ \A k \in new : Piece(c, l, type, k)
                                /\ Rest(c, l, type, d.start, d.len)
  BY <1>2 DEF Turned
<1>4. IsFiniteSet(d.list)
  BY <1>1, <1>3, FS_Union
<1>5. Waiting(ls, d)
  BY <1>1, <1>3, WaitingTurn DEF Looped
<1>6. SameEnd(c0, d.start, d.len)
  BY <1>1, <1>3 DEF SameEnd
<1>7. ASSUME \A k \in ls : NoGap(c0, k, type)
      PROVE  Covered(c0, ls, type, d)
  <2>1. Covered(c0, ls \ {l}, type, c)
    BY <1>7 DEF Looped
  <2>2. NoGap(c, l, type)
    BY <1>1, <1>7 DEF NoGap, SameEnd
  <2> QED BY <1>1, <1>3, <2>1, <2>2, CoveredTurn
<1> QED BY <1>1, <1>3, <1>4, <1>5, <1>6, <1>7 DEF Looped, d

LEMMA LoopedNone ==
  ASSUME NEW c \in Loops, NEW type, c.list = {}, c.woken = {}, ~c.err
  PROVE  Looped(c, {}, type, c)
<1>1. Waiting({}, c)
  BY DEF Waiting, OneWait
<1>2. SameEnd(c, c.start, c.len)
  BY DEF SameEnd
<1>3. Covered(c, {}, type, c)
  BY DEF Covered
<1>4. IsFiniteSet(c.list)
  BY FS_EmptySet
<1> QED BY <1>1, <1>2, <1>3, <1>4 DEF Looped

(* The whole loop. *)
LEMMA LoopDone ==
  ASSUME NEW o \in Owners, NEW type \in {"un", "rd", "wr"}, NEW c \in Loops,
         c.list = {}, c.woken = {}, ~c.err,
         locks[o] \in SUBSET Regions, IsFiniteSet(locks[o])
  PROVE  Looped(c, locks[o], type, each_region(o, c, type))
<1> DEFINE g == Unroll(locks[o], c, type)
<1>1. /\ Unrolled(g, SUBSET locks[o], c, type)
      /\ each_region(o, c, type) = g[locks[o]]
  BY EachRegion
<1> HIDE DEF g
<1> DEFINE S == locks[o]
<1> DEFINE G == {ls \in SUBSET S : Looped(c, ls, type, g[ls])}
<1>2. {} \in G
  <2>1. g[{}] = c
    BY <1>1 DEF Unrolled
  <2>2. Looped(c, {}, type, c)
    BY LoopedNone
  <2> QED BY <2>1, <2>2
<1>3. ASSUME NEW ls \in SUBSET S, ls # {}, ls \ {last(ls)} \in G
      PROVE  ls \in G
  <2>1. last(ls) \in ls
    BY <1>3, LastRegion, FS_Subset
  <2>2. g[ls] = turn(g[ls \ {last(ls)}], last(ls), type)
    BY <1>1, <1>3 DEF Unrolled
  <2>3. Looped(c, ls \ {last(ls)}, type, g[ls \ {last(ls)}])
    BY <1>3
  <2>4. Looped(c, ls, type, g[ls])
    BY <2>1, <2>2, <2>3, LoopedTurn
  <2> QED BY <2>4
<1> HIDE DEF G
<1>4. S \in G
  BY <1>2, <1>3, ListInduction
<1> QED BY <1>1, <1>4 DEF G

-----------------------------------------------------------------------------
(* What a call leaves behind. *)
Result(o, start, len, type, d) ==
  /\ d \in Loops /\ ~d.abort /\ IsFiniteSet(d.list)
  /\ Waiting(locks[o], d)
  /\ (type # "un" => ~Gap(o, start, len)) =>
       \A k \in d.list : \A b \in 0 .. Eof : In(b, k.start, k.len) =>
         \/ \E l \in locks[o] : l.type = k.type /\ In(b, l.start, l.len)
         \/ k.type = type /\ In(b, start, len)

LEMMA LoopResult ==
  ASSUME NEW o \in Owners, NEW start \in Nat, NEW len \in Nat, NEW mem \in Nat,
         NEW type \in {"un", "rd", "wr"},
         locks[o] \in SUBSET Regions, IsFiniteSet(locks[o])
  PROVE  LET d == each_region(o, Call(start, len, mem), type)
         IN  /\ Looped(Call(start, len, mem), locks[o], type, d)
             /\ Result(o, start, len, type, d)
             /\ (type # "un" => ~Gap(o, start, len)) =>
                  Covered(Call(start, len, mem), locks[o], type, d)
<1> DEFINE c == Call(start, len, mem)
           d == each_region(o, c, type)
<1>1. /\ c \in Loops /\ c.start = start /\ c.len = len /\ c.list = {}
      /\ c.woken = {} /\ c.err = FALSE /\ c.abort = FALSE
  BY DEF Call, Loops
<1> HIDE DEF c
<1>2. Looped(c, locks[o], type, d)
  BY <1>1, LoopDone
<1> HIDE DEF d
<1>3. ASSUME type # "un" => ~Gap(o, start, len)
      PROVE  Covered(c, locks[o], type, d)
  <2>1. ASSUME NEW l \in locks[o] PROVE NoGap(c, l, type)
    BY <1>1, <1>3 DEF NoGap, Gap
  <2> QED BY <1>2, <2>1 DEF Looped
<1>4. Result(o, start, len, type, d)
  BY <1>1, <1>2, <1>3 DEF Result, Looped, Covered
<1> QED BY <1>2, <1>3, <1>4 DEF c, d

LEMMA UnlockResult ==
  ASSUME NEW o \in Owners, NEW start \in Nat, NEW len \in Nat, NEW mem \in Nat,
         locks[o] \in SUBSET Regions, IsFiniteSet(locks[o])
  PROVE  Result(o, start, len, "un", unlock_region(o, start, len, mem))
BY LoopResult DEF unlock_region

LEMMA MergeResult ==
  ASSUME NEW o \in Owners, NEW start \in Nat, NEW len \in Nat, NEW mem \in Nat,
         NEW type \in {"rd", "wr"},
         locks[o] \in SUBSET Regions, IsFiniteSet(locks[o])
  PROVE  Result(o, start, len, type, merge_in(o, start, len, type, mem))
<1> DEFINE c == Call(start, len, mem)
           d == each_region(o, c, type)
           e == gen_lock(d, d.start, d.len, type)
           x == region(d.start, d.len, type, {})
<1>1. /\ c.start = start /\ c.len = len
  BY DEF Call, Loops
<1>2. /\ Looped(c, locks[o], type, d)
      /\ Result(o, start, len, type, d)
      /\ (type # "un" => ~Gap(o, start, len)) => Covered(c, locks[o], type, d)
  BY LoopResult
<1>3. merge_in(o, start, len, type, mem) = IF d.done THEN d ELSE e
  BY DEF merge_in
<1> HIDE DEF c, d
<1>4. d \in Loops /\ d.start \in Nat /\ d.len \in Nat
  BY <1>2 DEF Looped, Loops
<1>5. \/ Moves(d, e, d.start, d.len, {}, {}, TRUE, TRUE)
      \/ Moves(d, e, d.start, d.len, {x}, {}, d.done, d.err)
  BY <1>4, GenLockMoves DEF fresh
<1>6. x.start = d.start /\ x.len = d.len /\ x.type = type /\ x.wait = {}
  BY RegionFields
<1> HIDE DEF e, x
<1>7. CASE Moves(d, e, d.start, d.len, {}, {}, TRUE, TRUE)
  <2>1. e \in Loops /\ e.abort = d.abort /\ e.list = d.list /\ e.woken = d.woken
    BY <1>7 DEF Moves
  <2>2. Waiting(locks[o], e)
    BY <1>2, <2>1 DEF Result, Waiting
  <2>3. Result(o, start, len, type, e)
    BY <1>2, <2>1, <2>2 DEF Result
  <2> QED BY <1>2, <1>3, <2>3
<1>8. CASE Moves(d, e, d.start, d.len, {x}, {}, d.done, d.err)
  <2>1. /\ e \in Loops /\ e.abort = d.abort /\ e.list = d.list \cup {x}
        /\ e.woken = d.woken
    BY <1>8 DEF Moves
  <2>2. Waiting(locks[o], e)
    <3>1. Waiting(locks[o], d)
      BY <1>2 DEF Result
    <3>2. OneWait(d.list) => OneWait(e.list)
      BY <1>6, <2>1 DEF OneWait
    <3> QED BY <1>6, <2>1, <3>1, <3>2 DEF Waiting
  <2>3. IsFiniteSet(e.list)
    BY <1>2, <2>1, FS_AddElement DEF Result
  <2>4. ASSUME type # "un" => ~Gap(o, start, len),
               NEW k \in e.list, NEW b \in 0 .. Eof, In(b, k.start, k.len)
        PROVE  \/ \E l \in locks[o] : l.type = k.type /\ In(b, l.start, l.len)
               \/ k.type = type /\ In(b, start, len)
    <3>1. Covered(c, locks[o], type, d)
      BY <1>2, <2>4
    <3>2. CASE k \in d.list
      BY <1>1, <2>4, <3>1, <3>2 DEF Covered
    <3>3. CASE k = x
      BY <1>1, <1>6, <2>4, <3>1, <3>3 DEF Covered
    <3> QED BY <2>1, <3>2, <3>3
  <2>5. Result(o, start, len, type, e)
    BY <1>2, <2>1, <2>2, <2>3, <2>4 DEF Result
  <2> QED BY <1>2, <1>3, <2>5
<1> QED BY <1>5, <1>7, <1>8

-----------------------------------------------------------------------------
(* The inductive invariant. *)
Requests == [po : Owners, start : Nat, len : Nat, type : {"rd", "wr"}]

Typed ==
  /\ locks \in [Owners -> SUBSET Regions]
  /\ \A o \in Owners : IsFiniteSet(locks[o])
  /\ req \in [Threads -> Requests \cup {NoReq}]
  /\ woken \in SUBSET Threads

(* A thread in a condition's queue is in that queue only, has a request    *)
(* and is not woken; a woken thread has a request.                         *)
OneQueue ==
  /\ \A o \in Owners : \A l \in locks[o] : \A t \in l.wait :
       req[t] # NoReq /\ t \notin woken
  /\ \A o, p \in Owners : \A k \in locks[o], l \in locks[p] :
       k.wait \cap l.wait # {} => o = p /\ k = l
  /\ \A t \in woken : req[t] # NoReq

(* Regions of two open files that share a byte are both read locks. *)
NoClash ==
  \A o, p \in Owners : o # p =>
    \A k \in locks[o], l \in locks[p] : \A b \in 0 .. Eof :
      In(b, k.start, k.len) /\ In(b, l.start, l.len) =>
        k.type = "rd" /\ l.type = "rd"

Inv ==
  /\ Typed
  /\ OneQueue
  /\ SleepersOnLive
  /\ NoAbort
  /\ ~WithGap => NoClash

(* A request that find_conflict lets pass shares no byte with a            *)
(* conflicting region of another open file.                                *)
LEMMA NothingFound ==
  ASSUME Typed, NEW o \in Owners, NEW start \in Nat, NEW len \in Nat,
         NEW type \in {"rd", "wr"}, find_conflict(o, start, len, type) = {},
         NEW p \in Owners, p # o, NEW l \in locks[p], NEW b \in 0 .. Eof,
         In(b, start, len), In(b, l.start, l.len)
  PROVE  type = "rd" /\ l.type = "rd"
<1> SUFFICES ASSUME "wr" \in {l.type, type} PROVE FALSE
  BY DEF Typed, Regions
<1>1. l \in Regions /\ l.start \in Nat /\ l.len \in Nat
  BY DEF Typed, Regions
<1>2. overlap(start, len, l)
  BY <1>1 DEF overlap, End, In
<1>3. <<p, l>> \in find_conflict(o, start, len, type)
  BY <1>2 DEF find_conflict, conflicts
<1> QED BY <1>3

(* A call of O that leaves D behind, of a thread in ROUSED or of none. *)
LEMMA ResultKeeps ==
  ASSUME Inv, NEW o \in Owners, NEW start \in Nat, NEW len \in Nat,
         NEW type \in {"un", "rd", "wr"}, NEW d,
         Result(o, start, len, type, d),
         type # "un" => /\ find_conflict(o, start, len, type) = {}
                        /\ WithGap \/ ~Gap(o, start, len),
         NEW roused \in SUBSET woken, Apply(o, start, len, type, d, roused),
         req' \in [Threads -> Requests \cup {NoReq}],
         \A t \in Threads : req'[t] = IF t \in roused THEN NoReq ELSE req[t]
  PROVE  Inv'
<1>1. /\ d \in Loops /\ d.abort = FALSE /\ IsFiniteSet(d.list)
      /\ d.list \in SUBSET Regions /\ d.woken \in SUBSET Threads
  BY DEF Result, Loops
<1>2. /\ Typed /\ OneQueue /\ SleepersOnLive /\ ~aborted
      /\ locks \in [Owners -> SUBSET Regions]
      /\ \A p \in Owners : IsFiniteSet(locks[p])
      /\ woken \in SUBSET Threads
  BY DEF Inv, Typed, NoAbort
<1>3. /\ locks' = [locks EXCEPT ![o] = d.list]
      /\ woken' = (woken \ roused) \cup d.woken
      /\ aborted' = (aborted \/ d.abort)
  BY DEF Apply
<1>4. /\ locks'[o] = d.list
      /\ \A p \in Owners : p # o => locks'[p] = locks[p]
  BY <1>2, <1>3
<1>5. Typed'
  <2>1. locks' \in [Owners -> SUBSET Regions]
    BY <1>1, <1>2, <1>3
  <2>2. \A p \in Owners : IsFiniteSet(locks'[p])
    BY <1>1, <1>2, <1>4
  <2>3. woken' \in SUBSET Threads
    BY <1>1, <1>2, <1>3
  <2> QED BY <2>1, <2>2, <2>3 DEF Typed
<1>6. OneWait(locks[o])
  BY <1>2 DEF OneQueue, OneWait
<1>7. /\ \A t \in d.woken : \E l \in locks[o] : t \in l.wait
      /\ \A k \in d.list : \A t \in k.wait : \E l \in locks[o] : t \in l.wait
      /\ OneWait(d.list) /\ \A k \in d.list : k.wait \cap d.woken = {}
  BY <1>6 DEF Result, Waiting
<1>8. OneQueue'
  <2>1. ASSUME NEW p \in Owners, NEW l \in locks'[p], NEW t \in l.wait
        PROVE  req'[t] # NoReq /\ t \notin woken'
    <3>0. l \in Regions /\ t \in Threads
      BY <1>5 DEF Typed, Regions
    <3>1. CASE p = o
      <4>1. l \in d.list
        BY <1>4, <3>1
      <4>2. PICK k \in locks[o] : t \in k.wait
        BY <1>7, <4>1
      <4>3. req[t] # NoReq /\ t \notin woken
        BY <1>2, <4>2 DEF OneQueue
      <4>4. t \notin d.woken
        BY <1>7, <4>1
      <4> QED BY <1>3, <3>0, <4>3, <4>4
    <3>2. CASE p # o
      <4>1. l \in locks[p]
        BY <1>4, <3>2
      <4>2. req[t] # NoReq /\ t \notin woken
        BY <1>2, <4>1 DEF OneQueue
      <4>3. t \notin d.woken
        BY <1>2, <1>7, <3>2, <4>1 DEF OneQueue
      <4> QED BY <1>3, <3>0, <4>2, <4>3
    <3> QED BY <3>1, <3>2
  <2>2. ASSUME NEW p \in Owners, NEW q \in Owners, NEW k \in locks'[p],
               NEW l \in locks'[q], NEW t, t \in k.wait, t \in l.wait
        PROVE  p = q /\ k = l
    <3>1. CASE p = o /\ q = o
      BY <1>4, <1>7, <2>2, <3>1 DEF OneWait
    <3>2. CASE p = o /\ q # o
      <4>1. PICK m \in locks[o] : t \in m.wait
        BY <1>4, <1>7, <2>2, <3>2
      <4>2. l \in locks[q]
        BY <1>4, <3>2
      <4> QED BY <1>2, <2>2, <3>2, <4>1, <4>2 DEF OneQueue
    <3>3. CASE p # o /\ q = o
      <4>1. PICK m \in locks[o] : t \in m.wait
        BY <1>4, <1>7, <2>2, <3>3
      <4>2. k \in locks[p]
        BY <1>4, <3>3
      <4> QED BY <1>2, <2>2, <3>3, <4>1, <4>2 DEF OneQueue
    <3>4. CASE p # o /\ q # o
      BY <1>2, <1>4, <2>2, <3>4 DEF OneQueue
    <3> QED BY <3>1, <3>2, <3>3, <3>4
  <2>3. ASSUME NEW t \in woken' PROVE req'[t] # NoReq
    <3>1. CASE t \in woken \ roused
      BY <1>2, <3>1 DEF OneQueue
    <3>2. CASE t \in d.woken
      <4>1. req[t] # NoReq /\ t \notin woken
        BY <1>2, <1>7, <3>2 DEF OneQueue
      <4> QED BY <1>1, <3>2, <4>1
    <3> QED BY <1>3, <3>1, <3>2
  <2>4. \A p, q \in Owners : \A k \in locks'[p], l \in locks'[q] :
          k.wait \cap l.wait # {} => p = q /\ k = l
    BY <2>2
  <2> QED BY <2>1, <2>3, <2>4 DEF OneQueue
<1>9. SleepersOnLive'
  <2> SUFFICES ASSUME NEW t \in Threads, req'[t] # NoReq, t \notin woken'
               PROVE  \E p \in Owners \ {req'[t].po} : \E l \in locks'[p] :
                        t \in l.wait /\ "wr" \in {l.type, req'[t].type}
    BY DEF SleepersOnLive
  <2>1. req'[t] = req[t] /\ t \notin woken /\ t \notin d.woken
    BY <1>3
  <2>2. PICK p \in Owners \ {req[t].po} : \E l \in locks[p] :
          t \in l.wait /\ "wr" \in {l.type, req[t].type}
    BY <1>2, <2>1 DEF SleepersOnLive
  <2>3. CASE p # o
    BY <1>4, <2>1, <2>2, <2>3
  <2>4. CASE p = o
    <3>1. PICK l \in locks[o] : t \in l.wait /\ "wr" \in {l.type, req[t].type}
      BY <2>2, <2>4
    <3>2. PICK k \in d.list : t \in k.wait /\ k.type \in {l.type, "wr"}
      BY <2>1, <3>1 DEF Result, Waiting
    <3> QED BY <1>4, <2>1, <2>2, <2>4, <3>1, <3>2
  <2> QED BY <2>3, <2>4
<1>10. NoAbort'
  BY <1>1, <1>2, <1>3 DEF NoAbort
<1>11. ASSUME ~WithGap PROVE NoClash'
  <2>1. \A k \in d.list : \A b \in 0 .. Eof : In(b, k.start, k.len) =>
          \/ \E l \in locks[o] : l.type = k.type /\ In(b, l.start, l.len)
          \/ k.type = type /\ In(b, start, len)
    BY <1>11 DEF Result
  <2>2. NoClash
    BY <1>11 DEF Inv
  <2>3. ASSUME NEW p \in Owners, p # o, NEW k \in d.list, NEW l \in locks[p],
               NEW b \in 0 .. Eof, In(b, k.start, k.len), In(b, l.start, l.len)
        PROVE  k.type = "rd" /\ l.type = "rd"
    <3>1. CASE \E m \in locks[o] : m.type = k.type /\ In(b, m.start, m.len)
      BY <2>2, <2>3, <3>1 DEF NoClash
    <3>2. CASE k.type = type /\ In(b, start, len)
      <4>1. type \in {"rd", "wr"}
        BY <1>1, <3>2 DEF Regions
      <4>2. find_conflict(o, start, len, type) = {}
        BY <4>1
      <4> QED BY <1>2, <2>3, <3>2, <4>1, <4>2, NothingFound
    <3> QED BY <2>1, <2>3, <3>1, <3>2
  <2>4. ASSUME NEW p \in Owners, NEW q \in Owners, p # q, NEW k \in locks'[p],
               NEW l \in locks'[q], NEW b \in 0 .. Eof,
               In(b, k.start, k.len), In(b, l.start, l.len)
        PROVE  k.type = "rd" /\ l.type = "rd"
    <3>1. CASE p = o
      BY <1>4, <2>3, <2>4, <3>1
    <3>2. CASE q = o
      BY <1>4, <2>3, <2>4, <3>2
    <3>3. CASE p # o /\ q # o
      BY <1>4, <2>2, <2>4, <3>3 DEF NoClash
    <3> QED BY <3>1, <3>2, <3>3
  <2> QED BY <2>4 DEF NoClash
<1> QED BY <1>5, <1>8, <1>9, <1>10, <1>11 DEF Inv

(* A thread goes to sleep on a region that it was refused for. *)
LEMMA JoinKeeps ==
  ASSUME Inv, NEW t \in Threads, NEW r \in Requests,
         NEW e \in find_conflict(r.po, r.start, r.len, r.type), Join(t, e),
         \A o \in Owners : \A l \in locks[o] : t \notin l.wait,
         req' = [req EXCEPT ![t] = r], woken' = woken \ {t}, UNCHANGED aborted
  PROVE  Inv'
<1> DEFINE q == e[1]
           l == e[2]
           x == [l EXCEPT !.wait = @ \cup {t}]
<1>1. /\ Typed /\ OneQueue /\ SleepersOnLive /\ ~aborted
      /\ locks \in [Owners -> SUBSET Regions]
      /\ \A p \in Owners : IsFiniteSet(locks[p])
      /\ woken \in SUBSET Threads
      /\ req \in [Threads -> Requests \cup {NoReq}]
  BY DEF Inv, Typed, NoAbort
<1>2. /\ q \in Owners /\ q # r.po /\ l \in locks[q] /\ "wr" \in {l.type, r.type}
  BY DEF find_conflict, conflicts
<1>3. l \in Regions
  BY <1>1, <1>2
<1>4. /\ x \in Regions /\ x.start = l.start /\ x.len = l.len /\ x.type = l.type
      /\ x.wait = l.wait \cup {t}
  BY <1>3 DEF Regions
<1>5. locks' = [locks EXCEPT ![q] = (@ \ {l}) \cup {x}]
  BY DEF Join
<1> HIDE DEF q, l, x
<1>6. /\ locks'[q] = (locks[q] \ {l}) \cup {x}
      /\ \A p \in Owners : p # q => locks'[p] = locks[p]
  BY <1>1, <1>2, <1>5
<1>7. r # NoReq /\ req'[t] = r /\ \A u \in Threads : u # t => req'[u] = req[u]
  <2>1. r # NoReq
    BY DEF Requests, NoReq
  <2> QED BY <1>1, <2>1
<1>8. Typed'
  <2>1. locks' \in [Owners -> SUBSET Regions]
    BY <1>1, <1>2, <1>4, <1>5
  <2>2. IsFiniteSet(locks'[q])
    <3>1. IsFiniteSet(locks[q] \ {l})
      BY <1>1, <1>2, FS_RemoveElement
    <3> QED BY <1>6, <3>1, FS_AddElement
  <2>3. \A p \in Owners : IsFiniteSet(locks'[p])
    BY <1>1, <1>6, <2>2
  <2>4. req' \in [Threads -> Requests \cup {NoReq}] /\ woken' \in SUBSET Threads
    BY <1>1
  <2> QED BY <2>1, <2>3, <2>4 DEF Typed
(* Every region was one before, with the same range and type. *)
<1>9. ASSUME NEW p \in Owners, NEW k \in locks'[p]
      PROVE  \/ k \in locks[p] /\ t \notin k.wait /\ ~(p = q /\ k = l)
             \/ p = q /\ k = x
  BY <1>4, <1>6, <1>9
<1>10. OneQueue'
  <2>1. ASSUME NEW p \in Owners, NEW k \in locks'[p], NEW u \in k.wait
        PROVE  req'[u] # NoReq /\ u \notin woken'
    <3>1. u \in Threads
      BY <1>8 DEF Typed, Regions
    <3>2. CASE u = t
      BY <1>7, <3>2
    <3>3. CASE u # t
      <4>1. req[u] # NoReq /\ u \notin woken
        BY <1>1, <1>2, <1>4, <1>9, <2>1, <3>3 DEF OneQueue
      <4> QED BY <1>7, <3>1, <3>3, <4>1
    <3> QED BY <3>2, <3>3
  <2>2. ASSUME NEW o \in Owners, NEW p \in Owners, NEW k \in locks'[o],
               NEW m \in locks'[p], NEW u, u \in k.wait, u \in m.wait
        PROVE  o = p /\ k = m
    <3>1. CASE o = q /\ k = x
      <4>1. CASE p = q /\ m = x
        BY <3>1, <4>1
      <4>2. CASE m \in locks[p] /\ t \notin m.wait /\ ~(p = q /\ m = l)
        BY <1>1, <1>2, <1>4, <2>2, <3>1, <4>2 DEF OneQueue
      <4> QED BY <1>9, <4>1, <4>2
    <3>2. CASE k \in locks[o] /\ t \notin k.wait /\ ~(o = q /\ k = l)
      <4>1. CASE p = q /\ m = x
        BY <1>1, <1>2, <1>4, <2>2, <3>2, <4>1 DEF OneQueue
      <4>2. CASE m \in locks[p]
        BY <1>1, <2>2, <3>2, <4>2 DEF OneQueue
      <4> QED BY <1>9, <4>1, <4>2
    <3> QED BY <1>9, <3>1, <3>2
  <2>3. \A u \in woken' : req'[u] # NoReq
    BY <1>1, <1>7 DEF OneQueue
  <2>4. \A o, p \in Owners : \A k \in locks'[o], m \in locks'[p] :
          k.wait \cap m.wait # {} => o = p /\ k = m
    BY <2>2
  <2> QED BY <2>1, <2>3, <2>4 DEF OneQueue
<1>11. SleepersOnLive'
  <2> SUFFICES ASSUME NEW u \in Threads, req'[u] # NoReq, u \notin woken'
               PROVE  \E p \in Owners \ {req'[u].po} : \E k \in locks'[p] :
                        u \in k.wait /\ "wr" \in {k.type, req'[u].type}
    BY DEF SleepersOnLive
  <2>1. CASE u = t
    BY <1>2, <1>4, <1>6, <1>7, <2>1
  <2>2. CASE u # t
    <3>1. req'[u] = req[u] /\ u \notin woken
      BY <1>7, <2>2
    <3>2. PICK p \in Owners \ {req[u].po} : \E k \in locks[p] :
            u \in k.wait /\ "wr" \in {k.type, req[u].type}
      BY <1>1, <3>1 DEF SleepersOnLive
    <3>3. PICK k \in locks[p] : u \in k.wait /\ "wr" \in {k.type, req[u].type}
      BY <3>2
    <3>4. CASE p = q /\ k = l
      BY <1>4, <1>6, <3>1, <3>2, <3>3, <3>4
    <3>5. CASE ~(p = q /\ k = l)
      BY <1>6, <3>1, <3>2, <3>3, <3>5
    <3> QED BY <3>4, <3>5
  <2> QED BY <2>1, <2>2
<1>12. NoAbort'
  BY <1>1 DEF NoAbort
<1>13. NoClash => NoClash'
  <2> SUFFICES ASSUME NoClash, NEW o \in Owners, NEW p \in Owners, o # p,
                      NEW k \in locks'[o], NEW m \in locks'[p], NEW b \in 0 .. Eof,
                      In(b, k.start, k.len), In(b, m.start, m.len)
               PROVE  k.type = "rd" /\ m.type = "rd"
    BY DEF NoClash
  <2>1. PICK k0 \in locks[o] : /\ k0.start = k.start /\ k0.len = k.len
                               /\ k0.type = k.type
    BY <1>2, <1>4, <1>9
  <2>2. PICK m0 \in locks[p] : /\ m0.start = m.start /\ m0.len = m.len
                               /\ m0.type = m.type
    BY <1>2, <1>4, <1>9
  <2> QED BY <2>1, <2>2 DEF NoClash
<1> QED BY <1>8, <1>10, <1>11, <1>12, <1>13 DEF Inv

LEMMA InterruptKeeps ==
  ASSUME Inv, NEW t \in Threads, interrupt(t)
  PROVE  Inv'
<1> DEFINE without(l) == [l EXCEPT !.wait = @ \ {t}]
<1>1. /\ Typed /\ OneQueue /\ SleepersOnLive /\ ~aborted
      /\ locks \in [Owners -> SUBSET Regions]
      /\ \A p \in Owners : IsFiniteSet(locks[p])
      /\ woken \in SUBSET Threads
      /\ req \in [Threads -> Requests \cup {NoReq}]
  BY DEF Inv, Typed, NoAbort
<1>2. \A o \in Owners : locks'[o] = {without(l) : l \in locks[o]}
  BY DEF interrupt, Leave
<1>3. ASSUME NEW l \in Regions
      PROVE  /\ without(l) \in Regions /\ without(l).start = l.start
             /\ without(l).len = l.len /\ without(l).type = l.type
             /\ without(l).wait = l.wait \ {t}
  BY DEF Regions
<1>4. /\ woken' = woken \ {t} /\ req' = [req EXCEPT ![t] = NoReq]
      /\ aborted' = aborted
  BY DEF interrupt
<1>5. req'[t] = NoReq /\ \A u \in Threads : u # t => req'[u] = req[u]
  BY <1>1, <1>4
<1> HIDE DEF without
<1>6. \A o \in Owners : locks'[o] \in SUBSET Regions
  BY <1>1, <1>2, <1>3
<1>7. ASSUME NEW o \in Owners, NEW k \in locks'[o]
      PROVE  \E l \in locks[o] : k = without(l) /\ l \in Regions
  BY <1>1, <1>2, <1>7
<1>8. Typed'
  <2>1. locks' \in [Owners -> SUBSET Regions]
    <3>1. DOMAIN locks' = Owners /\ locks' = [o \in Owners |-> locks'[o]]
      BY DEF interrupt, Leave
    <3> QED BY <1>6, <3>1
  <2>2. ASSUME NEW o \in Owners PROVE IsFiniteSet(locks'[o])
    <3> DEFINE f == [l \in locks[o] |-> without(l)]
    <3>1. f \in Surjection(locks[o], locks'[o])
      BY <1>2 DEF Surjection
    <3> QED BY <1>1, <3>1, FS_Surjection
  <2>3. req' \in [Threads -> Requests \cup {NoReq}] /\ woken' \in SUBSET Threads
    BY <1>1, <1>4
  <2> QED BY <2>1, <2>2, <2>3 DEF Typed
<1>9. OneQueue'
  <2>1. ASSUME NEW o \in Owners, NEW k \in locks'[o], NEW u \in k.wait
        PROVE  req'[u] # NoReq /\ u \notin woken'
    <3>1. PICK l \in locks[o] : k = without(l) /\ l \in Regions
      BY <1>7
    <3>2. u \in l.wait /\ u # t /\ u \in Threads
      BY <1>3, <3>1 DEF Regions
    <3> QED BY <1>1, <1>4, <1>5, <3>2 DEF OneQueue
  <2>2. ASSUME NEW o \in Owners, NEW p \in Owners, NEW k \in locks'[o],
               NEW m \in locks'[p], NEW u, u \in k.wait, u \in m.wait
        PROVE  o = p /\ k = m
    <3>1. PICK k0 \in locks[o] : k = without(k0) /\ k0 \in Regions
      BY <1>7
    <3>2. PICK m0 \in locks[p] : m = without(m0) /\ m0 \in Regions
      BY <1>7
    <3>3. u \in k0.wait /\ u \in m0.wait
      BY <1>3, <2>2, <3>1, <3>2
    <3> QED BY <1>1, <3>1, <3>2, <3>3 DEF OneQueue
  <2>3. \A u \in woken' : req'[u] # NoReq
    BY <1>1, <1>4, <1>5 DEF OneQueue
  <2>4. \A o, p \in Owners : \A k \in locks'[o], m \in locks'[p] :
          k.wait \cap m.wait # {} => o = p /\ k = m
    BY <2>2
  <2> QED BY <2>1, <2>3, <2>4 DEF OneQueue
<1>10. SleepersOnLive'
  <2> SUFFICES ASSUME NEW u \in Threads, req'[u] # NoReq, u \notin woken'
               PROVE  \E p \in Owners \ {req'[u].po} : \E k \in locks'[p] :
                        u \in k.wait /\ "wr" \in {k.type, req'[u].type}
    BY DEF SleepersOnLive
  <2>1. u # t /\ req'[u] = req[u] /\ u \notin woken
    BY <1>4, <1>5
  <2>2. PICK p \in Owners \ {req[u].po} : \E l \in locks[p] :
          u \in l.wait /\ "wr" \in {l.type, req[u].type}
    BY <1>1, <2>1 DEF SleepersOnLive
  <2>3. PICK l \in locks[p] : u \in l.wait /\ "wr" \in {l.type, req[u].type}
    BY <2>2
  <2>4. without(l) \in locks'[p] /\ l \in Regions
    BY <1>1, <1>2
  <2>5. u \in without(l).wait /\ without(l).type = l.type
    BY <1>3, <2>1, <2>3, <2>4
  <2> QED BY <2>1, <2>2, <2>3, <2>4, <2>5
<1>11. NoAbort'
  BY <1>1, <1>4 DEF NoAbort
<1>12. NoClash => NoClash'
  <2> SUFFICES ASSUME NoClash, NEW o \in Owners, NEW p \in Owners, o # p,
                      NEW k \in locks'[o], NEW m \in locks'[p], NEW b \in 0 .. Eof,
                      In(b, k.start, k.len), In(b, m.start, m.len)
               PROVE  k.type = "rd" /\ m.type = "rd"
    BY DEF NoClash
  <2>1. PICK k0 \in locks[o] : k = without(k0) /\ k0 \in Regions
    BY <1>7
  <2>2. PICK m0 \in locks[p] : m = without(m0) /\ m0 \in Regions
    BY <1>7
  <2>3. /\ k0.start = k.start /\ k0.len = k.len /\ k0.type = k.type
        /\ m0.start = m.start /\ m0.len = m.len /\ m0.type = m.type
    BY <1>3, <2>1, <2>2
  <2> QED BY <2>3 DEF NoClash
<1> QED BY <1>8, <1>9, <1>10, <1>11, <1>12 DEF Inv

LEMMA DropKeeps ==
  ASSUME Inv, NEW o \in Owners, drop_peropen(o)
  PROVE  Inv'
<1> DEFINE W == UNION {l.wait : l \in locks[o]}
<1>1. /\ Typed /\ OneQueue /\ SleepersOnLive /\ ~aborted
      /\ locks \in [Owners -> SUBSET Regions]
      /\ \A p \in Owners : IsFiniteSet(locks[p])
      /\ woken \in SUBSET Threads
      /\ req \in [Threads -> Requests \cup {NoReq}]
  BY DEF Inv, Typed, NoAbort
<1>2. /\ locks' = [locks EXCEPT ![o] = {}] /\ woken' = woken \cup W
      /\ req' = req /\ aborted' = aborted
  BY DEF drop_peropen
<1>3. \A t \in W : \E l \in locks[o] : t \in l.wait
  OBVIOUS
<1>4. \A l \in locks[o] : \A t \in l.wait : t \in W
  OBVIOUS
<1>5. W \in SUBSET Threads
  BY <1>1 DEF Regions
<1> HIDE DEF W
<1>6. locks'[o] = {} /\ \A p \in Owners : p # o => locks'[p] = locks[p]
  BY <1>1, <1>2
<1>7. Typed'
  <2>1. IsFiniteSet({})
    BY FS_EmptySet
  <2>2. \A p \in Owners : IsFiniteSet(locks'[p])
    BY <1>1, <1>6, <2>1
  <2> QED BY <1>1, <1>2, <1>5, <2>2 DEF Typed
<1>8. OneQueue'
  <2>1. ASSUME NEW p \in Owners, NEW k \in locks'[p], NEW u \in k.wait
        PROVE  req'[u] # NoReq /\ u \notin woken'
    <3>1. p # o /\ k \in locks[p]
      BY <1>6
    <3>2. u \notin W
      BY <1>1, <1>3, <3>1 DEF OneQueue
    <3> QED BY <1>1, <1>2, <3>1, <3>2 DEF OneQueue
  <2>2. \A p, q \in Owners : \A k \in locks'[p], m \in locks'[q] :
          k.wait \cap m.wait # {} => p = q /\ k = m
    <3>1. \A p \in Owners : \A k \in locks'[p] : k \in locks[p]
      BY <1>6
    <3> QED BY <1>1, <3>1 DEF OneQueue
  <2>3. \A u \in woken' : req'[u] # NoReq
    BY <1>1, <1>2, <1>3 DEF OneQueue
  <2> QED BY <2>1, <2>2, <2>3 DEF OneQueue
<1>9. SleepersOnLive'
  <2> SUFFICES ASSUME NEW u \in Threads, req'[u] # NoReq, u \notin woken'
               PROVE  \E p \in Owners \ {req'[u].po} : \E k \in locks'[p] :
                        u \in k.wait /\ "wr" \in {k.type, req'[u].type}
    BY DEF SleepersOnLive
  <2>1. req'[u] = req[u] /\ u \notin woken /\ u \notin W
    BY <1>2
  <2>2. PICK p \in Owners \ {req[u].po} : \E l \in locks[p] :
          u \in l.wait /\ "wr" \in {l.type, req[u].type}
    BY <1>1, <2>1 DEF SleepersOnLive
  <2>3. p # o
    BY <1>4, <2>1, <2>2
  <2> QED BY <1>6, <2>1, <2>2, <2>3
<1>10. NoAbort'
  BY <1>1, <1>2 DEF NoAbort
<1>11. NoClash => NoClash'
  <2>1. \A p \in Owners : \A k \in locks'[p] : k \in locks[p]
    BY <1>6
  <2> QED BY <2>1 DEF NoClash
<1> QED BY <1>7, <1>8, <1>9, <1>10, <1>11 DEF Inv

LEMMA InitInv == Init => Inv
<1> SUFFICES ASSUME Init PROVE Inv
  OBVIOUS
<1>1. Typed
  BY FS_EmptySet DEF Init, Typed
<1>2. OneQueue /\ SleepersOnLive /\ NoAbort /\ NoClash
  BY DEF Init, OneQueue, SleepersOnLive, NoAbort, NoClash
<1> QED BY <1>1, <1>2 DEF Inv

LEMMA SetlkKeeps ==
  ASSUME Inv, NEW o \in Owners, NEW start \in Nat, NEW len \in Nat,
         NEW type \in {"rd", "wr"}, NEW mem \in Nat,
         setlk(o, start, len, type, mem)
  PROVE  Inv'
<1> DEFINE d == merge_in(o, start, len, type, mem)
<1>1. /\ locks[o] \in SUBSET Regions /\ IsFiniteSet(locks[o])
      /\ req \in [Threads -> Requests \cup {NoReq}]
  BY DEF Inv, Typed
<1>2. Result(o, start, len, type, d)
  BY <1>1, MergeResult
<1>3. /\ find_conflict(o, start, len, type) = {}
      /\ WithGap \/ ~Gap(o, start, len)
      /\ Apply(o, start, len, type, d, {}) /\ req' = req
  BY DEF setlk, Request
<1>4. {} \in SUBSET woken
  OBVIOUS
<1> HIDE DEF d
<1> QED BY <1>1, <1>2, <1>3, <1>4, ResultKeeps

LEMMA UnlockKeeps ==
  ASSUME Inv, NEW o \in Owners, NEW start \in Nat, NEW len \in Nat,
         NEW mem \in Nat, unlock(o, start, len, mem)
  PROVE  Inv'
<1> DEFINE d == unlock_region(o, start, len, mem)
<1>1. /\ locks[o] \in SUBSET Regions /\ IsFiniteSet(locks[o])
      /\ req \in [Threads -> Requests \cup {NoReq}]
  BY DEF Inv, Typed
<1>2. Result(o, start, len, "un", d)
  BY <1>1, UnlockResult
<1>3. Apply(o, start, len, "un", d, {}) /\ req' = req
  BY DEF unlock
<1>4. {} \in SUBSET woken
  OBVIOUS
<1> HIDE DEF d
<1> QED BY <1>1, <1>2, <1>3, <1>4, ResultKeeps

LEMMA SetlkwKeeps ==
  ASSUME Inv, NEW t \in Threads, NEW o \in Owners, NEW start \in Nat,
         NEW len \in Nat, NEW type \in {"rd", "wr"},
         setlkw(t, o, start, len, type)
  PROVE  Inv'
<1> DEFINE r == [po |-> o, start |-> start, len |-> len, type |-> type]
<1>1. /\ r \in Requests /\ r.po = o /\ r.start = start /\ r.len = len
      /\ r.type = type
  BY DEF Requests
<1>2. /\ req[t] = NoReq /\ req' = [req EXCEPT ![t] = r] /\ woken' = woken
      /\ UNCHANGED aborted
  BY DEF setlkw
<1>3. t \notin woken /\ \A p \in Owners : \A l \in locks[p] : t \notin l.wait
  BY <1>2 DEF Inv, OneQueue
<1>4. PICK e \in find_conflict(o, start, len, type) : Join(t, e)
  BY DEF setlkw
<1>5. woken' = woken \ {t}
  BY <1>2, <1>3
<1> HIDE DEF r
<1> QED BY <1>1, <1>2, <1>3, <1>4, <1>5, JoinKeeps

LEMMA RetryKeeps ==
  ASSUME Inv, NEW t \in Threads, NEW mem \in Nat, retry(t, mem)
  PROVE  Inv'
<1> DEFINE r == req[t]
           d == merge_in(r.po, r.start, r.len, r.type, mem)
<1>1. /\ req \in [Threads -> Requests \cup {NoReq}] /\ OneQueue
      /\ \A o \in Owners : locks[o] \in SUBSET Regions /\ IsFiniteSet(locks[o])
  BY DEF Inv, Typed
<1>2. t \in woken /\ (WithGap \/ ~Gap(r.po, r.start, r.len))
  BY DEF retry
<1>3. r \in Requests
  BY <1>1, <1>2 DEF OneQueue
<1>4. /\ r.po \in Owners /\ r.start \in Nat /\ r.len \in Nat
      /\ r.type \in {"rd", "wr"}
  BY <1>3 DEF Requests
<1>5. CASE /\ find_conflict(r.po, r.start, r.len, r.type) = {}
           /\ Apply(r.po, r.start, r.len, r.type, d, {t})
           /\ req' = [req EXCEPT ![t] = NoReq]
  <2>1. Result(r.po, r.start, r.len, r.type, d)
    BY <1>1, <1>4, MergeResult
  <2>2. /\ req' \in [Threads -> Requests \cup {NoReq}] /\ {t} \in SUBSET woken
        /\ \A u \in Threads : req'[u] = IF u \in {t} THEN NoReq ELSE req[u]
    BY <1>1, <1>2, <1>5
  <2> HIDE DEF d, r
  <2>3. r.type \in {"un", "rd", "wr"}
    BY <1>4
  <2> QED BY <1>2, <1>4, <1>5, <2>1, <2>2, <2>3, ResultKeeps
<1>6. CASE /\ \E e \in find_conflict(r.po, r.start, r.len, r.type) : Join(t, e)
           /\ woken' = woken \ {t}
           /\ UNCHANGED <<req, aborted>>
  <2>1. PICK e \in find_conflict(r.po, r.start, r.len, r.type) : Join(t, e)
    BY <1>6
  <2>2. \A p \in Owners : \A l \in locks[p] : t \notin l.wait
    BY <1>1, <1>2 DEF OneQueue
  <2>3. req' = [req EXCEPT ![t] = r] /\ UNCHANGED aborted /\ woken' = woken \ {t}
    BY <1>1, <1>6
  <2> HIDE DEF r
  <2> QED BY <1>3, <2>1, <2>2, <2>3, JoinKeeps
<1> QED BY <1>5, <1>6 DEF retry

(* The invariant holds. *)
LEMMA InvHolds == Spec => []Inv
<1>1. Inv /\ [Next]_vars => Inv'
  <2> SUFFICES ASSUME Inv, [Next]_vars PROVE Inv'
    OBVIOUS
  <2>1. CASE UNCHANGED vars
    BY <2>1 DEF vars, Inv, Typed, OneQueue, SleepersOnLive, NoAbort, NoClash
  <2>2. /\ \A start \in Starts : start \in Nat
        /\ \A len \in Lens : len \in Nat
        /\ \A mem \in 0 .. MaxMem : mem \in Nat
    BY RecordLockAssumption DEF Starts, Lens
  <2>3. ASSUME NEW o \in Owners, NEW start \in Starts, NEW len \in Lens,
               NEW type \in {"rd", "wr"}, NEW mem \in 0 .. MaxMem,
               setlk(o, start, len, type, mem)
        PROVE  Inv'
    BY <2>2, <2>3, SetlkKeeps
  <2>4. ASSUME NEW o \in Owners, NEW start \in Starts, NEW len \in Lens,
               NEW type \in {"rd", "wr"}, NEW t \in Threads,
               setlkw(t, o, start, len, type)
        PROVE  Inv'
    BY <2>2, <2>4, SetlkwKeeps
  <2>5. ASSUME NEW o \in Owners, NEW start \in Starts, NEW len \in Lens,
               NEW mem \in 0 .. MaxMem, unlock(o, start, len, mem)
        PROVE  Inv'
    BY <2>2, <2>5, UnlockKeeps
  <2>6. ASSUME NEW t \in Threads, NEW mem \in 0 .. MaxMem, retry(t, mem)
        PROVE  Inv'
    BY <2>2, <2>6, RetryKeeps
  <2>7. ASSUME NEW t \in Threads, interrupt(t) PROVE Inv'
    BY <2>7, InterruptKeeps
  <2>8. ASSUME NEW o \in Owners, drop_peropen(o) PROVE Inv'
    BY <2>8, DropKeeps
  <2>9. ASSUME NEW o, NEW start, NEW len, NEW type,
               setlk_again(o, start, len, type)
        PROVE  Inv'
    BY <2>9 DEF setlk_again, Inv, Typed, OneQueue, SleepersOnLive, NoAbort, NoClash
  <2> QED BY <2>1, <2>3, <2>4, <2>5, <2>6, <2>7, <2>8, <2>9 DEF Next
<1> QED BY <1>1, InitInv, PTL DEF Spec

(* No assertion of merge_in and unlock_region fails, however the regions   *)
(* lie and wherever memory runs out.                                       *)
THEOREM AssertionsHold == Spec => []NoAbort
<1>1. Inv => NoAbort
  BY DEF Inv
<1> QED BY <1>1, InvHolds, PTL

(* Whatever merge_in and unlock_region do to a region, a thread that       *)
(* sleeps on its condition and is not woken has a conflicting region of    *)
(* another open file to sleep on.                                          *)
THEOREM SleepersStayOnLive == Spec => []SleepersOnLive
<1>1. Inv => SleepersOnLive
  BY DEF Inv
<1> QED BY <1>1, InvHolds, PTL

LEMMA CoversIn ==
  ASSUME NEW l \in Regions, NEW b \in Bytes, b \in covers(l)
  PROVE  In(b, l.start, l.len)
<1>1. l.start \in Nat /\ l.len \in Nat /\ b \in Nat
  BY RecordLockAssumption DEF Regions, Bytes
<1> QED BY <1>1 DEF covers, range, In, Bytes

(* Two open files never hold conflicting locks on a byte, if nobody asks   *)
(* for a range that ends before an own lock to the end of the file starts. *)
THEOREM LocksExclude == ASSUME ~WithGap PROVE Spec => []Exclusion
<1>1. Inv => Exclusion
  <2> SUFFICES ASSUME Inv, NEW o \in Owners, NEW p \in Owners, o # p,
                      NEW b \in Bytes,
                      Held(o, b) # "un", Held(p, b) # "un",
                      "wr" \in {Held(o, b), Held(p, b)}
               PROVE  FALSE
    BY DEF Exclusion, Ranges!Exclusion, Ranges!Conflict, Ranges!Bytes, Bytes
  <2>1. NoClash /\ Typed
    BY DEF Inv
  <2>2. \A q \in Owners : locks[q] \in SUBSET Regions
    BY <2>1 DEF Typed
  <2>3. PICK k \in locks[o] : b \in covers(k) /\ k.type = Held(o, b)
    BY <2>2 DEF Held, Regions
  <2>4. PICK l \in locks[p] : b \in covers(l) /\ l.type = Held(p, b)
    BY <2>2 DEF Held, Regions
  <2>5. In(b, k.start, k.len) /\ In(b, l.start, l.len) /\ b \in 0 .. Eof
    BY <2>2, <2>3, <2>4, CoversIn DEF Bytes
  <2> QED BY <2>1, <2>3, <2>4, <2>5 DEF NoClash
<1> QED BY <1>1, InvHolds, PTL

-----------------------------------------------------------------------------
(* The canonical form of a list. *)

(* Region K ends before L starts, and does not touch it if of its type. *)
Apart(k, l) ==
  k.len # 0 /\ End(k) <= l.start /\ (k.type = l.type => End(k) < l.start)

Neat(ls) == \A k, l \in ls : k # l => Apart(k, l) \/ Apart(l, k)

(* K ends where L ends or before: what is apart from L is apart from K. *)
Below(k, l) ==
  \/ l.len = 0
  \/ k.len # 0 /\ End(k) <= End(l) /\ (k.type = l.type \/ End(k) < End(l))

(* K starts where L or the rest of the request does, or later. *)
StartsAt(c, l, type, k) ==
  \/ k.type = l.type /\ l.start <= k.start
  \/ k.type = type /\ c.start <= k.start

rest_of(d, type) == region(d.start, d.len, type, {})

(* What a turn leaves behind keeps the list canonical. *)
Fits(c, l, type, s, n, new, done) ==
  /\ Neat(new)
  /\ \A k \in new : Below(k, l) /\ StartsAt(c, l, type, k)
  /\ ~done /\ type # "un" =>
       /\ \A k \in new : \/ Apart(k, region(s, n, type, {}))
                         \/ Apart(region(s, n, type, {}), k)
       /\ StartsAt(c, l, type, region(s, n, type, {}))

Neatly(c, l, type, d) ==
  \E s, n \in Nat, new \in SUBSET Regions, roused \in SUBSET Threads,
     done, err \in BOOLEAN :
    /\ Moves(c, d, s, n, new, roused, done, err)
    /\ Fits(c, l, type, s, n, new, done)

LEMMA NeatOne ==
  ASSUME NEW x PROVE Neat({x})
BY DEF Neat

LEMMA NeatTwo ==
  ASSUME NEW x, NEW y, Apart(x, y) PROVE Neat({x, y})
BY DEF Neat

LEMMA NeatThree ==
  ASSUME NEW x, NEW y, NEW z, Apart(x, y), Apart(y, z), Apart(x, z)
  PROVE  Neat({x, y, z})
BY DEF Neat

LEMMA KeepFits ==
  ASSUME NEW c \in Loops, NEW l \in Regions, NEW type
  PROVE  Fits(c, l, type, c.start, c.len, {l}, TRUE)
<1>1. l.start \in Nat /\ l.len \in Nat
  BY DEF Regions
<1> QED BY <1>1, NeatOne DEF Fits, Below, StartsAt, End

LEMMA UnlockNeatly ==
  ASSUME NEW c \in Loops, NEW l \in Regions, NEW d, UnlockMoves(c, l, d)
  PROVE  Neatly(c, l, "un", d)
<1> DEFINE start == c.start
           len   == c.len
           end   == start + len
           rest  == IF l.len = 0 THEN 0 ELSE End(l) - end
           x == region(end, rest, l.type, {})
           y == region(l.start, start - l.start, l.type, {})
           z == region(l.start, start - l.start, l.type, l.wait)
<1>1. /\ start \in Nat /\ len \in Nat /\ c.err \in BOOLEAN /\ c.done \in BOOLEAN
      /\ l.start \in Nat /\ l.len \in Nat /\ l.type \in {"rd", "wr"}
      /\ l.wait \in SUBSET Threads /\ end \in Nat /\ End(l) = l.start + l.len
  BY DEF Loops, Regions, End
<1>2. CASE \E done, err \in BOOLEAN : Moves(c, d, start, len, {l}, {}, done, err)
  <2>1. PICK done \in BOOLEAN, err \in BOOLEAN :
          Moves(c, d, start, len, {l}, {}, done, err)
    BY <1>2
  <2>2. Fits(c, l, "un", start, len, {l}, done)
    BY KeepFits DEF Fits
  <2>3. {l} \in SUBSET Regions /\ {} \in SUBSET Threads
    OBVIOUS
  <2> QED BY <1>1, <2>1, <2>2, <2>3 DEF Neatly
<1>3. CASE Moves(c, d, start, len, {}, l.wait, FALSE, c.err)
  <2>1. Fits(c, l, "un", start, len, {}, FALSE)
    BY DEF Fits, Neat
  <2>2. {} \in SUBSET Regions
    OBVIOUS
  <2> QED BY <1>1, <1>3, <2>1, <2>2 DEF Neatly
<1>4. CASE /\ len # 0 /\ start <= l.start /\ l.start < end
           /\ l.len = 0 \/ end < End(l)
           /\ Moves(c, d, start, len, {x}, l.wait, FALSE, c.err)
  <2>1. rest \in Nat /\ x \in Regions
    BY <1>1, <1>4, RegionTyped
  <2>2. x.start = end /\ x.len = rest /\ x.type = l.type
    BY RegionFields
  <2>3. Below(x, l) /\ StartsAt(c, l, "un", x)
    BY <1>1, <1>4, <2>2 DEF Below, StartsAt, End
  <2> HIDE DEF x
  <2>4. Fits(c, l, "un", start, len, {x}, FALSE)
    BY <2>3, NeatOne DEF Fits
  <2>5. {x} \in SUBSET Regions
    BY <2>1
  <2> QED BY <1>1, <1>4, <2>4, <2>5 DEF Neatly
<1>5. CASE /\ l.start < start /\ (l.len # 0 => start < End(l))
           /\ Moves(c, d, start, len, {y}, l.wait, FALSE, c.err)
  <2>1. start - l.start \in Nat
    BY <1>1, <1>5
  <2>2. y \in Regions
    BY <1>1, <2>1, RegionTyped
  <2>3. y.start = l.start /\ y.len = start - l.start /\ y.type = l.type
    BY RegionFields
  <2>4. Below(y, l) /\ StartsAt(c, l, "un", y)
    BY <1>1, <1>5, <2>3 DEF Below, StartsAt, End
  <2> HIDE DEF y
  <2>5. Fits(c, l, "un", start, len, {y}, FALSE)
    BY <2>4, NeatOne DEF Fits
  <2>6. {y} \in SUBSET Regions
    BY <2>2
  <2> QED BY <1>1, <1>5, <2>5, <2>6 DEF Neatly
<1>6. CASE /\ len # 0 /\ l.start < start /\ (l.len = 0 \/ end < End(l))
           /\ Moves(c, d, start, len, {z, x}, {}, TRUE, c.err)
  <2>1. start - l.start \in Nat /\ rest \in Nat
    BY <1>1, <1>6
  <2>2. x \in Regions /\ z \in Regions
    BY <1>1, <2>1, RegionTyped
  <2>3. /\ x.start = end /\ x.len = rest /\ x.type = l.type
        /\ z.start = l.start /\ z.len = start - l.start /\ z.type = l.type
    BY RegionFields
  <2> HIDE DEF x, z
  <2>4. /\ StartsAt(c, l, "un", x) /\ StartsAt(c, l, "un", z) /\ Apart(z, x)
    BY <1>1, <1>6, <2>3 DEF StartsAt, Apart, End
  <2>7. Below(x, l)
    BY <1>1, <1>6, <2>3 DEF Below, End
  <2>8. Below(z, l)
    BY <1>1, <1>6, <2>3 DEF Below, End
  <2>5. Fits(c, l, "un", start, len, {z, x}, TRUE)
    BY <2>4, <2>7, <2>8, NeatTwo DEF Fits
  <2>6. {z, x} \in SUBSET Regions /\ {} \in SUBSET Threads
    BY <2>2
  <2> QED BY <1>1, <1>6, <2>5, <2>6 DEF Neatly
<1> HIDE DEF Moves
<1> QED BY <1>1, <1>2, <1>3, <1>4, <1>5, <1>6 DEF UnlockMoves

LEMMA SplitNeatly ==
  ASSUME NEW c \in Loops, NEW l \in Regions, NEW d, NEW type \in {"rd", "wr"},
         within(c, l), SplitMoves(c, l, type, d)
  PROVE  Neatly(c, l, type, d)
<1> DEFINE start == c.start
           len   == c.len
           end   == start + len
           rest  == IF l.len = 0 THEN 0 ELSE End(l) - end
           before == l.start < start
           x == region(l.start, start - l.start, "rd", {})
           y == region(end, rest, "rd", {})
           z == region(start, len, "wr", l.wait)
           r == region(start, len, type, {})
           head == only(before, x)
<1>1. /\ start \in Nat /\ len \in Nat /\ before \in BOOLEAN
      /\ l.start \in Nat /\ l.len \in Nat /\ l.type \in {"rd", "wr"}
      /\ l.wait \in SUBSET Threads /\ end \in Nat /\ End(l) = l.start + l.len
  BY DEF Loops, Regions, End
<1>2. /\ l.start <= start
      /\ l.len = 0 \/ (len # 0 /\ end <= End(l))
  BY DEF within
<1>3. /\ x.start = l.start /\ x.len = start - l.start /\ x.type = "rd"
      /\ y.start = end /\ y.len = rest /\ y.type = "rd"
      /\ z.start = start /\ z.len = len /\ z.type = "wr"
      /\ r.start = start /\ r.len = len /\ r.type = type
  BY RegionFields
<1>4. before => x \in Regions
  <2>1. before => start - l.start \in Nat
    BY <1>1
  <2>2. {} \in SUBSET Threads
    OBVIOUS
  <2> QED BY <1>1, <2>1, <2>2, RegionTyped
<1>5. CASE \E err \in BOOLEAN : Moves(c, d, start, len, {l}, {}, TRUE, err)
  <2>1. {l} \in SUBSET Regions /\ {} \in SUBSET Threads
    OBVIOUS
  <2> QED BY <1>1, <1>5, <2>1, KeepFits DEF Neatly
<1>6. CASE /\ type = "wr" /\ l.type = "rd" /\ len # 0
           /\ l.len = 0 \/ end < End(l)
           /\ Moves(c, d, start, len, head \cup {y, z}, {}, TRUE, FALSE)
  <2>1. rest \in Nat /\ y \in Regions /\ z \in Regions
    BY <1>1, <1>6, RegionTyped
  <2>2. /\ Below(y, l) /\ StartsAt(c, l, type, y)
        /\ Below(z, l) /\ StartsAt(c, l, type, z) /\ Apart(z, y)
        /\ before => /\ Below(x, l) /\ StartsAt(c, l, type, x)
                     /\ Apart(x, z) /\ Apart(x, y)
    BY <1>1, <1>2, <1>3, <1>6 DEF Below, StartsAt, Apart, End
  <2> HIDE DEF x, y, z, before
  <2>3. CASE before
    <3>1. head \cup {y, z} = {x, z, y}
      BY <2>3 DEF only
    <3>2. Fits(c, l, type, start, len, {x, z, y}, TRUE)
      BY <2>2, <2>3, NeatThree DEF Fits
    <3>3. {x, z, y} \in SUBSET Regions /\ {} \in SUBSET Threads
      BY <1>4, <2>1, <2>3
    <3> HIDE DEF head
    <3> QED BY <1>1, <1>6, <3>1, <3>2, <3>3 DEF Neatly
  <2>4. CASE ~before
    <3>1. head \cup {y, z} = {z, y}
      BY <2>4 DEF only
    <3>2. Fits(c, l, type, start, len, {z, y}, TRUE)
      BY <2>2, NeatTwo DEF Fits
    <3>3. {z, y} \in SUBSET Regions /\ {} \in SUBSET Threads
      BY <2>1
    <3> HIDE DEF head
    <3> QED BY <1>1, <1>6, <3>1, <3>2, <3>3 DEF Neatly
  <2> QED BY <1>1, <2>3, <2>4
<1>7. CASE /\ type = "wr" /\ l.type = "rd"
           /\ Moves(c, d, start, len, head, l.wait, FALSE, FALSE)
  <2>1. /\ before => Below(x, l) /\ StartsAt(c, l, type, x) /\ Apart(x, r)
        /\ StartsAt(c, l, type, r)
    BY <1>1, <1>2, <1>3, <1>7 DEF Below, StartsAt, Apart, End
  <2>2. \A k \in head : k = x /\ before
    BY DEF only
  <2>3. head \in SUBSET Regions
    BY <1>4, <2>2
  <2> HIDE DEF x, before, head, r
  <2>4. Neat(head)
    BY <2>2 DEF Neat
  <2>5. Fits(c, l, type, start, len, head, FALSE)
    BY <2>1, <2>2, <2>4 DEF Fits, r
  <2> QED BY <1>1, <1>7, <2>3, <2>5 DEF Neatly
<1> HIDE DEF Moves
<1> QED BY <1>5, <1>6, <1>7 DEF SplitMoves

LEMMA SwallowNeatly ==
  ASSUME NEW c \in Loops, NEW l \in Regions, NEW d, NEW type \in {"rd", "wr"},
         wraps(c, l), SwallowMoves(c, l, type, d)
  PROVE  Neatly(c, l, type, d)
<1> DEFINE start == c.start
           len   == c.len
           end   == start + len
           rest  == IF len = 0 THEN 0 ELSE end - End(l)
           before == start < l.start
           x == region(start, l.start - start, "rd", {})
           r == region(start, len, type, {})
           q == region(End(l), rest, type, {})
           head == only(before, x)
<1>1. /\ start \in Nat /\ len \in Nat /\ before \in BOOLEAN
      /\ l.start \in Nat /\ l.len \in Nat /\ l.type \in {"rd", "wr"}
      /\ l.wait \in SUBSET Threads /\ end \in Nat /\ End(l) = l.start + l.len
  BY DEF Loops, Regions, End
<1>2. start <= l.start
  BY DEF wraps
<1>3. /\ x.start = start /\ x.len = l.start - start /\ x.type = "rd"
      /\ r.start = start /\ r.len = len /\ r.type = type
      /\ q.start = End(l) /\ q.len = rest /\ q.type = type
  BY RegionFields
<1>4. before => x \in Regions
  <2>1. before => l.start - start \in Nat
    BY <1>1
  <2>2. {} \in SUBSET Threads
    OBVIOUS
  <2> QED BY <1>1, <2>1, <2>2, RegionTyped
<1>5. CASE Moves(c, d, start, len, {}, l.wait, FALSE, FALSE)
  <2> HIDE DEF r
  <2>1. Fits(c, l, type, start, len, {}, FALSE)
    <3>1. StartsAt(c, l, type, r)
      BY <1>1, <1>3 DEF StartsAt
    <3> QED BY <3>1 DEF Fits, Neat, r
  <2>2. {} \in SUBSET Regions
    OBVIOUS
  <2> QED BY <1>1, <1>5, <2>1, <2>2 DEF Neatly
<1>6. CASE Moves(c, d, start, len, {l}, {}, TRUE, TRUE)
  <2>1. {l} \in SUBSET Regions /\ {} \in SUBSET Threads
    OBVIOUS
  <2> QED BY <1>1, <1>6, <2>1, KeepFits DEF Neatly
<1>7. ASSUME before, l.type = "wr", type = "rd"
      PROVE  Below(x, l) /\ StartsAt(c, l, type, x) /\ Apart(x, l)
  <2> HIDE DEF x
  <2> QED BY <1>1, <1>2, <1>3, <1>7 DEF Below, StartsAt, Apart, End
<1>8. Below(l, l) /\ StartsAt(c, l, type, l)
  BY <1>1 DEF Below, StartsAt, End
<1>9. CASE /\ type = "rd" /\ l.type = "wr" /\ l.len # 0
           /\ len = 0 \/ End(l) < end
           /\ Moves(c, d, End(l), rest, head \cup {l}, {}, FALSE, FALSE)
  <2>1. rest \in Nat /\ End(l) \in Nat
    BY <1>1, <1>9
  <2> HIDE DEF q, x
  <2>2. StartsAt(c, l, type, q) /\ Apart(l, q)
    BY <1>1, <1>2, <1>3, <1>9 DEF StartsAt, Apart, End
  <2>3. before => Apart(x, q)
    BY <1>1, <1>2, <1>3, <1>9 DEF Apart, End
  <2> HIDE DEF before
  <2>4. \A k \in head : k = x /\ before
    BY DEF only
  <2>5. head \cup {l} \in SUBSET Regions /\ {} \in SUBSET Threads
    BY <1>4, <2>4
  <2> HIDE DEF head
  <2>6. Neat(head \cup {l})
    BY <1>7, <1>9, <2>4 DEF Neat
  <2>7. Fits(c, l, type, End(l), rest, head \cup {l}, FALSE)
    BY <1>7, <1>8, <1>9, <2>2, <2>3, <2>4, <2>6 DEF Fits, q
  <2> QED BY <1>9, <2>1, <2>5, <2>7 DEF Neatly
<1>10. CASE /\ type = "rd" /\ l.type = "wr" /\ before
            /\ Moves(c, d, start, len, {x, l}, {}, TRUE, FALSE)
  <2> HIDE DEF x
  <2>1. Fits(c, l, type, start, len, {x, l}, TRUE)
    BY <1>7, <1>8, <1>10, NeatTwo DEF Fits
  <2>2. {x, l} \in SUBSET Regions /\ {} \in SUBSET Threads
    BY <1>4, <1>10
  <2> QED BY <1>1, <1>10, <2>1, <2>2 DEF Neatly
<1> HIDE DEF Moves
<1> QED BY <1>5, <1>6, <1>9, <1>10 DEF SwallowMoves

LEMMA UpNeatly ==
  ASSUME NEW c \in Loops, NEW l \in Regions, NEW d, NEW type \in {"rd", "wr"},
         starts_in(c, l), UpMoves(c, l, type, d)
  PROVE  Neatly(c, l, type, d)
<1> DEFINE start == c.start
           len   == c.len
           end   == start + len
           low   == IF len = 0 THEN 0 ELSE end - l.start
           rest  == IF len = 0 THEN 0 ELSE end - End(l)
           x == region(l.start, start - l.start, "rd", l.wait)
           r == region(start, len, type, {})
           p == region(l.start, low, type, {})
           q == region(End(l), rest, type, {})
<1>1. /\ start \in Nat /\ len \in Nat
      /\ l.start \in Nat /\ l.len \in Nat /\ l.type \in {"rd", "wr"}
      /\ l.wait \in SUBSET Threads /\ end \in Nat /\ End(l) = l.start + l.len
  BY DEF Loops, Regions, End
<1>2. /\ l.start < start /\ start <= End(l) /\ l.len # 0
      /\ len = 0 \/ end > End(l)
  BY <1>1 DEF starts_in
<1>3. /\ x.start = l.start /\ x.len = start - l.start /\ x.type = "rd"
      /\ r.start = start /\ r.len = len /\ r.type = type
      /\ p.start = l.start /\ p.len = low /\ p.type = type
      /\ q.start = End(l) /\ q.len = rest /\ q.type = type
  BY RegionFields
<1>4. /\ low \in Nat /\ rest \in Nat /\ start - l.start \in Nat
      /\ End(l) \in Nat /\ x \in Regions
  BY <1>1, <1>2, RegionTyped
<1>5. Below(l, l) /\ StartsAt(c, l, type, l)
  BY <1>1 DEF Below, StartsAt, End
<1>6. {l} \in SUBSET Regions /\ {} \in SUBSET Regions /\ {} \in SUBSET Threads
      /\ {x} \in SUBSET Regions
  BY <1>4
<1> HIDE DEF x, r, p, q
<1>7. CASE type = l.type /\ Moves(c, d, l.start, low, {}, l.wait, FALSE, FALSE)
  <2>1. StartsAt(c, l, type, p)
    BY <1>1, <1>3, <1>7 DEF StartsAt
  <2>2. Fits(c, l, type, l.start, low, {}, FALSE)
    BY <2>1 DEF Fits, Neat, p
  <2> QED BY <1>1, <1>4, <1>6, <1>7, <2>2 DEF Neatly
<1>8. CASE /\ type # l.type /\ start = End(l)
           /\ Moves(c, d, start, len, {l}, {}, FALSE, FALSE)
  <2>1. StartsAt(c, l, type, r) /\ Apart(l, r)
    BY <1>1, <1>2, <1>3, <1>8 DEF StartsAt, Apart
  <2>2. Fits(c, l, type, start, len, {l}, FALSE)
    BY <1>5, <2>1, NeatOne DEF Fits, r
  <2> QED BY <1>1, <1>6, <1>8, <2>2 DEF Neatly
<1>9. CASE /\ type = "wr" /\ l.type = "rd"
           /\ Moves(c, d, start, len, {x}, {}, FALSE, FALSE)
  <2>1. StartsAt(c, l, type, r) /\ Apart(x, r)
    BY <1>1, <1>2, <1>3, <1>9 DEF StartsAt, Apart, End
  <2>2. Below(x, l) /\ StartsAt(c, l, type, x)
    BY <1>1, <1>2, <1>3, <1>9 DEF StartsAt, Below, End
  <2>3. Fits(c, l, type, start, len, {x}, FALSE)
    BY <2>1, <2>2, NeatOne DEF Fits, r
  <2> QED BY <1>1, <1>6, <1>9, <2>3 DEF Neatly
<1>10. CASE /\ type = "rd" /\ l.type = "wr"
            /\ Moves(c, d, End(l), rest, {l}, {}, FALSE, FALSE)
  <2>1. StartsAt(c, l, type, q) /\ Apart(l, q)
    BY <1>1, <1>2, <1>3, <1>10 DEF StartsAt, Apart
  <2>2. Fits(c, l, type, End(l), rest, {l}, FALSE)
    BY <1>5, <2>1, NeatOne DEF Fits, q
  <2> QED BY <1>1, <1>4, <1>6, <1>10, <2>2 DEF Neatly
<1> HIDE DEF Moves
<1> QED BY <1>7, <1>8, <1>9, <1>10 DEF UpMoves, x

LEMMA DownNeatly ==
  ASSUME NEW c \in Loops, NEW l \in Regions, NEW d, NEW type \in {"rd", "wr"},
         ends_in(c, l), NoGap(c, l, type), DownMoves(c, l, type, d)
  PROVE  Neatly(c, l, type, d)
<1> DEFINE start == c.start
           len   == c.len
           end   == start + len
           up    == IF l.len = 0 THEN 0 ELSE End(l) - start
           rest  == IF l.len = 0 THEN 0 ELSE End(l) - end
           v     == region(start, up, type, l.wait)
           x     == region(start, len, "wr", {})
           y     == region(end, rest, "rd", l.wait)
           z     == region(start, l.start - start, "rd", {})
           r     == region(start, len, type, {})
<1>1. /\ start \in Nat /\ len \in Nat
      /\ l.start \in Nat /\ l.len \in Nat /\ l.type \in {"rd", "wr"}
      /\ l.wait \in SUBSET Threads /\ end \in Nat /\ End(l) = l.start + l.len
  BY DEF Loops, Regions, End
<1>2. /\ start < l.start /\ len # 0 /\ (l.len = 0 \/ end < End(l))
      /\ l.start <= end
  BY <1>1 DEF ends_in, DownMoves, NoGap
<1>3. up \in Nat /\ rest \in Nat /\ l.start - start \in Nat
  BY <1>1, <1>2
<1>4. v \in Regions /\ x \in Regions /\ y \in Regions /\ z \in Regions
  BY <1>1, <1>3, RegionTyped
<1>5. /\ v.start = start /\ v.len = up /\ v.type = type
      /\ x.start = start /\ x.len = len /\ x.type = "wr"
      /\ y.start = end /\ y.len = rest /\ y.type = "rd"
      /\ z.start = start /\ z.len = l.start - start /\ z.type = "rd"
      /\ r.start = start /\ r.len = len /\ r.type = type
  BY RegionFields
<1> HIDE DEF v, x, y, z, r
<1>6. Below(l, l) /\ StartsAt(c, l, type, l)
  BY <1>1 DEF Below, StartsAt, End
<1>7. CASE type = l.type /\ Moves(c, d, start, len, {v}, {}, TRUE, FALSE)
  <2>1. Below(v, l) /\ StartsAt(c, l, type, v)
    BY <1>1, <1>2, <1>5, <1>7 DEF Below, StartsAt, End
  <2>2. Fits(c, l, type, start, len, {v}, TRUE)
    BY <2>1, NeatOne DEF Fits
  <2>3. {v} \in SUBSET Regions /\ {} \in SUBSET Threads
    BY <1>4
  <2> QED BY <1>1, <1>7, <2>2, <2>3 DEF Neatly
<1>8. CASE /\ type # l.type /\ l.start = end
           /\ Moves(c, d, start, len, {l}, {}, FALSE, FALSE)
  <2>1. StartsAt(c, l, type, r) /\ Apart(r, l)
    BY <1>1, <1>2, <1>5, <1>8 DEF StartsAt, Apart, End
  <2>2. Fits(c, l, type, start, len, {l}, FALSE)
    BY <1>6, <2>1, NeatOne DEF Fits, r
  <2>3. {l} \in SUBSET Regions /\ {} \in SUBSET Threads
    OBVIOUS
  <2> QED BY <1>1, <1>8, <2>2, <2>3 DEF Neatly
<1>9. CASE Moves(c, d, start, len, {l}, {}, TRUE, TRUE)
  <2>1. {l} \in SUBSET Regions /\ {} \in SUBSET Threads
    OBVIOUS
  <2> QED BY <1>1, <1>9, <2>1, KeepFits DEF Neatly
<1>10. CASE /\ type = "wr" /\ l.type = "rd"
            /\ Moves(c, d, start, len, {x, y}, {}, TRUE, FALSE)
  <2>1. Below(x, l)
    BY <1>1, <1>2, <1>5, <1>10 DEF Below, End
  <2>2. Below(y, l)
    BY <1>1, <1>2, <1>5, <1>10 DEF Below, End
  <2>3. StartsAt(c, l, type, x) /\ StartsAt(c, l, type, y) /\ Apart(x, y)
    BY <1>1, <1>2, <1>5, <1>10 DEF StartsAt, Apart, End
  <2>4. Fits(c, l, type, start, len, {x, y}, TRUE)
    BY <2>1, <2>2, <2>3, NeatTwo DEF Fits
  <2>5. {x, y} \in SUBSET Regions /\ {} \in SUBSET Threads
    BY <1>4
  <2> QED BY <1>1, <1>10, <2>4, <2>5 DEF Neatly
<1>11. CASE /\ type = "rd" /\ l.type = "wr"
            /\ Moves(c, d, start, len, {z, l}, {}, TRUE, FALSE)
  <2>1. Below(z, l) /\ StartsAt(c, l, type, z) /\ Apart(z, l)
    BY <1>1, <1>2, <1>5, <1>11 DEF Below, StartsAt, Apart, End
  <2>2. Fits(c, l, type, start, len, {z, l}, TRUE)
    BY <1>6, <2>1, NeatTwo DEF Fits
  <2>3. {z, l} \in SUBSET Regions /\ {} \in SUBSET Threads
    BY <1>4
  <2> QED BY <1>1, <1>11, <2>2, <2>3 DEF Neatly
<1> HIDE DEF Moves
<1> QED BY <1>7, <1>8, <1>9, <1>10, <1>11 DEF DownMoves, v, x, y, z

(* A turn that does not leave the loop. *)
Active(c, l, type) ==
  /\ type # "un" => ~c.done /\ ~c.stop /\ (c.len = 0 \/ l.start <= c.start + c.len)

(* A turn that leaves the region as it is, because the loop was left or    *)
(* leaves it now, or the region lies before the request.                   *)
Passes(c, l, d) ==
  /\ d \in Loops /\ d.start = c.start /\ d.len = c.len
  /\ d.list = c.list \cup {l}
  /\ \/ c.done /\ d.done /\ d.stop = c.stop
     \/ ~c.done /\ c.stop /\ ~d.done /\ d.stop
     \/ ~c.done /\ c.len # 0 /\ c.start + c.len < l.start /\ ~d.done
     \/ /\ ~c.done /\ ~c.stop /\ l.len # 0 /\ End(l) < c.start
        /\ ~d.done /\ ~d.stop

LEMMA TurnNeatly ==
  ASSUME NEW c \in Loops, c.err => c.done, NEW l \in Regions,
         NEW type \in {"un", "rd", "wr"}, NoGap(c, l, type)
  PROVE  \/ Active(c, l, type) /\ Neatly(c, l, type, turn(c, l, type))
         \/ type # "un" /\ Passes(c, l, turn(c, l, type))
<1> DEFINE d == turn(c, l, type)
<1>1. CASE type = "un"
  BY <1>1, UnlockOne, UnlockNeatly DEF turn, Active
<1>2. CASE type \in {"rd", "wr"}
  <2>1. d = merge_one(c, l, type)
    BY <1>2 DEF turn
  <2>2. MergeMoves(c, l, type, d)
    BY <1>2, <2>1, MergeOne
  <2> HIDE DEF d
  <2>3. /\ c.start \in Nat /\ c.len \in Nat /\ c.done \in BOOLEAN
        /\ c.stop \in BOOLEAN /\ l.start \in Nat /\ l.len \in Nat
        /\ End(l) = l.start + l.len
    BY DEF Loops, Regions, End
  <2>4. CASE /\ c.done \/ c.stop
             /\ Moves(c, d, c.start, c.len, {l}, {}, c.done, c.err)
    BY <1>2, <2>3, <2>4 DEF Passes, Moves, d
  <2>5. CASE /\ ~c.done /\ ~c.stop /\ c.len # 0 /\ c.start + c.len < l.start
             /\ d \in Loops
             /\ d.start = c.start /\ d.len = c.len
             /\ d.list = c.list \cup {l}
             /\ d.done = FALSE
    BY <1>2, <2>5 DEF Passes, d
  <2>6. CASE /\ ~c.done /\ ~c.stop /\ l.len # 0 /\ End(l) < c.start
             /\ Moves(c, d, c.start, c.len, {l}, {}, FALSE, FALSE)
    BY <1>2, <2>6 DEF Passes, Moves, d
  <2>7. CASE ~c.done /\ ~c.stop /\ within(c, l) /\ SplitMoves(c, l, type, d)
    <3>1. Active(c, l, type)
      BY <2>3, <2>7 DEF Active, within
    <3> QED BY <1>2, <2>7, <3>1, SplitNeatly DEF d
  <2>8. CASE ~c.done /\ ~c.stop /\ wraps(c, l) /\ SwallowMoves(c, l, type, d)
    <3>1. Active(c, l, type)
      BY <2>3, <2>8 DEF Active, wraps
    <3> QED BY <1>2, <2>8, <3>1, SwallowNeatly DEF d
  <2>9. CASE ~c.done /\ ~c.stop /\ starts_in(c, l) /\ UpMoves(c, l, type, d)
    <3>1. Active(c, l, type)
      BY <2>3, <2>9 DEF Active, starts_in
    <3> QED BY <1>2, <2>9, <3>1, UpNeatly DEF d
  <2>10. CASE ~c.done /\ ~c.stop /\ ends_in(c, l) /\ DownMoves(c, l, type, d)
    <3>1. Active(c, l, type)
      BY <1>2, <2>3, <2>10 DEF Active, ends_in, NoGap
    <3> QED BY <1>2, <2>10, <3>1, DownNeatly DEF d
  <2> HIDE DEF Moves, SplitMoves, SwallowMoves, UpMoves, DownMoves
  <2> QED BY <2>2, <2>4, <2>5, <2>6, <2>7, <2>8, <2>9, <2>10 DEF MergeMoves
<1> QED BY <1>1, <1>2

(* What a loop past the regions LS keeps of the canonical form: the rest   *)
(* of the request is apart from every region that is left behind.          *)
Tidy(ls, type, d) ==
  /\ d.list \in SUBSET Regions /\ Neat(d.list)
  /\ \A k \in d.list : \E l \in ls : Below(k, l)
  /\ ~d.done /\ type # "un" =>
       \A k \in d.list : Apart(k, rest_of(d, type)) \/ Apart(rest_of(d, type), k)
  /\ d.stop => d.len # 0 /\ \E l \in ls : d.start + d.len < l.start

LEMMA LastApart ==
  ASSUME NEW ls \in SUBSET Regions, Neat(ls), NEW l \in ls,
         \A k \in ls : k.start <= l.start, NEW k \in ls, k # l
  PROVE  Apart(k, l)
<1>1. /\ k.start \in Nat /\ k.len \in Nat /\ l.start \in Nat /\ l.len \in Nat
      /\ k.start <= l.start
  BY DEF Regions
<1> QED BY <1>1 DEF Neat, Apart, End

LEMMA BelowApart ==
  ASSUME NEW k \in Regions, NEW l \in Regions, NEW m \in Regions,
         Below(k, l), Apart(l, m)
  PROVE  Apart(k, m)
<1>1. /\ k.start \in Nat /\ k.len \in Nat /\ l.start \in Nat /\ l.len \in Nat
      /\ m.start \in Nat
  BY DEF Regions
<1> QED BY <1>1 DEF Below, Apart, End

(* A region left behind is before the rest of the request, unless it lies  *)
(* behind it, and then so does the next region.                            *)
LEMMA RestAhead ==
  ASSUME NEW k \in Regions, NEW l \in Regions, NEW s \in Nat, NEW n \in Nat,
         NEW type, n = 0 \/ l.start <= s + n, Apart(k, l),
         \/ Apart(k, region(s, n, type, {})) \/ Apart(region(s, n, type, {}), k)
  PROVE  Apart(k, region(s, n, type, {}))
<1>1. /\ k.start \in Nat /\ k.len \in Nat /\ l.start \in Nat /\ l.len \in Nat
  BY DEF Regions
<1>2. /\ region(s, n, type, {}).start = s /\ region(s, n, type, {}).len = n
  BY RegionFields
<1> QED BY <1>1, <1>2 DEF Apart, End

(* What starts no earlier than L or the rest is apart from what both are.  *)
LEMMA StartsApart ==
  ASSUME NEW c \in Loops, NEW l \in Regions, NEW k \in Regions, NEW type, NEW m,
         m.start \in Nat, StartsAt(c, l, type, m), Apart(k, l),
         type # "un" => Apart(k, rest_of(c, type)), m.type # "un"
  PROVE  Apart(k, m)
<1>1. /\ k.start \in Nat /\ k.len \in Nat /\ l.start \in Nat /\ c.start \in Nat
  BY DEF Regions, Loops
<1>2. /\ rest_of(c, type).start = c.start /\ rest_of(c, type).type = type
  BY RegionFields DEF rest_of
<1> QED BY <1>1, <1>2 DEF StartsAt, Apart, End

LEMMA TidyPast ==
  ASSUME NEW ls \in SUBSET Regions, NEW l \in ls, NEW c \in Loops,
         NEW type \in {"rd", "wr"}, \A k \in ls : k.start <= l.start,
         Tidy(ls \ {l}, type, c), \A k \in c.list : Apart(k, l),
         NEW d, Passes(c, l, d)
  PROVE  Tidy(ls, type, d)
<1> DEFINE r == rest_of(c, type)
<1>1. /\ d.start = c.start /\ d.len = c.len /\ d.list = c.list \cup {l}
      /\ l \in Regions /\ c.list \in SUBSET Regions
  BY DEF Passes, Tidy
<1>2. /\ l.start \in Nat /\ l.len \in Nat /\ c.start \in Nat /\ c.len \in Nat
      /\ c.done \in BOOLEAN /\ c.stop \in BOOLEAN
  BY <1>1 DEF Regions, Loops
<1>3. rest_of(d, type) = r /\ r.start = c.start /\ r.len = c.len
  BY <1>1, RegionFields DEF rest_of
<1> HIDE DEF r
<1>4. Neat(d.list)
  BY <1>1 DEF Tidy, Neat
<1>5. \A k \in d.list : \E m \in ls : Below(k, m)
  <2>1. Below(l, l)
    BY <1>2 DEF Below, End
  <2> QED BY <1>1, <2>1 DEF Tidy
<1>6. d.stop => d.len # 0 /\ \E m \in ls : d.start + d.len < m.start
  <2>1. CASE c.stop
    BY <1>1, <2>1 DEF Tidy
  <2>2. CASE ~c.stop
    BY <1>1, <1>2, <2>2 DEF Passes
  <2> QED BY <1>2, <2>1, <2>2
<1>7. ASSUME ~d.done PROVE Apart(l, r) \/ Apart(r, l)
  <2>1. CASE c.len # 0 /\ c.start + c.len < l.start
    BY <1>2, <1>3, <2>1 DEF Apart, End
  <2>2. CASE l.len # 0 /\ End(l) < c.start
    BY <1>2, <1>3, <2>2 DEF Apart, End
  <2>3. CASE c.stop
    <3>1. PICK m \in ls \ {l} : c.start + c.len < m.start
      BY <2>3 DEF Tidy
    <3>2. c.len # 0 /\ m.start \in Nat /\ m.start <= l.start
      BY <2>3 DEF Tidy, Regions
    <3>3. c.start + c.len < l.start
      BY <1>2, <3>1, <3>2
    <3> QED BY <2>1, <3>2, <3>3
  <2> QED BY <1>7, <2>1, <2>2, <2>3 DEF Passes
<1>8. ~d.done => ~c.done
  BY DEF Passes
<1>9. ~d.done => \A k \in d.list : Apart(k, r) \/ Apart(r, k)
  <2>1. ~c.done => \A k \in c.list : Apart(k, r) \/ Apart(r, k)
    BY DEF Tidy, r
  <2> QED BY <1>1, <1>7, <1>8, <2>1
<1> QED BY <1>1, <1>3, <1>4, <1>5, <1>6, <1>9 DEF Tidy

LEMMA TidyFits ==
  ASSUME NEW ls \in SUBSET Regions, NEW l \in ls, NEW c \in Loops,
         NEW type \in {"un", "rd", "wr"}, Active(c, l, type), type = "un" => ~c.stop,
         Tidy(ls \ {l}, type, c), \A k \in c.list : Apart(k, l),
         NEW d, Neatly(c, l, type, d)
  PROVE  Tidy(ls, type, d) /\ d.stop = c.stop
<1>1. PICK s \in Nat, n \in Nat, new \in SUBSET Regions,
           roused \in SUBSET Threads, done \in BOOLEAN, err \in BOOLEAN :
        /\ Moves(c, d, s, n, new, roused, done, err)
        /\ Fits(c, l, type, s, n, new, done)
  BY DEF Neatly
<1> DEFINE r == rest_of(c, type)
           q == region(s, n, type, {})
<1>2. /\ d.start = s /\ d.len = n /\ d.list = c.list \cup new /\ d.done = done
      /\ d.stop = c.stop /\ c.stop \in BOOLEAN
  BY <1>1 DEF Moves, Loops
<1>3. l \in Regions /\ c.list \in SUBSET Regions /\ ~c.stop
  BY <1>2 DEF Tidy, Active
<1>4. /\ Neat(new)
      /\ \A k \in new : Below(k, l) /\ StartsAt(c, l, type, k)
      /\ ~done /\ type # "un" => /\ \A k \in new : Apart(k, q) \/ Apart(q, k)
                                 /\ StartsAt(c, l, type, q)
  BY <1>1 DEF Fits
<1>5. q.start = s /\ q.len = n /\ q.type = type /\ rest_of(d, type) = q
  BY <1>2, RegionFields DEF rest_of
<1>6. ASSUME type # "un", NEW k \in c.list PROVE Apart(k, r)
  <2>1. c.start \in Nat /\ c.len \in Nat
    BY DEF Loops
  <2>2. Apart(k, r) \/ Apart(r, k)
    BY <1>6 DEF Tidy, Active
  <2>3. c.len = 0 \/ l.start <= c.start + c.len
    BY <1>6 DEF Active
  <2> QED BY <1>3, <1>6, <2>1, <2>2, <2>3, RestAhead DEF rest_of
<1> HIDE DEF r, q
<1>7. ASSUME NEW k \in c.list, NEW m \in new PROVE Apart(k, m)
  <2>1. m.start \in Nat /\ m.type # "un" /\ k \in Regions
    BY <1>3 DEF Regions
  <2> QED BY <1>3, <1>4, <1>6, <2>1, StartsApart DEF r
<1>8. Neat(d.list)
  BY <1>2, <1>4, <1>7 DEF Tidy, Neat
<1>9. \A k \in d.list : \E m \in ls : Below(k, m)
  BY <1>2, <1>4 DEF Tidy
<1>10. ASSUME ~d.done, type # "un", NEW k \in d.list
       PROVE  Apart(k, q) \/ Apart(q, k)
  <2>1. CASE k \in new
    BY <1>2, <1>4, <1>10, <2>1
  <2>2. CASE k \in c.list
    <3>1. StartsAt(c, l, type, q) /\ q.start \in Nat /\ q.type # "un"
      BY <1>2, <1>4, <1>5, <1>10
    <3>2. k \in Regions /\ Apart(k, l) /\ Apart(k, rest_of(c, type))
      BY <1>3, <1>6, <1>10, <2>2 DEF r
    <3> QED BY <1>3, <3>1, <3>2, StartsApart
  <2> QED BY <1>2, <2>1, <2>2
<1> QED BY <1>2, <1>3, <1>5, <1>8, <1>9, <1>10 DEF Tidy

LEMMA TidyTurn ==
  ASSUME NEW c0 \in Loops, NEW ls \in SUBSET Regions, Neat(ls), NEW l \in ls,
         \A k \in ls : k.start <= l.start, NEW c,
         NEW type \in {"un", "rd", "wr"}, \A k \in ls : NoGap(c0, k, type),
         Looped(c0, ls \ {l}, type, c), Tidy(ls \ {l}, type, c),
         type = "un" => ~c.stop
  PROVE  LET d == turn(c, l, type)
         IN  Tidy(ls, type, d) /\ (type = "un" => ~d.stop)
<1> DEFINE d == turn(c, l, type)
<1>1. /\ c \in Loops /\ (c.err => c.done) /\ SameEnd(c0, c.start, c.len)
      /\ l \in Regions /\ c.list \in SUBSET Regions
  BY DEF Looped, Tidy
<1>2. NoGap(c, l, type)
  BY <1>1 DEF NoGap, SameEnd
<1>3. ASSUME NEW k \in c.list PROVE Apart(k, l)
  <2>1. PICK m \in ls \ {l} : Below(k, m)
    BY DEF Tidy
  <2>2. Apart(m, l)
    BY <2>1, LastApart
  <2> QED BY <1>1, <2>1, <2>2, BelowApart
<1>4. \/ Active(c, l, type) /\ Neatly(c, l, type, d)
      \/ type # "un" /\ Passes(c, l, d)
  BY <1>1, <1>2, TurnNeatly
<1> HIDE DEF d
<1>5. CASE Active(c, l, type) /\ Neatly(c, l, type, d)
  <2>1. \A k \in c.list : Apart(k, l)
    BY <1>3
  <2>2. Tidy(ls, type, d) /\ d.stop = c.stop
    <3>1. c \in Loops /\ Active(c, l, type) /\ Neatly(c, l, type, d)
      BY <1>1, <1>5
    <3> QED BY <2>1, <3>1, TidyFits
  <2> QED BY <2>2 DEF d
<1>6. CASE type # "un" /\ Passes(c, l, d)
  BY <1>1, <1>3, <1>6, TidyPast DEF d
<1> QED BY <1>4, <1>5, <1>6

(* The whole loop, if the request leaves no gap. *)
LEMMA LoopTidy ==
  ASSUME NEW o \in Owners, NEW type \in {"un", "rd", "wr"}, NEW c \in Loops,
         c.list = {}, c.woken = {}, ~c.err, ~c.stop,
         locks[o] \in SUBSET Regions, IsFiniteSet(locks[o]), Neat(locks[o]),
         \A l \in locks[o] : NoGap(c, l, type)
  PROVE  Tidy(locks[o], type, each_region(o, c, type))
<1> DEFINE g == Unroll(locks[o], c, type)
<1>1. /\ Unrolled(g, SUBSET locks[o], c, type)
      /\ each_region(o, c, type) = g[locks[o]]
  BY EachRegion
<1> HIDE DEF g
<1> DEFINE S == locks[o]
<1> DEFINE G == {ls \in SUBSET S : /\ Looped(c, ls, type, g[ls])
                                   /\ Tidy(ls, type, g[ls])
                                   /\ type = "un" => ~g[ls].stop}
<1>2. {} \in G
  <2>1. g[{}] = c
    BY <1>1 DEF Unrolled
  <2>2. Looped(c, {}, type, c)
    BY LoopedNone
  <2>3. Tidy({}, type, c)
    BY DEF Tidy, Neat
  <2> QED BY <2>1, <2>2, <2>3
<1>3. ASSUME NEW ls \in SUBSET S, ls # {}, ls \ {last(ls)} \in G
      PROVE  ls \in G
  <2>1. /\ ls \in SUBSET Regions /\ last(ls) \in ls
        /\ \A k \in ls : k.start <= last(ls).start
    BY <1>3, LastRegion, FS_Subset
  <2>2. g[ls] = turn(g[ls \ {last(ls)}], last(ls), type)
    BY <1>1, <1>3 DEF Unrolled
  <2>3. Neat(ls) /\ \A k \in ls : NoGap(c, k, type)
    BY DEF Neat
  <2>4. /\ Looped(c, ls \ {last(ls)}, type, g[ls \ {last(ls)}])
        /\ Tidy(ls \ {last(ls)}, type, g[ls \ {last(ls)}])
        /\ type = "un" => ~g[ls \ {last(ls)}].stop
    BY <1>3
  <2>5. Looped(c, ls, type, g[ls])
    BY <2>1, <2>2, <2>4, LoopedTurn
  <2>6. Tidy(ls, type, g[ls]) /\ (type = "un" => ~g[ls].stop)
    BY <2>1, <2>2, <2>3, <2>4, TidyTurn
  <2> QED BY <2>5, <2>6
<1> HIDE DEF G
<1>4. S \in G
  BY <1>2, <1>3, ListInduction
<1> QED BY <1>1, <1>4 DEF G

-----------------------------------------------------------------------------
(* A call leaves a canonical list canonical. *)
LEMMA UnlockTidy ==
  ASSUME NEW o \in Owners, NEW start \in Nat, NEW len \in Nat, NEW mem \in Nat,
         locks[o] \in SUBSET Regions, IsFiniteSet(locks[o]), Neat(locks[o])
  PROVE  Neat(unlock_region(o, start, len, mem).list)
<1> DEFINE c == Call(start, len, mem)
<1>1. /\ c \in Loops /\ c.list = {} /\ c.woken = {} /\ ~c.err /\ ~c.stop
  BY DEF Call, Loops
<1>2. \A l \in locks[o] : NoGap(c, l, "un")
  BY DEF NoGap
<1>3. unlock_region(o, start, len, mem) = each_region(o, c, "un")
  BY DEF unlock_region
<1> HIDE DEF c
<1>4. Tidy(locks[o], "un", each_region(o, c, "un"))
  BY <1>1, <1>2, LoopTidy
<1> QED BY <1>3, <1>4 DEF Tidy

LEMMA MergeTidy ==
  ASSUME NEW o \in Owners, NEW start \in Nat, NEW len \in Nat, NEW mem \in Nat,
         NEW type \in {"rd", "wr"}, ~Gap(o, start, len),
         locks[o] \in SUBSET Regions, IsFiniteSet(locks[o]), Neat(locks[o])
  PROVE  Neat(merge_in(o, start, len, type, mem).list)
<1> DEFINE c == Call(start, len, mem)
           d == each_region(o, c, type)
           e == gen_lock(d, d.start, d.len, type)
           x == rest_of(d, type)
<1>1. /\ c \in Loops /\ c.list = {} /\ c.woken = {} /\ ~c.err /\ ~c.stop
      /\ c.start = start /\ c.len = len
  BY DEF Call, Loops
<1>2. \A l \in locks[o] : NoGap(c, l, type)
  BY <1>1 DEF NoGap, Gap
<1>3. merge_in(o, start, len, type, mem) = IF d.done THEN d ELSE e
  BY DEF merge_in
<1> HIDE DEF c
<1>4. Looped(c, locks[o], type, d) /\ Tidy(locks[o], type, d)
  BY <1>1, <1>2, LoopTidy, LoopDone
<1> HIDE DEF d
<1>5. d \in Loops /\ d.start \in Nat /\ d.len \in Nat
  BY <1>4 DEF Looped, Loops
<1>6. \/ Moves(d, e, d.start, d.len, {}, {}, TRUE, TRUE)
      \/ Moves(d, e, d.start, d.len, {x}, {}, d.done, d.err)
  BY <1>5, GenLockMoves DEF fresh, rest_of
<1>7. CASE d.done
  BY <1>3, <1>4, <1>7 DEF Tidy
<1>8. CASE ~d.done
  <2>1. Neat(d.list) /\ \A k \in d.list : Apart(k, x) \/ Apart(x, k)
    BY <1>4, <1>8 DEF Tidy
  <2> HIDE DEF e, x
  <2>2. e.list = d.list \/ e.list = d.list \cup {x}
    BY <1>6 DEF Moves
  <2>3. Neat(e.list)
    BY <2>1, <2>2 DEF Neat
  <2> QED BY <1>3, <1>8, <2>3
<1> QED BY <1>7, <1>8

(* Every list is canonical. *)
AllNeat == \A o \in Owners : Neat(locks[o])

(* Regions that differ in their sleepers only are as far apart. *)
LEMMA SamePlace ==
  ASSUME NEW k, NEW l, NEW m, NEW n,
         k.start = m.start, k.len = m.len, k.type = m.type,
         l.start = n.start, l.len = n.len, l.type = n.type
  PROVE  Apart(k, l) <=> Apart(m, n)
BY DEF Apart, End

LEMMA ApplyNeat ==
  ASSUME Inv, AllNeat, NEW o \in Owners, NEW d, NEW roused, NEW start, NEW len, NEW type, Neat(d.list),
         Apply(o, start, len, type, d, roused)
  PROVE  AllNeat'
<1>1. locks' = [locks EXCEPT ![o] = d.list] /\ DOMAIN locks = Owners
  BY DEF Apply, Inv, Typed
<1>2. locks'[o] = d.list /\ \A p \in Owners : p # o => locks'[p] = locks[p]
  BY <1>1
<1> QED BY <1>2 DEF AllNeat

LEMMA JoinNeat ==
  ASSUME Inv, AllNeat, NEW t \in Threads, NEW o, NEW start, NEW len, NEW type,
         NEW e \in find_conflict(o, start, len, type), Join(t, e)
  PROVE  AllNeat'
<1> DEFINE q == e[1]
           l == e[2]
           x == [l EXCEPT !.wait = @ \cup {t}]
<1>1. q \in Owners /\ l \in locks[q] /\ locks \in [Owners -> SUBSET Regions]
  BY DEF find_conflict, conflicts, Inv, Typed
<1>2. x.start = l.start /\ x.len = l.len /\ x.type = l.type
  BY <1>1 DEF Regions
<1>3. locks' = [locks EXCEPT ![q] = (@ \ {l}) \cup {x}]
  BY DEF Join
<1> HIDE DEF q, l, x
<1>4. /\ locks'[q] = (locks[q] \ {l}) \cup {x}
      /\ \A p \in Owners : p # q => locks'[p] = locks[p]
  BY <1>1, <1>3
<1>5. \A k \in locks[q] \ {l} : Apart(k, x) \/ Apart(x, k)
  <2> SUFFICES ASSUME NEW k \in locks[q] \ {l} PROVE Apart(k, x) \/ Apart(x, k)
    OBVIOUS
  <2>1. Apart(k, l) \/ Apart(l, k)
    BY <1>1 DEF AllNeat, Neat
  <2>2. (Apart(k, l) <=> Apart(k, x)) /\ (Apart(l, k) <=> Apart(x, k))
    BY <1>2, SamePlace
  <2> QED BY <2>1, <2>2
<1>6. Neat(locks'[q])
  BY <1>1, <1>4, <1>5 DEF AllNeat, Neat
<1> QED BY <1>4, <1>6 DEF AllNeat

LEMMA InterruptNeat ==
  ASSUME Inv, AllNeat, NEW t \in Threads, interrupt(t)
  PROVE  AllNeat'
<1> DEFINE without(l) == [l EXCEPT !.wait = @ \ {t}]
<1>1. locks \in [Owners -> SUBSET Regions]
  BY DEF Inv, Typed
<1>2. \A o \in Owners : locks'[o] = {without(l) : l \in locks[o]}
  BY DEF interrupt, Leave
<1>3. \A l \in Regions : /\ without(l).start = l.start /\ without(l).len = l.len
                         /\ without(l).type = l.type
  BY DEF Regions
<1> HIDE DEF without
<1> SUFFICES ASSUME NEW o \in Owners, NEW k \in locks'[o], NEW l \in locks'[o],
                    k # l
             PROVE  Apart(k, l) \/ Apart(l, k)
  BY DEF AllNeat, Neat
<1>4. PICK m \in locks[o] : k = without(m)
  BY <1>2
<1>5. PICK n \in locks[o] : l = without(n)
  BY <1>2
<1>6. m \in Regions /\ n \in Regions /\ m # n
  BY <1>1, <1>4, <1>5
<1>7. Apart(m, n) \/ Apart(n, m)
  BY <1>6 DEF AllNeat, Neat
<1>8. /\ k.start = m.start /\ k.len = m.len /\ k.type = m.type
      /\ l.start = n.start /\ l.len = n.len /\ l.type = n.type
  BY <1>3, <1>4, <1>5, <1>6
<1> QED BY <1>7, <1>8, SamePlace

LEMMA StepNeat ==
  ASSUME ~WithGap, Inv, AllNeat, [Next]_vars
  PROVE  AllNeat'
<1>1. /\ \A start \in Starts : start \in Nat
      /\ \A len \in Lens : len \in Nat
      /\ \A mem \in 0 .. MaxMem : mem \in Nat
  BY RecordLockAssumption DEF Starts, Lens
<1>2. /\ \A o \in Owners : locks[o] \in SUBSET Regions /\ IsFiniteSet(locks[o])
      /\ locks \in [Owners -> SUBSET Regions]
      /\ req \in [Threads -> Requests \cup {NoReq}] /\ OneQueue
  BY DEF Inv, Typed
<1>3. \A o \in Owners : Neat(locks[o])
  BY DEF AllNeat
<1>4. CASE UNCHANGED vars
  BY <1>4 DEF vars, AllNeat
<1>5. ASSUME NEW o \in Owners, NEW start \in Starts, NEW len \in Lens,
             NEW type \in {"rd", "wr"}, NEW mem \in 0 .. MaxMem,
             setlk(o, start, len, type, mem)
      PROVE  AllNeat'
  <2> DEFINE d == merge_in(o, start, len, type, mem)
  <2>1. ~Gap(o, start, len) /\ Apply(o, start, len, type, d, {})
    BY <1>5 DEF setlk, Request
  <2>2. Neat(d.list)
    BY <1>1, <1>2, <1>3, <2>1, MergeTidy
  <2> HIDE DEF d
  <2> QED BY <2>1, <2>2, ApplyNeat
<1>6. ASSUME NEW o \in Owners, NEW start \in Starts, NEW len \in Lens,
             NEW type \in {"rd", "wr"}, NEW t \in Threads,
             setlkw(t, o, start, len, type)
      PROVE  AllNeat'
  BY <1>6, JoinNeat DEF setlkw
<1>7. ASSUME NEW o \in Owners, NEW start \in Starts, NEW len \in Lens,
             NEW mem \in 0 .. MaxMem, unlock(o, start, len, mem)
      PROVE  AllNeat'
  <2> DEFINE d == unlock_region(o, start, len, mem)
  <2>1. Apply(o, start, len, "un", d, {})
    BY <1>7 DEF unlock
  <2>2. Neat(d.list)
    BY <1>1, <1>2, <1>3, UnlockTidy
  <2> HIDE DEF d
  <2> QED BY <2>1, <2>2, ApplyNeat
<1>8. ASSUME NEW t \in Threads, NEW mem \in 0 .. MaxMem, retry(t, mem)
      PROVE  AllNeat'
  <2> DEFINE r == req[t]
             d == merge_in(r.po, r.start, r.len, r.type, mem)
  <2>1. t \in woken /\ ~Gap(r.po, r.start, r.len)
    BY <1>8 DEF retry
  <2>2. r \in Requests
    BY <1>2, <2>1 DEF OneQueue
  <2>3. /\ r.po \in Owners /\ r.start \in Nat /\ r.len \in Nat
        /\ r.type \in {"rd", "wr"} /\ mem \in Nat
    BY <1>1, <2>2 DEF Requests
  <2>4. CASE Apply(r.po, r.start, r.len, r.type, d, {t})
    <3>1. Neat(d.list)
      BY <1>2, <1>3, <2>1, <2>3, MergeTidy
    <3> HIDE DEF d, r
    <3> QED BY <2>3, <2>4, <3>1, ApplyNeat
  <2>5. CASE \E e \in find_conflict(r.po, r.start, r.len, r.type) : Join(t, e)
    BY <2>5, JoinNeat
  <2> QED BY <1>8, <2>4, <2>5 DEF retry
<1>9. ASSUME NEW t \in Threads, interrupt(t) PROVE AllNeat'
  BY <1>9, InterruptNeat
<1>10. ASSUME NEW o \in Owners, drop_peropen(o) PROVE AllNeat'
  <2>1. locks'[o] = {} /\ \A p \in Owners : p # o => locks'[p] = locks[p]
    BY <1>2, <1>10 DEF drop_peropen
  <2> QED BY <2>1 DEF AllNeat, Neat
<1>11. ASSUME NEW o, NEW start, NEW len, NEW type,
              setlk_again(o, start, len, type)
       PROVE  AllNeat'
  BY <1>11 DEF setlk_again, AllNeat
<1> QED BY <1>4, <1>5, <1>6, <1>7, <1>8, <1>9, <1>10, <1>11 DEF Next

(* The regions of an open file never overlap, and regions of one type      *)
(* never touch, if nobody asks for a range that ends before an own lock to *)
(* the end of the file starts: whatever merge_in cuts, joins and inserts   *)
(* on its way through the list, and wherever it runs out of memory.        *)
THEOREM ListsAreCanonical == ASSUME ~WithGap PROVE Spec => []Canonical
<1>1. Init => AllNeat
  BY DEF Init, AllNeat, Neat
<1>2. Inv /\ AllNeat /\ [Next]_vars => AllNeat'
  BY StepNeat
<1>3. Inv /\ AllNeat => Canonical
  <2> SUFFICES ASSUME Inv, AllNeat, NEW o \in Owners, NEW k \in locks[o],
                      NEW l \in locks[o], k # l
               PROVE  /\ covers(k) \cap covers(l) = {}
                      /\ k.type = l.type /\ k.len # 0 => End(k) # l.start
    BY DEF Canonical
  <2>1. k \in Regions /\ l \in Regions /\ (Apart(k, l) \/ Apart(l, k))
    BY DEF Inv, Typed, AllNeat, Neat
  <2>2. /\ k.start \in Nat /\ k.len \in Nat /\ l.start \in Nat /\ l.len \in Nat
        /\ Eof \in Nat
    BY <2>1, RecordLockAssumption DEF Regions
  <2>3. covers(k) \cap covers(l) = {}
    BY <2>1, <2>2 DEF Apart, covers, range, End
  <2>4. k.type = l.type /\ k.len # 0 => End(k) # l.start
    BY <2>1, <2>2 DEF Apart, End
  <2> QED BY <2>3, <2>4
<1> QED BY <1>1, <1>2, <1>3, InvHolds, PTL DEF Spec

-----------------------------------------------------------------------------
(* What a loop keeps: the bytes of the regions and of the request.         *)

(* A region of LS holds byte B as TYPE or stronger. *)
Has(ls, b, type) ==
  \E k \in ls : In(b, k.start, k.len) /\ k.type \in {type, "wr"}

(* A turn that goes on loses no byte of the region L, and none of the      *)
(* request unless it fails: they are in the regions NEW that it leaves     *)
(* behind or in the rest of the request.                                   *)
Kept(c, l, type, s, n, new, done, err) ==
  \A b \in 0 .. Eof :
    /\ In(b, l.start, l.len) =>
         \/ Has(new, b, l.type)
         \/ ~done /\ In(b, s, n) /\ type \in {l.type, "wr"}
    /\ In(b, c.start, c.len) =>
         err \/ Has(new, b, type) \/ (~done /\ In(b, s, n))

Keeping(c, l, type, d) ==
  \E new \in SUBSET Regions :
    /\ d.list = c.list \cup new
    /\ Kept(c, l, type, d.start, d.len, new, d.done, d.err)

LEMMA KeptBy ==
  ASSUME NEW c, NEW l, NEW type, NEW d, NEW s, NEW n, NEW new \in SUBSET Regions,
         NEW roused, NEW done, NEW err, Moves(c, d, s, n, new, roused, done, err),
         Kept(c, l, type, s, n, new, done, err)
  PROVE  Keeping(c, l, type, d)
BY DEF Keeping, Moves

LEMMA ByteTyped == \A b \in 0 .. Eof : b \in Nat
BY RecordLockAssumption

LEMMA SplitKept ==
  ASSUME NEW c \in Loops, NEW l \in Regions, NEW d, NEW type \in {"rd", "wr"},
         within(c, l), SplitMoves(c, l, type, d)
  PROVE  Keeping(c, l, type, d)
<1> DEFINE start == c.start
           len   == c.len
           end   == start + len
           rest  == IF l.len = 0 THEN 0 ELSE End(l) - end
           before == l.start < start
           x == region(l.start, start - l.start, "rd", {})
           y == region(end, rest, "rd", {})
           z == region(start, len, "wr", l.wait)
           head == only(before, x)
<1>1. /\ start \in Nat /\ len \in Nat /\ before \in BOOLEAN
      /\ l.start \in Nat /\ l.len \in Nat /\ l.type \in {"rd", "wr"}
      /\ l.wait \in SUBSET Threads /\ end \in Nat /\ End(l) = l.start + l.len
  BY DEF Loops, Regions, End
<1>2. /\ l.start <= start
      /\ l.len = 0 \/ (len # 0 /\ end <= End(l))
  BY DEF within
<1>3. /\ x.start = l.start /\ x.len = start - l.start /\ x.type = "rd"
      /\ y.start = end /\ y.len = rest /\ y.type = "rd"
      /\ z.start = start /\ z.len = len /\ z.type = "wr"
  BY RegionFields
<1>4. before => x \in Regions
  <2>1. before => start - l.start \in Nat
    BY <1>1
  <2>2. {} \in SUBSET Threads
    OBVIOUS
  <2> QED BY <1>1, <2>1, <2>2, RegionTyped
<1>5. (before => x \in head) /\ head \in SUBSET Regions
  BY <1>4 DEF only
<1>6. ASSUME NEW b \in 0 .. Eof, In(b, l.start, l.len)
      PROVE  \/ before /\ In(b, x.start, x.len)
             \/ start <= b
  BY <1>1, <1>2, <1>3, <1>6, ByteTyped DEF In
<1>7. ASSUME NEW b \in 0 .. Eof, In(b, start, len) PROVE In(b, l.start, l.len)
  BY <1>1, <1>2, <1>7, ByteTyped DEF In
<1> HIDE DEF x, y, z, head, before
<1>8. CASE /\ type \in {l.type, "rd"}
           /\ Moves(c, d, start, len, {l}, {}, TRUE, FALSE)
  <2>1. Kept(c, l, type, start, len, {l}, TRUE, FALSE)
    BY <1>1, <1>7, <1>8 DEF Kept, Has
  <2> QED BY <1>8, <2>1, KeptBy
<1>9. CASE /\ type = "wr" /\ l.type = "rd"
           /\ Moves(c, d, start, len, {l}, {}, TRUE, TRUE)
  <2>1. Kept(c, l, type, start, len, {l}, TRUE, TRUE)
    BY <1>9 DEF Kept, Has
  <2> QED BY <1>9, <2>1, KeptBy
<1>10. CASE /\ type = "wr" /\ l.type = "rd" /\ len # 0
            /\ l.len = 0 \/ end < End(l)
            /\ Moves(c, d, start, len, head \cup {y, z}, {}, TRUE, FALSE)
  <2>1. rest \in Nat
    BY <1>1, <1>10
  <2>2. y \in Regions /\ z \in Regions
    BY <1>1, <2>1, RegionTyped DEF y, z
  <2>3. ASSUME NEW b \in 0 .. Eof, In(b, l.start, l.len), start <= b
        PROVE  In(b, z.start, z.len) \/ In(b, y.start, y.len)
    BY <1>1, <1>3, <1>10, <2>3, ByteTyped DEF In
  <2>4. ASSUME NEW b \in 0 .. Eof, In(b, l.start, l.len)
        PROVE  Has(head \cup {y, z}, b, l.type)
    BY <1>3, <1>5, <1>6, <1>10, <2>3, <2>4 DEF Has
  <2>5. ASSUME NEW b \in 0 .. Eof, In(b, start, len)
        PROVE  Has(head \cup {y, z}, b, type)
    BY <1>3, <2>5 DEF Has
  <2>6. Kept(c, l, type, start, len, head \cup {y, z}, TRUE, FALSE)
    BY <2>4, <2>5 DEF Kept
  <2>7. head \cup {y, z} \in SUBSET Regions
    BY <1>5, <2>2
  <2> QED BY <1>10, <2>6, <2>7, KeptBy
<1>11. CASE /\ type = "wr" /\ l.type = "rd"
            /\ \/ l.len = 0 /\ len = 0
               \/ l.len # 0 /\ len # 0 /\ end = End(l)
            /\ Moves(c, d, start, len, head, l.wait, FALSE, FALSE)
  <2>1. ASSUME NEW b \in 0 .. Eof, In(b, l.start, l.len)
        PROVE  Has(head, b, l.type) \/ In(b, start, len)
    <3>1. CASE start <= b
      BY <1>1, <1>11, <2>1, <3>1, ByteTyped DEF In
    <3> QED BY <1>3, <1>5, <1>6, <1>11, <2>1, <3>1 DEF Has
  <2>2. Kept(c, l, type, start, len, head, FALSE, FALSE)
    BY <1>11, <2>1 DEF Kept
  <2> QED BY <1>5, <1>11, <2>2, KeptBy
<1> HIDE DEF Moves
<1> QED BY <1>8, <1>9, <1>10, <1>11 DEF SplitMoves, x, y, z, head, before

LEMMA SwallowKept ==
  ASSUME NEW c \in Loops, NEW l \in Regions, NEW d, NEW type \in {"rd", "wr"},
         wraps(c, l), SwallowMoves(c, l, type, d)
  PROVE  Keeping(c, l, type, d)
<1> DEFINE start == c.start
           len   == c.len
           end   == start + len
           rest  == IF len = 0 THEN 0 ELSE end - End(l)
           before == start < l.start
           x == region(start, l.start - start, "rd", {})
           head == only(before, x)
<1>1. /\ start \in Nat /\ len \in Nat /\ before \in BOOLEAN
      /\ l.start \in Nat /\ l.len \in Nat /\ l.type \in {"rd", "wr"}
      /\ l.wait \in SUBSET Threads /\ end \in Nat /\ End(l) = l.start + l.len
  BY DEF Loops, Regions, End
<1>2. /\ start <= l.start
      /\ len = 0 \/ (l.len # 0 /\ End(l) <= end)
  BY DEF wraps
<1>3. x.start = start /\ x.len = l.start - start /\ x.type = "rd"
  BY RegionFields
<1>4. before => x \in Regions
  <2>1. before => l.start - start \in Nat
    BY <1>1
  <2>2. {} \in SUBSET Threads
    OBVIOUS
  <2> QED BY <1>1, <2>1, <2>2, RegionTyped
<1>5. (before => x \in head) /\ head \in SUBSET Regions
  BY <1>4 DEF only
<1>6. ASSUME NEW b \in 0 .. Eof, In(b, l.start, l.len) PROVE In(b, start, len)
  BY <1>1, <1>2, <1>6, ByteTyped DEF In
<1>7. ASSUME NEW b \in 0 .. Eof, In(b, start, len)
      PROVE  \/ before /\ In(b, x.start, x.len)
             \/ In(b, l.start, l.len)
             \/ l.len # 0 /\ End(l) <= b
  BY <1>1, <1>2, <1>3, <1>7, ByteTyped DEF In
<1> HIDE DEF x, head, before
<1>8. CASE /\ type \in {l.type, "wr"}
           /\ Moves(c, d, start, len, {}, l.wait, FALSE, FALSE)
  <2>1. Kept(c, l, type, start, len, {}, FALSE, FALSE)
    BY <1>6, <1>8 DEF Kept
  <2>2. {} \in SUBSET Regions
    OBVIOUS
  <2> QED BY <1>8, <2>1, <2>2, KeptBy
<1>9. CASE Moves(c, d, start, len, {l}, {}, TRUE, TRUE)
  <2>1. Kept(c, l, type, start, len, {l}, TRUE, TRUE)
    BY DEF Kept, Has
  <2> QED BY <1>9, <2>1, KeptBy
<1>10. CASE /\ type = "rd" /\ l.type = "wr" /\ l.len # 0
            /\ len = 0 \/ End(l) < end
            /\ Moves(c, d, End(l), rest, head \cup {l}, {}, FALSE, FALSE)
  <2>1. ASSUME NEW b \in 0 .. Eof, In(b, start, len), End(l) <= b
        PROVE  In(b, End(l), rest)
    BY <1>1, <1>10, <2>1, ByteTyped DEF In
  <2>2. ASSUME NEW b \in 0 .. Eof, In(b, start, len)
        PROVE  Has(head \cup {l}, b, type) \/ In(b, End(l), rest)
    BY <1>3, <1>5, <1>7, <1>10, <2>1, <2>2 DEF Has
  <2>3. \A b \in 0 .. Eof : In(b, l.start, l.len) => Has(head \cup {l}, b, l.type)
    BY DEF Has
  <2>4. Kept(c, l, type, End(l), rest, head \cup {l}, FALSE, FALSE)
    BY <2>2, <2>3 DEF Kept
  <2>5. head \cup {l} \in SUBSET Regions
    BY <1>5
  <2> QED BY <1>10, <2>4, <2>5, KeptBy
<1>11. CASE /\ type = "rd" /\ l.type = "wr" /\ before
            /\ \/ l.len = 0 /\ len = 0
               \/ l.len # 0 /\ len # 0 /\ End(l) = end
            /\ Moves(c, d, start, len, {x, l}, {}, TRUE, FALSE)
  <2>1. ASSUME NEW b \in 0 .. Eof, In(b, start, len)
        PROVE  Has({x, l}, b, type)
    <3>1. ~(l.len # 0 /\ End(l) <= b)
      BY <1>1, <1>11, <2>1, ByteTyped DEF In
    <3> QED BY <1>3, <1>7, <1>11, <2>1, <3>1 DEF Has
  <2>2. \A b \in 0 .. Eof : In(b, l.start, l.len) => Has({x, l}, b, l.type)
    BY DEF Has
  <2>3. Kept(c, l, type, start, len, {x, l}, TRUE, FALSE)
    BY <2>1, <2>2 DEF Kept
  <2>4. {x, l} \in SUBSET Regions
    BY <1>4, <1>11
  <2> QED BY <1>11, <2>3, <2>4, KeptBy
<1> HIDE DEF Moves
<1> QED BY <1>8, <1>9, <1>10, <1>11 DEF SwallowMoves, x, head, before

LEMMA UpKept ==
  ASSUME NEW c \in Loops, NEW l \in Regions, NEW d, NEW type \in {"rd", "wr"},
         starts_in(c, l), UpMoves(c, l, type, d)
  PROVE  Keeping(c, l, type, d)
<1> DEFINE start == c.start
           len   == c.len
           end   == start + len
           low   == IF len = 0 THEN 0 ELSE end - l.start
           rest  == IF len = 0 THEN 0 ELSE end - End(l)
           x == region(l.start, start - l.start, "rd", l.wait)
<1>1. /\ start \in Nat /\ len \in Nat
      /\ l.start \in Nat /\ l.len \in Nat /\ l.type \in {"rd", "wr"}
      /\ l.wait \in SUBSET Threads /\ end \in Nat /\ End(l) = l.start + l.len
  BY DEF Loops, Regions, End
<1>2. /\ l.start < start /\ start <= End(l) /\ l.len # 0
      /\ len = 0 \/ end > End(l)
  BY <1>1 DEF starts_in
<1>3. x.start = l.start /\ x.len = start - l.start /\ x.type = "rd"
  BY RegionFields
<1>4. start - l.start \in Nat /\ x \in Regions
  BY <1>1, <1>2, RegionTyped
<1> HIDE DEF x
<1>5. CASE type = l.type /\ Moves(c, d, l.start, low, {}, l.wait, FALSE, FALSE)
  <2>1. ASSUME NEW b \in 0 .. Eof, In(b, l.start, l.len) \/ In(b, start, len)
        PROVE  In(b, l.start, low)
    BY <1>1, <1>2, <2>1, ByteTyped DEF In
  <2>2. Kept(c, l, type, l.start, low, {}, FALSE, FALSE)
    BY <1>5, <2>1 DEF Kept
  <2>3. {} \in SUBSET Regions
    OBVIOUS
  <2> QED BY <1>5, <2>2, <2>3, KeptBy
<1>6. CASE Moves(c, d, start, len, {l}, {}, FALSE, FALSE)
  <2>1. Kept(c, l, type, start, len, {l}, FALSE, FALSE)
    BY DEF Kept, Has
  <2> QED BY <1>6, <2>1, KeptBy
<1>7. CASE /\ type = "wr" /\ l.type = "rd"
           /\ Moves(c, d, start, len, {x}, {}, FALSE, FALSE)
  <2>1. ASSUME NEW b \in 0 .. Eof, In(b, l.start, l.len)
        PROVE  In(b, x.start, x.len) \/ In(b, start, len)
    BY <1>1, <1>2, <1>3, <2>1, ByteTyped DEF In
  <2>2. Kept(c, l, type, start, len, {x}, FALSE, FALSE)
    BY <1>3, <1>7, <2>1 DEF Kept, Has
  <2> QED BY <1>4, <1>7, <2>2, KeptBy
<1>8. CASE /\ type = "rd" /\ l.type = "wr"
           /\ Moves(c, d, End(l), rest, {l}, {}, FALSE, FALSE)
  <2>1. ASSUME NEW b \in 0 .. Eof, In(b, start, len)
        PROVE  In(b, l.start, l.len) \/ In(b, End(l), rest)
    BY <1>1, <1>2, <2>1, ByteTyped DEF In
  <2>2. Kept(c, l, type, End(l), rest, {l}, FALSE, FALSE)
    BY <1>8, <2>1 DEF Kept, Has
  <2> QED BY <1>8, <2>2, KeptBy
<1> HIDE DEF Moves
<1> QED BY <1>5, <1>6, <1>7, <1>8 DEF UpMoves, x

LEMMA DownKept ==
  ASSUME NEW c \in Loops, NEW l \in Regions, NEW d, NEW type \in {"rd", "wr"},
         ends_in(c, l), NoGap(c, l, type), DownMoves(c, l, type, d)
  PROVE  Keeping(c, l, type, d)
<1> DEFINE start == c.start
           len   == c.len
           end   == start + len
           up    == IF l.len = 0 THEN 0 ELSE End(l) - start
           rest  == IF l.len = 0 THEN 0 ELSE End(l) - end
           v     == region(start, up, type, l.wait)
           x     == region(start, len, "wr", {})
           y     == region(end, rest, "rd", l.wait)
           z     == region(start, l.start - start, "rd", {})
<1>1. /\ start \in Nat /\ len \in Nat
      /\ l.start \in Nat /\ l.len \in Nat /\ l.type \in {"rd", "wr"}
      /\ l.wait \in SUBSET Threads /\ end \in Nat /\ End(l) = l.start + l.len
  BY DEF Loops, Regions, End
<1>2. /\ start < l.start /\ len # 0 /\ (l.len = 0 \/ end < End(l))
      /\ l.start <= end
  BY <1>1 DEF ends_in, DownMoves, NoGap
<1>3. up \in Nat /\ rest \in Nat /\ l.start - start \in Nat
  BY <1>1, <1>2
<1>4. v \in Regions /\ x \in Regions /\ y \in Regions /\ z \in Regions
  BY <1>1, <1>3, RegionTyped
<1>5. /\ v.start = start /\ v.len = up /\ v.type = type
      /\ x.start = start /\ x.len = len /\ x.type = "wr"
      /\ y.start = end /\ y.len = rest /\ y.type = "rd"
      /\ z.start = start /\ z.len = l.start - start /\ z.type = "rd"
  BY RegionFields
<1> HIDE DEF v, x, y, z
<1>6. CASE type = l.type /\ Moves(c, d, start, len, {v}, {}, TRUE, FALSE)
  <2>1. ASSUME NEW b \in 0 .. Eof, In(b, l.start, l.len) \/ In(b, start, len)
        PROVE  In(b, v.start, v.len)
    BY <1>1, <1>2, <1>5, <2>1, ByteTyped DEF In
  <2>2. Kept(c, l, type, start, len, {v}, TRUE, FALSE)
    BY <1>5, <1>6, <2>1 DEF Kept, Has
  <2> QED BY <1>4, <1>6, <2>2, KeptBy
<1>7. CASE Moves(c, d, start, len, {l}, {}, FALSE, FALSE)
  <2>1. Kept(c, l, type, start, len, {l}, FALSE, FALSE)
    BY DEF Kept, Has
  <2> QED BY <1>7, <2>1, KeptBy
<1>8. CASE Moves(c, d, start, len, {l}, {}, TRUE, TRUE)
  <2>1. Kept(c, l, type, start, len, {l}, TRUE, TRUE)
    BY DEF Kept, Has
  <2> QED BY <1>8, <2>1, KeptBy
<1>9. CASE /\ type = "wr" /\ l.type = "rd"
           /\ Moves(c, d, start, len, {x, y}, {}, TRUE, FALSE)
  <2>1. ASSUME NEW b \in 0 .. Eof, In(b, l.start, l.len)
        PROVE  In(b, x.start, x.len) \/ In(b, y.start, y.len)
    BY <1>1, <1>2, <1>5, <2>1, ByteTyped DEF In
  <2>2. Kept(c, l, type, start, len, {x, y}, TRUE, FALSE)
    BY <1>5, <1>9, <2>1 DEF Kept, Has
  <2>3. {x, y} \in SUBSET Regions
    BY <1>4
  <2> QED BY <1>9, <2>2, <2>3, KeptBy
<1>10. CASE /\ type = "rd" /\ l.type = "wr"
            /\ Moves(c, d, start, len, {z, l}, {}, TRUE, FALSE)
  <2>1. ASSUME NEW b \in 0 .. Eof, In(b, start, len)
        PROVE  In(b, z.start, z.len) \/ In(b, l.start, l.len)
    BY <1>1, <1>2, <1>5, <2>1, ByteTyped DEF In
  <2>2. Kept(c, l, type, start, len, {z, l}, TRUE, FALSE)
    BY <1>5, <1>10, <2>1 DEF Kept, Has
  <2>3. {z, l} \in SUBSET Regions
    BY <1>4
  <2> QED BY <1>10, <2>2, <2>3, KeptBy
<1> HIDE DEF Moves
<1> QED BY <1>6, <1>7, <1>8, <1>9, <1>10 DEF DownMoves, v, x, y, z

LEMMA MergeKept ==
  ASSUME NEW c \in Loops, c.err => c.done, NEW l \in Regions,
         NEW type \in {"rd", "wr"}, NoGap(c, l, type)
  PROVE  LET d == turn(c, l, type)
         IN \/ ~c.done /\ Keeping(c, l, type, d)
            \/ c.done /\ d.done /\ d.err = c.err /\ d.list = c.list \cup {l}
<1> DEFINE d == turn(c, l, type)
<1>1. d = merge_one(c, l, type)
  BY DEF turn
<1>2. MergeMoves(c, l, type, d)
  BY <1>1, MergeOne
<1> HIDE DEF d
<1>3. {l} \in SUBSET Regions /\ c.done \in BOOLEAN
  BY DEF Loops
<1>4. CASE c.done /\ Moves(c, d, c.start, c.len, {l}, {}, c.done, c.err)
  BY <1>4 DEF Moves, d
<1>5. CASE /\ ~c.done /\ d.start = c.start /\ d.len = c.len /\ ~d.done
           /\ d.list = c.list \cup {l}
  <2>1. Kept(c, l, type, d.start, d.len, {l}, d.done, d.err)
    BY <1>5 DEF Kept, Has
  <2> QED BY <1>3, <1>5, <2>1 DEF Keeping, d
<1>6. CASE ~c.done /\ within(c, l) /\ SplitMoves(c, l, type, d)
  BY <1>6, SplitKept DEF d
<1>7. CASE ~c.done /\ wraps(c, l) /\ SwallowMoves(c, l, type, d)
  BY <1>7, SwallowKept DEF d
<1>8. CASE ~c.done /\ starts_in(c, l) /\ UpMoves(c, l, type, d)
  BY <1>8, UpKept DEF d
<1>9. CASE ~c.done /\ ends_in(c, l) /\ DownMoves(c, l, type, d)
  BY <1>9, DownKept DEF d
<1>10. \/ c.done /\ Moves(c, d, c.start, c.len, {l}, {}, c.done, c.err)
       \/ /\ ~c.done /\ d.start = c.start /\ d.len = c.len /\ ~d.done
          /\ d.list = c.list \cup {l}
       \/ ~c.done /\ within(c, l) /\ SplitMoves(c, l, type, d)
       \/ ~c.done /\ wraps(c, l) /\ SwallowMoves(c, l, type, d)
       \/ ~c.done /\ starts_in(c, l) /\ UpMoves(c, l, type, d)
       \/ ~c.done /\ ends_in(c, l) /\ DownMoves(c, l, type, d)
  BY <1>2, <1>3 DEF MergeMoves, Moves
<1> QED BY <1>4, <1>5, <1>6, <1>7, <1>8, <1>9, <1>10

(* What merge_in's loop past LS keeps.  When it fails, the write locks     *)
(* under a read request are kept nevertheless.                             *)
Conserved(c0, ls, type, d) ==
  \A b \in 0 .. Eof :
    /\ \A l \in ls : In(b, l.start, l.len) =>
         \/ Has(d.list, b, l.type)
         \/ ~d.done /\ In(b, d.start, d.len) /\ type \in {l.type, "wr"}
         \/ d.err /\ ~(l.type = "wr" /\ type = "rd")
    /\ In(b, c0.start, c0.len) =>
         d.err \/ Has(d.list, b, type) \/ (~d.done /\ In(b, d.start, d.len))

LEMMA ConservedTurn ==
  ASSUME NEW c0 \in Loops, NEW ls \in SUBSET Regions, NEW l \in ls,
         NEW type \in {"rd", "wr"}, NEW c \in Loops, c.err => c.done,
         NoGap(c, l, type), Conserved(c0, ls \ {l}, type, c)
  PROVE  Conserved(c0, ls, type, turn(c, l, type))
<1> DEFINE d == turn(c, l, type)
<1>1. \/ ~c.done /\ Keeping(c, l, type, d)
      \/ c.done /\ d.done /\ d.err = c.err /\ d.list = c.list \cup {l}
  BY MergeKept
<1> HIDE DEF d
<1>2. CASE c.done /\ d.done /\ d.err = c.err /\ d.list = c.list \cup {l}
  BY <1>2 DEF Conserved, Has, d
<1>3. CASE ~c.done /\ Keeping(c, l, type, d)
  <2>1. PICK new \in SUBSET Regions :
          /\ d.list = c.list \cup new
          /\ Kept(c, l, type, d.start, d.len, new, d.done, d.err)
    BY <1>3 DEF Keeping
  <2>2. \A b, t : Has(c.list, b, t) \/ Has(new, b, t) => Has(d.list, b, t)
    BY <2>1 DEF Has
  <2>3. ASSUME NEW b \in 0 .. Eof, NEW m \in ls, In(b, m.start, m.len)
        PROVE  \/ Has(d.list, b, m.type)
               \/ ~d.done /\ In(b, d.start, d.len) /\ type \in {m.type, "wr"}
               \/ d.err /\ ~(m.type = "wr" /\ type = "rd")
    <3>1. CASE m = l
      BY <2>1, <2>2, <2>3, <3>1 DEF Kept
    <3>2. CASE m # l
      <4>1. \/ Has(c.list, b, m.type)
            \/ In(b, c.start, c.len) /\ type \in {m.type, "wr"}
        BY <1>3, <2>3, <3>2 DEF Conserved
      <4>2. CASE In(b, c.start, c.len) /\ type \in {m.type, "wr"}
        <5>1. d.err \/ Has(new, b, type) \/ (~d.done /\ In(b, d.start, d.len))
          BY <2>1, <4>2 DEF Kept
        <5>2. Has(new, b, type) => Has(new, b, m.type)
          BY <4>2 DEF Has
        <5> QED BY <2>2, <4>2, <5>1, <5>2
      <4> QED BY <2>2, <4>1, <4>2
    <3> QED BY <3>1, <3>2
  <2>4. ASSUME NEW b \in 0 .. Eof, In(b, c0.start, c0.len)
        PROVE  d.err \/ Has(d.list, b, type) \/ (~d.done /\ In(b, d.start, d.len))
    <3>1. Has(c.list, b, type) \/ In(b, c.start, c.len)
      BY <1>3, <2>4 DEF Conserved
    <3> QED BY <2>1, <2>2, <3>1 DEF Kept
  <2>5. Conserved(c0, ls, type, d)
    BY <2>3, <2>4 DEF Conserved
  <2> QED BY <2>5 DEF d
<1> QED BY <1>1, <1>2, <1>3

(* What unlock_region's loop past LS has done: no region holds a byte of   *)
(* the request, and every other byte is kept; a loop that fails has kept   *)
(* all of them.  A loop that has returned was past the request.            *)
Freed(c0, ls, d) ==
  /\ d.start = c0.start /\ d.len = c0.len
  /\ \A l \in ls : \A b \in 0 .. Eof :
       In(b, l.start, l.len) /\ (d.err \/ ~In(b, c0.start, c0.len))
         => Has(d.list, b, l.type)
  /\ ~d.err => \A k \in d.list : \A b \in 0 .. Eof :
                 In(b, k.start, k.len) => ~In(b, c0.start, c0.len)
  /\ d.done /\ ~d.err =>
       c0.len # 0 /\ \E m \in ls : m.len = 0 \/ c0.start + c0.len < End(m)

(* A turn of it that adds the regions NEW. *)
Cuts(c, l, new, done, err) ==
  /\ \A b \in 0 .. Eof :
       In(b, l.start, l.len) /\ (err \/ ~In(b, c.start, c.len))
         => Has(new, b, l.type)
  /\ ~err => \A k \in new : \A b \in 0 .. Eof :
               In(b, k.start, k.len) => ~In(b, c.start, c.len)
  /\ done /\ ~err => c.len # 0 /\ (l.len = 0 \/ c.start + c.len < End(l))
  /\ err => l.start < c.start

LEMMA UnlockCuts ==
  ASSUME NEW c \in Loops, ~c.done, ~c.err, NEW l \in Regions, NEW d,
         UnlockMoves(c, l, d)
  PROVE  \E new \in SUBSET Regions :
           /\ d.start = c.start /\ d.len = c.len /\ d.list = c.list \cup new
           /\ Cuts(c, l, new, d.done, d.err)
<1> DEFINE start == c.start
           len   == c.len
           end   == start + len
           rest  == IF l.len = 0 THEN 0 ELSE End(l) - end
           x == region(end, rest, l.type, {})
           y == region(l.start, start - l.start, l.type, {})
           z == region(l.start, start - l.start, l.type, l.wait)
<1>1. /\ start \in Nat /\ len \in Nat
      /\ l.start \in Nat /\ l.len \in Nat /\ l.type \in {"rd", "wr"}
      /\ l.wait \in SUBSET Threads /\ end \in Nat /\ End(l) = l.start + l.len
      /\ {l} \in SUBSET Regions /\ {} \in SUBSET Regions
  BY DEF Loops, Regions, End
<1>2. ASSUME NEW new \in SUBSET Regions, NEW roused, NEW done, NEW err,
             Moves(c, d, start, len, new, roused, done, err),
             Cuts(c, l, new, done, err)
      PROVE  \E new2 \in SUBSET Regions :
               /\ d.start = c.start /\ d.len = c.len /\ d.list = c.list \cup new2
               /\ Cuts(c, l, new2, d.done, d.err)
  BY <1>2 DEF Moves
<1>3. /\ x.start = end /\ x.len = rest /\ x.type = l.type
      /\ y.start = l.start /\ y.len = start - l.start /\ y.type = l.type
      /\ z.start = l.start /\ z.len = start - l.start /\ z.type = l.type
  BY RegionFields
<1>4. (l.len = 0 \/ end < End(l)) => x \in Regions
  BY <1>1, RegionTyped
<1>5. l.start < start => y \in Regions /\ z \in Regions
  BY <1>1, RegionTyped
<1>6. \A b \in 0 .. Eof : In(b, l.start, l.len) => Has({l}, b, l.type)
  BY DEF Has
<1> HIDE DEF x, y, z
<1>7. CASE /\ l.len # 0 /\ End(l) <= start
           /\ Moves(c, d, start, len, {l}, {}, FALSE, c.err)
  <2>1. \A b \in 0 .. Eof : In(b, l.start, l.len) => ~In(b, start, len)
    BY <1>1, <1>7, ByteTyped DEF In
  <2>2. Cuts(c, l, {l}, FALSE, c.err)
    BY <1>6, <2>1 DEF Cuts
  <2> QED BY <1>1, <1>2, <1>7, <2>2
<1>8. CASE /\ len # 0 /\ end <= l.start
           /\ Moves(c, d, start, len, {l}, {}, TRUE, c.err)
  <2>1. \A b \in 0 .. Eof : In(b, l.start, l.len) => ~In(b, start, len)
    BY <1>1, <1>8, ByteTyped DEF In
  <2>2. l.len = 0 \/ end < End(l)
    BY <1>1, <1>8
  <2>3. Cuts(c, l, {l}, TRUE, c.err)
    BY <1>6, <1>8, <2>1, <2>2 DEF Cuts
  <2> QED BY <1>1, <1>2, <1>8, <2>3
<1>9. CASE /\ start <= l.start
           /\ len = 0 \/ (l.len # 0 /\ End(l) <= end)
           /\ Moves(c, d, start, len, {}, l.wait, FALSE, c.err)
  <2>1. \A b \in 0 .. Eof : In(b, l.start, l.len) => In(b, start, len)
    BY <1>1, <1>9, ByteTyped DEF In
  <2>2. Cuts(c, l, {}, FALSE, c.err)
    BY <2>1 DEF Cuts
  <2> QED BY <1>1, <1>2, <1>9, <2>2
<1>10. CASE /\ start <= l.start /\ len # 0 /\ l.start < end
            /\ l.len = 0 \/ end < End(l)
            /\ Moves(c, d, start, len, {x}, l.wait, FALSE, c.err)
  <2>1. \A b \in 0 .. Eof : In(b, x.start, x.len) => ~In(b, start, len)
    BY <1>1, <1>3, <1>10, ByteTyped DEF In
  <2>2. \A b \in 0 .. Eof : In(b, l.start, l.len) /\ ~In(b, start, len)
          => In(b, x.start, x.len)
    BY <1>1, <1>3, <1>10, ByteTyped DEF In
  <2>3. Cuts(c, l, {x}, FALSE, c.err)
    BY <1>3, <2>1, <2>2 DEF Cuts, Has
  <2>4. {x} \in SUBSET Regions
    BY <1>4, <1>10
  <2> QED BY <1>2, <1>10, <2>3, <2>4
<1>11. CASE /\ l.start < start
            /\ len = 0 \/ (l.len # 0 /\ End(l) <= end)
            /\ l.len # 0 => start < End(l)
            /\ Moves(c, d, start, len, {y}, l.wait, FALSE, c.err)
  <2>1. \A b \in 0 .. Eof : In(b, y.start, y.len) => ~In(b, start, len)
    BY <1>1, <1>3, <1>11, ByteTyped DEF In
  <2>2. \A b \in 0 .. Eof : In(b, l.start, l.len) /\ ~In(b, start, len)
          => In(b, y.start, y.len)
    BY <1>1, <1>3, <1>11, ByteTyped DEF In
  <2>3. Cuts(c, l, {y}, FALSE, c.err)
    BY <1>3, <2>1, <2>2 DEF Cuts, Has
  <2>4. {y} \in SUBSET Regions
    BY <1>5, <1>11
  <2> QED BY <1>2, <1>11, <2>3, <2>4
<1>12. CASE /\ l.start < start /\ len # 0
            /\ l.len = 0 \/ end < End(l)
            /\ Moves(c, d, start, len, {l}, {}, TRUE, TRUE)
  <2>1. Cuts(c, l, {l}, TRUE, TRUE)
    BY <1>6, <1>12 DEF Cuts
  <2> QED BY <1>1, <1>2, <1>12, <2>1
<1>13. CASE /\ l.start < start /\ len # 0
            /\ l.len = 0 \/ end < End(l)
            /\ Moves(c, d, start, len, {z, x}, {}, TRUE, c.err)
  <2>1. \A b \in 0 .. Eof : In(b, x.start, x.len) => ~In(b, start, len)
    BY <1>1, <1>3, <1>13, ByteTyped DEF In
  <2>2. \A b \in 0 .. Eof : In(b, z.start, z.len) => ~In(b, start, len)
    BY <1>1, <1>3, <1>13, ByteTyped DEF In
  <2>3. \A b \in 0 .. Eof : In(b, l.start, l.len) /\ ~In(b, start, len)
          => In(b, z.start, z.len) \/ In(b, x.start, x.len)
    BY <1>1, <1>3, <1>13, ByteTyped DEF In
  <2>4. Cuts(c, l, {z, x}, TRUE, c.err)
    BY <1>3, <1>13, <2>1, <2>2, <2>3 DEF Cuts, Has
  <2>5. {z, x} \in SUBSET Regions
    BY <1>4, <1>5, <1>13
  <2> QED BY <1>2, <1>13, <2>4, <2>5
<1> HIDE DEF Moves
<1> QED BY <1>7, <1>8, <1>9, <1>10, <1>11, <1>12, <1>13 DEF UnlockMoves, x, y, z

LEMMA FreedTurn ==
  ASSUME NEW c0 \in Loops, NEW ls \in SUBSET Regions, NEW l \in ls,
         \A m \in ls \ {l} : Apart(m, l),
         NEW c \in Loops, c.err => c.done, Freed(c0, ls \ {l}, c)
  PROVE  Freed(c0, ls, turn(c, l, "un"))
<1> DEFINE d == turn(c, l, "un")
<1>1. UnlockMoves(c, l, d)
  BY UnlockOne DEF turn
<1> HIDE DEF d
<1>2. /\ c.start = c0.start /\ c.len = c0.len /\ c.done \in BOOLEAN
      /\ c.err \in BOOLEAN
  BY DEF Freed, Loops
<1>3. /\ l.start \in Nat /\ l.len \in Nat /\ c0.start \in Nat /\ c0.len \in Nat
      /\ \A m \in ls : m.start \in Nat /\ m.len \in Nat
  BY DEF Loops, Regions
<1>4. \A b, t : Has(c.list, b, t) => Has(c.list \cup {l}, b, t)
  BY DEF Has
<1>5. CASE c.done
  <2>1. /\ d.start = c0.start /\ d.len = c0.len /\ d.list = c.list \cup {l}
        /\ d.done = c.done /\ d.err = c.err
    BY <1>1, <1>2, <1>5 DEF UnlockMoves, Moves
  <2>2. ASSUME ~c.err PROVE c0.len # 0 /\ c0.start + c0.len <= l.start
    <3>1. PICK m \in ls \ {l} : m.len = 0 \/ c0.start + c0.len < End(m)
      BY <1>5, <2>2 DEF Freed
    <3>2. Apart(m, l) /\ c0.len # 0
      BY <1>5, <2>2 DEF Freed
    <3> QED BY <1>3, <3>1, <3>2 DEF Apart, End
  <2>3. ~c.err => \A b \in 0 .. Eof :
                    In(b, l.start, l.len) => ~In(b, c0.start, c0.len)
    BY <1>3, <2>2, ByteTyped DEF In
  <2>4. \A m \in ls : \A b \in 0 .. Eof :
          In(b, m.start, m.len) /\ (d.err \/ ~In(b, c0.start, c0.len))
            => Has(d.list, b, m.type)
    BY <2>1 DEF Freed, Has
  <2>5. ~d.err => \A k \in d.list : \A b \in 0 .. Eof :
                    In(b, k.start, k.len) => ~In(b, c0.start, c0.len)
    BY <2>1, <2>3 DEF Freed
  <2>6. d.done /\ ~d.err =>
          c0.len # 0 /\ \E m \in ls : m.len = 0 \/ c0.start + c0.len < End(m)
    BY <2>1 DEF Freed
  <2> QED BY <2>1, <2>4, <2>5, <2>6 DEF Freed, d
<1>6. CASE ~c.done
  <2>1. ~c.err
    BY <1>6
  <2>2. PICK new \in SUBSET Regions :
          /\ d.start = c.start /\ d.len = c.len /\ d.list = c.list \cup new
          /\ Cuts(c, l, new, d.done, d.err)
    BY <1>1, <1>6, <2>1, UnlockCuts
  <2>3. \A b, t : Has(c.list, b, t) \/ Has(new, b, t) => Has(d.list, b, t)
    BY <2>2 DEF Has
  <2>4. ASSUME NEW m \in ls, NEW b \in 0 .. Eof, In(b, m.start, m.len),
               d.err \/ ~In(b, c0.start, c0.len)
        PROVE  Has(d.list, b, m.type)
    <3>1. CASE m = l
      BY <1>2, <2>2, <2>3, <2>4, <3>1 DEF Cuts
    <3>2. CASE m # l
      <4>1. ~In(b, c0.start, c0.len)
        <5>1. CASE d.err
          <6>1. l.start < c0.start /\ Apart(m, l)
            BY <1>2, <2>2, <3>2, <5>1 DEF Cuts
          <6> QED BY <1>3, <2>4, <6>1, ByteTyped DEF Apart, In, End
        <5> QED BY <2>4, <5>1
      <4>2. Has(c.list, b, m.type)
        BY <2>4, <3>2, <4>1 DEF Freed
      <4> QED BY <2>3, <4>2
    <3> QED BY <3>1, <3>2
  <2>5. ~d.err => \A k \in d.list : \A b \in 0 .. Eof :
                    In(b, k.start, k.len) => ~In(b, c0.start, c0.len)
    BY <1>2, <2>1, <2>2 DEF Freed, Cuts
  <2>6. d.done /\ ~d.err =>
          c0.len # 0 /\ \E m \in ls : m.len = 0 \/ c0.start + c0.len < End(m)
    BY <1>2, <2>2 DEF Cuts
  <2> QED BY <1>2, <2>2, <2>4, <2>5, <2>6 DEF Freed, d
<1> QED BY <1>2, <1>5, <1>6

(* The whole loops. *)
LEMMA LoopConserves ==
  ASSUME NEW o \in Owners, NEW type \in {"rd", "wr"}, NEW c \in Loops,
         c.list = {}, c.woken = {}, ~c.err, ~c.done,
         locks[o] \in SUBSET Regions, IsFiniteSet(locks[o]),
         \A l \in locks[o] : NoGap(c, l, type)
  PROVE  Conserved(c, locks[o], type, each_region(o, c, type))
<1> DEFINE g == Unroll(locks[o], c, type)
<1>1. /\ Unrolled(g, SUBSET locks[o], c, type)
      /\ each_region(o, c, type) = g[locks[o]]
  BY EachRegion
<1> HIDE DEF g
<1> DEFINE S == locks[o]
<1> DEFINE G == {ls \in SUBSET S : /\ Looped(c, ls, type, g[ls])
                                   /\ Conserved(c, ls, type, g[ls])}
<1>2. {} \in G
  <2>1. g[{}] = c
    BY <1>1 DEF Unrolled
  <2>2. Looped(c, {}, type, c)
    BY LoopedNone
  <2>3. Conserved(c, {}, type, c)
    BY DEF Conserved
  <2> QED BY <2>1, <2>2, <2>3
<1>3. ASSUME NEW ls \in SUBSET S, ls # {}, ls \ {last(ls)} \in G
      PROVE  ls \in G
  <2> DEFINE l == last(ls)
             b == g[ls \ {l}]
  <2>1. ls \in SUBSET Regions /\ l \in ls
    BY <1>3, LastRegion, FS_Subset
  <2>2. g[ls] = turn(b, l, type)
    BY <1>1, <1>3 DEF Unrolled
  <2>3. Looped(c, ls \ {l}, type, b) /\ Conserved(c, ls \ {l}, type, b)
    BY <1>3
  <2> HIDE DEF b, l
  <2>4. Looped(c, ls, type, g[ls])
    BY <2>1, <2>2, <2>3, LoopedTurn
  <2>5. b \in Loops /\ (b.err => b.done) /\ NoGap(b, l, type)
    BY <2>1, <2>3 DEF Looped, NoGap, SameEnd
  <2>6. Conserved(c, ls, type, g[ls])
    BY <2>1, <2>2, <2>3, <2>5, ConservedTurn
  <2> QED BY <2>4, <2>6
<1> HIDE DEF G
<1>4. S \in G
  BY <1>2, <1>3, ListInduction
<1> QED BY <1>1, <1>4 DEF G

LEMMA LoopFrees ==
  ASSUME NEW o \in Owners, NEW c \in Loops,
         c.list = {}, c.woken = {}, ~c.err, ~c.done,
         locks[o] \in SUBSET Regions, IsFiniteSet(locks[o]), Neat(locks[o])
  PROVE  Freed(c, locks[o], each_region(o, c, "un"))
<1> DEFINE g == Unroll(locks[o], c, "un")
<1>1. /\ Unrolled(g, SUBSET locks[o], c, "un")
      /\ each_region(o, c, "un") = g[locks[o]]
  BY EachRegion
<1> HIDE DEF g
<1> DEFINE S == locks[o]
<1> DEFINE G == {ls \in SUBSET S : /\ Looped(c, ls, "un", g[ls])
                                   /\ Freed(c, ls, g[ls])}
<1>2. {} \in G
  <2>1. g[{}] = c
    BY <1>1 DEF Unrolled
  <2>2. Looped(c, {}, "un", c)
    BY LoopedNone
  <2>3. Freed(c, {}, c)
    BY DEF Freed
  <2> QED BY <2>1, <2>2, <2>3
<1>3. ASSUME NEW ls \in SUBSET S, ls # {}, ls \ {last(ls)} \in G
      PROVE  ls \in G
  <2> DEFINE l == last(ls)
             b == g[ls \ {l}]
  <2>1. /\ ls \in SUBSET Regions /\ l \in ls
        /\ \A k \in ls : k.start <= l.start
    BY <1>3, LastRegion, FS_Subset
  <2>2. g[ls] = turn(b, l, "un")
    BY <1>1, <1>3 DEF Unrolled
  <2>3. Looped(c, ls \ {l}, "un", b) /\ Freed(c, ls \ {l}, b)
    BY <1>3
  <2> HIDE DEF b, l
  <2>4. Looped(c, ls, "un", g[ls])
    BY <2>1, <2>2, <2>3, LoopedTurn
  <2>5. b \in Loops /\ (b.err => b.done)
    BY <2>3 DEF Looped
  <2>6. Neat(ls)
    BY DEF Neat
  <2>7. \A m \in ls \ {l} : Apart(m, l)
    BY <2>1, <2>6, LastApart
  <2>8. Freed(c, ls, g[ls])
    BY <2>1, <2>2, <2>3, <2>5, <2>7, FreedTurn
  <2> QED BY <2>4, <2>8
<1> HIDE DEF G
<1>4. S \in G
  BY <1>2, <1>3, ListInduction
<1> QED BY <1>1, <1>4 DEF G

-----------------------------------------------------------------------------
(* The mode in which a list holds a byte. *)
mode(ls, b) ==
  LET ks == {l \in ls : b \in covers(l)}
  IN IF ks = {} THEN "un"
     ELSE IF \E l \in ks : l.type = "wr" THEN "wr" ELSE "rd"

LEMMA ModeIs ==
  ASSUME NEW ls \in SUBSET Regions, NEW b \in 0 .. Eof
  PROVE  /\ mode(ls, b) \in {"un", "rd", "wr"}
         /\ mode(ls, b) = "un" <=> \A l \in ls : ~In(b, l.start, l.len)
         /\ mode(ls, b) = "wr" <=> \E l \in ls : In(b, l.start, l.len) /\ l.type = "wr"
<1>1. ASSUME NEW l \in ls PROVE b \in covers(l) <=> In(b, l.start, l.len)
  <2>1. l.start \in Nat /\ l.len \in Nat /\ b \in Nat /\ Eof \in Nat /\ b <= Eof
    BY RecordLockAssumption DEF Regions
  <2> QED BY <2>1 DEF covers, range, In, End
<1> QED BY <1>1 DEF mode

(* What a list LS that has become DS means for a byte B of the range S, N  *)
(* or not.                                                                 *)
Grown(ls, ds, b, type, s, n) ==
  \A k \in ds : In(b, k.start, k.len) =>
    \/ \E l \in ls : l.type = k.type /\ In(b, l.start, l.len)
    \/ k.type = type /\ In(b, s, n)

LEMMA LockMode ==
  ASSUME NEW ls \in SUBSET Regions, NEW ds \in SUBSET Regions, NEW b \in 0 .. Eof,
         NEW type \in {"rd", "wr"}, NEW s, NEW n, Grown(ls, ds, b, type, s, n),
         \A l \in ls : In(b, l.start, l.len) => Has(ds, b, l.type),
         In(b, s, n) => Has(ds, b, type)
  PROVE  mode(ds, b) = IF In(b, s, n) THEN Ranges!Stronger(type, mode(ls, b))
                       ELSE mode(ls, b)
<1>1. /\ mode(ls, b) \in {"un", "rd", "wr"}
      /\ mode(ls, b) = "un" <=> \A l \in ls : ~In(b, l.start, l.len)
      /\ mode(ls, b) = "wr" <=> \E l \in ls : In(b, l.start, l.len) /\ l.type = "wr"
  BY ModeIs
<1>2. /\ mode(ds, b) \in {"un", "rd", "wr"}
      /\ mode(ds, b) = "un" <=> \A l \in ds : ~In(b, l.start, l.len)
      /\ mode(ds, b) = "wr" <=> \E l \in ds : In(b, l.start, l.len) /\ l.type = "wr"
  BY ModeIs
<1>3. mode(ls, b) = "wr" => mode(ds, b) = "wr"
  BY <1>1, <1>2 DEF Has
<1>4. mode(ls, b) # "un" => mode(ds, b) # "un"
  BY <1>1, <1>2 DEF Has
<1>5. In(b, s, n) => mode(ds, b) # "un" /\ (type = "wr" => mode(ds, b) = "wr")
  BY <1>2 DEF Has
<1>6. mode(ds, b) = "wr" => mode(ls, b) = "wr" \/ (type = "wr" /\ In(b, s, n))
  BY <1>1, <1>2 DEF Grown
<1>7. mode(ds, b) # "un" => mode(ls, b) # "un" \/ In(b, s, n)
  BY <1>1, <1>2 DEF Grown
<1> QED BY <1>1, <1>2, <1>3, <1>4, <1>5, <1>6, <1>7 DEF Ranges!Stronger

LEMMA FailMode ==
  ASSUME NEW ls \in SUBSET Regions, NEW ds \in SUBSET Regions, NEW b \in 0 .. Eof,
         NEW type \in {"rd", "wr"}, NEW s, NEW n, Grown(ls, ds, b, type, s, n),
         Neat(ls),
         type = "rd" => \A l \in ls : In(b, l.start, l.len) /\ l.type = "wr"
                                        => Has(ds, b, "wr")
  PROVE  mode(ds, b) \in {"un", mode(ls, b),
                          IF In(b, s, n) THEN Ranges!Stronger(type, mode(ls, b))
                          ELSE mode(ls, b)}
<1>1. /\ mode(ls, b) \in {"un", "rd", "wr"}
      /\ mode(ls, b) = "un" <=> \A l \in ls : ~In(b, l.start, l.len)
      /\ mode(ls, b) = "wr" <=> \E l \in ls : In(b, l.start, l.len) /\ l.type = "wr"
  BY ModeIs
<1>2. /\ mode(ds, b) \in {"un", "rd", "wr"}
      /\ mode(ds, b) = "un" <=> \A l \in ds : ~In(b, l.start, l.len)
      /\ mode(ds, b) = "wr" <=> \E l \in ds : In(b, l.start, l.len) /\ l.type = "wr"
  BY ModeIs
<1>3. CASE mode(ds, b) = "wr"
  <2>1. mode(ls, b) = "wr" \/ (type = "wr" /\ In(b, s, n))
    BY <1>1, <1>2, <1>3 DEF Grown
  <2> QED BY <1>3, <2>1 DEF Ranges!Stronger
<1>4. CASE mode(ds, b) = "rd"
  <2>1. PICK k \in ds : In(b, k.start, k.len)
    BY <1>2, <1>4
  <2>2. k.type = "rd"
    BY <1>2, <1>4, <2>1 DEF Regions
  <2>3. CASE \E l \in ls : l.type = "rd" /\ In(b, l.start, l.len)
    <3>1. PICK l \in ls : l.type = "rd" /\ In(b, l.start, l.len)
      BY <2>3
    <3>2. ASSUME NEW m \in ls, In(b, m.start, m.len) PROVE m = l
      <4>1. /\ m.start \in Nat /\ m.len \in Nat /\ l.start \in Nat /\ l.len \in Nat
            /\ b \in Nat
        BY ByteTyped DEF Regions
      <4>2. ~Apart(m, l) /\ ~Apart(l, m)
        BY <3>1, <3>2, <4>1 DEF Apart, In, End
      <4> QED BY <4>2 DEF Neat
    <3>3. mode(ls, b) = "rd"
      BY <1>1, <3>1, <3>2
    <3> QED BY <1>4, <3>3
  <2>4. CASE type = "rd" /\ In(b, s, n)
    <3>1. mode(ls, b) # "wr"
      BY <1>1, <1>2, <1>4, <2>4 DEF Has
    <3> QED BY <1>1, <1>4, <2>4, <3>1 DEF Ranges!Stronger
  <2> QED BY <2>1, <2>2, <2>3, <2>4 DEF Grown
<1> QED BY <1>2, <1>3, <1>4

LEMMA UnlockMode ==
  ASSUME NEW ls \in SUBSET Regions, NEW ds \in SUBSET Regions, NEW b \in 0 .. Eof,
         NEW s, NEW n, Grown(ls, ds, b, "un", s, n), NEW P \in BOOLEAN,
         P => \A k \in ds : ~In(b, k.start, k.len),
         ~P => \A l \in ls : In(b, l.start, l.len) => Has(ds, b, l.type)
  PROVE  mode(ds, b) = IF P THEN "un" ELSE mode(ls, b)
<1>1. /\ mode(ls, b) \in {"un", "rd", "wr"}
      /\ mode(ls, b) = "un" <=> \A l \in ls : ~In(b, l.start, l.len)
      /\ mode(ls, b) = "wr" <=> \E l \in ls : In(b, l.start, l.len) /\ l.type = "wr"
  BY ModeIs
<1>2. /\ mode(ds, b) \in {"un", "rd", "wr"}
      /\ mode(ds, b) = "un" <=> \A l \in ds : ~In(b, l.start, l.len)
      /\ mode(ds, b) = "wr" <=> \E l \in ds : In(b, l.start, l.len) /\ l.type = "wr"
  BY ModeIs
<1>3. CASE P
  BY <1>2, <1>3
<1>4. CASE ~P
  <2>1. \A k \in ds : k.type # "un"
    BY DEF Regions
  <2>2. mode(ls, b) = "wr" <=> mode(ds, b) = "wr"
    BY <1>1, <1>2, <1>4, <2>1 DEF Has, Grown
  <2>3. mode(ls, b) = "un" <=> mode(ds, b) = "un"
    BY <1>1, <1>2, <1>4, <2>1 DEF Has, Grown
  <2> QED BY <1>1, <1>2, <1>4, <2>2, <2>3
<1> QED BY <1>3, <1>4

-----------------------------------------------------------------------------
(* What the calls leave behind, byte by byte. *)
LEMMA MergeModes ==
  ASSUME NEW o \in Owners, NEW start \in Nat, NEW len \in Nat, NEW mem \in Nat,
         NEW type \in {"rd", "wr"}, ~Gap(o, start, len),
         locks[o] \in SUBSET Regions, IsFiniteSet(locks[o]), Neat(locks[o]),
         NEW e, e = merge_in(o, start, len, type, mem),
         NEW b \in 0 .. Eof
  PROVE  LET new == IF In(b, start, len)
                      THEN Ranges!Stronger(type, mode(locks[o], b))
                      ELSE mode(locks[o], b)
         IN  /\ ~e.err => mode(e.list, b) = new
             /\ mode(e.list, b) \in {"un", mode(locks[o], b), new}
<1> DEFINE c == Call(start, len, mem)
           d == each_region(o, c, type)
           g == gen_lock(d, d.start, d.len, type)
           x == region(d.start, d.len, type, {})
<1>1. /\ c \in Loops /\ c.list = {} /\ c.woken = {} /\ ~c.err /\ ~c.done
      /\ c.start = start /\ c.len = len
  BY DEF Call, Loops
<1>2. \A l \in locks[o] : NoGap(c, l, type)
  BY <1>1 DEF NoGap, Gap
<1>3. e = IF d.done THEN d ELSE g
  BY DEF merge_in
<1>4. Result(o, start, len, type, e)
  BY MergeResult
<1>5. e.list \in SUBSET Regions /\ Grown(locks[o], e.list, b, type, start, len)
  BY <1>4 DEF Result, Loops, Grown
<1> HIDE DEF c
<1>6. Looped(c, locks[o], type, d) /\ Conserved(c, locks[o], type, d)
  BY <1>1, <1>2, LoopDone, LoopConserves
<1> HIDE DEF d
<1>7. d \in Loops /\ d.start \in Nat /\ d.len \in Nat /\ (d.err => d.done)
  BY <1>6 DEF Looped, Loops
<1>8. \/ Moves(d, g, d.start, d.len, {}, {}, TRUE, TRUE)
      \/ Moves(d, g, d.start, d.len, {x}, {}, d.done, d.err)
  BY <1>7, GenLockMoves DEF fresh
<1>9. x.start = d.start /\ x.len = d.len /\ x.type = type
  BY RegionFields
<1> HIDE DEF g, x
<1>10. /\ \A l \in locks[o] : In(b, l.start, l.len) =>
            \/ Has(e.list, b, l.type)
            \/ e.err /\ ~(l.type = "wr" /\ type = "rd")
       /\ In(b, start, len) => e.err \/ Has(e.list, b, type)
  <2>1. CASE d.done
    BY <1>1, <1>3, <1>6, <2>1 DEF Conserved
  <2>2. CASE ~d.done /\ Moves(d, g, d.start, d.len, {}, {}, TRUE, TRUE)
    <3>1. e.list = d.list /\ e.err
      BY <1>3, <2>2 DEF Moves
    <3> QED BY <1>1, <1>6, <1>7, <2>2, <3>1 DEF Conserved
  <2>3. CASE ~d.done /\ Moves(d, g, d.start, d.len, {x}, {}, d.done, d.err)
    <3>1. e.list = d.list \cup {x}
      BY <1>3, <2>3 DEF Moves
    <3>2. \A t : Has(d.list, b, t) => Has(e.list, b, t)
      BY <3>1 DEF Has
    <3>3. \A t : In(b, d.start, d.len) /\ type \in {t, "wr"} => Has(e.list, b, t)
      BY <1>9, <3>1 DEF Has
    <3>4. ~d.err
      BY <1>7, <2>3
    <3> QED BY <1>1, <1>6, <3>2, <3>3, <3>4 DEF Conserved
  <2> QED BY <1>8, <2>1, <2>2, <2>3
<1>11. ~e.err => mode(e.list, b) = IF In(b, start, len)
                                     THEN Ranges!Stronger(type, mode(locks[o], b))
                                     ELSE mode(locks[o], b)
  BY <1>5, <1>10, LockMode
<1>12. mode(e.list, b) \in {"un", mode(locks[o], b),
                            IF In(b, start, len)
                              THEN Ranges!Stronger(type, mode(locks[o], b))
                              ELSE mode(locks[o], b)}
  <2>1. type = "rd" => \A l \in locks[o] :
          In(b, l.start, l.len) /\ l.type = "wr" => Has(e.list, b, "wr")
    BY <1>10
  <2> QED BY <1>5, <2>1, FailMode
<1> QED BY <1>11, <1>12

LEMMA UnlockModes ==
  ASSUME NEW o \in Owners, NEW start \in Nat, NEW len \in Nat, NEW mem \in Nat,
         locks[o] \in SUBSET Regions, IsFiniteSet(locks[o]), Neat(locks[o]),
         NEW e, e = unlock_region(o, start, len, mem), NEW b \in 0 .. Eof
  PROVE  mode(e.list, b) = IF ~e.err /\ In(b, start, len) THEN "un"
                           ELSE mode(locks[o], b)
<1> DEFINE c == Call(start, len, mem)
<1>1. /\ c \in Loops /\ c.list = {} /\ c.woken = {} /\ ~c.err /\ ~c.done
      /\ c.start = start /\ c.len = len
  BY DEF Call, Loops
<1>2. e = each_region(o, c, "un")
  BY DEF unlock_region
<1>3. Result(o, start, len, "un", e)
  BY UnlockResult
<1>4. /\ e.list \in SUBSET Regions /\ e.err \in BOOLEAN
      /\ Grown(locks[o], e.list, b, "un", start, len)
  BY <1>3 DEF Result, Loops, Grown
<1> HIDE DEF c
<1>5. Freed(c, locks[o], e)
  BY <1>1, <1>2, LoopFrees
<1> DEFINE P == ~e.err /\ In(b, start, len)
<1>6. P \in BOOLEAN /\ (P => \A k \in e.list : ~In(b, k.start, k.len))
  BY <1>1, <1>4, <1>5 DEF Freed
<1>7. ~P => \A l \in locks[o] : In(b, l.start, l.len) => Has(e.list, b, l.type)
  BY <1>1, <1>4, <1>5 DEF Freed
<1> HIDE DEF P
<1>8. mode(e.list, b) = IF P THEN "un" ELSE mode(locks[o], b)
  BY <1>4, <1>6, <1>7, UnlockMode
<1> QED BY <1>8 DEF P

-----------------------------------------------------------------------------
(* No loop makes a region, or a rest of the request, that starts or ends   *)
(* beyond the file, so that two regions that overlap share a byte of it.   *)
Fit(x) == x.start + x.len <= Eof
Fitting(c) == Fit(c) /\ \A k \in c.list : Fit(k)

LEMMA MovesFit ==
  ASSUME NEW c, NEW d, NEW s, NEW n, NEW new, NEW roused, NEW done, NEW err,
         Fitting(c), Moves(c, d, s, n, new, roused, done, err),
         s + n <= Eof, \A k \in new : Fit(k)
  PROVE  Fitting(d)
BY DEF Moves, Fitting, Fit

LEMMA RegionFit ==
  ASSUME NEW s \in Nat, NEW n \in Nat, NEW type, NEW w, s + n <= Eof
  PROVE  Fit(region(s, n, type, w))
BY RegionFields DEF Fit

LEMMA OnlyFit ==
  ASSUME NEW p \in BOOLEAN, NEW x, p => Fit(x)
  PROVE  \A k \in only(p, x) : Fit(k)
BY DEF only

LEMMA UnlockFit ==
  ASSUME NEW c \in Loops, NEW l \in Regions, NEW d, UnlockMoves(c, l, d),
         Fitting(c), Fit(l)
  PROVE  Fitting(d)
<1> DEFINE start == c.start
           len   == c.len
           end   == start + len
           rest  == IF l.len = 0 THEN 0 ELSE End(l) - end
           x == region(end, rest, l.type, {})
           y(w) == region(l.start, start - l.start, l.type, w)
<1>1. /\ start \in Nat /\ len \in Nat /\ end \in Nat /\ Eof \in Nat
      /\ l.start \in Nat /\ l.len \in Nat /\ End(l) = l.start + l.len
      /\ start + len <= Eof /\ l.start + l.len <= Eof
  BY RecordLockAssumption DEF Loops, Regions, End, Fitting, Fit
<1>2. ASSUME NEW new, NEW roused, NEW done, NEW err, \A k \in new : Fit(k),
             Moves(c, d, start, len, new, roused, done, err)
      PROVE  Fitting(d)
  BY <1>1, <1>2, MovesFit
<1>3. ASSUME l.len = 0 \/ end < End(l) PROVE Fit(x)
  <2>1. rest \in Nat /\ end + rest <= Eof
    BY <1>1, <1>3
  <2> QED BY <1>1, <2>1, RegionFit
<1>4. ASSUME l.start < start, NEW w PROVE Fit(y(w))
  <2>1. start - l.start \in Nat /\ l.start + (start - l.start) <= Eof
    BY <1>1, <1>4
  <2> QED BY <1>1, <2>1, RegionFit
<1>5. CASE \E roused, done, err : \/ Moves(c, d, start, len, {l}, roused, done, err)
                                  \/ Moves(c, d, start, len, {}, roused, done, err)
  BY <1>2, <1>5
<1>6. CASE /\ l.len = 0 \/ end < End(l)
           /\ \E roused, done, err : Moves(c, d, start, len, {x}, roused, done, err)
  <2>1. Fit(x)
    BY <1>3, <1>6
  <2> HIDE DEF x
  <2> QED BY <1>2, <1>6, <2>1
<1>7. CASE /\ l.start < start
           /\ \E roused, done, err :
                Moves(c, d, start, len, {y({})}, roused, done, err)
  <2>1. Fit(y({}))
    BY <1>4, <1>7
  <2> HIDE DEF y
  <2> QED BY <1>2, <1>7, <2>1
<1>8. CASE /\ l.start < start /\ (l.len = 0 \/ end < End(l))
           /\ \E roused, done, err :
                Moves(c, d, start, len, {y(l.wait), x}, roused, done, err)
  <2>1. Fit(x) /\ Fit(y(l.wait))
    BY <1>3, <1>4, <1>8
  <2> HIDE DEF x, y
  <2> QED BY <1>2, <1>8, <2>1
<1> HIDE DEF Moves
<1> QED BY <1>5, <1>6, <1>7, <1>8 DEF UnlockMoves

LEMMA SplitFit ==
  ASSUME NEW c \in Loops, NEW l \in Regions, NEW d, NEW type,
         within(c, l), SplitMoves(c, l, type, d), Fitting(c), Fit(l)
  PROVE  Fitting(d)
<1> DEFINE start == c.start
           len   == c.len
           end   == start + len
           x == region(l.start, start - l.start, "rd", {})
           y == region(end, IF l.len = 0 THEN 0 ELSE End(l) - end, "rd", {})
           z == region(start, len, "wr", l.wait)
           head == only(l.start < start, x)
<1>1. /\ start \in Nat /\ len \in Nat /\ end \in Nat /\ Eof \in Nat
      /\ l.start \in Nat /\ l.len \in Nat /\ End(l) = l.start + l.len
      /\ start + len <= Eof /\ l.start + l.len <= Eof
  BY RecordLockAssumption DEF Loops, Regions, End, Fitting, Fit
<1>2. ASSUME NEW new, NEW roused, NEW done, NEW err, \A k \in new : Fit(k),
             Moves(c, d, start, len, new, roused, done, err)
      PROVE  Fitting(d)
  BY <1>1, <1>2, MovesFit
<1>3. \A k \in head : Fit(k)
  <2>1. ASSUME l.start < start PROVE Fit(x)
    <3>1. start - l.start \in Nat /\ l.start + (start - l.start) <= Eof
      BY <1>1, <2>1
    <3> QED BY <1>1, <3>1, RegionFit
  <2>2. (l.start < start) \in BOOLEAN
    OBVIOUS
  <2> HIDE DEF x
  <2> QED BY <2>1, <2>2, OnlyFit
<1>4. CASE \E roused, done, err : \/ Moves(c, d, start, len, {l}, roused, done, err)
                                  \/ Moves(c, d, start, len, head, roused, done, err)
  BY <1>2, <1>3, <1>4
<1>5. CASE /\ l.len = 0 \/ end < End(l)
           /\ \E roused, done, err :
                Moves(c, d, start, len, head \cup {y, z}, roused, done, err)
  <2>1. Fit(y)
    <3>1. /\ (IF l.len = 0 THEN 0 ELSE End(l) - end) \in Nat
          /\ end + (IF l.len = 0 THEN 0 ELSE End(l) - end) <= Eof
      BY <1>1, <1>5
    <3> QED BY <1>1, <3>1, RegionFit
  <2>2. Fit(z)
    BY <1>1, RegionFit
  <2> HIDE DEF head, y, z
  <2> QED BY <1>2, <1>3, <1>5, <2>1, <2>2
<1> HIDE DEF Moves
<1> QED BY <1>4, <1>5 DEF SplitMoves

LEMMA SwallowFit ==
  ASSUME NEW c \in Loops, NEW l \in Regions, NEW d, NEW type,
         wraps(c, l), SwallowMoves(c, l, type, d), Fitting(c), Fit(l)
  PROVE  Fitting(d)
<1> DEFINE start == c.start
           len   == c.len
           end   == start + len
           x == region(start, l.start - start, "rd", {})
           head == only(start < l.start, x)
           n == IF len = 0 THEN 0 ELSE end - End(l)
<1>1. /\ start \in Nat /\ len \in Nat /\ end \in Nat /\ Eof \in Nat
      /\ l.start \in Nat /\ l.len \in Nat /\ End(l) = l.start + l.len
      /\ start + len <= Eof /\ l.start + l.len <= Eof
  BY RecordLockAssumption DEF Loops, Regions, End, Fitting, Fit
<1>2. ASSUME start < l.start PROVE Fit(x)
  <2>1. l.start - start \in Nat /\ start + (l.start - start) <= Eof
    BY <1>1, <1>2
  <2> QED BY <1>1, <2>1, RegionFit
<1>3. \A k \in head : Fit(k)
  <2>1. (start < l.start) \in BOOLEAN
    OBVIOUS
  <2> HIDE DEF x
  <2> QED BY <1>2, <2>1, OnlyFit
<1> HIDE DEF x, head
<1>4. CASE \E roused, done, err : \/ Moves(c, d, start, len, {l}, roused, done, err)
                                  \/ Moves(c, d, start, len, {}, roused, done, err)
  BY <1>1, <1>4, MovesFit
<1>5. CASE /\ len = 0 \/ End(l) < end
           /\ \E roused, done, err :
                Moves(c, d, End(l), n, head \cup {l}, roused, done, err)
  <2>1. End(l) + n <= Eof
    BY <1>1, <1>5
  <2>2. \A k \in head \cup {l} : Fit(k)
    BY <1>3
  <2> HIDE DEF n
  <2> QED BY <1>5, <2>1, <2>2, MovesFit
<1>6. CASE /\ start < l.start
           /\ \E roused, done, err : Moves(c, d, start, len, {x, l}, roused, done, err)
  <2>1. \A k \in {x, l} : Fit(k)
    BY <1>2, <1>6
  <2> QED BY <1>1, <1>6, <2>1, MovesFit
<1> HIDE DEF Moves
<1> QED BY <1>4, <1>5, <1>6 DEF SwallowMoves, x, head

LEMMA UpFit ==
  ASSUME NEW c \in Loops, NEW l \in Regions, NEW d, NEW type,
         starts_in(c, l), UpMoves(c, l, type, d), Fitting(c), Fit(l)
  PROVE  Fitting(d)
<1> DEFINE start == c.start
           len   == c.len
           end   == start + len
           x == region(l.start, start - l.start, "rd", l.wait)
<1>1. /\ start \in Nat /\ len \in Nat /\ end \in Nat /\ Eof \in Nat
      /\ l.start \in Nat /\ l.len \in Nat /\ End(l) = l.start + l.len
      /\ start + len <= Eof /\ l.start + l.len <= Eof
      /\ l.start < start /\ (len = 0 \/ end > End(l))
  BY RecordLockAssumption DEF Loops, Regions, End, Fitting, Fit, starts_in
<1>2. Fit(x)
  <2>1. start - l.start \in Nat /\ l.start + (start - l.start) <= Eof
    BY <1>1
  <2> QED BY <1>1, <2>1, RegionFit
<1> HIDE DEF x
<1>3. CASE \E roused, done, err : \/ Moves(c, d, start, len, {l}, roused, done, err)
                                  \/ Moves(c, d, start, len, {x}, roused, done, err)
  BY <1>1, <1>2, <1>3, MovesFit
<1>4. CASE \E roused, done, err :
             Moves(c, d, l.start, IF len = 0 THEN 0 ELSE end - l.start, {}, roused,
                   done, err)
  <2>1. l.start + (IF len = 0 THEN 0 ELSE end - l.start) <= Eof
    BY <1>1
  <2> QED BY <1>4, <2>1, MovesFit
<1>5. CASE \E roused, done, err :
             Moves(c, d, End(l), IF len = 0 THEN 0 ELSE end - End(l), {l}, roused,
                   done, err)
  <2>1. End(l) + (IF len = 0 THEN 0 ELSE end - End(l)) <= Eof
    BY <1>1
  <2>2. \A k \in {l} : Fit(k)
    OBVIOUS
  <2> QED BY <1>5, <2>1, <2>2, MovesFit
<1> HIDE DEF Moves
<1> QED BY <1>3, <1>4, <1>5 DEF UpMoves, x

LEMMA DownFit ==
  ASSUME NEW c \in Loops, NEW l \in Regions, NEW d, NEW type,
         ends_in(c, l), DownMoves(c, l, type, d), Fitting(c), Fit(l)
  PROVE  Fitting(d)
<1> DEFINE start == c.start
           len   == c.len
           end   == start + len
           up    == IF l.len = 0 THEN 0 ELSE End(l) - start
           rest  == IF l.len = 0 THEN 0 ELSE End(l) - end
           x == region(start, up, type, l.wait)
           y == region(start, len, "wr", {})
           z == region(end, rest, "rd", l.wait)
           w == region(start, l.start - start, "rd", {})
<1>1. /\ start \in Nat /\ len \in Nat /\ end \in Nat /\ Eof \in Nat
      /\ l.start \in Nat /\ l.len \in Nat /\ End(l) = l.start + l.len
      /\ start + len <= Eof /\ l.start + l.len <= Eof
      /\ start < l.start /\ (l.len = 0 \/ end < End(l))
  BY RecordLockAssumption
     DEF Loops, Regions, End, Fitting, Fit, ends_in, DownMoves
<1>2. /\ up \in Nat /\ start + up <= Eof /\ rest \in Nat /\ end + rest <= Eof
      /\ l.start - start \in Nat /\ start + (l.start - start) <= Eof
  BY <1>1
<1> HIDE DEF up, rest
<1>3. Fit(x) /\ Fit(y) /\ Fit(z) /\ Fit(w)
  BY <1>1, <1>2, RegionFit
<1> HIDE DEF x, y, z, w
<1>4. CASE \E done, err :
             \/ Moves(c, d, start, len, {l}, {}, done, err)
             \/ Moves(c, d, start, len, {x}, {}, done, err)
             \/ Moves(c, d, start, len, {y, z}, {}, done, err)
             \/ Moves(c, d, start, len, {w, l}, {}, done, err)
  <2>1. /\ \A k \in {l} : Fit(k)
        /\ \A k \in {x} : Fit(k)
        /\ \A k \in {y, z} : Fit(k)
        /\ \A k \in {w, l} : Fit(k)
    BY <1>3
  <2> QED BY <1>1, <1>4, <2>1, MovesFit
<1> HIDE DEF Moves
<1> QED BY <1>4 DEF DownMoves, x, y, z, w, up, rest

LEMMA TurnFit ==
  ASSUME NEW c \in Loops, c.err => c.done, NEW l \in Regions,
         NEW type \in {"un", "rd", "wr"}, Fitting(c), Fit(l)
  PROVE  Fitting(turn(c, l, type))
<1> DEFINE d == turn(c, l, type)
<1>1. CASE type = "un"
  BY <1>1, UnlockOne, UnlockFit DEF turn
<1>2. CASE type \in {"rd", "wr"}
  <2>1. d = merge_one(c, l, type)
    BY <1>2 DEF turn
  <2>2. MergeMoves(c, l, type, d)
    BY <1>2, <2>1, MergeOne
  <2> HIDE DEF d
  <2>3. CASE \E done, err : Moves(c, d, c.start, c.len, {l}, {}, done, err)
    <3>1. c.start + c.len <= Eof /\ \A k \in {l} : Fit(k)
      BY DEF Fitting, Fit
    <3>2. Fitting(d)
      BY <2>3, <3>1, MovesFit
    <3> QED BY <3>2 DEF d
  <2>4. CASE d.start = c.start /\ d.len = c.len /\ d.list = c.list \cup {l}
    <3>1. Fitting(d)
      BY <2>4 DEF Fitting, Fit
    <3> QED BY <3>1 DEF d
  <2>5. QED
    <3>1. CASE within(c, l) /\ SplitMoves(c, l, type, d)
      BY <3>1, SplitFit DEF d
    <3>2. CASE wraps(c, l) /\ SwallowMoves(c, l, type, d)
      BY <3>2, SwallowFit DEF d
    <3>3. CASE starts_in(c, l) /\ UpMoves(c, l, type, d)
      BY <3>3, UpFit DEF d
    <3>4. CASE ends_in(c, l) /\ DownMoves(c, l, type, d)
      BY <3>4, DownFit DEF d
    <3> QED BY <2>2, <2>3, <2>4, <3>1, <3>2, <3>3, <3>4 DEF MergeMoves, d
<1> QED BY <1>1, <1>2

LEMMA LoopFit ==
  ASSUME NEW o \in Owners, NEW type \in {"un", "rd", "wr"}, NEW c \in Loops,
         c.list = {}, c.woken = {}, ~c.err, Fit(c),
         locks[o] \in SUBSET Regions, IsFiniteSet(locks[o]),
         \A l \in locks[o] : Fit(l)
  PROVE  Fitting(each_region(o, c, type))
<1> DEFINE g == Unroll(locks[o], c, type)
<1>1. /\ Unrolled(g, SUBSET locks[o], c, type)
      /\ each_region(o, c, type) = g[locks[o]]
  BY EachRegion
<1> HIDE DEF g
<1> DEFINE S == locks[o]
<1> DEFINE G == {ls \in SUBSET S : Looped(c, ls, type, g[ls]) /\ Fitting(g[ls])}
<1>2. {} \in G
  <2>1. g[{}] = c
    BY <1>1 DEF Unrolled
  <2>2. Looped(c, {}, type, c) /\ Fitting(c)
    BY LoopedNone DEF Fitting
  <2> QED BY <2>1, <2>2
<1>3. ASSUME NEW ls \in SUBSET S, ls # {}, ls \ {last(ls)} \in G
      PROVE  ls \in G
  <2>1. last(ls) \in ls
    BY <1>3, LastRegion, FS_Subset
  <2>2. g[ls] = turn(g[ls \ {last(ls)}], last(ls), type)
    BY <1>1, <1>3 DEF Unrolled
  <2>3. /\ Looped(c, ls \ {last(ls)}, type, g[ls \ {last(ls)}])
        /\ Fitting(g[ls \ {last(ls)}])
    BY <1>3
  <2>4. Looped(c, ls, type, g[ls])
    BY <2>1, <2>2, <2>3, LoopedTurn
  <2>5. Fitting(g[ls])
    <3>1. g[ls \ {last(ls)}] \in Loops
          /\ (g[ls \ {last(ls)}].err => g[ls \ {last(ls)}].done)
      BY <2>3 DEF Looped
    <3>2. last(ls) \in Regions /\ Fit(last(ls))
      BY <2>1
    <3> QED BY <2>2, <2>3, <3>1, <3>2, TurnFit
  <2> QED BY <2>4, <2>5
<1> HIDE DEF G
<1>4. S \in G
  BY <1>2, <1>3, ListInduction
<1> QED BY <1>1, <1>4 DEF G

LEMMA CallFit ==
  ASSUME NEW o \in Owners, NEW start \in Nat, NEW len \in Nat, NEW mem \in Nat,
         start + len <= Eof, NEW type \in {"rd", "wr"},
         locks[o] \in SUBSET Regions, IsFiniteSet(locks[o]),
         \A l \in locks[o] : Fit(l)
  PROVE  /\ \A k \in merge_in(o, start, len, type, mem).list : Fit(k)
         /\ \A k \in unlock_region(o, start, len, mem).list : Fit(k)
<1> DEFINE c == Call(start, len, mem)
           d == each_region(o, c, type)
           e == gen_lock(d, d.start, d.len, type)
<1>1. /\ c \in Loops /\ c.start = start /\ c.len = len /\ c.list = {}
      /\ c.woken = {} /\ c.err = FALSE
  BY DEF Call, Loops
<1>2. Fit(c)
  BY <1>1 DEF Fit
<1> HIDE DEF c
<1>3. Fitting(each_region(o, c, "un"))
  BY <1>1, <1>2, LoopFit
<1>4. Fitting(d) /\ d \in Loops
  <2>1. Looped(c, locks[o], type, d)
    BY <1>1, LoopDone
  <2> QED BY <1>1, <1>2, <2>1, LoopFit DEF Looped
<1>5. \A k \in unlock_region(o, start, len, mem).list : Fit(k)
  BY <1>3 DEF unlock_region, c, Fitting
<1>6. merge_in(o, start, len, type, mem) = IF d.done THEN d ELSE e
  BY DEF merge_in, c
<1> HIDE DEF d
<1>7. d.start \in Nat /\ d.len \in Nat /\ d.start + d.len <= Eof
  BY <1>4 DEF Loops, Fitting, Fit
<1>8. Fitting(e)
  <2> DEFINE x == fresh(d.start, d.len, type)
  <2>1. Fit(x)
    BY <1>7, RegionFit DEF fresh
  <2>2. \/ Moves(d, e, d.start, d.len, {}, {}, TRUE, TRUE)
        \/ Moves(d, e, d.start, d.len, {x}, {}, d.done, d.err)
    BY <1>4, <1>7, GenLockMoves
  <2> HIDE DEF x, e
  <2>3. \A k \in {x} : Fit(k)
    BY <2>1
  <2>4. CASE Moves(d, e, d.start, d.len, {}, {}, TRUE, TRUE)
    BY <1>4, <2>4 DEF Moves, Fitting, Fit
  <2>5. CASE Moves(d, e, d.start, d.len, {x}, {}, d.done, d.err)
    BY <1>4, <1>7, <2>3, <2>5, MovesFit
  <2> QED BY <2>2, <2>4, <2>5
<1> QED BY <1>4, <1>5, <1>6, <1>8 DEF Fitting

-----------------------------------------------------------------------------
(* The lists implement the locks of bytes. *)

(* A request that waits and the regions are within the file. *)
Bounded ==
  /\ \A t \in Threads : req[t] # NoReq =>
       req[t].start \in Starts /\ req[t].start + req[t].len <= Eof
  /\ \A o \in Owners : \A l \in locks[o] : Fit(l)

LEMMA ApplyBounded ==
  ASSUME Inv, Bounded, NEW o \in Owners, NEW start \in Nat, NEW len \in Nat,
         NEW mem \in Nat, start + len <= Eof, NEW type \in {"un", "rd", "wr"},
         NEW d, NEW roused, Apply(o, start, len, type, d, roused),
         IF type = "un" THEN d = unlock_region(o, start, len, mem)
         ELSE d = merge_in(o, start, len, type, mem)
  PROVE  \A p \in Owners : \A l \in locks'[p] : Fit(l)
<1>1. /\ locks \in [Owners -> SUBSET Regions] /\ IsFiniteSet(locks[o])
      /\ \A p \in Owners : \A l \in locks[p] : Fit(l)
  BY DEF Inv, Typed, Bounded
<1>2. \A k \in d.list : Fit(k)
  <2>1. CASE type = "un"
    <3>1. "rd" \in {"rd", "wr"}
      OBVIOUS
    <3> QED BY <1>1, <2>1, <3>1, CallFit
  <2>2. CASE type # "un"
    BY <1>1, <2>2, CallFit
  <2> QED BY <2>1, <2>2
<1>3. locks' = [locks EXCEPT ![o] = d.list]
  BY DEF Apply
<1> QED BY <1>1, <1>2, <1>3

LEMMA JoinBounded ==
  ASSUME Inv, Bounded, NEW t \in Threads, NEW o, NEW start, NEW len, NEW type,
         NEW e \in find_conflict(o, start, len, type), Join(t, e)
  PROVE  \A p \in Owners : \A l \in locks'[p] : Fit(l)
<1> DEFINE q == e[1]
           l == e[2]
           x == [l EXCEPT !.wait = @ \cup {t}]
<1>1. q \in Owners /\ l \in locks[q] /\ locks \in [Owners -> SUBSET Regions]
  BY DEF find_conflict, conflicts, Inv, Typed
<1>2. x.start = l.start /\ x.len = l.len
  BY <1>1 DEF Regions
<1>3. locks' = [locks EXCEPT ![q] = (@ \ {l}) \cup {x}]
  BY DEF Join
<1> HIDE DEF q, l, x
<1>4. Fit(x)
  BY <1>1, <1>2 DEF Bounded, Fit
<1> QED BY <1>1, <1>3, <1>4 DEF Bounded

LEMMA BoundedHolds ==
  ASSUME Inv, Bounded, [Next]_vars
  PROVE  Bounded'
<1>1. /\ req \in [Threads -> Requests \cup {NoReq}]
      /\ locks \in [Owners -> SUBSET Regions] /\ OneQueue
  BY DEF Inv, Typed
<1>2. /\ \A start \in Starts : start \in Nat
      /\ \A len \in Lens : len \in Nat
      /\ \A mem \in 0 .. MaxMem : mem \in Nat
  BY RecordLockAssumption DEF Starts, Lens
<1>3. CASE UNCHANGED <<req, locks>>
  BY <1>3 DEF Bounded
<1>4. CASE UNCHANGED vars
  BY <1>3, <1>4 DEF vars
<1>5. ASSUME NEW o \in Owners, NEW start \in Starts, NEW len \in Lens,
             start + len <= Eof, NEW type \in {"rd", "wr"}, NEW t \in Threads,
             setlkw(t, o, start, len, type)
      PROVE  Bounded'
  <2> DEFINE r == [po |-> o, start |-> start, len |-> len, type |-> type]
  <2>1. req' = [req EXCEPT ![t] = r]
    BY <1>5 DEF setlkw
  <2>2. r.start = start /\ r.len = len
    OBVIOUS
  <2> HIDE DEF r
  <2>3. \A u \in Threads : req'[u] = IF u = t THEN r ELSE req[u]
    BY <1>1, <2>1
  <2>4. \A p \in Owners : \A l \in locks'[p] : Fit(l)
    BY <1>5, JoinBounded DEF setlkw
  <2> QED BY <1>1, <1>5, <2>2, <2>3, <2>4 DEF Bounded
<1>6. ASSUME NEW t \in Threads, req' = [req EXCEPT ![t] = NoReq] \/ req' = req,
             \A p \in Owners : \A l \in locks'[p] : Fit(l)
      PROVE  Bounded'
  <2>1. \A u \in Threads : req'[u] \in {NoReq, req[u]}
    BY <1>1, <1>6
  <2> QED BY <1>6, <2>1 DEF Bounded
<1>7. ASSUME NEW o \in Owners, NEW start \in Starts, NEW len \in Lens,
             start + len <= Eof, NEW type \in {"rd", "wr"}, NEW mem \in 0 .. MaxMem,
             setlk(o, start, len, type, mem)
      PROVE  Bounded'
  <2>1. /\ req' = req
        /\ Apply(o, start, len, type, merge_in(o, start, len, type, mem), {})
    BY <1>7 DEF setlk
  <2>2. \A p \in Owners : \A l \in locks'[p] : Fit(l)
    BY <1>2, <1>7, <2>1, ApplyBounded
  <2> QED BY <2>1, <2>2 DEF Bounded
<1>8. ASSUME NEW o \in Owners, NEW start \in Starts, NEW len \in Lens,
             start + len <= Eof, NEW mem \in 0 .. MaxMem,
             unlock(o, start, len, mem)
      PROVE  Bounded'
  <2>1. /\ req' = req
        /\ Apply(o, start, len, "un", unlock_region(o, start, len, mem), {})
    BY <1>8 DEF unlock
  <2>2. \A p \in Owners : \A l \in locks'[p] : Fit(l)
    BY <1>2, <1>8, <2>1, ApplyBounded
  <2> QED BY <2>1, <2>2 DEF Bounded
<1>9. ASSUME NEW t \in Threads, NEW mem \in 0 .. MaxMem, retry(t, mem)
      PROVE  Bounded'
  <2> DEFINE r == req[t]
             d == merge_in(r.po, r.start, r.len, r.type, mem)
  <2>1. t \in woken
    BY <1>9 DEF retry
  <2>2. r \in Requests /\ r # NoReq
    BY <1>1, <2>1 DEF OneQueue
  <2>3. /\ r.po \in Owners /\ r.start \in Nat /\ r.len \in Nat
        /\ r.start + r.len <= Eof /\ r.type \in {"rd", "wr"} /\ mem \in Nat
    BY <1>1, <1>2, <2>1, <2>2 DEF Requests, Bounded, Inv, Typed
  <2>4. CASE /\ req' = [req EXCEPT ![t] = NoReq]
             /\ Apply(r.po, r.start, r.len, r.type, d, {t})
    <3>1. r.type \in {"un", "rd", "wr"} /\ r.type # "un"
      BY <2>3
    <3> HIDE DEF r
    <3>2. \A p \in Owners : \A l \in locks'[p] : Fit(l)
      BY <2>3, <2>4, <3>1, ApplyBounded
    <3> QED BY <1>6, <2>4, <3>2
  <2>5. CASE /\ req' = req
             /\ \E e \in find_conflict(r.po, r.start, r.len, r.type) : Join(t, e)
    <3>1. \A p \in Owners : \A l \in locks'[p] : Fit(l)
      BY <2>5, JoinBounded
    <3> QED BY <1>6, <2>5, <3>1
  <2> QED BY <1>9, <2>4, <2>5 DEF retry
<1>10. ASSUME NEW t \in Threads, interrupt(t) PROVE Bounded'
  <2> DEFINE without(l) == [l EXCEPT !.wait = @ \ {t}]
  <2>1. \A o \in Owners : locks'[o] = {without(l) : l \in locks[o]}
    BY <1>10 DEF interrupt, Leave
  <2>2. \A l \in Regions : without(l).start = l.start /\ without(l).len = l.len
    BY DEF Regions
  <2> HIDE DEF without
  <2>3. \A l \in Regions : Fit(l) => Fit(without(l))
    BY <2>2 DEF Fit
  <2>4. \A p \in Owners : \A l \in locks'[p] : Fit(l)
    BY <1>1, <2>1, <2>3 DEF Bounded
  <2> QED BY <1>6, <1>10, <2>4 DEF interrupt
<1>11. ASSUME NEW o \in Owners, drop_peropen(o) PROVE Bounded'
  <2>1. req' = req /\ \A p \in Owners : locks'[p] \in {{}, locks[p]}
    BY <1>1, <1>11 DEF drop_peropen
  <2> QED BY <2>1 DEF Bounded
<1>12. ASSUME NEW o \in Owners, NEW start, NEW len, NEW type,
              setlk_again(o, start, len, type)
       PROVE  Bounded'
  BY <1>3, <1>12 DEF setlk_again
<1> QED BY <1>4, <1>5, <1>7, <1>8, <1>9, <1>10, <1>11, <1>12 DEF Next

LEMMA HeldMode ==
  /\ \A o \in Owners, b \in Bytes : Held(o, b) = mode(locks[o], b)
  /\ \A o \in Owners, b \in Bytes : Held(o, b)' = mode(locks'[o], b)
BY DEF Held, mode

(* A range is a range of bytes of RangeLock. *)
LEMMA RangeIs ==
  ASSUME NEW s \in Starts, NEW n \in Nat, s + n <= Eof
  PROVE  /\ s \in Bytes /\ \E to \in s .. Eof : range(s, n) = s .. to
         /\ range(s, n) \subseteq Bytes
         /\ \A b \in Bytes : b \in range(s, n) <=> In(b, s, n)
<1>1. Eof \in Nat /\ s \in Nat /\ s < Eof
  BY RecordLockAssumption DEF Starts
<1>2. CASE n = 0
  <2>1. range(s, n) = s .. Eof /\ Eof \in s .. Eof /\ s \in Bytes
    BY <1>1, <1>2 DEF Bytes, range
  <2>2. \A b \in Bytes : b \in s .. Eof <=> In(b, s, n)
    BY <1>1, <1>2 DEF Bytes, In
  <2>3. s .. Eof \subseteq Bytes
    BY <1>1 DEF Bytes
  <2> QED BY <2>1, <2>2, <2>3
<1>3. CASE n # 0
  <2>1. /\ range(s, n) = s .. (s + n - 1) /\ s + n - 1 \in s .. Eof
        /\ s \in Bytes
    BY <1>1, <1>3 DEF Bytes, range
  <2>2. \A b \in Bytes : b \in s .. (s + n - 1) <=> In(b, s, n)
    BY <1>1, <1>3 DEF Bytes, In
  <2>3. s .. (s + n - 1) \subseteq Bytes
    BY <1>1, <1>3 DEF Bytes
  <2> QED BY <2>1, <2>2, <2>3
<1> QED BY <1>2, <1>3

(* A call about a range of the file is a step of RangeLock. *)
LEMMA CallIsNext ==
  ASSUME NEW o \in Owners, NEW s \in Starts, NEW n \in Nat, s + n <= Eof,
         \/ Ranges!Unlock(o, range(s, n)) \/ Ranges!FailUnlock(o, range(s, n))
         \/ \E type \in {"rd", "wr"} :
              \/ Ranges!Lock(o, range(s, n), type)
              \/ Ranges!Fail(o, range(s, n), type)
              \/ Ranges!Refuse(o, range(s, n), type)
              \/ Ranges!Interrupt(o, range(s, n), type)
  PROVE  Ranges!Next
<1>1. s \in Ranges!Bytes /\ \E to \in s .. Eof : range(s, n) = s .. to
  BY RangeIs DEF Bytes, Ranges!Bytes
<1>2. PICK to \in s .. Eof : range(s, n) = s .. to
  BY <1>1
<1> DEFINE R == s .. to
<1>3. \/ Ranges!Unlock(o, R) \/ Ranges!FailUnlock(o, R)
      \/ \E type \in {"rd", "wr"} :
           \/ Ranges!Lock(o, R, type) \/ Ranges!Fail(o, R, type)
           \/ Ranges!Refuse(o, R, type) \/ Ranges!Interrupt(o, R, type)
  BY <1>2
<1>4. \E from \in Ranges!Bytes : \E up \in from .. Eof :
        \/ Ranges!Unlock(o, from .. up) \/ Ranges!FailUnlock(o, from .. up)
        \/ \E type \in {"rd", "wr"} :
             \/ Ranges!Lock(o, from .. up, type)
             \/ Ranges!Fail(o, from .. up, type)
             \/ Ranges!Refuse(o, from .. up, type)
             \/ Ranges!Interrupt(o, from .. up, type)
  BY <1>1, <1>3
<1> QED BY <1>4 DEF Ranges!Next

(* The map is a map of modes, and a call of O changes the modes of O only. *)
LEMMA MapTyped ==
  ASSUME Typed', NEW o \in Owners,
         \A p \in Owners : p # o => locks'[p] = locks[p]
  PROVE  /\ [p \in Owners |-> [b \in Bytes |-> Held(p, b)]]'
              \in [Owners -> [Bytes -> {"un", "rd", "wr"}]]
         /\ \A p \in Owners \ {o} : [b \in Bytes |-> Held(p, b)]'
                                      = [b \in Bytes |-> Held(p, b)]
<1>1. ASSUME NEW p \in Owners, NEW b \in Bytes
      PROVE  Held(p, b)' \in {"un", "rd", "wr"}
  <2>1. locks'[p] \in SUBSET Regions
    BY DEF Typed
  <2> QED BY <2>1, HeldMode, ModeIs DEF Bytes
<1>2. ASSUME NEW p \in Owners \ {o}, NEW b \in Bytes
      PROVE  Held(p, b)' = Held(p, b)
  BY <1>2, HeldMode
<1> QED BY <1>1, <1>2

(* A lock that finds no conflict gets what it asks for, or part of it.     *)
LEMMA LockRefines ==
  ASSUME Inv, Typed', NEW o \in Owners, NEW s \in Starts, NEW n \in Nat,
         s + n <= Eof, NEW type \in {"rd", "wr"}, NEW err \in BOOLEAN,
         \A p \in Owners : p # o => locks'[p] = locks[p],
         find_conflict(o, s, n, type) = {},
         Answer(o, s, n, type, IF err THEN "nomem" ELSE "ok"),
         \A b \in Bytes :
           LET new == IF In(b, s, n) THEN Ranges!Stronger(type, mode(locks[o], b))
                      ELSE mode(locks[o], b)
           IN  /\ ~err => mode(locks'[o], b) = new
               /\ mode(locks'[o], b) \in {"un", mode(locks[o], b), new}
  PROVE  Ranges!Next
<1> DEFINE H == [p \in Owners |-> [b \in Bytes |-> Held(p, b)]]
           R == range(s, n)
<1>1. R \subseteq Bytes /\ \A b \in Bytes : b \in R <=> In(b, s, n)
  BY RangeIs
<1>2. Ranges!Answer(o, R, type, IF err THEN "nomem" ELSE "ok")
  BY DEF Answer, Ranges!Answer
<1> HIDE DEF R
<1>3. /\ H' \in [Owners -> [Bytes -> {"un", "rd", "wr"}]]
      /\ \A p \in Owners \ {o} : H'[p] = H[p]
  BY MapTyped
<1>4. ASSUME NEW p \in Owners \ {o}, NEW b \in R
      PROVE  ~Ranges!Conflict(type, H[p][b])
  <2>1. b \in 0 .. Eof /\ b \in Bytes /\ In(b, s, n) /\ s \in Nat
    BY <1>1, <1>4, RecordLockAssumption DEF Bytes, Starts
  <2>2. Typed /\ locks[p] \in SUBSET Regions
    BY DEF Inv, Typed
  <2>3. H[p][b] = mode(locks[p], b)
    BY <2>1, HeldMode
  <2>4. \A l \in locks[p] : In(b, l.start, l.len) => type = "rd" /\ l.type = "rd"
    BY <2>1, <2>2, NothingFound
  <2>5. /\ mode(locks[p], b) = "un" <=> \A l \in locks[p] : ~In(b, l.start, l.len)
        /\ mode(locks[p], b) = "wr" <=>
             \E l \in locks[p] : In(b, l.start, l.len) /\ l.type = "wr"
    BY <2>1, <2>2, ModeIs
  <2>6. mode(locks[p], b) # "un" => type = "rd" /\ mode(locks[p], b) # "wr"
    BY <2>4, <2>5
  <2> HIDE DEF H
  <2> QED BY <2>3, <2>6 DEF Ranges!Conflict
<1> DEFINE new(b) == IF b \in R THEN Ranges!Stronger(type, H[o][b]) ELSE H[o][b]
<1>5. ASSUME NEW b \in Bytes
      PROVE  /\ ~err => H'[o][b] = new(b)
             /\ H'[o][b] \in {"un", H[o][b], new(b)}
  <2>1. H[o][b] = mode(locks[o], b) /\ H'[o][b] = mode(locks'[o], b)
    BY HeldMode
  <2>2. b \in R <=> In(b, s, n)
    BY <1>1
  <2> HIDE DEF H
  <2> QED BY <2>1, <2>2
<1>6. DOMAIN H' = Owners /\ H'[o] = [b \in Bytes |-> H'[o][b]]
  BY <1>3
<1>7. Ranges!Grantable(o, R, type)
  BY <1>4 DEF Ranges!Grantable, Ranges!Bytes, Bytes
<1>8. CASE err
  <2>1. Ranges!Fail(o, R, type)
    BY <1>2, <1>3, <1>5, <1>7, <1>8
       DEF Ranges!Fail, Ranges!Locked, Ranges!Bytes, Ranges!Modes, Bytes
  <2> QED BY <2>1, CallIsNext DEF R
<1>9. CASE ~err
  <2>1. H'[o] = [b \in Bytes |-> new(b)]
    BY <1>5, <1>6, <1>9
  <2>2. H' = [H EXCEPT ![o] = [b \in Bytes |-> new(b)]]
    <3> HIDE DEF new
    <3> QED BY <1>3, <2>1
  <2>3. Ranges!Lock(o, R, type)
    BY <1>2, <1>7, <1>9, <2>2
       DEF Ranges!Lock, Ranges!Locked, Ranges!Bytes, Bytes
  <2> QED BY <2>3, CallIsNext DEF R
<1> QED BY <1>8, <1>9

LEMMA UnlockRefines ==
  ASSUME Typed', NEW o \in Owners, NEW s \in Starts, NEW n \in Nat, s + n <= Eof,
         \A p \in Owners : p # o => locks'[p] = locks[p],
         Answer(o, s, n, "un", "ok"),
         \A b \in Bytes : mode(locks'[o], b)
                            = IF In(b, s, n) THEN "un" ELSE mode(locks[o], b)
  PROVE  Ranges!Next
<1> DEFINE H == [p \in Owners |-> [b \in Bytes |-> Held(p, b)]]
           R == range(s, n)
<1>1. \A b \in Bytes : b \in R <=> In(b, s, n)
  BY RangeIs
<1>2. Ranges!Answer(o, R, "un", "ok")
  BY DEF Answer, Ranges!Answer
<1> HIDE DEF R
<1>3. /\ H' \in [Owners -> [Bytes -> {"un", "rd", "wr"}]]
      /\ \A p \in Owners \ {o} : H'[p] = H[p]
  BY MapTyped
<1>4. ASSUME NEW b \in Bytes PROVE H'[o][b] = IF b \in R THEN "un" ELSE H[o][b]
  <2>1. H[o][b] = mode(locks[o], b) /\ H'[o][b] = mode(locks'[o], b)
    BY HeldMode
  <2>2. b \in R <=> In(b, s, n)
    BY <1>1
  <2> HIDE DEF H
  <2> QED BY <2>1, <2>2
<1> DEFINE new == [b \in Bytes |-> IF b \in R THEN "un" ELSE H[o][b]]
<1>5. H'[o] = new
  BY <1>3, <1>4
<1>6. H' = [H EXCEPT ![o] = new]
  <2> HIDE DEF new
  <2> QED BY <1>3, <1>5
<1>7. Ranges!Unlock(o, R)
  BY <1>2, <1>6 DEF Ranges!Unlock, Ranges!Unlocked, Ranges!Bytes, Bytes
<1> QED BY <1>7, CallIsNext DEF R

(* A step that moves no region, whoever sleeps on it. *)
LEMMA SameHeld ==
  ASSUME \A o \in Owners, b \in Bytes : mode(locks'[o], b) = mode(locks[o], b)
  PROVE  [p \in Owners |-> [b \in Bytes |-> Held(p, b)]]'
           = [p \in Owners |-> [b \in Bytes |-> Held(p, b)]]
BY HeldMode

(* Whoever is refused or sleeps has found a byte of its range that another *)
(* open file holds in a conflicting mode.                                  *)
LEMMA RefuseRefines ==
  ASSUME Inv, Bounded, NEW o \in Owners, NEW s \in Starts, NEW n \in Nat,
         s + n <= Eof, NEW type \in {"rd", "wr"},
         find_conflict(o, s, n, type) # {},
         NEW answer \in {"again", "wait"}, Answer(o, s, n, type, answer),
         \A p \in Owners, b \in Bytes : mode(locks'[p], b) = mode(locks[p], b)
  PROVE  Ranges!Next
<1> DEFINE H == [p \in Owners |-> [b \in Bytes |-> Held(p, b)]]
           R == range(s, n)
<1>1. R \subseteq Bytes /\ \A b \in Bytes : b \in R <=> In(b, s, n)
  BY RangeIs
<1>2. \E a \in {"again", "wait"} : Ranges!Answer(o, R, type, a)
  BY DEF Answer, Ranges!Answer
<1> HIDE DEF R
<1>3. H' = H
  BY SameHeld
<1>4. PICK e \in find_conflict(o, s, n, type) : TRUE
  OBVIOUS
<1> DEFINE p == e[1]
           l == e[2]
<1>5. /\ p \in Owners \ {o} /\ l \in locks[p] /\ "wr" \in {l.type, type}
      /\ overlap(s, n, l)
  BY <1>4 DEF find_conflict, conflicts
<1> HIDE DEF p, l
<1>6. /\ locks[p] \in SUBSET Regions /\ l \in Regions /\ Fit(l)
  BY <1>5 DEF Inv, Typed, Bounded
<1>7. /\ l.start \in Nat /\ l.len \in Nat /\ l.start + l.len <= Eof
      /\ s \in Nat /\ s < Eof /\ Eof \in Nat /\ l.type \in {"rd", "wr"}
  BY <1>6, RecordLockAssumption DEF Regions, Fit, Starts
<1> DEFINE b == IF s >= l.start THEN s ELSE l.start
<1>8. /\ b \in 0 .. Eof /\ In(b, s, n) /\ In(b, l.start, l.len)
  BY <1>5, <1>7 DEF overlap, End, In
<1> HIDE DEF b
<1>9. b \in Bytes /\ b \in R
  BY <1>1, <1>8 DEF Bytes
<1>10. /\ mode(locks[p], b) \in {"un", "rd", "wr"}
       /\ mode(locks[p], b) = "un" <=> \A k \in locks[p] : ~In(b, k.start, k.len)
       /\ mode(locks[p], b) = "wr" <=>
            \E k \in locks[p] : In(b, k.start, k.len) /\ k.type = "wr"
  BY <1>6, <1>8, ModeIs
<1>11. H[p][b] = mode(locks[p], b)
  BY <1>5, <1>9, HeldMode
<1> HIDE DEF H
<1>12. Ranges!Conflict(type, H[p][b])
  BY <1>5, <1>7, <1>8, <1>10, <1>11 DEF Ranges!Conflict
<1>13. ~Ranges!Grantable(o, R, type)
  BY <1>5, <1>9, <1>12 DEF Ranges!Grantable, Ranges!Bytes, Bytes, H
<1>14. Ranges!Refuse(o, R, type)
  BY <1>2, <1>3, <1>13 DEF Ranges!Refuse, H
<1> QED BY <1>14, CallIsNext DEF R

LEMMA SameRegions ==
  ASSUME NEW ls \in SUBSET Regions, NEW ds \in SUBSET Regions, NEW b \in 0 .. Eof,
         \A k \in ds : \E l \in ls :
           l.start = k.start /\ l.len = k.len /\ l.type = k.type,
         \A l \in ls : \E k \in ds :
           l.start = k.start /\ l.len = k.len /\ l.type = k.type
  PROVE  mode(ds, b) = mode(ls, b)
<1>1. /\ mode(ls, b) \in {"un", "rd", "wr"}
      /\ mode(ls, b) = "un" <=> \A l \in ls : ~In(b, l.start, l.len)
      /\ mode(ls, b) = "wr" <=> \E l \in ls : In(b, l.start, l.len) /\ l.type = "wr"
  BY ModeIs
<1>2. /\ mode(ds, b) \in {"un", "rd", "wr"}
      /\ mode(ds, b) = "un" <=> \A l \in ds : ~In(b, l.start, l.len)
      /\ mode(ds, b) = "wr" <=> \E l \in ds : In(b, l.start, l.len) /\ l.type = "wr"
  BY ModeIs
<1>3. mode(ds, b) = "un" <=> mode(ls, b) = "un"
  BY <1>1, <1>2
<1>4. mode(ds, b) = "wr" <=> mode(ls, b) = "wr"
  BY <1>1, <1>2
<1> QED BY <1>1, <1>2, <1>3, <1>4

LEMMA JoinSame ==
  ASSUME Inv, Typed', NEW t \in Threads, NEW o, NEW start, NEW len, NEW type,
         NEW e \in find_conflict(o, start, len, type), Join(t, e),
         NEW p \in Owners, NEW b \in Bytes
  PROVE  mode(locks'[p], b) = mode(locks[p], b)
<1> DEFINE q == e[1]
           l == e[2]
           x == [l EXCEPT !.wait = @ \cup {t}]
<1>1. q \in Owners /\ l \in locks[q] /\ locks \in [Owners -> SUBSET Regions]
  BY DEF find_conflict, conflicts, Inv, Typed
<1>2. x.start = l.start /\ x.len = l.len /\ x.type = l.type
  BY <1>1 DEF Regions
<1>3. locks' = [locks EXCEPT ![q] = (@ \ {l}) \cup {x}]
  BY DEF Join
<1> HIDE DEF q, l, x
<1>4. CASE p = q
  <2>1. locks'[p] = (locks[p] \ {l}) \cup {x}
    BY <1>1, <1>3, <1>4
  <2>2. locks[p] \in SUBSET Regions /\ locks'[p] \in SUBSET Regions
    BY <1>1 DEF Typed
  <2>3. \A k \in locks'[p] : \E m \in locks[p] :
          m.start = k.start /\ m.len = k.len /\ m.type = k.type
    BY <1>1, <1>2, <1>4, <2>1
  <2>4. \A m \in locks[p] : \E k \in locks'[p] :
          m.start = k.start /\ m.len = k.len /\ m.type = k.type
    BY <1>1, <1>2, <1>4, <2>1
  <2> QED BY <2>2, <2>3, <2>4, SameRegions DEF Bytes
<1>5. CASE p # q
  BY <1>1, <1>3, <1>5
<1> QED BY <1>4, <1>5

LEMMA LeaveSame ==
  ASSUME Inv, Typed', NEW t \in Threads, interrupt(t),
         NEW p \in Owners, NEW b \in Bytes
  PROVE  mode(locks'[p], b) = mode(locks[p], b)
<1> DEFINE without(l) == [l EXCEPT !.wait = @ \ {t}]
<1>1. locks[p] \in SUBSET Regions /\ locks'[p] \in SUBSET Regions
  BY DEF Inv, Typed
<1>2. locks'[p] = {without(l) : l \in locks[p]}
  BY DEF interrupt, Leave
<1>3. \A l \in Regions : /\ without(l).start = l.start /\ without(l).len = l.len
                         /\ without(l).type = l.type
  BY DEF Regions
<1> HIDE DEF without
<1>4. \A k \in locks'[p] : \E l \in locks[p] :
        l.start = k.start /\ l.len = k.len /\ l.type = k.type
  BY <1>1, <1>2, <1>3
<1>5. \A l \in locks[p] : \E k \in locks'[p] :
        l.start = k.start /\ l.len = k.len /\ l.type = k.type
  BY <1>1, <1>2, <1>3
<1> QED BY <1>1, <1>4, <1>5, SameRegions DEF Bytes

LEMMA StepRefines ==
  ASSUME ~WithGap, Inv, Inv', AllNeat, Bounded, [Next]_vars
  PROVE  Ranges!Next \/ UNCHANGED Ranges!vars
<1> DEFINE H == [p \in Owners |-> [b \in Bytes |-> Held(p, b)]]
<1>1. /\ \A o \in Owners : /\ locks[o] \in SUBSET Regions /\ IsFiniteSet(locks[o])
                           /\ Neat(locks[o])
      /\ locks \in [Owners -> SUBSET Regions]
      /\ req \in [Threads -> Requests \cup {NoReq}] /\ OneQueue
      /\ Typed'
  BY DEF Inv, Typed, AllNeat
<1>2. /\ \A start \in Starts : start \in Nat
      /\ \A len \in Lens : len \in Nat
      /\ \A mem \in 0 .. MaxMem : mem \in Nat
      /\ Eof \in Nat /\ Bytes = 0 .. Eof
  BY RecordLockAssumption DEF Starts, Lens, Bytes
<1>3. ASSUME NEW t \in Threads, req[t] # NoReq
      PROVE  /\ req[t].po \in Owners /\ req[t].start \in Starts
             /\ req[t].len \in Nat /\ req[t].start + req[t].len <= Eof
             /\ req[t].type \in {"rd", "wr"}
  <2>1. req[t] \in Requests
    BY <1>1, <1>3
  <2> QED BY <1>3, <2>1 DEF Requests, Bounded
<1>4. CASE UNCHANGED vars
  <2>1. \A p \in Owners, b \in Bytes : mode(locks'[p], b) = mode(locks[p], b)
    BY <1>4 DEF vars
  <2>2. H' = H /\ call' = call
    BY <1>4, <2>1, SameHeld DEF vars
  <2> QED BY <2>2 DEF Ranges!vars
<1>5. ASSUME NEW o \in Owners, NEW s \in Starts, NEW n \in Nat, s + n <= Eof,
             NEW type \in {"rd", "wr"}, NEW mem \in Nat, NEW roused,
             ~Gap(o, s, n), find_conflict(o, s, n, type) = {},
             Apply(o, s, n, type, merge_in(o, s, n, type, mem), roused)
      PROVE  Ranges!Next
  <2> DEFINE d == merge_in(o, s, n, type, mem)
  <2>1. d.err \in BOOLEAN
    <3>1. Result(o, s, n, type, d)
      BY <1>1, <1>2, MergeResult
    <3> QED BY <3>1 DEF Result, Loops
  <2>2. \A b \in Bytes :
          LET new == IF In(b, s, n) THEN Ranges!Stronger(type, mode(locks[o], b))
                     ELSE mode(locks[o], b)
          IN  /\ ~d.err => mode(d.list, b) = new
              /\ mode(d.list, b) \in {"un", mode(locks[o], b), new}
    BY <1>1, <1>2, <1>5, MergeModes
  <2> HIDE DEF d
  <2>3. /\ locks' = [locks EXCEPT ![o] = d.list]
        /\ Answer(o, s, n, type, IF d.err THEN "nomem" ELSE "ok")
    BY <1>5 DEF Apply, d
  <2>4. locks'[o] = d.list /\ \A p \in Owners : p # o => locks'[p] = locks[p]
    BY <1>1, <2>3
  <2> QED BY <1>1, <1>5, <2>1, <2>2, <2>3, <2>4, LockRefines
<1>6. ASSUME NEW o \in Owners, NEW s \in Starts, NEW n \in Lens, s + n <= Eof,
             NEW type \in {"rd", "wr"}, NEW mem \in 0 .. MaxMem,
             setlk(o, s, n, type, mem)
      PROVE  Ranges!Next
  <2>1. /\ ~Gap(o, s, n) /\ find_conflict(o, s, n, type) = {}
        /\ Apply(o, s, n, type, merge_in(o, s, n, type, mem), {})
    BY <1>6 DEF setlk, Request
  <2> QED BY <1>2, <1>5, <1>6, <2>1
<1>7. ASSUME NEW o \in Owners, NEW s \in Starts, NEW n \in Lens, s + n <= Eof,
             NEW type \in {"rd", "wr"}, setlk_again(o, s, n, type)
      PROVE  Ranges!Next
  <2>1. /\ find_conflict(o, s, n, type) # {} /\ Answer(o, s, n, type, "again")
        /\ \A p \in Owners, b \in Bytes : mode(locks'[p], b) = mode(locks[p], b)
    BY <1>7 DEF setlk_again
  <2> QED BY <1>2, <1>7, <2>1, RefuseRefines
<1>8. ASSUME NEW o \in Owners, NEW s \in Starts, NEW n \in Nat, s + n <= Eof,
             NEW type \in {"rd", "wr"}, NEW t \in Threads,
             NEW e \in find_conflict(o, s, n, type), Join(t, e),
             Answer(o, s, n, type, "wait")
      PROVE  Ranges!Next
  <2>1. \A p \in Owners, b \in Bytes : mode(locks'[p], b) = mode(locks[p], b)
    BY <1>1, <1>8, JoinSame
  <2> QED BY <1>8, <2>1, RefuseRefines
<1>9. ASSUME NEW o \in Owners, NEW s \in Starts, NEW n \in Lens, s + n <= Eof,
             NEW type \in {"rd", "wr"}, NEW t \in Threads,
             setlkw(t, o, s, n, type)
      PROVE  Ranges!Next
  BY <1>2, <1>8, <1>9 DEF setlkw
<1>10. ASSUME NEW o \in Owners, NEW s \in Starts, NEW n \in Lens, s + n <= Eof,
              NEW mem \in 0 .. MaxMem, unlock(o, s, n, mem)
       PROVE  Ranges!Next
  <2> DEFINE d == unlock_region(o, s, n, mem)
  <2>1. d.err \in BOOLEAN
    <3>1. Result(o, s, n, "un", d)
      BY <1>1, <1>2, UnlockResult
    <3> QED BY <3>1 DEF Result, Loops
  <2>2. \A b \in Bytes : mode(d.list, b) = IF ~d.err /\ In(b, s, n) THEN "un"
                                           ELSE mode(locks[o], b)
    BY <1>1, <1>2, UnlockModes
  <2> HIDE DEF d
  <2>3. /\ locks' = [locks EXCEPT ![o] = d.list]
        /\ Answer(o, s, n, "un", IF d.err THEN "nomem" ELSE "ok")
    BY <1>10 DEF unlock, Apply, d
  <2>4. locks'[o] = d.list /\ \A p \in Owners : p # o => locks'[p] = locks[p]
    BY <1>1, <2>3
  <2>5. CASE ~d.err
    <3>1. /\ Answer(o, s, n, "un", "ok")
          /\ \A b \in Bytes : mode(locks'[o], b) = IF In(b, s, n) THEN "un"
                                                   ELSE mode(locks[o], b)
      BY <2>2, <2>3, <2>4, <2>5
    <3> QED BY <1>1, <1>2, <1>10, <2>4, <3>1, UnlockRefines
  <2>6. CASE d.err
    <3>1. \A p \in Owners, b \in Bytes : mode(locks'[p], b) = mode(locks[p], b)
      BY <2>2, <2>4, <2>6
    <3>2. H' = H
      BY <3>1, SameHeld
    <3>3. Ranges!Answer(o, range(s, n), "un", "nomem")
      BY <2>3, <2>6 DEF Answer, Ranges!Answer
    <3>4. Ranges!FailUnlock(o, range(s, n))
      BY <3>2, <3>3 DEF Ranges!FailUnlock
    <3> QED BY <1>2, <1>10, <3>4, CallIsNext
  <2> QED BY <2>1, <2>5, <2>6
<1>11. ASSUME NEW t \in Threads, NEW mem \in 0 .. MaxMem, retry(t, mem)
       PROVE  Ranges!Next
  <2> DEFINE r == req[t]
             d == merge_in(r.po, r.start, r.len, r.type, mem)
  <2>1. t \in woken /\ ~Gap(r.po, r.start, r.len) /\ mem \in Nat
    BY <1>2, <1>11 DEF retry
  <2>2. r # NoReq
    BY <1>1, <2>1 DEF OneQueue
  <2>3. /\ r.po \in Owners /\ r.start \in Starts /\ r.len \in Nat
        /\ r.start + r.len <= Eof /\ r.type \in {"rd", "wr"}
    BY <1>3, <2>2
  <2>4. CASE /\ find_conflict(r.po, r.start, r.len, r.type) = {}
             /\ Apply(r.po, r.start, r.len, r.type, d, {t})
    BY <1>5, <2>1, <2>3, <2>4
  <2>5. CASE /\ \E e \in find_conflict(r.po, r.start, r.len, r.type) : Join(t, e)
             /\ Answer(r.po, r.start, r.len, r.type, "wait")
    BY <1>8, <2>3, <2>5
  <2> QED BY <1>11, <2>4, <2>5 DEF retry
<1>12. ASSUME NEW t \in Threads, interrupt(t) PROVE Ranges!Next
  <2> DEFINE r == req[t]
  <2>1. r # NoReq /\ Answer(r.po, r.start, r.len, r.type, "intr")
    BY <1>12 DEF interrupt
  <2>2. /\ r.po \in Owners /\ r.start \in Starts /\ r.len \in Nat
        /\ r.start + r.len <= Eof /\ r.type \in {"rd", "wr"}
    BY <1>3, <2>1
  <2>3. \A p \in Owners, b \in Bytes : mode(locks'[p], b) = mode(locks[p], b)
    BY <1>1, <1>12, LeaveSame
  <2>4. H' = H
    BY <2>3, SameHeld
  <2>5. Ranges!Interrupt(r.po, range(r.start, r.len), r.type)
    BY <2>1, <2>4 DEF Ranges!Interrupt, Answer, Ranges!Answer
  <2> HIDE DEF r
  <2> QED BY <2>2, <2>5, CallIsNext
<1>13. ASSUME NEW o \in Owners, drop_peropen(o) PROVE Ranges!Next
  <2>1. /\ locks'[o] = {} /\ \A p \in Owners : p # o => locks'[p] = locks[p]
        /\ Answer(o, 0, 0, "un", "ok")
    BY <1>1, <1>13 DEF drop_peropen
  <2>2. 0 \in Starts /\ 0 \in Nat /\ 0 + 0 <= Eof
    BY RecordLockAssumption DEF Starts
  <2>3. \A b \in Bytes : In(b, 0, 0) /\ mode(locks'[o], b) = "un"
    BY <1>2, <2>1 DEF In, mode
  <2> QED BY <1>1, <2>1, <2>2, <2>3, UnlockRefines
<1> QED BY <1>4, <1>6, <1>7, <1>9, <1>10, <1>11, <1>12, <1>13 DEF Next

(* The lists of regions implement the locks of bytes.  A call of           *)
(* fshelp_rlock_tweak that succeeds puts every byte that it asked for in   *)
(* the mode that it asked for and changes no other byte and nobody else's; *)
(* it is refused, or sleeps, only if another open file holds a conflicting *)
(* lock in the range; a lock that fails half-way takes nothing that was    *)
(* not asked for, and an unlock that fails loses nothing.  Nobody asks for *)
(* a range that ends before an own lock to the end of the file starts.     *)
THEOREM ListsImplementRanges == ASSUME ~WithGap PROVE Spec => RangeLockSpec
<1>1. Init => AllNeat /\ Bounded
  BY DEF Init, AllNeat, Neat, Bounded
<1>2. Inv /\ AllNeat /\ [Next]_vars => AllNeat'
  BY StepNeat
<1>3. Inv /\ Bounded /\ [Next]_vars => Bounded'
  BY BoundedHolds
<1>4. Init => Ranges!Init
  <2> SUFFICES ASSUME Init PROVE Ranges!Init
    OBVIOUS
  <2>1. ASSUME NEW o \in Owners, NEW b \in Bytes PROVE Held(o, b) = "un"
    BY DEF Init, Held
  <2> QED BY <2>1 DEF Init, Ranges!Init, Ranges!NoCall, Ranges!Bytes, Bytes
<1>5. Inv /\ Inv' /\ AllNeat /\ Bounded /\ [Next]_vars
        => [Ranges!Next]_(Ranges!vars)
  BY StepRefines
<1> QED BY <1>1, <1>2, <1>3, <1>4, <1>5, InvHolds, PTL
        DEF Spec, RangeLockSpec, Ranges!Spec

-----------------------------------------------------------------------------
(* The locks of bytes by themselves, whatever implements them. *)
VARIABLE held

RL == INSTANCE RangeLock

(* What one open file may hold after a call: nothing new, or the requested *)
(* mode of a byte in the range that was granted to it.                     *)
LEMMA GrantedOnly ==
  ASSUME RL!TypeOK, NEW o \in Owners, NEW p \in Owners, o # p, RL!Exclusion,
         NEW R, NEW type \in {"rd", "wr"}, RL!Grantable(o, R, type),
         NEW b \in RL!Bytes,
         NEW m \in {"un", held[o][b], RL!Locked(held[o], R, type)[b]}
  PROVE  ~RL!Conflict(m, held[p][b]) /\ ~RL!Conflict(held[p][b], m)
<1>1. ~RL!Conflict(held[o][b], held[p][b]) /\ ~RL!Conflict("un", held[p][b])
  BY DEF RL!Exclusion, RL!Conflict
<1>2. CASE b \in R
  <2>1. ~RL!Conflict(type, held[p][b])
    BY <1>2 DEF RL!Grantable
  <2>2. RL!Locked(held[o], R, type)[b] = RL!Stronger(type, held[o][b])
    BY <1>2 DEF RL!Locked
  <2>3. RL!Stronger(type, held[o][b]) \in {type, held[o][b]}
    BY DEF RL!Stronger
  <2> QED BY <1>1, <2>1, <2>2, <2>3 DEF RL!Conflict
<1>3. CASE b \notin R
  BY <1>1, <1>3 DEF RL!Locked, RL!Conflict
<1> QED BY <1>2, <1>3

(* A call of O keeps mutual exclusion if it conflicts with nobody. *)
LEMMA OtherOwners ==
  ASSUME RL!Exclusion, NEW o \in Owners,
         \A p \in Owners \ {o} : held'[p] = held[p],
         \A p \in Owners \ {o}, b \in RL!Bytes :
           ~RL!Conflict(held'[o][b], held[p][b]) /\ ~RL!Conflict(held[p][b], held'[o][b])
  PROVE  RL!Exclusion'
<1> SUFFICES ASSUME NEW q \in Owners, NEW p \in Owners, q # p, NEW b \in RL!Bytes
             PROVE  ~RL!Conflict(held'[q][b], held'[p][b])
  BY DEF RL!Exclusion, RL!Conflict, RL!Bytes
<1>1. CASE q = o
  BY <1>1
<1>2. CASE p = o
  BY <1>2
<1>3. CASE q # o /\ p # o
  BY <1>3 DEF RL!Exclusion
<1> QED BY <1>1, <1>2, <1>3

LEMMA CallKeeps ==
  ASSUME RL!TypeOK, RL!Exclusion, NEW o \in Owners, NEW R,
         \/ RL!Unlock(o, R)
         \/ \E type \in {"rd", "wr"} : RL!Lock(o, R, type) \/ RL!Fail(o, R, type)
  PROVE  RL!TypeOK' /\ RL!Exclusion'
<1>1. RL!TypeOK'
  <2>1. \A b \in RL!Bytes : held[o][b] \in RL!Modes /\ "un" \in RL!Modes
    BY DEF RL!TypeOK, RL!Modes
  <2>2. RL!Unlocked(held[o], R) \in [RL!Bytes -> RL!Modes]
    BY <2>1 DEF RL!Unlocked
  <2>3. ASSUME NEW type \in {"rd", "wr"}
        PROVE  RL!Locked(held[o], R, type) \in [RL!Bytes -> RL!Modes]
    <3>1. \A b \in RL!Bytes : RL!Stronger(type, held[o][b]) \in RL!Modes
      BY <2>1 DEF RL!Stronger, RL!Modes
    <3> QED BY <2>1, <3>1 DEF RL!Locked
  <2> QED BY <2>2, <2>3 DEF RL!TypeOK, RL!Unlock, RL!Lock, RL!Fail
<1>2. \A p \in Owners \ {o} : held'[p] = held[p]
  BY DEF RL!TypeOK, RL!Unlock, RL!Lock, RL!Fail
<1>3. ASSUME NEW p \in Owners \ {o}, NEW b \in RL!Bytes
      PROVE  /\ ~RL!Conflict(held'[o][b], held[p][b])
             /\ ~RL!Conflict(held[p][b], held'[o][b])
  <2>1. CASE RL!Unlock(o, R)
    <3>1. held'[o][b] \in {"un", held[o][b]}
      BY <2>1 DEF RL!Unlock, RL!Unlocked, RL!TypeOK
    <3> QED BY <3>1, <1>3 DEF RL!Exclusion, RL!Conflict
  <2>2. ASSUME NEW type \in {"rd", "wr"}, RL!Lock(o, R, type) \/ RL!Fail(o, R, type)
        PROVE  /\ ~RL!Conflict(held'[o][b], held[p][b])
               /\ ~RL!Conflict(held[p][b], held'[o][b])
    <3>1. held'[o][b] \in {"un", held[o][b], RL!Locked(held[o], R, type)[b]}
      BY <2>2 DEF RL!Lock, RL!Fail, RL!TypeOK
    <3>2. RL!Grantable(o, R, type)
      BY <2>2 DEF RL!Lock, RL!Fail
    <3> QED BY <3>1, <3>2, GrantedOnly
  <2> QED BY <2>1, <2>2
<1>4. RL!Exclusion'
  BY <1>2, <1>3, OtherOwners
<1> QED BY <1>1, <1>4

(* Types, and mutual exclusion: no sequence of fshelp_rlock_tweak calls    *)
(* that RangeLock allows, failing ones included, gives two open files      *)
(* conflicting locks on a byte.                                            *)
THEOREM RangesExclusive == RL!Spec => [](RL!TypeOK /\ RL!Exclusion)
<1>1. RL!Init => RL!TypeOK /\ RL!Exclusion
  BY DEF RL!Init, RL!TypeOK, RL!Exclusion, RL!Conflict, RL!Modes
<1>2. RL!TypeOK /\ RL!Exclusion /\ [RL!Next]_(RL!vars)
        => (RL!TypeOK /\ RL!Exclusion)'
  <2> SUFFICES ASSUME RL!TypeOK, RL!Exclusion, [RL!Next]_(RL!vars)
               PROVE  RL!TypeOK' /\ RL!Exclusion'
    OBVIOUS
  <2>1. CASE held' = held
    BY <2>1 DEF RL!TypeOK, RL!Exclusion, RL!Bytes
  <2>2. ASSUME NEW o \in Owners, NEW R,
               \/ RL!Unlock(o, R)
               \/ \E type \in {"rd", "wr"} :
                    RL!Lock(o, R, type) \/ RL!Fail(o, R, type)
        PROVE  RL!TypeOK' /\ RL!Exclusion'
    BY <2>2, CallKeeps
  <2>3. CASE UNCHANGED RL!vars
    BY <2>1, <2>3 DEF RL!vars
  <2>4. CASE RL!Next
    <3>1. PICK o \in Owners, from \in RL!Bytes : \E to \in from .. Eof :
            \/ RL!Unlock(o, from .. to) \/ RL!FailUnlock(o, from .. to)
            \/ \E type \in {"rd", "wr"} :
                 \/ RL!Lock(o, from .. to, type) \/ RL!Fail(o, from .. to, type)
                 \/ RL!Refuse(o, from .. to, type)
                 \/ RL!Interrupt(o, from .. to, type)
      BY <2>4 DEF RL!Next
    <3>2. PICK R :
            \/ RL!Unlock(o, R) \/ RL!FailUnlock(o, R)
            \/ \E type \in {"rd", "wr"} :
                 \/ RL!Lock(o, R, type) \/ RL!Fail(o, R, type)
                 \/ RL!Refuse(o, R, type) \/ RL!Interrupt(o, R, type)
      BY <3>1
    <3>3. CASE \/ RL!Unlock(o, R)
               \/ \E type \in {"rd", "wr"} :
                    RL!Lock(o, R, type) \/ RL!Fail(o, R, type)
      BY <2>2, <3>3
    <3>4. CASE \/ RL!FailUnlock(o, R)
               \/ \E type \in {"rd", "wr"} :
                    RL!Refuse(o, R, type) \/ RL!Interrupt(o, R, type)
      BY <2>1, <3>4 DEF RL!FailUnlock, RL!Refuse, RL!Interrupt
    <3> QED BY <3>2, <3>3, <3>4
  <2> QED BY <2>3, <2>4
<1> QED BY <1>1, <1>2, PTL DEF RL!Spec
=============================================================================
