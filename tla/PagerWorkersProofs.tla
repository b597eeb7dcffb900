------------------------- MODULE PagerWorkersProofs -------------------------
(***************************************************************************)
(* Safety of libpager's worker pool, and that it serves the requests to an *)
(* object one at a time and in order, for any workers, objects and kinds   *)
(* of requests, and queues of any length.                                  *)
(***************************************************************************)
EXTENDS PagerWorkers, SequenceTheorems, WellFoundedInduction, TLAPS

(* Type correctness. *)
TypeOK ==
  /\ queue_out \in Seq(Request) /\ queue_in \in Seq(Request)
  /\ split \in BOOLEAN
  /\ pc \in [Workers -> {"ready", "asleep", "run"}]
  /\ tag \in [Workers -> Objects \cup {None}]
  /\ own \in [Workers -> Seq(Request)]
  /\ cur \in [Workers -> Request \cup {None}]
  /\ woken \subseteq Asleep
  /\ inhib \in {"idle", "wait", "woken", "done"}

(* A worker that sleeps has nothing left to do. *)
SleepersDone == \A w \in Asleep : own[w] = <<>> /\ tag[w] = None

(* A worker serves, and is given, requests to the object that it claims. *)
OwnObject ==
  \A w \in Workers :
    /\ pc[w] = "run" => cur[w] \in Request /\ cur[w].obj = tag[w]
    /\ \A i \in 1 .. Len(own[w]) : own[w][i].obj = tag[w]

(* While the workers are inhibited nothing enters their queue, once they   *)
(* are quiet nothing is left in it, and the other queue is only used then. *)
InhibitState ==
  /\ inhib # "idle" => split
  /\ inhib = "done" => drained
  /\ ~split => queue_in = <<>>

Inv == /\ TypeOK /\ SleepersDone /\ OwnObject /\ InhibitState
       /\ ClaimsUnique /\ NobodySleepsOver

-----------------------------------------------------------------------------
(* Every set of natural numbers has a least element; the library's theorem *)
(* on well-founded relations, for the order of the numbers.                *)
LEMMA LeastNumber ==
  ASSUME NEW T, T \subseteq Nat, T # {}
  PROVE  \E m \in T : \A k \in T : m <= k
<1> DEFINE R == OpToRel(<, Nat)
<1>1. IsWellFoundedOn(R, Nat)
  BY NatLessThanWellFounded
<1>2. \A x, y \in Nat : x < y => <<x, y>> \in R
  BY DEF OpToRel
<1> HIDE DEF R
<1>3. PICK m \in T : \A y \in T : ~ (<<y, m>> \in R)
  BY <1>1, WFMin
<1>4. ASSUME NEW k \in T PROVE m <= k
  <2>1. m \in Nat /\ k \in Nat
    OBVIOUS
  <2>2. ~(k < m)
    BY <1>2, <1>3, <2>1
  <2> QED BY <2>1, <2>2
<1> QED BY <1>4

(* Induction, for a set that is given. *)
LEMMA SetInduction ==
  ASSUME NEW S, 0 \in S, \A n \in Nat : n \in S => n + 1 \in S
  PROVE  Nat \subseteq S
<1> SUFFICES ASSUME Nat \ S # {} PROVE FALSE
  OBVIOUS
<1>1. PICK m \in Nat \ S : \A k \in Nat \ S : m <= k
  BY LeastNumber
<1>2. m # 0 /\ m - 1 \in Nat
  BY <1>1
<1>3. m - 1 \in S
  BY <1>1, <1>2
<1> QED BY <1>1, <1>2, <1>3

-----------------------------------------------------------------------------
(* The function that OfObject defines, up to place N. *)
KeptUpTo(f, n, q, o) ==
  f = [i \in 0 .. n |->
         IF i = 0 THEN <<>>
         ELSE IF q[i].obj = o THEN Append(f[i - 1], q[i])
         ELSE f[i - 1]]

LEMMA KeptExists ==
  ASSUME NEW q, NEW o, NEW n \in Nat
  PROVE  \E f : KeptUpTo(f, n, q, o)
<1> DEFINE S == {k \in Nat : \E f : KeptUpTo(f, k, q, o)}
<1>1. 0 \in S
  <2>1. KeptUpTo([i \in 0 .. 0 |-> <<>>], 0, q, o)
    BY DEF KeptUpTo
  <2> QED BY <2>1
<1>2. ASSUME NEW k \in Nat, k \in S PROVE k + 1 \in S
  <2>1. PICK f : KeptUpTo(f, k, q, o)
    BY <1>2
  <2> DEFINE last == IF q[k+1].obj = o THEN Append(f[k], q[k+1]) ELSE f[k]
             g == [i \in 0 .. k + 1 |-> IF i = k + 1 THEN last ELSE f[i]]
  <2>2. KeptUpTo(g, k + 1, q, o)
    <3>1. \A i \in 0 .. k : g[i] = f[i]
      OBVIOUS
    <3>2. \A i \in 0 .. k :
            f[i] = IF i = 0 THEN <<>>
                   ELSE IF q[i].obj = o THEN Append(f[i - 1], q[i])
                   ELSE f[i - 1]
      BY <2>1 DEF KeptUpTo
    <3>3. ASSUME NEW i \in 0 .. k + 1
          PROVE  g[i] = IF i = 0 THEN <<>>
                        ELSE IF q[i].obj = o THEN Append(g[i - 1], q[i])
                        ELSE g[i - 1]
      <4>1. CASE i = k + 1
        BY <4>1, <3>1
      <4>2. CASE i # k + 1
        BY <4>2, <3>1, <3>2
      <4> QED BY <4>1, <4>2
    <3> HIDE DEF last
    <3> QED BY <3>3 DEF KeptUpTo
  <2> QED BY <2>2
<1> HIDE DEF S
<1>3. Nat \subseteq S
  BY <1>1, <1>2, SetInduction
<1> QED BY <1>3 DEF S

LEMMA KeptOfObject ==
  ASSUME NEW q, NEW o, Len(q) \in Nat
  PROVE  \E f : KeptUpTo(f, Len(q), q, o) /\ OfObject(q, o) = f[Len(q)]
<1> DEFINE g == CHOOSE f : KeptUpTo(f, Len(q), q, o)
<1>1. KeptUpTo(g, Len(q), q, o)
  BY KeptExists
<1>2. OfObject(q, o) = g[Len(q)]
  BY DEF OfObject, KeptUpTo
<1> QED BY <1>1, <1>2

(* What is kept up to a place is decided by the requests up to there. *)
LEMMA KeptUnique ==
  ASSUME NEW q, NEW r, NEW o, NEW m \in Nat, NEW n \in Nat, m <= n,
         NEW f, KeptUpTo(f, m, q, o), NEW g, KeptUpTo(g, n, r, o),
         \A i \in 1 .. m : q[i] = r[i]
  PROVE  f[m] = g[m]
<1> DEFINE S == {k \in Nat : k <= m => f[k] = g[k]}
<1>1. \A i \in 0 .. m : f[i] = IF i = 0 THEN <<>>
                               ELSE IF q[i].obj = o THEN Append(f[i - 1], q[i])
                               ELSE f[i - 1]
  BY DEF KeptUpTo
<1>2. \A i \in 0 .. n : g[i] = IF i = 0 THEN <<>>
                               ELSE IF r[i].obj = o THEN Append(g[i - 1], r[i])
                               ELSE g[i - 1]
  BY DEF KeptUpTo
<1>3. 0 \in S
  BY <1>1, <1>2
<1>4. ASSUME NEW k \in Nat, k \in S PROVE k + 1 \in S
  <2>1. CASE k + 1 <= m
    <3>1. f[k] = g[k] /\ q[k + 1] = r[k + 1]
      BY <1>4, <2>1
    <3>2. k + 1 # 0 /\ (k + 1) - 1 = k /\ k + 1 \in 0 .. m /\ k + 1 \in 0 .. n
      BY <2>1
    <3>3. f[k + 1] = IF q[k + 1].obj = o THEN Append(f[k], q[k + 1]) ELSE f[k]
      BY <1>1, <3>2
    <3>4. g[k + 1] = IF r[k + 1].obj = o THEN Append(g[k], r[k + 1]) ELSE g[k]
      BY <1>2, <3>2
    <3> QED BY <3>1, <3>3, <3>4
  <2> QED BY <2>1
<1> HIDE DEF S
<1>5. Nat \subseteq S
  BY <1>3, <1>4, SetInduction
<1> QED BY <1>5 DEF S

LEMMA OfObjectEmpty ==
  ASSUME NEW o
  PROVE  OfObject(<<>>, o) = <<>>
<1>1. Len(<<>>) = 0
  OBVIOUS
<1>2. PICK f : KeptUpTo(f, 0, <<>>, o) /\ OfObject(<<>>, o) = f[0]
  BY <1>1, KeptOfObject
<1> QED BY <1>2 DEF KeptUpTo

(* One more request. *)
LEMMA OfObjectAppend ==
  ASSUME NEW R, NEW q \in Seq(R), NEW r \in R, NEW o
  PROVE  OfObject(Append(q, r), o) =
           IF r.obj = o THEN Append(OfObject(q, o), r) ELSE OfObject(q, o)
<1> DEFINE p == Append(q, r)
           n == Len(q)
<1>1. /\ n \in Nat /\ Len(p) = n + 1 /\ p[n + 1] = r
      /\ \A i \in 1 .. n : q[i] = p[i]
  BY AppendProperties, LenProperties
<1>2. PICK f : KeptUpTo(f, n, q, o) /\ OfObject(q, o) = f[n]
  BY <1>1, KeptOfObject
<1> HIDE DEF p
<1>3. PICK g : KeptUpTo(g, n + 1, p, o) /\ OfObject(p, o) = g[n + 1]
  <2>1. Len(p) \in Nat
    BY <1>1
  <2>2. \E g : KeptUpTo(g, Len(p), p, o) /\ OfObject(p, o) = g[Len(p)]
    BY <2>1, KeptOfObject
  <2> QED BY <1>1, <2>2
<1> HIDE DEF n
<1>4. f[n] = g[n]
  <2>1. n + 1 \in Nat /\ n <= n + 1
    BY <1>1
  <2> QED BY <1>1, <1>2, <1>3, <2>1, KeptUnique
<1>5. g[n + 1] = IF p[n + 1].obj = o THEN Append(g[n], p[n + 1]) ELSE g[n]
  <2>1. \A i \in 0 .. n + 1 : g[i] = IF i = 0 THEN <<>>
                                     ELSE IF p[i].obj = o THEN Append(g[i - 1], p[i])
                                     ELSE g[i - 1]
    BY <1>3 DEF KeptUpTo
  <2>2. n + 1 \in 0 .. n + 1 /\ n + 1 # 0 /\ (n + 1) - 1 = n
    BY <1>1
  <2> QED BY <2>1, <2>2
<1>6. OfObject(p, o) = IF r.obj = o THEN Append(OfObject(q, o), r) ELSE OfObject(q, o)
  BY <1>1, <1>2, <1>3, <1>4, <1>5
<1> QED BY <1>6 DEF p

(* Only requests to O are kept, so that none may be. *)
LEMMA OfObjectType ==
  ASSUME NEW R, NEW q \in Seq(R), NEW o
  PROVE  /\ OfObject(q, o) \in Seq(R)
         /\ \A i \in 1 .. Len(OfObject(q, o)) : OfObject(q, o)[i].obj = o
         /\ (\A i \in 1 .. Len(q) : q[i].obj # o) => OfObject(q, o) = <<>>
<1> DEFINE n == Len(q)
           Good(s) == s \in Seq(R) /\ \A i \in 1 .. Len(s) : s[i].obj = o
<1>1. n \in Nat /\ \A i \in 1 .. n : q[i] \in R
  BY LenProperties, ElementOfSeq
<1>2. PICK f : KeptUpTo(f, n, q, o) /\ OfObject(q, o) = f[n]
  BY <1>1, KeptOfObject
<1> HIDE DEF n
<1>3. \A i \in 0 .. n : f[i] = IF i = 0 THEN <<>>
                               ELSE IF q[i].obj = o THEN Append(f[i - 1], q[i])
                               ELSE f[i - 1]
  BY <1>2 DEF KeptUpTo
<1> DEFINE S == {k \in Nat : k <= n =>
                   /\ Good(f[k])
                   /\ (\A i \in 1 .. n : q[i].obj # o) => f[k] = <<>>}
<1>4. 0 \in S
  <2>1. f[0] = <<>>
    BY <1>1, <1>3
  <2>2. Good(<<>>)
    BY EmptySeq
  <2> HIDE DEF Good
  <2> QED BY <2>1, <2>2
<1>5. ASSUME NEW k \in Nat, k \in S PROVE k + 1 \in S
  <2> SUFFICES ASSUME k + 1 <= n
               PROVE  /\ Good(f[k + 1])
                      /\ (\A i \in 1 .. n : q[i].obj # o) => f[k + 1] = <<>>
    OBVIOUS
  <2>1. /\ Good(f[k])
        /\ (\A i \in 1 .. n : q[i].obj # o) => f[k] = <<>>
    BY <1>1, <1>5
  <2>2. /\ k + 1 \in 0 .. n /\ k + 1 \in 1 .. n /\ k + 1 # 0
        /\ (k + 1) - 1 = k /\ q[k + 1] \in R
    BY <1>1
  <2>3. f[k + 1] = IF q[k + 1].obj = o THEN Append(f[k], q[k + 1]) ELSE f[k]
    BY <1>3, <2>2
  <2>4. q[k + 1].obj = o => Good(Append(f[k], q[k + 1]))
    <3> SUFFICES ASSUME q[k + 1].obj = o PROVE Good(Append(f[k], q[k + 1]))
      OBVIOUS
    <3> DEFINE s == f[k]
               x == q[k + 1]
    <3>1. s \in Seq(R) /\ x \in R /\ x.obj = o /\ \A i \in 1 .. Len(s) : s[i].obj = o
      BY <2>1, <2>2
    <3> HIDE DEF s, x
    <3>2. Good(Append(s, x))
      BY <3>1, AppendProperties
    <3> QED BY <3>2 DEF s, x
  <2> HIDE DEF Good
  <2> QED BY <2>1, <2>2, <2>3, <2>4
<1> HIDE DEF S
<1>6. Nat \subseteq S
  BY <1>4, <1>5, SetInduction
<1>7. /\ Good(f[n])
      /\ (\A i \in 1 .. n : q[i].obj # o) => f[n] = <<>>
  BY <1>1, <1>6 DEF S
<1> QED BY <1>2, <1>7 DEF n

(* The requests in two queues, one behind the other. *)
LEMMA OfObjectConcat ==
  ASSUME NEW R, NEW q \in Seq(R), NEW r \in Seq(R), NEW o
  PROVE  OfObject(q \o r, o) = OfObject(q, o) \o OfObject(r, o)
<1> DEFINE S == {k \in Nat : \A s \in Seq(R) : Len(s) = k =>
                   OfObject(q \o s, o) = OfObject(q, o) \o OfObject(s, o)}
<1>0. OfObject(q, o) \in Seq(R)
  BY OfObjectType
<1>1. 0 \in S
  <2>1. ASSUME NEW s \in Seq(R), Len(s) = 0
        PROVE  OfObject(q \o s, o) = OfObject(q, o) \o OfObject(s, o)
    <3>1. s = <<>>
      BY <2>1, EmptySeq
    <3>2. q \o s = q /\ OfObject(s, o) = <<>> /\ OfObject(q, o) \o <<>> = OfObject(q, o)
      BY <1>0, <3>1, OfObjectEmpty, ConcatEmptySeq
    <3> QED BY <3>2
  <2> QED BY <2>1
<1>2. ASSUME NEW k \in Nat, k \in S PROVE k + 1 \in S
  <2>1. ASSUME NEW s \in Seq(R), Len(s) = k + 1
        PROVE  OfObject(q \o s, o) = OfObject(q, o) \o OfObject(s, o)
    <3> DEFINE t == SubSeq(s, 1, k)
               x == s[k + 1]
    <3>1. t \in Seq(R) /\ x \in R /\ Len(t) = k /\ s = Append(t, x)
      <4>1. x \in R
        BY <2>1, ElementOfSeq
      <4>2. t \in Seq(R) /\ Len(t) = k /\ \A i \in 1 .. k : t[i] = s[i]
        BY <2>1
      <4>3. Append(t, x) \in Seq(R) /\ Len(Append(t, x)) = k + 1
            /\ \A i \in 1 .. k + 1 : Append(t, x)[i] = s[i]
        BY <4>1, <4>2
      <4> QED BY <2>1, <4>1, <4>2, <4>3, SeqEqual
    <3> HIDE DEF t, x
    <3>2. OfObject(q \o t, o) = OfObject(q, o) \o OfObject(t, o)
      BY <1>2, <3>1
    <3>3. q \o t \in Seq(R) /\ q \o Append(t, x) = Append(q \o t, x)
      BY <3>1
    <3>4. OfObject(Append(t, x), o)
            = IF x.obj = o THEN Append(OfObject(t, o), x) ELSE OfObject(t, o)
      BY <3>1, OfObjectAppend
    <3>5. OfObject(Append(q \o t, x), o)
            = IF x.obj = o THEN Append(OfObject(q \o t, o), x) ELSE OfObject(q \o t, o)
      BY <3>1, <3>3, OfObjectAppend
    <3>6. OfObject(t, o) \in Seq(R)
      BY <3>1, OfObjectType
    <3>7. OfObject(q, o) \o Append(OfObject(t, o), x)
            = Append(OfObject(q, o) \o OfObject(t, o), x)
      BY <1>0, <3>1, <3>6
    <3> QED BY <3>1, <3>2, <3>3, <3>4, <3>5, <3>7
  <2> QED BY <2>1
<1> HIDE DEF S
<1>3. Nat \subseteq S
  BY <1>1, <1>2, SetInduction
<1>4. Len(r) \in Nat
  BY LenProperties
<1> QED BY <1>3, <1>4 DEF S

-----------------------------------------------------------------------------
(* Requests in the queue, and the parts before and after one of them. *)
LEMMA QueueParts ==
  ASSUME TypeOK, NEW i \in 1 .. Len(queue_out)
  PROVE  LET before == SubSeq(queue_out, 1, i - 1)
             after  == SubSeq(queue_out, i + 1, Len(queue_out))
         IN /\ queue_out[i] \in Request /\ queue_out[i].obj \in Objects
            /\ before \in Seq(Request) /\ after \in Seq(Request)
            /\ Len(before) = i - 1
            /\ \A j \in 1 .. i - 1 : before[j] = queue_out[j]
            /\ queue_out = Append(before, queue_out[i]) \o after
<1>1. queue_out \in Seq(Request) /\ Len(queue_out) \in Nat
  BY DEF TypeOK
<1>2. queue_out[i] \in Request
  BY <1>1, ElementOfSeq
<1>3. queue_out[i].obj \in Objects
  BY <1>2 DEF Request
<1> HIDE DEF Request
<1> DEFINE before == SubSeq(queue_out, 1, i - 1)
           after  == SubSeq(queue_out, i + 1, Len(queue_out))
<1>4. /\ before \in Seq(Request) /\ Len(before) = i - 1
      /\ \A j \in 1 .. i - 1 : before[j] = queue_out[j]
  BY <1>1
<1>5. /\ after \in Seq(Request) /\ Len(after) = Len(queue_out) - i
      /\ \A j \in 1 .. Len(queue_out) - i : after[j] = queue_out[i + j]
  BY <1>1
<1> HIDE DEF before, after
<1>6. queue_out = Append(before, queue_out[i]) \o after
  <2> DEFINE front == Append(before, queue_out[i])
             all == front \o after
  <2>1. /\ front \in Seq(Request) /\ Len(front) = i
        /\ \A j \in 1 .. i : front[j] = queue_out[j]
    BY <1>2, <1>4, AppendProperties
  <2> HIDE DEF front
  <2>2. all \in Seq(Request) /\ Len(all) = Len(queue_out)
    <3>1. all \in Seq(Request) /\ Len(all) = Len(front) + Len(after)
      BY <1>5, <2>1, ConcatProperties
    <3>2. Len(front) + Len(after) = Len(queue_out)
      BY <1>1, <1>5, <2>1
    <3> QED BY <3>1, <3>2
  <2>3. ASSUME NEW j \in 1 .. Len(queue_out) PROVE all[j] = queue_out[j]
    <3>1. CASE j <= i
      BY <1>1, <1>5, <2>1, <3>1, ConcatProperties
    <3>2. CASE j > i
      <4>1. j - i \in 1 .. Len(queue_out) - i /\ i + (j - i) = j
        BY <1>1, <3>2
      <4>2. all[j] = after[j - i]
        BY <1>1, <1>5, <2>1, <3>2, ConcatProperties
      <4> QED BY <1>5, <4>1, <4>2
    <3>3. j <= i \/ j > i
      BY <1>1
    <3> QED BY <3>1, <3>2, <3>3
  <2> HIDE DEF all
  <2>4. all = queue_out
    BY <1>1, <2>2, <2>3, SeqEqual
  <2> QED BY <2>4 DEF all, front
<1> QED BY <1>2, <1>3, <1>4, <1>5, <1>6 DEF before, after

(* Delegation adds requests to the queues of the workers that claim their  *)
(* object, and of no other.                                                *)
LEMMA DelegateKeeps ==
  ASSUME TypeOK, OwnObject, NEW q \in Seq(Request), NEW w \in Workers,
         None \notin {q[i].obj : i \in 1 .. Len(q)}
  PROVE  /\ delegate(w, q) \in [Workers -> Seq(Request)]
         /\ \A v \in Workers : \A i \in 1 .. Len(delegate(w, q)[v]) :
              delegate(w, q)[v][i].obj = tag[v]
         /\ delegate(w, q)[w] = own[w]
         /\ \A v \in Workers : tag[v] = None => delegate(w, q)[v] = own[v]
<1> HIDE DEF Request
<1>1. ASSUME NEW v \in Workers
      PROVE  /\ delegate(w, q)[v] \in Seq(Request)
             /\ \A i \in 1 .. Len(delegate(w, q)[v]) :
                  delegate(w, q)[v][i].obj = tag[v]
             /\ tag[v] = None => delegate(w, q)[v] = own[v]
  <2> DEFINE s == own[v]
             t == OfObject(q, tag[v])
  <2>1. s \in Seq(Request) /\ \A i \in 1 .. Len(s) : s[i].obj = tag[v]
    BY DEF TypeOK, OwnObject
  <2>2. /\ t \in Seq(Request) /\ \A i \in 1 .. Len(t) : t[i].obj = tag[v]
        /\ tag[v] = None => t = <<>>
    BY OfObjectType
  <2>3. delegate(w, q)[v] = IF v = w THEN s ELSE s \o t
    BY DEF delegate
  <2> HIDE DEF s, t
  <2>4. s \o t \in Seq(Request) /\ \A i \in 1 .. Len(s \o t) : (s \o t)[i].obj = tag[v]
    BY <2>1, <2>2
  <2>5. tag[v] = None => s \o t = s
    BY <2>1, <2>2, ConcatEmptySeq
  <2>6. own[v] = s
    BY DEF s
  <2>7. CASE v = w
    BY <2>1, <2>3, <2>6, <2>7
  <2>8. CASE v # w
    <3>1. delegate(w, q)[v] = s \o t
      BY <2>3, <2>8
    <3> QED BY <2>4, <2>5, <2>6, <3>1
  <2> QED BY <2>7, <2>8
<1>2. delegate(w, q)[w] = own[w]
  BY DEF delegate
<1>3. delegate(w, q) = [v \in Workers |-> delegate(w, q)[v]]
  BY DEF delegate
<1> QED BY <1>1, <1>2, <1>3

(* No request in the queue is to None. *)
LEMMA QueuedObjects ==
  ASSUME TypeOK
  PROVE  /\ None \notin {queue_out[j].obj : j \in 1 .. Len(queue_out)}
         /\ \A i \in 1 .. Len(queue_out) :
              LET before == SubSeq(queue_out, 1, i - 1)
              IN None \notin {before[j].obj : j \in 1 .. Len(before)}
<1>1. \A i \in 1 .. Len(queue_out) : queue_out[i].obj \in Objects
  BY QueueParts
<1>2. ASSUME NEW i \in 1 .. Len(queue_out)
      PROVE  LET before == SubSeq(queue_out, 1, i - 1)
             IN None \notin {before[j].obj : j \in 1 .. Len(before)}
  <2> DEFINE before == SubSeq(queue_out, 1, i - 1)
  <2>0. Len(queue_out) \in Nat
    BY DEF TypeOK
  <2>1. Len(before) = i - 1 /\ \A j \in 1 .. i - 1 : before[j] = queue_out[j]
    BY QueueParts
  <2> HIDE DEF before
  <2>2. \A j \in 1 .. Len(before) : before[j].obj \in Objects
    BY <1>1, <2>0, <2>1
  <2>3. None \notin {before[j].obj : j \in 1 .. Len(before)}
    BY <2>2, PagerWorkersAssumption
  <2> QED BY <2>3 DEF before
<1> QED BY <1>1, <1>2, PagerWorkersAssumption

-----------------------------------------------------------------------------
LEMMA DemuxerKeeps ==
  ASSUME Inv, NEW r \in Request, pager_demuxer(r)
  PROVE  Inv'
<1> USE DEF Inv, pager_demuxer
<1>0. Asleep' = Asleep
  BY DEF Asleep
<1>1. /\ woken' \subseteq Asleep
      /\ ~split /\ Asleep = Workers => woken' # {}
  BY PagerWorkersAssumption DEF TypeOK, signal_wakeup
<1>2. TypeOK'
  <2>1. queue_out \in Seq(Request) /\ queue_in \in Seq(Request)
    BY DEF TypeOK
  <2>2. Append(queue_out, r) \in Seq(Request) /\ Append(queue_in, r) \in Seq(Request)
    BY <2>1, AppendProperties
  <2>3. queue_out' \in Seq(Request) /\ queue_in' \in Seq(Request)
    BY <2>1, <2>2
  <2> QED BY <1>0, <1>1, <2>3 DEF TypeOK
<1>3. SleepersDone' /\ OwnObject' /\ ClaimsUnique'
  BY <1>0 DEF SleepersDone, OwnObject, ClaimsUnique
<1>4. InhibitState'
  BY <1>0 DEF InhibitState, drained, TypeOK
<1>5. NobodySleepsOver'
  BY <1>0, <1>1 DEF NobodySleepsOver
<1> QED BY <1>2, <1>3, <1>4, <1>5

LEMMA TakeOwnKeeps ==
  ASSUME Inv, NEW w \in Workers, take_own(w)
  PROVE  Inv'
<1> USE DEF Inv, take_own
<1>0. Asleep' = Asleep /\ w \notin Asleep
  BY DEF Asleep, TypeOK
<1>1. /\ own[w] \in Seq(Request) /\ Head(own[w]) \in Request
      /\ Head(own[w]).obj = tag[w] /\ Tail(own[w]) \in Seq(Request)
      /\ \A i \in 1 .. Len(Tail(own[w])) : Tail(own[w])[i].obj = tag[w]
  <2> DEFINE s == own[w]
  <2>1. s \in Seq(Request) /\ s # <<>> /\ \A i \in 1 .. Len(s) : s[i].obj = tag[w]
    BY DEF TypeOK, OwnObject
  <2> HIDE DEF s
  <2>2. /\ Len(s) \in Nat /\ 1 \in 1 .. Len(s) /\ Head(s) = s[1] /\ Head(s) \in Request
        /\ Tail(s) \in Seq(Request) /\ Len(Tail(s)) = Len(s) - 1
        /\ \A i \in 1 .. Len(Tail(s)) : Tail(s)[i] = s[i + 1] /\ i + 1 \in 1 .. Len(s)
    BY <2>1, HeadTailProperties
  <2>3. Head(s).obj = tag[w] /\ \A i \in 1 .. Len(Tail(s)) : Tail(s)[i].obj = tag[w]
    BY <2>1, <2>2
  <2> QED BY <2>1, <2>2, <2>3 DEF s
<1>2. TypeOK'
  <2> HIDE DEF Request
  <2> QED BY <1>0, <1>1 DEF TypeOK
<1>3. \A v \in Workers \ {w} : own'[v] = own[v]
  BY DEF TypeOK
<1>4. SleepersDone'
  BY <1>0, <1>3 DEF SleepersDone, Asleep
<1>5. OwnObject'
  <2> SUFFICES ASSUME NEW v \in Workers
               PROVE  /\ pc'[v] = "run" => cur'[v] \in Request /\ cur'[v].obj = tag'[v]
                      /\ \A i \in 1 .. Len(own'[v]) : own'[v][i].obj = tag'[v]
    BY DEF OwnObject
  <2>1. CASE v = w
    <3>1. own'[v] = Tail(own[w]) /\ cur'[v] = Head(own[w]) /\ tag' = tag
      BY <2>1 DEF TypeOK
    <3> QED BY <1>1, <2>1, <3>1
  <2>2. CASE v # w
    BY <1>3, <2>2 DEF OwnObject, TypeOK
  <2> QED BY <2>1, <2>2
<1>6. ClaimsUnique' /\ InhibitState' /\ NobodySleepsOver'
  BY <1>0 DEF ClaimsUnique, InhibitState, drained, NobodySleepsOver
<1> QED BY <1>2, <1>4, <1>5, <1>6

(* The part of take_shared and wake that they have in common: the worker   *)
(* has nothing of its own, and is awake or gives up its wake-up.           *)
LEMMA GetKeeps ==
  ASSUME Inv, NEW w \in Workers, own[w] = <<>>, pc[w] # "run", get_request(w),
         UNCHANGED <<queue_in, split>>, woken' = woken \ {w}
  PROVE  Inv'
<1> USE DEF Inv
<1>1. ASSUME NEW i \in free_ones(w),
             own' = delegate(w, SubSeq(queue_out, 1, i - 1)),
             queue_out' = SubSeq(queue_out, i + 1, Len(queue_out)),
             tag' = [tag EXCEPT ![w] = queue_out[i].obj],
             cur' = [cur EXCEPT ![w] = queue_out[i]],
             pc' = [pc EXCEPT ![w] = "run"],
             UNCHANGED inhib
      PROVE  Inv'
  <2>0. i \in 1 .. Len(queue_out) /\ ~claimed(w, queue_out[i].obj)
    BY <1>1 DEF free_ones
  <2>1. /\ queue_out[i] \in Request /\ queue_out[i].obj \in Objects
        /\ SubSeq(queue_out, 1, i - 1) \in Seq(Request)
        /\ queue_out' \in Seq(Request)
    BY <1>1, <2>0, QueueParts
  <2>2. Asleep' = Asleep \ {w}
    BY <1>1 DEF Asleep, TypeOK
  <2> HIDE DEF Request
  <2>3. /\ own' \in [Workers -> Seq(Request)]
        /\ \A v \in Workers : \A j \in 1 .. Len(own'[v]) : own'[v][j].obj = tag[v]
        /\ own'[w] = <<>>
        /\ \A v \in Workers : tag[v] = None => own'[v] = own[v]
    <3>1. LET before == SubSeq(queue_out, 1, i - 1)
          IN None \notin {before[j].obj : j \in 1 .. Len(before)}
      BY <2>0, QueuedObjects
    <3> QED BY <1>1, <2>1, <3>1, DelegateKeeps
  <2>4. TypeOK'
    BY <1>1, <2>1, <2>2, <2>3 DEF TypeOK
  <2>5. SleepersDone'
    BY <1>1, <2>2, <2>3 DEF SleepersDone, TypeOK, Asleep
  <2>6. OwnObject'
    <3> SUFFICES ASSUME NEW v \in Workers
                 PROVE  /\ pc'[v] = "run" => cur'[v] \in Request /\ cur'[v].obj = tag'[v]
                        /\ \A j \in 1 .. Len(own'[v]) : own'[v][j].obj = tag'[v]
      BY DEF OwnObject
    <3>1. CASE v = w
      <4>1. cur'[v] = queue_out[i] /\ tag'[v] = queue_out[i].obj
        BY <1>1, <3>1 DEF TypeOK
      <4>2. own'[v] = <<>>
        BY <2>3, <3>1
      <4> QED BY <2>1, <4>1, <4>2
    <3>2. CASE v # w
      <4>1. cur'[v] = cur[v] /\ tag'[v] = tag[v] /\ pc'[v] = pc[v]
        BY <1>1, <3>2 DEF TypeOK
      <4> QED BY <2>3, <4>1 DEF OwnObject
    <3> QED BY <3>1, <3>2
  <2>7. ClaimsUnique'
    BY <1>1, <2>0 DEF ClaimsUnique, claimed, TypeOK
  <2>8. Asleep' # Workers
    BY <2>2
  <2>9. inhib # "done"
    <3>1. CASE inhib = "done"
      <4>1. queue_out = <<>>
        BY <3>1 DEF InhibitState, drained
      <4> QED BY <4>1, <2>0
    <3> QED BY <3>1
  <2>10. InhibitState' /\ NobodySleepsOver'
    BY <1>1, <2>8, <2>9 DEF InhibitState, NobodySleepsOver, drained
  <2> QED BY <2>4, <2>5, <2>6, <2>7, <2>10
<1>2. ASSUME own' = delegate(w, queue_out),
             queue_out' = <<>>,
             tag' = [tag EXCEPT ![w] = None],
             pc' = [pc EXCEPT ![w] = "asleep"],
             UNCHANGED cur,
             inhib' = IF last_asleep(w) /\ inhib = "wait" THEN "woken" ELSE inhib
      PROVE  Inv'
  <2>1. Asleep' = Asleep \cup {w}
    BY <1>2 DEF Asleep, TypeOK
  <2> HIDE DEF Request
  <2>2. /\ own' \in [Workers -> Seq(Request)]
        /\ \A v \in Workers : \A j \in 1 .. Len(own'[v]) : own'[v][j].obj = tag[v]
        /\ own'[w] = <<>>
        /\ \A v \in Workers : tag[v] = None => own'[v] = own[v]
    <3>1. queue_out \in Seq(Request)
      BY DEF TypeOK
    <3> QED BY <1>2, <3>1, QueuedObjects, DelegateKeeps
  <2>3. TypeOK'
    <3>1. queue_out' \in Seq(Request)
      BY <1>2, EmptySeq
    <3> QED BY <1>2, <2>1, <2>2, <3>1 DEF TypeOK
  <2>4. SleepersDone'
    BY <1>2, <2>1, <2>2 DEF SleepersDone, TypeOK, Asleep
  <2>5. OwnObject'
    <3> SUFFICES ASSUME NEW v \in Workers
                 PROVE  /\ pc'[v] = "run" => cur'[v] \in Request /\ cur'[v].obj = tag'[v]
                        /\ \A j \in 1 .. Len(own'[v]) : own'[v][j].obj = tag'[v]
      BY DEF OwnObject
    <3>1. CASE v = w
      <4>1. own'[v] = <<>> /\ pc'[v] # "run"
        BY <1>2, <2>2, <3>1 DEF TypeOK
      <4> QED BY <4>1
    <3>2. CASE v # w
      <4>1. cur'[v] = cur[v] /\ tag'[v] = tag[v] /\ pc'[v] = pc[v]
        BY <1>2, <3>2 DEF TypeOK
      <4> QED BY <2>2, <4>1 DEF OwnObject
    <3> QED BY <3>1, <3>2
  <2>6. ClaimsUnique' /\ NobodySleepsOver'
    BY <1>2 DEF ClaimsUnique, NobodySleepsOver, TypeOK
  <2>7. InhibitState'
    BY <1>2, <2>1 DEF InhibitState, drained, TypeOK
  <2> QED BY <2>3, <2>4, <2>5, <2>6, <2>7
<1> QED BY <1>1, <1>2 DEF get_request

(* What take_shared and wake begin with. *)
LEMMA TakeBegins ==
  ASSUME Inv, NEW w \in Workers, take_shared(w) \/ wake(w)
  PROVE  /\ own[w] = <<>> /\ pc[w] # "run" /\ get_request(w)
         /\ UNCHANGED <<queue_in, split>> /\ woken' = woken \ {w}
<1>1. CASE take_shared(w)
  <2>1. w \notin woken
    BY <1>1 DEF take_shared, Inv, TypeOK, Asleep
  <2> QED BY <1>1, <2>1 DEF take_shared
<1>2. CASE wake(w)
  BY <1>2 DEF wake, Inv, TypeOK, SleepersDone, Asleep
<1> QED BY <1>1, <1>2

LEMMA FinishKeeps ==
  ASSUME Inv, NEW w \in Workers, finish(w)
  PROVE  Inv'
<1> USE DEF Inv, finish
<1>0. Asleep' = Asleep
  BY DEF Asleep, TypeOK
<1>1. TypeOK'
  BY <1>0 DEF TypeOK
<1>2. SleepersDone' /\ ClaimsUnique' /\ InhibitState' /\ NobodySleepsOver'
  BY <1>0 DEF TypeOK, SleepersDone, ClaimsUnique, InhibitState, drained,
              NobodySleepsOver
<1>3. OwnObject'
  BY DEF OwnObject, TypeOK
<1> QED BY <1>1, <1>2, <1>3

(* pager_inhibit_workers, its wake-ups, and pager_resume_workers. *)
LEMMA InhibitKeeps ==
  ASSUME Inv, pager_inhibit_workers \/ inhibit_wakeup \/ pager_resume_workers
  PROVE  Inv'
<1> USE DEF Inv, pager_inhibit_workers, inhibit_wakeup, pager_resume_workers
<1>0. Asleep' = Asleep
  BY DEF Asleep
<1>1. pager_resume_workers => Asleep = Workers /\ woken' = Workers
  BY DEF InhibitState, drained
<1>2. TypeOK'
  <2>1. queue_out \in Seq(Request) /\ queue_in \in Seq(Request)
    BY DEF TypeOK
  <2>2. queue_out' \in Seq(Request) /\ queue_in' \in Seq(Request)
    BY <2>1, EmptySeq
  <2> QED BY <1>0, <2>2 DEF TypeOK
<1>3. SleepersDone' /\ OwnObject' /\ ClaimsUnique'
  BY <1>0 DEF SleepersDone, OwnObject, ClaimsUnique
<1>4. InhibitState'
  BY <1>0 DEF InhibitState, drained, TypeOK
<1>5. NobodySleepsOver'
  BY <1>0, <1>1, PagerWorkersAssumption DEF NobodySleepsOver
<1> QED BY <1>2, <1>3, <1>4, <1>5

-----------------------------------------------------------------------------
(* The inductive invariant holds in every state of the pool. *)
THEOREM InvHolds == Spec => []Inv
<1>1. Init => Inv
  <2> SUFFICES ASSUME Init PROVE Inv
    OBVIOUS
  <2>1. Asleep = {}
    BY DEF Init, Asleep
  <2>2. TypeOK
    <3>1. <<>> \in Seq(Request)
      BY EmptySeq
    <3> QED BY <2>1, <3>1 DEF Init, TypeOK
  <2> QED BY <2>1, <2>2, PagerWorkersAssumption
          DEF Init, Inv, SleepersDone, OwnObject, InhibitState, ClaimsUnique, NobodySleepsOver
<1>2. Inv /\ [Next]_vars => Inv'
  <2> SUFFICES ASSUME Inv, [Next]_vars PROVE Inv'
    OBVIOUS
  <2>1. ASSUME NEW w \in Workers, Work(w) PROVE Inv'
    BY <2>1, TakeOwnKeeps, TakeBegins, GetKeeps, FinishKeeps DEF Work
  <2>2. CASE UNCHANGED vars
    BY <2>2 DEF vars, Inv, TypeOK, SleepersDone, OwnObject, InhibitState,
                ClaimsUnique, NobodySleepsOver, Asleep, drained
  <2> QED BY <2>1, <2>2, DemuxerKeeps, InhibitKeeps DEF Next
<1> QED BY <1>1, <1>2, PTL DEF Spec

(* For any number of workers and objects: from the return of               *)
(* pager_inhibit_workers to pager_resume_workers every worker sleeps, with *)
(* an empty queue of its own and no object claimed.                        *)
THEOREM InhibitionIsQuiet == Spec => []InhibitedQuiet
<1>1. Inv => InhibitedQuiet
  BY DEF Inv, InhibitState, drained, SleepersDone, Asleep, InhibitedQuiet
<1> QED BY <1>1, InvHolds, PTL

(* worker_func never lets two workers claim the same object.               *)
THEOREM ClaimsStayUnique == Spec => []ClaimsUnique
<1>1. Inv => ClaimsUnique
  BY DEF Inv
<1> QED BY <1>1, InvHolds, PTL

(* The signal of pager_demuxer and the broadcast of pager_resume_workers   *)
(* never leave a request in the queue with every worker asleep and none    *)
(* woken.                                                                  *)
THEOREM SomebodyWakes == Spec => []NobodySleepsOver
<1>1. Inv => NobodySleepsOver
  BY DEF Inv
<1> QED BY <1>1, InvHolds, PTL

-----------------------------------------------------------------------------
(* What the refinement mapping yields, by the claims and not by a choice   *)
(* of a worker.                                                            *)
Shared == queue_out \o queue_in

PendingIs ==
  \A o \in Objects :
    /\ \A w \in Workers : tag[w] = o => Pending(o) = own[w] \o OfObject(Shared, o)
    /\ (\A w \in Workers : tag[w] # o) => Pending(o) = OfObject(Shared, o)

ActiveIs ==
  \A o \in Objects :
    /\ \A w \in Workers : pc[w] = "run" /\ tag[w] = o => Active(o) = cur[w].kind
    /\ (\A w \in Workers : ~(pc[w] = "run" /\ tag[w] = o)) => Active(o) = None

LEMMA MappingByClaims == Inv => PendingIs /\ ActiveIs
<1> SUFFICES ASSUME Inv PROVE PendingIs /\ ActiveIs
  OBVIOUS
<1>1. \A w \in Workers : pc[w] = "run" => cur[w].obj = tag[w]
  BY DEF Inv, OwnObject
<1>2. ASSUME NEW o \in Objects, NEW w \in Workers, tag[w] = o
      PROVE  \A v \in Workers : tag[v] = o => v = w
  BY <1>2, PagerWorkersAssumption DEF Inv, ClaimsUnique
<1>3. PendingIs
  <2>1. ASSUME NEW o \in Objects, NEW w \in Workers, tag[w] = o
        PROVE  Pending(o) = own[w] \o OfObject(Shared, o)
    <3>1. (CHOOSE v \in Workers : tag[v] = o) = w
      BY <1>2, <2>1
    <3> QED BY <2>1, <3>1 DEF Pending, Shared
  <2>2. ASSUME NEW o \in Objects, \A w \in Workers : tag[w] # o
        PROVE  Pending(o) = OfObject(Shared, o)
    BY <2>2 DEF Pending, Shared
  <2> QED BY <2>1, <2>2 DEF PendingIs
<1>4. ActiveIs
  <2>1. ASSUME NEW o \in Objects, NEW w \in Workers, pc[w] = "run", tag[w] = o
        PROVE  Active(o) = cur[w].kind
    <3>1. pc[w] = "run" /\ cur[w].obj = o
      BY <1>1, <2>1
    <3>2. (CHOOSE v \in Workers : pc[v] = "run" /\ cur[v].obj = o) = w
      BY <1>1, <1>2, <2>1, <3>1
    <3> QED BY <3>1, <3>2 DEF Active
  <2>2. ASSUME NEW o \in Objects, \A w \in Workers : ~(pc[w] = "run" /\ tag[w] = o)
        PROVE  Active(o) = None
    BY <1>1, <2>2 DEF Active
  <2> QED BY <2>1, <2>2 DEF ActiveIs
<1> QED BY <1>3, <1>4

(* Concatenation is associative, by elements. *)
LEMMA Regroup ==
  ASSUME NEW R, NEW a \in Seq(R), NEW b \in Seq(R), NEW c \in Seq(R)
  PROVE  a \o (b \o c) = (a \o b) \o c
<1>1. b \o c \in Seq(R) /\ a \o b \in Seq(R)
  BY ConcatProperties
<1> DEFINE l == a \o (b \o c)
           r == (a \o b) \o c
<1>2. /\ Len(a) \in Nat /\ Len(b) \in Nat /\ Len(c) \in Nat
      /\ Len(b \o c) = Len(b) + Len(c) /\ Len(a \o b) = Len(a) + Len(b)
  BY ConcatProperties, LenProperties
<1>3. l \in Seq(R) /\ r \in Seq(R) /\ Len(l) = Len(r) /\ Len(l) = Len(a) + Len(b) + Len(c)
  BY <1>1, <1>2, ConcatProperties
<1>4. ASSUME NEW i \in 1 .. Len(l) PROVE l[i] = r[i]
  <2>1. CASE i <= Len(a)
    BY <1>1, <1>2, <1>3, <2>1, ConcatProperties
  <2>2. CASE i > Len(a) /\ i <= Len(a) + Len(b)
    BY <1>1, <1>2, <1>3, <2>2, ConcatProperties
  <2>3. CASE i > Len(a) + Len(b)
    BY <1>1, <1>2, <1>3, <2>3, ConcatProperties
  <2> QED BY <1>2, <1>3, <2>1, <2>2, <2>3
<1> HIDE DEF l, r
<1>5. l = r
  BY <1>3, <1>4, SeqEqual
<1> QED BY <1>5 DEF l, r

(* The kinds of requests in a queue. *)
LEMMA KindsProperties ==
  ASSUME NEW q \in Seq(Request)
  PROVE  /\ \A r \in Request : KindsOf(Append(q, r)) = Append(KindsOf(q), r.kind)
         /\ q # <<>> => /\ KindsOf(q) # <<>>
                        /\ Head(KindsOf(q)) = Head(q).kind
                        /\ KindsOf(Tail(q)) = Tail(KindsOf(q))
<1>1. \A r \in Request : r.kind \in Kinds
  BY DEF Request
<1> HIDE DEF Request
<1>2. /\ Len(q) \in Nat /\ \A i \in 1 .. Len(q) : q[i] \in Request
  BY LenProperties, ElementOfSeq
<1>3. KindsOf(q) \in Seq(Kinds) /\ Len(KindsOf(q)) = Len(q)
      /\ \A i \in 1 .. Len(q) : KindsOf(q)[i] = q[i].kind
  BY <1>1, <1>2, IsASeq DEF KindsOf
<1>4. ASSUME NEW r \in Request
      PROVE  KindsOf(Append(q, r)) = Append(KindsOf(q), r.kind)
  <2> DEFINE s == Append(q, r)
             k == Append(KindsOf(q), r.kind)
  <2>1. /\ s \in Seq(Request) /\ Len(s) = Len(q) + 1 /\ s[Len(q) + 1] = r
        /\ \A i \in 1 .. Len(q) : s[i] = q[i]
    BY AppendProperties
  <2>2. /\ k \in Seq(Kinds) /\ Len(k) = Len(q) + 1 /\ k[Len(q) + 1] = r.kind
        /\ \A i \in 1 .. Len(q) : k[i] = q[i].kind
    BY <1>1, <1>3, AppendProperties
  <2> HIDE DEF s, k
  <2>3. \A i \in 1 .. Len(q) + 1 : s[i] \in Request
    BY <2>1, ElementOfSeq
  <2>4. /\ KindsOf(s) \in Seq(Kinds) /\ Len(KindsOf(s)) = Len(q) + 1
        /\ \A i \in 1 .. Len(q) + 1 : KindsOf(s)[i] = s[i].kind
    BY <1>1, <1>2, <2>1, <2>3, IsASeq DEF KindsOf
  <2>5. \A i \in 1 .. Len(q) + 1 : KindsOf(s)[i] = k[i]
    BY <1>2, <2>1, <2>2, <2>4
  <2>6. KindsOf(s) = k
    BY <2>2, <2>4, <2>5, SeqEqual
  <2> QED BY <2>6 DEF s, k
<1>5. ASSUME q # <<>>
      PROVE  /\ KindsOf(q) # <<>>
             /\ Head(KindsOf(q)) = Head(q).kind
             /\ KindsOf(Tail(q)) = Tail(KindsOf(q))
  <2> DEFINE s == Tail(q)
             k == KindsOf(q)
  <2>1. Len(q) > 0 /\ Head(q) = q[1] /\ k # <<>> /\ Head(k) = k[1]
    BY <1>2, <1>3, <1>5, EmptySeq, HeadTailProperties
  <2>2. /\ s \in Seq(Request) /\ Len(s) = Len(q) - 1
        /\ \A i \in 1 .. Len(s) : s[i] = q[i + 1]
    BY <1>5, HeadTailProperties
  <2>3. /\ Tail(k) \in Seq(Kinds) /\ Len(Tail(k)) = Len(q) - 1
        /\ \A i \in 1 .. Len(Tail(k)) : Tail(k)[i] = k[i + 1]
    BY <1>3, <2>1, HeadTailProperties
  <2>4. k[1] = q[1].kind /\ \A i \in 1 .. Len(q) - 1 : k[i + 1] = q[i + 1].kind
    BY <1>2, <1>3, <2>1
  <2> HIDE DEF s, k
  <2>5. \A i \in 1 .. Len(s) : s[i] \in Request
    BY <2>2, ElementOfSeq
  <2>6. Len(s) \in Nat
    BY <2>2, LenProperties
  <2>7. /\ KindsOf(s) \in Seq(Kinds) /\ Len(KindsOf(s)) = Len(s)
        /\ \A i \in 1 .. Len(s) : KindsOf(s)[i] = s[i].kind
    BY <1>1, <2>5, <2>6, IsASeq DEF KindsOf
  <2>8. KindsOf(s) = Tail(k)
    <3>1. \A i \in 1 .. Len(s) : KindsOf(s)[i] = Tail(k)[i]
      BY <2>2, <2>3, <2>4, <2>7
    <3> QED BY <2>2, <2>3, <2>7, <3>1, SeqEqual
  <2> QED BY <2>1, <2>4, <2>8 DEF s, k
<1> QED BY <1>4, <1>5

-----------------------------------------------------------------------------
(* The steps of SerialObjects, by what they do to each object. *)
LEMMA ReceiveStep ==
  ASSUME NEW o \in Objects, NEW k \in Kinds,
         \A p \in Objects : KindsOf(Pending(p))'
           = IF p = o THEN Append(KindsOf(Pending(o)), k) ELSE KindsOf(Pending(p)),
         \A p \in Objects : Active(p)' = Active(p)
  PROVE  Serial!Next
<1>1. Serial!Receive(o, k)
  BY DEF Serial!Receive
<1> QED BY <1>1 DEF Serial!Next

LEMMA StartStep ==
  ASSUME NEW o \in Objects, Active(o) = None, KindsOf(Pending(o)) # <<>>,
         \A p \in Objects : KindsOf(Pending(p))'
           = IF p = o THEN Tail(KindsOf(Pending(o))) ELSE KindsOf(Pending(p)),
         \A p \in Objects : Active(p)'
           = IF p = o THEN Head(KindsOf(Pending(o))) ELSE Active(p)
  PROVE  Serial!Next
<1>1. Serial!Start(o)
  BY DEF Serial!Start
<1> QED BY <1>1 DEF Serial!Next

LEMMA FinishStep ==
  ASSUME NEW o \in Objects, Active(o) # None,
         \A p \in Objects : KindsOf(Pending(p))' = KindsOf(Pending(p)),
         \A p \in Objects : Active(p)' = IF p = o THEN None ELSE Active(p)
  PROVE  Serial!Next
<1>1. Serial!Finish(o)
  BY DEF Serial!Finish
<1> QED BY <1>1 DEF Serial!Next

LEMMA StutterStep ==
  ASSUME \A p \in Objects : KindsOf(Pending(p))' = KindsOf(Pending(p)),
         \A p \in Objects : Active(p)' = Active(p)
  PROVE  UNCHANGED Serial!vars
BY DEF Serial!vars

-----------------------------------------------------------------------------
(* The shared queues and what they hold of an object are sequences of      *)
(* requests, as is what waits for an object.                               *)
LEMMA MappingTypes ==
  ASSUME Inv
  PROVE  /\ Shared \in Seq(Request)
         /\ \A o \in Objects : OfObject(Shared, o) \in Seq(Request)
         /\ \A o \in Objects : Pending(o) \in Seq(Request)
<1> HIDE DEF Request
<1>1. Shared \in Seq(Request)
  BY DEF Shared, Inv, TypeOK
<1>2. \A o \in Objects : OfObject(Shared, o) \in Seq(Request)
  BY <1>1, OfObjectType
<1>3. ASSUME NEW o \in Objects PROVE Pending(o) \in Seq(Request)
  <2>1. CASE \A w \in Workers : tag[w] # o
    BY <1>2, <2>1, MappingByClaims DEF PendingIs
  <2>2. ASSUME NEW w \in Workers, tag[w] = o PROVE Pending(o) \in Seq(Request)
    <3>1. Pending(o) = own[w] \o OfObject(Shared, o)
      BY <2>2, MappingByClaims DEF PendingIs
    <3>2. own[w] \in Seq(Request)
      BY DEF Inv, TypeOK
    <3> QED BY <1>2, <3>1, <3>2, ConcatProperties
  <2> QED BY <2>1, <2>2
<1> QED BY <1>1, <1>2, <1>3

(* pager_demuxer: the request waits behind the others of its object. *)
LEMMA DemuxerRefines ==
  ASSUME Inv, PendingIs, PendingIs', NEW r \in Request, pager_demuxer(r)
  PROVE  Serial!Next
<1>0. r.obj \in Objects /\ r.kind \in Kinds
  BY DEF Request
<1> HIDE DEF Request
<1>1. Shared' = Append(Shared, r)
  <2>1. queue_out \in Seq(Request) /\ queue_in \in Seq(Request)
    BY DEF Inv, TypeOK
  <2>2. CASE split
    <3>1. queue_out' = queue_out /\ queue_in' = Append(queue_in, r)
      BY <2>2 DEF pager_demuxer
    <3> QED BY <2>1, <3>1 DEF Shared
  <2>3. CASE ~split
    <3>1. queue_out' = Append(queue_out, r) /\ queue_in' = <<>> /\ queue_in = <<>>
      BY <2>3 DEF pager_demuxer, Inv, InhibitState
    <3>2. Append(queue_out, r) \in Seq(Request)
      BY <2>1, AppendProperties
    <3> QED BY <2>1, <3>1, <3>2, ConcatEmptySeq DEF Shared
  <2> QED BY <2>2, <2>3
<1>2. tag' = tag /\ own' = own /\ pc' = pc /\ cur' = cur
  BY DEF pager_demuxer
<1>3. ASSUME NEW p \in Objects
      PROVE  Pending(p)' = IF p = r.obj THEN Append(Pending(p), r) ELSE Pending(p)
  <2>1. OfObject(Append(Shared, r), p)
          = IF r.obj = p THEN Append(OfObject(Shared, p), r) ELSE OfObject(Shared, p)
    BY MappingTypes, OfObjectAppend
  <2>2. CASE \A w \in Workers : tag[w] # p
    BY <1>1, <1>2, <2>1, <2>2 DEF PendingIs
  <2>3. ASSUME NEW w \in Workers, tag[w] = p
        PROVE  Pending(p)' = IF p = r.obj THEN Append(Pending(p), r) ELSE Pending(p)
    <3> DEFINE s == own[w]
               t == OfObject(Shared, p)
    <3>1. s \in Seq(Request) /\ t \in Seq(Request)
      BY MappingTypes DEF Inv, TypeOK
    <3>2. Pending(p) = s \o t /\ Pending(p)' = s \o OfObject(Shared, p)'
      BY <1>2, <2>3 DEF PendingIs
    <3>3. OfObject(Shared, p)' = IF r.obj = p THEN Append(t, r) ELSE t
      BY <1>1, <2>1
    <3> HIDE DEF s, t
    <3>4. s \o Append(t, r) = Append(s \o t, r)
      BY <3>1
    <3> QED BY <3>2, <3>3, <3>4
  <2> QED BY <2>2, <2>3
<1>4. ASSUME NEW p \in Objects
      PROVE  KindsOf(Pending(p))' = IF p = r.obj
               THEN Append(KindsOf(Pending(r.obj)), r.kind) ELSE KindsOf(Pending(p))
  <2>1. CASE p = r.obj
    <3>1. KindsOf(Pending(p))' = KindsOf(Append(Pending(p), r))
      BY <1>3, <2>1 DEF KindsOf
    <3>2. KindsOf(Append(Pending(p), r)) = Append(KindsOf(Pending(p)), r.kind)
      BY MappingTypes, KindsProperties
    <3> QED BY <2>1, <3>1, <3>2
  <2>2. CASE p # r.obj
    BY <1>3, <2>2 DEF KindsOf
  <2> QED BY <2>1, <2>2
<1>5. \A p \in Objects : Active(p)' = Active(p)
  BY <1>2 DEF Active
<1> QED BY <1>0, <1>4, <1>5, ReceiveStep

(* take_own: the first request to the object that the worker claims. *)
LEMMA TakeOwnRefines ==
  ASSUME Inv, PendingIs, PendingIs', ActiveIs, ActiveIs',
         NEW w \in Workers, take_own(w)
  PROVE  Serial!Next
<1> DEFINE s == own[w]
<1>1. /\ s \in Seq(Request) /\ s # <<>> /\ Head(s) \in Request
      /\ Tail(s) \in Seq(Request) /\ Head(s).obj = tag[w]
  <2>1. s \in Seq(Request) /\ s # <<>>
    BY DEF take_own, Inv, TypeOK
  <2>2. /\ Head(s) = s[1] /\ Head(s) \in Request /\ Tail(s) \in Seq(Request)
        /\ 1 \in 1 .. Len(s)
    BY <2>1, HeadTailProperties
  <2>3. s[1].obj = tag[w]
    BY <2>2 DEF Inv, OwnObject
  <2> QED BY <2>1, <2>2, <2>3
<1>2. PICK o \in Objects : o = tag[w]
  BY <1>1 DEF Request
<1> HIDE DEF Request
<1>3. /\ tag' = tag /\ pc[w] # "run" /\ pc'[w] = "run" /\ cur'[w] = Head(s)
      /\ own'[w] = Tail(s) /\ Shared' = Shared
      /\ \A v \in Workers : v # w => /\ own'[v] = own[v] /\ pc'[v] = pc[v]
                                    /\ cur'[v] = cur[v]
  BY DEF take_own, Inv, TypeOK, Shared
<1>4. \A v \in Workers : v # w => tag[v] # o
  BY <1>2, PagerWorkersAssumption DEF Inv, ClaimsUnique
<1>5. Active(o) = None
  BY <1>2, <1>3, <1>4 DEF ActiveIs
<1>6. Active(o)' = Head(s).kind
  BY <1>2, <1>3 DEF ActiveIs
<1>7. ASSUME NEW p \in Objects, p # o
      PROVE  Active(p)' = Active(p) /\ Pending(p)' = Pending(p)
  <2>1. Active(p)' = Active(p)
    <3>1. CASE \E v \in Workers : pc[v] = "run" /\ tag[v] = p
      <4>1. PICK v \in Workers : pc[v] = "run" /\ tag[v] = p
        BY <3>1
      <4>2. v # w
        BY <1>2, <1>7, <4>1
      <4> QED BY <1>3, <4>1, <4>2 DEF ActiveIs
    <3>2. CASE \A v \in Workers : ~(pc[v] = "run" /\ tag[v] = p)
      <4>1. \A v \in Workers : ~(pc'[v] = "run" /\ tag'[v] = p)
        BY <1>2, <1>3, <1>7, <3>2
      <4> QED BY <3>2, <4>1 DEF ActiveIs
    <3> QED BY <3>1, <3>2
  <2>2. Pending(p)' = Pending(p)
    <3>1. CASE \A v \in Workers : tag[v] # p
      BY <1>3, <3>1 DEF PendingIs
    <3>2. ASSUME NEW v \in Workers, tag[v] = p PROVE Pending(p)' = Pending(p)
      <4>1. v # w
        BY <1>2, <1>7, <3>2
      <4>2. own'[v] = own[v] /\ tag'[v] = p
        BY <1>3, <3>2, <4>1
      <4>3. Pending(p) = own[v] \o OfObject(Shared, p)
        BY <3>2 DEF PendingIs
      <4>4. Pending(p)' = own'[v] \o OfObject(Shared, p)'
        BY <4>2 DEF PendingIs
      <4> QED BY <1>3, <4>2, <4>3, <4>4
    <3> QED BY <3>1, <3>2
  <2> QED BY <2>1, <2>2
<1>8. Pending(o) # <<>> /\ Head(Pending(o)) = Head(s) /\ Pending(o)' = Tail(Pending(o))
  <2> DEFINE t == OfObject(Shared, o)
  <2>1. t \in Seq(Request)
    BY <1>2, MappingTypes
  <2>2. Pending(o) = s \o t /\ Pending(o)' = Tail(s) \o t
    BY <1>2, <1>3 DEF PendingIs
  <2> HIDE DEF s, t
  <2>3. s \o t # <<>> /\ Head(s \o t) = Head(s) /\ Tail(s \o t) = Tail(s) \o t
    BY <1>1, <2>1
  <2> QED BY <2>2, <2>3
<1>9. /\ KindsOf(Pending(o)) # <<>> /\ Head(KindsOf(Pending(o))) = Head(s).kind
      /\ KindsOf(Pending(o))' = Tail(KindsOf(Pending(o)))
  <2>1. KindsOf(Pending(o))' = KindsOf(Tail(Pending(o)))
    BY <1>8 DEF KindsOf
  <2> QED BY <1>2, <1>8, <2>1, MappingTypes, KindsProperties
<1>10. ASSUME NEW p \in Objects
       PROVE  KindsOf(Pending(p))'
                = IF p = o THEN Tail(KindsOf(Pending(o))) ELSE KindsOf(Pending(p))
  <2>1. CASE p = o
    BY <1>9, <2>1
  <2>2. CASE p # o
    BY <1>7, <2>2 DEF KindsOf
  <2> QED BY <2>1, <2>2
<1>11. \A p \in Objects : Active(p)'
          = IF p = o THEN Head(KindsOf(Pending(o))) ELSE Active(p)
  BY <1>6, <1>7, <1>9
<1> QED BY <1>2, <1>5, <1>9, <1>10, <1>11, StartStep

(* get_request delegates the requests that it passes: those to an object   *)
(* that another worker claims move behind the ones that this worker has,   *)
(* and there are no others.                                                *)
LEMMA DelegationKeepsOrder ==
  ASSUME Inv, PendingIs, PendingIs', NEW w \in Workers, own[w] = <<>>,
         NEW before \in Seq(Request), NEW rest \in Seq(Request),
         NEW p \in Objects,
         \A j \in 1 .. Len(before) : claimed(w, before[j].obj),
         OfObject(Shared, p) = OfObject(before, p) \o OfObject(rest, p),
         OfObject(Shared, p)' = OfObject(rest, p),
         own' = delegate(w, before),
         \A v \in Workers : v # w => tag'[v] = tag[v]
  PROVE  /\ claimed(w, p) => Pending(p)' = Pending(p)
         /\ ~claimed(w, p) => /\ Pending(p) = OfObject(rest, p)
                              /\ Pending(p)' = OfObject(rest, p)
<1> HIDE DEF Request
<1> DEFINE b == OfObject(before, p)
           c == OfObject(rest, p)
<1>1. b \in Seq(Request) /\ c \in Seq(Request)
  BY OfObjectType
<1>2. own'[w] = <<>> /\ \A v \in Workers : v # w => own'[v] = own[v] \o OfObject(before, tag[v])
  BY DEF delegate
<1>3. OfObject(Shared, p)' = c
  OBVIOUS
<1>4. ASSUME claimed(w, p) PROVE Pending(p)' = Pending(p)
  <2>1. PICK v \in Workers : v # w /\ tag[v] = p
    BY <1>4 DEF claimed
  <2> DEFINE s == own[v]
  <2>2. s \in Seq(Request)
    BY DEF Inv, TypeOK
  <2>3. Pending(p) = s \o (b \o c)
    BY <2>1 DEF PendingIs
  <2>4. tag'[v] = p /\ own'[v] = s \o b
    BY <1>2, <2>1
  <2>5. Pending(p)' = (s \o b) \o c
    BY <1>3, <2>4 DEF PendingIs
  <2> HIDE DEF s, b, c
  <2>6. s \o (b \o c) = (s \o b) \o c
    BY <1>1, <2>2, Regroup
  <2> QED BY <2>3, <2>5, <2>6
<1>5. ASSUME ~claimed(w, p) PROVE Pending(p) = c /\ Pending(p)' = c
  <2>1. b = <<>>
    <3>1. \A j \in 1 .. Len(before) : before[j].obj # p
      BY <1>5
    <3> QED BY <3>1, OfObjectType
  <2>2. OfObject(Shared, p) = c
    BY <1>1, <2>1, ConcatEmptySeq
  <2>3. <<>> \o c = c
    BY <1>1, ConcatEmptySeq
  <2>4. \A v \in Workers : v # w => tag[v] # p /\ tag'[v] # p
    BY <1>5 DEF claimed
  <2>5. Pending(p) = c
    <3>1. CASE tag[w] = p
      BY <2>2, <2>3, <3>1 DEF PendingIs
    <3>2. CASE tag[w] # p
      BY <2>2, <2>4, <3>2 DEF PendingIs
    <3> QED BY <3>1, <3>2
  <2>6. Pending(p)' = c
    <3>1. CASE tag'[w] = p
      <4>1. Pending(p)' = own'[w] \o OfObject(Shared, p)'
        BY <3>1 DEF PendingIs
      <4> QED BY <1>2, <1>3, <2>3, <4>1
    <3>2. CASE tag'[w] # p
      <4>1. Pending(p)' = OfObject(Shared, p)'
        BY <2>4, <3>2 DEF PendingIs
      <4> QED BY <1>3, <4>1
    <3> QED BY <3>1, <3>2
  <2> QED BY <2>5, <2>6
<1> QED BY <1>1, <1>4, <1>5

LEMMA BothQueues ==
  \A a, b \in Seq(Request), o \in Objects :
    OfObject(a \o b, o) = OfObject(a, o) \o OfObject(b, o)
<1> HIDE DEF Request
<1> QED BY OfObjectConcat

LEMMA GetRefines ==
  ASSUME Inv, PendingIs, PendingIs', ActiveIs, ActiveIs',
         NEW w \in Workers, own[w] = <<>>, pc[w] # "run", get_request(w),
         UNCHANGED queue_in
  PROVE  Serial!Next \/ UNCHANGED Serial!vars
<1>0. queue_out \in Seq(Request) /\ queue_in \in Seq(Request) /\ Len(queue_out) \in Nat
  BY DEF Inv, TypeOK
<1>1. ASSUME NEW i \in free_ones(w),
             \A j \in free_ones(w) : i <= j,
             own' = delegate(w, SubSeq(queue_out, 1, i - 1)),
             queue_out' = SubSeq(queue_out, i + 1, Len(queue_out)),
             tag' = [tag EXCEPT ![w] = queue_out[i].obj],
             cur' = [cur EXCEPT ![w] = queue_out[i]],
             pc' = [pc EXCEPT ![w] = "run"]
      PROVE  Serial!Next
  <2>0. i \in 1 .. Len(queue_out) /\ ~claimed(w, queue_out[i].obj)
    BY <1>1 DEF free_ones
  <2>1. PICK before \in Seq(Request), x \in Request, after \in Seq(Request),
             in \in Seq(Request) :
          /\ before = SubSeq(queue_out, 1, i - 1) /\ x = queue_out[i]
          /\ after = SubSeq(queue_out, i + 1, Len(queue_out)) /\ in = queue_in
    BY <1>0, <2>0, QueueParts DEF Inv
  <2>2. x.obj \in Objects /\ x.kind \in Kinds
    BY DEF Request
  <2> DEFINE o == x.obj
  <2> HIDE DEF Request
  <2>3. \A j \in 1 .. Len(before) : claimed(w, before[j].obj)
    <3>1. Len(before) = i - 1 /\ \A j \in 1 .. i - 1 : before[j] = queue_out[j]
      BY <2>0, <2>1, QueueParts DEF Inv
    <3>2. ASSUME NEW j \in 1 .. i - 1 PROVE claimed(w, queue_out[j].obj)
      <4>1. j \in 1 .. Len(queue_out) /\ ~(i <= j)
        BY <1>0, <2>0
      <4> QED BY <1>1, <4>1 DEF free_ones
    <3> QED BY <3>1, <3>2
  <2>4. PICK rest \in Seq(Request) : rest = after \o in /\ Shared' = rest
    <3>1. after \o in \in Seq(Request)
      BY ConcatProperties
    <3> QED BY <1>1, <2>1, <3>1 DEF Shared
  <2>5. ASSUME NEW p \in Objects
        PROVE  OfObject(Shared, p)
                 = (IF p = o THEN Append(OfObject(before, p), x) ELSE OfObject(before, p))
                     \o OfObject(rest, p)
    <3>1. PICK front \in Seq(Request) : front = Append(before, x)
      BY AppendProperties
    <3>2. Shared = front \o rest
      <4>1. queue_out = front \o after
        BY <2>0, <2>1, <3>1, QueueParts DEF Inv
      <4>2. (front \o after) \o in = front \o (after \o in)
        BY Regroup
      <4> QED BY <2>1, <2>4, <4>1, <4>2 DEF Shared
    <3>3. OfObject(Append(before, x), p)
            = IF p = o THEN Append(OfObject(before, p), x) ELSE OfObject(before, p)
      BY OfObjectAppend
    <3>4. OfObject(front \o rest, p) = OfObject(front, p) \o OfObject(rest, p)
      BY BothQueues
    <3> QED BY <3>1, <3>2, <3>3, <3>4
  <2>6. /\ own' = delegate(w, before)
        /\ \A v \in Workers : v # w => /\ tag'[v] = tag[v] /\ pc'[v] = pc[v]
                                      /\ cur'[v] = cur[v]
        /\ tag'[w] = o /\ pc'[w] = "run" /\ cur'[w] = x
    BY <1>1, <2>1 DEF Inv, TypeOK
  <2>7. \A v \in Workers : v # w => tag[v] # o
    BY <2>0, <2>1 DEF claimed
  (* The other objects. *)
  <2>8. ASSUME NEW p \in Objects, p # o
        PROVE  Pending(p)' = Pending(p) /\ Active(p)' = Active(p)
    <3>1. OfObject(Shared, p) = OfObject(before, p) \o OfObject(rest, p)
      BY <2>5, <2>8
    <3>2. OfObject(Shared, p)' = OfObject(rest, p)
      BY <2>4
    <3>3. Pending(p)' = Pending(p)
      <4>1. own' = delegate(w, before) /\ \A v \in Workers : v # w => tag'[v] = tag[v]
        BY <2>6
      <4>2. /\ claimed(w, p) => Pending(p)' = Pending(p)
            /\ ~claimed(w, p) => /\ Pending(p) = OfObject(rest, p)
                                 /\ Pending(p)' = OfObject(rest, p)
        BY <2>3, <3>1, <3>2, <4>1, DelegationKeepsOrder
      <4> QED BY <4>2
    <3>4. Active(p)' = Active(p)
      <4>1. CASE \E v \in Workers : pc[v] = "run" /\ tag[v] = p
        <5>1. PICK v \in Workers : pc[v] = "run" /\ tag[v] = p
          BY <4>1
        <5>2. v # w
          BY <5>1
        <5> QED BY <2>6, <5>1, <5>2 DEF ActiveIs
      <4>2. CASE \A v \in Workers : ~(pc[v] = "run" /\ tag[v] = p)
        <5>1. \A v \in Workers : ~(pc'[v] = "run" /\ tag'[v] = p)
          BY <2>6, <2>8, <4>2
        <5> QED BY <4>2, <5>1 DEF ActiveIs
      <4> QED BY <4>1, <4>2
    <3> QED BY <3>3, <3>4
  (* The object of the request that was found. *)
  <2>9. Active(o) = None /\ Active(o)' = x.kind
    BY <2>2, <2>6, <2>7 DEF ActiveIs
  <2> DEFINE c == OfObject(rest, o)
  <2>10. c \in Seq(Request) /\ OfObject(before, o) = <<>>
    <3>1. \A j \in 1 .. Len(before) : before[j].obj # o
      BY <2>3, <2>7 DEF claimed
    <3> QED BY <2>4, <3>1, OfObjectType
  <2>11. Pending(o) = <<x>> \o c
    <3>1. OfObject(Shared, o) = <<x>> \o c
      <4>1. Append(<<>>, x) = <<x>>
        OBVIOUS
      <4> QED BY <2>2, <2>5, <2>10, <4>1
    <3>2. <<>> \o (<<x>> \o c) = <<x>> \o c
      BY <2>10
    <3>3. CASE tag[w] = o
      BY <2>2, <3>1, <3>2, <3>3 DEF PendingIs
    <3>4. CASE tag[w] # o
      BY <2>2, <2>7, <3>1, <3>4 DEF PendingIs
    <3> QED BY <3>3, <3>4
  <2>12. Pending(o)' = c
    <3>1. own'[w] = <<>>
      BY <2>6 DEF delegate
    <3>2. OfObject(Shared, o)' = c
      BY <2>4
    <3>3. Pending(o)' = own'[w] \o OfObject(Shared, o)'
      BY <2>2, <2>6 DEF PendingIs
    <3>4. <<>> \o c = c
      BY <2>10, ConcatEmptySeq
    <3> QED BY <3>1, <3>2, <3>3, <3>4
  <2>13. Pending(o) # <<>> /\ Head(Pending(o)) = x /\ Pending(o)' = Tail(Pending(o))
    <3> HIDE DEF c
    <3>1. <<x>> \o c # <<>> /\ Head(<<x>> \o c) = x /\ Tail(<<x>> \o c) = c
      BY <2>10
    <3> QED BY <2>11, <2>12, <3>1
  <2>14. /\ KindsOf(Pending(o)) # <<>> /\ Head(KindsOf(Pending(o))) = x.kind
         /\ KindsOf(Pending(o))' = Tail(KindsOf(Pending(o)))
    <3>1. KindsOf(Pending(o))' = KindsOf(Tail(Pending(o)))
      BY <2>13 DEF KindsOf
    <3> QED BY <2>2, <2>13, <3>1, MappingTypes, KindsProperties
  <2>15. ASSUME NEW p \in Objects
         PROVE  KindsOf(Pending(p))'
                  = IF p = o THEN Tail(KindsOf(Pending(o))) ELSE KindsOf(Pending(p))
    <3>1. CASE p = o
      BY <2>14, <3>1
    <3>2. CASE p # o
      BY <2>8, <3>2 DEF KindsOf
    <3> QED BY <3>1, <3>2
  <2>16. \A p \in Objects : Active(p)'
           = IF p = o THEN Head(KindsOf(Pending(o))) ELSE Active(p)
    BY <2>8, <2>9, <2>14
  <2> HIDE DEF o
  <2> QED BY <2>2, <2>9, <2>14, <2>15, <2>16, StartStep DEF o
<1>2. ASSUME free_ones(w) = {},
             own' = delegate(w, queue_out),
             queue_out' = <<>>,
             tag' = [tag EXCEPT ![w] = None],
             pc' = [pc EXCEPT ![w] = "asleep"],
             UNCHANGED cur
      PROVE  UNCHANGED Serial!vars
  <2> HIDE DEF Request
  <2>1. PICK out \in Seq(Request), in \in Seq(Request) : out = queue_out /\ in = queue_in
    BY <1>0
  <2>2. \A j \in 1 .. Len(out) : claimed(w, out[j].obj)
    BY <1>2, <2>1 DEF free_ones
  <2>3. Shared = out \o in /\ Shared' = in
    <3>1. <<>> \o in = in
      BY ConcatEmptySeq
    <3> QED BY <1>2, <2>1, <3>1 DEF Shared
  <2>4. \A v \in Workers : v # w => tag'[v] = tag[v] /\ pc'[v] = pc[v] /\ cur'[v] = cur[v]
    BY <1>2 DEF Inv, TypeOK
  <2>5. ASSUME NEW p \in Objects
        PROVE  Pending(p)' = Pending(p) /\ Active(p)' = Active(p)
    <3>1. OfObject(Shared, p) = OfObject(out, p) \o OfObject(in, p)
      BY <2>3, OfObjectConcat
    <3>2. OfObject(Shared, p)' = OfObject(in, p)
      BY <2>3
    <3>3. Pending(p)' = Pending(p)
      <4>1. own' = delegate(w, out) /\ \A v \in Workers : v # w => tag'[v] = tag[v]
        BY <1>2, <2>1, <2>4
      <4>2. /\ claimed(w, p) => Pending(p)' = Pending(p)
            /\ ~claimed(w, p) => /\ Pending(p) = OfObject(in, p)
                                 /\ Pending(p)' = OfObject(in, p)
        BY <2>2, <3>1, <3>2, <4>1, DelegationKeepsOrder
      <4> QED BY <4>2
    <3>4. Active(p)' = Active(p)
      <4>1. pc'[w] # "run"
        BY <1>2 DEF Inv, TypeOK
      <4>2. CASE \E v \in Workers : pc[v] = "run" /\ tag[v] = p
        <5>1. PICK v \in Workers : pc[v] = "run" /\ tag[v] = p
          BY <4>2
        <5> QED BY <2>4, <5>1 DEF ActiveIs
      <4>3. CASE \A v \in Workers : ~(pc[v] = "run" /\ tag[v] = p)
        <5>1. \A v \in Workers : ~(pc'[v] = "run" /\ tag'[v] = p)
          BY <2>4, <4>1, <4>3
        <5> QED BY <4>3, <5>1 DEF ActiveIs
      <4> QED BY <4>2, <4>3
    <3> QED BY <3>3, <3>4
  <2>6. \A p \in Objects : KindsOf(Pending(p))' = KindsOf(Pending(p))
    BY <2>5 DEF KindsOf
  <2> QED BY <2>5, <2>6, StutterStep
<1> QED BY <1>1, <1>2 DEF get_request


(* worker_func is done with its request. *)
LEMMA FinishRefines ==
  ASSUME Inv, PendingIs, ActiveIs, ActiveIs', NEW w \in Workers, finish(w)
  PROVE  Serial!Next
<1>1. cur[w] \in Request /\ cur[w].obj = tag[w] /\ pc[w] = "run"
  BY DEF finish, Inv, OwnObject
<1>2. PICK o \in Objects : o = tag[w]
  BY <1>1 DEF Request
<1>3. cur[w].kind # None
  BY <1>1, PagerWorkersAssumption DEF Request
<1> HIDE DEF Request
<1>4. /\ queue_out' = queue_out /\ queue_in' = queue_in /\ tag' = tag /\ own' = own
      /\ pc'[w] # "run"
      /\ \A v \in Workers : v # w => pc'[v] = pc[v] /\ cur'[v] = cur[v]
  BY DEF finish, Inv, TypeOK
<1>5. \A v \in Workers : v # w => tag[v] # o
  BY <1>2, PagerWorkersAssumption DEF Inv, ClaimsUnique
<1>6. \A p \in Objects : KindsOf(Pending(p))' = KindsOf(Pending(p))
  BY <1>4 DEF Pending, OfObject, KindsOf
<1>7. Active(o) # None
  BY <1>1, <1>2, <1>3 DEF ActiveIs
<1>8. Active(o)' = None
  <2>1. \A v \in Workers : ~(pc'[v] = "run" /\ tag'[v] = o)
    BY <1>4, <1>5
  <2> QED BY <2>1 DEF ActiveIs
<1>9. ASSUME NEW p \in Objects, p # o PROVE Active(p)' = Active(p)
  <2>1. CASE \E v \in Workers : pc[v] = "run" /\ tag[v] = p
    <3>1. PICK v \in Workers : pc[v] = "run" /\ tag[v] = p
      BY <2>1
    <3>2. v # w
      BY <1>2, <1>9, <3>1
    <3> QED BY <1>4, <3>1, <3>2 DEF ActiveIs
  <2>2. CASE \A v \in Workers : ~(pc[v] = "run" /\ tag[v] = p)
    <3>1. \A v \in Workers : ~(pc'[v] = "run" /\ tag'[v] = p)
      BY <1>4, <2>2
    <3> QED BY <2>2, <3>1 DEF ActiveIs
  <2> QED BY <2>1, <2>2
<1>10. \A p \in Objects : Active(p)' = IF p = o THEN None ELSE Active(p)
  BY <1>8, <1>9
<1> QED BY <1>6, <1>7, <1>10, FinishStep

(* pager_inhibit_workers and pager_resume_workers only move the queues:    *)
(* the requests to an object are the same, and in the same order.          *)
LEMMA InhibitRefines ==
  ASSUME Inv,
         \/ pager_inhibit_workers \/ inhibit_wakeup \/ pager_resume_workers
  PROVE  UNCHANGED Serial!vars
<1> HIDE DEF Request
<1>1. tag' = tag /\ own' = own /\ pc' = pc /\ cur' = cur
  BY DEF pager_inhibit_workers, inhibit_wakeup, pager_resume_workers
<1>2. (queue_out \o queue_in)' = queue_out \o queue_in
  <2>1. CASE pager_inhibit_workers \/ inhibit_wakeup
    BY <2>1 DEF pager_inhibit_workers, inhibit_wakeup
  <2>2. CASE pager_resume_workers
    <3>1. queue_out' = queue_in /\ queue_in' = <<>> /\ queue_out = <<>>
      BY <2>2 DEF pager_resume_workers, Inv, InhibitState, drained
    <3>2. queue_in \o <<>> = queue_in /\ <<>> \o queue_in = queue_in
      BY ConcatEmptySeq DEF Inv, TypeOK
    <3> QED BY <3>1, <3>2
  <2> QED BY <2>1, <2>2
<1>3. \A p \in Objects : Active(p)' = Active(p)
  BY <1>1 DEF Active
<1>4. \A p \in Objects : Pending(p)' = Pending(p)
  <2>1. ASSUME NEW p \in Objects
        PROVE  OfObject(queue_out \o queue_in, p)' = OfObject(queue_out \o queue_in, p)
    BY <1>2 DEF OfObject
  <2> QED BY <1>1, <2>1 DEF Pending
<1>5. \A p \in Objects : KindsOf(Pending(p))' = KindsOf(Pending(p))
  BY <1>4 DEF KindsOf
<1> QED BY <1>3, <1>5, StutterStep

-----------------------------------------------------------------------------
(* The worker pool implements SerialObjects: the requests to an object are *)
(* served one at a time and in the order in which they came, however they  *)
(* are delegated, inhibited and resumed.                                   *)
THEOREM WorkersImplementSerialObjects == Spec => SerialSpec
<1>1. Init => Serial!Init
  <2> SUFFICES ASSUME Init PROVE Serial!Init
    OBVIOUS
  <2>1. \A p \in Objects : Active(p) = None
    BY DEF Init, Active
  <2>2. ASSUME NEW p \in Objects PROVE KindsOf(Pending(p)) = <<>>
    <3>1. \A w \in Workers : tag[w] # p
      BY PagerWorkersAssumption DEF Init
    <3>2. queue_out \o queue_in = <<>>
      BY DEF Init
    <3>3. Pending(p) = <<>>
      BY <3>1, <3>2, OfObjectEmpty DEF Pending
    <3> QED BY <3>3 DEF KindsOf
  <2> QED BY <2>1, <2>2 DEF Serial!Init
<1>2. Inv /\ Inv' /\ [Next]_vars => [Serial!Next]_(Serial!vars)
  <2> SUFFICES ASSUME Inv, Inv', [Next]_vars
               PROVE  Serial!Next \/ UNCHANGED Serial!vars
    OBVIOUS
  <2>1. PendingIs /\ ActiveIs
    BY MappingByClaims
  <2>2. PendingIs' /\ ActiveIs'
    BY MappingByClaims, PTL
  <2>3. ASSUME NEW r \in Request, pager_demuxer(r) PROVE Serial!Next
    BY <2>1, <2>2, <2>3, DemuxerRefines
  <2>4. ASSUME NEW w \in Workers, take_own(w) PROVE Serial!Next
    BY <2>1, <2>2, <2>4, TakeOwnRefines
  <2>5. ASSUME NEW w \in Workers, take_shared(w)
        PROVE  Serial!Next \/ UNCHANGED Serial!vars
    <3>1. own[w] = <<>> /\ pc[w] # "run" /\ get_request(w) /\ UNCHANGED queue_in
      BY <2>5 DEF take_shared
    <3> QED BY <2>1, <2>2, <3>1, GetRefines
  <2>6. ASSUME NEW w \in Workers, wake(w)
        PROVE  Serial!Next \/ UNCHANGED Serial!vars
    <3>1. own[w] = <<>> /\ pc[w] # "run" /\ get_request(w) /\ UNCHANGED queue_in
      BY <2>6 DEF wake, Inv, TypeOK, SleepersDone, Asleep
    <3> QED BY <2>1, <2>2, <3>1, GetRefines
  <2>7. ASSUME NEW w \in Workers, finish(w) PROVE Serial!Next
    BY <2>1, <2>2, <2>7, FinishRefines
  <2>8. CASE pager_inhibit_workers \/ inhibit_wakeup \/ pager_resume_workers
    BY <2>8, InhibitRefines
  <2>9. CASE UNCHANGED vars
    <3>1. /\ queue_out' = queue_out /\ queue_in' = queue_in /\ tag' = tag
          /\ own' = own /\ pc' = pc /\ cur' = cur
      BY <2>9 DEF vars
    <3>2. \A p \in Objects : Active(p)' = Active(p)
      BY <3>1 DEF Active
    <3>3. \A p \in Objects : KindsOf(Pending(p))' = KindsOf(Pending(p))
      BY <3>1 DEF Pending, OfObject, KindsOf
    <3> QED BY <3>2, <3>3, StutterStep
  <2> QED BY <2>3, <2>4, <2>5, <2>6, <2>7, <2>8, <2>9 DEF Next, Work
<1> QED BY <1>1, <1>2, InvHolds, PTL DEF Spec, SerialSpec, Serial!Spec
=============================================================================
