----------------------------- MODULE PipeProofs -----------------------------
(***************************************************************************)
(* Safety of a pipe of libpipe: its end of file, its release and its       *)
(* wake-ups, for any finite sets of threads, any number of open ends and   *)
(* any limit on the bytes that it holds.                                   *)
(***************************************************************************)
EXTENDS Pipe, FiniteSetTheorems, FunctionTheorems, SequenceTheorems,
  WellFoundedInduction, TLAPS

Packet == [type : {"data"}, n : Nat] \cup {control}

(* A call that writes: one that waits has something left to write and may  *)
(* block, and after a piece the control data is in the queue.              *)
WriteCall ==
  [pc : {"wwait", "wnote"}, todo : Nat, noblock : BOOLEAN, control : BOOLEAN,
   first : BOOLEAN, addressed : BOOLEAN]

WaitingWrite ==
  {w \in WriteCall : /\ w.pc = "wwait" /\ w.todo > 0 /\ ~w.noblock
                     /\ (w.control => w.first)}

NotingWrite ==
  {w \in WriteCall : w.pc = "wnote" /\ ~w.first /\ ~w.control}

ReadCall ==
  [pc : {"rwait"}, data_only : BOOLEAN, amount : {1, write_limit}, peek : BOOLEAN]

(* What a thread may be doing in the pipe. *)
Call ==
  [pc : {"idle", "rnote", "rsel", "wsel"}]
    \cup ReadCall \cup WaitingWrite \cup NotingWrite

(* Type correctness. *)
TypeOK ==
  /\ queue \in Seq(Packet)
  /\ pipe \in [count : [Ends -> Int], broken : BOOLEAN, freed : BOOLEAN]
  /\ fifo \in BOOLEAN
  /\ met \in BOOLEAN
  /\ aborted \in BOOLEAN
  /\ ends \in [Ends -> Nat]
  /\ th \in [Threads -> Call]

-----------------------------------------------------------------------------
(* Every set of natural numbers has a least element; the library's theorem *)
(* on well-founded relations, for the order of the numbers.                *)
LEMMA LeastNumber ==
  ASSUME NEW T, T \subseteq Nat, T # {}
  PROVE  \E m \in T : \A k \in T : m <= k
<1> DEFINE R == OpToRel(<, Nat)
<1>1. IsWellFoundedOn(R, Nat)
  BY NatLessThanWellFounded
<1>2. \A x, y \in Nat : x < y => <<x, y>> \in R
  BY DEF OpToRel
<1> HIDE DEF R
<1>3. PICK m \in T : \A y \in T : ~ (<<y, m>> \in R)
  BY <1>1, WFMin
<1>4. ASSUME NEW k \in T PROVE m <= k
  <2>1. m \in Nat /\ k \in Nat
    OBVIOUS
  <2>2. ~(k < m)
    BY <1>2, <1>3, <2>1
  <2> QED BY <2>1, <2>2
<1> QED BY <1>4

(* The packets of a queue. *)
LEMMA QueueFacts ==
  ASSUME NEW q \in Seq(Packet)
  PROVE  /\ Len(q) \in Nat /\ DOMAIN q = 1 .. Len(q)
         /\ \A i \in 1 .. Len(q) : /\ q[i] \in Packet /\ q[i].n \in Nat
                                   /\ q[i].type \in {"data", "control"}
                                   /\ q[i].type = "control" => q[i].n = 0
<1>1. \A p \in Packet : /\ p.n \in Nat /\ p.type \in {"data", "control"}
                        /\ p.type = "control" => p.n = 0
  BY DEF Packet, control
<1>2. Len(q) \in Nat /\ DOMAIN q = 1 .. Len(q)
  BY LenProperties
<1>3. \A i \in 1 .. Len(q) : q[i] \in Packet
  BY ElementOfSeq
<1> QED BY <1>1, <1>2, <1>3

(* The bytes of a queue: a larger queue holds no fewer. *)
LEMMA BytesFinite ==
  ASSUME NEW q \in Seq(Packet)
  PROVE  /\ IsFiniteSet(bytes(q))
         /\ pipe_readable(q) \in Nat
<1> DEFINE f == [i \in DOMAIN q |-> {i} \X (1 .. q[i].n)]
           T == {f[i] : i \in DOMAIN q}
<1>1. DOMAIN q = 1 .. Len(q) /\ Len(q) \in Nat /\ \A i \in DOMAIN q : q[i].n \in Nat
  BY QueueFacts
<1>2. IsFiniteSet(DOMAIN q)
  BY <1>1, FS_Interval
<1>3. IsFiniteSet(T)
  <2>1. f \in Surjection(DOMAIN q, T)
    BY DEF Surjection
  <2> HIDE DEF f, T
  <2> QED BY <1>2, <2>1, FS_Surjection
<1>4. ASSUME NEW i \in DOMAIN q PROVE IsFiniteSet({i} \X (1 .. q[i].n))
  <2>1. q[i].n \in Int /\ 1 \in Int
    BY <1>1
  <2>2. IsFiniteSet(1 .. q[i].n)
    BY <2>1, FS_Interval
  <2>3. IsFiniteSet({i})
    BY FS_Singleton
  <2> QED BY <2>2, <2>3, FS_Product
<1>5. \A X \in T : IsFiniteSet(X)
  BY <1>4
<1>6. bytes(q) = UNION T
  BY DEF bytes
<1>7. IsFiniteSet(bytes(q))
  <2> HIDE DEF T
  <2> QED BY <1>3, <1>5, <1>6, FS_UNION
<1> QED BY <1>7, FS_CardinalityType DEF pipe_readable

LEMMA ReadableGrows ==
  ASSUME NEW q \in Seq(Packet), NEW r \in Seq(Packet), Len(q) <= Len(r),
         \A i \in 1 .. Len(q) : q[i].n <= r[i].n
  PROVE  pipe_readable(q) <= pipe_readable(r)
<1>1. /\ DOMAIN q = 1 .. Len(q) /\ DOMAIN r = 1 .. Len(r)
      /\ Len(q) \in Nat /\ Len(r) \in Nat
      /\ \A i \in DOMAIN q : q[i].n \in Nat
      /\ \A i \in DOMAIN r : r[i].n \in Nat
  BY QueueFacts
<1>2. bytes(q) \subseteq bytes(r)
  <2>1. ASSUME NEW i \in DOMAIN q, NEW b \in {i} \X (1 .. q[i].n)
        PROVE  i \in DOMAIN r /\ b \in {i} \X (1 .. r[i].n)
    BY <1>1
  <2> QED BY <2>1 DEF bytes
<1>3. IsFiniteSet(bytes(r))
  BY BytesFinite
<1> QED BY <1>2, <1>3, FS_Subset DEF pipe_readable

LEMMA NothingReadable ==
  ASSUME NEW q, \A i \in DOMAIN q : q[i].n = 0
  PROVE  pipe_readable(q) = 0
<1>1. bytes(q) = {}
  BY DEF bytes
<1> QED BY <1>1, FS_EmptySet DEF pipe_readable

-----------------------------------------------------------------------------
(* What is put into the queue and taken out of it. *)
LEMMA PutProperties ==
  ASSUME NEW q \in Seq(Packet), NEW n \in Nat, n > 0, NEW s \in put(q, n)
  PROVE  /\ s \in Seq(Packet) /\ s # <<>>
         /\ Len(q) <= Len(s) /\ Len(s) <= Len(q) + 1
         /\ \A i \in 1 .. Len(q) : s[i].type = q[i].type /\ q[i].n <= s[i].n
         /\ s[Len(s)].type = "data"
<1> DEFINE extends == stream /\ q # <<>> /\ q[Len(q)].type = "data"
<1>1. Len(q) \in Nat /\ \A i \in 1 .. Len(q) : q[i] \in Packet /\ q[i].n \in Nat
  BY QueueFacts
<1>2. data(n) \in Packet /\ data(n).type = "data"
  BY DEF data, Packet
<1>3. \/ extends /\ s = [q EXCEPT ![Len(q)].n = @ + n]
      \/ s = Append(q, data(n))
  BY DEF put
<1>4. CASE extends /\ s = [q EXCEPT ![Len(q)].n = @ + n]
  <2> DEFINE l == Len(q)
             x == [q[l] EXCEPT !.n = @ + n]
             r == [q EXCEPT ![l] = x]
  <2>1. s = r
    BY <1>4
  <2>2. l \in 1 .. Len(q)
    BY <1>1, <1>4, EmptySeq
  <2>3. x \in Packet /\ x.type = "data" /\ x.n >= q[l].n
    <3>1. q[l] \in [type : {"data"}, n : Nat]
      BY <1>1, <1>4, <2>2 DEF Packet, control
    <3> QED BY <3>1 DEF Packet
  <2> HIDE DEF x
  <2>4. /\ r \in Seq(Packet) /\ Len(r) = Len(q) /\ r[l] = x
        /\ \A i \in 1 .. Len(q) : i # l => r[i] = q[i]
    <3> HIDE DEF Packet
    <3> QED BY <1>1, <2>2, <2>3
  <2>5. q[l].type = "data" /\ q # <<>>
    BY <1>4
  <2> HIDE DEF r, extends
  <2>6. \A i \in 1 .. Len(q) : r[i].type = q[i].type /\ q[i].n <= r[i].n
    BY <1>1, <2>2, <2>3, <2>4, <2>5
  <2>7. r # <<>> /\ r[Len(r)].type = "data"
    BY <2>2, <2>3, <2>4, EmptySeq
  <2> HIDE DEF l
  <2> QED BY <1>1, <2>1, <2>4, <2>6, <2>7
<1>5. CASE s = Append(q, data(n))
  <2> HIDE DEF Packet
  <2>2. /\ Append(q, data(n)) \in Seq(Packet) /\ Len(Append(q, data(n))) = Len(q) + 1
        /\ Append(q, data(n))[Len(q) + 1] = data(n)
        /\ \A i \in 1 .. Len(q) : Append(q, data(n))[i] = q[i]
    BY <1>2, AppendProperties
  <2> QED BY <1>1, <1>2, <1>5, <2>2
<1> QED BY <1>3, <1>4, <1>5

(* R is what is left of Q at its end, but for the size of the packets. *)
Suffix(r, q) ==
  \E k \in 0 .. Len(q) :
    /\ Len(r) = Len(q) - k
    /\ \A i \in 1 .. Len(r) : r[i].type = q[i + k].type

LEMMA SuffixTransitive ==
  ASSUME NEW q \in Seq(Packet), NEW r \in Seq(Packet), NEW s \in Seq(Packet),
         Suffix(s, r), Suffix(r, q)
  PROVE  Suffix(s, q)
<1>0. Len(q) \in Nat /\ Len(r) \in Nat /\ Len(s) \in Nat
  BY LenProperties
<1>1. PICK k \in 0 .. Len(r) : /\ Len(s) = Len(r) - k
                               /\ \A i \in 1 .. Len(s) : s[i].type = r[i + k].type
  BY DEF Suffix
<1>2. PICK m \in 0 .. Len(q) : /\ Len(r) = Len(q) - m
                               /\ \A i \in 1 .. Len(r) : r[i].type = q[i + m].type
  BY DEF Suffix
<1>3. k + m \in 0 .. Len(q) /\ Len(s) = Len(q) - (k + m)
  BY <1>0, <1>1, <1>2
<1>4. ASSUME NEW i \in 1 .. Len(s) PROVE s[i].type = q[i + (k + m)].type
  <2>1. i + k \in 1 .. Len(r) /\ (i + k) + m = i + (k + m)
    BY <1>0, <1>1, <1>2
  <2> QED BY <1>1, <1>2, <2>1
<1> QED BY <1>3, <1>4 DEF Suffix

LEMMA SuffixSame == ASSUME NEW q \in Seq(Packet) PROVE Suffix(q, q)
<1>1. Len(q) \in Nat
  BY LenProperties
<1>2. 0 \in 0 .. Len(q) /\ Len(q) = Len(q) - 0
      /\ \A i \in 1 .. Len(q) : q[i].type = q[i + 0].type
  BY <1>1
<1> QED BY <1>2 DEF Suffix

LEMMA SuffixTail ==
  ASSUME NEW q \in Seq(Packet), q # <<>>
  PROVE  Tail(q) \in Seq(Packet) /\ Suffix(Tail(q), q)
<1> HIDE DEF Packet
<1>1. /\ Len(q) \in Nat /\ Len(q) > 0 /\ Tail(q) \in Seq(Packet)
      /\ Len(Tail(q)) = Len(q) - 1
      /\ \A i \in 1 .. Len(q) - 1 : Tail(q)[i] = q[i + 1]
  BY EmptySeq, HeadTailProperties, LenProperties
<1>2. 1 \in 0 .. Len(q)
  BY <1>1
<1> QED BY <1>1, <1>2 DEF Suffix

LEMMA FromData ==
  ASSUME NEW q \in Seq(Packet)
  PROVE  /\ from_data(q) \in Seq(Packet)
         /\ Suffix(from_data(q), q)
         /\ from_data(q) = <<>> => \A i \in 1 .. Len(q) : q[i].type = "control"
<1> DEFINE ds == {i \in DOMAIN q : q[i].type = "data"}
<1>0. /\ Len(q) \in Nat /\ DOMAIN q = 1 .. Len(q)
      /\ \A i \in 1 .. Len(q) : q[i].type \in {"data", "control"}
  BY QueueFacts
<1> HIDE DEF Packet
<1>1. CASE ds = {}
  <2>1. from_data(q) = <<>>
    BY <1>1 DEF from_data
  <2>2. \A i \in 1 .. Len(q) : q[i].type = "control"
    BY <1>0, <1>1
  <2>3. Suffix(<<>>, q)
    <3>1. Len(q) \in 0 .. Len(q) /\ Len(<<>>) = Len(q) - Len(q)
      BY <1>0
    <3> QED BY <3>1 DEF Suffix
  <2> QED BY <2>1, <2>2, <2>3, EmptySeq
<1>2. CASE ds # {}
  <2> DEFINE m == CHOOSE i \in ds : \A j \in ds : i <= j
             r == SubSeq(q, m, Len(q))
  <2>1. m \in 1 .. Len(q)
    <3>1. ds \subseteq Nat
      BY <1>0
    <3>2. \E i \in ds : \A j \in ds : i <= j
      <4> HIDE DEF ds
      <4> QED BY <1>2, <3>1, LeastNumber
    <3>3. m \in ds
      <4> HIDE DEF ds
      <4> QED BY <3>2
    <3> QED BY <1>0, <3>3
  <2>2. from_data(q) = r
    BY <1>2 DEF from_data
  <2> HIDE DEF m, ds
  <2>3. /\ r \in Seq(Packet) /\ Len(r) = Len(q) - m + 1
        /\ \A i \in 1 .. Len(q) - m + 1 : r[i] = q[m + i - 1]
    BY <1>0, <2>1
  <2> HIDE DEF r
  <2>4. Suffix(r, q)
    <3>1. m - 1 \in 0 .. Len(q) /\ Len(r) = Len(q) - (m - 1)
      BY <1>0, <2>1, <2>3
    <3>2. \A i \in 1 .. Len(r) : r[i] = q[i + (m - 1)]
      BY <1>0, <2>1, <2>3
    <3> QED BY <3>1, <3>2 DEF Suffix
  <2>5. r # <<>>
    BY <1>0, <2>1, <2>3, EmptySeq
  <2> QED BY <2>2, <2>3, <2>4, <2>5
<1> QED BY <1>1, <1>2

LEMMA Consume ==
  ASSUME NEW q \in Seq(Packet), q # <<>>, NEW r \in ReadCall
  PROVE  consume(q, r) \in Seq(Packet) /\ Suffix(consume(q, r), q)
<1>0. /\ Len(q) \in Nat /\ DOMAIN q = 1 .. Len(q) /\ Len(q) > 0
      /\ q[1] \in Packet /\ q[1].n \in Nat /\ Head(q) = q[1]
      /\ q[1].type = "control" => q[1].n = 0
  <2>1. Len(q) \in Nat /\ Len(q) > 0 /\ Head(q) = q[1]
    BY EmptySeq, LenProperties
  <2> QED BY <2>1, QueueFacts
<1>1. r.amount \in Nat
  BY PipeAssumption DEF ReadCall
<1>2. CASE r.peek
  BY <1>2, SuffixSame DEF consume
<1>3. CASE ~r.peek /\ ~(~connless /\ Head(q).n > r.amount)
  BY <1>3, SuffixTail DEF consume
<1>4. CASE ~r.peek /\ ~connless /\ Head(q).n > r.amount
  <2> DEFINE x == [q[1] EXCEPT !.n = @ - r.amount]
             s == [q EXCEPT ![1] = x]
  <2>1. consume(q, r) = s
    BY <1>4 DEF consume
  <2>2. x \in Packet /\ x.type = q[1].type
    <3>1. q[1].type # "control" /\ q[1].n > r.amount
      BY <1>0, <1>1, <1>4
    <3>2. q[1] \in [type : {"data"}, n : Nat]
      BY <1>0, <3>1 DEF Packet, control
    <3> QED BY <1>1, <3>1, <3>2 DEF Packet
  <2> HIDE DEF Packet, x
  <2>3. /\ s \in Seq(Packet) /\ Len(s) = Len(q) /\ s[1] = x
        /\ \A i \in 1 .. Len(q) : i # 1 => s[i] = q[i]
    BY <1>0, <2>2
  <2> HIDE DEF s
  <2>4. Suffix(s, q)
    <3>1. \A i \in 1 .. Len(s) : s[i].type = q[i + 0].type
      BY <1>0, <2>2, <2>3
    <3>2. 0 \in 0 .. Len(q) /\ Len(s) = Len(q) - 0
      BY <1>0, <2>3
    <3> QED BY <3>1, <3>2 DEF Suffix
  <2> QED BY <2>1, <2>3, <2>4
<1> QED BY <1>2, <1>3, <1>4

(* Every control packet has a data packet behind it. *)
DataBehindControl(q) ==
  \A i \in 1 .. Len(q) :
    q[i].type = "control" => i < Len(q) /\ q[i + 1].type = "data"

LEMMA SuffixProperties ==
  ASSUME NEW q \in Seq(Packet), NEW r \in Seq(Packet), Suffix(r, q)
  PROVE  /\ \A d : pipe_is_readable(r, d) => pipe_is_readable(q, d)
         /\ DataBehindControl(q) => DataBehindControl(r)
<1>0. Len(q) \in Nat /\ Len(r) \in Nat /\ DOMAIN q = 1 .. Len(q) /\ DOMAIN r = 1 .. Len(r)
  BY LenProperties
<1>1. PICK k \in 0 .. Len(q) : /\ Len(r) = Len(q) - k
                               /\ \A i \in 1 .. Len(r) : r[i].type = q[i + k].type
  BY DEF Suffix
<1>2. \A i \in 1 .. Len(r) : i + k \in 1 .. Len(q)
  BY <1>0, <1>1
<1>3. ASSUME NEW d, pipe_is_readable(r, d) PROVE pipe_is_readable(q, d)
  BY <1>0, <1>1, <1>2, <1>3 DEF pipe_is_readable
<1>4. ASSUME DataBehindControl(q), NEW i \in 1 .. Len(r), r[i].type = "control"
      PROVE  i < Len(r) /\ r[i + 1].type = "data"
  <2>1. i + k < Len(q) /\ q[(i + k) + 1].type = "data"
    BY <1>1, <1>2, <1>4 DEF DataBehindControl
  <2>2. i < Len(r) /\ i + 1 \in 1 .. Len(r) /\ (i + k) + 1 = (i + 1) + k
    BY <1>0, <1>1, <2>1
  <2> QED BY <1>1, <2>1, <2>2
<1> QED BY <1>3, <1>4 DEF DataBehindControl

-----------------------------------------------------------------------------
(* What a read does. *)
LEMMA ReadPacket ==
  ASSUME TypeOK, NEW t \in Threads, NEW r \in ReadCall, read_packet(t, r)
  PROVE  /\ queue' \in Seq(Packet) /\ Suffix(queue', queue)
         /\ aborted' \in BOOLEAN
         /\ Step(t, r, [pc |-> "rnote"], pending_writes) \/ Step(t, r, Idle, {})
         /\ DataBehindControl(queue) =>
              /\ aborted' = aborted
              /\ \/ Step(t, r, [pc |-> "rnote"], pending_writes)
                 \/ /\ Step(t, r, Idle, {})
                    /\ pipe_readable(queue) <= pipe_readable(queue')
<1> DEFINE q == IF r.data_only THEN from_data(queue)
                ELSE IF head_control(queue) THEN Tail(queue) ELSE queue
           lonely == ~r.data_only /\ head_control(queue)
                       /\ (q = <<>> \/ head_control(q))
<1>0. queue \in Seq(Packet) /\ aborted \in BOOLEAN
  BY DEF TypeOK
<1>1. q \in Seq(Packet) /\ Suffix(q, queue)
  <2>1. CASE r.data_only
    BY <1>0, <2>1, FromData
  <2>2. CASE ~r.data_only /\ head_control(queue)
    BY <1>0, <2>2, SuffixTail DEF head_control
  <2>3. CASE ~r.data_only /\ ~head_control(queue)
    BY <1>0, <2>3, SuffixSame
  <2> QED BY <2>1, <2>2, <2>3
<1>2. /\ aborted' = (aborted \/ lonely)
      /\ IF lonely \/ q = <<>>
           THEN queue' = q /\ Step(t, r, Idle, {})
           ELSE /\ queue' = consume(q, r)
                /\ Step(t, r, [pc |-> "rnote"], pending_writes)
  BY DEF read_packet
<1>3. DataBehindControl(queue) => ~lonely
  <2> SUFFICES ASSUME DataBehindControl(queue), lonely PROVE FALSE
    OBVIOUS
  <2>1. q = Tail(queue) /\ queue # <<>> /\ Head(queue).type = "control"
    BY DEF head_control
  <2>2. /\ Len(queue) \in Nat /\ Len(queue) > 0 /\ Head(queue) = queue[1]
        /\ Len(q) = Len(queue) - 1 /\ \A i \in 1 .. Len(q) : q[i] = queue[i + 1]
    <3> HIDE DEF Packet, q
    <3> QED BY <1>0, <1>1, <2>1, EmptySeq, HeadTailProperties, LenProperties
  <2>3. 1 < Len(queue) /\ queue[2].type = "data"
    BY <2>1, <2>2 DEF DataBehindControl
  <2>4. q # <<>> /\ head_control(q)
    <3>1. q # <<>>
      <4> HIDE DEF q
      <4> QED BY <1>1, <2>2, <2>3, EmptySeq
    <3> QED BY <3>1
  <2>5. Head(q) = q[1] /\ q[1] = queue[2]
    <3> HIDE DEF q, lonely
    <3> QED BY <1>1, <2>2, <2>3, <2>4
  <2> QED BY <2>3, <2>4, <2>5 DEF head_control
<1>4. ASSUME q = <<>>, ~lonely
      PROVE  pipe_readable(queue) <= pipe_readable(q)
  <2>1. CASE queue = <<>>
    <3>1. pipe_readable(queue) \in Nat
      BY <1>0, BytesFinite
    <3> HIDE DEF q
    <3> QED BY <1>4, <2>1, <3>1
  <2>2. CASE queue # <<>>
    <3>1. from_data(queue) = <<>>
      BY <1>4, <2>2
    <3>2. \A i \in DOMAIN queue : queue[i].n = 0
      BY <1>0, <3>1, FromData, QueueFacts
    <3>3. pipe_readable(queue) = 0
      BY <3>2, NothingReadable
    <3>4. pipe_readable(q) \in Nat
      <4> HIDE DEF q
      <4> QED BY <1>1, BytesFinite
    <3> HIDE DEF q
    <3> QED BY <3>3, <3>4
  <2> QED BY <2>1, <2>2
<1> HIDE DEF q, lonely
<1>5. CASE lonely \/ q = <<>>
  BY <1>0, <1>1, <1>2, <1>3, <1>4, <1>5 DEF lonely
<1>6. CASE ~lonely /\ q # <<>>
  <2>1. /\ queue' = consume(q, r) /\ aborted' = aborted
        /\ Step(t, r, [pc |-> "rnote"], pending_writes)
    BY <1>0, <1>2, <1>6
  <2>2. consume(q, r) \in Seq(Packet) /\ Suffix(consume(q, r), q)
    BY <1>1, <1>6, Consume
  <2>3. Suffix(consume(q, r), queue)
    BY <1>0, <1>1, <2>2, SuffixTransitive
  <2> QED BY <1>0, <2>1, <2>2, <2>3
<1> QED BY <1>5, <1>6

(* What a piece of a write does.  Control data goes ahead of the first     *)
(* piece, and stays alone only if the record does not fit.                 *)
LEMMA WritePiece ==
  ASSUME TypeOK, NEW t \in Threads, NEW w \in WriteCall, NEW wakes,
         w.todo > 0,
         w.first => writable_amount(queue, 1),
         ~w.first => ~w.noblock /\ ~w.control,
         write_piece(t, w, wakes)
  PROVE  /\ queue' \in Seq(Packet)
         /\ pipe_readable(queue) <= pipe_readable(queue')
         /\ (w.control => stream) /\ DataBehindControl(queue) => DataBehindControl(queue')
         /\ \/ queue' = queue /\ Step(t, w, Idle, wakes)
            \/ /\ queue' = queue \/ ~(w.control => stream)
               /\ broken /\ Step(t, w, Idle, wakes)
            \/ \E to \in NotingWrite : /\ Step(t, w, to, wakes \cup pending_reads)
                                       /\ to.addressed = w.addressed
            \/ /\ queue' = queue \/ ~(w.control => stream)
               /\ ~broken
               /\ \E to \in WaitingWrite : /\ Step(t, w, to, wakes)
                                           /\ ~to.first /\ to.addressed = w.addressed
                                           /\ ~writable_amount(queue', amount(to))
<1> DEFINE left  == write_limit - pipe_readable(queue)
           short == w.noblock /\ left < w.todo
           todo  == IF short THEN left ELSE w.todo
           q     == IF w.first /\ w.control THEN Append(queue, control) ELSE queue
           piece == IF todo <= left THEN todo ELSE IF stream THEN left ELSE 0
           after == [w EXCEPT !.first = FALSE, !.control = FALSE, !.todo = todo - piece]
<1>0. /\ queue \in Seq(Packet) /\ pipe_readable(queue) \in Nat
      /\ w.todo \in Nat /\ w.todo > 0 /\ w.first \in BOOLEAN /\ w.control \in BOOLEAN
      /\ w.noblock \in BOOLEAN /\ write_limit \in Nat /\ left \in Int
  BY BytesFinite, PipeAssumption DEF TypeOK, WriteCall
<1>1. control \in Packet /\ control.type = "control" /\ control.n = 0
  BY DEF Packet, control
<1>2. w.first => left > 1
  BY <1>0 DEF writable_amount
<1> DEFINE A == w.first /\ short /\ (~stream \/ w.todo <= write_atomic)
<1>3. /\ A => Step(t, w, Idle, wakes) /\ queue' = queue
      /\ ~A /\ piece > 0 => /\ queue' \in put(q, piece)
                            /\ Step(t, w, [after EXCEPT !.pc = "wnote"], wakes \cup pending_reads)
      /\ ~A /\ ~(piece > 0) =>
           /\ queue' = q
           /\ Step(t, w, IF broken THEN Idle ELSE [after EXCEPT !.pc = "wwait"], wakes)
  BY DEF write_piece
<1> HIDE DEF A
(* The queue with the control packet. *)
<1>4. /\ q \in Seq(Packet) /\ pipe_readable(queue) <= pipe_readable(q)
      /\ Len(queue) <= Len(q) /\ Len(q) <= Len(queue) + 1
      /\ \A i \in 1 .. Len(queue) : q[i] = queue[i]
      /\ Len(q) = Len(queue) => q = queue
      /\ (w.control => w.first) /\ (~w.control => q = queue)
  <2>1. CASE w.first /\ w.control
    <3> DEFINE s == Append(queue, control)
    <3>1. /\ s \in Seq(Packet) /\ Len(s) = Len(queue) + 1 /\ Len(queue) \in Nat
          /\ \A i \in 1 .. Len(queue) : s[i] = queue[i]
      <4> HIDE DEF Packet
      <4> QED BY <1>0, <1>1, AppendProperties, LenProperties
    <3>2. \A i \in 1 .. Len(queue) : queue[i].n \in Nat
      BY <1>0, QueueFacts
    <3>3. q = s
      BY <2>1
    <3> HIDE DEF s, q
    <3>4. pipe_readable(queue) <= pipe_readable(s)
      BY <1>0, <3>1, <3>2, ReadableGrows
    <3> QED BY <1>0, <2>1, <3>1, <3>3, <3>4
  <2>2. CASE ~(w.first /\ w.control)
    <3>1. q = queue /\ ~w.control
      BY <1>0, <2>2
    <3>2. Len(queue) \in Nat
      BY <1>0, LenProperties
    <3> HIDE DEF q
    <3> QED BY <1>0, <3>1, <3>2
  <2> QED BY <2>1, <2>2
<1>5. CASE A
  <2>1. queue' = queue /\ Step(t, w, Idle, wakes)
    BY <1>3, <1>5
  <2> QED BY <1>0, <2>1
<1>6. CASE ~A /\ piece > 0
  <2> DEFINE to == [after EXCEPT !.pc = "wnote"]
             n == piece
  <2>1. n \in Nat /\ n > 0 /\ todo - n \in Nat
    BY <1>0, <1>6
  <2>2. to \in NotingWrite /\ to.addressed = w.addressed
    <3> HIDE DEF n, todo
    <3> QED BY <2>1 DEF WriteCall, NotingWrite, n
  <2>3. queue' \in put(q, n) /\ Step(t, w, to, wakes \cup pending_reads)
    BY <1>3, <1>6
  <2> DEFINE s == queue'
  <2> HIDE DEF q, n, to
  <2>4. /\ s \in Seq(Packet)
        /\ Len(q) <= Len(s) /\ Len(s) <= Len(q) + 1
        /\ \A i \in 1 .. Len(q) : /\ s[i].type = q[i].type
                                  /\ q[i].n <= s[i].n
        /\ s[Len(s)].type = "data"
    BY <1>4, <2>1, <2>3, PutProperties
  <2>5. pipe_readable(q) <= pipe_readable(s)
    BY <1>4, <2>4, ReadableGrows
  <2>6. pipe_readable(q) \in Nat /\ pipe_readable(s) \in Nat
    BY <1>4, <2>4, BytesFinite
  <2>7. pipe_readable(queue) <= pipe_readable(s)
    BY <1>0, <1>4, <2>5, <2>6
  <2>8. ASSUME w.control => stream, DataBehindControl(queue)
        PROVE  DataBehindControl(s)
    <3>0. Len(q) \in Nat /\ Len(queue) \in Nat /\ Len(s) \in Nat
      BY <1>0, <1>4, <2>4, LenProperties
    <3>1. ASSUME NEW i \in 1 .. Len(s), s[i].type = "control"
          PROVE  i < Len(s) /\ s[i + 1].type = "data"
      <4>1. i # Len(s) /\ i < Len(s) /\ i \in 1 .. Len(q) /\ q[i].type = "control"
        <5>1. i # Len(s)
          BY <2>4, <3>1
        <5>2. i < Len(s) /\ i \in 1 .. Len(q)
          BY <2>4, <3>0, <5>1
        <5> QED BY <2>4, <3>1, <5>1, <5>2
      <4>2. CASE i + 1 = Len(s)
        BY <2>4, <4>2
      <4>3. CASE i + 1 # Len(s)
        <5>1. i + 1 \in 1 .. Len(q) /\ i \in 1 .. Len(queue) /\ queue[i] = q[i]
          <6>1. i + 1 \in 1 .. Len(q)
            BY <2>4, <3>0, <4>1, <4>3
          <6>2. i \in 1 .. Len(queue)
            BY <1>4, <3>0, <6>1
          <6> QED BY <1>4, <6>1, <6>2
        <5>2. i < Len(queue) /\ queue[i + 1].type = "data"
          BY <2>8, <4>1, <5>1 DEF DataBehindControl
        <5>3. i + 1 \in 1 .. Len(queue)
          BY <3>0, <5>2
        <5>4. q[i + 1].type = "data"
          BY <1>4, <5>2, <5>3
        <5>5. s[i + 1].type = q[i + 1].type
          BY <2>4, <5>1
        <5> QED BY <4>1, <5>4, <5>5
      <4> QED BY <4>1, <4>2, <4>3
    <3> QED BY <3>1 DEF DataBehindControl
  <2> QED BY <2>2, <2>3, <2>4, <2>7, <2>8
<1>7. CASE ~A /\ ~(piece > 0)
  (* Whoever may block not, or writes first, finds room. *)
  <2>1. ~w.noblock /\ todo = w.todo
    <3>1. CASE w.noblock
      <4>1. w.first
        BY <3>1
      <4>2. left > 1
        BY <1>2, <4>1
      <4>3. todo <= left /\ todo > 0
        BY <1>0, <3>1, <4>2
      <4>4. piece > 0
        BY <4>3
      <4> QED BY <1>7, <4>4
    <3>2. CASE ~w.noblock
      BY <3>2
    <3> QED BY <3>1, <3>2
  <2>2. w.todo > left
    BY <1>0, <1>7, <2>1
  <2>3. piece = IF stream THEN left ELSE 0
    BY <1>0, <2>1, <2>2
  <2>4. piece \in Int /\ piece <= 0 /\ todo - piece \in Nat /\ todo - piece > 0
        /\ (stream => left <= 0)
    BY <1>0, <1>7, <2>1, <2>3
  <2>5. stream => ~w.first /\ ~w.control
    BY <1>0, <1>2, <2>4
  <2>6. q = queue \/ ~(w.control => stream)
    BY <1>4, <2>5
  <2>7. queue' = q /\ Step(t, w, IF broken THEN Idle ELSE [after EXCEPT !.pc = "wwait"], wakes)
    BY <1>3, <1>7
  <2>8. (w.control => stream) /\ DataBehindControl(queue) => DataBehindControl(q)
    BY <2>6
  <2>9. CASE broken
    <3> HIDE DEF q
    <3> QED BY <1>4, <2>6, <2>7, <2>8, <2>9
  <2>10. CASE ~broken
    <3> DEFINE to == [after EXCEPT !.pc = "wwait"]
    <3>1. /\ to \in WaitingWrite /\ ~to.first /\ to.todo = todo - piece
          /\ to.addressed = w.addressed
      <4> DEFINE m == todo - piece
      <4>1. m \in Nat /\ m > 0
        BY <2>4
      <4> HIDE DEF m, todo, piece
      <4>2. [w EXCEPT !.first = FALSE, !.control = FALSE, !.todo = m, !.pc = "wwait"]
              = to
        BY DEF m, WriteCall
      <4> QED BY <1>0, <2>1, <4>1 DEF WriteCall, WaitingWrite, m
    <3>2. ~writable_amount(q, amount(to))
      <4>1. pipe_readable(q) \in Nat
        <5> HIDE DEF q
        <5> QED BY <1>4, BytesFinite
      <4>2. amount(to) = IF stream THEN 1 ELSE todo - piece
        <5> HIDE DEF to
        <5> QED BY <3>1 DEF amount
      <4>3. CASE stream
        <5>1. write_limit <= pipe_readable(queue)
          BY <1>0, <2>4, <4>3
        <5> HIDE DEF q, to
        <5> QED BY <1>0, <1>4, <4>1, <4>2, <4>3, <5>1 DEF writable_amount
      <4>4. CASE ~stream
        <5>1. amount(to) = w.todo
          BY <1>0, <2>1, <2>3, <4>2, <4>4
        <5>2. pipe_readable(queue) + w.todo > write_limit
          BY <1>0, <2>2
        <5> HIDE DEF q, to
        <5> QED BY <1>0, <1>4, <4>1, <5>1, <5>2 DEF writable_amount
      <4> QED BY <4>3, <4>4
    <3>3. queue' = q /\ Step(t, w, to, wakes)
      BY <2>7, <2>10
    <3>4. stream' = stream
      BY <3>3 DEF Step, stream
    <3>5. ~writable_amount(queue', amount(to))
      BY <3>2, <3>3
    <3> HIDE DEF q, to
    <3> QED BY <1>4, <2>6, <2>8, <2>10, <3>1, <3>3, <3>5
  <2> QED BY <2>9, <2>10
<1> QED BY <1>5, <1>6, <1>7

-----------------------------------------------------------------------------
(* What the state of a call says about it. *)
ReadPcs == {"rwait", "rnote", "rsel"}
WritePcs == {"wwait", "wnote", "wsel"}
SleepPcs == {"rwait", "rsel", "wwait", "wsel"}

LEMMA CallFacts ==
  ASSUME NEW c \in Call
  PROVE  /\ c.pc \in {"idle"} \cup ReadPcs \cup WritePcs
         /\ c.pc = "idle" => c = Idle
         /\ c.pc = "rwait" => c \in ReadCall
         /\ c.pc = "wwait" => c \in WaitingWrite
         /\ c.pc = "wnote" => c \in NotingWrite
<1>1. CASE c \in [pc : {"idle", "rnote", "rsel", "wsel"}]
  BY <1>1 DEF Idle, ReadPcs, WritePcs
<1>2. CASE c \in ReadCall
  BY <1>2 DEF ReadCall, ReadPcs
<1>3. CASE c \in WaitingWrite
  BY <1>3 DEF WaitingWrite, WritePcs
<1>4. CASE c \in NotingWrite
  BY <1>4 DEF NotingWrite, WritePcs
<1> QED BY <1>1, <1>2, <1>3, <1>4 DEF Call

(* Calls that have come in at the same end. *)
Same(c, d) == acquired_as(c) = acquired_as(d) /\ side(c) = side(d)

LEMMA Sides ==
  ASSUME NEW c
  PROVE  /\ side(c) \in Ends /\ acquired_as(c) \in Ends
         /\ released_as(c) = acquired_as(c)
         /\ addressed(c) <=> acquired_as(c) # side(c)
         /\ addressed(c) => c.pc \in {"wwait", "wnote"}
         /\ ~addressed(c) => acquired_as(c) = side(c)
BY DEF side, acquired_as, released_as, addressed, Ends

-----------------------------------------------------------------------------
(* What the counts say of a pipe P: it is freed when both are zero, and    *)
(* broken when one is missing, unless it is a fifo whose users have not    *)
(* met; M tells whether they have.                                         *)
Missing(p) ==
  \/ p.count["readers"] = 0
  \/ p.count["writers"] = 0 /\ ~connless

Sound(p, m) ==
  /\ p \in [count : [Ends -> Nat], broken : BOOLEAN, freed : BOOLEAN]
  /\ m \in BOOLEAN
  /\ p.freed <=> p.count["readers"] = 0 /\ p.count["writers"] = 0
  /\ ~p.freed => (p.broken <=> Missing(p) /\ (fifo => m))
  /\ p.count["readers"] > 0 /\ p.count["writers"] > 0 => m

Meets(p, m) == m \/ (p.count["readers"] > 0 /\ p.count["writers"] > 0)

LEMMA AcquireSound ==
  ASSUME NEW p, NEW m, NEW e \in Ends, Sound(p, m), ~p.freed
  PROVE  /\ Sound(acquire(p, e), Meets(acquire(p, e), m))
         /\ acquire(p, e).count = [p.count EXCEPT ![e] = @ + 1]
         /\ ~acquire(p, e).freed
         /\ acquire(p, e).broken => p.broken
<1> DEFINE a == acquire(p, e)
<1>1. /\ a.count = [p.count EXCEPT ![e] = @ + 1] /\ a.freed = p.freed
      /\ a.broken = (p.broken /\ ~(p.count[e] = 0 /\ p.count[other(e)] > 0))
      /\ a = [count |-> a.count, broken |-> a.broken, freed |-> a.freed]
  BY DEF acquire
<1>2. /\ p.count \in [Ends -> Nat] /\ p.broken \in BOOLEAN /\ p.freed \in BOOLEAN
      /\ p.count["readers"] \in Nat /\ p.count["writers"] \in Nat
  BY DEF Sound, Ends
<1>3. /\ a.count \in [Ends -> Nat] /\ a.count[e] = p.count[e] + 1
      /\ \A f \in Ends : f # e => a.count[f] = p.count[f]
  BY <1>1, <1>2
<1>4. a \in [count : [Ends -> Nat], broken : BOOLEAN, freed : BOOLEAN]
  BY <1>1, <1>2, <1>3
<1> HIDE DEF a
<1>5. CASE e = "readers"
  <2>1. a.count["readers"] = p.count["readers"] + 1 /\ a.count["writers"] = p.count["writers"]
    BY <1>3, <1>5 DEF Ends
  <2>2. a.broken <=> p.broken /\ ~(p.count["readers"] = 0 /\ p.count["writers"] > 0)
    BY <1>1, <1>2, <1>5 DEF other
  <2>3. Sound(a, Meets(a, m))
    BY <1>1, <1>2, <1>4, <2>1, <2>2 DEF Sound, Missing, Meets
  <2> QED BY <1>1, <1>2, <2>2, <2>3 DEF a
<1>6. CASE e = "writers"
  <2>1. a.count["writers"] = p.count["writers"] + 1 /\ a.count["readers"] = p.count["readers"]
    BY <1>3, <1>6 DEF Ends
  <2>2. a.broken <=> p.broken /\ ~(p.count["writers"] = 0 /\ p.count["readers"] > 0)
    BY <1>1, <1>2, <1>6 DEF other
  <2>3. Sound(a, Meets(a, m))
    BY <1>1, <1>2, <1>4, <2>1, <2>2 DEF Sound, Missing, Meets
  <2> QED BY <1>1, <1>2, <2>2, <2>3 DEF a
<1> QED BY <1>5, <1>6 DEF Ends

(* Whether the last user at end E leaves others behind, who are told. *)
Breaks(p, e) ==
  p.count[e] = 1 /\ p.count[other(e)] # 0 /\ (e = "readers" \/ ~connless)

LEMMA ReleaseSound ==
  ASSUME NEW p, NEW m, NEW e \in Ends, Sound(p, m), p.count[e] > 0
  PROVE  /\ Sound(release(p, e), Meets(release(p, e), m))
         /\ release(p, e).count = [p.count EXCEPT ![e] = @ - 1]
         /\ release(p, e).broken => p.broken \/ Breaks(p, e)
<1> DEFINE a == release(p, e)
<1>1. /\ a.count = [p.count EXCEPT ![e] = @ - 1]
      /\ a.freed = (p.freed \/ (p.count[e] = 1 /\ p.count[other(e)] = 0))
      /\ a.broken = (p.broken \/ Breaks(p, e))
      /\ a = [count |-> a.count, broken |-> a.broken, freed |-> a.freed]
  BY DEF release, Breaks
<1>2. /\ p.count \in [Ends -> Nat] /\ p.broken \in BOOLEAN /\ p.freed \in BOOLEAN
      /\ p.count["readers"] \in Nat /\ p.count["writers"] \in Nat
      /\ p.count[e] \in Nat /\ ~p.freed /\ connless \in BOOLEAN /\ Breaks(p, e) \in BOOLEAN
  <2>1. connless \in BOOLEAN /\ Breaks(p, e) \in BOOLEAN
    BY DEF connless, Breaks
  <2> QED BY <2>1 DEF Sound, Ends
<1>3. /\ a.count \in [Ends -> Nat] /\ a.count[e] = p.count[e] - 1
      /\ \A f \in Ends : f # e => a.count[f] = p.count[f]
  BY <1>1, <1>2
<1>4. a \in [count : [Ends -> Nat], broken : BOOLEAN, freed : BOOLEAN]
  <2>1. a.broken \in BOOLEAN /\ a.freed \in BOOLEAN
    BY <1>1, <1>2
  <2> HIDE DEF a
  <2> QED BY <1>1, <1>3, <2>1
<1> HIDE DEF a
<1>5. CASE e = "readers"
  <2>1. a.count["readers"] = p.count["readers"] - 1 /\ a.count["writers"] = p.count["writers"]
    BY <1>3, <1>5 DEF Ends
  <2>2. /\ a.broken <=> p.broken \/ (p.count["readers"] = 1 /\ p.count["writers"] # 0)
        /\ a.freed <=> p.freed \/ (p.count["readers"] = 1 /\ p.count["writers"] = 0)
    BY <1>1, <1>2, <1>5 DEF other, Breaks
  <2>3. Sound(a, Meets(a, m))
    BY <1>2, <1>4, <1>5, <2>1, <2>2 DEF Sound, Missing, Meets
  <2> QED BY <1>1, <1>2, <2>2, <2>3 DEF a
<1>6. CASE e = "writers"
  <2>1. a.count["writers"] = p.count["writers"] - 1 /\ a.count["readers"] = p.count["readers"]
    BY <1>3, <1>6 DEF Ends
  <2>2. /\ a.broken <=> \/ p.broken
                        \/ p.count["writers"] = 1 /\ p.count["readers"] # 0 /\ ~connless
        /\ a.freed <=> p.freed \/ (p.count["writers"] = 1 /\ p.count["readers"] = 0)
    BY <1>1, <1>2, <1>6 DEF other, Breaks
  <2>3. Sound(a, Meets(a, m))
    BY <1>2, <1>4, <1>6, <2>1, <2>2 DEF Sound, Missing, Meets
  <2> QED BY <1>1, <1>2, <2>2, <2>3 DEF a
<1> QED BY <1>5, <1>6 DEF Ends

-----------------------------------------------------------------------------
(* Who has a reference to end E: the sockets or opens that hold it, and    *)
(* the calls that came in there.                                           *)
Holders(e) == {t \in Threads : ~fifo /\ th[t] # Idle /\ acquired_as(th[t]) = e}

(* The counts are right, and say what becomes of the pipe. *)
Usage ==
  /\ \A e \in Ends : pipe.count[e] = ends[e] + Cardinality(Holders(e))
  /\ Sound(pipe, met)
  /\ fifo => ~connless
  /\ \A t \in Threads : addressed(th[t]) => connless
  /\ fifo => \A t \in Threads : th[t] # Idle => ends[side(th[t])] > 0

LEMMA HoldersFinite ==
  ASSUME NEW e
  PROVE  IsFiniteSet(Holders(e)) /\ Cardinality(Holders(e)) \in Nat
<1>1. IsFiniteSet(Threads)
  BY PipeAssumption, FS_Union DEF Threads
<1>2. Holders(e) \in SUBSET Threads
  BY DEF Holders
<1>3. IsFiniteSet(Holders(e))
  BY <1>1, <1>2, FS_Subset
<1> QED BY <1>3, FS_CardinalityType

Counted ==
  /\ \A e \in Ends : pipe.count[e] \in Nat /\ pipe.count[e] >= ends[e]
  /\ \A e \in Ends : \A t \in Holders(e) : pipe.count[e] > ends[e]
  /\ \A e \in Ends : pipe.count[e] # 0 => ends[e] > 0 \/ Holders(e) # {}
  /\ \A e \in Ends : fifo => pipe.count[e] = ends[e]
  /\ freed <=> \A e \in Ends : ends[e] = 0 /\ Holders(e) = {}

LEMMA InUse == TypeOK /\ Usage => Counted
<1> SUFFICES ASSUME TypeOK, Usage PROVE Counted
  OBVIOUS
<1>0. /\ \A e \in Ends : ends[e] \in Nat
      /\ \A e \in Ends : pipe.count[e] = ends[e] + Cardinality(Holders(e))
  BY DEF TypeOK, Usage
<1>1. ASSUME NEW e \in Ends
      PROVE  /\ Cardinality(Holders(e)) \in Nat
             /\ Cardinality(Holders(e)) = 0 <=> Holders(e) = {}
             /\ fifo => Holders(e) = {}
  <2>1. fifo => Holders(e) = {}
    BY DEF Holders
  <2> QED BY <2>1, HoldersFinite, FS_EmptySet
<1>2. freed <=> \A e \in Ends : pipe.count[e] = 0
  BY DEF Usage, Sound, Ends, freed
<1>3. ASSUME NEW e \in Ends, NEW t \in Holders(e) PROVE pipe.count[e] > ends[e]
  BY <1>0, <1>1
<1>4. \A e \in Ends : pipe.count[e] = 0 <=> ends[e] = 0 /\ Holders(e) = {}
  BY <1>0, <1>1
<1>5. freed <=> \A e \in Ends : ends[e] = 0 /\ Holders(e) = {}
  BY <1>2, <1>4
<1> QED BY <1>0, <1>1, <1>3, <1>5 DEF Counted

(* Thread T enters call C at an end that is open, or goes on with it. *)
Comes(t, c) ==
  /\ addressed(c) => connless
  /\ th[t] = Idle => ends[acquired_as(c)] > 0
  /\ th[t] # Idle => Same(th[t], c)

(* In a step it then leaves, or stays at that end. *)
Moves(t, c, to, wakes) ==
  /\ Comes(t, c)
  /\ to \in Call
  /\ to # Idle => Same(to, c)
  /\ Step(t, c, to, wakes)
  /\ queue' \in Seq(Packet)
  /\ aborted' \in BOOLEAN

LEMMA MoveFacts ==
  ASSUME TypeOK, Usage, NEW t \in Threads, NEW c, NEW to, NEW wakes, Moves(t, c, to, wakes)
  PROVE  LET e == acquired_as(c)
             entered == IF th[t] = Idle /\ ~fifo THEN acquire(pipe, e) ELSE pipe
         IN /\ e \in Ends
            /\ Sound(entered, met)
            /\ ~fifo => entered.count = IF th[t] = Idle THEN [pipe.count EXCEPT ![e] = @ + 1]
                                        ELSE pipe.count
            /\ ~fifo => entered.count[e] > 0
            /\ entered.broken => broken
            /\ fifo => ends[side(c)] > 0
            /\ pipe' = IF to = Idle /\ ~fifo THEN release(entered, e) ELSE entered
            /\ met' = Meets(pipe', met)
            /\ to = Idle /\ ~fifo => bad_news(entered, e) \ {t} \subseteq woken'
            /\ woken \ {t} \subseteq woken' /\ wakes \ {t} \subseteq woken'
            /\ \A u \in Threads : th'[u] = IF u = t THEN to ELSE th[u]
            /\ th' \in [Threads -> Call]
            /\ class' = class /\ fifo' = fifo /\ ends' = ends
<1> DEFINE e == acquired_as(c)
           entered == IF th[t] = Idle /\ ~fifo THEN acquire(pipe, e) ELSE pipe
<1>1. e \in Ends /\ released_as(c) = e
  BY Sides
<1>2. Sound(pipe, met) /\ Meets(pipe, met) = met
  <2>1. Sound(pipe, met)
    BY DEF Usage
  <2>2. met \in BOOLEAN
    BY DEF TypeOK
  <2> QED BY <2>1, <2>2 DEF Sound, Meets
<1>3. pipe.count[e] > 0
  <2>0. ends[e] \in Nat /\ pipe.count[e] \in Nat
    BY <1>1, InUse DEF TypeOK, Counted
  <2>1. CASE th[t] = Idle
    BY <1>1, <2>0, <2>1, InUse DEF Moves, Comes, Counted
  <2>2. CASE th[t] # Idle /\ ~fifo
    <3>1. t \in Holders(e)
      BY <2>2 DEF Moves, Comes, Same, Holders
    <3> QED BY <1>1, <2>0, <3>1, InUse DEF Counted
  <2>3. CASE th[t] # Idle /\ fifo
    <3>1. ends[side(th[t])] > 0 /\ ~connless
      BY <2>3 DEF Usage
    <3>2. e = side(th[t])
      BY <2>3, <3>1, Sides DEF Moves, Comes, Same
    <3> QED BY <1>1, <2>0, <3>1, <3>2, InUse DEF Counted
  <2> QED BY <2>1, <2>2, <2>3
<1>4. fifo => ends[side(c)] > 0
  <2> SUFFICES ASSUME fifo PROVE ends[side(c)] > 0
    OBVIOUS
  <2>1. e = side(c)
    BY Sides DEF Moves, Comes, Usage
  <2>2. pipe.count[e] = ends[e]
    BY <1>1, InUse DEF Counted
  <2> QED BY <1>3, <2>1, <2>2
<1>5. ~freed
  <2>1. freed => pipe.count[e] = 0
    BY <1>1 DEF Usage, Sound, Ends, freed
  <2> QED BY <1>3, <2>1
<1>8. /\ Sound(entered, met)
      /\ ~fifo => entered.count = IF th[t] = Idle THEN [pipe.count EXCEPT ![e] = @ + 1]
                                  ELSE pipe.count
      /\ ~fifo => entered.count[e] > 0
      /\ entered.broken => broken
  <2>1. CASE th[t] = Idle /\ ~fifo
    <3>1. entered = acquire(pipe, e)
      BY <2>1
    <3>2. /\ Sound(entered, Meets(entered, met))
          /\ entered.count = [pipe.count EXCEPT ![e] = @ + 1]
          /\ entered.broken => broken
      <4> HIDE DEF entered, e
      <4> QED BY <1>1, <1>2, <1>5, <3>1, AcquireSound DEF freed, broken
    <3>3. pipe.count \in [Ends -> Nat]
      BY <1>2 DEF Sound
    <3> HIDE DEF entered, e
    <3>4. entered.count[e] > 0 /\ \A f \in Ends : entered.count[f] > 0 => pipe.count[f] > 0
      BY <1>1, <1>3, <3>2, <3>3
    <3>5. Meets(entered, met) = met
      <4>1. Meets(entered, met) => met
        BY <1>2, <3>4 DEF Meets, Sound, Ends
      <4>2. met => Meets(entered, met)
        BY DEF Meets
      <4>3. met \in BOOLEAN /\ Meets(entered, met) \in BOOLEAN
        BY DEF TypeOK, Meets
      <4> QED BY <4>1, <4>2, <4>3
    <3> QED BY <2>1, <3>2, <3>4, <3>5
  <2>2. CASE ~(th[t] = Idle /\ ~fifo)
    <3>1. entered = pipe
      BY <2>2
    <3> HIDE DEF entered, e
    <3> QED BY <1>2, <1>3, <2>2, <3>1 DEF broken
  <2> QED BY <2>1, <2>2
<1>9. /\ pipe' = IF to = Idle /\ ~fifo THEN release(entered, e) ELSE entered
      /\ met' = Meets(pipe', met)
      /\ woken' = (woken \cup wakes
                     \cup IF to = Idle /\ ~fifo THEN bad_news(entered, e) ELSE {}) \ {t}
      /\ th' = [th EXCEPT ![t] = to]
      /\ class' = class /\ fifo' = fifo /\ ends' = ends
  BY <1>1 DEF Moves, Comes, Step, Becomes, Meets
<1>10. th \in [Threads -> Call] /\ to \in Call
  BY DEF TypeOK, Moves, Comes
<1>11. th' \in [Threads -> Call] /\ \A u \in Threads : th'[u] = IF u = t THEN to ELSE th[u]
  <2> HIDE DEF Call
  <2> QED BY <1>9, <1>10
<1> HIDE DEF entered, e
<1> QED BY <1>1, <1>4, <1>8, <1>9, <1>11 DEF entered, e

(* Such a step keeps the counts right. *)
LEMMA MoveUsage ==
  ASSUME TypeOK, Usage, NEW t \in Threads, NEW c, NEW to, NEW wakes, Moves(t, c, to, wakes)
  PROVE  TypeOK' /\ Usage'
<1> DEFINE e == acquired_as(c)
           entered == IF th[t] = Idle /\ ~fifo THEN acquire(pipe, e) ELSE pipe
<1>1. /\ e \in Ends
      /\ Sound(entered, met)
      /\ ~fifo => entered.count = IF th[t] = Idle THEN [pipe.count EXCEPT ![e] = @ + 1]
                                  ELSE pipe.count
      /\ ~fifo => entered.count[e] > 0
      /\ fifo => ends[side(c)] > 0
      /\ pipe' = IF to = Idle /\ ~fifo THEN release(entered, e) ELSE entered
      /\ met' = Meets(pipe', met)
      /\ \A u \in Threads : th'[u] = IF u = t THEN to ELSE th[u]
      /\ th' \in [Threads -> Call]
      /\ class' = class /\ fifo' = fifo /\ ends' = ends
  BY MoveFacts
<1>0. fifo => entered = pipe
  OBVIOUS
<1>2. /\ addressed(c) => connless
      /\ th[t] # Idle => Same(th[t], c)
      /\ to # Idle => Same(to, c)
  BY DEF Moves, Comes
<1> HIDE DEF entered
<1>3. Sound(pipe', met')
  <2>1. CASE to = Idle /\ ~fifo
    <3>1. pipe' = release(entered, e)
      BY <1>1, <2>1
    <3> HIDE DEF e
    <3>2. Sound(release(entered, e), Meets(release(entered, e), met))
      BY <1>1, <2>1, ReleaseSound
    <3> QED BY <1>1, <3>1, <3>2
  <2>2. CASE ~(to = Idle /\ ~fifo)
    <3>1. pipe' = entered
      BY <1>1, <2>2
    <3>2. Meets(entered, met) = met
      BY <1>1 DEF Sound, Meets
    <3> QED BY <1>1, <3>1, <3>2
  <2> QED BY <2>1, <2>2
<1>4. Sound(pipe, met)'
  <2>1. connless' = connless
    BY <1>1 DEF connless
  <2> QED BY <1>1, <1>3, <2>1 DEF Sound, Missing
<1>5. pipe'.count = IF fifo \/ (th[t] = Idle <=> to = Idle) THEN pipe.count
                    ELSE IF th[t] = Idle THEN [pipe.count EXCEPT ![e] = @ + 1]
                    ELSE [pipe.count EXCEPT ![e] = @ - 1]
  <2>0. pipe.count \in [Ends -> Nat]
    BY DEF Usage, Sound
  <2>1. CASE fifo
    BY <1>0, <1>1, <2>1
  <2>2. CASE ~fifo /\ to # Idle
    BY <1>1, <2>2
  <2>3. CASE ~fifo /\ to = Idle
    <3>1. pipe'.count = [entered.count EXCEPT ![e] = @ - 1]
      <4> HIDE DEF e
      <4> QED BY <1>1, <2>3, ReleaseSound
    <3> HIDE DEF e
    <3>2. CASE th[t] = Idle
      <4>1. [[pipe.count EXCEPT ![e] = @ + 1] EXCEPT ![e] = @ - 1] = pipe.count
        BY <1>1, <2>0
      <4> QED BY <1>1, <2>3, <3>1, <3>2, <4>1
    <3>3. CASE th[t] # Idle
      BY <1>1, <2>3, <3>1, <3>3
    <3> QED BY <3>2, <3>3
  <2> QED BY <2>1, <2>2, <2>3
<1>6. ASSUME NEW f \in Ends
      PROVE  pipe'.count[f] = ends[f] + Cardinality(Holders(f)')
  <2> DEFINE H == Holders(f)
             K == Holders(f)'
  <2>0. /\ IsFiniteSet(H) /\ Cardinality(H) \in Nat /\ ends[f] \in Nat
        /\ pipe.count[f] = ends[f] + Cardinality(H)
        /\ pipe.count \in [Ends -> Nat]
    BY HoldersFinite DEF Usage, TypeOK, Sound
  <2>1. \A u : u \in H <=> u \in Threads /\ ~fifo /\ th[u] # Idle /\ acquired_as(th[u]) = f
    BY DEF Holders
  <2>2. \A u : u \in K <=> u \in Threads /\ ~fifo /\ th'[u] # Idle /\ acquired_as(th'[u]) = f
    <3>1. K = {u \in Threads : ~fifo' /\ th'[u] # Idle /\ acquired_as(th'[u]) = f}
      BY DEF Holders, acquired_as, addressed, side
    <3> QED BY <1>1, <3>1
  <2>3. \A u : u # t => (u \in K <=> u \in H)
    BY <1>1, <2>1, <2>2
  <2>4. t \in H <=> ~fifo /\ th[t] # Idle /\ f = e
    BY <1>2, <2>1 DEF Same
  <2>5. t \in K <=> ~fifo /\ to # Idle /\ f = e
    BY <1>1, <1>2, <2>2 DEF Same
  <2> HIDE DEF H, K, e
  <2>6. CASE t \in H <=> t \in K
    <3>1. H = K
      BY <2>3, <2>6
    <3>2. pipe'.count[f] = pipe.count[f]
      BY <1>1, <1>5, <2>0, <2>4, <2>5, <2>6
    <3> QED BY <2>0, <3>1, <3>2 DEF K
  <2>7. CASE t \notin H /\ t \in K
    <3>1. K = H \cup {t}
      BY <2>3, <2>7
    <3>2. Cardinality(K) = Cardinality(H) + 1
      BY <2>0, <2>7, <3>1, FS_AddElement
    <3>3. pipe'.count[f] = pipe.count[f] + 1
      BY <1>1, <1>5, <2>0, <2>4, <2>5, <2>7
    <3> QED BY <2>0, <3>2, <3>3 DEF K
  <2>8. CASE t \in H /\ t \notin K
    <3>1. K = H \ {t}
      BY <2>3, <2>8
    <3>2. Cardinality(K) = Cardinality(H) - 1
      BY <2>0, <2>8, <3>1, FS_RemoveElement
    <3>3. pipe'.count[f] = pipe.count[f] - 1
      BY <1>1, <1>5, <2>0, <2>4, <2>5, <2>8
    <3> QED BY <2>0, <3>2, <3>3 DEF K
  <2> QED BY <2>6, <2>7, <2>8
<1>7. Usage'
  <2>1. \A f \in Ends : (pipe.count[f] = ends[f] + Cardinality(Holders(f)))'
    BY <1>1, <1>6
  <2>2. (fifo => ~connless)'
    BY <1>1 DEF Usage, connless
  <2>3. ASSUME NEW u \in Threads PROVE (addressed(th[u]) => connless)'
    <3>1. connless' = connless /\ addressed(th[u])' = addressed(th'[u])
      BY <1>1 DEF connless, addressed
    <3>2. CASE u # t
      BY <1>1, <3>1, <3>2 DEF Usage
    <3>3. CASE u = t
      <4>1. addressed(to) => addressed(c)
        <5>1. CASE to = Idle
          BY <5>1 DEF addressed, Idle
        <5>2. CASE to # Idle
          BY <1>2, <5>2, Sides DEF Same
        <5> QED BY <5>1, <5>2
      <4> QED BY <1>1, <1>2, <3>1, <3>3, <4>1
    <3> QED BY <3>2, <3>3
  <2>4. ASSUME fifo, NEW u \in Threads, th'[u] # Idle
        PROVE  ends[side(th'[u])] > 0
    <3>1. CASE u # t
      BY <1>1, <2>4, <3>1 DEF Usage
    <3>2. CASE u = t
      BY <1>1, <1>2, <2>4, <3>2 DEF Same
    <3> QED BY <3>1, <3>2
  <2>5. \A u \in Threads : side(th[u])' = side(th'[u])
    BY DEF side
  <2> QED BY <1>1, <1>4, <2>1, <2>2, <2>3, <2>4, <2>5 DEF Usage
<1>8. TypeOK'
  <2>1. pipe' \in [count : [Ends -> Int], broken : BOOLEAN, freed : BOOLEAN] /\ met' \in BOOLEAN
    BY <1>3 DEF Sound
  <2> QED BY <1>1, <2>1 DEF TypeOK, Moves, Comes
<1> QED BY <1>7, <1>8

-----------------------------------------------------------------------------
(* What a call sleeps for, with queue Q. *)
Cause(c, q) ==
  /\ c.pc = "rwait" => ~pipe_is_readable(q, c.data_only)
  /\ c.pc = "wwait" => ~writable_amount(q, amount(c))
  /\ c.pc = "wsel" => ~(pipe_readable(q) < write_limit)
  /\ c.pc = "rsel" => ~pipe_is_readable(q, TRUE)

Noting == \E u \in Threads : th[u].pc = "wnote"

(* SleepersHaveCause, in these words. *)
Caused ==
  \A t \in Threads : Asleep(t) =>
    /\ ~broken
    /\ Cause(th[t], queue) \/ (th[t].pc = "rsel" /\ Noting)

(* A step that tells those who sleep what they wait for: readers when      *)
(* there may be more to read, writers when there may be less, and selects  *)
(* then or, by a writer that keeps its place in the pipe, later.           *)
Tells(t, to, wakes) ==
  /\ to.pc \in SleepPcs => ~broken /\ Cause(to, queue')
  /\ \/ \A d : pipe_is_readable(queue', d) => pipe_is_readable(queue, d)
     \/ pending_reads \subseteq wakes
  /\ \/ pipe_readable(queue) <= pipe_readable(queue')
     \/ pending_writes \subseteq wakes
  /\ \/ to.pc = "wnote"
     \/ pending_read_selects \subseteq wakes
     \/ ~pipe_is_readable(queue', TRUE)
     \/ /\ th[t].pc # "wnote"
        /\ pipe_is_readable(queue', TRUE) => pipe_is_readable(queue, TRUE)

(* Whoever is not told of the end of the users at E is one of them. *)
LEMMA NotTold ==
  ASSUME TypeOK, Usage, NEW u \in Threads, th[u].pc \in SleepPcs,
         NEW p, NEW e \in Ends, Breaks(p, e), u \notin bad_news(p, e)
  PROVE  acquired_as(th[u]) = e /\ side(th[u]) = e
<1>1. p.count[e] = 1 /\ p.count[other(e)] # 0 /\ (e = "readers" \/ ~connless)
  BY DEF Breaks
<1>2. CASE e = "readers"
  <2>1. u \notin pending_writes
    BY <1>1, <1>2 DEF bad_news
  <2>2. th[u].pc \in {"rwait", "rsel"}
    BY <2>1 DEF pending_writes, waiting, SleepPcs
  <2> QED BY <1>2, <2>2 DEF side, acquired_as, addressed
<1>3. CASE e = "writers"
  <2>1. u \notin pending_reads \cup pending_read_selects /\ ~connless
    BY <1>1, <1>3 DEF bad_news
  <2>2. th[u].pc \in {"wwait", "wsel"}
    BY <2>1 DEF pending_reads, pending_read_selects, waiting, SleepPcs
  <2>3. ~addressed(th[u])
    BY <2>1 DEF Usage
  <2> QED BY <1>3, <2>2, <2>3 DEF side, acquired_as
<1> QED BY <1>2, <1>3 DEF Ends

LEMMA MoveWakes ==
  ASSUME TypeOK, Usage, Caused, NEW t \in Threads, NEW c, NEW to, NEW wakes,
         Moves(t, c, to, wakes), Tells(t, to, wakes)
  PROVE  Caused'
<1> DEFINE e == acquired_as(c)
           entered == IF th[t] = Idle /\ ~fifo THEN acquire(pipe, e) ELSE pipe
<1>1. TypeOK' /\ Usage'
  BY MoveUsage
<1>2. Counted'
  BY <1>1, InUse, PTL
<1>3. /\ e \in Ends /\ Sound(entered, met)
      /\ ~fifo => entered.count[e] > 0
      /\ entered.broken => broken
      /\ pipe' = IF to = Idle /\ ~fifo THEN release(entered, e) ELSE entered
      /\ to = Idle /\ ~fifo => bad_news(entered, e) \ {t} \subseteq woken'
      /\ woken \ {t} \subseteq woken' /\ wakes \ {t} \subseteq woken'
      /\ class' = class /\ fifo' = fifo /\ ends' = ends
  BY MoveFacts
<1>4. \A u \in Threads : th'[u] = IF u = t THEN to ELSE th[u]
  BY MoveFacts
<1> HIDE DEF e, entered
<1>5. /\ queue \in Seq(Packet) /\ queue' \in Seq(Packet)
      /\ pipe_readable(queue) \in Nat /\ pipe_readable(queue') \in Nat
  BY BytesFinite DEF Moves, TypeOK
<1>7. stream' = stream /\ write_limit \in Nat
  BY <1>3, PipeAssumption DEF stream
<1>8. ASSUME NEW u \in Threads, Asleep(u)', u # t
      PROVE  /\ ~broken'
             /\ Cause(th[u], queue)' \/ (th'[u].pc = "rsel" /\ Noting')
  <2>1. /\ th'[u] = th[u] /\ u \notin woken' /\ u \notin woken /\ u \notin wakes
        /\ (to = Idle /\ ~fifo => u \notin bad_news(entered, e)) /\ th[u].pc \in SleepPcs
    BY <1>3, <1>4, <1>8 DEF Asleep, SleepPcs
  <2>2. Asleep(u)
    BY <2>1 DEF Asleep, SleepPcs
  <2>3. ~broken /\ (Cause(th[u], queue) \/ (th[u].pc = "rsel" /\ Noting))
    BY <2>2 DEF Caused
  <2>6. ~broken'
    <3> SUFFICES ASSUME broken' PROVE FALSE
      OBVIOUS
    <3>1. /\ to = Idle /\ ~fifo /\ pipe' = release(entered, e)
          /\ entered.count[e] > 0 /\ u \notin bad_news(entered, e)
      BY <1>3, <2>1, <2>3 DEF broken
    <3>2. /\ Breaks(entered, e)
          /\ pipe'.count = [entered.count EXCEPT ![e] = @ - 1]
      BY <1>3, <2>3, <3>1, ReleaseSound DEF broken
    <3>3. pipe'.count[e] = 0
      <4>1. entered.count \in [Ends -> Nat] /\ entered.count[e] = 1
        BY <1>3, <3>2 DEF Sound, Breaks
      <4> QED BY <1>3, <3>2, <4>1
    <3>4. acquired_as(th[u]) = e
      BY <1>3, <2>1, <3>1, <3>2, NotTold
    <3>5. u \in Holders(e)'
      <4>1. th'[u] # Idle
        BY <2>1 DEF SleepPcs, Idle
      <4>2. acquired_as(th[u])' = acquired_as(th'[u]) /\ ~fifo'
        BY <1>3, <3>1 DEF acquired_as, addressed, side
      <4> QED BY <2>1, <3>4, <4>1, <4>2 DEF Holders
    <3>6. pipe'.count[e] > ends'[e] /\ ends'[e] \in Nat
      BY <1>1, <1>2, <1>3, <3>5 DEF Counted, TypeOK
    <3> QED BY <3>3, <3>6
  <2>7. CASE th[u].pc = "rwait"
    <3>1. u \in pending_reads
      BY <2>7 DEF pending_reads, waiting
    <3>2. ~pipe_is_readable(queue, th[u].data_only)
      BY <2>3, <2>7 DEF Cause
    <3>3. ~pipe_is_readable(queue', th[u].data_only)
      BY <2>1, <3>1, <3>2 DEF Tells
    <3>4. Cause(th[u], queue)'
      BY <2>1, <2>7, <3>3 DEF Cause, pipe_is_readable
    <3> QED BY <2>6, <3>4
  <2>8. CASE th[u].pc \in {"wwait", "wsel"}
    <3>1. u \in pending_writes
      BY <2>8 DEF pending_writes, waiting
    <3>2. pipe_readable(queue) <= pipe_readable(queue')
      BY <2>1, <3>1 DEF Tells
    <3>3. Cause(th[u], queue)
      BY <2>3, <2>8
    <3>4. Cause(th[u], queue)'
      <4>1. CASE th[u].pc = "wsel"
        <5>1. ~(pipe_readable(queue') < write_limit)
          BY <1>5, <1>7, <3>2, <3>3, <4>1 DEF Cause
        <5> QED BY <2>1, <4>1, <5>1 DEF Cause, pipe_readable, bytes
      <4>2. CASE th[u].pc = "wwait"
        <5>1. amount(th[u]) \in Nat /\ amount(th[u])' = amount(th[u])
          <6>1. th[u] \in WaitingWrite
            BY <4>2, CallFacts DEF TypeOK
          <6>2. th[u].todo \in Nat
            BY <6>1 DEF WaitingWrite, WriteCall
          <6> QED BY <1>7, <2>1, <6>2 DEF amount
        <5>2. ~writable_amount(queue', amount(th[u]))
          BY <1>5, <1>7, <3>2, <3>3, <4>2, <5>1 DEF Cause, writable_amount
        <5>3. ~writable_amount(queue, amount(th[u]))'
          BY <5>1, <5>2 DEF writable_amount, pipe_readable, bytes
        <5> QED BY <2>1, <4>2, <5>3 DEF Cause
      <4> QED BY <2>8, <4>1, <4>2
    <3> QED BY <2>6, <3>4
  <2>9. CASE th[u].pc = "rsel"
    <3>1. u \in pending_read_selects
      BY <2>9 DEF pending_read_selects, waiting
    <3>2. Noting' \/ ~pipe_is_readable(queue', TRUE)
      <4>1. CASE to.pc = "wnote"
        BY <1>4, <4>1 DEF Noting
      <4>2. CASE ~pipe_is_readable(queue', TRUE)
        BY <4>2
      <4>3. CASE /\ th[t].pc # "wnote"
                 /\ pipe_is_readable(queue', TRUE) => pipe_is_readable(queue, TRUE)
        <5>1. Noting => Noting'
          BY <1>4, <4>3 DEF Noting
        <5> QED BY <2>3, <2>9, <4>3, <5>1 DEF Cause
      <4> QED BY <2>1, <3>1, <4>1, <4>2, <4>3 DEF Tells
    <3>3. ~pipe_is_readable(queue', TRUE) => Cause(th[u], queue)'
      BY <2>1, <2>9 DEF Cause, pipe_is_readable
    <3> QED BY <2>1, <2>6, <2>9, <3>2, <3>3
  <2> QED BY <2>1, <2>7, <2>8, <2>9 DEF SleepPcs
<1>9. ASSUME Asleep(t)'
      PROVE  ~broken' /\ Cause(th[t], queue)'
  <2>1. th'[t] = to /\ to.pc \in SleepPcs
    BY <1>4, <1>9 DEF Asleep, SleepPcs
  <2>2. ~broken /\ Cause(to, queue')
    BY <2>1 DEF Tells
  <2>3. Cause(th[t], queue)'
    <3>1. Cause(to, queue') = Cause(to, queue)'
      BY <1>7 DEF Cause, pipe_is_readable, writable_amount, amount, pipe_readable, bytes
    <3> QED BY <2>1, <2>2, <3>1 DEF Cause, pipe_is_readable, writable_amount, amount,
                                    pipe_readable, bytes
  <2>4. ~broken'
    <3>1. to # Idle
      BY <2>1 DEF SleepPcs, Idle
    <3> QED BY <1>3, <2>2, <3>1 DEF broken
  <2> QED BY <2>3, <2>4
<1> QED BY <1>8, <1>9 DEF Caused

-----------------------------------------------------------------------------
(* Control data is sent on stream pipes only, and what is in the queue is  *)
(* in order: what RecordControl = FALSE is about.                          *)
ControlOnStreams == \A t \in Threads : th[t].pc = "wwait" /\ th[t].control => stream

Ordered == ~RecordControl /\ DataBehindControl(queue) /\ ControlOnStreams

Keeps(to) ==
  /\ DataBehindControl(queue')
  /\ aborted' = aborted
  /\ to.pc = "wwait" /\ to.control => stream

(* Thread T makes a step, and with the queue in order it keeps it so and   *)
(* tells whom it has to.                                                   *)
Goes(t) ==
  \E c, to, wakes : /\ Moves(t, c, to, wakes)
                    /\ Ordered => Tells(t, to, wakes) /\ Keeps(to)

LEMMA GoesOn ==
  ASSUME Usage, NEW t \in Threads, th[t] # Idle
  PROVE  Comes(t, th[t])
BY DEF Comes, Usage, Same

(* Calls at the same end. *)
LEMMA SameWrites ==
  ASSUME NEW c, NEW d, c.pc \in {"wwait", "wnote"}, d.pc \in {"wwait", "wnote"},
         c.addressed = d.addressed
  PROVE  Same(c, d)
BY DEF Same, acquired_as, addressed, side

LEMMA SameReads ==
  ASSUME NEW c, NEW d, c.pc \in ReadPcs, d.pc \in ReadPcs
  PROVE  Same(c, d) /\ acquired_as(c) = "readers" /\ ~addressed(c)
BY DEF Same, acquired_as, addressed, side, ReadPcs

LEMMA IdleCall == Idle \in Call /\ Idle.pc = "idle"
BY DEF Idle, Call

(* A step that leaves the queue as it is. *)
LEMMA StillGoes ==
  ASSUME TypeOK, NEW t \in Threads, NEW c, NEW to \in Call, NEW wakes,
         Comes(t, c), to # Idle => Same(to, c),
         Step(t, c, to, wakes), queue' = queue, aborted' = aborted,
         to.pc \in SleepPcs => ~broken /\ Cause(to, queue),
         th[t].pc = "wnote" => \/ to.pc = "wnote"
                               \/ pending_read_selects \subseteq wakes
                               \/ ~pipe_is_readable(queue, TRUE),
         Ordered => (to.pc = "wwait" /\ to.control => stream)
  PROVE  Goes(t)
<1>1. Moves(t, c, to, wakes)
  BY DEF Moves, TypeOK
<1>2. pipe_readable(queue) <= pipe_readable(queue')
  BY BytesFinite DEF TypeOK
<1>3. Tells(t, to, wakes)
  BY <1>2 DEF Tells
<1>4. Ordered => Keeps(to)
  BY DEF Ordered, Keeps
<1> QED BY <1>1, <1>3, <1>4 DEF Goes

LEMMA WriteGoes ==
  ASSUME TypeOK, NEW t \in Threads, NEW w \in WriteCall, NEW wakes,
         w.todo > 0,
         w.first => writable_amount(queue, 1),
         ~w.first => ~w.noblock /\ ~w.control,
         write_piece(t, w, wakes), aborted' = aborted,
         w.pc \in {"wwait", "wnote"}, Comes(t, w),
         th[t].pc = "wnote" => \/ pending_read_selects \subseteq wakes
                               \/ ~pipe_is_readable(queue, TRUE),
         Ordered => (w.control => stream)
  PROVE  Goes(t)
<1>1. /\ queue' \in Seq(Packet)
      /\ pipe_readable(queue) <= pipe_readable(queue')
      /\ (w.control => stream) /\ DataBehindControl(queue) => DataBehindControl(queue')
  BY WritePiece
<1>2. ASSUME queue' = queue, Step(t, w, Idle, wakes) PROVE Goes(t)
  BY <1>2, IdleCall, StillGoes DEF SleepPcs
<1>3. ASSUME queue' = queue \/ ~(w.control => stream), Step(t, w, Idle, wakes)
      PROVE  Goes(t)
  <2>1. CASE queue' = queue
    BY <1>2, <1>3, <2>1
  <2>2. CASE ~Ordered
    <3>1. Moves(t, w, Idle, wakes)
      BY <1>1, <1>3, IdleCall DEF Moves, TypeOK
    <3> QED BY <2>2, <3>1 DEF Goes
  <2> QED BY <1>3, <2>1, <2>2
<1>4. ASSUME NEW to \in NotingWrite, Step(t, w, to, wakes \cup pending_reads),
             to.addressed = w.addressed
      PROVE  Goes(t)
  <2>1. to \in Call /\ to.pc = "wnote" /\ Same(to, w)
    <3>1. to \in Call /\ to.pc = "wnote"
      BY DEF Call, NotingWrite
    <3> QED BY <1>4, <3>1, SameWrites
  <2>2. Moves(t, w, to, wakes \cup pending_reads)
    BY <1>1, <1>4, <2>1 DEF Moves, TypeOK
  <2>3. Tells(t, to, wakes \cup pending_reads)
    BY <1>1, <2>1 DEF Tells, SleepPcs
  <2>4. Ordered => Keeps(to)
    BY <1>1, <2>1 DEF Ordered, Keeps
  <2> QED BY <2>2, <2>3, <2>4 DEF Goes
<1>5. ASSUME queue' = queue \/ ~(w.control => stream), ~broken,
             NEW to \in WaitingWrite, Step(t, w, to, wakes), ~to.first,
             to.addressed = w.addressed,
             ~writable_amount(queue', amount(to))
      PROVE  Goes(t)
  <2>1. to \in Call /\ to.pc = "wwait" /\ ~to.control /\ Same(to, w)
    <3>1. to \in Call /\ to.pc = "wwait" /\ ~to.control
      BY <1>5 DEF Call, WaitingWrite
    <3> QED BY <1>5, <3>1, SameWrites
  <2>2. CASE queue' = queue
    <3>1. Cause(to, queue)
      BY <1>5, <2>1, <2>2 DEF Cause
    <3> QED BY <1>5, <2>1, <2>2, <3>1, StillGoes
  <2>3. CASE ~Ordered
    <3>1. Moves(t, w, to, wakes)
      BY <1>1, <1>5, <2>1 DEF Moves, TypeOK
    <3> QED BY <2>3, <3>1 DEF Goes
  <2> QED BY <1>5, <2>2, <2>3
<1> QED BY <1>2, <1>3, <1>4, <1>5, WritePiece

-----------------------------------------------------------------------------
(* The operations. *)
LEMMA SendGoes ==
  ASSUME TypeOK, NEW t \in Threads, NEW w \in WriteCalls, pipe_send(t, w)
  PROVE  Goes(t)
<1>1. /\ w.todo \in Nat /\ w.todo > 0 /\ w.first = TRUE /\ w.pc = "wwait"
      /\ w.control \in BOOLEAN /\ w.noblock \in BOOLEAN /\ w.addressed \in BOOLEAN
      /\ w \in WriteCall
      /\ (Ordered => (w.control => stream)) /\ (w.addressed => connless)
  <2>1. \A len \in Lens : len \in Nat /\ len > 0
    BY PipeAssumption DEF Lens
  <2> QED BY <2>1 DEF WriteCalls, WriteCall, Ordered
<1>2. /\ th[t] = Idle /\ ends[acquired_as(w)] > 0 /\ ~broken /\ aborted' = aborted
      /\ \/ writable_amount(queue, 1) /\ write_piece(t, w, {})
         \/ /\ ~writable_amount(queue, 1) /\ ~w.noblock
            /\ Step(t, w, w, {}) /\ queue' = queue
  BY DEF pipe_send
<1>3. Comes(t, w) /\ th[t].pc = "idle"
  BY <1>1, <1>2, IdleCall DEF Comes, addressed
<1>4. CASE writable_amount(queue, 1) /\ write_piece(t, w, {})
  BY <1>1, <1>2, <1>3, <1>4, WriteGoes
<1>5. CASE ~writable_amount(queue, 1) /\ ~w.noblock /\ Step(t, w, w, {}) /\ queue' = queue
  <2>1. w \in Call
    BY <1>1, <1>5 DEF Call, WaitingWrite
  <2>2. Cause(w, queue)
    BY <1>1, <1>5 DEF Cause, amount
  <2> QED BY <1>1, <1>2, <1>3, <1>5, <2>1, <2>2, StillGoes DEF Same
<1> QED BY <1>2, <1>4, <1>5

LEMMA SendResumeGoes ==
  ASSUME TypeOK, Usage, NEW t \in Threads, send_resume(t)
  PROVE  Goes(t)
<1>1. th[t].pc = "wwait" /\ th[t] \in Call /\ aborted' = aborted
  BY DEF send_resume, TypeOK
<1>2. th[t] \in WaitingWrite
  BY <1>1, CallFacts
<1>3. /\ th[t] \in WriteCall /\ th[t].todo > 0 /\ ~th[t].noblock
      /\ (th[t].control => th[t].first) /\ th[t].first \in BOOLEAN
  BY <1>2 DEF WaitingWrite, WriteCall
<1>4. Ordered => (th[t].control => stream)
  BY <1>1 DEF Ordered, ControlOnStreams
<1>5. Comes(t, th[t]) /\ Same(th[t], th[t])
  BY <1>1, GoesOn, IdleCall DEF Same
<1>6. CASE broken /\ Step(t, th[t], Idle, {}) /\ queue' = queue
  BY <1>1, <1>5, <1>6, IdleCall, StillGoes DEF SleepPcs
<1>7. CASE /\ ~broken /\ ~writable_amount(queue, amount(th[t]))
           /\ Step(t, th[t], th[t], {}) /\ queue' = queue
  <2>1. Cause(th[t], queue)
    BY <1>1, <1>7 DEF Cause
  <2> QED BY <1>1, <1>4, <1>5, <1>7, <2>1, StillGoes
<1>8. CASE ~broken /\ writable_amount(queue, amount(th[t])) /\ write_piece(t, th[t], {})
  <2>1. th[t].first => writable_amount(queue, 1)
    BY <1>8 DEF amount
  <2> QED BY <1>1, <1>3, <1>4, <1>5, <1>8, <2>1, WriteGoes
<1> QED BY <1>6, <1>7, <1>8 DEF send_resume

LEMMA SendNoteGoes ==
  ASSUME TypeOK, Usage, NEW t \in Threads, send_note(t)
  PROVE  Goes(t)
<1> DEFINE selects == IF pipe_is_readable(queue, FALSE) THEN pending_read_selects
                      ELSE {}
<1>1. /\ th[t].pc = "wnote" /\ th[t] \in Call /\ aborted' = aborted
      /\ IF th[t].noblock \/ th[t].todo = 0
           THEN Step(t, th[t], Idle, selects) /\ queue' = queue
           ELSE write_piece(t, th[t], selects)
  BY DEF send_note, TypeOK
<1>2. th[t] \in NotingWrite
  BY <1>1, CallFacts
<1>3. th[t] \in WriteCall /\ ~th[t].first /\ ~th[t].control /\ th[t].todo \in Nat
  BY <1>2 DEF NotingWrite, WriteCall
<1>4. pending_read_selects \subseteq selects \/ ~pipe_is_readable(queue, TRUE)
  BY DEF pipe_is_readable
<1> HIDE DEF selects
<1>5. Comes(t, th[t])
  BY <1>1, GoesOn, IdleCall
<1>6. CASE th[t].noblock \/ th[t].todo = 0
  BY <1>1, <1>4, <1>5, <1>6, IdleCall, StillGoes DEF SleepPcs
<1>7. CASE ~th[t].noblock /\ th[t].todo # 0
  <2>1. th[t].todo > 0
    BY <1>3, <1>7
  <2> QED BY <1>1, <1>3, <1>4, <1>5, <1>7, <2>1, WriteGoes
<1> QED BY <1>6, <1>7

(* A read, with R what it asks for. *)
LEMMA ReadGoes ==
  ASSUME TypeOK, NEW t \in Threads, NEW r \in ReadCall, Comes(t, r),
         \/ ready(r) /\ read_packet(t, r)
         \/ ~ready(r) /\ Step(t, r, r, {}) /\ UNCHANGED <<queue, aborted>>,
         th[t].pc \in {"idle", "rwait"}
  PROVE  Goes(t)
<1>1. r \in Call /\ r.pc = "rwait"
  BY DEF Call, ReadCall
<1>2. th[t].pc # "wnote"
  OBVIOUS
<1>3. CASE ~ready(r) /\ Step(t, r, r, {}) /\ UNCHANGED <<queue, aborted>>
  <2>1. ~broken /\ Cause(r, queue)
    BY <1>1, <1>3 DEF ready, Cause
  <2>2. r.pc # "wwait" /\ Same(r, r)
    BY <1>1 DEF Same
  <2> QED BY <1>1, <1>2, <1>3, <2>1, <2>2, StillGoes
<1>4. CASE read_packet(t, r)
  <2>0. queue \in Seq(Packet) /\ queue' \in Seq(Packet) /\ Suffix(queue', queue)
        /\ aborted' \in BOOLEAN
    BY <1>4, ReadPacket DEF TypeOK
  <2>1. /\ \A d : pipe_is_readable(queue', d) => pipe_is_readable(queue, d)
        /\ DataBehindControl(queue) => DataBehindControl(queue')
    BY <2>0, SuffixProperties
  <2>2. ASSUME NEW to \in [pc : {"idle", "rnote"}], NEW wakes, Step(t, r, to, wakes),
               Ordered => /\ aborted' = aborted
                          /\ \/ pending_writes \subseteq wakes
                             \/ pipe_readable(queue) <= pipe_readable(queue')
        PROVE  Goes(t)
    <3>1. to \in Call /\ to.pc \notin SleepPcs /\ to.pc # "wwait"
      BY DEF Call, SleepPcs
    <3>2. to # Idle => Same(to, r)
      BY <1>1, SameReads DEF ReadPcs, Idle
    <3>3. Moves(t, r, to, wakes)
      BY <2>0, <2>2, <3>1, <3>2 DEF Moves
    <3>4. Ordered => Tells(t, to, wakes)
      BY <1>2, <2>1, <2>2, <3>1 DEF Tells
    <3>5. Ordered => Keeps(to)
      BY <2>1, <2>2, <3>1 DEF Ordered, Keeps
    <3> QED BY <3>3, <3>4, <3>5 DEF Goes
  <2>3. Idle \in [pc : {"idle", "rnote"}] /\ [pc |-> "rnote"] \in [pc : {"idle", "rnote"}]
    BY DEF Idle
  <2>4. /\ Step(t, r, [pc |-> "rnote"], pending_writes) \/ Step(t, r, Idle, {})
        /\ Ordered =>
              /\ aborted' = aborted
              /\ \/ Step(t, r, [pc |-> "rnote"], pending_writes)
                 \/ /\ Step(t, r, Idle, {})
                    /\ pipe_readable(queue) <= pipe_readable(queue')
    BY <1>4, ReadPacket DEF Ordered
  <2>5. CASE Step(t, r, [pc |-> "rnote"], pending_writes)
    BY <2>2, <2>3, <2>4, <2>5
  <2>6. CASE ~Step(t, r, [pc |-> "rnote"], pending_writes)
    BY <2>2, <2>3, <2>4, <2>6
  <2> QED BY <2>5, <2>6
<1> QED BY <1>3, <1>4

LEMMA SelectGoes ==
  ASSUME TypeOK, NEW t \in Threads, NEW pc \in {"rsel", "wsel"}, pipe_select(t, pc)
  PROVE  Goes(t)
<1> DEFINE to == [pc |-> pc]
<1>1. to \in Call /\ to.pc = pc
  BY DEF Call
<1>2. /\ th[t] = Idle /\ ends[side(to)] > 0 /\ ~select_ready(pc)
      /\ Step(t, to, to, {}) /\ queue' = queue /\ aborted' = aborted
  BY DEF pipe_select
<1>3. ~broken /\ Cause(to, queue)
  BY <1>2 DEF select_ready, Cause
<1>4. Comes(t, to) /\ Same(to, to)
  BY <1>1, <1>2 DEF Comes, Same, acquired_as, addressed
<1>5. to.pc # "wwait" /\ th[t].pc # "wnote"
  BY <1>2, IdleCall
<1> HIDE DEF to
<1> QED BY <1>1, <1>2, <1>3, <1>4, <1>5, StillGoes

LEMMA SelectResumeGoes ==
  ASSUME TypeOK, Usage, NEW t \in Threads, select_resume(t)
  PROVE  Goes(t)
<1>1. /\ th[t] \in Call /\ th[t].pc \in {"rsel", "wsel"}
      /\ queue' = queue /\ aborted' = aborted
      /\ Step(t, th[t], IF select_ready(th[t].pc) THEN Idle ELSE th[t], {})
  BY DEF select_resume, TypeOK
<1>2. Comes(t, th[t]) /\ Same(th[t], th[t]) /\ th[t].pc # "wnote" /\ th[t].pc # "wwait"
  BY <1>1, GoesOn, IdleCall DEF Same
<1>3. CASE select_ready(th[t].pc)
  BY <1>1, <1>2, <1>3, IdleCall, StillGoes DEF SleepPcs
<1>4. CASE ~select_ready(th[t].pc)
  <2>1. ~broken /\ Cause(th[t], queue)
    BY <1>1, <1>4 DEF select_ready, Cause
  <2> QED BY <1>1, <1>2, <1>4, <2>1, StillGoes
<1> QED BY <1>3, <1>4

(* recv_note and interrupt end a call. *)
LEMMA EndGoes ==
  ASSUME TypeOK, Usage, NEW t \in Threads, recv_note(t) \/ interrupt(t)
  PROVE  Goes(t)
<1>1. /\ th[t].pc \in {"rnote", "rwait", "wwait", "rsel", "wsel"}
      /\ queue' = queue /\ aborted' = aborted /\ Step(t, th[t], Idle, {})
  BY DEF recv_note, interrupt
<1>2. Comes(t, th[t]) /\ th[t].pc # "wnote"
  BY <1>1, GoesOn, IdleCall
<1> QED BY <1>1, <1>2, IdleCall, StillGoes DEF SleepPcs

(* Every step of a thread. *)
LEMMA ThreadGoes ==
  ASSUME TypeOK, Usage, Next, \A e \in Ends : ~open_end(e) /\ ~close_end(e)
  PROVE  \E t \in Threads : Goes(t)
<1>1. ASSUME NEW t \in Writers, NEW w \in WriteCalls, pipe_send(t, w)
      PROVE  \E u \in Threads : Goes(u)
  BY <1>1, SendGoes DEF Threads
<1>2. ASSUME NEW t \in Threads, pipe_select(t, "wsel") \/ pipe_select(t, "rsel")
      PROVE  \E u \in Threads : Goes(u)
  BY <1>2, SelectGoes
<1>3. ASSUME NEW t \in Readers, NEW r \in ReadCalls, pipe_recv(t, r)
      PROVE  \E u \in Threads : Goes(u)
  <2>1. t \in Threads /\ r \in ReadCall /\ r.pc = "rwait"
    BY DEF Threads, ReadCalls, ReadCall
  <2>2. th[t] = Idle /\ ends["readers"] > 0 /\ th[t].pc = "idle"
    BY <1>3, IdleCall DEF pipe_recv
  <2>3. Comes(t, r)
    BY <2>1, <2>2, SameReads DEF Comes, ReadPcs
  <2> QED BY <1>3, <2>1, <2>2, <2>3, ReadGoes DEF pipe_recv
<1>4. ASSUME NEW t \in Threads, recv_resume(t)
      PROVE  \E u \in Threads : Goes(u)
  <2>1. th[t].pc = "rwait" /\ th[t] \in Call
    BY <1>4 DEF recv_resume, TypeOK
  <2>2. th[t] \in ReadCall /\ Comes(t, th[t])
    BY <2>1, CallFacts, GoesOn, IdleCall
  <2> QED BY <1>4, <2>1, <2>2, ReadGoes DEF recv_resume
<1>5. ASSUME NEW t \in Threads, \/ send_resume(t) \/ send_note(t) \/ select_resume(t)
                                \/ recv_note(t) \/ interrupt(t)
      PROVE  \E u \in Threads : Goes(u)
  BY <1>5, SendResumeGoes, SendNoteGoes, SelectResumeGoes, EndGoes
<1>6. Readers \subseteq Threads /\ Writers \subseteq Threads
  BY DEF Threads
<1> QED BY <1>1, <1>2, <1>3, <1>4, <1>5, <1>6 DEF Next, Resume

-----------------------------------------------------------------------------
(* An end is opened or closed. *)
EndMoves(e, n) ==
  /\ ends' = [ends EXCEPT ![e] = @ + n]
  /\ ends[e] + n \in Nat
  /\ pipe'.count = [pipe.count EXCEPT ![e] = @ + n]
  /\ Sound(pipe', met')
  /\ fifo /\ ends[e] + n = 0 => \A t \in Threads : th[t] = Idle \/ side(th[t]) # e
  /\ UNCHANGED <<class, fifo, queue, th, aborted>>
  /\ woken \subseteq woken'
  /\ ~broken /\ broken' => Breaks(pipe, e) /\ bad_news(pipe, e) \subseteq woken'

LEMMA OpenMoves ==
  ASSUME TypeOK, Usage, NEW e \in Ends, open_end(e)
  PROVE  EndMoves(e, 1)
<1>1. /\ ~freed /\ ends' = [ends EXCEPT ![e] = @ + 1] /\ pipe' = acquire(pipe, e)
      /\ met' = Meets(pipe', met)
      /\ UNCHANGED <<class, fifo, queue, th, woken, aborted>>
  BY DEF open_end, Becomes, Meets
<1>2. Sound(pipe, met) /\ ends[e] \in Nat
  BY DEF Usage, TypeOK
<1>3. /\ Sound(acquire(pipe, e), Meets(acquire(pipe, e), met))
      /\ acquire(pipe, e).count = [pipe.count EXCEPT ![e] = @ + 1]
      /\ acquire(pipe, e).broken => pipe.broken
  BY <1>1, <1>2, AcquireSound DEF freed
<1> QED BY <1>1, <1>2, <1>3 DEF EndMoves, broken

LEMMA CloseMoves ==
  ASSUME TypeOK, Usage, NEW e \in Ends, close_end(e)
  PROVE  EndMoves(e, -1)
<1>1. /\ ends[e] > 0 /\ ends' = [ends EXCEPT ![e] = @ - 1] /\ pipe' = release(pipe, e)
      /\ met' = Meets(pipe', met)
      /\ woken' = woken \cup bad_news(pipe, e)
      /\ fifo /\ ends[e] = 1 => \A t \in Threads : th[t] = Idle \/ side(th[t]) # e
      /\ UNCHANGED <<class, fifo, queue, th, aborted>>
  BY DEF close_end, Becomes, Meets
<1>2. Sound(pipe, met) /\ ends[e] \in Nat /\ ends \in [Ends -> Nat]
  BY DEF Usage, TypeOK
<1>3. pipe.count[e] > 0 /\ pipe.count \in [Ends -> Nat]
  BY <1>1, <1>2, InUse DEF Counted, Sound
<1>4. /\ Sound(release(pipe, e), Meets(release(pipe, e), met))
      /\ release(pipe, e).count = [pipe.count EXCEPT ![e] = @ - 1]
      /\ release(pipe, e).broken => pipe.broken \/ Breaks(pipe, e)
  BY <1>2, <1>3, ReleaseSound
<1>5. ends[e] + -1 \in Nat /\ (ends[e] + -1 = 0 => ends[e] = 1)
  BY <1>1, <1>2
<1>6. ends' = [ends EXCEPT ![e] = @ + -1]
  BY <1>1, <1>2
<1>7. pipe'.count = [pipe.count EXCEPT ![e] = @ + -1]
  BY <1>1, <1>3, <1>4
<1> QED BY <1>1, <1>4, <1>5, <1>6, <1>7 DEF EndMoves, broken

LEMMA EndChange ==
  ASSUME TypeOK, Usage, NEW e \in Ends, NEW n \in {-1, 1}, EndMoves(e, n)
  PROVE  /\ TypeOK' /\ Usage'
         /\ Caused => Caused'
<1>1. /\ ends' = [ends EXCEPT ![e] = @ + n] /\ ends[e] + n \in Nat
      /\ pipe'.count = [pipe.count EXCEPT ![e] = @ + n] /\ Sound(pipe', met')
      /\ class' = class /\ fifo' = fifo /\ queue' = queue /\ th' = th /\ aborted' = aborted
  BY DEF EndMoves
<1>2. /\ ends \in [Ends -> Nat] /\ pipe.count \in [Ends -> Nat]
      /\ \A f \in Ends : pipe.count[f] = ends[f] + Cardinality(Holders(f))
      /\ \A f \in Ends : Cardinality(Holders(f)) \in Nat
  BY HoldersFinite DEF TypeOK, Usage, Sound
<1>3. ends' \in [Ends -> Nat] /\ \A f \in Ends : ends'[f] = IF f = e THEN ends[f] + n ELSE ends[f]
  BY <1>1, <1>2
<1>4. TypeOK'
  <2>1. pipe' \in [count : [Ends -> Int], broken : BOOLEAN, freed : BOOLEAN] /\ met' \in BOOLEAN
    BY <1>1 DEF Sound
  <2> QED BY <1>1, <1>3, <2>1 DEF TypeOK
<1>5. \A f : Holders(f)' = Holders(f)
  BY <1>1 DEF Holders, acquired_as, addressed, side
<1>6. Usage'
  <2>1. \A f \in Ends : (pipe.count[f] = ends[f] + Cardinality(Holders(f)))'
    BY <1>1, <1>2, <1>3, <1>5
  <2>2. connless' = connless
    BY <1>1 DEF connless
  <2>3. Sound(pipe, met)'
    BY <1>1, <2>2 DEF Sound, Missing
  <2>4. ASSUME fifo, NEW u \in Threads, th[u] # Idle
        PROVE  ends'[side(th[u])] > 0
    <3>1. ends[side(th[u])] > 0 /\ side(th[u]) \in Ends
      BY <2>4, Sides DEF Usage
    <3>2. CASE side(th[u]) # e
      BY <1>3, <3>1, <3>2
    <3>3. CASE side(th[u]) = e
      <4>1. ends[e] + n # 0
        BY <2>4, <3>3 DEF EndMoves
      <4> QED BY <1>1, <1>3, <3>1, <3>3, <4>1
    <3> QED BY <3>2, <3>3
  <2>5. \A u \in Threads : /\ side(th[u])' = side(th[u])
                           /\ addressed(th[u])' = addressed(th[u])
    BY <1>1 DEF side, addressed
  <2> QED BY <1>1, <2>1, <2>2, <2>3, <2>4, <2>5 DEF Usage
<1>7. ASSUME Caused, NEW u \in Threads, Asleep(u)'
      PROVE  /\ ~broken'
             /\ Cause(th[u], queue)' \/ (th'[u].pc = "rsel" /\ Noting')
  <2>1. u \notin woken' /\ u \notin woken /\ th[u].pc \in SleepPcs /\ Asleep(u)
    BY <1>1, <1>7 DEF Asleep, SleepPcs, EndMoves
  <2>2. ~broken /\ (Cause(th[u], queue) \/ (th[u].pc = "rsel" /\ Noting))
    BY <1>7, <2>1 DEF Caused
  <2>3. ~broken'
    <3> SUFFICES ASSUME broken' PROVE FALSE
      OBVIOUS
    <3>1. Breaks(pipe, e) /\ u \notin bad_news(pipe, e)
      BY <2>1, <2>2 DEF EndMoves
    <3>2. acquired_as(th[u]) = e /\ side(th[u]) = e /\ th[u] # Idle
      BY <2>1, <3>1, NotTold DEF SleepPcs, Idle
    <3>3. pipe.count[e] = 1
      BY <3>1 DEF Breaks
    <3>4. n = -1
      <4>1. ASSUME n = 1 PROVE FALSE
        <5>1. pipe'.count[e] = 2 /\ \A f \in Ends : f # e => pipe'.count[f] = pipe.count[f]
          BY <1>1, <1>2, <3>3, <4>1
        <5>2. e # other(e) /\ other(e) \in Ends /\ pipe.count[other(e)] # 0
          BY <3>1 DEF Breaks, other, Ends
        <5>3. ~Missing(pipe')
          BY <1>2, <5>1, <5>2 DEF Missing, Ends
        <5>4. ~pipe'.freed
          BY <1>1, <5>1, <5>2 DEF Sound, Ends
        <5> QED BY <1>1, <5>3, <5>4 DEF Sound, broken
      <4> QED BY <4>1
    <3>5. CASE fifo
      <4>1. ends[e] = 1
        BY <3>3, <3>5, InUse DEF Counted
      <4>2. ends[e] + n = 0
        BY <3>4, <4>1
      <4> QED BY <3>2, <3>5, <4>2 DEF EndMoves
    <3>6. CASE ~fifo
      <4>1. u \in Holders(e)
        BY <3>2, <3>6 DEF Holders
      <4>2. pipe.count[e] > ends[e] /\ ends[e] \in Nat
        BY <1>2, <4>1, InUse DEF Counted
      <4> QED BY <1>1, <3>3, <3>4, <4>2
    <3> QED BY <3>5, <3>6
  <2>5. Cause(th[u], queue)' = Cause(th[u], queue) /\ Noting' = Noting
    BY <1>1 DEF Cause, Noting, pipe_is_readable, writable_amount, amount, stream,
                pipe_readable, bytes
  <2> QED BY <1>1, <2>2, <2>3, <2>5
<1> QED BY <1>4, <1>6, <1>7 DEF Caused

-----------------------------------------------------------------------------
(* The inductive invariant.  The second part holds where control data is   *)
(* sent on stream pipes only.                                              *)
Inv ==
  /\ TypeOK /\ Usage
  /\ ~RecordControl =>
       DataBehindControl(queue) /\ ControlOnStreams /\ Caused /\ NoAbort

LEMMA InitInv == Init => Inv
<1> SUFFICES ASSUME Init PROVE Inv
  OBVIOUS
<1>0. /\ queue = <<>> /\ th = [t \in Threads |-> Idle] /\ met = FALSE /\ aborted = FALSE
      /\ fifo \in BOOLEAN /\ (fifo => ~connless)
  BY DEF Init
<1>1. PICK first \in Ends : /\ fifo \/ first = "readers"
                            /\ ends = [e \in Ends |-> IF e = first THEN 1 ELSE 0]
                            /\ pipe = acquire(Created, first)
  <2>1. "readers" \in Ends
    BY DEF Ends
  <2> QED BY <2>1 DEF Init
<1>2. /\ pipe.count = [e \in Ends |-> IF e = first THEN 1 ELSE 0]
      /\ pipe.broken \in BOOLEAN /\ (pipe.broken <=> ~connless /\ ~fifo)
      /\ pipe.freed = FALSE
      /\ pipe = [count |-> pipe.count, broken |-> pipe.broken, freed |-> pipe.freed]
  <2> DEFINE zero == [e \in Ends |-> 0]
  <2>1. /\ pipe.count = [zero EXCEPT ![first] = @ + 1]
        /\ pipe.broken = ((~connless /\ ~fifo)
                            /\ ~(zero[first] = 0 /\ zero[other(first)] > 0))
        /\ pipe.freed = FALSE
        /\ pipe = [count |-> pipe.count, broken |-> pipe.broken, freed |-> pipe.freed]
    BY <1>1 DEF acquire, Created
  <2>2. other(first) \in Ends
    BY DEF other, Ends
  <2>3. zero[other(first)] = 0
    BY <2>2
  <2>4. ~(zero[other(first)] > 0)
    BY <2>3
  <2>5. pipe.count = [e \in Ends |-> IF e = first THEN 1 ELSE 0]
    <3>1. [zero EXCEPT ![first] = @ + 1] = [e \in Ends |-> IF e = first THEN 1 ELSE 0]
      OBVIOUS
    <3> QED BY <2>1, <3>1
  <2> HIDE DEF zero
  <2>6. pipe.broken \in BOOLEAN /\ (pipe.broken <=> ~connless /\ ~fifo)
    BY <2>1, <2>4, Zenon
  <2> QED BY <2>1, <2>5, <2>6
<1>3. TypeOK
  <2>1. queue \in Seq(Packet)
    BY <1>0, EmptySeq
  <2>2. th \in [Threads -> Call]
    BY <1>0, IdleCall
  <2>3. ends \in [Ends -> Nat]
    BY <1>1
  <2>4. pipe \in [count : [Ends -> Int], broken : BOOLEAN, freed : BOOLEAN]
    <3>1. pipe.count \in [Ends -> Int]
      BY <1>2
    <3> QED BY <1>2, <3>1
  <2> QED BY <1>0, <2>1, <2>2, <2>3, <2>4 DEF TypeOK
<1>4. Usage
  <2>1. \A e : Holders(e) = {}
    BY <1>0 DEF Holders
  <2>2. \A e \in Ends : pipe.count[e] = ends[e] + Cardinality(Holders(e))
    BY <1>1, <1>2, <2>1, FS_EmptySet
  <2>3. /\ pipe.count["readers"] = IF first = "readers" THEN 1 ELSE 0
        /\ pipe.count["writers"] = IF first = "writers" THEN 1 ELSE 0
    BY <1>2 DEF Ends
  <2>4. Sound(pipe, met)
    <3>1. pipe \in [count : [Ends -> Nat], broken : BOOLEAN, freed : BOOLEAN]
      <4>1. pipe.count \in [Ends -> Nat]
        BY <1>2
      <4> QED BY <1>2, <4>1
    <3>2. first = "readers" \/ (first = "writers" /\ fifo)
      BY <1>1 DEF Ends
    <3>3. CASE first = "readers"
      <4>1. pipe.count["readers"] = 1 /\ pipe.count["writers"] = 0
        BY <2>3, <3>3
      <4>2. Missing(pipe) <=> ~connless
        BY <4>1 DEF Missing
      <4>3. /\ pipe.freed <=> pipe.count["readers"] = 0 /\ pipe.count["writers"] = 0
            /\ ~(pipe.count["readers"] > 0 /\ pipe.count["writers"] > 0)
        BY <1>2, <4>1
      <4>4. pipe.broken <=> Missing(pipe) /\ (fifo => met)
        BY <1>0, <1>2, <4>2, Zenon
      <4> QED BY <1>0, <3>1, <4>3, <4>4 DEF Sound
    <3>4. CASE first = "writers" /\ fifo
      <4>1. pipe.count["readers"] = 0 /\ pipe.count["writers"] = 1
        BY <2>3, <3>4
      <4>2. /\ pipe.freed <=> pipe.count["readers"] = 0 /\ pipe.count["writers"] = 0
            /\ ~(pipe.count["readers"] > 0 /\ pipe.count["writers"] > 0)
        BY <1>2, <4>1
      <4>3. pipe.broken <=> Missing(pipe) /\ (fifo => met)
        BY <1>0, <1>2, <3>4, Zenon
      <4> QED BY <1>0, <3>1, <4>2, <4>3 DEF Sound
    <3> QED BY <3>2, <3>3, <3>4
  <2>5. \A t \in Threads : th[t] = Idle /\ ~addressed(th[t])
    BY <1>0 DEF addressed, Idle
  <2> QED BY <1>0, <2>2, <2>4, <2>5 DEF Usage
<1>5. \A t \in Threads : th[t].pc = "idle"
  BY <1>0, IdleCall
<1>6. ControlOnStreams /\ Caused
  BY <1>5 DEF ControlOnStreams, Caused, Asleep
<1>7. DataBehindControl(queue) /\ NoAbort
  BY <1>0 DEF DataBehindControl, NoAbort
<1> QED BY <1>3, <1>4, <1>6, <1>7 DEF Inv

LEMMA NextInv == Inv /\ [Next]_vars => Inv'
<1> SUFFICES ASSUME Inv, [Next]_vars PROVE Inv'
  OBVIOUS
<1>0. TypeOK /\ Usage
  BY DEF Inv
<1>1. ASSUME NEW t \in Threads, Goes(t) PROVE Inv'
  <2>1. PICK c, to, wakes : /\ Moves(t, c, to, wakes)
                            /\ Ordered => Tells(t, to, wakes) /\ Keeps(to)
    BY <1>1 DEF Goes
  <2>2. TypeOK' /\ Usage'
    BY <1>0, <2>1, MoveUsage
  <2>3. ASSUME ~RecordControl
        PROVE  (DataBehindControl(queue) /\ ControlOnStreams /\ Caused /\ NoAbort)'
    <3>1. Ordered /\ Caused /\ NoAbort
      BY <2>3 DEF Inv, Ordered
    <3>2. Tells(t, to, wakes) /\ Keeps(to)
      BY <2>1, <3>1
    <3>3. Caused'
      BY <1>0, <2>1, <3>1, <3>2, MoveWakes
    <3>4. ControlOnStreams'
      <4>1. class' = class /\ \A u \in Threads : th'[u] = IF u = t THEN to ELSE th[u]
        BY <1>0, <2>1, MoveFacts
      <4> QED BY <3>1, <3>2, <4>1 DEF Ordered, ControlOnStreams, Keeps, stream
    <3>5. DataBehindControl(queue)' /\ NoAbort'
      BY <3>1, <3>2 DEF Keeps, NoAbort, DataBehindControl
    <3> QED BY <3>3, <3>4, <3>5
  <2> QED BY <2>2, <2>3 DEF Inv
<1>2. ASSUME NEW e \in Ends, open_end(e) \/ close_end(e) PROVE Inv'
  <2>1. \E n \in {-1, 1} : EndMoves(e, n)
    BY <1>0, <1>2, OpenMoves, CloseMoves
  <2>2. /\ TypeOK' /\ Usage'
        /\ Caused => Caused'
    BY <1>0, <2>1, EndChange
  <2>3. queue' = queue /\ th' = th /\ class' = class /\ aborted' = aborted
    BY <2>1 DEF EndMoves
  <2>4. /\ DataBehindControl(queue)' = DataBehindControl(queue)
        /\ ControlOnStreams' = ControlOnStreams /\ NoAbort' = NoAbort
    BY <2>3 DEF DataBehindControl, ControlOnStreams, NoAbort, stream
  <2> QED BY <2>2, <2>4 DEF Inv
<1>3. CASE UNCHANGED vars
  <2>1. /\ queue' = queue /\ th' = th /\ class' = class /\ aborted' = aborted
        /\ ends' = ends /\ pipe' = pipe /\ fifo' = fifo /\ met' = met /\ woken' = woken
    BY <1>3 DEF vars
  <2>2. TypeOK'
    BY <1>0, <2>1 DEF TypeOK
  <2>3. Usage'
    <3>1. \A e : Holders(e)' = Holders(e)
      BY <2>1 DEF Holders, acquired_as, addressed, side
    <3>2. connless' = connless /\ Sound(pipe, met)' = Sound(pipe, met)
      BY <2>1 DEF connless, Sound, Missing
    <3>3. \A u \in Threads : /\ side(th[u])' = side(th[u])
                             /\ addressed(th[u])' = addressed(th[u])
      BY <2>1 DEF side, addressed
    <3> QED BY <1>0, <2>1, <3>1, <3>2, <3>3 DEF Usage
  <2>4. /\ DataBehindControl(queue)' = DataBehindControl(queue)
        /\ ControlOnStreams' = ControlOnStreams /\ NoAbort' = NoAbort
    BY <2>1 DEF DataBehindControl, ControlOnStreams, NoAbort, stream
  <2>5. Caused' = Caused
    BY <2>1 DEF Caused, Asleep, Cause, Noting, pipe_is_readable, writable_amount,
                amount, stream, pipe_readable, bytes, broken
  <2> QED BY <2>2, <2>3, <2>4, <2>5 DEF Inv
<1> QED BY <1>0, <1>1, <1>2, <1>3, ThreadGoes

LEMMA InvHolds == Spec => []Inv
BY InitInv, NextInv, PTL DEF Spec

-----------------------------------------------------------------------------
(* The queue holds packets, and what the threads do has its type: in       *)
(* particular a write that waits has something left to write and may       *)
(* block, so that nobody sleeps over MSG_DONTWAIT.                         *)
THEOREM TypeCorrect == Spec => []TypeOK
<1>1. Inv => TypeOK
  BY DEF Inv
<1> QED BY <1>1, InvHolds, PTL

(* pipe_free is called exactly when the last end is closed and the last    *)
(* thread has left the pipe: the references that pipe_acquire_* and        *)
(* pipe_release_* count pair up, for any number of threads and ends.       *)
THEOREM FreedIsUnused == Spec => []FreedUnused
<1>1. Inv => FreedUnused
  <2> SUFFICES ASSUME Inv PROVE FreedUnused
    OBVIOUS
  <2>1. TypeOK /\ Usage /\ Counted
    BY InUse DEF Inv
  <2>2. freed <=> \A e \in Ends : ends[e] = 0 /\ Holders(e) = {}
    BY <2>1 DEF Counted
  <2>3. ASSUME \A e \in Ends : ends[e] = 0 /\ Holders(e) = {}, NEW t \in Threads
        PROVE  th[t] = Idle
    <3> SUFFICES ASSUME th[t] # Idle PROVE FALSE
      OBVIOUS
    <3>1. side(th[t]) \in Ends /\ acquired_as(th[t]) \in Ends
      BY Sides
    <3>2. CASE fifo
      <4>1. ends[side(th[t])] > 0 /\ ends[side(th[t])] = 0
        BY <2>1, <2>3, <3>1, <3>2 DEF Usage
      <4> QED BY <4>1
    <3>3. CASE ~fifo
      <4>1. t \in Holders(acquired_as(th[t]))
        BY <3>3 DEF Holders
      <4> QED BY <2>3, <3>1, <4>1
    <3> QED BY <3>2, <3>3
  <2>4. ASSUME \A t \in Threads : th[t] = Idle, NEW e
        PROVE  Holders(e) = {}
    BY <2>4 DEF Holders
  <2> QED BY <2>2, <2>3, <2>4 DEF FreedUnused
<1> QED BY <1>1, InvHolds, PTL

(* PIPE_BROKEN is set exactly while nobody uses the reading end, or nobody *)
(* the writing end where the pipe's class needs one, through any sequence  *)
(* of opens, closes, calls and interruptions; on a fifo from the time      *)
(* that a reader and a writer have met.                                    *)
THEOREM BrokenIsExact == Spec => []BrokenMatches
<1>1. Inv => BrokenMatches
  <2> SUFFICES ASSUME Inv PROVE BrokenMatches
    OBVIOUS
  <2>1. TypeOK /\ Usage /\ Counted
    BY InUse DEF Inv
  <2>2. ASSUME NEW e \in Ends PROVE Used(e) <=> pipe.count[e] # 0
    <3>0. ends[e] \in Nat /\ pipe.count[e] \in Nat
      BY <2>1 DEF TypeOK, Counted
    <3>1. Used(e) <=> ends[e] > 0 \/ Holders(e) # {}
      BY DEF Used, Holders
    <3>2. Holders(e) # {} => pipe.count[e] > ends[e]
      BY <2>1 DEF Counted
    <3>3. pipe.count[e] >= ends[e] /\ (pipe.count[e] # 0 => ends[e] > 0 \/ Holders(e) # {})
      BY <2>1 DEF Counted
    <3> QED BY <3>0, <3>1, <3>2, <3>3
  <2>3. ~pipe.freed => (pipe.broken <=> Missing(pipe) /\ (fifo => met))
    BY <2>1 DEF Usage, Sound
  <2> QED BY <2>2, <2>3 DEF BrokenMatches, Missing, Ends, broken, freed
<1> QED BY <1>1, InvHolds, PTL

(* Without control data on record pipes the assertion of pipe_recv holds,  *)
(* whatever the limit, the threads and the order of their calls.           *)
THEOREM RecvNeverAborts ==
  ASSUME ~RecordControl
  PROVE  Spec => []NoAbort
<1>1. Inv => NoAbort
  BY DEF Inv
<1> QED BY <1>1, InvHolds, PTL

(* Without control data on record pipes no wake-up is lost: whoever sleeps *)
(* in the pipe and was not woken has reason to, or is a select that a      *)
(* writer on its way to the lock is about to wake.                         *)
THEOREM NoLostWakeup ==
  ASSUME ~RecordControl
  PROVE  Spec => []SleepersHaveCause
<1>1. Inv => SleepersHaveCause
  <2> SUFFICES ASSUME Caused, TypeOK PROVE SleepersHaveCause
    BY DEF Inv
  <2> SUFFICES ASSUME NEW t \in Threads, Asleep(t)
               PROVE  /\ ~broken
                      /\ CASE th[t].pc = "rwait" -> ~ready(th[t])
                           [] th[t].pc = "wwait" -> ~writable_amount(queue, amount(th[t]))
                           [] th[t].pc = "wsel"  -> ~select_ready("wsel")
                           [] th[t].pc = "rsel"  -> \/ ~select_ready("rsel")
                                                    \/ \E u \in Threads : th[u].pc = "wnote"
    BY DEF SleepersHaveCause
  <2>1. ~broken /\ (Cause(th[t], queue) \/ (th[t].pc = "rsel" /\ Noting))
    BY DEF Caused
  <2>2. CASE th[t].pc = "rwait"
    BY <2>1, <2>2 DEF Cause, ready
  <2>3. CASE th[t].pc = "wwait"
    BY <2>1, <2>3 DEF Cause
  <2>4. CASE th[t].pc = "wsel"
    BY <2>1, <2>4 DEF Cause, select_ready
  <2>5. CASE th[t].pc = "rsel"
    BY <2>1, <2>5 DEF Cause, select_ready, Noting
  <2> QED BY <2>2, <2>3, <2>4, <2>5 DEF Asleep
<1> QED BY <1>1, InvHolds, PTL
=============================================================================
