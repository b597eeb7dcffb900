-------------------------- MODULE ThreadPoolProofs --------------------------
(***************************************************************************)
(* Proofs about ThreadPool: its inductive invariant, the safety properties *)
(* that follow from it, and that it implements GracePeriod; and about      *)
(* ServiceThreads, the other half of manage-multithread.c.  They hold for  *)
(* every finite set of threads and every set of objects and requests.      *)
(***************************************************************************)
EXTENDS ThreadPool, ServiceThreads, FiniteSetTheorems, TLAPS

USE DEF COLOR_BLACK, COLOR_WHITE, COLOR_INVALID, flip_color, valid_color,
        is_old, last_old, expired, must_flip

(* The two generations are finite and disjoint, and make up the pool. *)
LEMMA Generations ==
  ASSUME TypeOK
  PROVE  /\ IsFiniteSet(Old) /\ IsFiniteSet(Young)
         /\ Old \cap Young = {}
         /\ Online = Old \cup Young
<1>1. Old \in SUBSET Threads /\ Young \in SUBSET Threads
  BY DEF Old, Young
<1>2. IsFiniteSet(Old) /\ IsFiniteSet(Young)
  BY <1>1, FS_Subset, ThreadPoolAssumption
<1> QED
  BY <1>2 DEF TypeOK, Old, Young, Online

(* What the critical section of _ports_thread_quiescent does to the        *)
(* generations: nothing for a young thread; the last old thread turns the  *)
(* young generation into the old one; any other old thread becomes young.  *)
LEMMA QuiescentGenerations ==
  ASSUME TypeOK, CountersMatch, NEW t \in Threads,
         thread_color[t] # COLOR_INVALID, quiescent(t)
  PROVE  \/ /\ t \in Young
            /\ Old' = Old /\ Young' = Young
            /\ UNCHANGED <<pool, free_list>>
         \/ /\ Old = {t} /\ old_threads = 1
            /\ Old' = Young \cup {t} /\ Young' = {}
            /\ old_threads' = young_threads + 1 /\ young_threads' = 0
            /\ old_objects' = young_objects /\ young_objects' = {}
            /\ free_list' = [free_list EXCEPT ![t] = old_objects]
         \/ /\ t \in Old /\ old_threads > 1
            /\ Old' = Old \ {t} /\ Young' = Young \cup {t}
            /\ old_threads' = old_threads - 1
            /\ young_threads' = young_threads + 1
            /\ UNCHANGED <<old_objects, young_objects, free_list>>
<1>1. CASE thread_color[t] # color
  BY <1>1 DEF TypeOK, quiescent, Old, Young, pool
<1>2. CASE thread_color[t] = color /\ old_threads = 1
  <2>1. t \in Old
    BY <1>2 DEF Old
  <2>2. Old = {t}
    <3>1. IsFiniteSet(Old) /\ Cardinality(Old) = 1
      BY <1>2, Generations DEF CountersMatch
    <3>2. PICK u : Old = {u}
      BY <3>1, FS_Singleton
    <3> QED
      BY <2>1, <3>2
  <2>3. \A u \in Threads : thread_color[u] = color => u = t
    BY <2>2 DEF Old
  <2>4. /\ color' = flip_color(color)
        /\ thread_color' = [thread_color EXCEPT ![t] = flip_color(@)]
    BY <1>2 DEF quiescent, flip_generations
  <2>5. Old' = Young \cup {t} /\ Young' = {}
    BY <1>2, <2>3, <2>4 DEF TypeOK, Old, Young
  <2> QED
    BY <1>2, <2>2, <2>5 DEF quiescent, flip_generations
<1>3. CASE thread_color[t] = color /\ old_threads # 1
  <2>1. t \in Old
    BY <1>3 DEF Old
  <2>2. old_threads > 1
    BY <2>1, <1>3, Generations, FS_EmptySet DEF CountersMatch, TypeOK
  <2>3. Old' = Old \ {t} /\ Young' = Young \cup {t}
    BY <1>3 DEF TypeOK, quiescent, Old, Young
  <2> QED
    BY <1>3, <2>1, <2>2, <2>3 DEF quiescent
<1> QED
  BY <1>1, <1>2, <1>3

PCs == {"offline", "receive", "demux", "free", "timedout", "leaving"}

(* The part of Inv that does not depend on where the threads are. *)
PoolInv == CountersMatch /\ GraceOrder /\ ListsDisjoint /\ HoldersAwaited

(* A quiescent thread whose free list is empty keeps the pool consistent. *)
LEMMA QuiescentKeeps ==
  ASSUME TypeOK, PoolInv, NEW t \in Threads, pc' \in [Threads -> PCs],
         thread_color[t] # COLOR_INVALID, free_list[t] = {}, quiescent(t)
  PROVE  /\ TypeOK' /\ PoolInv'
         /\ old_threads' = 0 => old_threads = 0 /\ old_objects' = old_objects
<1> USE DEF PoolInv
<1>0. \/ thread_color' = thread_color
      \/ thread_color' = [thread_color EXCEPT ![t] = flip_color(@)]
  BY DEF quiescent
<1>1. /\ payload' = [payload EXCEPT ![t] = NoObject]
      /\ grace' = [o \in Objects |-> grace[o] \ {t}]
      /\ right' = right /\ aborted' = aborted
  BY DEF quiescent
<1>2. /\ thread_color' \in [Threads -> {COLOR_BLACK, COLOR_WHITE, COLOR_INVALID}]
      /\ color' \in {COLOR_BLACK, COLOR_WHITE}
  BY <1>0 DEF TypeOK, quiescent, flip_generations, pool
<1>3. HoldersAwaited'
  BY <1>1, ThreadPoolAssumption DEF TypeOK, HoldersAwaited
<1>4. CASE /\ t \in Young
           /\ Old' = Old /\ Young' = Young
           /\ UNCHANGED <<pool, free_list>>
  <2>1. TypeOK'
    BY <1>1, <1>2, <1>4 DEF TypeOK, pool, PCs
  <2>2. CountersMatch' /\ ListsDisjoint'
    BY <1>1, <1>4 DEF CountersMatch, ListsDisjoint, pool
  <2>3. GraceOrder'
    BY <1>1, <1>4 DEF GraceOrder, TypeOK, pool
  <2> QED
    BY <1>3, <1>4, <2>1, <2>2, <2>3 DEF pool
<1>5. CASE /\ Old = {t} /\ old_threads = 1
           /\ Old' = Young \cup {t} /\ Young' = {}
           /\ old_threads' = young_threads + 1 /\ young_threads' = 0
           /\ old_objects' = young_objects /\ young_objects' = {}
           /\ free_list' = [free_list EXCEPT ![t] = old_objects]
  <2>1. TypeOK'
    BY <1>1, <1>2, <1>5 DEF TypeOK, PCs
  <2>2. CountersMatch'
    BY <1>5, Generations, FS_AddElement, FS_EmptySet DEF CountersMatch
  <2>3. GraceOrder'
    BY <1>1, <1>5 DEF GraceOrder, TypeOK
  <2>4. ListsDisjoint'
    BY <1>1, <1>5 DEF ListsDisjoint, TypeOK
  <2> QED
    BY <1>3, <1>5, <2>1, <2>2, <2>3, <2>4 DEF TypeOK
<1>6. CASE /\ t \in Old /\ old_threads > 1
           /\ Old' = Old \ {t} /\ Young' = Young \cup {t}
           /\ old_threads' = old_threads - 1
           /\ young_threads' = young_threads + 1
           /\ UNCHANGED <<old_objects, young_objects, free_list>>
  <2>1. TypeOK'
    <3>1. old_threads' \in Nat /\ young_threads' \in Nat
      BY <1>6 DEF TypeOK
    <3> QED
      BY <1>1, <1>2, <1>6, <3>1 DEF TypeOK, PCs
  <2>2. CountersMatch'
    <3>1. t \notin Young
      BY <1>6, Generations
    <3>2. /\ Cardinality(Old \ {t}) = Cardinality(Old) - 1
          /\ Cardinality(Young \cup {t}) = Cardinality(Young) + 1
      BY <1>6, <3>1, Generations, FS_AddElement, FS_RemoveElement
    <3> QED
      BY <1>6, <3>2 DEF CountersMatch
  <2>3. GraceOrder'
    BY <1>1, <1>6 DEF GraceOrder, TypeOK
  <2>4. ListsDisjoint'
    BY <1>1, <1>6 DEF ListsDisjoint
  <2> QED
    BY <1>3, <1>6, <2>1, <2>2, <2>3, <2>4 DEF TypeOK
<1> QED
  BY <1>4, <1>5, <1>6, QuiescentGenerations

LEMMA InitInv == Init => Inv
<1> SUFFICES ASSUME Init PROVE Inv
  OBVIOUS
<1>1. TypeOK
  BY DEF Init, TypeOK
<1>2. Old = {} /\ Young = {}
  BY DEF Init, Old, Young
<1>3. CountersMatch
  BY <1>2, FS_EmptySet DEF Init, CountersMatch
<1>4. GraceOrder /\ ListsDisjoint /\ ControlState
  BY DEF Init, GraceOrder, ListsDisjoint, ControlState
<1>5. HoldersAwaited /\ StartedFirst
  BY ThreadPoolAssumption DEF Init, HoldersAwaited, StartedFirst
<1> QED
  BY <1>1, <1>3, <1>4, <1>5 DEF Inv

(* The colour of a thread that the pool has seen, and membership of the    *)
(* two generations, agree.                                                 *)
LEMMA OnlineThread ==
  ASSUME TypeOK, ControlState, NEW t \in Threads
  PROVE  /\ pc[t] # "offline" <=> t \in Online
         /\ pc[t] # "offline" <=> thread_color[t] # COLOR_INVALID
BY DEF TypeOK, ControlState, Online

(* Once the master serves, a generation has a thread: the old generation   *)
(* that a flip produces is not empty.                                      *)
LEMMA PoolPopulated ==
  ASSUME TypeOK, CountersMatch, ControlState, pc[Master] # "offline",
         old_threads = 0
  PROVE  young_threads # 0
<1>1. Master \in Online
  BY OnlineThread, ThreadPoolAssumption
<1>2. Old = {}
  BY Generations, FS_EmptySet DEF CountersMatch
<1>3. Young # {}
  BY <1>1, <1>2, Generations
<1> QED
  BY <1>3, Generations, FS_EmptySet DEF CountersMatch

LEMMA OnlineKeeps ==
  ASSUME Inv, NEW t \in Threads, thread_online(t)
  PROVE  Inv'
<1> USE DEF thread_online
<1>1. TypeOK /\ thread_color[t] = COLOR_INVALID
  BY DEF Inv, ControlState
<1>2. TypeOK'
  BY <1>1 DEF TypeOK
<1>3. Old' = Old /\ Young' = Young \cup {t} /\ t \notin Young
  BY <1>1 DEF TypeOK, Old, Young
<1>4. CountersMatch'
  BY <1>1, <1>3, Generations, FS_AddElement DEF Inv, CountersMatch
<1>5. GraceOrder' /\ ListsDisjoint' /\ HoldersAwaited'
  BY <1>3 DEF Inv, GraceOrder, ListsDisjoint, HoldersAwaited
<1>6. ControlState'
  BY DEF Inv, TypeOK, ControlState
<1>7. ~EarlyDestroy => StartedFirst'
  BY ThreadPoolAssumption DEF Inv, TypeOK, StartedFirst
<1> QED
  BY <1>2, <1>4, <1>5, <1>6, <1>7 DEF Inv

LEMMA ReceiveKeeps ==
  ASSUME Inv, NEW t \in Threads, NEW o \in Objects, mach_msg_receive(t, o)
  PROVE  Inv'
<1> USE DEF mach_msg_receive, pool
<1>1. TypeOK'
  BY DEF Inv, TypeOK
<1>2. Old' = Old /\ Young' = Young
  BY DEF Old, Young
<1>3. CountersMatch' /\ GraceOrder' /\ ListsDisjoint'
  BY <1>2 DEF Inv, CountersMatch, GraceOrder, ListsDisjoint
<1>4. HoldersAwaited'
  BY DEF Inv, TypeOK, HoldersAwaited
<1>5. ControlState'
  BY DEF Inv, TypeOK, ControlState
<1>6. ~EarlyDestroy => StartedFirst'
  BY ThreadPoolAssumption DEF Inv, TypeOK, StartedFirst
<1> QED
  BY <1>1, <1>3, <1>4, <1>5, <1>6 DEF Inv

(* The three actions that go through the quiescent state. *)
LEMMA QuiescentInv ==
  ASSUME Inv, NEW t \in Threads, pc[t] # "offline", free_list[t] = {},
         quiescent(t), NEW c \in PCs \ {"offline", "receive", "demux"},
         pc' = [pc EXCEPT ![t] = c], c = "leaving" => t # Master
  PROVE  Inv'
<1>1. TypeOK /\ PoolInv /\ ControlState /\ thread_color[t] # COLOR_INVALID
  BY OnlineThread DEF Inv, PoolInv
<1>2. pc' \in [Threads -> PCs]
  BY <1>1 DEF TypeOK, PCs
<1>3. /\ TypeOK' /\ PoolInv'
      /\ old_threads' = 0 => old_threads = 0 /\ old_objects' = old_objects
  BY <1>1, <1>2, QuiescentKeeps
<1>4. /\ payload' = [payload EXCEPT ![t] = NoObject]
      /\ right' = right /\ aborted' = aborted
  BY DEF quiescent
<1>5. \/ thread_color' = thread_color
      \/ thread_color' = [thread_color EXCEPT ![t] = flip_color(@)]
  BY DEF quiescent, pool
<1>6. \/ free_list' = free_list
      \/ free_list' = [free_list EXCEPT ![t] = old_objects]
  BY DEF quiescent, pool
<1>7. ControlState'
  <2> SUFFICES ASSUME NEW u \in Threads
               PROVE  /\ pc'[u] = "offline" <=> thread_color'[u] = COLOR_INVALID
                      /\ pc'[u] # "demux" => payload'[u] = NoObject
                      /\ pc'[u] \in {"offline", "receive", "demux"}
                           => free_list'[u] = {}
                      /\ pc'[u] = "leaving" => u # Master
    BY DEF ControlState
  <2>2. CASE u = t
    BY <1>1, <1>4, <1>5, <2>2 DEF TypeOK, ControlState, PCs
  <2>3. CASE u # t
    BY <1>1, <1>4, <1>5, <1>6, <2>3 DEF TypeOK, ControlState, PCs
  <2> QED
    BY <2>2, <2>3
<1>8. ~EarlyDestroy => StartedFirst'
  <2>1. pc'[Master] = "offline" <=> pc[Master] = "offline"
    BY <1>1, ThreadPoolAssumption DEF TypeOK, PCs
  <2> QED
    BY <1>3, <1>4, <2>1 DEF Inv, StartedFirst
<1> QED
  BY <1>3, <1>7, <1>8 DEF Inv, PoolInv

LEMMA FreeKeeps ==
  ASSUME Inv, NEW t \in Threads, NEW o \in Objects, free_one(t, o)
  PROVE  Inv'
<1> USE DEF free_one, pool
<1>1. TypeOK'
  BY DEF Inv, TypeOK
<1>2. Old' = Old /\ Young' = Young
  BY DEF Old, Young
<1>3. CountersMatch' /\ GraceOrder'
  BY <1>2 DEF Inv, TypeOK, CountersMatch, GraceOrder
<1>4. ListsDisjoint'
  BY DEF Inv, TypeOK, ListsDisjoint
<1>5. HoldersAwaited'
  BY DEF Inv, TypeOK, HoldersAwaited, GraceOrder, ListsDisjoint
<1>6. ControlState'
  BY DEF Inv, TypeOK, ControlState
<1>7. ~EarlyDestroy => StartedFirst'
  BY DEF Inv, TypeOK, StartedFirst, ListsDisjoint
<1> QED
  BY <1>1, <1>3, <1>4, <1>5, <1>6, <1>7 DEF Inv

LEMMA LoopKeeps ==
  ASSUME Inv, NEW t \in Threads, start_over(t) \/ leave(t)
  PROVE  Inv'
<1> USE DEF start_over, leave, pool
<1>1. TypeOK' /\ ControlState'
  BY DEF Inv, TypeOK, ControlState
<1>2. Old' = Old /\ Young' = Young
  BY DEF Old, Young
<1>3. CountersMatch' /\ GraceOrder' /\ ListsDisjoint' /\ HoldersAwaited'
  BY <1>2 DEF Inv, CountersMatch, GraceOrder, ListsDisjoint, HoldersAwaited
<1>4. ~EarlyDestroy => StartedFirst'
  BY ThreadPoolAssumption DEF Inv, TypeOK, StartedFirst
<1> QED
  BY <1>1, <1>3, <1>4 DEF Inv

(* A young thread leaves: it holds no payload, so no object needs it. *)
LEMMA OfflineKeeps ==
  ASSUME Inv, NEW t \in Threads, thread_offline(t)
  PROVE  Inv'
<1>0. pc[t] = "leaving" /\ free_list[t] = {} /\ t # Master
  BY DEF thread_offline, Inv, ControlState
<1>1. CASE thread_color[t] = color
  <2>1. quiescent(t) /\ pc' = [pc EXCEPT ![t] = "leaving"]
    BY <1>0, <1>1 DEF thread_offline, Inv, TypeOK
  <2> QED
    BY <1>0, <2>1, QuiescentInv DEF PCs
<1>2. CASE thread_color[t] # color
  <2>1. /\ thread_color' = [thread_color EXCEPT ![t] = COLOR_INVALID]
        /\ young_threads' = young_threads - 1
        /\ pc' = [pc EXCEPT ![t] = "offline"]
        /\ grace' = [o \in Objects |-> grace[o] \ {t}]
        /\ UNCHANGED <<color, old_threads, old_objects, young_objects,
                       payload, free_list, right, aborted>>
    BY <1>2 DEF thread_offline
  <2>2. TypeOK /\ t \in Young /\ payload[t] = NoObject
    BY <1>0, <1>2 DEF Inv, TypeOK, ControlState, Young
  <2>3. Old' = Old /\ Young' = Young \ {t}
    BY <1>2, <2>1, <2>2 DEF TypeOK, Old, Young
  <2>4. /\ Cardinality(Young \ {t}) = Cardinality(Young) - 1
        /\ Cardinality(Young) \in Nat /\ Cardinality(Young) # 0
    BY <2>2, Generations, FS_RemoveElement, FS_CardinalityType, FS_EmptySet
  <2>5. CountersMatch' /\ young_threads' \in Nat
    BY <2>1, <2>3, <2>4 DEF Inv, CountersMatch
  <2>6. TypeOK'
    BY <2>1, <2>2, <2>5 DEF TypeOK
  <2>7. GraceOrder'
    BY <2>1, <2>2, <2>3 DEF Inv, TypeOK, GraceOrder
  <2>8. ListsDisjoint' /\ ControlState'
    BY <1>0, <2>1, <2>2 DEF Inv, TypeOK, ListsDisjoint, ControlState
  <2>9. HoldersAwaited'
    BY <2>1, <2>2, ThreadPoolAssumption DEF Inv, TypeOK, HoldersAwaited
  <2>10. ~EarlyDestroy => StartedFirst'
    BY <1>0, <2>1, <2>2 DEF Inv, TypeOK, StartedFirst
  <2> QED
    BY <2>5, <2>6, <2>7, <2>8, <2>9, <2>10 DEF Inv
<1> QED
  BY <1>1, <1>2

LEMMA DestroyKeeps ==
  ASSUME Inv, NEW o \in Objects, destroy_right(o) \/ deref_deferred_nomem(o)
  PROVE  Inv'
<1> USE DEF destroy_right, deref_deferred_nomem, pool
<1>1. TypeOK'
  BY DEF Inv, TypeOK
<1>2. Old' = Old /\ Young' = Young
  BY DEF Old, Young
<1>3. CountersMatch' /\ GraceOrder'
  BY <1>2 DEF Inv, CountersMatch, GraceOrder
<1>4. ListsDisjoint'
  BY DEF Inv, TypeOK, ListsDisjoint
<1>5. HoldersAwaited' /\ ControlState'
  BY DEF Inv, TypeOK, HoldersAwaited, ControlState
<1>6. ~EarlyDestroy => StartedFirst'
  BY DEF Inv, TypeOK, StartedFirst
<1> QED
  BY <1>1, <1>3, <1>4, <1>5, <1>6 DEF Inv

(* Every thread that may hold the address of the object is online, so the  *)
(* grace period that starts here waits for all of them.                    *)
LEMMA DeferKeeps ==
  ASSUME Inv, NEW o \in Objects, deref_deferred(o)
  PROVE  Inv'
<1>0. /\ right[o] = "destroyed"
      /\ right' = [right EXCEPT ![o] = "deferred"]
      /\ grace' = [grace EXCEPT ![o] = Online]
      /\ UNCHANGED <<thread_color, pc, payload, free_list>>
  BY DEF deref_deferred
<1>1. TypeOK /\ Online \subseteq Threads
  BY DEF Inv, Online
<1>2. HoldersAwaited'
  BY <1>0, <1>1, OnlineThread, ThreadPoolAssumption
    DEF Inv, TypeOK, HoldersAwaited, ControlState
<1>3. ControlState'
  BY <1>0 DEF Inv, ControlState
<1>4. /\ o \notin old_objects \cup young_objects
      /\ \A t \in Threads : o \notin free_list[t]
  BY <1>0 DEF Inv, ListsDisjoint
<1>5. /\ \A p \in old_objects \cup young_objects : grace'[p] = grace[p]
      /\ \A t \in Threads : \A p \in free_list[t] : grace'[p] = grace[p]
      /\ grace'[o] = Old \cup Young
  BY <1>0, <1>1, <1>4, Generations DEF TypeOK
<1>6. CASE \/ old_threads # 0
           \/ old_threads = 0 /\ old_objects # {}
  <2>1. /\ young_objects' = young_objects \cup {o}
        /\ UNCHANGED <<color, old_threads, old_objects, young_threads>>
        /\ aborted' = (aborted \/ old_threads = 0)
    BY <1>6 DEF deref_deferred, Inv, TypeOK
  <2>2. TypeOK'
    BY <1>0, <1>1, <2>1 DEF TypeOK
  <2>3. Old' = Old /\ Young' = Young
    BY <1>0, <2>1 DEF Old, Young
  <2>4. CountersMatch' /\ GraceOrder'
    BY <1>0, <1>5, <2>1, <2>3 DEF Inv, CountersMatch, GraceOrder
  <2>5. ListsDisjoint'
    BY <1>0, <1>1, <1>4, <2>1 DEF Inv, TypeOK, ListsDisjoint
  <2>6. ~EarlyDestroy => StartedFirst'
    BY <1>0, <1>1, <1>6, <2>1 DEF Inv, TypeOK, StartedFirst
  <2> QED
    BY <1>2, <1>3, <2>2, <2>4, <2>5, <2>6 DEF Inv
<1>7. CASE old_threads = 0 /\ old_objects = {}
  <2>1. /\ old_threads' = young_threads /\ old_objects' = young_objects \cup {o}
        /\ young_threads' = 0 /\ young_objects' = {}
        /\ color' = flip_color(color) /\ aborted' = aborted
    BY <1>7 DEF deref_deferred, flip_generations
  <2>2. TypeOK'
    BY <1>0, <1>1, <2>1 DEF TypeOK
  <2>3. Old = {}
    BY <1>1, <1>7, Generations, FS_EmptySet DEF Inv, CountersMatch
  <2>4. Old' = Young /\ Young' = {}
    BY <1>0, <1>1, <2>1, <2>3 DEF TypeOK, Old, Young
  <2>5. CountersMatch'
    BY <2>1, <2>4, FS_EmptySet DEF Inv, CountersMatch
  <2>6. GraceOrder'
    BY <1>0, <1>5, <2>1, <2>3, <2>4 DEF Inv, GraceOrder
  <2>7. ListsDisjoint'
    BY <1>0, <1>1, <1>4, <1>7, <2>1 DEF Inv, TypeOK, ListsDisjoint
  <2>8. ASSUME ~EarlyDestroy PROVE StartedFirst'
    <3>1. StartedFirst /\ pc[Master] # "offline"
      BY <1>0, <2>8 DEF Inv, StartedFirst
    <3>2. young_threads # 0
      BY <1>1, <1>7, <3>1, PoolPopulated DEF Inv
    <3> QED
      BY <1>0, <2>1, <3>1, <3>2 DEF StartedFirst
  <2> QED
    BY <1>2, <1>3, <2>2, <2>5, <2>6, <2>7, <2>8 DEF Inv
<1> QED
  BY <1>6, <1>7

(* Every step preserves the invariant. *)
LEMMA NextInv == Inv /\ [Next]_vars => Inv'
<1> SUFFICES ASSUME Inv, [Next]_vars PROVE Inv'
  OBVIOUS
<1>1. ASSUME NEW t \in Threads, demuxer_done(t) PROVE Inv'
  BY <1>1, QuiescentInv DEF demuxer_done, Inv, ControlState, PCs
<1>2. ASSUME NEW t \in Threads, receive_timeout(t) PROVE Inv'
  BY <1>2, QuiescentInv DEF receive_timeout, Inv, ControlState, PCs
<1>3. CASE UNCHANGED vars
  <2>1. Old' = Old /\ Young' = Young
    BY <1>3 DEF vars, Old, Young
  <2> QED
    BY <1>3, <2>1 DEF vars, Inv, TypeOK, CountersMatch, GraceOrder,
         ListsDisjoint, HoldersAwaited, ControlState, StartedFirst
<1> QED
  BY <1>1, <1>2, <1>3, OnlineKeeps, ReceiveKeeps, FreeKeeps, LoopKeeps,
     OfflineKeeps, DestroyKeeps, DeferKeeps DEF Next, ThreadStep

(* Inv is an invariant of the deferred release. *)
THEOREM InvHolds == Spec => []Inv
BY InitInv, NextInv, PTL DEF Spec

(* The pool, its threads and its objects keep their types: in particular   *)
(* the counters old_threads and young_threads never go below zero, whatever *)
(* the order of _ports_thread_online, _quiescent and _offline.             *)
THEOREM TypeCorrect == Spec => []TypeOK
<1>1. Inv => TypeOK
  BY DEF Inv
<1> QED
  BY <1>1, InvHolds, PTL

(* The counters count the threads of their generation. *)
THEOREM CountersCorrect == Spec => []CountersMatch
<1>1. Inv => CountersMatch
  BY DEF Inv
<1> QED
  BY <1>1, InvHolds, PTL

(* An old object waits for old threads only, one on a free list for none. *)
THEOREM GraceOrderHolds == Spec => []GraceOrder
<1>1. Inv => GraceOrder
  BY DEF Inv
<1> QED
  BY <1>1, InvHolds, PTL

(* No thread holds the address of an object whose reference was dropped.   *)
THEOREM PayloadsLive == Spec => []NoStalePayload
<1>1. Inv => NoStalePayload
  BY DEF Inv, HoldersAwaited, NoStalePayload
<1> QED
  BY <1>1, InvHolds, PTL

(* No assertion of port-deref-deferred.c fails, if no right is destroyed   *)
(* before the service loop runs.                                           *)
THEOREM NeverAborts == ~EarlyDestroy => (Spec => []NoAbort)
<1> SUFFICES ASSUME ~EarlyDestroy PROVE Spec => []NoAbort
  OBVIOUS
<1>1. Inv => NoAbort
  BY DEF Inv, StartedFirst, NoAbort
<1> QED
  BY <1>1, InvHolds, PTL

-----------------------------------------------------------------------------
(* Every step of the pool is a step of GracePeriod or leaves its state     *)
(* alone.                                                                  *)
LEMMA StepRefines == Inv /\ [Next]_vars => [GP!GPNext]_(GP!gpvars)
<1> SUFFICES ASSUME Inv, [Next]_vars PROVE [GP!GPNext]_(GP!gpvars)
  OBVIOUS
<1> USE DEF GP!gpvars
<1>0. TypeOK /\ ControlState
  BY DEF Inv
<1>1. ASSUME NEW t \in Threads, thread_online(t) PROVE GP!Join(t)
  <2>1. t \notin Online /\ Online' = Online \cup {t}
    BY <1>0, <1>1, OnlineThread DEF thread_online, Online, TypeOK
  <2> QED
    BY <1>1, <2>1 DEF thread_online, GP!Join
<1>2. ASSUME NEW t \in Threads, NEW o \in Objects, mach_msg_receive(t, o)
      PROVE  GP!Obtain(t, o)
  <2>1. t \in Online /\ Online' = Online /\ payload[t] = NoObject
    BY <1>0, <1>2, OnlineThread DEF mach_msg_receive, ControlState, Online
  <2> QED
    BY <1>2, <2>1 DEF mach_msg_receive, GP!Obtain
<1>3. ASSUME NEW t \in Threads, quiescent(t), pc[t] # "offline"
      PROVE  GP!Quiesce(t)
  <2>1. t \in Online
    BY <1>0, <1>3, OnlineThread
  <2>2. \/ thread_color' = thread_color
        \/ thread_color' = [thread_color EXCEPT ![t] = flip_color(@)]
    BY <1>3 DEF quiescent
  <2>3. Online' = Online
    BY <1>0, <2>1, <2>2 DEF TypeOK, Online
  <2> QED
    BY <1>3, <2>1, <2>3 DEF quiescent, GP!Quiesce
<1>4. ASSUME NEW t \in Threads, NEW o \in Objects, free_one(t, o)
      PROVE  GP!Release(o)
  <2>1. Online' = Online
    BY <1>4 DEF free_one, Online
  <2> QED
    BY <1>4, <2>1 DEF free_one, GP!Release, Inv, GraceOrder, ListsDisjoint
<1>5. ASSUME NEW t \in Threads, start_over(t) \/ leave(t)
      PROVE  UNCHANGED GP!gpvars
  BY <1>5 DEF start_over, leave, Online
<1>6. ASSUME NEW t \in Threads, thread_offline(t)
      PROVE  GP!Quiesce(t) \/ GP!Leave(t)
  <2>1. CASE thread_color[t] = color
    BY <1>3, <1>6, <2>1 DEF thread_offline
  <2>2. CASE thread_color[t] # color
    <3>1. t \in Online /\ payload[t] = NoObject
      BY <1>0, <1>6, OnlineThread DEF thread_offline, ControlState
    <3>2. Online' = Online \ {t}
      BY <1>0, <1>6, <2>2 DEF thread_offline, TypeOK, Online
    <3> QED
      BY <1>6, <2>2, <3>1, <3>2 DEF thread_offline, GP!Leave
  <2> QED
    BY <2>1, <2>2
<1>7. ASSUME NEW o \in Objects, destroy_right(o) PROVE GP!Destroy(o)
  BY <1>7 DEF destroy_right, GP!Destroy, Online
<1>8. ASSUME NEW o \in Objects, deref_deferred(o) PROVE GP!Defer(o)
  BY <1>8 DEF deref_deferred, GP!Defer, Online
<1>9. ASSUME NEW o \in Objects, deref_deferred_nomem(o) PROVE GP!Lose(o)
  BY <1>9 DEF deref_deferred_nomem, GP!Lose, Online
<1>10. ASSUME NEW t \in Threads, demuxer_done(t) \/ receive_timeout(t)
       PROVE  GP!Quiesce(t)
  BY <1>3, <1>10 DEF demuxer_done, receive_timeout
<1>11. CASE UNCHANGED vars
  BY <1>11 DEF vars, Online
<1> QED
  BY <1>1, <1>2, <1>4, <1>5, <1>6, <1>7, <1>8, <1>9, <1>10, <1>11
    DEF Next, ThreadStep, GP!GPNext

(* The pool with its colours, generations and counters implements the      *)
(* grace period: a reference is dropped only when every thread that ran at *)
(* its deferral has been quiescent.                                        *)
THEOREM ImplementsGracePeriod == Spec => GracePeriodSpec
<1>1. Init => GP!GPInit
  BY DEF Init, GP!GPInit, Online
<1> QED
  BY <1>1, InvHolds, StepRefines, PTL DEF Spec, GracePeriodSpec, GP!GPSpec

-----------------------------------------------------------------------------
(* The service threads themselves, which ServiceThreads models apart from  *)
(* the pool: their two counters, and that somebody always listens.  The    *)
(* proofs hold for any finite set of threads and any requests.             *)
ServicePlaces == {"none", "start", "receive", "got", "grow", "total", "create",
           "shrink", "nocreate", "handler", "done", "timedout", "stay", "leave"}

ServiceTypeOK ==
  /\ nreqthreads \in Nat /\ totalthreads \in Nat
  /\ pc \in [Threads -> ServicePlaces]
  /\ failed \in BOOLEAN

(* If nobody is counted as listening, some thread is about to listen or to *)
(* create one that does.                                                   *)
LastOneCares ==
  ~failed => /\ At({"shrink", "nocreate"}) = {}
             /\ nreqthreads = 0 => At({"stay", "grow", "total"}) # {}

ServiceInv == ServiceTypeOK /\ ThreadsCounted /\ LastOneCares

(* The threads that are in one of the places W, and how their number       *)
(* changes when a thread moves.                                            *)
In(p, W) == {t \in Threads : p[t] \in W}
Number(p, W) == Cardinality(In(p, W))
Bit(b) == IF b THEN 1 ELSE 0

LEMMA NumberChanges ==
  ASSUME IsFiniteSet(Threads), NEW p \in [Threads -> ServicePlaces],
         NEW t \in Threads, NEW to \in ServicePlaces, NEW W
  PROVE  /\ Number(p, W) \in Nat
         /\ Number(p, W) = 0 <=> In(p, W) = {}
         /\ Number([p EXCEPT ![t] = to], W)
              = Number(p, W) + Bit(to \in W) - Bit(p[t] \in W)
<1> DEFINE q == [p EXCEPT ![t] = to]
<1>1. \A u \in Threads : q[u] = IF u = t THEN to ELSE p[u]
  OBVIOUS
<1>2. IsFiniteSet(In(p, W))
  <2>1. In(p, W) \in SUBSET Threads
    BY DEF In
  <2> QED BY <2>1, FS_Subset
<1>3. Number(p, W) \in Nat /\ (Number(p, W) = 0 <=> In(p, W) = {})
  BY <1>2, FS_CardinalityType, FS_EmptySet DEF Number
<1> HIDE DEF q
<1>4. CASE to \in W /\ p[t] \notin W
  <2>1. In(q, W) = In(p, W) \cup {t} /\ t \notin In(p, W)
    BY <1>1, <1>4 DEF In
  <2>2. Number(q, W) = Number(p, W) + 1
    BY <1>2, <2>1, FS_AddElement DEF Number
  <2> QED BY <1>3, <1>4, <2>2 DEF Bit, q
<1>5. CASE to \notin W /\ p[t] \in W
  <2>1. In(q, W) = In(p, W) \ {t} /\ t \in In(p, W)
    BY <1>1, <1>5 DEF In
  <2>2. Number(q, W) = Number(p, W) - 1
    BY <1>2, <2>1, FS_RemoveElement DEF Number
  <2> QED BY <1>3, <1>5, <2>2 DEF Bit, q
<1>6. CASE to \in W <=> p[t] \in W
  <2>1. In(q, W) = In(p, W)
    BY <1>1, <1>6 DEF In
  <2> QED BY <1>3, <1>6, <2>1 DEF Bit, Number, q
<1> QED BY <1>4, <1>5, <1>6

(* The sets of places whose threads the counters count. *)
Idle     == {"start", "receive", "got", "timedout"}
Creating == {"create", "shrink", "nocreate"}
Alive    == ServicePlaces \ {"none"}
Counted  == {"total", "create", "shrink"}

(* The counters as functions of where the threads are. *)
CountersAre(n, m, p) ==
  /\ n = Number(p, Idle) + Number(p, Creating)
  /\ m = Number(p, Alive) + Number(p, Counted)

LEMMA CountersEquiv ==
  ASSUME ServiceTypeOK
  PROVE  ThreadsCounted <=> CountersAre(nreqthreads, totalthreads, pc)
<1>1. At(Idle) = In(pc, Idle) /\ At(Creating) = In(pc, Creating)
      /\ At(Counted) = In(pc, Counted)
  BY DEF At, In
<1>2. Threads \ At({"none"}) = In(pc, Alive)
  BY DEF At, In, ServiceTypeOK, Alive
<1> QED BY <1>1, <1>2 DEF ThreadsCounted, CountersAre,
           Number, Idle, Creating, Counted

(* What a move of one thread does to the counts. *)
Shift(from, to) ==
  [n |-> Bit(to \in Idle) - Bit(from \in Idle)
           + Bit(to \in Creating) - Bit(from \in Creating),
   m |-> Bit(to \in Alive) - Bit(from \in Alive)
           + Bit(to \in Counted) - Bit(from \in Counted)]

LEMMA MoveCounts ==
  ASSUME IsFiniteSet(Threads), NEW p \in [Threads -> ServicePlaces],
         NEW t \in Threads, NEW to \in ServicePlaces,
         NEW n, NEW m, CountersAre(n, m, p)
  PROVE  /\ CountersAre(n + Shift(p[t], to).n, m + Shift(p[t], to).m,
                        [p EXCEPT ![t] = to])
         /\ n \in Nat /\ m \in Nat
         /\ p[t] \in Idle \cup Creating => n > 0
         /\ p[t] \in Alive => m > 0
         /\ n > 0 => In(p, Idle \cup Creating) # {}
<1>1. ASSUME NEW W
      PROVE  /\ Number(p, W) \in Nat
             /\ Number(p, W) = 0 <=> In(p, W) = {}
             /\ Number([p EXCEPT ![t] = to], W)
                  = Number(p, W) + Bit(to \in W) - Bit(p[t] \in W)
  BY NumberChanges
<1>2. \A b : Bit(b) \in {0, 1}
  BY DEF Bit
<1>3. /\ Number(p, Idle) \in Nat /\ Number(p, Creating) \in Nat
      /\ Number(p, Alive) \in Nat /\ Number(p, Counted) \in Nat
  BY <1>1
<1>4. n \in Nat /\ m \in Nat
  BY <1>3 DEF CountersAre
<1>5. CountersAre(n + Shift(p[t], to).n, m + Shift(p[t], to).m, [p EXCEPT ![t] = to])
  <2> DEFINE q == [p EXCEPT ![t] = to]
  <2>1. /\ Number(q, Idle) = Number(p, Idle) + Bit(to \in Idle) - Bit(p[t] \in Idle)
        /\ Number(q, Creating)
             = Number(p, Creating) + Bit(to \in Creating) - Bit(p[t] \in Creating)
        /\ Number(q, Alive) = Number(p, Alive) + Bit(to \in Alive) - Bit(p[t] \in Alive)
        /\ Number(q, Counted)
             = Number(p, Counted) + Bit(to \in Counted) - Bit(p[t] \in Counted)
    BY <1>1
  <2>2. /\ Bit(to \in Idle) \in Int /\ Bit(p[t] \in Idle) \in Int
        /\ Bit(to \in Creating) \in Int /\ Bit(p[t] \in Creating) \in Int
        /\ Bit(to \in Alive) \in Int /\ Bit(p[t] \in Alive) \in Int
        /\ Bit(to \in Counted) \in Int /\ Bit(p[t] \in Counted) \in Int
    BY <1>2
  <2> HIDE DEF q
  <2> QED BY <1>3, <1>4, <2>1, <2>2 DEF CountersAre, Shift, q
<1>6. /\ p[t] \in Idle => In(p, Idle) # {}
      /\ p[t] \in Creating => In(p, Creating) # {}
      /\ p[t] \in Alive => In(p, Alive) # {}
  BY DEF In
<1>7. p[t] \in Idle \cup Creating => n > 0
  BY <1>1, <1>3, <1>6 DEF CountersAre
<1>8. p[t] \in Alive => m > 0
  BY <1>1, <1>3, <1>6 DEF CountersAre
<1>9. n > 0 => In(p, Idle \cup Creating) # {}
  <2>1. n > 0 => In(p, Idle) # {} \/ In(p, Creating) # {}
    BY <1>1, <1>3 DEF CountersAre
  <2> QED BY <2>1 DEF In
<1> QED BY <1>4, <1>5, <1>7, <1>8, <1>9

LEMMA CountersThen ==
  ASSUME pc' \in [Threads -> ServicePlaces],
         CountersAre(nreqthreads', totalthreads', pc')
  PROVE  ThreadsCounted'
<1>1. /\ At(Idle)' = In(pc', Idle) /\ At(Creating)' = In(pc', Creating)
      /\ At(Counted)' = In(pc', Counted)
  BY DEF At, In
<1>2. Threads \ At({"none"})' = In(pc', Alive)
  BY DEF At, In, Alive
<1> QED BY <1>1, <1>2 DEF ThreadsCounted, CountersAre,
           Number, Idle, Creating,
                          Counted

LEMMA CountsFollow ==
  ASSUME ServiceTypeOK, ThreadsCounted,
         NEW t \in Threads, NEW to \in ServicePlaces, Goto(t, to), failed' \in BOOLEAN,
         nreqthreads' = nreqthreads + Shift(pc[t], to).n,
         totalthreads' = totalthreads + Shift(pc[t], to).m
  PROVE  ServiceTypeOK' /\ ThreadsCounted'
<1>1. IsFiniteSet(Threads) /\ pc \in [Threads -> ServicePlaces] /\ pc' = [pc EXCEPT ![t] = to]
  BY ThreadPoolAssumption DEF ServiceTypeOK, Goto
<1>2. pc' \in [Threads -> ServicePlaces]
  BY <1>1
<1>3. CountersAre(nreqthreads, totalthreads, pc)
  BY CountersEquiv
<1>4. CountersAre(nreqthreads', totalthreads', pc')
  BY <1>1, <1>3, MoveCounts
<1>5. nreqthreads' \in Nat /\ totalthreads' \in Nat
  <2>1. \A W : Number(pc', W) \in Nat
    BY <1>1, <1>2, NumberChanges
  <2> QED BY <1>4, <2>1 DEF CountersAre
<1>6. ServiceTypeOK'
  BY <1>2, <1>5 DEF ServiceTypeOK
<1>7. ThreadsCounted'
  BY <1>2, <1>4, CountersThen
<1> QED BY <1>6, <1>7

(* What the counters say of a thread that moves. *)
LEMMA CountsSay ==
  ASSUME ServiceTypeOK, ThreadsCounted, NEW t \in Threads
  PROVE  /\ nreqthreads \in Nat /\ totalthreads \in Nat
         /\ pc[t] \in Idle \cup Creating => nreqthreads > 0
         /\ nreqthreads > 0 => In(pc, Idle \cup Creating) # {}
<1>1. IsFiniteSet(Threads) /\ pc \in [Threads -> ServicePlaces] /\ pc[t] \in ServicePlaces
  BY ThreadPoolAssumption DEF ServiceTypeOK
<1>2. CountersAre(nreqthreads, totalthreads, pc)
  BY CountersEquiv
<1> QED BY <1>1, <1>2, MoveCounts

(* A thread comes online, takes a message, and returns from the handler. *)
LEMMA ServiceStartKeeps ==
  ASSUME ServiceInv, NEW t \in Threads, start(t)
  PROVE  ServiceInv'
<1>1. ServiceTypeOK /\ ThreadsCounted /\ LastOneCares
  BY DEF ServiceInv
<1>2. nreqthreads \in Nat /\ totalthreads \in Nat
  BY <1>1 DEF ServiceTypeOK
<1>3. PICK to \in {"receive"} : Goto(t, to)
  BY DEF start
<1>4. /\ to \in ServicePlaces /\ pc[t] = "start"
      /\ Shift(pc[t], to).n = 0 /\ Shift(pc[t], to).m = 0
  BY <1>3 DEF start, Shift, Bit, Idle, Creating, Alive, Counted, ServicePlaces
<1>5. /\ nreqthreads' = nreqthreads + Shift(pc[t], to).n
      /\ totalthreads' = totalthreads + Shift(pc[t], to).m
      /\ failed' \in BOOLEAN
  BY <1>1, <1>2, <1>4 DEF start, ServiceTypeOK
<1>6. ServiceTypeOK' /\ ThreadsCounted'
  BY <1>1, <1>3, <1>4, <1>5, CountsFollow
<1>7. LastOneCares'
  BY <1>1, <1>2, <1>3, <1>4, <1>5 DEF LastOneCares, At, ServiceTypeOK,
     Goto, start
<1> QED BY <1>6, <1>7 DEF ServiceInv

LEMMA ServiceReceiveKeeps ==
  ASSUME ServiceInv, NEW t \in Threads, NEW m \in Messages, receive(t, m)
  PROVE  ServiceInv'
<1>1. ServiceTypeOK /\ ThreadsCounted /\ LastOneCares
  BY DEF ServiceInv
<1>2. nreqthreads \in Nat /\ totalthreads \in Nat
  BY <1>1 DEF ServiceTypeOK
<1>3. PICK to \in {"got"} : Goto(t, to)
  BY DEF receive
<1>4. /\ to \in ServicePlaces /\ pc[t] = "receive"
      /\ Shift(pc[t], to).n = 0 /\ Shift(pc[t], to).m = 0
  BY <1>3 DEF receive, Shift, Bit, Idle, Creating, Alive, Counted,
     ServicePlaces
<1>5. /\ nreqthreads' = nreqthreads + Shift(pc[t], to).n
      /\ totalthreads' = totalthreads + Shift(pc[t], to).m
      /\ failed' \in BOOLEAN
  BY <1>1, <1>2, <1>4 DEF receive, ServiceTypeOK
<1>6. ServiceTypeOK' /\ ThreadsCounted'
  BY <1>1, <1>3, <1>4, <1>5, CountsFollow
<1>7. LastOneCares'
  BY <1>1, <1>2, <1>3, <1>4, <1>5 DEF LastOneCares, At, ServiceTypeOK,
     Goto, receive
<1> QED BY <1>6, <1>7 DEF ServiceInv

LEMMA ServiceReturnKeeps ==
  ASSUME ServiceInv, NEW t \in Threads, handler_returns(t)
  PROVE  ServiceInv'
<1>1. ServiceTypeOK /\ ThreadsCounted /\ LastOneCares
  BY DEF ServiceInv
<1>2. nreqthreads \in Nat /\ totalthreads \in Nat
  BY <1>1 DEF ServiceTypeOK
<1>3. PICK to \in {"done"} : Goto(t, to)
  BY DEF handler_returns
<1>4. /\ to \in ServicePlaces /\ pc[t] = "handler"
      /\ Shift(pc[t], to).n = 0 /\ Shift(pc[t], to).m = 0
  BY <1>3 DEF handler_returns, Shift, Bit, Idle, Creating, Alive, Counted,
     ServicePlaces
<1>5. /\ nreqthreads' = nreqthreads + Shift(pc[t], to).n
      /\ totalthreads' = totalthreads + Shift(pc[t], to).m
      /\ failed' \in BOOLEAN
  BY <1>1, <1>2, <1>4 DEF handler_returns, ServiceTypeOK
<1>6. ServiceTypeOK' /\ ThreadsCounted'
  BY <1>1, <1>3, <1>4, <1>5, CountsFollow
<1>7. LastOneCares'
  BY <1>1, <1>2, <1>3, <1>4, <1>5 DEF LastOneCares, At, ServiceTypeOK,
     Goto, handler_returns
<1> QED BY <1>6, <1>7 DEF ServiceInv

LEMMA ServiceEndKeeps ==
  ASSUME ServiceInv, NEW t \in Threads, end_request(t)
  PROVE  ServiceInv'
<1>1. ServiceTypeOK /\ ThreadsCounted /\ LastOneCares
  BY DEF ServiceInv
<1>2. nreqthreads \in Nat /\ totalthreads \in Nat
  BY <1>1 DEF ServiceTypeOK
<1>3. PICK to \in {"receive"} : Goto(t, to)
  BY DEF end_request
<1>4. /\ to \in ServicePlaces /\ pc[t] = "done"
      /\ Shift(pc[t], to).n = 1 /\ Shift(pc[t], to).m = 0
  BY <1>3 DEF end_request, Shift, Bit, Idle, Creating, Alive, Counted,
     ServicePlaces
<1>5. /\ nreqthreads' = nreqthreads + Shift(pc[t], to).n
      /\ totalthreads' = totalthreads + Shift(pc[t], to).m
      /\ failed' \in BOOLEAN
  BY <1>1, <1>2, <1>4 DEF end_request, ServiceTypeOK
<1>6. ServiceTypeOK' /\ ThreadsCounted'
  BY <1>1, <1>3, <1>4, <1>5, CountsFollow
<1>7. LastOneCares'
  BY <1>1, <1>2, <1>3, <1>4, <1>5 DEF LastOneCares, At, ServiceTypeOK,
     Goto, end_request
<1> QED BY <1>6, <1>7 DEF ServiceInv

(* It no longer listens; the last one creates another. *)
LEMMA ServiceBeginKeeps ==
  ASSUME ServiceInv, NEW t \in Threads, begin_request(t)
  PROVE  ServiceInv'
<1>1. ServiceTypeOK /\ ThreadsCounted /\ LastOneCares
  BY DEF ServiceInv
<1>2. nreqthreads \in Nat /\ totalthreads \in Nat
  BY <1>1 DEF ServiceTypeOK
<1>3. PICK to \in {"grow", "handler"} : Goto(t, to) /\ (nreqthreads = 1 => to = "grow")
  BY DEF begin_request, last_listener
<1>4. /\ to \in ServicePlaces /\ pc[t] = "got"
      /\ Shift(pc[t], to).n = -1 /\ Shift(pc[t], to).m = 0
  BY <1>3 DEF begin_request, last_listener, Shift, Bit, Idle, Creating,
     Alive, Counted, ServicePlaces
<1>5. /\ nreqthreads' = nreqthreads + Shift(pc[t], to).n
      /\ totalthreads' = totalthreads + Shift(pc[t], to).m
      /\ failed' \in BOOLEAN
  BY <1>1, <1>2, <1>4 DEF begin_request, last_listener, ServiceTypeOK
<1>6. ServiceTypeOK' /\ ThreadsCounted'
  BY <1>1, <1>3, <1>4, <1>5, CountsFollow
<1>7. LastOneCares'
  BY <1>1, <1>2, <1>3, <1>4, <1>5 DEF LastOneCares, At, ServiceTypeOK,
     Goto, begin_request, last_listener
<1> QED BY <1>6, <1>7 DEF ServiceInv

LEMMA ServiceGrowKeeps ==
  ASSUME ServiceInv, NEW t \in Threads, grow(t), pc[t] = "grow"
  PROVE  ServiceInv'
<1>1. ServiceTypeOK /\ ThreadsCounted /\ LastOneCares
  BY DEF ServiceInv
<1>2. nreqthreads \in Nat /\ totalthreads \in Nat
  BY <1>1 DEF ServiceTypeOK
<1>3. PICK to \in {"total"} : Goto(t, to)
  BY DEF grow
<1>4. /\ to \in ServicePlaces /\ pc[t] = "grow"
      /\ Shift(pc[t], to).n = 0 /\ Shift(pc[t], to).m = 1
  BY <1>3 DEF grow, Shift, Bit, Idle, Creating, Alive, Counted, ServicePlaces
<1>5. /\ nreqthreads' = nreqthreads + Shift(pc[t], to).n
      /\ totalthreads' = totalthreads + Shift(pc[t], to).m
      /\ failed' \in BOOLEAN
  BY <1>1, <1>2, <1>4 DEF grow, ServiceTypeOK
<1>6. ServiceTypeOK' /\ ThreadsCounted'
  BY <1>1, <1>3, <1>4, <1>5, CountsFollow
<1>7. LastOneCares'
  BY <1>1, <1>2, <1>3, <1>4, <1>5 DEF LastOneCares, At, ServiceTypeOK,
     Goto, grow
<1> QED BY <1>6, <1>7 DEF ServiceInv

LEMMA ServiceTotalKeeps ==
  ASSUME ServiceInv, NEW t \in Threads, grow(t), pc[t] = "total"
  PROVE  ServiceInv'
<1>1. ServiceTypeOK /\ ThreadsCounted /\ LastOneCares
  BY DEF ServiceInv
<1>2. nreqthreads \in Nat /\ totalthreads \in Nat
  BY <1>1 DEF ServiceTypeOK
<1>3. PICK to \in {"create"} : Goto(t, to)
  BY DEF grow
<1>4. /\ to \in ServicePlaces /\ pc[t] = "total"
      /\ Shift(pc[t], to).n = 1 /\ Shift(pc[t], to).m = 0
  BY <1>3 DEF grow, Shift, Bit, Idle, Creating, Alive, Counted, ServicePlaces
<1>5. /\ nreqthreads' = nreqthreads + Shift(pc[t], to).n
      /\ totalthreads' = totalthreads + Shift(pc[t], to).m
      /\ failed' \in BOOLEAN
  BY <1>1, <1>2, <1>4 DEF grow, ServiceTypeOK
<1>6. ServiceTypeOK' /\ ThreadsCounted'
  BY <1>1, <1>3, <1>4, <1>5, CountsFollow
<1>7. LastOneCares'
  BY <1>1, <1>2, <1>3, <1>4, <1>5 DEF LastOneCares, At, ServiceTypeOK,
     Goto, grow
<1> QED BY <1>6, <1>7 DEF ServiceInv

LEMMA ServiceFailKeeps ==
  ASSUME ServiceInv, NEW t \in Threads, create_fails(t)
  PROVE  ServiceInv'
<1>1. ServiceTypeOK /\ ThreadsCounted /\ LastOneCares
  BY DEF ServiceInv
<1>2. nreqthreads \in Nat /\ totalthreads \in Nat
  BY <1>1 DEF ServiceTypeOK
<1>3. PICK to \in {"shrink"} : Goto(t, to)
  BY DEF create_fails
<1>4. /\ to \in ServicePlaces /\ pc[t] = "create"
      /\ Shift(pc[t], to).n = 0 /\ Shift(pc[t], to).m = 0
  BY <1>3 DEF create_fails, Shift, Bit, Idle, Creating, Alive, Counted,
     ServicePlaces
<1>5. /\ nreqthreads' = nreqthreads + Shift(pc[t], to).n
      /\ totalthreads' = totalthreads + Shift(pc[t], to).m
      /\ failed' \in BOOLEAN
  BY <1>1, <1>2, <1>4 DEF create_fails, ServiceTypeOK
<1>6. ServiceTypeOK' /\ ThreadsCounted'
  BY <1>1, <1>3, <1>4, <1>5, CountsFollow
<1>7. LastOneCares'
  BY <1>1, <1>2, <1>3, <1>4, <1>5 DEF LastOneCares, At, ServiceTypeOK,
     Goto, create_fails
<1> QED BY <1>6, <1>7 DEF ServiceInv

LEMMA ServiceShrinkKeeps ==
  ASSUME ServiceInv, NEW t \in Threads, undo_count(t), pc[t] = "shrink"
  PROVE  ServiceInv'
<1>1. ServiceTypeOK /\ ThreadsCounted /\ LastOneCares
  BY DEF ServiceInv
<1>2. nreqthreads \in Nat /\ totalthreads \in Nat
  BY <1>1 DEF ServiceTypeOK
<1>3. PICK to \in {"nocreate"} : Goto(t, to)
  BY DEF undo_count, uncount
<1>4. /\ to \in ServicePlaces /\ pc[t] = "shrink"
      /\ Shift(pc[t], to).n = 0 /\ Shift(pc[t], to).m = -1
  BY <1>3 DEF undo_count, uncount, Shift, Bit, Idle, Creating, Alive,
     Counted, ServicePlaces
<1>5. /\ nreqthreads' = nreqthreads + Shift(pc[t], to).n
      /\ totalthreads' = totalthreads + Shift(pc[t], to).m
      /\ failed' \in BOOLEAN
  BY <1>1, <1>2, <1>4 DEF undo_count, uncount, ServiceTypeOK
<1>6. ServiceTypeOK' /\ ThreadsCounted'
  BY <1>1, <1>3, <1>4, <1>5, CountsFollow
<1>7. LastOneCares'
  BY <1>1, <1>2, <1>3, <1>4, <1>5 DEF LastOneCares, At, ServiceTypeOK,
     Goto, undo_count, uncount
<1> QED BY <1>6, <1>7 DEF ServiceInv

LEMMA ServiceNoCreateKeeps ==
  ASSUME ServiceInv, NEW t \in Threads, undo_count(t), pc[t] = "nocreate"
  PROVE  ServiceInv'
<1>1. ServiceTypeOK /\ ThreadsCounted /\ LastOneCares
  BY DEF ServiceInv
<1>2. nreqthreads \in Nat /\ totalthreads \in Nat
  BY <1>1 DEF ServiceTypeOK
<1>3. PICK to \in {"handler"} : Goto(t, to)
  BY DEF undo_count, uncount
<1>4. /\ to \in ServicePlaces /\ pc[t] = "nocreate"
      /\ Shift(pc[t], to).n = -1 /\ Shift(pc[t], to).m = 0
  BY <1>3 DEF undo_count, uncount, Shift, Bit, Idle, Creating, Alive,
     Counted, ServicePlaces
<1>5. /\ nreqthreads' = nreqthreads + Shift(pc[t], to).n
      /\ totalthreads' = totalthreads + Shift(pc[t], to).m
      /\ failed' \in BOOLEAN
  BY <1>1, <1>2, <1>4 DEF undo_count, uncount, ServiceTypeOK
<1>6. ServiceTypeOK' /\ ThreadsCounted'
  BY <1>1, <1>3, <1>4, <1>5, CountsFollow
<1>7. LastOneCares'
  BY <1>1, <1>2, <1>3, <1>4, <1>5 DEF LastOneCares, At, ServiceTypeOK,
     Goto, undo_count, uncount
<1> QED BY <1>6, <1>7 DEF ServiceInv

(* A receive that timed out. *)
LEMMA ServiceTimedOutKeeps ==
  ASSUME ServiceInv, NEW t \in Threads, timed_out(t)
  PROVE  ServiceInv'
<1>1. ServiceTypeOK /\ ThreadsCounted /\ LastOneCares
  BY DEF ServiceInv
<1>2. nreqthreads \in Nat /\ totalthreads \in Nat
  BY <1>1 DEF ServiceTypeOK
<1>3. PICK to \in {"timedout"} : Goto(t, to)
  BY DEF timed_out
<1>4. /\ to \in ServicePlaces /\ pc[t] = "receive"
      /\ Shift(pc[t], to).n = 0 /\ Shift(pc[t], to).m = 0
  BY <1>3 DEF timed_out, Shift, Bit, Idle, Creating, Alive, Counted,
     ServicePlaces
<1>5. /\ nreqthreads' = nreqthreads + Shift(pc[t], to).n
      /\ totalthreads' = totalthreads + Shift(pc[t], to).m
      /\ failed' \in BOOLEAN
  BY <1>1, <1>2, <1>4 DEF timed_out, ServiceTypeOK
<1>6. ServiceTypeOK' /\ ThreadsCounted'
  BY <1>1, <1>3, <1>4, <1>5, CountsFollow
<1>7. LastOneCares'
  BY <1>1, <1>2, <1>3, <1>4, <1>5 DEF LastOneCares, At, ServiceTypeOK,
     Goto, timed_out
<1> QED BY <1>6, <1>7 DEF ServiceInv

LEMMA ServiceStopKeeps ==
  ASSUME ServiceInv, NEW t \in Threads, stop_listening(t)
  PROVE  ServiceInv'
<1>1. ServiceTypeOK /\ ThreadsCounted /\ LastOneCares
  BY DEF ServiceInv
<1>2. nreqthreads \in Nat /\ totalthreads \in Nat
  BY <1>1 DEF ServiceTypeOK
<1>3. PICK to \in {"stay", "leave"} : Goto(t, to) /\ (nreqthreads = 1 => to = "stay")
  BY DEF stop_listening, must_stay
<1>4. /\ to \in ServicePlaces /\ pc[t] = "timedout"
      /\ Shift(pc[t], to).n = -1 /\ Shift(pc[t], to).m = 0
  BY <1>3 DEF stop_listening, must_stay, Shift, Bit, Idle, Creating,
     Alive, Counted, ServicePlaces
<1>5. /\ nreqthreads' = nreqthreads + Shift(pc[t], to).n
      /\ totalthreads' = totalthreads + Shift(pc[t], to).m
      /\ failed' \in BOOLEAN
  BY <1>1, <1>2, <1>4 DEF stop_listening, must_stay, ServiceTypeOK
<1>6. ServiceTypeOK' /\ ThreadsCounted'
  BY <1>1, <1>3, <1>4, <1>5, CountsFollow
<1>7. LastOneCares'
  BY <1>1, <1>2, <1>3, <1>4, <1>5 DEF LastOneCares, At, ServiceTypeOK,
     Goto, stop_listening, must_stay
<1> QED BY <1>6, <1>7 DEF ServiceInv

LEMMA ServiceStayKeeps ==
  ASSUME ServiceInv, NEW t \in Threads, stay(t)
  PROVE  ServiceInv'
<1>1. ServiceTypeOK /\ ThreadsCounted /\ LastOneCares
  BY DEF ServiceInv
<1>2. nreqthreads \in Nat /\ totalthreads \in Nat
  BY <1>1 DEF ServiceTypeOK
<1>3. PICK to \in {"receive"} : Goto(t, to)
  BY DEF stay, listen_again
<1>4. /\ to \in ServicePlaces /\ pc[t] = "stay"
      /\ Shift(pc[t], to).n = 1 /\ Shift(pc[t], to).m = 0
  BY <1>3 DEF stay, listen_again, Shift, Bit, Idle, Creating, Alive,
     Counted, ServicePlaces
<1>5. /\ nreqthreads' = nreqthreads + Shift(pc[t], to).n
      /\ totalthreads' = totalthreads + Shift(pc[t], to).m
      /\ failed' \in BOOLEAN
  BY <1>1, <1>2, <1>4 DEF stay, listen_again, ServiceTypeOK
<1>6. ServiceTypeOK' /\ ThreadsCounted'
  BY <1>1, <1>3, <1>4, <1>5, CountsFollow
<1>7. LastOneCares'
  BY <1>1, <1>2, <1>3, <1>4, <1>5 DEF LastOneCares, At, ServiceTypeOK,
     Goto, stay, listen_again
<1> QED BY <1>6, <1>7 DEF ServiceInv

LEMMA ServiceLeaveKeeps ==
  ASSUME ServiceInv, NEW t \in Threads, thread_exits(t)
  PROVE  ServiceInv'
<1>1. ServiceTypeOK /\ ThreadsCounted /\ LastOneCares
  BY DEF ServiceInv
<1>2. nreqthreads \in Nat /\ totalthreads \in Nat
  BY <1>1 DEF ServiceTypeOK
<1>3. PICK to \in {"none"} : Goto(t, to)
  BY DEF thread_exits
<1>4. /\ to \in ServicePlaces /\ pc[t] = "leave"
      /\ Shift(pc[t], to).n = 0 /\ Shift(pc[t], to).m = -1
  BY <1>3 DEF thread_exits, Shift, Bit, Idle, Creating, Alive, Counted, ServicePlaces
<1>5. /\ nreqthreads' = nreqthreads + Shift(pc[t], to).n
      /\ totalthreads' = totalthreads + Shift(pc[t], to).m
      /\ failed' \in BOOLEAN
  BY <1>1, <1>2, <1>4 DEF thread_exits, ServiceTypeOK
<1>6. ServiceTypeOK' /\ ThreadsCounted'
  BY <1>1, <1>3, <1>4, <1>5, CountsFollow
<1>7. LastOneCares'
  BY <1>1, <1>2, <1>3, <1>4, <1>5 DEF LastOneCares, At, ServiceTypeOK,
     Goto, thread_exits
<1> QED BY <1>6, <1>7 DEF ServiceInv

(* pthread_create succeeds: one thread goes on and another one starts. *)
LEMMA ServiceCreateKeeps ==
  ASSUME ServiceInv, NEW t \in Threads,
         NEW new \in Threads, create_thread(t, new)
  PROVE  ServiceInv'
<1>1. ServiceTypeOK /\ ThreadsCounted /\ LastOneCares
  BY DEF ServiceInv
<1> DEFINE p == [pc EXCEPT ![t] = "handler"]
           n == nreqthreads
           m == totalthreads
<1>2. /\ IsFiniteSet(Threads) /\ pc \in [Threads -> ServicePlaces] /\ t # new
      /\ pc[t] = "create" /\ pc[new] = "none"
      /\ n \in Nat /\ m \in Nat
  BY <1>1, ThreadPoolAssumption DEF ServiceTypeOK, create_thread
<1>3. p \in [Threads -> ServicePlaces] /\ p[new] = "none"
  BY <1>2 DEF ServicePlaces
<1>4. pc' = [p EXCEPT ![new] = "start"] /\ UNCHANGED <<nreqthreads, totalthreads, failed>>
  BY <1>2 DEF create_thread
<1>5. CountersAre(n - 1, m - 1, p)
  <2>1. Shift(pc[t], "handler").n = -1 /\ Shift(pc[t], "handler").m = -1
    BY <1>2 DEF Shift, Bit, Idle, Creating, Alive, Counted, ServicePlaces
  <2>2. CountersAre(n, m, pc) /\ "handler" \in ServicePlaces
    BY <1>1, CountersEquiv DEF ServicePlaces
  <2>3. CountersAre(n + Shift(pc[t], "handler").n, m + Shift(pc[t], "handler").m, p)
    BY <1>2, <2>2, MoveCounts
  <2> QED BY <1>2, <2>1, <2>3
<1>6. CountersAre(n, m, pc')
  <2>1. Shift(p[new], "start").n = 1 /\ Shift(p[new], "start").m = 1
    BY <1>3 DEF Shift, Bit, Idle, Creating, Alive, Counted, ServicePlaces
  <2>2. "start" \in ServicePlaces
    BY DEF ServicePlaces
  <2> HIDE DEF p
  <2>3. CountersAre(n - 1 + Shift(p[new], "start").n, m - 1 + Shift(p[new], "start").m,
                    [p EXCEPT ![new] = "start"])
    BY <1>2, <1>3, <1>5, <2>2, MoveCounts
  <2>4. n - 1 + Shift(p[new], "start").n = n /\ m - 1 + Shift(p[new], "start").m = m
    BY <1>2, <2>1
  <2> QED BY <1>4, <2>3, <2>4
<1>7. pc' \in [Threads -> ServicePlaces]
  BY <1>3, <1>4 DEF ServicePlaces
<1>8. ServiceTypeOK'
  BY <1>1, <1>4, <1>7 DEF ServiceTypeOK
<1>9. ThreadsCounted'
  BY <1>4, <1>6, <1>7, CountersThen
<1>10. LastOneCares'
  BY <1>1, <1>2, <1>4 DEF LastOneCares, At
<1> QED BY <1>8, <1>9, <1>10 DEF ServiceInv

LEMMA ServiceInitInv == ServiceInit => ServiceInv
<1> SUFFICES ASSUME ServiceInit PROVE ServiceInv
  OBVIOUS
<1>1. ServiceTypeOK /\ Master \in Threads /\ IsFiniteSet(Threads)
  BY ThreadPoolAssumption DEF ServiceInit, ServiceTypeOK, ServicePlaces
<1>2. /\ In(pc, Idle) = {Master} /\ In(pc, Alive) = {Master}
      /\ In(pc, Creating) = {} /\ In(pc, Counted) = {}
  BY <1>1 DEF ServiceInit, In, Idle, Alive, Creating, Counted, ServicePlaces
<1>3. /\ Number(pc, Idle) = 1 /\ Number(pc, Alive) = 1
      /\ Number(pc, Creating) = 0 /\ Number(pc, Counted) = 0
  BY <1>2, FS_Singleton, FS_EmptySet DEF Number
<1>4. CountersAre(nreqthreads, totalthreads, pc)
  BY <1>3 DEF CountersAre, ServiceInit
<1>5. ThreadsCounted
  BY <1>1, <1>4, CountersEquiv
<1>6. LastOneCares
  <2>1. nreqthreads = 1 /\ \A t \in Threads : pc[t] \in {"start", "none"}
    BY DEF ServiceInit
  <2> QED BY <2>1 DEF LastOneCares, At
<1> QED BY <1>1, <1>5, <1>6 DEF ServiceInv

LEMMA ServiceNextInv ==
  ServiceInv /\ [ServiceNext]_service_vars => ServiceInv'
<1> SUFFICES ASSUME ServiceInv, [ServiceNext]_service_vars PROVE ServiceInv'
  OBVIOUS
<1>1. ASSUME UNCHANGED <<nreqthreads, totalthreads, pc, failed>> PROVE ServiceInv'
  BY <1>1 DEF ServiceInv, ServiceTypeOK, ThreadsCounted, LastOneCares, At
<1>2. ASSUME NEW m \in Messages, send(m) PROVE ServiceInv'
  BY <1>1, <1>2 DEF send
<1>3. ASSUME NEW t \in Threads, ServiceStep(t) PROVE ServiceInv'
  <2>1. ASSUME start(t) \/ begin_request(t) \/ end_request(t) PROVE ServiceInv'
    BY <2>1, ServiceStartKeeps, ServiceBeginKeeps, ServiceEndKeeps
  <2>2. ASSUME grow(t) PROVE ServiceInv'
    <3>1. pc[t] = "grow" \/ pc[t] = "total"
      BY <2>2 DEF grow
    <3> QED BY <2>2, <3>1, ServiceGrowKeeps, ServiceTotalKeeps
  <2>3. ASSUME undo_count(t) PROVE ServiceInv'
    <3>1. pc[t] = "shrink" \/ pc[t] = "nocreate"
      BY <2>3 DEF undo_count
    <3> QED BY <2>3, <3>1, ServiceShrinkKeeps, ServiceNoCreateKeeps
  <2>4. ASSUME stop_listening(t) \/ stay(t) \/ thread_exits(t) PROVE ServiceInv'
    BY <2>4, ServiceStopKeeps, ServiceStayKeeps, ServiceLeaveKeeps
  <2>5. ASSUME create_fails(t) \/ \E new \in Threads : create_thread(t, new)
        PROVE  ServiceInv'
    BY <2>5, ServiceFailKeeps, ServiceCreateKeeps
  <2> QED BY <1>3, <2>1, <2>2, <2>3, <2>4, <2>5 DEF ServiceStep
<1>4. ASSUME NEW t \in Threads,
             handler_returns(t) \/ timed_out(t) \/ \E m \in Messages : receive(t, m)
      PROVE  ServiceInv'
  BY <1>4, ServiceReturnKeeps, ServiceTimedOutKeeps, ServiceReceiveKeeps
<1>5. CASE UNCHANGED service_vars
  BY <1>1, <1>5 DEF service_vars
<1> QED BY <1>2, <1>3, <1>4, <1>5 DEF ServiceNext

LEMMA ServiceInvariance ==
  ServiceSpec => []ServiceInv
<1>1. ServiceInit => ServiceInv
  BY ServiceInitInv
<1>2. ServiceInv /\ [ServiceNext]_service_vars => ServiceInv'
  BY ServiceNextInv
<1> QED BY <1>1, <1>2, PTL DEF ServiceSpec

(* The unlocked counters of manage-multithread.c are exact at every step,  *)
(* though a thread changes them one after the other.                       *)
THEOREM ServiceCountersExact ==
  ServiceSpec => []ThreadsCounted
<1>1. ServiceInv => ThreadsCounted
  BY DEF ServiceInv
<1> QED BY <1>1, ServiceInvariance, PTL

(* As long as pthread_create does not fail, some thread listens or will    *)
(* without waiting for a handler: two threads that see that they are the   *)
(* last listener at the same time cannot both leave.                       *)
THEOREM SomebodyListens ==
  ServiceSpec => []ListenerReady
<1>1. ServiceInv => ListenerReady
  <2> SUFFICES ASSUME ServiceInv, ~failed PROVE Listening # {}
    BY DEF ListenerReady
  <2>1. ServiceTypeOK /\ ThreadsCounted /\ LastOneCares
    BY DEF ServiceInv
  <2>2. PICK t \in Threads : TRUE
    BY ThreadPoolAssumption
  <2>3. CASE nreqthreads = 0
    BY <2>1, <2>3 DEF LastOneCares, At, Listening
  <2>4. CASE nreqthreads > 0
    <3>1. In(pc, Idle \cup Creating) # {}
      BY <2>1, <2>2, <2>4, CountsSay
    <3> QED BY <2>1, <3>1 DEF In, Idle, Creating, LastOneCares, At,
               Listening
  <2> QED BY <2>1, <2>3, <2>4 DEF ServiceTypeOK
<1> QED BY <1>1, ServiceInvariance, PTL
=============================================================================
