----------------------------- MODULE ThreadPool -----------------------------
(***************************************************************************)
(* The deferred release of port objects in libports                        *)
(* (libports/port-deref-deferred.c), driven by the service loop of         *)
(* libports/manage-multithread.c and by libports/destroy-right.c.          *)
(*                                                                         *)
(* A service thread dequeues a message that carries the address of a port  *)
(* object as its payload and only later takes a reference to the object.   *)
(* The reference that stood for the send rights of a destroyed port is     *)
(* therefore not dropped at once: the object goes on a list of the thread  *)
(* pool, which drops the reference when every thread that was running has  *)
(* gone through a quiescent state.  Threads and objects live in two        *)
(* generations told apart by a colour bit.                                 *)
(*                                                                         *)
(* Each critical section under pool->lock is one action.                   *)
(***************************************************************************)
EXTENDS ServiceLoop, Integers, FiniteSets

CONSTANTS
  Objects,       \* port_info objects of the bucket
  NoObject,      \* "no payload"
  EarlyDestroy   \* may a right be destroyed before Master is online?

ASSUME ThreadPoolAssumption ==
  /\ IsFiniteSet(Threads)
  /\ Master \in Threads
  /\ NoObject \notin Objects
  /\ EarlyDestroy \in BOOLEAN

VARIABLES
  color,          \* pool->color
  old_threads,    \* pool->old_threads
  old_objects,    \* pool->old_objects, as a set
  young_threads,  \* pool->young_threads
  young_objects,  \* pool->young_objects, as a set
  thread_color,   \* thread->color of each thread
  payload,        \* the object whose address the thread has dequeued
  free_list,      \* the local list of _ports_thread_quiescent
  right,          \* life of each object's receive right and reference
  aborted,        \* an assert_backtrace of this file has failed
  grace           \* history: threads not quiescent since the deferral

pool == <<color, old_threads, old_objects, young_threads, young_objects>>
vars == <<color, old_threads, old_objects, young_threads, young_objects,
          thread_color, pc, payload, free_list, right, aborted, grace>>

COLOR_BLACK   == 0
COLOR_WHITE   == 1
COLOR_INVALID == 2

valid_color(c) == c \in {COLOR_BLACK, COLOR_WHITE}
flip_color(c)  == 1 - c

(* The threads in the pool, and the two generations. *)
Online == {t \in Threads : valid_color(thread_color[t])}
Old    == {t \in Threads : thread_color[t] = color}
Young  == {t \in Threads : thread_color[t] = flip_color(color)}

-----------------------------------------------------------------------------
(* _ports_threadpool_init; every object has its receive right and one      *)
(* reference that stands for its send rights.                              *)
Init ==
  /\ color = COLOR_BLACK
  /\ old_threads = 0   /\ old_objects = {}
  /\ young_threads = 0 /\ young_objects = {}
  /\ thread_color = [t \in Threads |-> COLOR_INVALID]
  /\ pc = [t \in Threads |-> "offline"]
  /\ payload = [t \in Threads |-> NoObject]
  /\ free_list = [t \in Threads |-> {}]
  /\ right = [o \in Objects |-> "alive"]
  /\ aborted = FALSE
  /\ grace = [o \in Objects |-> {}]

(* flip_generations, when the pool has YT young threads and YO young       *)
(* objects: the young generation becomes the old one.                      *)
\* a wrong flip_generations, for the mutants
flip_generations_same_color(YT, YO) ==
  /\ old_threads' = YT   /\ old_objects' = YO
  /\ young_threads' = 0  /\ young_objects' = {}
  /\ UNCHANGED color

flip_generations(YT, YO) ==
  /\ old_threads' = YT   /\ old_objects' = YO
  /\ young_threads' = 0  /\ young_objects' = {}
  /\ color' = flip_color(color)

(* _ports_thread_online.  The service loop starts with the master thread,  *)
(* the others are created while it serves.                                 *)
thread_online(t) ==
  /\ ~aborted
  /\ pc[t] = "offline"
  /\ t = Master \/ pc[Master] # "offline"
  /\ thread_color' = [thread_color EXCEPT ![t] = flip_color(color)]
  /\ young_threads' = young_threads + 1
  /\ pc' = [pc EXCEPT ![t] = "receive"]
  /\ UNCHANGED <<color, old_threads, old_objects, young_objects, payload,
                 free_list, right, aborted, grace>>

(* mach_msg in mach_msg_server_timeout dequeues a message for object O.    *)
(* The kernel hands out messages only while the receive right exists.      *)
mach_msg_receive(t, o) ==
  /\ ~aborted
  /\ pc[t] = "receive"
  /\ right[o] = "alive"
  /\ payload' = [payload EXCEPT ![t] = o]
  /\ pc' = [pc EXCEPT ![t] = "demux"]
  /\ UNCHANGED <<pool, thread_color, free_list, right, aborted, grace>>

(* A thread of the old generation, the last such thread, and the objects   *)
(* whose references its quiescent state lets go.                           *)
is_old(t) == thread_color[t] = color

\* a wrong last_old, for the mutants
never_last == FALSE
last_old == old_threads = 1

\* a wrong expired, for the mutants
expired_with_young == old_objects \cup young_objects
expired            == old_objects

(* The critical section of _ports_thread_quiescent, with the history       *)
(* update that records the quiescent state.                                *)
quiescent(t) ==
  /\ IF thread_color[t] = color
     THEN /\ thread_color' = [thread_color EXCEPT ![t] = flip_color(@)]
          /\ IF last_old
             THEN /\ free_list' = [free_list EXCEPT ![t] = expired]
                  /\ flip_generations(young_threads + 1, young_objects)
             ELSE /\ old_threads' = old_threads - 1
                  /\ young_threads' = young_threads + 1
                  /\ UNCHANGED <<color, old_objects, young_objects, free_list>>
     ELSE UNCHANGED <<pool, thread_color, free_list>>
  /\ payload' = [payload EXCEPT ![t] = NoObject]
  /\ grace' = [o \in Objects |-> grace[o] \ {t}]
  /\ UNCHANGED <<right, aborted>>

(* synchronized_demuxer: the handler returned, and with it every use of    *)
(* the payload; the thread is quiescent.                                   *)
demuxer_done(t) ==
  /\ ~aborted
  /\ pc[t] = "demux"
  /\ quiescent(t)
  /\ pc' = [pc EXCEPT ![t] = "free"]

(* mach_msg_server_timeout returned (timeout or error): quiescent again.   *)
receive_timeout(t) ==
  /\ ~aborted
  /\ pc[t] = "receive"
  /\ quiescent(t)
  /\ pc' = [pc EXCEPT ![t] = "timedout"]

(* The loop at the end of _ports_thread_quiescent: ports_port_deref drops  *)
(* the reference of one object of the free list.                           *)
free_one(t, o) ==
  /\ ~aborted
  /\ o \in free_list[t]
  /\ free_list' = [free_list EXCEPT ![t] = @ \ {o}]
  /\ right' = [right EXCEPT ![o] = "released"]
  /\ UNCHANGED <<pool, thread_color, pc, payload, aborted, grace>>

(* Back to receiving; after a timeout a thread other than the master may   *)
(* decide to leave (ServiceThreads models that decision).                  *)
start_over(t) ==
  /\ ~aborted
  /\ pc[t] \in {"free", "timedout"}
  /\ free_list[t] = {}
  /\ pc' = [pc EXCEPT ![t] = "receive"]
  /\ UNCHANGED <<pool, thread_color, payload, free_list, right, aborted, grace>>

leave(t) ==
  /\ ~aborted
  /\ pc[t] = "timedout"
  /\ free_list[t] = {}
  /\ t # Master
  /\ pc' = [pc EXCEPT ![t] = "leaving"]
  /\ UNCHANGED <<pool, thread_color, payload, free_list, right, aborted, grace>>

(* _ports_thread_offline: only a young thread leaves; an old one goes      *)
(* through _ports_thread_quiescent first and retries.                      *)
thread_offline(t) ==
  /\ ~aborted
  /\ pc[t] = "leaving"
  /\ free_list[t] = {}
  /\ \/ /\ is_old(t)
        /\ quiescent(t)
        /\ UNCHANGED pc
     \/ /\ ~is_old(t)
        /\ thread_color' = [thread_color EXCEPT ![t] = COLOR_INVALID]
        /\ young_threads' = young_threads - 1
        /\ pc' = [pc EXCEPT ![t] = "offline"]
        /\ grace' = [o \in Objects |-> grace[o] \ {t}]
        /\ UNCHANGED <<color, old_threads, old_objects, young_objects,
                       payload, free_list, right, aborted>>

(* ports_destroy_right up to mach_port_mod_refs: the receive right goes    *)
(* away, so no further message with this payload is dequeued.              *)
destroy_right(o) ==
  /\ ~aborted
  /\ EarlyDestroy \/ pc[Master] # "offline"
  /\ right[o] = "alive"
  /\ right' = [right EXCEPT ![o] = "destroyed"]
  /\ UNCHANGED <<pool, thread_color, pc, payload, free_list, aborted, grace>>

(* _ports_port_deref_deferred.  Without old threads the generations are    *)
(* flipped at once; the assertion that the list of old objects is empty    *)
(* aborts the server when it fails.                                        *)
\* a wrong must_flip, for the mutants
never_flip == FALSE
must_flip  == old_threads = 0

deref_deferred(o) ==
  /\ ~aborted
  /\ right[o] = "destroyed"
  /\ right' = [right EXCEPT ![o] = "deferred"]
  /\ grace' = [grace EXCEPT ![o] = Online]
  /\ \/ /\ ~must_flip
        /\ young_objects' = young_objects \cup {o}
        /\ UNCHANGED <<color, old_threads, old_objects, young_threads, aborted>>
     \/ /\ must_flip /\ old_objects = {}
        /\ flip_generations(young_threads, young_objects \cup {o})
        /\ UNCHANGED aborted
     \/ /\ must_flip /\ old_objects # {}
        /\ young_objects' = young_objects \cup {o}
        /\ aborted' = TRUE
        /\ UNCHANGED <<color, old_threads, old_objects, young_threads>>
  /\ UNCHANGED <<thread_color, pc, payload, free_list>>

(* _ports_port_deref_deferred when malloc fails: the reference is leaked.  *)
deref_deferred_nomem(o) ==
  /\ ~aborted
  /\ right[o] = "destroyed"
  /\ right' = [right EXCEPT ![o] = "leaked"]
  /\ UNCHANGED <<pool, thread_color, pc, payload, free_list, aborted, grace>>

ThreadStep(t) ==
  \/ demuxer_done(t)
  \/ receive_timeout(t)
  \/ \E o \in Objects : free_one(t, o)
  \/ start_over(t)
  \/ thread_offline(t)

Next ==
  \/ \E t \in Threads : \/ thread_online(t)
                        \/ \E o \in Objects : mach_msg_receive(t, o)
                        \/ ThreadStep(t)
                        \/ leave(t)
  \/ \E o \in Objects : \/ destroy_right(o)
                        \/ deref_deferred(o)
                        \/ deref_deferred_nomem(o)

Spec == Init /\ [][Next]_vars

(* A thread in the service loop keeps running: its handlers return, its    *)
(* receive times out after at most ten seconds, and it finishes the free   *)
(* list.                                                                   *)
Fairness == \A t \in Threads : WF_vars(ThreadStep(t))

FairSpec == Spec /\ Fairness

-----------------------------------------------------------------------------
(* Type correctness of the pool, the threads and the objects. *)
TypeOK ==
  /\ color \in {COLOR_BLACK, COLOR_WHITE}
  /\ old_threads \in Nat /\ young_threads \in Nat
  /\ old_objects \subseteq Objects /\ young_objects \subseteq Objects
  /\ thread_color \in [Threads -> {COLOR_BLACK, COLOR_WHITE, COLOR_INVALID}]
  /\ pc \in [Threads -> {"offline", "receive", "demux", "free", "timedout", "leaving"}]
  /\ payload \in [Threads -> Objects \cup {NoObject}]
  /\ free_list \in [Threads -> SUBSET Objects]
  /\ right \in [Objects -> {"alive", "destroyed", "deferred", "released", "leaked"}]
  /\ aborted \in BOOLEAN
  /\ grace \in [Objects -> SUBSET Threads]

(* The counters of the pool count the threads of each generation           *)
(* (port-deref-deferred.c keeps them apart from the threads' own colours,  *)
(* and a decrement of a zero size_t would wrap).                           *)
CountersMatch ==
  /\ old_threads = Cardinality(Old)
  /\ young_threads = Cardinality(Young)

(* An object waits in exactly one list: in the old one only for old        *)
(* threads, in the young one for any thread of the pool, in a free list    *)
(* for nobody.                                                             *)
GraceOrder ==
  /\ \A o \in old_objects : grace[o] \subseteq Old
  /\ \A o \in young_objects : grace[o] \subseteq Old \cup Young
  /\ \A t \in Threads : \A o \in free_list[t] : grace[o] = {}

(* No thread holds the address of an object whose reference was dropped.   *)
NoStalePayload ==
  \A t \in Threads : \A o \in Objects :
    payload[t] = o => right[o] # "released"

(* The assertions of port-deref-deferred.c hold: flip_generations never    *)
(* overwrites a non-empty list of old objects.                             *)
NoAbort == ~aborted

(* A deferred reference is dropped in the end: no object is forgotten in   *)
(* a generation that is never freed.                                       *)
DeferredIsReleased ==
  \A o \in Objects : (right[o] = "deferred") ~> (right[o] = "released")

(* The inductive invariant of the proofs.  Each deferred object is in one  *)
(* list; only a thread in a handler holds a payload, and a deferred object *)
(* still waits for it; once the master is online an empty old generation   *)
(* has no objects.                                                         *)
ListsDisjoint ==
  /\ \A o \in old_objects \cup young_objects : right[o] = "deferred"
  /\ old_objects \cap young_objects = {}
  /\ \A t \in Threads : \A o \in free_list[t] :
       /\ right[o] = "deferred"
       /\ o \notin old_objects \cup young_objects
       /\ \A u \in Threads \ {t} : o \notin free_list[u]

HoldersAwaited ==
  \A t \in Threads : \A o \in Objects :
    payload[t] = o => /\ right[o] # "released"
                      /\ right[o] = "deferred" => t \in grace[o]

ControlState ==
  \A t \in Threads :
    /\ pc[t] = "offline" <=> thread_color[t] = COLOR_INVALID
    /\ pc[t] # "demux" => payload[t] = NoObject
    /\ pc[t] \in {"offline", "receive", "demux"} => free_list[t] = {}
    /\ pc[t] = "leaving" => t # Master

StartedFirst ==
  /\ pc[Master] = "offline" => \A o \in Objects : right[o] = "alive"
  /\ old_threads = 0 => old_objects = {}
  /\ ~aborted

Inv ==
  /\ TypeOK /\ CountersMatch /\ GraceOrder
  /\ ListsDisjoint /\ HoldersAwaited /\ ControlState
  /\ ~EarlyDestroy => StartedFirst

(* ThreadPool implements the grace period specification. *)
GP == INSTANCE GracePeriod WITH running <- Online
GracePeriodSpec == GP!GPSpec
=============================================================================
