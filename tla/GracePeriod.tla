----------------------------- MODULE GracePeriod -----------------------------
(***************************************************************************)
(* What the deferred release of libports/port-deref-deferred.c promises,   *)
(* without colours, generations or counters: the reference of a destroyed  *)
(* port object is dropped only when every thread that was running at the   *)
(* time of its deferral has since gone through a quiescent state.          *)
(* ThreadPool implements this specification.                               *)
(***************************************************************************)

CONSTANTS
  Threads,    \* threads that may serve the bucket
  Objects,    \* port_info objects of the bucket
  NoObject    \* "no payload"

VARIABLES
  running,    \* threads that have joined the pool
  payload,    \* object whose address a thread has dequeued and may still use
  right,      \* life of the receive right and of the deferred reference
  grace       \* threads that have yet to become quiescent, per object

gpvars == <<running, payload, right, grace>>

Life == {"alive", "destroyed", "deferred", "released", "leaked"}

GPTypeOK ==
  /\ running \subseteq Threads
  /\ payload \in [Threads -> Objects \cup {NoObject}]
  /\ right \in [Objects -> Life]
  /\ grace \in [Objects -> SUBSET Threads]

GPInit ==
  /\ running = {}
  /\ payload = [t \in Threads |-> NoObject]
  /\ right = [o \in Objects |-> "alive"]
  /\ grace = [o \in Objects |-> {}]

(* A thread joins the pool. *)
Join(t) ==
  /\ t \notin running
  /\ running' = running \cup {t}
  /\ UNCHANGED <<payload, right, grace>>

(* A running thread learns the address of an object whose right exists. *)
Obtain(t, o) ==
  /\ t \in running
  /\ payload[t] = NoObject
  /\ right[o] = "alive"
  /\ payload' = [payload EXCEPT ![t] = o]
  /\ UNCHANGED <<running, right, grace>>

(* A running thread is quiescent: it holds no address, and no object waits *)
(* for it any longer.                                                      *)
Quiesce(t) ==
  /\ t \in running
  /\ payload' = [payload EXCEPT ![t] = NoObject]
  /\ grace' = [o \in Objects |-> grace[o] \ {t}]
  /\ UNCHANGED <<running, right>>

(* A thread that holds no address leaves the pool. *)
Leave(t) ==
  /\ t \in running
  /\ payload[t] = NoObject
  /\ running' = running \ {t}
  /\ grace' = [o \in Objects |-> grace[o] \ {t}]
  /\ UNCHANGED <<payload, right>>

(* The receive right of an object is destroyed. *)
Destroy(o) ==
  /\ right[o] = "alive"
  /\ right' = [right EXCEPT ![o] = "destroyed"]
  /\ UNCHANGED <<running, payload, grace>>

(* Its reference is handed to the pool, or lost for want of memory. *)
Defer(o) ==
  /\ right[o] = "destroyed"
  /\ right' = [right EXCEPT ![o] = "deferred"]
  /\ grace' = [grace EXCEPT ![o] = running]
  /\ UNCHANGED <<running, payload>>

Lose(o) ==
  /\ right[o] = "destroyed"
  /\ right' = [right EXCEPT ![o] = "leaked"]
  /\ UNCHANGED <<running, payload, grace>>

(* The grace period of an object is over: its reference is dropped. *)
Release(o) ==
  /\ right[o] = "deferred"
  /\ grace[o] = {}
  /\ right' = [right EXCEPT ![o] = "released"]
  /\ UNCHANGED <<running, payload, grace>>

GPNext ==
  \/ \E t \in Threads : \/ Join(t) \/ Quiesce(t) \/ Leave(t)
                        \/ \E o \in Objects : Obtain(t, o)
  \/ \E o \in Objects : Destroy(o) \/ Defer(o) \/ Lose(o) \/ Release(o)

GPSpec == GPInit /\ [][GPNext]_gpvars

(* No thread holds the address of an object whose reference was dropped:   *)
(* the payload lookup in ports_lookup_payload touches live memory only.    *)
NoStalePayload ==
  \A t \in Threads : \A o \in Objects :
    payload[t] = o => right[o] # "released"

(* The inductive strengthening of NoStalePayload: only running threads     *)
(* hold addresses, and a deferred object waits for every thread that       *)
(* holds its address.                                                      *)
HoldersAwaited ==
  \A t \in Threads : \A o \in Objects :
    payload[t] = o => /\ t \in running
                      /\ right[o] # "released"
                      /\ right[o] = "deferred" => t \in grace[o]
=============================================================================
