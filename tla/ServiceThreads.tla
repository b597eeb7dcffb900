--------------------------- MODULE ServiceThreads ---------------------------
(***************************************************************************)
(* The service threads of libports/manage-multithread.c: when a thread     *)
(* takes a message and no other thread would be listening, it creates one; *)
(* a thread that hears nothing for thread_timeout leaves unless it is the  *)
(* last listener.  The two counters are shared without a lock, by atomic   *)
(* operations; each one is an action.                                      *)
(***************************************************************************)
EXTENDS ServiceLoop, Integers, FiniteSets

CONSTANTS
  Messages,    \* requests, one outstanding per client
  CreateFails  \* may pthread_create fail?

ASSUME ServiceThreadsAssumption ==
  /\ IsFiniteSet(Threads) /\ Master \in Threads
  /\ Threads \cap {"none", "queued"} = {}
  /\ CreateFails \in BOOLEAN

VARIABLES
  nreqthreads,   \* threads not currently servicing any client
  totalthreads,  \* threads created
  requests,      \* per client: no request, queued, or the thread serving it
  failed         \* history: pthread_create has failed

service_vars == <<pc, nreqthreads, totalthreads, requests, failed>>

At(where) == {t \in Threads : pc[t] \in where}

(* Threads that listen, or will without waiting for a handler, and threads *)
(* that are about to see whether anybody else listens.                     *)
Listening == At({"start", "receive", "timedout", "stay", "got", "grow", "total", "create"})

ServiceInit ==
  /\ nreqthreads = 1 /\ totalthreads = 1
  /\ pc = [t \in Threads |-> IF t = Master THEN "start" ELSE "none"]
  /\ requests = [m \in Messages |-> "none"]
  /\ failed = FALSE

Goto(t, to) == pc' = [pc EXCEPT ![t] = to]

(* A client sends a request. *)
send(m) ==
  /\ requests[m] = "none"
  /\ requests' = [requests EXCEPT ![m] = "queued"]
  /\ UNCHANGED <<nreqthreads, totalthreads, pc, failed>>

(* adjust_priority, the hook and _ports_thread_online. *)
start(t) ==
  /\ pc[t] = "start"
  /\ Goto(t, "receive")
  /\ UNCHANGED <<nreqthreads, totalthreads, requests, failed>>

(* mach_msg hands a request to some thread that listens. *)
receive(t, m) ==
  /\ pc[t] = "receive" /\ requests[m] = "queued"
  /\ requests' = [requests EXCEPT ![m] = t]
  /\ Goto(t, "got")
  /\ UNCHANGED <<nreqthreads, totalthreads, failed>>

(* internal_demuxer: the thread no longer listens; was it the last one?    *)
\* a wrong last_listener, for the mutants
never_last_listener == FALSE
last_listener       == nreqthreads = 1

begin_request(t) ==
  /\ pc[t] = "got"
  /\ nreqthreads' = nreqthreads - 1
  /\ Goto(t, IF last_listener THEN "grow" ELSE "handler")
  /\ UNCHANGED <<totalthreads, requests, failed>>

(* It creates another: both counters first, then pthread_create, and on    *)
(* failure both counters again.                                            *)
grow(t) ==
  /\ \/ /\ pc[t] = "grow"
        /\ totalthreads' = totalthreads + 1
        /\ Goto(t, "total")
        /\ UNCHANGED nreqthreads
     \/ /\ pc[t] = "total"
        /\ nreqthreads' = nreqthreads + 1
        /\ Goto(t, "create")
        /\ UNCHANGED totalthreads
  /\ UNCHANGED <<requests, failed>>

create_thread(t, new) ==
  /\ pc[t] = "create" /\ pc[new] = "none"
  /\ pc' = [pc EXCEPT ![t] = "handler", ![new] = "start"]
  /\ UNCHANGED <<nreqthreads, totalthreads, requests, failed>>

create_fails(t) ==
  /\ CreateFails
  /\ pc[t] = "create"
  /\ failed' = TRUE
  /\ Goto(t, "shrink")
  /\ UNCHANGED <<nreqthreads, totalthreads, requests>>

\* a wrong uncount, for the mutants
keep_count(n) == n
uncount(n)    == n - 1

undo_count(t) ==
  /\ \/ /\ pc[t] = "shrink"
        /\ totalthreads' = uncount(totalthreads)
        /\ Goto(t, "nocreate")
        /\ UNCHANGED nreqthreads
     \/ /\ pc[t] = "nocreate"
        /\ nreqthreads' = uncount(nreqthreads)
        /\ Goto(t, "handler")
        /\ UNCHANGED totalthreads
  /\ UNCHANGED <<requests, failed>>

(* The handler returns; then the thread listens again. *)
handler_returns(t) ==
  /\ pc[t] = "handler"
  /\ requests' = [m \in Messages |-> IF requests[m] = t THEN "none" ELSE requests[m]]
  /\ Goto(t, "done")
  /\ UNCHANGED <<nreqthreads, totalthreads, failed>>

end_request(t) ==
  /\ pc[t] = "done"
  /\ nreqthreads' = nreqthreads + 1
  /\ Goto(t, "receive")
  /\ UNCHANGED <<totalthreads, requests, failed>>

-----------------------------------------------------------------------------
(* The receive times out.  The master has no timeout and goes on; another  *)
(* thread stops listening, and comes back if nobody else listens.          *)
timed_out(t) ==
  /\ pc[t] = "receive" /\ t # Master
  /\ Goto(t, "timedout")
  /\ UNCHANGED <<nreqthreads, totalthreads, requests, failed>>

\* a wrong must_stay, for the mutants
never_stay == FALSE
must_stay  == nreqthreads = 1

stop_listening(t) ==
  /\ pc[t] = "timedout"
  /\ nreqthreads' = nreqthreads - 1
  /\ Goto(t, IF must_stay THEN "stay" ELSE "leave")
  /\ UNCHANGED <<totalthreads, requests, failed>>

listen_again == nreqthreads + 1

stay(t) ==
  /\ pc[t] = "stay"
  /\ nreqthreads' = listen_again
  /\ Goto(t, "receive")
  /\ UNCHANGED <<totalthreads, requests, failed>>

(* The thread goes offline and exits. *)
thread_exits(t) ==
  /\ pc[t] = "leave"
  /\ totalthreads' = totalthreads - 1
  /\ Goto(t, "none")
  /\ UNCHANGED <<nreqthreads, requests, failed>>

ServiceStep(t) ==
  \/ start(t) \/ begin_request(t) \/ grow(t) \/ undo_count(t)
  \/ end_request(t) \/ stop_listening(t) \/ stay(t) \/ thread_exits(t)
  \/ \E new \in Threads : create_thread(t, new)
  \/ create_fails(t)

ServiceNext ==
  \/ \E m \in Messages : send(m)
  \/ \E t \in Threads : \/ ServiceStep(t)
                        \/ \E m \in Messages : receive(t, m)
                        \/ handler_returns(t) \/ timed_out(t)

ServiceSpec == ServiceInit /\ [][ServiceNext]_service_vars

(* Threads run and the kernel delivers, but a handler may block for ever:  *)
(* it may be waiting for a request that this server has still to serve.    *)
ServiceFairness ==
  /\ \A t \in Threads : WF_service_vars(ServiceStep(t))
  /\ \A m \in Messages : SF_service_vars(\E t \in Threads : receive(t, m))

ServiceFairSpec == ServiceSpec /\ ServiceFairness

-----------------------------------------------------------------------------
(* nreqthreads counts the threads that have not begun a request,           *)
(* totalthreads the threads that exist; both also count a thread that is   *)
(* about to be created, for as long as its creator has it counted.         *)
ThreadsCounted ==
  /\ nreqthreads = Cardinality(At({"start", "receive", "got", "timedout"}))
                   + Cardinality(At({"create", "shrink", "nocreate"}))
  /\ totalthreads = Cardinality(Threads \ At({"none"}))
                    + Cardinality(At({"total", "create", "shrink"}))

(* As long as threads can be created, some thread listens for requests or  *)
(* another one will without waiting for any handler, so that handlers may  *)
(* call back into their own server.                                        *)
ListenerReady ==
  ~failed => Listening # {}

(* Every request is received, even if no handler ever returns, as long as  *)
(* threads can be created.                                                 *)
RequestReceived ==
  \A m \in Messages : requests[m] = "queued" ~> requests[m] # "queued" \/ failed
=============================================================================
