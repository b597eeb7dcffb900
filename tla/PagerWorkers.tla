---------------------------- MODULE PagerWorkers ----------------------------
(***************************************************************************)
(* The worker pool of libpager (demuxer.c).  One thread puts the messages  *)
(* to the pagers into a queue, workers take them.  A worker has a tag, the *)
(* object that it works on, and a queue of its own in which the others put *)
(* further requests to that object.  pager_inhibit_workers waits until all *)
(* workers sleep while new requests go into another queue, and             *)
(* pager_resume_workers lets them go on.  A step is what a thread does     *)
(* while it holds requests->lock.                                          *)
(***************************************************************************)
EXTENDS Integers, FiniteSets, Sequences

CONSTANTS
  Workers,
  Objects,     \* ports of pagers
  Kinds,       \* routines and arguments of requests
  None,
  MaxQueued    \* bound: requests that wait for a worker

ASSUME PagerWorkersAssumption ==
  /\ Workers # {}
  /\ None \notin Objects
  /\ None \notin Kinds

VARIABLES
  queue_out,   \* the queue to take from
  queue_in,    \* the new queue, while the workers are inhibited
  split,       \* queue_in # queue_out
  pc,          \* "ready" to look for work, "asleep" or "run"
  tag,         \* the object a worker works on
  own,         \* requests that were delegated to a worker
  cur,         \* the request that a worker serves
  woken,       \* sleeping workers whose condition was signalled
  inhib        \* the inhibiting thread: "idle", "wait", "woken", "done"

vars == <<queue_out, queue_in, split, pc, tag, own, cur, woken, inhib>>

Request == [obj : Objects, kind : Kinds]

Asleep == {w \in Workers : pc[w] = "asleep"}

(* pager_start_workers. *)
Init ==
  /\ queue_out = <<>> /\ queue_in = <<>> /\ split = FALSE
  /\ pc = [w \in Workers |-> "ready"]
  /\ tag = [w \in Workers |-> None]
  /\ own = [w \in Workers |-> <<>>]
  /\ cur = [w \in Workers |-> None]
  /\ woken = {}
  /\ inhib = "idle"

-----------------------------------------------------------------------------
(* pthread_cond_signal wakes one of the workers that wait, if any. *)
\* a wrong signal_wakeup, for the mutants
no_signal == UNCHANGED woken

signal_wakeup ==
  LET waiting == Asleep \ woken
  IN IF waiting = {} THEN UNCHANGED woken
     ELSE \E w \in waiting : woken' = woken \cup {w}

(* pager_demuxer. *)
pager_demuxer(r) ==
  /\ IF split
       THEN /\ queue_in' = Append(queue_in, r)
            /\ UNCHANGED <<queue_out, woken>>
       ELSE /\ queue_out' = Append(queue_out, r)
            /\ signal_wakeup
            /\ UNCHANGED queue_in
  /\ UNCHANGED <<split, pc, tag, own, cur, inhib>>

(* worker_func finds a request in its own queue. *)
take_own(w) ==
  /\ pc[w] = "ready"
  /\ own[w] # <<>>
  /\ cur' = [cur EXCEPT ![w] = Head(own[w])]
  /\ own' = [own EXCEPT ![w] = Tail(@)]
  /\ pc' = [pc EXCEPT ![w] = "run"]
  /\ UNCHANGED <<queue_out, queue_in, split, tag, woken, inhib>>

(* Worker W works on no object.  It takes requests from the queue and      *)
(* delegates those to an object that another worker has claimed, until it  *)
(* finds one that it can claim, or none and sleeps.                        *)
\* a wrong claimed, for the mutants
never_claimed(w, o) == FALSE

claimed(w, o) == \E v \in Workers \ {w} : tag[v] = o

free_ones(w) ==
  {i \in 1 .. Len(queue_out) : ~claimed(w, queue_out[i].obj)}

(* The requests to object O in Q, in their order. *)
OfObject(q, o) ==
  LET kept[i \in 0 .. Len(q)] ==
        IF i = 0 THEN <<>>
        ELSE IF q[i].obj = o THEN Append(kept[i - 1], q[i])
        ELSE kept[i - 1]
  IN kept[Len(q)]

\* a wrong delegate, for the mutants
delegate_first(w, q) ==
  [v \in Workers |-> IF v = w THEN own[v] ELSE OfObject(q, tag[v]) \o own[v]]

delegate(w, q) ==
  [v \in Workers |-> IF v = w THEN own[v] ELSE own[v] \o OfObject(q, tag[v])]

\* a wrong last_asleep, for the mutants
all_were_asleep(w) == Asleep = Workers

(* requests->asleep reaches WORKER_COUNT when W goes to sleep. *)
last_asleep(w) == Asleep \cup {w} = Workers

get_request(w) ==
  \/ \E i \in free_ones(w) :
       /\ \A j \in free_ones(w) : i <= j
       /\ own' = delegate(w, SubSeq(queue_out, 1, i - 1))
       /\ queue_out' = SubSeq(queue_out, i + 1, Len(queue_out))
       /\ tag' = [tag EXCEPT ![w] = queue_out[i].obj]
       /\ cur' = [cur EXCEPT ![w] = queue_out[i]]
       /\ pc' = [pc EXCEPT ![w] = "run"]
       /\ UNCHANGED inhib
  \/ /\ free_ones(w) = {}
     /\ own' = delegate(w, queue_out)
     /\ queue_out' = <<>>
     /\ tag' = [tag EXCEPT ![w] = None]
     /\ pc' = [pc EXCEPT ![w] = "asleep"]
     /\ inhib' = IF last_asleep(w) /\ inhib = "wait" THEN "woken" ELSE inhib
     /\ UNCHANGED cur

take_shared(w) ==
  /\ pc[w] = "ready"
  /\ own[w] = <<>>
  /\ get_request(w)
  /\ UNCHANGED <<queue_in, split, woken>>

wake(w) ==
  /\ w \in woken
  /\ woken' = woken \ {w}
  /\ get_request(w)
  /\ UNCHANGED <<queue_in, split>>

(* The routine has returned and the reply is sent. *)
finish(w) ==
  /\ pc[w] = "run"
  /\ pc' = [pc EXCEPT ![w] = "ready"]
  /\ cur' = [cur EXCEPT ![w] = None]
  /\ UNCHANGED <<queue_out, queue_in, split, tag, own, woken, inhib>>

-----------------------------------------------------------------------------
(* pager_inhibit_workers waits until this holds. *)
\* a wrong drained, for the mutants
drained_asleep == Asleep = Workers

drained == Asleep = Workers /\ queue_out = <<>>

pager_inhibit_workers ==
  /\ inhib = "idle"
  /\ split' = TRUE
  /\ inhib' = IF drained THEN "done" ELSE "wait"
  /\ UNCHANGED <<queue_out, queue_in, pc, tag, own, cur, woken>>

inhibit_wakeup ==
  /\ inhib = "woken"
  /\ inhib' = IF drained THEN "done" ELSE "wait"
  /\ UNCHANGED <<queue_out, queue_in, split, pc, tag, own, cur, woken>>

pager_resume_workers ==
  /\ inhib = "done"
  /\ inhib' = "idle"
  /\ split' = FALSE
  /\ queue_out' = queue_in
  /\ queue_in' = <<>>
  /\ woken' = Asleep
  /\ UNCHANGED <<pc, tag, own, cur>>

-----------------------------------------------------------------------------
Work(w) == take_own(w) \/ take_shared(w) \/ wake(w) \/ finish(w)

Queued ==
  Len(queue_out) + Len(queue_in)
    + Cardinality(UNION {{w} \X DOMAIN own[w] : w \in Workers})

Next ==
  \/ Queued < MaxQueued /\ \E r \in Request : pager_demuxer(r)
  \/ \E w \in Workers : Work(w)
  \/ pager_inhibit_workers
  \/ inhibit_wakeup
  \/ pager_resume_workers

(* Threads that can run do, routines return, and whoever inhibits the      *)
(* workers resumes them.                                                   *)
Fairness ==
  /\ \A w \in Workers : WF_vars(Work(w))
  /\ WF_vars(inhibit_wakeup)
  /\ WF_vars(pager_resume_workers)

Spec == Init /\ [][Next]_vars /\ Fairness

-----------------------------------------------------------------------------
(* Between the return of pager_inhibit_workers and pager_resume_workers no *)
(* request is being served, none waits in a worker's own queue, and no     *)
(* worker claims an object: the assertions of pager_resume_workers and     *)
(* more.                                                                   *)
InhibitedQuiet ==
  inhib = "done" =>
    /\ queue_out = <<>>
    /\ \A w \in Workers : pc[w] = "asleep" /\ own[w] = <<>> /\ tag[w] = None

(* No two workers claim an object. *)
ClaimsUnique ==
  \A v, w \in Workers : v # w /\ tag[v] # None => tag[v] # tag[w]

(* Requests never wait while all the workers sleep. *)
NobodySleepsOver ==
  queue_out # <<>> /\ Asleep = Workers => woken # {}

KindsOf(q) == [i \in 1 .. Len(q) |-> q[i].kind]

(* The requests to O that wait: with the worker that claims it, and then   *)
(* in the queues.                                                          *)
Pending(o) ==
  LET shared == OfObject(queue_out \o queue_in, o)
  IN IF \E w \in Workers : tag[w] = o
       THEN own[CHOOSE w \in Workers : tag[w] = o] \o shared
       ELSE shared

Active(o) ==
  IF \E w \in Workers : pc[w] = "run" /\ cur[w].obj = o
    THEN cur[CHOOSE w \in Workers : pc[w] = "run" /\ cur[w].obj = o].kind
    ELSE None

Serial == INSTANCE SerialObjects WITH
  pending <- [o \in Objects |-> KindsOf(Pending(o))],
  active  <- [o \in Objects |-> Active(o)]

(* However requests are delegated, inhibited and resumed, those to an      *)
(* object are served one at a time and in the order they were received.    *)
SerialSpec == Serial!Spec

(* A request to an object is served in the end. *)
RequestServed ==
  \A o \in Objects : Pending(o) # <<>> ~> Active(o) # None

(* pager_inhibit_workers returns. *)
InhibitReturns == inhib = "wait" ~> inhib = "done"
=============================================================================
