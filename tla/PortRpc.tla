------------------------------- MODULE PortRpc -------------------------------
(***************************************************************************)
(* The RPCs in progress of libports: ports_begin_rpc and ports_end_rpc,    *)
(* ports_inhibit_*_rpcs and ports_resume_*_rpcs for a port, a class, a     *)
(* bucket and everything, ports_interrupt_rpcs with the list of            *)
(* interrupted RPCs, and interrupt_operation with the cancel threshold     *)
(* that internal_demuxer checks.                                           *)
(*                                                                         *)
(* An action is one critical section under _ports_lock; a thread that      *)
(* sleeps on the condition _ports_block has given the lock up.  The four   *)
(* variants of inhibit and resume differ only in the scope they work on.   *)
(***************************************************************************)
EXTENDS Integers, FiniteSets

CONSTANTS
  Threads,        \* threads of the server
  Ports, Classes, Buckets,
  All,            \* the scope of ports_inhibit_all_rpcs
  ClassOf,        \* pi->class, [Ports -> Classes]
  BucketOf,       \* pi->bucket, [Ports -> Buckets]
  Inhibitable,    \* scopes that some code of the server inhibits
  Gone,           \* ports whose receive right may go away
  ForeignCancel,  \* threads that other code may hurd_thread_cancel at any time
  MaxSeqno,       \* bound: messages received from each port, by port
  None            \* no scope, no thread

Scopes == Ports \cup Classes \cup Buckets \cup {All}
Counted == Scopes \ Ports

ASSUME PortRpcAssumption ==
  /\ IsFiniteSet(Threads) /\ None \notin Threads \cup Scopes
  /\ ClassOf \in [Ports -> Classes] /\ BucketOf \in [Ports -> Buckets]
  /\ Ports \cap Classes = {} /\ Ports \cap Buckets = {}
  /\ Classes \cap Buckets = {} /\ All \notin Ports \cup Classes \cup Buckets
  /\ Inhibitable \subseteq Scopes /\ Gone \subseteq Ports
  /\ ForeignCancel \subseteq Threads /\ MaxSeqno \in [Ports -> Nat]

VARIABLES
  inhibited,        \* scopes with the INHIBITED flag
  blocked,          \* scopes with the BLOCKED flag
  inhibit_wait,     \* scopes with the INHIBIT_WAIT flag
  current_rpcs,     \* pi->current_rpcs, as the set of threads serving a port
  rpcs,             \* class->rpcs, bucket->rpcs and _ports_total_rpcs
  waiters,          \* threads asleep on _ports_block
  cancel,           \* threads with a pending hurd_thread_cancel
  interrupted,      \* the list of interrupted.c, as the set of threads
  cancel_threshold, \* pi->cancel_threshold
  port_right,       \* pi->port_right: a name, MACH_PORT_NULL or _DEAD
  in_table,         \* ports in _ports_htable and in their bucket's table
  seqno,            \* messages the kernel has dequeued from each port
  pc,               \* where each thread is
  msg,              \* the message a thread serves
  scope,            \* the scope a thread is inhibiting
  this_one,         \* does the thread's own RPC count in that scope?
  owner,            \* history: the thread that inhibited a scope
  hit,              \* history: threads whose current RPC was cancelled
  swept             \* history: highest interrupt whose sweep is complete

flags  == <<inhibited, blocked, inhibit_wait>>
rights == <<port_right, in_table>>
vars == <<inhibited, blocked, inhibit_wait, current_rpcs, rpcs, waiters,
          cancel, interrupted, cancel_threshold, port_right, in_table, seqno,
          pc, msg, scope, this_one, owner, hit, swept>>

NoMsg == [port |-> None, id |-> "none", seqno |-> 0]
(* The ids in class->uninhibitable_rpcs: by default interrupt_operation. *)
uninhibitable_rpcs == {"interrupt_operation"}

ScopesOf(p) == {p, ClassOf[p], BucketOf[p], All}
PortsOf(s)  == {p \in Ports : s \in ScopesOf(p)}

Serving(t, p) == t \in current_rpcs[p]
InRpc(t) == \E p \in Ports : Serving(t, p)

(* The callers of ports_inhibit_*_rpcs inhibit, do their work, and resume  *)
(* what they inhibited before they return to the service loop, or exit.    *)
Owns(t) == \E s \in Scopes : owner[s] = t

Init ==
  /\ inhibited = {} /\ blocked = {} /\ inhibit_wait = {}
  /\ current_rpcs = [p \in Ports |-> {}]
  /\ rpcs = [s \in Counted |-> 0]
  /\ waiters = {} /\ cancel = {} /\ interrupted = {}
  /\ cancel_threshold = [p \in Ports |-> 0]
  /\ port_right = [p \in Ports |-> "name"]
  /\ in_table = Ports
  /\ seqno = [p \in Ports |-> 0]
  /\ pc = [t \in Threads |-> "idle"]
  /\ msg = [t \in Threads |-> NoMsg]
  /\ scope = [t \in Threads |-> None]
  /\ this_one = [t \in Threads |-> FALSE]
  /\ owner = [s \in Scopes |-> None]
  /\ hit = {}
  /\ swept = [p \in Ports |-> 0]

-----------------------------------------------------------------------------
(* mach_msg dequeues a message; the port object is found by its payload.   *)
receive(t, p, id) ==
  /\ pc[t] = "idle" /\ ~Owns(t)
  /\ p \in in_table
  /\ seqno[p] < MaxSeqno[p]
  /\ seqno' = [seqno EXCEPT ![p] = @ + 1]
  /\ msg' = [msg EXCEPT ![t] = [port |-> p, id |-> id, seqno |-> seqno[p] + 1]]
  /\ pc' = [pc EXCEPT ![t] = "begin"]
  /\ UNCHANGED <<flags, current_rpcs, rpcs, waiters, cancel, interrupted,
                 cancel_threshold, rights, scope, this_one, owner, hit, swept>>

(* The flags that make ports_begin_rpc wait, first match first: the words  *)
(* of all ports, of the bucket, of the class and of the port.              *)
block_flags(p) ==
  LET stopped == inhibited \cup inhibit_wait
  IN IF All \in stopped THEN All
     ELSE IF BucketOf[p] \in stopped THEN BucketOf[p]
     ELSE IF ClassOf[p] \in stopped THEN ClassOf[p]
     ELSE IF p \in stopped THEN p ELSE None

must_block(t) == /\ block_flags(msg[t].port) # None
                 /\ msg[t].id \notin uninhibitable_rpcs

(* The flag that tells resume that an RPC waits. *)
\* a wrong flag_blocked, for the mutants
leave_unflagged(p) == blocked
flag_blocked(p)    == blocked \cup {block_flags(p)}

(* The counters of P's class, of its bucket and of all, changed by N. *)
\* a wrong count_rpcs, for the mutants
count_total(p, n) == [rpcs EXCEPT ![All] = @ + n]
count_rpcs(p, n)  == [s \in Counted |->
                        IF s \in ScopesOf(p) THEN rpcs[s] + n ELSE rpcs[s]]

Abandon(t) == /\ pc' = [pc EXCEPT ![t] = "idle"]
              /\ msg' = [msg EXCEPT ![t] = NoMsg]

(* ports_begin_rpc, from its start or from a wake-up without cancellation: *)
(* the receive right is gone, the RPC must wait, or it is recorded.        *)
begin_rpc(t) ==
  LET p == msg[t].port
  IN /\ \/ pc[t] = "begin"
        \/ pc[t] = "blocked" /\ t \notin waiters \cup cancel
     /\ \/ /\ port_right[p] = "null"
           /\ Abandon(t)
           /\ UNCHANGED <<blocked, waiters, current_rpcs, rpcs>>
        \/ /\ port_right[p] # "null" /\ must_block(t) /\ t \notin cancel
           /\ blocked' = flag_blocked(p)
           /\ waiters' = waiters \cup {t}
           /\ pc' = [pc EXCEPT ![t] = "blocked"]
           /\ UNCHANGED <<msg, current_rpcs, rpcs>>
        \/ /\ port_right[p] # "null" /\ ~must_block(t)
           /\ current_rpcs' = [current_rpcs EXCEPT ![p] = @ \cup {t}]
           /\ rpcs' = count_rpcs(p, 1)
           /\ pc' = [pc EXCEPT ![t] = "check"]
           /\ UNCHANGED <<msg, blocked, waiters>>
     /\ UNCHANGED <<inhibited, inhibit_wait, cancel, interrupted,
                    cancel_threshold, rights, seqno, scope, this_one, owner,
                    hit, swept>>

(* pthread_hurd_cond_wait_np reports a cancellation and clears it, on      *)
(* entry with the lock still held or in the middle of the sleep.           *)
begin_rpc_cancelled(t) ==
  LET p == msg[t].port
  IN /\ t \in cancel
     /\ \/ /\ pc[t] = "begin" /\ port_right[p] # "null" /\ must_block(t)
           /\ blocked' = flag_blocked(p)
        \/ /\ pc[t] = "blocked"
           /\ UNCHANGED blocked
     /\ cancel' = cancel \ {t} /\ waiters' = waiters \ {t}
     /\ Abandon(t)
     /\ UNCHANGED <<inhibited, inhibit_wait, current_rpcs, rpcs, interrupted,
                    cancel_threshold, rights, seqno, scope, this_one, owner,
                    hit, swept>>

(* internal_demuxer: a message older than the last interrupt_operation     *)
(* cancels its own thread before the handler runs.                         *)
\* a wrong late, for the mutants
never_late(t) == FALSE
late(t)       == msg[t].seqno < cancel_threshold[msg[t].port]

check_threshold(t) ==
  /\ pc[t] = "check"
  /\ cancel' = IF late(t) THEN cancel \cup {t} ELSE cancel
  /\ hit' = IF late(t) THEN hit \cup {t} ELSE hit
  /\ pc' = [pc EXCEPT ![t] = "handler"]
  /\ UNCHANGED <<flags, current_rpcs, rpcs, waiters, interrupted,
                 cancel_threshold, rights, seqno, msg, scope, this_one, owner,
                 swept>>

(* ports_self_interrupted takes the thread's RPC off the list. *)
self_interrupted(t) == interrupted \ {t}

(* A handler notices its cancellation: an interruptible wait of its own    *)
(* returns EINTR, or it asks ports_self_interrupted.                       *)
notice_cancel(t) ==
  /\ pc[t] \in {"handler", "handled"}
  /\ t \in cancel \cup interrupted
  /\ \/ cancel' = cancel \ {t} /\ UNCHANGED interrupted
     \/ interrupted' = self_interrupted(t) /\ UNCHANGED cancel
  /\ UNCHANGED <<flags, current_rpcs, rpcs, waiters, cancel_threshold, rights,
                 seqno, pc, msg, scope, this_one, owner, hit, swept>>

(* ports_end_rpc: broadcast if someone waits to inhibit a scope of P, take *)
(* the RPC off the interrupted list, clear the cancellation.               *)
\* a wrong inhibitor_waits, for the mutants
port_inhibitor_waits(p) == p \in inhibit_wait
inhibitor_waits(p)      == ScopesOf(p) \cap inhibit_wait # {}

\* a wrong check_cancel, for the mutants
forget_cancel(t) == cancel
check_cancel(t)  == cancel \ {t}

end_rpc(t) ==
  LET p == msg[t].port
  IN /\ \/ pc[t] = "handler" /\ msg[t].id # "interrupt_operation" /\ ~Owns(t)
        \/ pc[t] = "handled" /\ ~Owns(t)
     /\ current_rpcs' = [current_rpcs EXCEPT ![p] = @ \ {t}]
     /\ rpcs' = count_rpcs(p, -1)
     /\ waiters' = IF inhibitor_waits(p) THEN {} ELSE waiters
     /\ interrupted' = self_interrupted(t)
     /\ cancel' = check_cancel(t)
     /\ hit' = hit \ {t}
     /\ Abandon(t)
     /\ UNCHANGED <<flags, cancel_threshold, rights, seqno, scope, this_one,
                    owner, swept>>

-----------------------------------------------------------------------------
(* ports_S_interrupt_operation: the compare-and-exchange loop raises the   *)
(* threshold, then ports_interrupt_rpcs cancels every other RPC on the     *)
(* port and records its interruption.                                      *)
new_threshold(old, n) == IF old < n THEN n ELSE old

raise_threshold(t) ==
  LET p == msg[t].port
  IN /\ pc[t] = "handler" /\ msg[t].id = "interrupt_operation"
     /\ cancel_threshold' = [cancel_threshold EXCEPT
                               ![p] = new_threshold(@, msg[t].seqno)]
     /\ pc' = [pc EXCEPT ![t] = "interrupt"]
     /\ UNCHANGED <<flags, current_rpcs, rpcs, waiters, cancel, interrupted,
                    rights, seqno, msg, scope, this_one, owner, hit, swept>>

(* _ports_record_interruption: each RPC is on the list once. *)
record_interruption(ts) == interrupted \cup ts

interrupt_rpcs(t) ==
  LET p == msg[t].port
      others == current_rpcs[p] \ {t}
  IN /\ pc[t] = "interrupt"
     /\ cancel' = cancel \cup others
     /\ interrupted' = record_interruption(others)
     /\ hit' = hit \cup others
     /\ swept' = [swept EXCEPT ![p] = IF @ < msg[t].seqno THEN msg[t].seqno ELSE @]
     /\ pc' = [pc EXCEPT ![t] = "handled"]
     /\ UNCHANGED <<flags, current_rpcs, rpcs, waiters, cancel_threshold,
                    rights, seqno, msg, scope, this_one, owner>>

-----------------------------------------------------------------------------
(* The RPCs that an inhibit sees: those of the port itself, or those of    *)
(* the ports of the scope that are in the hash table.                      *)
SeenBy(s) == IF s \in Ports THEN current_rpcs[s]
             ELSE UNION {current_rpcs[p] : p \in PortsOf(s) \cap in_table}

(* The RPCs that it cancels: not the caller's own. *)
\* a wrong victims, for the mutants
no_victims(t, s) == {}
victims(t, s)    == SeenBy(s) \ {t}

(* Must the thread wait before S is inhibited?  OWN: its own RPC was seen. *)
\* a wrong pending_rpcs, for the mutants
pending_beyond_one(t, s, own) ==
  IF s \in Ports THEN current_rpcs[s] \ {t} # {} ELSE rpcs[s] > 1

pending_rpcs(t, s, own) ==
  IF s \in Ports THEN current_rpcs[s] \ {t} # {}
  ELSE rpcs[s] > IF own THEN 1 ELSE 0

(* A thread calls inhibit from a handler or outside of any RPC.            *)
may_call(t) == \/ pc[t] = "idle"
               \/ pc[t] = "handler" /\ msg[t].id # "interrupt_operation"

caller_pc(t) == IF InRpc(t) THEN "handler" ELSE "idle"

(* The last lines of ports_inhibit_*_rpcs, when no RPC is left. *)
Inhibited(t, s) ==
  /\ inhibit_wait' = inhibit_wait \ {s}
  /\ inhibited' = inhibited \cup {s}
  /\ owner' = [owner EXCEPT ![s] = t]
  /\ scope' = [scope EXCEPT ![t] = None]
  /\ this_one' = [this_one EXCEPT ![t] = FALSE]
  /\ pc' = [pc EXCEPT ![t] = caller_pc(t)]

(* ports_inhibit_{port,class,bucket,all}_rpcs up to the first wait: the    *)
(* caller is already cancelled, has to wait, or need not.  While S is      *)
(* inhibited or about to be, the call returns EBUSY and changes nothing.   *)
inhibit_rpcs(t, s) ==
  LET own == t \in SeenBy(s)
  IN /\ may_call(t)
     /\ s \notin inhibited \cup inhibit_wait
     /\ hit' = hit \cup victims(t, s)
     /\ \/ /\ pending_rpcs(t, s, own) /\ t \in cancel
           /\ cancel' = (cancel \cup victims(t, s)) \ {t}
           /\ UNCHANGED <<inhibit_wait, waiters, scope, this_one, pc,
                          inhibited, owner>>
        \/ /\ pending_rpcs(t, s, own) /\ t \notin cancel
           /\ cancel' = cancel \cup victims(t, s)
           /\ this_one' = [this_one EXCEPT ![t] = own]
           /\ inhibit_wait' = inhibit_wait \cup {s}
           /\ waiters' = waiters \cup {t}
           /\ scope' = [scope EXCEPT ![t] = s]
           /\ pc' = [pc EXCEPT ![t] = "inhibit"]
           /\ UNCHANGED <<inhibited, owner>>
        \/ /\ ~pending_rpcs(t, s, own)
           /\ cancel' = cancel \cup victims(t, s)
           /\ Inhibited(t, s)
           /\ UNCHANGED waiters
     /\ UNCHANGED <<blocked, current_rpcs, rpcs, interrupted,
                    cancel_threshold, rights, seqno, msg, swept>>

(* The loop goes round after a broadcast. *)
inhibit_woken(t) ==
  LET s == scope[t]
  IN /\ pc[t] = "inhibit"
     /\ t \notin waiters \cup cancel
     /\ \/ /\ pending_rpcs(t, s, this_one[t])
           /\ waiters' = waiters \cup {t}
           /\ UNCHANGED <<inhibited, inhibit_wait, owner, scope, this_one, pc>>
        \/ /\ ~pending_rpcs(t, s, this_one[t])
           /\ Inhibited(t, s)
           /\ UNCHANGED waiters
     /\ UNCHANGED <<blocked, current_rpcs, rpcs, cancel, interrupted,
                    cancel_threshold, rights, seqno, msg, hit, swept>>

(* The caller is cancelled in its sleep: EINTR. *)
inhibit_cancelled(t) ==
  /\ pc[t] = "inhibit"
  /\ t \in cancel
  /\ cancel' = cancel \ {t} /\ waiters' = waiters \ {t}
  /\ inhibit_wait' = inhibit_wait \ {scope[t]}
  /\ scope' = [scope EXCEPT ![t] = None]
  /\ this_one' = [this_one EXCEPT ![t] = FALSE]
  /\ pc' = [pc EXCEPT ![t] = caller_pc(t)]
  /\ UNCHANGED <<inhibited, blocked, current_rpcs, rpcs, interrupted,
                 cancel_threshold, rights, seqno, msg, owner, hit, swept>>

(* ports_resume_{port,class,bucket,all}_rpcs, by whoever inhibited S; a    *)
(* handler that resumes is about to return.                                *)
resume_rpcs(t, s) ==
  /\ pc[t] \in {"idle", "handler", "handled"}
  /\ pc' = [pc EXCEPT ![t] = IF InRpc(t) THEN "handled" ELSE "idle"]
  /\ s \in inhibited /\ owner[s] = t
  /\ inhibited' = inhibited \ {s}
  /\ owner' = [owner EXCEPT ![s] = None]
  /\ blocked' = blocked \ {s}
  /\ waiters' = IF s \in blocked THEN {} ELSE waiters
  /\ UNCHANGED <<inhibit_wait, current_rpcs, rpcs, cancel, interrupted,
                 cancel_threshold, rights, seqno, msg, scope, this_one, hit,
                 swept>>

-----------------------------------------------------------------------------
(* ports_destroy_right: MACH_PORT_DEAD, and out of the tables. *)
destroy_right(p) ==
  /\ p \in Gone \cap in_table
  /\ port_right' = [port_right EXCEPT ![p] = "dead"]
  /\ in_table' = in_table \ {p}
  /\ UNCHANGED <<flags, current_rpcs, rpcs, waiters, cancel, interrupted,
                 cancel_threshold, seqno, pc, msg, scope, this_one, owner,
                 hit, swept>>

(* ports_claim_right: out of the tables and of the port set first, without *)
(* _ports_lock, and only then MACH_PORT_NULL.                              *)
claim_right(p) ==
  /\ p \in Gone
  /\ port_right[p] = "name"
  /\ \/ /\ p \in in_table
        /\ in_table' = in_table \ {p}
        /\ UNCHANGED port_right
     \/ /\ p \notin in_table
        /\ port_right' = [port_right EXCEPT ![p] = "null"]
        /\ UNCHANGED in_table
  /\ UNCHANGED <<flags, current_rpcs, rpcs, waiters, cancel, interrupted,
                 cancel_threshold, seqno, pc, msg, scope, this_one, owner,
                 hit, swept>>

(* Code outside libports calls hurd_thread_cancel (term/hurdio.c does). *)
foreign_cancel(t) ==
  /\ t \in ForeignCancel \ cancel
  /\ cancel' = cancel \cup {t}
  /\ hit' = IF InRpc(t) THEN hit \cup {t} ELSE hit
  /\ UNCHANGED <<flags, current_rpcs, rpcs, waiters, interrupted,
                 cancel_threshold, rights, seqno, pc, msg, scope, this_one,
                 owner, swept>>

(* What a thread does once it has a message or sleeps in an inhibit. *)
ThreadStep(t) ==
  \/ begin_rpc(t) \/ begin_rpc_cancelled(t) \/ check_threshold(t)
  \/ end_rpc(t) \/ raise_threshold(t) \/ interrupt_rpcs(t)
  \/ inhibit_woken(t) \/ inhibit_cancelled(t)

Next ==
  \/ \E t \in Threads :
       \/ \E p \in Ports, id \in {"request", "interrupt_operation"} :
            receive(t, p, id)
       \/ ThreadStep(t)
       \/ notice_cancel(t)
       \/ \E s \in Inhibitable : inhibit_rpcs(t, s) \/ resume_rpcs(t, s)
       \/ foreign_cancel(t)
  \/ \E p \in Ports : destroy_right(p) \/ claim_right(p)

Spec == Init /\ [][Next]_vars

(* Threads go on: a thread that was woken or cancelled in its sleep gets   *)
(* the lock, handlers resume what they inhibited, and return.              *)
Fairness ==
  \A t \in Threads : /\ WF_vars(ThreadStep(t))
                     /\ WF_vars(\E s \in Inhibitable : resume_rpcs(t, s))

FairSpec == Spec /\ Fairness

-----------------------------------------------------------------------------
(* Type correctness. *)
TypeOK ==
  /\ inhibited \subseteq Scopes /\ blocked \subseteq Scopes
  /\ inhibit_wait \subseteq Scopes
  /\ current_rpcs \in [Ports -> SUBSET Threads]
  /\ rpcs \in [Counted -> Nat]
  /\ waiters \subseteq Threads /\ cancel \subseteq Threads
  /\ interrupted \subseteq Threads
  /\ cancel_threshold \in [Ports -> Nat]
  /\ port_right \in [Ports -> {"name", "null", "dead"}]
  /\ in_table \subseteq Ports
  /\ seqno \in [Ports -> Nat]
  /\ pc \in [Threads -> {"idle", "begin", "blocked", "check", "handler",
                         "interrupt", "handled", "inhibit"}]
  /\ msg \in [Threads -> [port : Ports, id : {"request", "interrupt_operation"},
                          seqno : Nat \ {0}] \cup {NoMsg}]
  /\ scope \in [Threads -> Scopes \cup {None}]
  /\ this_one \in [Threads -> BOOLEAN]
  /\ owner \in [Scopes -> Threads \cup {None}]
  /\ hit \subseteq Threads
  /\ swept \in [Ports -> Nat]

(* class->rpcs, bucket->rpcs and _ports_total_rpcs count the RPCs on the   *)
(* lists of their ports, so that ports_inhibit_*_rpcs waits neither too    *)
(* short nor for ever.                                                     *)
CountersMatch ==
  \A s \in Counted :
    rpcs[s] = Cardinality({t \in Threads : \E p \in PortsOf(s) : Serving(t, p)})

(* While a scope is inhibited, only the RPC of the thread that inhibited   *)
(* it and uninhibitable RPCs are in progress on its ports.                 *)
InhibitionHolds ==
  \A s \in inhibited : \A p \in PortsOf(s) : \A t \in current_rpcs[p] :
    t = owner[s] \/ msg[t].id \in uninhibitable_rpcs

(* A cancellation that libports sends never outlives the RPC it is meant   *)
(* for: ports_end_rpc clears it with the lock held, so the next RPC of the *)
(* thread does not see it.                                                 *)
NoStaleCancel == \A t \in cancel \ ForeignCancel : InRpc(t)

(* The list of interrupted.c holds only RPCs in progress; their rpc_info   *)
(* lives on the stack of internal_demuxer.                                 *)
InterruptedInProgress == \A t \in interrupted : InRpc(t)

(* When an interrupt_operation has done its sweep, every RPC that came to  *)
(* the port before it and whose handler runs has been cancelled, whether   *)
(* the sweep or the check against cancel_threshold found it.               *)
InterruptNotLost ==
  \A t \in Threads :
    InRpc(t) /\ pc[t] # "check" /\ msg[t].seqno < swept[msg[t].port]
      => t \in hit

(* A thread that sleeps in ports_begin_rpc has left the BLOCKED flag in    *)
(* one of the scopes of its port, so that resume knows to broadcast.       *)
SleepersFlagged ==
  \A t \in waiters : pc[t] = "blocked" =>
    ScopesOf(msg[t].port) \cap blocked # {}

(* A thread sleeps in ports_inhibit_*_rpcs only while another thread's RPC *)
(* is in progress in the scope: its own does not count, unless its port    *)
(* had left the hash table when the thread looked for it there.            *)
InhibitorsHaveCause ==
  \A t \in waiters : pc[t] = "inhibit" =>
    \E p \in PortsOf(scope[t]) :
      \/ current_rpcs[p] \ {t} # {}
      \/ Serving(t, p) /\ ~this_one[t] /\ p \notin in_table

(* A call of ports_inhibit_*_rpcs returns, even when several threads       *)
(* inhibit scopes that contain each other's RPCs, unless one of them       *)
(* serves a port that is not in the hash table: its RPC is counted and not *)
(* cancelled, so that the thread may wait for itself or for another        *)
(* inhibitor that waits for it.                                            *)
Unlisted(t) == pc[t] = "inhibit" /\ \E p \in Ports \ in_table : Serving(t, p)

InhibitReturns ==
  \A t \in Threads : pc[t] = "inhibit"
    ~> (pc[t] # "inhibit" \/ \E u \in Threads : Unlisted(u))
=============================================================================
