----------------------------- MODULE PortNotify -----------------------------
(***************************************************************************)
(* RPCs that ask to be interrupted when a port dies                        *)
(* (libports/interrupt-on-notify.c, interrupt-notified-rpcs.c,             *)
(* notify-dead-name.c).  RPCs that wait for the same port share one        *)
(* ports_notify and one notification request in the kernel, which tells    *)
(* the notify port of the bucket.                                          *)
(*                                                                         *)
(* An action is one critical section under _ports_lock, or one under the   *)
(* lock of a ports_notify, which its holder keeps while it talks to the    *)
(* kernel.  A requester waits for that lock with _ports_lock held.         *)
(***************************************************************************)
EXTENDS Integers, FiniteSets

CONSTANTS
  Rpcs,       \* RPCs in progress, each one the thread that serves it
  Ports,      \* ports they may wait for
  MaxAsks,    \* bound: pending requests of an RPC for one port
  MaxMessages \* bound: notifications under way for a port when an RPC asks

ASSUME PortNotifyAssumption == MaxAsks \in Nat /\ MaxMessages \in Nat

VARIABLES
  notifications,  \* _ports_notifications, as the ports with a ports_notify
  pn_pending,     \* those whose pn->pending is set
  reqs,           \* pn->reqs, as the set of RPCs
  req_pending,    \* req->pending of each RPC and port
  pc,             \* where each RPC is
  target,         \* the port that the RPC is asking about
  cancelled,      \* RPCs whose thread was cancelled
  bogus,          \* history: RPCs that asked about an invalid name
  dead,           \* ports that have become dead names
  registered,     \* kernel: ports with a dead-name request
  messages,       \* kernel: notifications under way for each port
  early           \* history: unanswered requests made while the port was alive

kernel == <<dead, registered, messages>>
vars == <<notifications, pn_pending, reqs, req_pending, pc, target, cancelled,
          bogus, dead, registered, messages, early>>

Init ==
  /\ notifications = {} /\ pn_pending = {}
  /\ reqs = [p \in Ports |-> {}]
  /\ req_pending = [r \in Rpcs |-> [p \in Ports |-> 0]]
  /\ pc = [r \in Rpcs |-> "idle"]
  /\ target \in [Rpcs -> Ports]
  /\ cancelled = {} /\ bogus = {}
  /\ dead = {} /\ registered = {}
  /\ messages = [p \in Ports |-> 0]
  /\ early = {}

(* Is pn->lock held, or _ports_lock by somebody who waits for it? *)
locked(p)         == \E r \in Rpcs : pc[r] \in {"request", "mark"} /\ target[r] = p
ports_lock_is_free == \A r \in Rpcs : pc[r] # "lock"

begin_rpc(r) ==
  /\ pc[r] = "idle" /\ ports_lock_is_free
  /\ pc' = [pc EXCEPT ![r] = "run"]
  /\ UNCHANGED <<notifications, pn_pending, reqs, req_pending, target,
                 cancelled, bogus, kernel, early>>

(* Does the ports_notify need a request in the kernel? *)
req_notify(p) == p \notin pn_pending

(* ports_interrupt_rpc_on_notification up to the decision whether to ask   *)
(* the kernel.  The call for a name that is dead already cancels the RPC   *)
(* at once; without memory it does nothing.                                *)
interrupt_rpc_on_notification(r, p) ==
  /\ pc[r] = "run" /\ ports_lock_is_free
  /\ req_pending[r][p] < MaxAsks /\ messages[p] < MaxMessages
  /\ notifications' = notifications \cup {p}
  /\ pn_pending' = IF p \in notifications THEN pn_pending ELSE pn_pending \ {p}
  /\ reqs' = [reqs EXCEPT ![p] = @ \cup {r}]
  /\ req_pending' = [req_pending EXCEPT ![r][p] = @ + 1]
  /\ early' = IF p \in dead THEN early ELSE early \cup {<<r, p>>}
  /\ target' = [target EXCEPT ![r] = p]
  /\ pc' = [pc EXCEPT ![r] = IF req_notify(p) THEN "lock" ELSE "run"]
  /\ UNCHANGED <<cancelled, bogus, kernel>>

(* It gets pn->lock, perhaps after another requester that has set          *)
(* pn->pending meanwhile, and gives _ports_lock back.                      *)
lock_notify(r) ==
  /\ pc[r] = "lock" /\ ~locked(target[r])
  /\ pc' = [pc EXCEPT ![r] = "request"]
  /\ UNCHANGED <<notifications, pn_pending, reqs, req_pending, target,
                 cancelled, bogus, kernel, early>>

interrupt_rpc_on_invalid_name(r) ==
  /\ pc[r] = "run" /\ ports_lock_is_free
  /\ cancelled' = cancelled \cup {r}
  /\ bogus' = bogus \cup {r}
  /\ UNCHANGED <<notifications, pn_pending, reqs, req_pending, pc, target,
                 kernel, early>>

(* mach_port_request_notification replaces any earlier request; a port     *)
(* that is dead already is notified at once.                               *)
request_notification(r) ==
  LET p == target[r]
  IN /\ pc[r] = "request"
     /\ \/ /\ p \in dead
           /\ messages' = [messages EXCEPT ![p] = @ + 1]
           /\ UNCHANGED registered
        \/ /\ p \notin dead
           /\ registered' = registered \cup {p}
           /\ UNCHANGED messages
     /\ pc' = [pc EXCEPT ![r] = "mark"]
     /\ UNCHANGED <<notifications, pn_pending, reqs, req_pending, target,
                    cancelled, bogus, dead, early>>

(* pn->pending = 1 and the lock is free. *)
mark_pending(r) ==
  /\ pc[r] = "mark"
  /\ pn_pending' = pn_pending \cup {target[r]}
  /\ pc' = [pc EXCEPT ![r] = "run"]
  /\ UNCHANGED <<notifications, reqs, req_pending, target, cancelled, bogus,
                 kernel, early>>

(* ports_do_mach_notify_dead_name on the notify port calls                 *)
(* ports_interrupt_notified_rpcs: every request that is pending for P is   *)
(* used up and cancels its RPC.  pn->pending stays as it is.               *)
\* a wrong waiting_on, for the mutants
anyone_waiting(p) == {r \in Rpcs : pc[r] # "idle"}
waiting_on(p)     == {r \in reqs[p] : req_pending[r][p] > 0}

interrupt_notified_rpcs(p) ==
  /\ messages[p] > 0 /\ ports_lock_is_free
  /\ messages' = [messages EXCEPT ![p] = @ - 1]
  /\ cancelled' = cancelled \cup waiting_on(p)
  /\ req_pending' = [r \in Rpcs |-> [req_pending[r] EXCEPT ![p] =
                       IF r \in waiting_on(p) THEN @ - 1 ELSE @]]
  /\ early' = {rp \in early : ~(rp[2] = p /\ rp[1] \in waiting_on(p))}
  /\ UNCHANGED <<notifications, pn_pending, reqs, pc, target, bogus, dead,
                 registered>>

(* The handler notices the cancellation and goes on. *)
notice_cancel(r) ==
  /\ pc[r] = "run" /\ r \in cancelled
  /\ cancelled' = cancelled \ {r}
  /\ UNCHANGED <<notifications, pn_pending, reqs, req_pending, pc, target,
                 bogus, kernel, early>>

(* ports_end_rpc with _ports_remove_notified_rpc: the requests of the RPC  *)
(* go, and a ports_notify without requests goes too, its request in the    *)
(* kernel cancelled.                                                       *)
remove_req(r) == [p \in Ports |-> reqs[p] \ {r}]

\* a wrong unused, for the mutants
all_of(r) == {p \in notifications : r \in reqs[p]}
unused(r) == {p \in notifications : reqs[p] = {r}}

end_rpc(r) ==
  /\ pc[r] = "run" /\ ports_lock_is_free
  /\ reqs' = remove_req(r)
  /\ notifications' = notifications \ unused(r)
  /\ registered' = registered \ (unused(r) \cap pn_pending)
  /\ pn_pending' = pn_pending \ unused(r)
  /\ req_pending' = [req_pending EXCEPT ![r] = [p \in Ports |-> 0]]
  /\ cancelled' = cancelled \ {r} /\ bogus' = bogus \ {r}
  /\ early' = {rp \in early : rp[1] # r}
  /\ pc' = [pc EXCEPT ![r] = "idle"]
  /\ UNCHANGED <<target, dead, messages>>

-----------------------------------------------------------------------------
(* The kernel: a port dies, and the request for it, if any, is answered.   *)
port_dies(p) ==
  /\ p \notin dead
  /\ dead' = dead \cup {p}
  /\ registered' = registered \ {p}
  /\ messages' = [messages EXCEPT ![p] = IF p \in registered THEN @ + 1 ELSE @]
  /\ UNCHANGED <<notifications, pn_pending, reqs, req_pending, pc, target,
                 cancelled, bogus, early>>

(* The dead name is deallocated and the name used for another port; every  *)
(* notification under way keeps a reference to the name.                   *)
name_reused(p) ==
  /\ p \in dead
  /\ reqs[p] = {} /\ messages[p] = 0
  /\ dead' = dead \ {p}
  /\ UNCHANGED <<notifications, pn_pending, reqs, req_pending, pc, target,
                 cancelled, bogus, registered, messages, early>>

Next ==
  \/ \E r \in Rpcs :
       \/ begin_rpc(r) \/ mark_pending(r)
       \/ lock_notify(r) \/ request_notification(r)
       \/ \E p \in Ports : interrupt_rpc_on_notification(r, p)
       \/ interrupt_rpc_on_invalid_name(r)
       \/ notice_cancel(r) \/ end_rpc(r)
  \/ \E p \in Ports : \/ interrupt_notified_rpcs(p)
                       \/ port_dies(p) \/ name_reused(p)

Spec == Init /\ [][Next]_vars

(* The kernel's notifications are served: their thread gets _ports_lock    *)
(* some time, also if others keep taking it.  Calls into the kernel end,   *)
(* and a lock that is free is taken by who waits for it.                   *)
Fairness ==
  /\ \A p \in Ports : SF_vars(interrupt_notified_rpcs(p))
  /\ \A r \in Rpcs : /\ WF_vars(lock_notify(r)) /\ WF_vars(mark_pending(r))
                     /\ WF_vars(request_notification(r))

FairSpec == Spec /\ Fairness

-----------------------------------------------------------------------------
(* Type correctness. *)
TypeOK ==
  /\ notifications \subseteq Ports /\ pn_pending \subseteq notifications
  /\ reqs \in [Ports -> SUBSET Rpcs]
  /\ req_pending \in [Rpcs -> [Ports -> 0..MaxAsks]]
  /\ pc \in [Rpcs -> {"idle", "run", "lock", "request", "mark"}]
  /\ target \in [Rpcs -> Ports]
  /\ cancelled \subseteq Rpcs /\ bogus \subseteq Rpcs
  /\ dead \subseteq Ports /\ registered \subseteq Ports
  /\ messages \in [Ports -> Nat]
  /\ early \subseteq Rpcs \X Ports

(* A request is on a ports_notify's list only while its RPC is in          *)
(* progress: rpc_info lives in the frame of internal_demuxer, and          *)
(* hurd_thread_cancel must not hit the next RPC of the thread.             *)
RequestsLive ==
  \A p \in Ports : /\ \A r \in reqs[p] : pc[r] # "idle"
                   /\ p \in notifications <=> reqs[p] # {}

(* As long as some RPC waits for a port that is alive, the kernel has a    *)
(* request for it or is about to get its first one, and once nobody waits  *)
(* it has none: RPCs that share the ports_notify may come and go in any    *)
(* order, and several may ask the kernel one after the other.              *)
Asking(p) == \E r \in Rpcs : pc[r] \in {"lock", "request"} /\ target[r] = p

KernelArmed ==
  \A p \in Ports \ dead :
    /\ p \in registered => p \in notifications
    /\ p \in notifications => p \in registered \/ (p \notin pn_pending /\ Asking(p))

(* An RPC is cancelled only for a port that it waits for and that died. *)
CancelJustified ==
  \A r \in cancelled \ bogus : \E p \in dead : r \in reqs[p]

(* An RPC that asked while the port was alive is interrupted when the port *)
(* dies, however many others share the notification.                       *)
DeathInterrupts ==
  \A r \in Rpcs, p \in Ports :
    <<r, p>> \in early /\ p \in dead ~> <<r, p>> \notin early
=============================================================================
