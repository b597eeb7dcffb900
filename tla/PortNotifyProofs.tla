-------------------------- MODULE PortNotifyProofs --------------------------
(***************************************************************************)
(* Safety of the notifications that RPCs share, for any RPCs and ports.    *)
(***************************************************************************)
EXTENDS PortNotify, TLAPS

(* Is R between its decision to ask the kernel about P and pn->pending? *)
Asker(r, p) == pc[r] \in {"lock", "request", "mark"} /\ target[r] = p

(* Whoever asks the kernel has its own request on the list, so that the    *)
(* ports_notify stays, and pn->pending of a port on the list is set or     *)
(* somebody will set it.  It may be set already while another one asks.    *)
AskState ==
  /\ \A r \in Rpcs, p \in Ports : Asker(r, p) => r \in reqs[p]
  /\ \A p \in notifications : p \in pn_pending \/ \E r \in Rpcs : Asker(r, p)

(* The kernel: it has requests only for ports on the list, a request that  *)
(* was made is there until the port dies, and it notifies only of ports    *)
(* that have died.                                                         *)
KernelState ==
  /\ registered \subseteq notifications
  /\ pn_pending \subseteq registered \cup dead
  /\ \A r \in Rpcs : pc[r] = "mark" => target[r] \in registered \cup dead
  /\ \A p \in Ports : messages[p] > 0 => p \in dead

Inv == TypeOK /\ RequestsLive /\ AskState /\ KernelState /\ CancelJustified

-----------------------------------------------------------------------------
(* ports_begin_rpc. *)
LEMMA BeginKeeps ==
  ASSUME Inv, NEW r \in Rpcs, begin_rpc(r)
  PROVE  Inv'
<1> USE PortNotifyAssumption DEF Inv, begin_rpc, kernel
<1>1. TypeOK' /\ RequestsLive'
  BY DEF TypeOK, RequestsLive
<1>2. AskState'
  BY DEF TypeOK, AskState, Asker
<1>3. KernelState' /\ CancelJustified'
  BY DEF TypeOK, KernelState, CancelJustified
<1> QED BY <1>1, <1>2, <1>3

(* The critical section of ports_interrupt_rpc_on_notification. *)
LEMMA AskKeeps ==
  ASSUME Inv, NEW r \in Rpcs, NEW p \in Ports, interrupt_rpc_on_notification(r, p)
  PROVE  Inv'
<1> USE PortNotifyAssumption DEF Inv, interrupt_rpc_on_notification, req_notify, kernel
<1>0. /\ pn_pending' = pn_pending
      /\ pc'[r] \in {"run", "lock"}
      /\ pc'[r] = "lock" <=> p \notin pn_pending
      /\ \A q \in Rpcs \ {r} : pc'[q] = pc[q] /\ target'[q] = target[q]
      /\ target'[r] = p /\ pc[r] = "run"
      /\ \A q \in Ports \ {p} : reqs'[q] = reqs[q]
      /\ reqs'[p] = reqs[p] \cup {r}
  BY DEF TypeOK
<1>1. TypeOK'
  <2>1. req_pending[r][p] \in 0..MaxAsks /\ req_pending[r] \in [Ports -> 0..MaxAsks]
    BY DEF TypeOK
  <2>2. req_pending' \in [Rpcs -> [Ports -> 0..MaxAsks]]
    BY <2>1 DEF TypeOK
  <2> QED BY <2>2 DEF TypeOK
<1>2. RequestsLive'
  <2>1. \A s \in Ports : \A q \in reqs'[s] : pc'[q] # "idle"
    BY <1>0 DEF TypeOK, RequestsLive
  <2>2. \A s \in Ports : s \in notifications' <=> reqs'[s] # {}
    BY <1>0 DEF RequestsLive
  <2> QED BY <2>1, <2>2 DEF RequestsLive
<1>3. AskState'
  <2>1. \A q \in Rpcs, s \in Ports : Asker(q, s)' =>
          (q # r /\ Asker(q, s)) \/ (q = r /\ s = p)
    BY <1>0 DEF Asker
  <2>2. \A q \in Rpcs, s \in Ports : Asker(q, s) => Asker(q, s)'
    BY <1>0 DEF Asker
  <2>3. Asker(r, p)' \/ p \in pn_pending
    BY <1>0 DEF Asker
  <2> QED BY <1>0, <2>1, <2>2, <2>3 DEF AskState, TypeOK
<1>4. KernelState'
  BY <1>0 DEF TypeOK, KernelState
<1>5. CancelJustified'
  BY <1>0 DEF TypeOK, CancelJustified
<1> QED BY <1>1, <1>2, <1>3, <1>4, <1>5

(* pn->lock is taken. *)
LEMMA LockKeeps ==
  ASSUME Inv, NEW r \in Rpcs, lock_notify(r)
  PROVE  Inv'
<1> USE DEF Inv, lock_notify, kernel
<1>0. \A q \in Rpcs, p \in Ports : Asker(q, p)' <=> Asker(q, p)
  BY DEF TypeOK, Asker
<1>1. TypeOK' /\ RequestsLive'
  BY DEF TypeOK, RequestsLive
<1>2. AskState'
  BY <1>0 DEF AskState, TypeOK
<1>3. KernelState' /\ CancelJustified'
  BY DEF TypeOK, KernelState, CancelJustified
<1> QED BY <1>1, <1>2, <1>3

(* A name that is not valid. *)
LEMMA InvalidKeeps ==
  ASSUME Inv, NEW r \in Rpcs, interrupt_rpc_on_invalid_name(r)
  PROVE  Inv'
<1> USE DEF Inv, interrupt_rpc_on_invalid_name, kernel
<1>1. TypeOK' /\ RequestsLive'
  BY DEF TypeOK, RequestsLive
<1>2. AskState' /\ KernelState'
  BY DEF AskState, Asker, KernelState
<1>3. CancelJustified'
  BY DEF TypeOK, CancelJustified
<1> QED BY <1>1, <1>2, <1>3

(* The kernel is asked, with the lock of the ports_notify held. *)
LEMMA RequestKeeps ==
  ASSUME Inv, NEW r \in Rpcs, request_notification(r)
  PROVE  Inv'
<1> USE DEF Inv, request_notification
<1>0. /\ target[r] \in Ports /\ Asker(r, target[r])
      /\ \A q \in Rpcs, p \in Ports : Asker(q, p)' <=> Asker(q, p)
  BY DEF TypeOK, Asker
<1>1. TypeOK'
  BY <1>0 DEF TypeOK
<1>2. RequestsLive'
  BY DEF TypeOK, RequestsLive
<1>3. AskState'
  BY <1>0 DEF AskState, TypeOK
<1>4. KernelState'
  BY <1>0 DEF TypeOK, KernelState, AskState, RequestsLive
<1>5. CancelJustified'
  BY DEF CancelJustified
<1> QED BY <1>1, <1>2, <1>3, <1>4, <1>5

(* pn->pending is set and the lock is free. *)
LEMMA MarkKeeps ==
  ASSUME Inv, NEW r \in Rpcs, mark_pending(r)
  PROVE  Inv'
<1> USE DEF Inv, mark_pending, kernel
<1>0. /\ target[r] \in Ports /\ Asker(r, target[r])
      /\ \A q \in Rpcs, p \in Ports : Asker(q, p)' <=> q # r /\ Asker(q, p)
  BY DEF TypeOK, Asker
<1>1. TypeOK'
  BY <1>0 DEF TypeOK, AskState, RequestsLive
<1>2. RequestsLive'
  BY DEF TypeOK, RequestsLive
<1>3. AskState'
  <2>1. \A p \in Ports \ {target[r]}, q \in Rpcs : Asker(q, p) => Asker(q, p)'
    BY <1>0 DEF Asker
  <2> QED BY <1>0, <2>1 DEF AskState, TypeOK
<1>4. KernelState'
  BY DEF TypeOK, KernelState
<1>5. CancelJustified'
  BY DEF CancelJustified
<1> QED BY <1>1, <1>2, <1>3, <1>4, <1>5

(* ports_interrupt_notified_rpcs cancels only RPCs on the list of a port   *)
(* that has died.                                                          *)
LEMMA NotifiedKeeps ==
  ASSUME Inv, NEW p \in Ports, interrupt_notified_rpcs(p)
  PROVE  Inv'
<1> USE DEF Inv, interrupt_notified_rpcs
<1>0. waiting_on(p) \subseteq reqs[p] /\ waiting_on(p) \subseteq Rpcs
  BY DEF waiting_on, TypeOK
<1>1. TypeOK'
  <2>1. req_pending' \in [Rpcs -> [Ports -> 0..MaxAsks]]
    BY PortNotifyAssumption DEF TypeOK, waiting_on
  <2> QED BY <1>0, <2>1 DEF TypeOK
<1>2. RequestsLive' /\ AskState'
  BY DEF RequestsLive, AskState, Asker
<1>3. KernelState'
  BY DEF TypeOK, KernelState
<1>4. CancelJustified'
  BY <1>0 DEF KernelState, CancelJustified
<1> QED BY <1>1, <1>2, <1>3, <1>4

(* The handler notices the cancellation. *)
LEMMA NoticeKeeps ==
  ASSUME Inv, NEW r \in Rpcs, notice_cancel(r)
  PROVE  Inv'
<1> USE DEF Inv, notice_cancel, kernel
<1>1. TypeOK' /\ RequestsLive'
  BY DEF TypeOK, RequestsLive
<1>2. AskState' /\ KernelState' /\ CancelJustified'
  BY DEF AskState, Asker, KernelState, CancelJustified
<1> QED BY <1>1, <1>2

(* ports_end_rpc: nobody asks about a ports_notify that loses its last     *)
(* request, so that pn->pending is set and the kernel's request is         *)
(* cancelled.                                                              *)
LEMMA EndKeeps ==
  ASSUME Inv, NEW r \in Rpcs, end_rpc(r)
  PROVE  Inv'
<1> USE DEF Inv, end_rpc, remove_req
<1>0. /\ \A q \in Rpcs \ {r} : pc'[q] = pc[q]
      /\ pc'[r] = "idle" /\ pc[r] = "run"
      /\ \A p \in Ports : reqs'[p] = reqs[p] \ {r}
      /\ \A p \in Ports : p \in unused(r) <=> p \in notifications /\ reqs[p] = {r}
  BY DEF TypeOK, unused
<1>1. \A q \in Rpcs, p \in Ports : Asker(q, p)' <=> Asker(q, p)
  BY <1>0 DEF Asker
<1>2. ASSUME NEW p \in unused(r) PROVE p \in pn_pending
  <2>1. p \in notifications /\ p \in Ports /\ reqs[p] = {r}
    BY <1>0 DEF unused, TypeOK
  <2>2. \A q \in Rpcs : ~Asker(q, p)
    BY <1>0, <2>1 DEF AskState, Asker
  <2> QED BY <2>1, <2>2 DEF AskState
<1>3. TypeOK'
  <2>1. req_pending' \in [Rpcs -> [Ports -> 0..MaxAsks]]
    BY PortNotifyAssumption DEF TypeOK
  <2>2. reqs' \in [Ports -> SUBSET Rpcs]
    BY DEF TypeOK
  <2> QED BY <2>1, <2>2 DEF TypeOK
<1>4. RequestsLive'
  BY <1>0 DEF TypeOK, RequestsLive
<1>5. AskState'
  <2>1. \A q \in Rpcs, p \in Ports : Asker(q, p) => q # r
    BY <1>0 DEF Asker
  <2> QED BY <1>0, <1>1, <2>1 DEF AskState, TypeOK
<1>6. KernelState'
  <2>1. registered' \subseteq notifications'
    BY <1>2 DEF KernelState
  <2>2. pn_pending' \subseteq registered' \cup dead'
    BY DEF KernelState
  <2>3. ASSUME NEW q \in Rpcs, pc'[q] = "mark"
        PROVE  target'[q] \in registered' \cup dead'
    <3>1. q # r /\ Asker(q, target[q]) /\ target[q] \in Ports
      BY <1>0, <2>3 DEF Asker, TypeOK
    <3>2. q \in reqs[target[q]]
      BY <3>1 DEF AskState
    <3>3. target[q] \notin unused(r)
      BY <1>0, <3>1, <3>2
    <3> QED BY <1>0, <2>3, <3>1, <3>3 DEF KernelState
  <2> QED BY <2>1, <2>2, <2>3 DEF KernelState
<1>7. CancelJustified'
  BY <1>0 DEF TypeOK, CancelJustified
<1> QED BY <1>3, <1>4, <1>5, <1>6, <1>7

(* The kernel: a port dies, or its name is used again. *)
LEMMA PortKeeps ==
  ASSUME Inv, NEW p \in Ports, port_dies(p) \/ name_reused(p)
  PROVE  Inv'
<1> USE DEF Inv, port_dies, name_reused
<1>1. TypeOK'
  BY DEF TypeOK
<1>2. RequestsLive' /\ AskState'
  BY DEF RequestsLive, AskState, Asker
<1>3. KernelState'
  <2>1. CASE port_dies(p)
    BY <2>1 DEF TypeOK, KernelState
  <2>2. CASE name_reused(p)
    <3>1. p \notin notifications
      BY <2>2 DEF RequestsLive
    <3>2. \A r \in Rpcs : pc[r] = "mark" => target[r] # p
      BY <2>2 DEF AskState, Asker
    <3> QED BY <2>2, <3>1, <3>2 DEF TypeOK, KernelState
  <2> QED BY <2>1, <2>2
<1>4. CancelJustified'
  BY DEF CancelJustified
<1> QED BY <1>1, <1>2, <1>3, <1>4

-----------------------------------------------------------------------------
(* The inductive invariant holds in every reachable state. *)
THEOREM InvHolds == Spec => []Inv
<1>1. Init => Inv
  BY PortNotifyAssumption
     DEF Init, Inv, TypeOK, RequestsLive, AskState, Asker, KernelState, CancelJustified
<1>2. Inv /\ [Next]_vars => Inv'
  <2> SUFFICES ASSUME Inv, [Next]_vars PROVE Inv'
    OBVIOUS
  <2>1. CASE UNCHANGED vars
    BY <2>1 DEF vars, Inv, TypeOK, RequestsLive, AskState, Asker, KernelState, CancelJustified
  <2>2. CASE Next
    BY <2>2, BeginKeeps, AskKeeps, LockKeeps, InvalidKeeps, RequestKeeps, MarkKeeps,
       NotifiedKeeps, NoticeKeeps, EndKeeps, PortKeeps DEF Next
  <2> QED BY <2>1, <2>2
<1> QED
  BY <1>1, <1>2, PTL DEF Spec

(* Type correctness; req->pending never wraps below zero. *)
THEOREM TypeCorrect == Spec => []TypeOK
<1>1. Inv => TypeOK
  BY DEF Inv
<1> QED BY <1>1, InvHolds, PTL

(* Only RPCs in progress are on the list of a ports_notify, and there is   *)
(* one exactly for the ports that some RPC waits for.                      *)
THEOREM RequestsStayLive == Spec => []RequestsLive
<1>1. Inv => RequestsLive
  BY DEF Inv
<1> QED BY <1>1, InvHolds, PTL

(* While an RPC waits for a port that is alive the kernel has a request    *)
(* for it or is about to get the first one, and none once nobody waits,    *)
(* also when several RPCs have found pn->pending clear and ask in turn.    *)
THEOREM KernelStaysArmed == Spec => []KernelArmed
<1>1. Inv => KernelArmed
  BY DEF Inv, TypeOK, AskState, Asker, KernelState, KernelArmed, Asking
<1> QED BY <1>1, InvHolds, PTL

(* An RPC is cancelled only for a port that it waits for and that died. *)
THEOREM CancelsJustified == Spec => []CancelJustified
<1>1. Inv => CancelJustified
  BY DEF Inv
<1> QED BY <1>1, InvHolds, PTL
=============================================================================
