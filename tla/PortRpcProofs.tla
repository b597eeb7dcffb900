---------------------------- MODULE PortRpcProofs ----------------------------
(***************************************************************************)
(* Safety of the RPCs in progress of libports, for any threads, ports,     *)
(* classes and buckets, any of which may be inhibited, cancelled or        *)
(* destroyed.                                                              *)
(***************************************************************************)
EXTENDS PortRpc, FiniteSetTheorems, TLAPS

(* A thread is on the list of a port exactly while it serves a message of  *)
(* it that ports_begin_rpc let in; a thread that sleeps in an inhibit has  *)
(* a scope, and its own RPC is one of the scope's if it counts it.         *)
Located ==
  /\ \A t \in Threads, p \in Ports :
       Serving(t, p) <=> msg[t].port = p /\ pc[t] \notin {"begin", "blocked"}
  /\ \A t \in Threads : /\ pc[t] \notin {"idle", "inhibit"} => msg[t] # NoMsg
                        /\ pc[t] = "idle" => msg[t] = NoMsg
  /\ \A t \in Threads : pc[t] = "inhibit" =>
       /\ scope[t] \in Scopes
       /\ this_one[t] => \E p \in PortsOf(scope[t]) : Serving(t, p)

(* The threshold of a port is raised before the sweep that it stands for.  *)
Thresholds ==
  /\ \A p \in Ports : swept[p] <= cancel_threshold[p]
  /\ \A t \in Threads : pc[t] = "interrupt" => msg[t].seqno <= cancel_threshold[msg[t].port]

Inv ==
  /\ TypeOK /\ Located /\ CountersMatch /\ InhibitionHolds /\ NoStaleCancel
  /\ InterruptedInProgress /\ SleepersFlagged /\ Thresholds /\ InterruptNotLost

(* The threads that serve the ports of a scope. *)
Users(s) == {t \in Threads : \E p \in PortsOf(s) : Serving(t, p)}

-----------------------------------------------------------------------------
(* The fields of a message. *)
LEMMA MessageTypes ==
  ASSUME TypeOK, NEW t \in Threads
  PROVE  /\ msg[t] # NoMsg => /\ msg[t].port \in Ports
                              /\ msg[t].id \in {"request", "interrupt_operation"}
                              /\ msg[t].seqno \in Nat \ {0}
                              /\ msg[t].seqno \in Nat
         /\ msg[t].port \in Ports => msg[t] # NoMsg
         /\ NoMsg.port = None /\ None \notin Ports
<1>1. NoMsg.port = None /\ None \notin Ports
  BY PortRpcAssumption DEF NoMsg, Scopes
<1>2. msg[t] # NoMsg => msg[t] \in [port : Ports, id : {"request", "interrupt_operation"},
                                     seqno : Nat \ {0}]
  BY DEF TypeOK
<1>3. Nat \ {0} \subseteq Nat
  BY PortRpcAssumption
<1> QED BY <1>1, <1>2, <1>3

(* A thread serves one port at most. *)
LEMMA OnePort ==
  ASSUME Located, NEW t \in Threads, NEW p \in Ports, NEW q \in Ports,
         Serving(t, p), Serving(t, q)
  PROVE  p = q
BY DEF Located

LEMMA ScopeOfPort ==
  ASSUME NEW p \in Ports
  PROVE  /\ ScopesOf(p) \subseteq Scopes
         /\ p \in ScopesOf(p)
         /\ \A s \in Scopes : p \in PortsOf(s) <=> s \in ScopesOf(p)
         /\ \A q \in Ports : q \in ScopesOf(p) => q = p
BY PortRpcAssumption DEF Scopes, ScopesOf, PortsOf

(* The counters, when the lists do not change. *)
LEMMA SameCounters ==
  ASSUME CountersMatch, current_rpcs' = current_rpcs, rpcs' = rpcs
  PROVE  CountersMatch'
BY DEF CountersMatch, Serving

LEMMA UsersFinite ==
  ASSUME NEW s
  PROVE  IsFiniteSet(Users(s)) /\ Cardinality(Users(s)) \in Nat
BY PortRpcAssumption, FS_Subset, FS_CardinalityType DEF Users

(* ports_begin_rpc counts the RPC it records. *)
LEMMA CountersBegin ==
  ASSUME TypeOK, CountersMatch, NEW t \in Threads, NEW p \in Ports,
         \A q \in Ports : ~Serving(t, q),
         current_rpcs' = [current_rpcs EXCEPT ![p] = @ \cup {t}],
         rpcs' = count_rpcs(p, 1)
  PROVE  CountersMatch' /\ rpcs' \in [Counted -> Nat]
<1>1. ASSUME NEW s \in Counted
      PROVE  rpcs'[s] = Cardinality(Users(s)') /\ rpcs'[s] \in Nat
  <2>1. rpcs[s] = Cardinality(Users(s)) /\ rpcs[s] \in Nat /\ s \in Scopes
    BY DEF CountersMatch, Users, TypeOK, Counted
  <2>2. t \notin Users(s)
    BY DEF Users, PortsOf
  <2>3. CASE s \in ScopesOf(p)
    <3>1. Users(s)' = Users(s) \cup {t}
      BY <2>1, <2>3, ScopeOfPort DEF Users, Serving, TypeOK, PortsOf
    <3>2. Cardinality(Users(s) \cup {t}) = Cardinality(Users(s)) + 1
      BY <2>2, UsersFinite, FS_AddElement
    <3> QED BY <2>1, <2>3, <3>1, <3>2 DEF count_rpcs
  <2>4. CASE s \notin ScopesOf(p)
    <3>1. Users(s)' = Users(s)
      BY <2>1, <2>4, ScopeOfPort DEF Users, Serving, TypeOK, PortsOf
    <3> QED BY <2>1, <2>4, <3>1 DEF count_rpcs
  <2> QED BY <2>3, <2>4
<1>2. rpcs' \in [Counted -> Nat]
  BY <1>1 DEF count_rpcs
<1> QED BY <1>1, <1>2 DEF CountersMatch, Users

(* ports_end_rpc takes it off again. *)
LEMMA CountersEnd ==
  ASSUME TypeOK, Located, CountersMatch, NEW t \in Threads, NEW p \in Ports,
         Serving(t, p),
         current_rpcs' = [current_rpcs EXCEPT ![p] = @ \ {t}],
         rpcs' = count_rpcs(p, -1)
  PROVE  CountersMatch' /\ rpcs' \in [Counted -> Nat]
<1>1. ASSUME NEW s \in Counted
      PROVE  rpcs'[s] = Cardinality(Users(s)') /\ rpcs'[s] \in Nat
  <2>1. rpcs[s] = Cardinality(Users(s)) /\ rpcs[s] \in Nat /\ s \in Scopes
    BY DEF CountersMatch, Users, TypeOK, Counted
  <2>2. \A q \in Ports : Serving(t, q) => q = p
    BY OnePort
  <2>3. CASE s \in ScopesOf(p)
    <3>1. t \in Users(s)
      BY <2>1, <2>3, ScopeOfPort DEF Users
    <3>2. Users(s)' = Users(s) \ {t}
      BY <2>1, <2>2, <2>3, ScopeOfPort DEF Users, Serving, TypeOK, PortsOf
    <3>3. Cardinality(Users(s) \ {t}) = Cardinality(Users(s)) - 1
      BY <3>1, UsersFinite, FS_RemoveElement
    <3>4. Cardinality(Users(s)') \in Nat
      BY <3>2, UsersFinite, FS_RemoveElement, FS_CardinalityType
    <3> QED BY <2>1, <2>3, <3>2, <3>3, <3>4 DEF count_rpcs
  <2>4. CASE s \notin ScopesOf(p)
    <3>1. t \notin Users(s)
      BY <2>1, <2>2, <2>4, ScopeOfPort DEF Users, PortsOf
    <3>2. Users(s)' = Users(s)
      BY <2>1, <2>4, <3>1, ScopeOfPort DEF Users, Serving, TypeOK, PortsOf
    <3> QED BY <2>1, <2>4, <3>2 DEF count_rpcs
  <2> QED BY <2>3, <2>4
<1>2. rpcs' \in [Counted -> Nat]
  BY <1>1 DEF count_rpcs
<1> QED BY <1>1, <1>2 DEF CountersMatch, Users

(* What ports_inhibit_*_rpcs has read when it need not wait. *)
Quiet(t, s) ==
  /\ s \in Ports => current_rpcs[s] \subseteq {t}
  /\ s \notin Ports => \/ rpcs[s] <= 0
                       \/ rpcs[s] <= 1 /\ \E p \in PortsOf(s) : Serving(t, p)

(* Then only the caller's RPC is left in the scope. *)
LEMMA NothingPending ==
  ASSUME TypeOK, CountersMatch, NEW t \in Threads, NEW s \in Scopes, Quiet(t, s)
  PROVE  \A p \in PortsOf(s) : current_rpcs[p] \subseteq {t}
<1>1. CASE s \in Ports
  <2>1. PortsOf(s) = {s}
    BY <1>1, PortRpcAssumption DEF PortsOf, ScopesOf
  <2> QED BY <1>1, <2>1 DEF Quiet
<1>2. CASE s \notin Ports
  <2>1. s \in Counted /\ rpcs[s] = Cardinality(Users(s)) /\ rpcs[s] \in Nat
    BY <1>2 DEF Counted, CountersMatch, Users, TypeOK
  <2>2. CASE rpcs[s] <= 0
    <3>1. Cardinality(Users(s)) = 0
      BY <2>1, <2>2
    <3>2. Users(s) = {}
      BY <3>1, UsersFinite, FS_EmptySet
    <3> QED BY <3>2 DEF Users, Serving, TypeOK, PortsOf
  <2>3. CASE rpcs[s] <= 1 /\ \E p \in PortsOf(s) : Serving(t, p)
    <3>1. Cardinality(Users(s)) <= 1
      BY <2>1, <2>3
    <3>2. t \in Users(s)
      BY <2>3 DEF Users
    <3>3. Cardinality(Users(s) \ {t}) = Cardinality(Users(s)) - 1
          /\ IsFiniteSet(Users(s) \ {t})
      BY <3>2, UsersFinite, FS_RemoveElement
    <3>4. Cardinality(Users(s) \ {t}) = 0
      BY <3>1, <3>3, UsersFinite, FS_CardinalityType
    <3>5. Users(s) \ {t} = {}
      BY <3>3, <3>4, FS_EmptySet
    <3> QED BY <3>5 DEF Users, Serving, TypeOK, PortsOf
  <2> QED BY <1>2, <2>2, <2>3 DEF Quiet
<1> QED BY <1>1, <1>2

-----------------------------------------------------------------------------
(* mach_msg hands a message to an idle thread. *)
LEMMA ReceiveKeeps ==
  ASSUME Inv, NEW t \in Threads, NEW p \in Ports,
         NEW id \in {"request", "interrupt_operation"}, receive(t, p, id)
  PROVE  Inv'
<1> USE DEF Inv, receive, flags, rights
<1> DEFINE m == [port |-> p, id |-> id, seqno |-> seqno[p] + 1]
<1>0. /\ m \in [port : Ports, id : {"request", "interrupt_operation"}, seqno : Nat \ {0}]
      /\ seqno[p] + 1 \in Nat
  BY PortRpcAssumption DEF TypeOK
<1>a. m # NoMsg
  BY MessageTypes, PortRpcAssumption DEF NoMsg, Scopes
<1>b. \A q \in Ports : ~Serving(t, q)
  BY MessageTypes DEF Located
<1>1. TypeOK'
  BY <1>0 DEF TypeOK
<1>2. Located'
  BY <1>a, <1>b DEF TypeOK, Located, Serving
<1>3. CountersMatch'
  BY SameCounters
<1>4. InhibitionHolds'
  BY <1>b DEF TypeOK, InhibitionHolds, Serving, PortsOf
<1>5. NoStaleCancel' /\ InterruptedInProgress'
  BY DEF NoStaleCancel, InterruptedInProgress, InRpc, Serving
<1>6. SleepersFlagged'
  BY DEF TypeOK, SleepersFlagged
<1>7. Thresholds' /\ InterruptNotLost'
  BY <1>b DEF TypeOK, Thresholds, InterruptNotLost, InRpc, Serving
<1> QED BY <1>1, <1>2, <1>3, <1>4, <1>5, <1>6, <1>7

(* The scopes that stop ports_begin_rpc. *)
LEMMA BlockFlags ==
  ASSUME NEW p \in Ports
  PROVE  /\ block_flags(p) # None => block_flags(p) \in ScopesOf(p)
         /\ block_flags(p) = None => ScopesOf(p) \cap inhibited = {}
BY PortRpcAssumption DEF block_flags, ScopesOf, Scopes

(* ports_begin_rpc. *)
LEMMA BeginKeeps ==
  ASSUME Inv, NEW t \in Threads, begin_rpc(t)
  PROVE  Inv'
<1> DEFINE p == msg[t].port
<1> USE DEF Inv, rights
<1>a. p \in Ports /\ msg[t] # NoMsg /\ pc[t] \in {"begin", "blocked"}
  BY MessageTypes DEF begin_rpc, Located
<1>b. \A q \in Ports : ~Serving(t, q)
  BY <1>a DEF Located
<1>c. /\ UNCHANGED <<inhibited, inhibit_wait, cancel, interrupted, cancel_threshold,
                     port_right, in_table, seqno, scope, this_one, owner, hit, swept>>
      /\ pc[t] = "blocked" => t \notin waiters
  BY DEF begin_rpc
<1>1. CASE /\ Abandon(t)
           /\ UNCHANGED <<blocked, waiters, current_rpcs, rpcs>>
  <2> USE <1>1, <1>c DEF Abandon
  <2>1. TypeOK'
    BY DEF TypeOK
  <2>2. Located'
    BY <1>b, MessageTypes DEF TypeOK, Located, Serving
  <2>3. CountersMatch'
    BY SameCounters
  <2>4. InhibitionHolds'
    BY <1>b DEF TypeOK, InhibitionHolds, Serving, PortsOf
  <2>5. NoStaleCancel' /\ InterruptedInProgress'
    BY DEF NoStaleCancel, InterruptedInProgress, InRpc, Serving
  <2>6. SleepersFlagged'
    BY DEF TypeOK, SleepersFlagged
  <2>7. Thresholds' /\ InterruptNotLost'
    BY <1>b DEF TypeOK, Thresholds, InterruptNotLost, InRpc, Serving
  <2> QED BY <2>1, <2>2, <2>3, <2>4, <2>5, <2>6, <2>7
<1>2. CASE /\ must_block(t)
           /\ blocked' = flag_blocked(p)
           /\ waiters' = waiters \cup {t}
           /\ pc' = [pc EXCEPT ![t] = "blocked"]
           /\ UNCHANGED <<msg, current_rpcs, rpcs>>
  <2> USE <1>2, <1>c
  <2>0. block_flags(p) \in ScopesOf(p) /\ block_flags(p) \in Scopes
    BY <1>a, BlockFlags, ScopeOfPort DEF must_block
  <2>1. TypeOK'
    BY <2>0 DEF TypeOK, flag_blocked
  <2>2. Located'
    BY <1>a, <1>b DEF TypeOK, Located, Serving
  <2>3. CountersMatch'
    BY SameCounters
  <2>4. InhibitionHolds'
    BY DEF InhibitionHolds
  <2>5. NoStaleCancel' /\ InterruptedInProgress'
    BY DEF NoStaleCancel, InterruptedInProgress, InRpc, Serving
  <2>6. SleepersFlagged'
    BY <2>0 DEF TypeOK, SleepersFlagged, flag_blocked
  <2>7. Thresholds' /\ InterruptNotLost'
    BY <1>b DEF TypeOK, Thresholds, InterruptNotLost, InRpc, Serving
  <2> QED BY <2>1, <2>2, <2>3, <2>4, <2>5, <2>6, <2>7
<1>3. CASE /\ ~must_block(t)
           /\ current_rpcs' = [current_rpcs EXCEPT ![p] = @ \cup {t}]
           /\ rpcs' = count_rpcs(p, 1)
           /\ pc' = [pc EXCEPT ![t] = "check"]
           /\ UNCHANGED <<msg, blocked, waiters>>
  <2> USE <1>3, <1>c
  <2>0. CountersMatch' /\ rpcs' \in [Counted -> Nat]
    BY <1>a, <1>b, CountersBegin
  <2>1. TypeOK'
    BY <1>a, <2>0 DEF TypeOK
  <2>a. \A u \in Threads, q \in Ports :
          Serving(u, q)' <=> Serving(u, q) \/ (u = t /\ q = p)
    BY <1>a DEF TypeOK, Serving
  <2>2. Located'
    BY <1>a, <1>b, <2>a DEF TypeOK, Located, PortsOf
  <2>4. InhibitionHolds'
    <3>1. msg[t].id \in uninhibitable_rpcs \/ ScopesOf(p) \cap inhibited = {}
      BY <1>a, BlockFlags DEF must_block
    <3>2. inhibited \subseteq Scopes /\ current_rpcs' \in [Ports -> SUBSET Threads]
      BY <2>1 DEF TypeOK
    <3>3. ASSUME NEW s \in inhibited, NEW q \in PortsOf(s), NEW u \in current_rpcs'[q]
          PROVE  u = owner[s] \/ msg[u].id \in uninhibitable_rpcs
      <4>1. q \in Ports /\ u \in Threads /\ s \in Scopes
        BY <3>2 DEF PortsOf
      <4>2. CASE Serving(u, q)
        BY <4>2 DEF InhibitionHolds, Serving
      <4>3. CASE u = t /\ q = p
        BY <3>1, <4>1, <4>3, ScopeOfPort
      <4> QED BY <2>a, <4>1, <4>2, <4>3 DEF Serving
    <3> QED BY <3>3 DEF InhibitionHolds
  <2>5. NoStaleCancel' /\ InterruptedInProgress'
    BY <2>a DEF TypeOK, NoStaleCancel, InterruptedInProgress, InRpc
  <2>6. SleepersFlagged'
    BY <1>a DEF TypeOK, SleepersFlagged
  <2>7. Thresholds' /\ InterruptNotLost'
    BY <2>a DEF TypeOK, Thresholds, InterruptNotLost, InRpc
  <2> QED BY <2>0, <2>1, <2>2, <2>4, <2>5, <2>6, <2>7
<1> QED
  BY <1>1, <1>2, <1>3 DEF begin_rpc

(* ports_begin_rpc, cancelled. *)
LEMMA BeginCancelledKeeps ==
  ASSUME Inv, NEW t \in Threads, begin_rpc_cancelled(t)
  PROVE  Inv'
<1> DEFINE p == msg[t].port
<1> USE DEF Inv, rights, begin_rpc_cancelled, Abandon
<1>a. p \in Ports /\ msg[t] # NoMsg /\ pc[t] \in {"begin", "blocked"}
  BY MessageTypes DEF Located
<1>b. \A q \in Ports : ~Serving(t, q)
  BY <1>a DEF Located
<1>c. blocked \subseteq blocked' /\ blocked' \subseteq Scopes
  BY <1>a, BlockFlags, ScopeOfPort DEF must_block, flag_blocked, TypeOK
<1>1. TypeOK'
  BY <1>c DEF TypeOK
<1>2. Located'
  BY <1>b, MessageTypes DEF TypeOK, Located, Serving
<1>3. CountersMatch'
  BY SameCounters
<1>4. InhibitionHolds'
  BY <1>b DEF TypeOK, InhibitionHolds, Serving, PortsOf
<1>5. NoStaleCancel' /\ InterruptedInProgress'
  BY DEF NoStaleCancel, InterruptedInProgress, InRpc, Serving
<1>6. SleepersFlagged'
  BY <1>c DEF TypeOK, SleepersFlagged
<1>7. Thresholds' /\ InterruptNotLost'
  BY <1>b DEF TypeOK, Thresholds, InterruptNotLost, InRpc, Serving
<1> QED BY <1>1, <1>2, <1>3, <1>4, <1>5, <1>6, <1>7

(* The check of internal_demuxer against the cancel threshold. *)
LEMMA CheckKeeps ==
  ASSUME Inv, NEW t \in Threads, check_threshold(t)
  PROVE  Inv'
<1> USE DEF Inv, rights, flags, check_threshold
<1>a. msg[t].port \in Ports /\ msg[t].seqno \in Nat /\ InRpc(t)
  BY MessageTypes DEF Located, InRpc
<1>1. TypeOK'
  BY DEF TypeOK
<1>2. Located'
  BY DEF TypeOK, Located, Serving
<1>3. CountersMatch'
  BY SameCounters
<1>4. InhibitionHolds'
  BY DEF InhibitionHolds
<1>5. NoStaleCancel' /\ InterruptedInProgress'
  BY <1>a DEF NoStaleCancel, InterruptedInProgress, InRpc, Serving
<1>6. SleepersFlagged'
  BY DEF TypeOK, SleepersFlagged
<1>7. Thresholds'
  BY DEF TypeOK, Thresholds
<1>8. InterruptNotLost'
  <2>1. msg[t].seqno < swept[msg[t].port] => late(t)
    BY <1>a DEF Thresholds, late, TypeOK
  <2> QED BY <2>1 DEF TypeOK, InterruptNotLost, InRpc, Serving
<1> QED BY <1>1, <1>2, <1>3, <1>4, <1>5, <1>6, <1>7, <1>8

(* The handler notices that it was interrupted. *)
LEMMA NoticeKeeps ==
  ASSUME Inv, NEW t \in Threads, notice_cancel(t)
  PROVE  Inv'
<1> USE DEF Inv, rights, flags, notice_cancel, self_interrupted
<1>1. TypeOK'
  BY DEF TypeOK
<1>2. Located'
  BY DEF Located, Serving
<1>3. CountersMatch'
  BY SameCounters
<1>4. InhibitionHolds' /\ NoStaleCancel' /\ InterruptedInProgress' /\ SleepersFlagged'
  BY DEF InhibitionHolds, NoStaleCancel, InterruptedInProgress, SleepersFlagged, InRpc, Serving
<1>5. Thresholds' /\ InterruptNotLost'
  BY DEF Thresholds, InterruptNotLost, InRpc, Serving
<1> QED BY <1>1, <1>2, <1>3, <1>4, <1>5

(* ports_end_rpc. *)
LEMMA EndKeeps ==
  ASSUME Inv, NEW t \in Threads, end_rpc(t)
  PROVE  Inv'
<1> DEFINE p == msg[t].port
<1> USE DEF Inv, rights, flags, end_rpc, Abandon
<1>a. p \in Ports /\ Serving(t, p) /\ pc[t] \in {"handler", "handled"}
  BY MessageTypes DEF Located
<1>b. \A u \in Threads, q \in Ports : Serving(u, q)' <=> Serving(u, q) /\ u # t
  BY <1>a, OnePort DEF TypeOK, Serving
<1>c. CountersMatch' /\ rpcs' \in [Counted -> Nat]
  BY <1>a, CountersEnd
<1>1. TypeOK'
  BY <1>a, <1>c DEF TypeOK, self_interrupted, check_cancel
<1>2. Located'
  BY <1>b, MessageTypes DEF TypeOK, Located, PortsOf
<1>4. InhibitionHolds'
  <2>1. \A q \in Ports : current_rpcs'[q] \subseteq current_rpcs[q] \ {t}
    BY <1>1, <1>b DEF TypeOK, Serving
  <2> QED BY <2>1 DEF TypeOK, InhibitionHolds, PortsOf
<1>5. NoStaleCancel' /\ InterruptedInProgress'
  BY <1>b DEF TypeOK, NoStaleCancel, InterruptedInProgress, InRpc, self_interrupted, check_cancel
<1>6. SleepersFlagged'
  BY DEF TypeOK, SleepersFlagged
<1>7. Thresholds'
  BY DEF TypeOK, Thresholds
<1>8. InterruptNotLost'
  BY <1>b DEF TypeOK, InterruptNotLost, InRpc
<1> QED BY <1>c, <1>1, <1>2, <1>4, <1>5, <1>6, <1>7, <1>8

(* ports_S_interrupt_operation raises the threshold. *)
LEMMA RaiseKeeps ==
  ASSUME Inv, NEW t \in Threads, raise_threshold(t)
  PROVE  Inv'
<1> DEFINE p == msg[t].port
<1> USE DEF Inv, rights, flags, raise_threshold
<1>a. p \in Ports /\ msg[t].seqno \in Nat
  BY MessageTypes, PortRpcAssumption DEF Located
<1>b. /\ \A q \in Ports : cancel_threshold'[q] \in Nat
      /\ \A q \in Ports : cancel_threshold[q] <= cancel_threshold'[q]
      /\ msg[t].seqno <= cancel_threshold'[p]
  BY <1>a, PortRpcAssumption DEF TypeOK, new_threshold
<1>1. TypeOK'
  BY <1>b DEF TypeOK
<1>2. Located'
  BY DEF TypeOK, Located, Serving
<1>3. CountersMatch'
  BY SameCounters
<1>4. InhibitionHolds' /\ NoStaleCancel' /\ InterruptedInProgress'
  BY DEF InhibitionHolds, NoStaleCancel, InterruptedInProgress, InRpc, Serving
<1>6. SleepersFlagged'
  BY DEF TypeOK, SleepersFlagged
<1>7. Thresholds'
  <2>1. \A q \in Ports : swept[q] <= cancel_threshold'[q]
    BY <1>b, PortRpcAssumption DEF TypeOK, Thresholds
  <2>2. ASSUME NEW u \in Threads, pc'[u] = "interrupt"
        PROVE  msg[u].seqno <= cancel_threshold'[msg[u].port]
    <3>1. CASE u = t
      BY <1>b, <3>1
    <3>2. CASE u # t
      <4>1. pc[u] = "interrupt"
        BY <2>2, <3>2 DEF TypeOK
      <4>2. msg[u].port \in Ports /\ msg[u].seqno \in Nat
        BY <4>1, MessageTypes DEF Located
      <4>3. msg[u].seqno <= cancel_threshold[msg[u].port]
        BY <4>1 DEF Thresholds
      <4> QED BY <1>b, <4>2, <4>3, PortRpcAssumption DEF TypeOK
    <3> QED BY <3>1, <3>2
  <2> QED BY <2>1, <2>2 DEF Thresholds
<1>8. InterruptNotLost'
  BY DEF TypeOK, InterruptNotLost, InRpc, Serving
<1> QED BY <1>1, <1>2, <1>3, <1>4, <1>6, <1>7, <1>8

(* ports_interrupt_rpcs sweeps the list of the port. *)
LEMMA InterruptKeeps ==
  ASSUME Inv, NEW t \in Threads, interrupt_rpcs(t)
  PROVE  Inv'
<1> DEFINE p == msg[t].port
<1> USE DEF Inv, rights, flags, interrupt_rpcs, record_interruption
<1>a. p \in Ports /\ msg[t].seqno \in Nat /\ msg[t].seqno \in Nat
  BY MessageTypes, PortRpcAssumption DEF Located
<1>b. current_rpcs[p] \subseteq Threads /\ \A u \in current_rpcs[p] : InRpc(u)
  BY <1>a DEF TypeOK, InRpc, Serving
<1>1. TypeOK'
  BY <1>a, <1>b, PortRpcAssumption DEF TypeOK
<1>2. Located'
  BY DEF TypeOK, Located, Serving
<1>3. CountersMatch'
  BY SameCounters
<1>4. InhibitionHolds'
  BY DEF InhibitionHolds
<1>5. NoStaleCancel' /\ InterruptedInProgress'
  BY <1>b DEF NoStaleCancel, InterruptedInProgress, InRpc, Serving
<1>6. SleepersFlagged'
  BY DEF TypeOK, SleepersFlagged
<1>7. Thresholds'
  BY <1>a, PortRpcAssumption DEF TypeOK, Thresholds
<1>8. InterruptNotLost'
  <2> SUFFICES ASSUME NEW u \in Threads, InRpc(u), pc'[u] # "check",
                      msg[u].seqno < swept'[msg[u].port]
               PROVE  u \in hit'
    BY DEF InterruptNotLost, InRpc, Serving
  <2>1. msg[u].port \in Ports /\ msg[u].seqno \in Nat /\ Serving(u, msg[u].port)
    BY MessageTypes DEF InRpc, Located
  <2>2. pc[u] # "check"
    BY DEF TypeOK
  <2>3. CASE msg[u].port = p /\ u # t
    BY <2>1, <2>3 DEF Serving
  <2>4. CASE msg[u].port # p \/ u = t
    <3>1. msg[u].seqno < swept[msg[u].port]
      BY <1>a, <2>1, <2>4 DEF TypeOK
    <3> QED BY <2>2, <3>1 DEF InterruptNotLost
  <2> QED BY <2>3, <2>4
<1> QED BY <1>1, <1>2, <1>3, <1>4, <1>5, <1>6, <1>7, <1>8

-----------------------------------------------------------------------------
(* The RPCs that an inhibit cancels are in progress in the scope. *)
LEMMA SeenInProgress ==
  ASSUME TypeOK, NEW s \in Scopes
  PROVE  \A u \in SeenBy(s) : /\ u \in Threads /\ InRpc(u)
                              /\ \E p \in PortsOf(s) : Serving(u, p)
<1>1. CASE s \in Ports
  BY <1>1, ScopeOfPort DEF SeenBy, TypeOK, InRpc, Serving
<1>2. CASE s \notin Ports
  BY <1>2 DEF SeenBy, TypeOK, InRpc, Serving, PortsOf
<1> QED BY <1>1, <1>2

(* A thread that leaves an inhibit goes back to where it called it from. *)
LEMMA BackInCaller ==
  ASSUME Inv, NEW t \in Threads, may_call(t) \/ pc[t] = "inhibit",
         pc' = [pc EXCEPT ![t] = caller_pc(t)],
         scope' = [scope EXCEPT ![t] = None],
         this_one' = [this_one EXCEPT ![t] = FALSE],
         UNCHANGED <<msg, current_rpcs>>
  PROVE  /\ Located'
         /\ pc' \in [Threads -> {"idle", "begin", "blocked", "check", "handler",
                                 "interrupt", "handled", "inhibit"}]
         /\ scope' \in [Threads -> Scopes \cup {None}]
         /\ this_one' \in [Threads -> BOOLEAN]
         /\ \A u \in Threads : /\ pc'[u] \in {"check", "blocked", "interrupt"} => pc'[u] = pc[u]
                               /\ pc[u] = "check" => pc'[u] = "check"
<1> USE DEF Inv
<1>1. caller_pc(t) \in {"idle", "handler"} /\ (caller_pc(t) = "handler" <=> InRpc(t))
  BY DEF caller_pc
<1>2. InRpc(t) <=> msg[t] # NoMsg
  BY MessageTypes DEF Located, InRpc, may_call
<1>3. Located'
  BY <1>1, <1>2, MessageTypes DEF TypeOK, Located, Serving, InRpc, may_call
<1> QED BY <1>1, <1>3 DEF TypeOK, may_call

(* The parts of the invariant that say nothing of the flags, when the      *)
(* lists, the messages and the thresholds do not change.                   *)
LEMMA QuietKeeps ==
  ASSUME Inv, UNCHANGED <<current_rpcs, msg, cancel_threshold, swept, rpcs, interrupted>>,
         hit \subseteq hit',
         \A u \in Threads : /\ pc'[u] \in {"check", "blocked", "interrupt"} => pc'[u] = pc[u]
                            /\ pc[u] = "check" => pc'[u] = "check",
         \A u \in cancel' : u \in cancel \/ InRpc(u)
  PROVE  /\ CountersMatch' /\ NoStaleCancel' /\ InterruptedInProgress'
         /\ Thresholds' /\ InterruptNotLost'
<1> USE DEF Inv
<1>1. CountersMatch'
  BY SameCounters
<1>2. NoStaleCancel' /\ InterruptedInProgress'
  BY DEF NoStaleCancel, InterruptedInProgress, InRpc, Serving
<1>3. Thresholds'
  BY DEF Thresholds
<1>4. InterruptNotLost'
  BY DEF InterruptNotLost, InRpc, Serving
<1> QED BY <1>1, <1>2, <1>3, <1>4

(* A scope becomes inhibited when only its inhibitor's RPC is left in it.  *)
LEMMA InhibitedHolds ==
  ASSUME Inv, NEW t \in Threads, NEW s \in Scopes, Quiet(t, s), Inhibited(t, s), UNCHANGED <<msg, current_rpcs>>
  PROVE  InhibitionHolds'
<1> USE DEF Inv
<1>1. \A p \in PortsOf(s) : current_rpcs[p] \subseteq {t}
  BY NothingPending
<1>2. ASSUME NEW r \in inhibited', NEW p \in PortsOf(r), NEW u \in current_rpcs[p]
      PROVE  u = owner'[r] \/ msg[u].id \in uninhibitable_rpcs
  <2>1. CASE r = s
    BY <1>1, <2>1 DEF Inhibited, TypeOK
  <2>2. CASE r # s
    BY <2>2 DEF Inhibited, TypeOK, InhibitionHolds
  <2> QED BY <2>1, <2>2
<1> QED BY <1>2 DEF InhibitionHolds

(* ports_inhibit_*_rpcs up to its first wait. *)
LEMMA InhibitKeeps ==
  ASSUME Inv, NEW t \in Threads, NEW s \in Inhibitable, inhibit_rpcs(t, s)
  PROVE  Inv'
<1> DEFINE own == t \in SeenBy(s)
<1> USE DEF Inv, rights
<1>a. s \in Scopes
  BY PortRpcAssumption
<1>b. /\ victims(t, s) \subseteq Threads /\ \A u \in victims(t, s) : InRpc(u)
      /\ own => \E p \in PortsOf(s) : Serving(t, p)
  BY <1>a, SeenInProgress DEF victims
<1>c. /\ UNCHANGED <<blocked, current_rpcs, rpcs, interrupted, cancel_threshold,
                     port_right, in_table, seqno, msg, swept>>
      /\ hit' = hit \cup victims(t, s) /\ may_call(t)
      /\ cancel' \subseteq cancel \cup victims(t, s)
  BY DEF inhibit_rpcs
<1>1. CASE UNCHANGED <<inhibit_wait, waiters, scope, this_one, pc, inhibited, owner>>
  <2> USE <1>1, <1>c
  <2>1. TypeOK'
    BY <1>b DEF TypeOK
  <2>2. Located' /\ InhibitionHolds' /\ SleepersFlagged'
    BY DEF Located, InhibitionHolds, SleepersFlagged, Serving
  <2>3. /\ CountersMatch' /\ NoStaleCancel' /\ InterruptedInProgress'
        /\ Thresholds' /\ InterruptNotLost'
    BY <1>b, QuietKeeps
  <2> QED BY <2>1, <2>2, <2>3
<1>2. CASE /\ this_one' = [this_one EXCEPT ![t] = own]
           /\ inhibit_wait' = inhibit_wait \cup {s}
           /\ waiters' = waiters \cup {t}
           /\ scope' = [scope EXCEPT ![t] = s]
           /\ pc' = [pc EXCEPT ![t] = "inhibit"]
           /\ UNCHANGED <<inhibited, owner>>
  <2> USE <1>2, <1>c
  <2>0. \A u \in Threads : /\ pc'[u] \in {"check", "blocked", "interrupt"} => pc'[u] = pc[u]
                           /\ pc[u] = "check" => pc'[u] = "check"
    BY DEF TypeOK, may_call
  <2>1. TypeOK'
    BY <1>a, <1>b DEF TypeOK
  <2>a. /\ scope'[t] = s /\ \A u \in Threads \ {t} : scope'[u] = scope[u]
        /\ this_one'[t] => \E p \in PortsOf(s) : Serving(t, p)
        /\ \A u \in Threads \ {t} : this_one'[u] = this_one[u] /\ pc'[u] = pc[u]
        /\ pc'[t] = "inhibit" /\ pc[t] \in {"idle", "handler"}
    BY <1>b DEF TypeOK, may_call
  <2>b. \A u \in Threads, q \in Ports : Serving(u, q)' <=> Serving(u, q)
    BY DEF Serving
  <2>2. Located'
    <3>1. (\A u \in Threads, p \in Ports :
             Serving(u, p) <=> msg[u].port = p /\ pc[u] \notin {"begin", "blocked"})'
      BY <2>a, <2>b DEF Located
    <3>2. (\A u \in Threads : /\ pc[u] \notin {"idle", "inhibit"} => msg[u] # NoMsg
                              /\ pc[u] = "idle" => msg[u] = NoMsg)'
      BY <2>a DEF Located
    <3>3. (\A u \in Threads : pc[u] = "inhibit" =>
             /\ scope[u] \in Scopes
             /\ this_one[u] => \E p \in PortsOf(scope[u]) : Serving(u, p))'
      BY <1>a, <2>a DEF Located, Serving, PortsOf
    <3> QED BY <3>1, <3>2, <3>3 DEF Located
  <2>3. InhibitionHolds' /\ SleepersFlagged'
    BY DEF TypeOK, InhibitionHolds, SleepersFlagged
  <2>4. /\ CountersMatch' /\ NoStaleCancel' /\ InterruptedInProgress'
        /\ Thresholds' /\ InterruptNotLost'
    BY <1>b, <2>0, QuietKeeps
  <2> QED BY <2>1, <2>2, <2>3, <2>4
<1>3. CASE ~pending_rpcs(t, s, own) /\ Inhibited(t, s) /\ UNCHANGED waiters
  <2> USE <1>3, <1>c
  <2>0. /\ pc' = [pc EXCEPT ![t] = caller_pc(t)]
        /\ scope' = [scope EXCEPT ![t] = None]
        /\ this_one' = [this_one EXCEPT ![t] = FALSE]
        /\ inhibit_wait' = inhibit_wait \ {s} /\ inhibited' = inhibited \cup {s}
        /\ owner' = [owner EXCEPT ![s] = t]
    BY DEF Inhibited
  <2>1. /\ Located'
        /\ pc' \in [Threads -> {"idle", "begin", "blocked", "check", "handler",
                                "interrupt", "handled", "inhibit"}]
        /\ scope' \in [Threads -> Scopes \cup {None}]
        /\ this_one' \in [Threads -> BOOLEAN]
        /\ \A u \in Threads : /\ pc'[u] \in {"check", "blocked", "interrupt"} => pc'[u] = pc[u]
                              /\ pc[u] = "check" => pc'[u] = "check"
    BY <2>0, BackInCaller
  <2>2. TypeOK'
    BY <1>a, <1>b, <2>0, <2>1 DEF TypeOK
  <2>3. InhibitionHolds'
    <3>1. rpcs[s] \in Nat \/ s \in Ports
      BY <1>a DEF TypeOK, Counted
    <3>2. Quiet(t, s)
      BY <1>b, <3>1 DEF Quiet, pending_rpcs
    <3> QED BY <1>a, <3>2, InhibitedHolds
  <2>4. SleepersFlagged'
    BY <2>1 DEF TypeOK, SleepersFlagged
  <2>5. /\ CountersMatch' /\ NoStaleCancel' /\ InterruptedInProgress'
        /\ Thresholds' /\ InterruptNotLost'
    BY <1>b, <2>1, QuietKeeps
  <2> QED BY <2>1, <2>2, <2>3, <2>4, <2>5
<1> QED BY <1>1, <1>2, <1>3 DEF inhibit_rpcs

(* ports_inhibit_*_rpcs after a broadcast. *)
LEMMA WokenKeeps ==
  ASSUME Inv, NEW t \in Threads, inhibit_woken(t)
  PROVE  Inv'
<1> DEFINE s == scope[t]
<1> USE DEF Inv, rights
<1>a. /\ s \in Scopes /\ this_one[t] \in BOOLEAN
      /\ this_one[t] => \E p \in PortsOf(s) : Serving(t, p)
  BY DEF inhibit_woken, Located, TypeOK
<1>c. /\ UNCHANGED <<blocked, current_rpcs, rpcs, cancel, interrupted, cancel_threshold,
                     port_right, in_table, seqno, msg, hit, swept>>
      /\ pc[t] = "inhibit"
  BY DEF inhibit_woken
<1>1. CASE /\ waiters' = waiters \cup {t}
           /\ UNCHANGED <<inhibited, inhibit_wait, owner, scope, this_one, pc>>
  <2> USE <1>1, <1>c
  <2>1. TypeOK'
    BY DEF TypeOK
  <2>2. Located' /\ InhibitionHolds' /\ SleepersFlagged'
    BY DEF Located, InhibitionHolds, SleepersFlagged, Serving
  <2>3. /\ CountersMatch' /\ NoStaleCancel' /\ InterruptedInProgress'
        /\ Thresholds' /\ InterruptNotLost'
    BY QuietKeeps
  <2> QED BY <2>1, <2>2, <2>3
<1>2. CASE ~pending_rpcs(t, s, this_one[t]) /\ Inhibited(t, s) /\ UNCHANGED waiters
  <2> USE <1>2, <1>c
  <2>0. /\ pc' = [pc EXCEPT ![t] = caller_pc(t)]
        /\ scope' = [scope EXCEPT ![t] = None]
        /\ this_one' = [this_one EXCEPT ![t] = FALSE]
        /\ inhibit_wait' = inhibit_wait \ {s} /\ inhibited' = inhibited \cup {s}
        /\ owner' = [owner EXCEPT ![s] = t]
    BY DEF Inhibited
  <2>1. /\ Located'
        /\ pc' \in [Threads -> {"idle", "begin", "blocked", "check", "handler",
                                "interrupt", "handled", "inhibit"}]
        /\ scope' \in [Threads -> Scopes \cup {None}]
        /\ this_one' \in [Threads -> BOOLEAN]
        /\ \A u \in Threads : /\ pc'[u] \in {"check", "blocked", "interrupt"} => pc'[u] = pc[u]
                              /\ pc[u] = "check" => pc'[u] = "check"
    BY <2>0, BackInCaller
  <2>2. TypeOK'
    BY <1>a, <2>0, <2>1 DEF TypeOK
  <2>3. InhibitionHolds'
    <3>1. rpcs[s] \in Nat \/ s \in Ports
      BY <1>a DEF TypeOK, Counted
    <3>2. Quiet(t, s)
      BY <1>a, <3>1 DEF Quiet, pending_rpcs
    <3> QED BY <1>a, <3>2, InhibitedHolds
  <2>4. SleepersFlagged'
    BY <2>1 DEF TypeOK, SleepersFlagged
  <2>5. /\ CountersMatch' /\ NoStaleCancel' /\ InterruptedInProgress'
        /\ Thresholds' /\ InterruptNotLost'
    BY <2>1, QuietKeeps
  <2> QED BY <2>1, <2>2, <2>3, <2>4, <2>5
<1> QED BY <1>1, <1>2 DEF inhibit_woken

(* ports_inhibit_*_rpcs, cancelled in its sleep. *)
LEMMA InhibitCancelledKeeps ==
  ASSUME Inv, NEW t \in Threads, inhibit_cancelled(t)
  PROVE  Inv'
<1> USE DEF Inv, rights, inhibit_cancelled
<1>1. /\ Located'
      /\ pc' \in [Threads -> {"idle", "begin", "blocked", "check", "handler",
                              "interrupt", "handled", "inhibit"}]
      /\ scope' \in [Threads -> Scopes \cup {None}]
      /\ this_one' \in [Threads -> BOOLEAN]
      /\ \A u \in Threads : /\ pc'[u] \in {"check", "blocked", "interrupt"} => pc'[u] = pc[u]
                            /\ pc[u] = "check" => pc'[u] = "check"
  BY BackInCaller
<1>2. TypeOK'
  BY <1>1 DEF TypeOK
<1>3. InhibitionHolds'
  BY DEF InhibitionHolds
<1>4. SleepersFlagged'
  BY <1>1 DEF TypeOK, SleepersFlagged
<1>5. /\ CountersMatch' /\ NoStaleCancel' /\ InterruptedInProgress'
      /\ Thresholds' /\ InterruptNotLost'
  BY <1>1, QuietKeeps
<1> QED BY <1>1, <1>2, <1>3, <1>4, <1>5

(* ports_resume_*_rpcs. *)
LEMMA ResumeKeeps ==
  ASSUME Inv, NEW t \in Threads, NEW s \in Inhibitable, resume_rpcs(t, s)
  PROVE  Inv'
<1> USE DEF Inv, rights, resume_rpcs
<1>0. InRpc(t) <=> pc[t] # "idle"
  BY MessageTypes DEF Located, InRpc
<1>1. \A u \in Threads : /\ pc'[u] \in {"check", "blocked", "interrupt"} => pc'[u] = pc[u]
                         /\ pc[u] = "check" => pc'[u] = "check"
  BY DEF TypeOK
<1>2. TypeOK'
  BY DEF TypeOK
<1>3. Located'
  BY <1>0 DEF TypeOK, Located, Serving
<1>4. InhibitionHolds'
  BY DEF TypeOK, InhibitionHolds
<1>5. SleepersFlagged'
  BY <1>1 DEF TypeOK, SleepersFlagged
<1>6. /\ CountersMatch' /\ NoStaleCancel' /\ InterruptedInProgress'
      /\ Thresholds' /\ InterruptNotLost'
  BY <1>1, QuietKeeps
<1> QED BY <1>2, <1>3, <1>4, <1>5, <1>6

-----------------------------------------------------------------------------
(* The receive right goes away, or foreign code cancels a thread. *)
LEMMA OutsideKeeps ==
  ASSUME Inv,
         \/ \E p \in Ports : destroy_right(p) \/ claim_right(p)
         \/ \E t \in Threads : foreign_cancel(t)
         \/ UNCHANGED vars
  PROVE  Inv'
<1> USE DEF Inv, flags, rights
<1>a. /\ UNCHANGED <<flags, current_rpcs, rpcs, waiters, interrupted, cancel_threshold,
                     seqno, pc, msg, scope, this_one, owner, swept>>
      /\ port_right' \in [Ports -> {"name", "null", "dead"}] /\ in_table' \subseteq Ports
      /\ hit \subseteq hit' /\ hit' \subseteq Threads /\ cancel' \subseteq Threads
      /\ cancel' \subseteq cancel \cup ForeignCancel
  BY PortRpcAssumption DEF TypeOK, destroy_right, claim_right, foreign_cancel, vars
<1>1. TypeOK'
  BY <1>a DEF TypeOK
<1>2. Located' /\ InhibitionHolds' /\ SleepersFlagged'
  BY <1>a DEF Located, InhibitionHolds, SleepersFlagged, Serving
<1>3. CountersMatch'
  BY <1>a, SameCounters
<1>4. NoStaleCancel' /\ InterruptedInProgress'
  BY <1>a DEF NoStaleCancel, InterruptedInProgress, InRpc, Serving
<1>5. Thresholds' /\ InterruptNotLost'
  BY <1>a DEF Thresholds, InterruptNotLost, InRpc, Serving
<1> QED BY <1>1, <1>2, <1>3, <1>4, <1>5

LEMMA InitHolds == Init => Inv
<1> SUFFICES ASSUME Init PROVE Inv
  OBVIOUS
<1> USE DEF Init
<1>0. \A t \in Threads : ~InRpc(t)
  BY DEF InRpc, Serving
<1>1. TypeOK
  BY PortRpcAssumption DEF TypeOK, Counted
<1>2. Located
  BY MessageTypes, <1>1 DEF Located, Serving
<1>3. CountersMatch
  <2>1. ASSUME NEW s \in Counted
        PROVE  Users(s) = {}
    BY DEF Users, Serving, PortsOf
  <2> QED BY <2>1, FS_EmptySet DEF CountersMatch, Users
<1>4. InhibitionHolds /\ NoStaleCancel /\ InterruptedInProgress /\ SleepersFlagged
  BY DEF InhibitionHolds, NoStaleCancel, InterruptedInProgress, SleepersFlagged
<1>5. Thresholds /\ InterruptNotLost
  BY <1>0 DEF Thresholds, InterruptNotLost
<1> QED BY <1>1, <1>2, <1>3, <1>4, <1>5 DEF Inv

LEMMA NextKeeps == Inv /\ [Next]_vars => Inv'
<1> SUFFICES ASSUME Inv, [Next]_vars PROVE Inv'
  OBVIOUS
<1>1. ASSUME NEW t \in Threads, ThreadStep(t) PROVE Inv'
  BY <1>1, BeginKeeps, BeginCancelledKeeps, CheckKeeps, EndKeeps, RaiseKeeps,
     InterruptKeeps, WokenKeeps, InhibitCancelledKeeps DEF ThreadStep
<1>2. ASSUME NEW t \in Threads, NEW p \in Ports,
             NEW id \in {"request", "interrupt_operation"}, receive(t, p, id)
      PROVE  Inv'
  BY <1>2, ReceiveKeeps
<1>3. ASSUME NEW t \in Threads, notice_cancel(t) PROVE Inv'
  BY <1>3, NoticeKeeps
<1>4. ASSUME NEW t \in Threads, NEW s \in Inhibitable, inhibit_rpcs(t, s) \/ resume_rpcs(t, s)
      PROVE  Inv'
  BY <1>4, InhibitKeeps, ResumeKeeps
<1> QED BY <1>1, <1>2, <1>3, <1>4, OutsideKeeps DEF Next

(* The invariant of the RPCs in progress. *)
THEOREM InvHolds == Spec => []Inv
BY InitHolds, NextKeeps, PTL DEF Spec

(* Type correctness; no counter of RPCs goes below zero. *)
THEOREM TypeCorrect == Spec => []TypeOK
<1>1. Inv => TypeOK
  BY DEF Inv
<1> QED BY <1>1, InvHolds, PTL

(* The counters that ports_inhibit_*_rpcs waits on always agree with the   *)
(* lists of the ports, whichever threads begin, end or abandon an RPC.     *)
THEOREM CountersAlwaysMatch == Spec => []CountersMatch
<1>1. Inv => CountersMatch
  BY DEF Inv
<1> QED BY <1>1, InvHolds, PTL

(* From the return of ports_inhibit_*_rpcs to the resume, only the         *)
(* inhibitor's RPC and uninhibitable ones run in the scope.                *)
THEOREM InhibitionIsSafe == Spec => []InhibitionHolds
<1>1. Inv => InhibitionHolds
  BY DEF Inv
<1> QED BY <1>1, InvHolds, PTL

(* ports_end_rpc leaves no cancellation of libports for the next RPC. *)
THEOREM CancelsEndWithRpc == Spec => []NoStaleCancel
<1>1. Inv => NoStaleCancel
  BY DEF Inv
<1> QED BY <1>1, InvHolds, PTL

(* The list of interrupted.c never holds an rpc_info whose stack frame is  *)
(* gone.                                                                   *)
THEOREM InterruptedStaysInProgress == Spec => []InterruptedInProgress
<1>1. Inv => InterruptedInProgress
  BY DEF Inv
<1> QED BY <1>1, InvHolds, PTL

(* A sleeper in ports_begin_rpc has left a BLOCKED flag where resume will  *)
(* find it.                                                                *)
THEOREM SleepersStayFlagged == Spec => []SleepersFlagged
<1>1. Inv => SleepersFlagged
  BY DEF Inv
<1> QED BY <1>1, InvHolds, PTL

(* No RPC that came before an interrupt_operation escapes both the sweep   *)
(* and the cancel threshold.                                               *)
THEOREM InterruptsReachAll == Spec => []InterruptNotLost
<1>1. Inv => InterruptNotLost
  BY DEF Inv
<1> QED BY <1>1, InvHolds, PTL

-----------------------------------------------------------------------------
(* Who sleeps in ports_inhibit_*_rpcs: one thread per scope, whose         *)
(* INHIBIT_WAIT flag is set, and which has seen its own RPC unless the     *)
(* RPC's port had left the hash table.                                     *)
InhibitorState ==
  /\ \A t \in Threads : pc[t] = "inhibit" => scope[t] \in inhibit_wait
  /\ \A t, u \in Threads :
       pc[t] = "inhibit" /\ pc[u] = "inhibit" /\ scope[t] = scope[u] => t = u
  /\ \A t \in Threads : pc[t] = "inhibit" /\ ~this_one[t] =>
       \A p \in PortsOf(scope[t]) : t \in current_rpcs[p] => p \notin in_table

Cause(t, s, own) ==
  \E p \in PortsOf(s) : \/ current_rpcs[p] \ {t} # {}
                        \/ t \in current_rpcs[p] /\ ~own /\ p \notin in_table

WaitInv ==
  /\ InhibitorState
  /\ \A t \in waiters : pc[t] = "inhibit" => Cause(t, scope[t], this_one[t])

(* Whoever has to wait has a cause. *)
LEMMA PendingCause ==
  ASSUME TypeOK, CountersMatch, NEW t \in Threads, NEW s \in Scopes,
         NEW own \in BOOLEAN, pending_rpcs(t, s, own),
         ~own => \A p \in PortsOf(s) : t \in current_rpcs[p] => p \notin in_table
  PROVE  Cause(t, s, own)
<1>1. CASE s \in Ports
  BY <1>1, ScopeOfPort DEF pending_rpcs, Cause
<1>2. CASE s \notin Ports
  <2>1. s \in Counted /\ rpcs[s] = Cardinality(Users(s)) /\ rpcs[s] \in Nat
    BY <1>2 DEF Counted, CountersMatch, Users, TypeOK
  <2>2. CASE own
    <3>1. Cardinality(Users(s)) > 1
      BY <1>2, <2>1, <2>2 DEF pending_rpcs
    <3>2. Cardinality({t}) = 1 /\ IsFiniteSet({t})
      BY FS_Singleton
    <3>3. ~(Users(s) \subseteq {t})
      <4> SUFFICES ASSUME Users(s) \subseteq {t} PROVE FALSE
        OBVIOUS
      <4>1. Cardinality(Users(s)) <= 1
        BY <3>2, FS_Subset
      <4> QED BY <3>1, <4>1, UsersFinite
    <3>4. PICK u \in Users(s) : u # t
      BY <3>3
    <3> QED BY <3>4 DEF Users, Serving, Cause
  <2>3. CASE ~own
    <3>1. Cardinality(Users(s)) # 0
      BY <1>2, <2>1, <2>3 DEF pending_rpcs
    <3>2. PICK u \in Users(s) : TRUE
      BY <3>1, FS_EmptySet
    <3> QED BY <2>3, <3>2 DEF Users, Serving, Cause
  <2> QED BY <2>2, <2>3
<1> QED BY <1>1, <1>2

(* A step of the threads W (of one thread or of none) keeps the sleep of   *)
(* the others justified: it does not touch their records, takes no RPC off *)
(* a list that they wait for unless it wakes them, and leaves their flags. *)
LEMMA OthersWait ==
  ASSUME TypeOK, WaitInv, NEW W \in SUBSET Threads,
         waiters' \subseteq Threads,
         \A t \in Threads \ W : pc'[t] = "inhibit" =>
           /\ pc[t] = "inhibit" /\ scope'[t] = scope[t]
           /\ this_one'[t] = this_one[t] /\ scope[t] \in inhibit_wait'
           /\ \A p \in Ports : t \in current_rpcs'[p] <=> t \in current_rpcs[p],
         \A t \in waiters' \ W : pc'[t] = "inhibit" =>
           /\ t \in waiters
           /\ \A p \in PortsOf(scope[t]) : current_rpcs[p] \subseteq current_rpcs'[p],
         in_table' \subseteq in_table,
         \A w \in W : pc'[w] = "inhibit" =>
           /\ scope'[w] \in inhibit_wait'
           /\ ~this_one'[w] => \A p \in PortsOf(scope'[w]) :
                                 w \in current_rpcs'[p] => p \notin in_table'
           /\ \A t \in Threads :
                pc'[t] = "inhibit" /\ scope'[t] = scope'[w] => t = w,
         \A w \in W : pc'[w] = "inhibit" /\ w \in waiters' =>
           Cause(w, scope[w], this_one[w])'
  PROVE  WaitInv'
<1>1. \A s : PortsOf(s) \subseteq Ports
  BY DEF PortsOf
<1>2. \A t \in Threads : pc'[t] = "inhibit" => scope'[t] \in inhibit_wait'
  OBVIOUS
<1>3. ASSUME NEW t \in Threads, NEW u \in Threads, pc'[t] = "inhibit",
             pc'[u] = "inhibit", scope'[t] = scope'[u]
      PROVE  t = u
  <2>1. CASE t \in W \/ u \in W
    BY <1>3, <2>1
  <2>2. CASE t \notin W /\ u \notin W
    BY <1>3, <2>2 DEF WaitInv, InhibitorState
  <2> QED BY <2>1, <2>2
<1>4. ASSUME NEW t \in Threads, pc'[t] = "inhibit", ~this_one'[t],
             NEW p \in PortsOf(scope'[t]), t \in current_rpcs'[p]
      PROVE  p \notin in_table'
  <2>1. CASE t \in W
    BY <1>4, <2>1
  <2>2. CASE t \notin W
    BY <1>1, <1>4, <2>2 DEF WaitInv, InhibitorState
  <2> QED BY <2>1, <2>2
<1>5. InhibitorState'
  BY <1>2, <1>3, <1>4 DEF InhibitorState, PortsOf, ScopesOf
<1>6. ASSUME NEW t \in waiters', pc'[t] = "inhibit"
      PROVE  Cause(t, scope[t], this_one[t])'
  <2>1. CASE t \in W
    BY <1>6, <2>1
  <2>2. CASE t \notin W
    <3>1. /\ t \in Threads /\ pc[t] = "inhibit" /\ t \in waiters
          /\ scope'[t] = scope[t] /\ this_one'[t] = this_one[t]
      BY <1>6, <2>2
    <3>2. PICK p \in PortsOf(scope[t]) :
            \/ current_rpcs[p] \ {t} # {}
            \/ t \in current_rpcs[p] /\ ~this_one[t] /\ p \notin in_table
      BY <3>1 DEF WaitInv, Cause
    <3>3. p \in Ports /\ current_rpcs[p] \subseteq current_rpcs'[p]
      BY <1>1, <1>6, <2>2, <3>2
    <3>4. \/ current_rpcs'[p] \ {t} # {}
          \/ t \in current_rpcs'[p] /\ ~this_one'[t] /\ p \notin in_table'
      BY <3>1, <3>2, <3>3
    <3> QED BY <3>1, <3>2, <3>4 DEF Cause, PortsOf, ScopesOf
  <2> QED BY <2>1, <2>2
<1> QED BY <1>5, <1>6 DEF WaitInv

(* Steps outside of ports_inhibit_*_rpcs that leave the lists of RPCs, or  *)
(* only add to them.                                                       *)
LEMMA AddingWaits ==
  ASSUME Inv, WaitInv, NEW t \in Threads,
         \/ begin_rpc(t) \/ begin_rpc_cancelled(t) \/ check_threshold(t)
         \/ raise_threshold(t) \/ interrupt_rpcs(t) \/ notice_cancel(t)
         \/ foreign_cancel(t)
         \/ \E p \in Ports, id \in {"request", "interrupt_operation"} : receive(t, p, id)
         \/ \E s \in Inhibitable : resume_rpcs(t, s)
  PROVE  WaitInv'
<1>1. TypeOK
  BY DEF Inv
<1>2. /\ UNCHANGED <<scope, this_one, inhibit_wait, in_table>>
      /\ \A u \in waiters' : u = t \/ u \in waiters
      /\ \A u \in Threads \ {t} : pc'[u] = pc[u]
      /\ pc'[t] = "inhibit" => pc'[t] = pc[t] /\ (t \in waiters' => t \in waiters)
      /\ waiters' \subseteq Threads
  BY <1>1 DEF begin_rpc, begin_rpc_cancelled, check_threshold, raise_threshold,
       interrupt_rpcs, notice_cancel, foreign_cancel, receive, resume_rpcs,
       Abandon, flags, rights, TypeOK
<1>3. /\ \A p \in Ports : current_rpcs[p] \subseteq current_rpcs'[p]
      /\ \A p \in Ports : current_rpcs'[p] \subseteq current_rpcs[p] \cup {t}
      /\ pc[t] = "inhibit" => current_rpcs' = current_rpcs
  BY <1>1 DEF begin_rpc, begin_rpc_cancelled, check_threshold, raise_threshold,
       interrupt_rpcs, notice_cancel, foreign_cancel, receive, resume_rpcs, TypeOK
<1>4. \A s : PortsOf(s) \subseteq Ports
  BY DEF PortsOf
<1>5. \A u \in Threads : pc'[u] = "inhibit" =>
        /\ pc[u] = "inhibit" /\ scope'[u] = scope[u]
        /\ this_one'[u] = this_one[u] /\ scope[u] \in inhibit_wait'
        /\ \A p \in Ports : u \in current_rpcs'[p] <=> u \in current_rpcs[p]
  BY <1>2, <1>3 DEF WaitInv, InhibitorState
<1>6. \A u \in waiters' : pc'[u] = "inhibit" =>
        /\ u \in waiters
        /\ \A p \in PortsOf(scope[u]) : current_rpcs[p] \subseteq current_rpcs'[p]
  BY <1>2, <1>3, <1>4
<1>7. {} \in SUBSET Threads /\ in_table' \subseteq in_table
  BY <1>2
<1> QED BY <1>1, <1>2, <1>5, <1>6, <1>7, OthersWait

(* ports_end_rpc: whoever waits for a scope of the port is woken. *)
LEMMA EndWaits ==
  ASSUME Inv, WaitInv, NEW t \in Threads, end_rpc(t)
  PROVE  WaitInv'
<1> DEFINE p == msg[t].port
<1>1. TypeOK /\ Located
  BY DEF Inv
<1>2. p \in Ports
  BY <1>1, MessageTypes DEF end_rpc, Located
<1>3. /\ UNCHANGED <<scope, this_one, inhibit_wait, in_table>>
      /\ waiters' = IF inhibitor_waits(p) THEN {} ELSE waiters
      /\ \A u \in Threads \ {t} : pc'[u] = pc[u]
      /\ pc'[t] = "idle"
      /\ \A q \in Ports : /\ current_rpcs[q] \ {t} = current_rpcs'[q] \ {t}
                          /\ q # p => current_rpcs'[q] = current_rpcs[q]
  BY <1>1, <1>2 DEF end_rpc, Abandon, flags, rights, TypeOK
<1>4. \A u \in Threads \ {} : pc'[u] = "inhibit" =>
        /\ pc[u] = "inhibit" /\ scope'[u] = scope[u]
        /\ this_one'[u] = this_one[u] /\ scope[u] \in inhibit_wait'
        /\ \A q \in Ports : u \in current_rpcs'[q] <=> u \in current_rpcs[q]
  BY <1>3 DEF WaitInv, InhibitorState
<1>5. ASSUME NEW u \in waiters', pc'[u] = "inhibit", NEW q \in PortsOf(scope[u])
      PROVE  u \in waiters /\ current_rpcs[q] \subseteq current_rpcs'[q]
  <2>1. u \in waiters /\ ~inhibitor_waits(p) /\ u \in Threads /\ q \in Ports
    BY <1>1, <1>3, <1>5 DEF TypeOK, PortsOf
  <2>2. scope[u] \in inhibit_wait /\ scope[u] \in ScopesOf(q)
    BY <1>3, <1>5, <2>1 DEF WaitInv, InhibitorState, PortsOf
  <2>3. q # p
    BY <2>1, <2>2 DEF inhibitor_waits
  <2> QED BY <1>3, <2>1, <2>3
<1>6. {} \in SUBSET Threads /\ in_table' \subseteq in_table /\ waiters' \subseteq Threads
  BY <1>1, <1>3 DEF TypeOK
<1>7. \A u \in waiters' : pc'[u] = "inhibit" =>
        /\ u \in waiters
        /\ \A q \in PortsOf(scope[u]) : current_rpcs[q] \subseteq current_rpcs'[q]
  BY <1>3, <1>5
<1> QED BY <1>1, <1>4, <1>6, <1>7, OthersWait

(* Ports that leave the hash table. *)
LEMMA GoneWaits ==
  ASSUME Inv, WaitInv, NEW p \in Ports, destroy_right(p) \/ claim_right(p)
  PROVE  WaitInv'
<1>1. TypeOK
  BY DEF Inv
<1>2. /\ UNCHANGED <<scope, this_one, inhibit_wait, waiters, pc, current_rpcs>>
      /\ in_table' \subseteq in_table
  BY DEF destroy_right, claim_right, flags
<1>3. {} \in SUBSET Threads /\ waiters' \subseteq Threads
  BY <1>1, <1>2 DEF TypeOK
<1>4. \A u \in Threads : pc'[u] = "inhibit" => scope[u] \in inhibit_wait'
  BY <1>2 DEF WaitInv, InhibitorState
<1> QED BY <1>1, <1>2, <1>3, <1>4, OthersWait

(* ports_inhibit_*_rpcs up to its first wait. *)
LEMMA InhibitWaits ==
  ASSUME Inv, WaitInv, NEW t \in Threads, NEW s \in Inhibitable, inhibit_rpcs(t, s)
  PROVE  WaitInv'
<1> DEFINE own == t \in SeenBy(s)
<1>1. TypeOK /\ CountersMatch /\ s \in Scopes /\ s \notin inhibit_wait
  BY PortRpcAssumption DEF Inv, inhibit_rpcs
<1>2. /\ UNCHANGED <<current_rpcs, in_table>>
      /\ \A u \in Threads \ {t} : /\ pc'[u] = pc[u] /\ scope'[u] = scope[u]
                                  /\ this_one'[u] = this_one[u]
      /\ inhibit_wait \subseteq inhibit_wait'
      /\ waiters' \subseteq waiters \cup {t}
  BY <1>1 DEF inhibit_rpcs, Inhibited, rights, TypeOK
<1>3. pc'[t] = "inhibit" =>
        /\ pending_rpcs(t, s, own) /\ scope'[t] = s /\ this_one'[t] = own
        /\ s \in inhibit_wait'
  <2>1. caller_pc(t) # "inhibit" /\ pc[t] # "inhibit"
    BY DEF caller_pc, inhibit_rpcs, may_call
  <2> QED BY <1>1, <2>1 DEF inhibit_rpcs, Inhibited, TypeOK
<1>4. ~own => \A p \in PortsOf(s) : t \in current_rpcs[p] => p \notin in_table
  <2>1. s \in Ports => PortsOf(s) = {s}
    BY PortRpcAssumption DEF PortsOf, ScopesOf
  <2> QED BY <2>1 DEF SeenBy
<1>5. pc'[t] = "inhibit" => Cause(t, scope[t], this_one[t])'
  <2>1. pc'[t] = "inhibit" => Cause(t, s, own)
    <3>1. PICK seen \in BOOLEAN : seen <=> own
      OBVIOUS
    <3>2. pc'[t] = "inhibit" => pending_rpcs(t, s, seen)
      BY <1>3, <3>1 DEF pending_rpcs
    <3>3. ~seen => \A p \in PortsOf(s) : t \in current_rpcs[p] => p \notin in_table
      BY <1>4, <3>1
    <3>4. pc'[t] = "inhibit" => Cause(t, s, seen)
      BY <1>1, <3>2, <3>3, PendingCause
    <3> QED BY <3>1, <3>4 DEF Cause
  <2> QED BY <1>2, <1>3, <2>1 DEF Cause, PortsOf, ScopesOf
<1>6. \A u \in Threads \ {t} : pc'[u] = "inhibit" =>
        /\ pc[u] = "inhibit" /\ scope'[u] = scope[u]
        /\ this_one'[u] = this_one[u] /\ scope[u] \in inhibit_wait'
        /\ scope'[u] # s
        /\ \A p \in Ports : u \in current_rpcs'[p] <=> u \in current_rpcs[p]
  BY <1>1, <1>2 DEF WaitInv, InhibitorState
<1>7. {t} \in SUBSET Threads /\ in_table' \subseteq in_table /\ waiters' \subseteq Threads
  BY <1>1, <1>2 DEF TypeOK
<1>8. \A u \in waiters' \ {t} : pc'[u] = "inhibit" =>
        /\ u \in waiters
        /\ \A p \in PortsOf(scope[u]) : current_rpcs[p] \subseteq current_rpcs'[p]
  BY <1>2
<1>9. \A w \in {t} : pc'[w] = "inhibit" =>
        /\ scope'[w] \in inhibit_wait'
        /\ ~this_one'[w] => \A p \in PortsOf(scope'[w]) :
                              w \in current_rpcs'[p] => p \notin in_table'
        /\ \A u \in Threads :
             pc'[u] = "inhibit" /\ scope'[u] = scope'[w] => u = w
  BY <1>2, <1>3, <1>4, <1>6
<1> QED BY <1>1, <1>5, <1>6, <1>7, <1>8, <1>9, OthersWait

(* The end of the wait, or another turn of the loop. *)
LEMMA WakeWaits ==
  ASSUME Inv, WaitInv, NEW t \in Threads, inhibit_woken(t) \/ inhibit_cancelled(t)
  PROVE  WaitInv'
<1>1. TypeOK /\ CountersMatch /\ scope[t] \in Scopes /\ pc[t] = "inhibit"
  BY DEF Inv, inhibit_woken, inhibit_cancelled, Located
<1>2. /\ UNCHANGED <<current_rpcs, in_table>>
      /\ \A u \in Threads \ {t} : /\ pc'[u] = pc[u] /\ scope'[u] = scope[u]
                                  /\ this_one'[u] = this_one[u]
      /\ inhibit_wait \ {scope[t]} \subseteq inhibit_wait'
      /\ waiters' \subseteq waiters \cup {t}
  BY <1>1 DEF inhibit_woken, inhibit_cancelled, Inhibited, rights, TypeOK
<1>3. pc'[t] = "inhibit" =>
        /\ pending_rpcs(t, scope[t], this_one[t])
        /\ UNCHANGED <<scope, this_one, inhibit_wait>>
  <2>1. caller_pc(t) # "inhibit"
    BY DEF caller_pc
  <2> QED BY <1>1, <2>1 DEF inhibit_woken, inhibit_cancelled, Inhibited, TypeOK
<1>4. ~this_one[t] => \A p \in PortsOf(scope[t]) :
                        t \in current_rpcs[p] => p \notin in_table
  BY <1>1 DEF WaitInv, InhibitorState
<1>5. pc'[t] = "inhibit" => Cause(t, scope[t], this_one[t])'
  <2>1. this_one[t] \in BOOLEAN
    BY <1>1 DEF TypeOK
  <2>2. pc'[t] = "inhibit" => Cause(t, scope[t], this_one[t])
    BY <1>1, <1>3, <1>4, <2>1, PendingCause
  <2> QED BY <1>2, <1>3, <2>2 DEF Cause, PortsOf, ScopesOf
<1>6. \A u \in Threads \ {t} : pc'[u] = "inhibit" =>
        /\ pc[u] = "inhibit" /\ scope'[u] = scope[u]
        /\ this_one'[u] = this_one[u] /\ scope[u] \in inhibit_wait'
        /\ scope'[u] # scope[t]
        /\ \A p \in Ports : u \in current_rpcs'[p] <=> u \in current_rpcs[p]
  BY <1>1, <1>2 DEF WaitInv, InhibitorState
<1>7. {t} \in SUBSET Threads /\ in_table' \subseteq in_table /\ waiters' \subseteq Threads
  BY <1>1, <1>2 DEF TypeOK
<1>8. \A u \in waiters' \ {t} : pc'[u] = "inhibit" =>
        /\ u \in waiters
        /\ \A p \in PortsOf(scope[u]) : current_rpcs[p] \subseteq current_rpcs'[p]
  BY <1>2
<1>9. \A w \in {t} : pc'[w] = "inhibit" =>
        /\ scope'[w] \in inhibit_wait'
        /\ ~this_one'[w] => \A p \in PortsOf(scope'[w]) :
                              w \in current_rpcs'[p] => p \notin in_table'
        /\ \A u \in Threads :
             pc'[u] = "inhibit" /\ scope'[u] = scope'[w] => u = w
  BY <1>1, <1>2, <1>3, <1>4, <1>6 DEF WaitInv, InhibitorState
<1> QED BY <1>1, <1>5, <1>6, <1>7, <1>8, <1>9, OthersWait

(* Nobody sleeps in ports_inhibit_*_rpcs without an RPC to wait for: every *)
(* end of an RPC in a scope wakes the thread that inhibits it.             *)
THEOREM InhibitorsWaitForRpcs == Spec => []InhibitorsHaveCause
<1>1. Init => WaitInv
  BY DEF Init, WaitInv, InhibitorState
<1>2. Inv /\ WaitInv /\ [Next]_vars => WaitInv'
  <2> SUFFICES ASSUME Inv, WaitInv, [Next]_vars PROVE WaitInv'
    OBVIOUS
  <2>1. CASE UNCHANGED vars
    BY <2>1 DEF vars, WaitInv, InhibitorState, Cause, PortsOf, ScopesOf
  <2>2. CASE Next
    BY <2>2, AddingWaits, EndWaits, GoneWaits, InhibitWaits, WakeWaits
    DEF Next, ThreadStep
  <2> QED BY <2>1, <2>2
<1>3. WaitInv => InhibitorsHaveCause
  BY DEF WaitInv, Cause, InhibitorsHaveCause, Serving
<1> QED BY <1>1, <1>2, <1>3, InvHolds, PTL DEF Spec
=============================================================================
