------------------------------ MODULE PortLife ------------------------------
(***************************************************************************)
(* The life of one port object of libports that clients keep alive by      *)
(* their send rights: ports_get_right, the no-senders notification         *)
(* (no-senders.c, notify-no-senders.c), ports_lookup_port and              *)
(* ports_lookup_payload, ports_port_deref and _ports_complete_deallocate.  *)
(* A table of the server may have a weak reference to the object, by which *)
(* it is found again, and which the class's dropweak routine gives up:     *)
(* ext2fs's nodes and pflocal's sockets (KIND "cached") and libfshelp's    *)
(* identities of files (KIND "identity").                                  *)
(*                                                                         *)
(* An action is one critical section, one atomic operation on the          *)
(* reference count, or one call into the kernel.                           *)
(***************************************************************************)
EXTENDS Integers, FiniteSets

CONSTANTS
  Threads,    \* threads of the server
  Creator,    \* the one that created the port
  MaxRights,  \* bound: calls of ports_get_right
  MaxQueue    \* bound: requests in the port's queue

ASSUME PortLifeAssumption ==
  /\ IsFiniteSet(Threads) /\ Creator \in Threads
  /\ MaxRights \in Nat /\ MaxQueue \in Nat

VARIABLES
  kind,            \* of the class: "plain" has no dropweak routine
  hard,            \* pi->refcounts, the hard references
  weak,            \* pi->refcounts, the weak references
  cached,          \* does the server's table have a weak reference?
  has_sendrights,  \* PORT_HAS_SENDRIGHTS
  mscount,         \* pi->mscount
  in_table,        \* is the port in _ports_htable?
  port_right,      \* is pi->port_right valid?
  payloads,        \* do messages carry the object's address as payload?
  revived,         \* history: when lookups found it without references,
                   \* "listed" in the table or "unlisted"
  life,            \* of the object: live, freed, or the server aborted
  pc,              \* where each thread is
  holds,           \* references that each thread holds
  stat,            \* the make-send count a thread got from the kernel
  promised,        \* rights got from ports_get_right and not yet made
  srights,         \* kernel: send rights, the ones in the queue included
  k_mscount,       \* kernel: make-send count
  nsrequest,       \* kernel: is a no-senders notification requested?
  notices,         \* kernel: no-senders notifications in the port's queue
  requests,        \* kernel: requests in the port's queue
  late             \* history: a notification arrived after a new right was made

refs == <<kind, weak, cached>>
listing == <<in_table, port_right, payloads, revived>>
object == <<refs, hard, has_sendrights, mscount, listing, life>>
kernel == <<srights, k_mscount, nsrequest, notices, requests>>
vars == <<kind, weak, cached, hard, has_sendrights, mscount, in_table,
          port_right, payloads, revived, life, pc, holds, stat, promised,
          srights, k_mscount, nsrequest, notices, requests, late>>

(* _ports_create_port_internal: one reference, no send right, and a        *)
(* payload if the kernel has them.  An identity has got its entry and its  *)
(* first right from fshelp_get_identity before anybody can see it.         *)
Init ==
  /\ kind \in {"plain", "cached", "identity"}
  /\ LET entered == kind = "identity"
         n       == IF entered THEN 1 ELSE 0
     IN /\ cached = entered /\ weak = n
        /\ has_sendrights = entered /\ mscount = n
        /\ promised = n /\ nsrequest = entered
        /\ pc = [t \in Threads |->
                   IF t = Creator /\ ~entered THEN "handler" ELSE "idle"]
        /\ holds = [t \in Threads |-> IF t = Creator THEN 1 - n ELSE 0]
  /\ hard = 1
  /\ in_table = TRUE /\ port_right = TRUE /\ life = "live"
  /\ payloads \in BOOLEAN /\ revived = {}
  /\ stat = [t \in Threads |-> 0]
  /\ srights = 0 /\ k_mscount = 0
  /\ notices = 0 /\ requests = 0
  /\ late = FALSE

Goto(t, to) == pc' = [pc EXCEPT ![t] = to]

-----------------------------------------------------------------------------
(* mach_port_request_notification for MACH_NOTIFY_NO_SENDERS with SYNC:    *)
(* at once if there are no senders and enough rights have been made.       *)
request_no_senders(sync) ==
  IF srights = 0 /\ sync <= k_mscount
  THEN notices' = notices + 1 /\ UNCHANGED nsrequest
  ELSE nsrequest' = TRUE /\ UNCHANGED notices

(* The kernel destroys one send right; the last one is notified. *)
release_send ==
  /\ srights' = srights - 1
  /\ IF srights = 1 /\ nsrequest
     THEN nsrequest' = FALSE /\ notices' = notices + 1
     ELSE UNCHANGED <<nsrequest, notices>>

(* A client sends a request on its right, or drops the right. *)
client_sends ==
  /\ life = "live" /\ srights > requests
  /\ requests < MaxQueue
  /\ requests' = requests + 1
  /\ srights' = srights + 1
  /\ UNCHANGED <<object, pc, holds, stat, promised, k_mscount, nsrequest,
                 notices, late>>

client_drops ==
  /\ life = "live" /\ srights > requests
  /\ release_send
  /\ UNCHANGED <<object, pc, holds, stat, promised, k_mscount, requests, late>>

(* The message with the right that ports_get_right returned is sent: the   *)
(* kernel makes the send right.                                            *)
make_send ==
  /\ life = "live" /\ port_right /\ promised > 0
  /\ promised' = promised - 1
  /\ srights' = srights + 1 /\ k_mscount' = k_mscount + 1
  /\ UNCHANGED <<object, pc, holds, stat, nsrequest, notices, requests, late>>

-----------------------------------------------------------------------------
(* ports_get_right. *)
first_right == ~has_sendrights

ports_get_right ==
  /\ \/ /\ port_right
        /\ mscount' = mscount + 1
        /\ promised' = promised + 1
        /\ has_sendrights' = TRUE
        /\ \/ ~first_right /\ UNCHANGED <<hard, nsrequest, notices>>
           \/ first_right /\ hard' = hard + 1 /\ request_no_senders(mscount')
     \/ /\ ~port_right
        /\ UNCHANGED <<mscount, promised, has_sendrights, hard, nsrequest,
                       notices>>
  /\ UNCHANGED <<refs, listing, life, holds, stat, srights, k_mscount,
                 requests, late>>

(* It is called by a handler or the creator, which hold a reference.       *)
get_right(t) ==
  /\ life = "live" /\ pc[t] = "handler" /\ kind # "identity"
  /\ mscount < MaxRights
  /\ ports_get_right
  /\ UNCHANGED pc

(* diskfs_get_filemap and ensure_addr find the object in their table, take *)
(* a reference, and get a right after they have left the table's lock.     *)
find(t) ==
  /\ life = "live" /\ pc[t] = "idle" /\ kind = "cached" /\ cached
  /\ mscount < MaxRights
  /\ hard' = hard + 1
  /\ holds' = [holds EXCEPT ![t] = @ + 1]
  /\ Goto(t, "found")
  /\ UNCHANGED <<refs, has_sendrights, mscount, listing, life, stat, promised,
                 kernel, late>>

found_right(t) ==
  /\ life = "live" /\ pc[t] = "found"
  /\ ports_get_right
  /\ Goto(t, "handler")

(* fshelp_get_identity gets a right under the table's lock, and has no     *)
(* reference of its own.                                                   *)
get_identity ==
  /\ life = "live" /\ kind = "identity" /\ cached
  /\ mscount < MaxRights
  /\ ports_get_right
  /\ UNCHANGED pc

(* ports_port_ref_weak, for the table. *)
port_ref_weak(t) ==
  /\ life = "live" /\ pc[t] = "handler" /\ kind = "cached" /\ ~cached
  /\ cached' = TRUE /\ weak' = weak + 1
  /\ UNCHANGED <<kind, hard, has_sendrights, mscount, listing, life, pc, holds,
                 stat, promised, kernel, late>>

(* mach_msg dequeues a request, and with it its send right, or a           *)
(* notification.                                                           *)
receive_request(t) ==
  /\ life = "live" /\ pc[t] = "idle" /\ requests > 0
  /\ requests' = requests - 1
  /\ release_send
  /\ Goto(t, "request")
  /\ UNCHANGED <<object, holds, stat, promised, k_mscount, late>>

receive_notice(t) ==
  /\ life = "live" /\ pc[t] = "idle" /\ notices > 0
  /\ notices' = notices - 1
  /\ Goto(t, "notice")
  /\ UNCHANGED <<object, holds, stat, promised, srights, k_mscount, nsrequest,
                 requests, late>>

(* The service loop looks for the object: ports_lookup_port in the hash    *)
(* table, under its lock; ports_lookup_payload at the address in the       *)
(* message, without a lock.  A message whose port is gone gets EOPNOTSUPP. *)
revival ==
  {w \in {"listed", "unlisted"} :
     hard = 0 /\ weak = 0 /\ (w = "listed" <=> in_table)}

lookup_port    == in_table
lookup_payload == port_right

may_find == IF payloads THEN lookup_payload ELSE lookup_port

lookup(t) ==
  /\ life = "live" /\ pc[t] \in {"request", "notice"}
  /\ \/ /\ may_find
        /\ hard' = hard + 1
        /\ holds' = [holds EXCEPT ![t] = @ + 1]
        /\ revived' = revived \cup revival
        /\ Goto(t, IF pc[t] = "request" THEN "handler" ELSE "status")
     \/ /\ ~may_find
        /\ Goto(t, "idle")
        /\ UNCHANGED <<hard, holds, revived>>
  /\ UNCHANGED <<refs, has_sendrights, mscount, in_table, port_right, payloads,
                 life, stat, promised, kernel, late>>

(* ports_do_mach_notify_no_senders asks the kernel: if there are senders   *)
(* it returns EAGAIN, and no notification is requested any more.           *)
do_mach_notify_no_senders(t) ==
  /\ life = "live" /\ pc[t] = "status"
  /\ \/ /\ port_right /\ srights > 0
        /\ late' = TRUE
        /\ Goto(t, "handler")
        /\ UNCHANGED stat
     \/ /\ ~port_right
        /\ Goto(t, "handler")
        /\ UNCHANGED <<stat, late>>
     \/ /\ port_right /\ srights = 0
        /\ stat' = [stat EXCEPT ![t] = k_mscount]
        /\ Goto(t, "no_senders")
        /\ UNCHANGED late
  /\ UNCHANGED <<object, holds, promised, kernel>>

(* ports_no_senders: the send rights are gone, and with them their         *)
(* reference, or one more has been promised since.                         *)
\* a wrong all_made, for the mutants
assume_made(t) == TRUE
all_made(t)    == stat[t] >= mscount

no_senders(t) ==
  /\ life = "live" /\ pc[t] = "no_senders"
  /\ Goto(t, "handler") /\ stat' = [stat EXCEPT ![t] = 0]
  /\ \/ /\ ~has_sendrights
        /\ UNCHANGED <<has_sendrights, holds, nsrequest, notices>>
     \/ /\ has_sendrights /\ all_made(t)
        /\ has_sendrights' = FALSE
        /\ holds' = [holds EXCEPT ![t] = @ + 1]
        /\ UNCHANGED <<nsrequest, notices>>
     \/ /\ has_sendrights /\ ~all_made(t)
        /\ IF port_right THEN request_no_senders(mscount)
           ELSE UNCHANGED <<nsrequest, notices>>
        /\ UNCHANGED <<has_sendrights, holds>>
  /\ UNCHANGED <<refs, hard, mscount, listing, life, promised, srights,
                 k_mscount, requests, late>>

(* ports_port_deref, by which a handler or the creator gives up a          *)
(* reference.  The last one goes on to _ports_complete_deallocate.         *)
Left(n) == IF n = 0 THEN "idle" ELSE "handler"

port_deref(t) ==
  /\ life = "live" /\ pc[t] = "handler" /\ kind = "plain"
  /\ hard' = hard - 1
  /\ holds' = [holds EXCEPT ![t] = @ - 1]
  /\ Goto(t, IF hard' = 0 /\ weak = 0 THEN "dealloc" ELSE Left(holds'[t]))
  /\ UNCHANGED <<refs, has_sendrights, mscount, listing, life, stat, promised,
                 kernel, late>>

(* If the class has a dropweak routine, the reference first becomes a weak *)
(* one, so that the object stays while the routine runs.                   *)
\* a wrong must_drop, for the mutants
never_drop(h, w) == FALSE
must_drop(h, w)  == h = 0 /\ w > 1

port_deref_demote(t) ==
  /\ life = "live" /\ pc[t] = "handler" /\ kind # "plain"
  /\ hard' = hard - 1 /\ weak' = weak + 1
  /\ holds' = [holds EXCEPT ![t] = @ - 1]
  /\ Goto(t, IF must_drop(hard', weak') THEN "dropweak" ELSE "weak")
  /\ UNCHANGED <<kind, cached, has_sendrights, mscount, listing, life, stat,
                 promised, kernel, late>>

(* pager_dropweak and addr_unbind take the object out of their table;      *)
(* id_clean does so only if nobody has got a right in between.             *)
may_drop == cached /\ (kind = "identity" => hard = 0)

dropweak_routine(t) ==
  /\ life = "live" /\ pc[t] = "dropweak"
  /\ cached' = (cached /\ ~may_drop)
  /\ weak' = IF may_drop THEN weak - 1 ELSE weak
  /\ Goto(t, "weak")
  /\ UNCHANGED <<kind, hard, has_sendrights, mscount, listing, life, holds,
                 stat, promised, kernel, late>>

(* ports_port_deref_weak, and the same at the end of ports_port_deref. *)
deref_weak(t) ==
  /\ weak' = weak - 1
  /\ Goto(t, IF hard = 0 /\ weak' = 0 THEN "dealloc" ELSE Left(holds[t]))
  /\ UNCHANGED <<kind, hard, has_sendrights, mscount, listing, life, holds,
                 stat, promised, kernel, late>>

port_deref_weak(t) ==
  /\ life = "live" /\ pc[t] = "weak"
  /\ deref_weak(t)
  /\ UNCHANGED cached

(* sock_bind takes an address out of its socket. *)
unbind(t) ==
  /\ life = "live" /\ pc[t] = "idle" /\ kind = "cached" /\ cached
  /\ cached' = FALSE
  /\ deref_weak(t)

(* _ports_complete_deallocate takes the lock of the hash table and looks   *)
(* at the references again: the assertion "reacquired reference w/o send   *)
(* rights" fails, or the port leaves the table.                            *)
\* a wrong reacquired, for the mutants
never_reacquired == FALSE
reacquired       == hard > 0 \/ weak > 0

complete_deallocate(t) ==
  /\ life = "live" /\ pc[t] = "dealloc"
  /\ \/ /\ has_sendrights \/ (port_right /\ reacquired)
        /\ life' = "aborted" /\ Goto(t, "idle")
        /\ UNCHANGED in_table
     \/ /\ ~has_sendrights /\ port_right /\ ~reacquired
        /\ in_table' = FALSE /\ Goto(t, "removed")
        /\ UNCHANGED life
     \/ /\ ~has_sendrights /\ ~port_right
        /\ Goto(t, "cleaning")
        /\ UNCHANGED <<in_table, life>>
  /\ UNCHANGED <<refs, hard, has_sendrights, mscount, port_right, payloads,
                 revived, holds, stat, promised, kernel, late>>

(* Then, with the lock released, the receive right is destroyed, and with  *)
(* it the queue,                                                           *)
destroy_receive_right(t) ==
  /\ life = "live" /\ pc[t] = "removed"
  /\ port_right' = FALSE
  /\ srights' = 0 /\ requests' = 0 /\ notices' = 0 /\ nsrequest' = FALSE
  /\ Goto(t, "cleaning")
  /\ UNCHANGED <<refs, hard, has_sendrights, mscount, in_table, payloads,
                 revived, life, holds, stat, promised, k_mscount, late>>

(* and the object is freed, if no RPC is in progress.                      *)
free(t) ==
  /\ life = "live" /\ pc[t] = "cleaning"
  /\ \/ life' = "freed"
     \/ (\E u \in Threads : holds[u] > 0) /\ life' = "aborted"
  /\ Goto(t, "idle")
  /\ UNCHANGED <<refs, hard, has_sendrights, mscount, listing, holds, stat,
                 promised, kernel, late>>

(* The object is no more, the server has aborted, or nobody will ever hear *)
(* of the object again.                                                    *)
Gone ==
  /\ \/ life # "live"
     \/ /\ late /\ srights + promised + notices = 0
        /\ \A t \in Threads : pc[t] = "idle"
  /\ UNCHANGED vars

ThreadStep(t) ==
  \/ receive_request(t) \/ receive_notice(t) \/ lookup(t)
  \/ do_mach_notify_no_senders(t) \/ no_senders(t)
  \/ found_right(t) \/ port_deref(t) \/ port_deref_demote(t)
  \/ dropweak_routine(t) \/ port_deref_weak(t) \/ complete_deallocate(t)
  \/ destroy_receive_right(t) \/ free(t)

Next ==
  \/ \E t \in Threads :
       get_right(t) \/ find(t) \/ port_ref_weak(t) \/ unbind(t) \/ ThreadStep(t)
  \/ get_identity \/ make_send \/ client_sends \/ client_drops
  \/ Gone

Spec == Init /\ [][Next]_vars

(* Threads serve what is in the queue and drop their references, and a     *)
(* right that was got is made.                                             *)
Fairness == WF_vars(make_send) /\ \A t \in Threads : WF_vars(ThreadStep(t))

FairSpec == Spec /\ Fairness

-----------------------------------------------------------------------------
(* A client that has a send right, or for which one is about to be made,   *)
(* keeps the object alive: the no-senders protocol never mistakes a right  *)
(* that was promised but not yet made for no sender.  An identity with     *)
(* senders also stays in its table, or a file would get two of them.       *)
SendersHoldReference ==
  life = "live" /\ srights + promised > 0 =>
    has_sendrights /\ hard > 0 /\ (kind = "identity" => cached)

(* The object is freed only when nobody holds a reference or a send right, *)
(* and the table no longer refers to it.  The exception is the lookup that *)
(* the lock of the hash table cannot stop: by payload, after the port left *)
(* the table.  And if no lookup revived the object, neither in the table   *)
(* between the last dereference and the removal nor later, then only one   *)
(* thread was freeing it.                                                  *)
FreedUnused ==
  life = "freed" =>
    /\ \/ payloads /\ "unlisted" \in revived
       \/ /\ \A t \in Threads : holds[t] = 0
          /\ srights + promised = 0
          /\ ~cached
    /\ revived = {} =>
         \A t \in Threads : pc[t] \in {"idle", "request", "notice"}

(* An object without senders is freed, unless a notification came too late *)
(* or the server aborted.                                                  *)
UnusedIsFreed ==
  (has_sendrights /\ srights + promised = 0)
    ~> (srights + promised > 0 \/ life # "live" \/ late)
=============================================================================
