--------------------------- MODULE AuthRendezvous ---------------------------
(***************************************************************************)
(* The reauthentication transaction of the auth server (auth/auth.c): a    *)
(* user and a server present the same rendezvous port; the server learns   *)
(* the ids of the user's auth handle, the user receives the server's new   *)
(* port.  The two RPCs meet in the tables pending_users and                *)
(* pending_servers, whose records live on the stacks of the RPCs.          *)
(*                                                                         *)
(* An action is one critical section under pending_lock.  Both clients     *)
(* call again after EINTR (libiohelp/iouser-reauth.c, exec/exec.c).        *)
(***************************************************************************)
EXTENDS Integers

CONSTANTS
  Rendezvous,    \* rendezvous ports, one user and one server for each
  MayFail,       \* rendezvous whose RPCs may be interrupted or lack memory, and
                 \* whose port may die
  MaxCalls       \* bound: calls of auth_user_authenticate per rendezvous

ASSUME AuthAssumption == MayFail \subseteq Rendezvous /\ MaxCalls \in Nat \ {0}

VARIABLES
  pending_users,    \* rendezvous ports with a record in pending_users
  pending_servers,  \* rendezvous ports with a record in pending_servers
  user,             \* state of the user's RPC
  server,           \* state of the server's RPC
  woken_user,       \* u.wakeup was signalled
  woken_server,     \* s.wakeup was signalled
  cancelled_user,   \* the user's thread was cancelled
  cancelled_server, \* the server's thread was cancelled
  passthrough,      \* u.passthrough: not assigned yet, or the server's port
  newport,          \* the port that the user's RPC returned
  refs,             \* references that the transaction holds on the handle
  dead,             \* rendezvous ports that have died
  calls,            \* calls of the user so far
  wild              \* history: the server wrote into a frame that is gone

tables == <<pending_users, pending_servers>>
vars == <<pending_users, pending_servers, user, server, woken_user,
          woken_server, cancelled_user, cancelled_server, passthrough,
          newport, refs, dead, calls, wild>>

Init ==
  /\ pending_users = {} /\ pending_servers = {}
  /\ user = [r \in Rendezvous |-> "client"]
  /\ server = [r \in Rendezvous |-> "client"]
  /\ woken_user = {} /\ woken_server = {}
  /\ cancelled_user = {} /\ cancelled_server = {}
  /\ passthrough = [r \in Rendezvous |-> "unset"]
  /\ newport = [r \in Rendezvous |-> "none"]
  /\ refs = [r \in Rendezvous |-> 0]
  /\ dead = {}
  /\ calls = [r \in Rendezvous |-> 0]
  /\ wild = {}

-----------------------------------------------------------------------------
(* The reference the user takes on its handle, and the server drops. *)
take_ref(r) == [refs EXCEPT ![r] = @ + 1]

\* a wrong drop_ref, for the mutants
drop_twice(r) == [refs EXCEPT ![r] = @ - 2]
drop_ref(r)   == [refs EXCEPT ![r] = @ - 1]

(* The user tells a server that was early. *)
\* a wrong wake_server, for the mutants
leave_server(r) == woken_server
wake_server(r)  == IF r \in pending_servers THEN woken_server \cup {r}
                   ELSE woken_server

(* S_auth_user_authenticate up to its wait: the record goes into the table *)
(* and a server that was early is told.  A dead rendezvous is refused, and *)
(* hurd_ihash_add may fail for want of memory.                             *)
user_authenticate(r) ==
  /\ user[r] = "client"
  /\ calls[r] < MaxCalls
  /\ calls' = [calls EXCEPT ![r] = @ + 1]
  /\ \/ /\ r \in dead
        /\ user' = [user EXCEPT ![r] = "failed"]
        /\ UNCHANGED <<tables, woken_server, passthrough, refs>>
     \/ /\ r \in MayFail
        /\ user' = [user EXCEPT ![r] = "failed"]
        /\ UNCHANGED <<tables, woken_server, passthrough, refs>>
     \/ /\ r \notin dead
        /\ user' = [user EXCEPT ![r] = "wait"]
        /\ pending_users' = pending_users \cup {r}
        /\ passthrough' = [passthrough EXCEPT ![r] = "unset"]
        /\ refs' = take_ref(r)
        /\ pending_servers' = pending_servers \ {r}
        /\ woken_server' = wake_server(r)
  /\ UNCHANGED <<server, woken_user, cancelled_user, cancelled_server,
                 newport, dead, wild>>

(* What ends the wait: a signal or a cancellation. *)
user_released(r) == r \in woken_user \cup cancelled_user

(* An interrupted user takes its record out of the table. *)
\* a wrong remove_record, for the mutants
keep_record(r)   == pending_users
remove_record(r) == pending_users \ {r}

(* The rest: an interrupted RPC whose rendezvous is still in the table     *)
(* takes its record out and fails; any other returns the passthrough port. *)
user_wakes(r) ==
  /\ user[r] = "wait"
  /\ user_released(r)
  /\ woken_user' = woken_user \ {r}
  /\ cancelled_user' = cancelled_user \ {r}
  /\ \/ /\ r \in cancelled_user /\ r \in pending_users
        /\ pending_users' = remove_record(r)
        /\ user' = [user EXCEPT ![r] = IF r \in dead THEN "failed" ELSE "client"]
        /\ UNCHANGED newport
     \/ /\ ~(r \in cancelled_user /\ r \in pending_users)
        /\ newport' = [newport EXCEPT ![r] = passthrough[r]]
        /\ user' = [user EXCEPT ![r] = "done"]
        /\ UNCHANGED pending_users
  /\ UNCHANGED <<pending_servers, server, woken_server, cancelled_server,
                 passthrough, refs, dead, calls, wild>>

-----------------------------------------------------------------------------
(* The server has the user's record: it takes it out of the table and      *)
(* gives up the lock to send the reply.                                    *)
TakeUser(r) ==
  /\ pending_users' = pending_users \ {r}
  /\ server' = [server EXCEPT ![r] = "reply"]

(* S_auth_server_authenticate up to its wait, or to its failure. *)
server_authenticate(r) ==
  /\ server[r] = "client"
  /\ \/ /\ r \in dead
        /\ server' = [server EXCEPT ![r] = "failed"]
        /\ UNCHANGED tables
     \/ /\ r \notin dead /\ r \in pending_users
        /\ TakeUser(r)
        /\ UNCHANGED pending_servers
     \/ /\ r \in MayFail /\ r \notin pending_users
        /\ server' = [server EXCEPT ![r] = "failed"]
        /\ UNCHANGED tables
     \/ /\ r \notin dead /\ r \notin pending_users
        /\ pending_servers' = pending_servers \cup {r}
        /\ server' = [server EXCEPT ![r] = "wait"]
        /\ UNCHANGED pending_users
  /\ UNCHANGED <<user, woken_user, woken_server, cancelled_user,
                 cancelled_server, passthrough, newport, refs, dead, calls,
                 wild>>

(* After the wait: interrupted with the record still there, the user is    *)
(* there, or "User still not here, odd!".                                  *)
server_wakes(r) ==
  /\ server[r] = "wait"
  /\ r \in woken_server \cup cancelled_server
  /\ woken_server' = woken_server \ {r}
  /\ cancelled_server' = cancelled_server \ {r}
  /\ \/ /\ r \in cancelled_server /\ r \in pending_servers
        /\ pending_servers' = pending_servers \ {r}
        /\ server' = [server EXCEPT ![r] = IF r \in dead THEN "failed" ELSE "client"]
        /\ UNCHANGED pending_users
     \/ /\ ~(r \in cancelled_server /\ r \in pending_servers)
        /\ r \in pending_users
        /\ TakeUser(r)
        /\ UNCHANGED pending_servers
     \/ /\ ~(r \in cancelled_server /\ r \in pending_servers)
        /\ r \notin pending_users
        /\ server' = [server EXCEPT ![r] = "client"]
        /\ UNCHANGED tables
  /\ UNCHANGED <<user, woken_user, cancelled_user, passthrough, newport, refs,
                 dead, calls, wild>>

(* The server signals the user. *)
wake_user(r) == woken_user \cup {r}

(* auth_server_authenticate_reply has transmitted the ids; the server      *)
(* stores the new port in the user's record, signals, and drops the        *)
(* reference to the handle.  WILD: the record's frame is no longer there.  *)
server_replies(r) ==
  /\ server[r] = "reply"
  /\ server' = [server EXCEPT ![r] = "done"]
  /\ refs' = drop_ref(r)
  /\ \/ /\ user[r] = "wait"
        /\ passthrough' = [passthrough EXCEPT ![r] = "port"]
        /\ woken_user' = wake_user(r)
        /\ UNCHANGED wild
     \/ /\ user[r] # "wait"
        /\ wild' = wild \cup {r}
        /\ UNCHANGED <<passthrough, woken_user>>
  /\ UNCHANGED <<tables, user, woken_server, cancelled_user,
                 cancelled_server, newport, dead, calls>>

-----------------------------------------------------------------------------
(* interrupt_operation on the handle of one side cancels its RPC. *)
interrupt_user(r) ==
  /\ r \in MayFail
  /\ user[r] = "wait"
  /\ cancelled_user' = cancelled_user \cup {r}
  /\ UNCHANGED <<tables, user, server, woken_user, woken_server,
                 cancelled_server, passthrough, newport, refs, dead, calls,
                 wild>>

interrupt_server(r) ==
  /\ r \in MayFail
  /\ server[r] = "wait"
  /\ cancelled_server' = cancelled_server \cup {r}
  /\ UNCHANGED <<tables, user, server, woken_user, woken_server,
                 cancelled_user, passthrough, newport, refs, dead, calls,
                 wild>>

(* The rendezvous port dies: ports_interrupt_self_on_port_death cancels    *)
(* the RPCs that wait.                                                     *)
rendezvous_dies(r) ==
  /\ r \in MayFail
  /\ r \notin dead
  /\ dead' = dead \cup {r}
  /\ cancelled_user' = IF user[r] = "wait" THEN cancelled_user \cup {r}
                       ELSE cancelled_user
  /\ cancelled_server' = IF server[r] = "wait" THEN cancelled_server \cup {r}
                         ELSE cancelled_server
  /\ UNCHANGED <<tables, user, server, woken_user, woken_server, passthrough,
                 newport, refs, calls, wild>>

(* Both parties are through. *)
Finished ==
  /\ \A r \in Rendezvous :
       /\ user[r] \in {"done", "failed"} \/ calls[r] = MaxCalls
       /\ server[r] \in {"done", "failed", "wait"}
  /\ UNCHANGED vars

Step(r) ==
  \/ user_authenticate(r) \/ user_wakes(r)
  \/ server_authenticate(r) \/ server_wakes(r) \/ server_replies(r)

Next ==
  \/ \E r \in Rendezvous : \/ Step(r)
                           \/ interrupt_user(r) \/ interrupt_server(r)
                           \/ rendezvous_dies(r)
  \/ Finished

Spec == Init /\ [][Next]_vars

(* Each client makes its call, and a thread of the auth server that can    *)
(* run does so.                                                            *)
Fairness ==
  \A r \in Rendezvous :
    /\ WF_vars(user_authenticate(r)) /\ WF_vars(user_wakes(r))
    /\ WF_vars(server_authenticate(r)) /\ WF_vars(server_wakes(r))
    /\ WF_vars(server_replies(r))

FairSpec == Spec /\ Fairness

-----------------------------------------------------------------------------
(* Type correctness. *)
TypeOK ==
  /\ pending_users \subseteq Rendezvous /\ pending_servers \subseteq Rendezvous
  /\ user \in [Rendezvous -> {"client", "wait", "done", "failed"}]
  /\ server \in [Rendezvous -> {"client", "wait", "reply", "done", "failed"}]
  /\ woken_user \subseteq Rendezvous /\ woken_server \subseteq Rendezvous
  /\ cancelled_user \subseteq Rendezvous
  /\ cancelled_server \subseteq Rendezvous
  /\ passthrough \in [Rendezvous -> {"unset", "port"}]
  /\ newport \in [Rendezvous -> {"none", "unset", "port"}]
  /\ refs \in [Rendezvous -> Nat]
  /\ dead \subseteq Rendezvous
  /\ calls \in [Rendezvous -> 0..MaxCalls]
  /\ wild \subseteq Rendezvous

(* A record in a table is in the frame of an RPC that still waits: nobody  *)
(* follows a pointer into a frame that has been left.  The server, which   *)
(* keeps the address of the user's record while it transmits without the   *)
(* lock, writes to a frame that is gone only if an interrupt made the user *)
(* return meanwhile.                                                       *)
RecordsLive ==
  /\ \A r \in pending_users : user[r] = "wait"
  /\ \A r \in pending_servers : server[r] = "wait"
  /\ wild \subseteq MayFail

(* A user and a server never sleep past each other: when both wait for the *)
(* same rendezvous, one of them has been woken or cancelled.               *)
NoMissedMeeting ==
  \A r \in Rendezvous :
    user[r] = "wait" /\ server[r] = "wait" =>
      \/ r \in woken_server \cup woken_user
      \/ r \in cancelled_user \cup cancelled_server

(* While the server transmits the ids of the user's handle without the     *)
(* lock, the transaction holds a reference to that handle.                 *)
HandleReferenced == \A r \in Rendezvous : server[r] = "reply" => refs[r] > 0

(* No reference is left when an uninterrupted transaction is over. *)
RefsBalanced ==
  \A r \in Rendezvous \ MayFail :
    user[r] # "wait" /\ server[r] # "reply" => refs[r] = 0

(* When nothing fails both sides of a transaction finish, and the user     *)
(* has got the server's port, however the other transactions fare.         *)
TransactionCompletes ==
  \A r \in Rendezvous \ MayFail :
    <>(newport[r] = "port" /\ server[r] = "done")
=============================================================================
