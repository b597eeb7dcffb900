---------------------------- MODULE AuthHandles -----------------------------
(***************************************************************************)
(* The auth handles of the auth server (auth/auth.c): S_auth_makeauth      *)
(* creates a handle with the requested ids when the handles that the       *)
(* client presents justify them.  An auth handle is a port; a client has   *)
(* the authority of the handles whose ports it holds.                      *)
(***************************************************************************)
EXTENDS Integers, FiniteSets

CONSTANTS
  Clients,     \* tasks that hold auth ports
  Uids, Gids,  \* user and group ids; uid 0 is root
  MaxHandles   \* bound: handles that a client holds

ASSUME AuthHandlesAssumption == MaxHandles \in Nat

VARIABLES
  handles,     \* the authhandles whose ports each client holds
  granted      \* history: ids of the handles a client got from others

handle_vars == <<handles, granted>>

(* struct authhandle; the idvecs as sets. *)
Handle == [euids : SUBSET Uids, auids : SUBSET Uids,
           egids : SUBSET Gids, agids : SUBSET Gids]

uids(h) == h.euids \cup h.auids
gids(h) == h.egids \cup h.agids

isuid(uid, h)       == uid \in uids(h)
groupmember(gid, h) == gid \in gids(h)
isroot(h)           == isuid(0, h)

Authority(hs) == [uids |-> UNION {uids(h) : h \in hs},
                  gids |-> UNION {gids(h) : h \in hs}]

(* Nobody but the holders of the first handle has authority at first. *)
HandlesInit ==
  /\ handles = [c \in Clients |-> {}]
  /\ granted = [c \in Clients |-> Authority({})]

(* The check of S_auth_makeauth on the handles AUTHS for the new ids H. *)
\* a wrong justified, for the mutants
justified_uids_only(auths, h) ==
  \/ \E a \in auths : isroot(a)
  \/ /\ \A uid \in h.euids : \E a \in auths : isuid(uid, a)
     /\ \A uid \in h.auids : \E a \in auths : isuid(uid, a)
     /\ \A gid \in h.agids : \E a \in auths : groupmember(gid, a)

justified(auths, h) ==
  \/ \E a \in auths : isroot(a)
  \/ /\ \A uid \in h.euids : \E a \in auths : isuid(uid, a)
     /\ \A uid \in h.auids : \E a \in auths : isuid(uid, a)
     /\ \A gid \in h.egids : \E a \in auths : groupmember(gid, a)
     /\ \A gid \in h.agids : \E a \in auths : groupmember(gid, a)

(* S_auth_makeauth; without justification EPERM and nothing happens. *)
makeauth(c, auths, h) ==
  /\ auths # {}
  /\ justified(auths, h)
  /\ handles' = [handles EXCEPT ![c] = @ \cup {h}]
  /\ UNCHANGED granted

(* Someone else sends the client an auth port, which is between the two    *)
(* of them and the kernel; any handle may come.                            *)
receive_handle(c, h) ==
  /\ handles' = [handles EXCEPT ![c] = @ \cup {h}]
  /\ granted' = [granted EXCEPT ![c] = [uids |-> @.uids \cup uids(h),
                                        gids |-> @.gids \cup gids(h)]]

(* The client deallocates its send right: destroy_authhandle. *)
drop_handle(c, h) ==
  /\ handles' = [handles EXCEPT ![c] = @ \ {h}]
  /\ UNCHANGED granted

HandlesNext ==
  \E c \in Clients :
    \/ /\ Cardinality(handles[c]) < MaxHandles
       /\ \E h \in Handle :
            \/ \E auths \in SUBSET handles[c] : makeauth(c, auths, h)
            \/ receive_handle(c, h)
    \/ \E h \in handles[c] : drop_handle(c, h)

HandlesSpec == HandlesInit /\ [][HandlesNext]_handle_vars

-----------------------------------------------------------------------------
(* Type correctness. *)
HandlesTypeOK ==
  /\ handles \in [Clients -> SUBSET Handle]
  /\ granted \in [Clients -> [uids : SUBSET Uids, gids : SUBSET Gids]]

(* A client that was never given a handle with uid 0 has no other ids than *)
(* the ones it was given, whatever handles it combines and however often.  *)
AuthorityConfined ==
  \A c \in Clients :
    0 \notin granted[c].uids =>
      /\ Authority(handles[c]).uids \subseteq granted[c].uids
      /\ Authority(handles[c]).gids \subseteq granted[c].gids
=============================================================================
