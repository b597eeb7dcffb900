----------------------------- MODULE AuthProofs -----------------------------
(***************************************************************************)
(* Safety of the reauthentication transaction, for any set of rendezvous   *)
(* ports and any number of calls, and of the auth handles, for any         *)
(* clients, ids and number of handles.                                     *)
(***************************************************************************)
EXTENDS AuthRendezvous, AuthHandles, TLAPS

(* Where the two RPCs of a rendezvous can be.  A server that sleeps has    *)
(* its record in the table or a signal; a user that sleeps has its record  *)
(* in the table, or the server has it, or the server has answered.  A      *)
(* signal is for an RPC that sleeps and whose record is gone, and the two  *)
(* records are never in the tables together.                               *)
Meeting ==
  /\ \A r \in Rendezvous : server[r] = "wait" => r \in pending_servers \cup woken_server
  /\ \A r \in Rendezvous :
       user[r] = "wait" => \/ r \in pending_users \cup woken_user
                           \/ server[r] = "reply"
  /\ \A r \in woken_server : server[r] = "wait" /\ r \notin pending_servers
  /\ \A r \in woken_user : user[r] = "wait" /\ r \notin pending_users
  /\ pending_users \cap pending_servers = {}

(* Who still needs the user's handle: a record in the table, or a server   *)
(* that transmits.                                                         *)
HandleNeeded(r) == r \in pending_users \/ server[r] = "reply"

HandleHeld ==
  /\ \A r \in Rendezvous : HandleNeeded(r) => refs[r] > 0
  /\ \A r \in Rendezvous :
       server[r] = "reply" => user[r] \in {"wait", "done"} /\ r \notin pending_users

(* A transaction that is left alone keeps exactly the references that are  *)
(* needed, and its user waits for as long as the server transmits.         *)
Undisturbed ==
  \A r \in Rendezvous \ MayFail :
    /\ r \notin cancelled_user \cup cancelled_server \cup dead
    /\ refs[r] = IF HandleNeeded(r) THEN 1 ELSE 0
    /\ server[r] = "reply" => user[r] = "wait" /\ r \notin woken_user

Inv == TypeOK /\ RecordsLive /\ Meeting /\ HandleHeld /\ Undisturbed

-----------------------------------------------------------------------------
(* S_auth_user_authenticate up to its wait. *)
LEMMA UserCalls ==
  ASSUME Inv, NEW r \in Rendezvous, user_authenticate(r)
  PROVE  Inv'
<1> USE AuthAssumption DEF Inv, user_authenticate, tables
<1>1. TypeOK'
  BY DEF TypeOK, take_ref, wake_server
<1>2. RecordsLive'
  BY DEF TypeOK, RecordsLive
<1>3. Meeting'
  BY DEF TypeOK, RecordsLive, Meeting, wake_server
<1>4. HandleHeld'
  BY DEF TypeOK, RecordsLive, HandleHeld, HandleNeeded, take_ref
<1>5. Undisturbed'
  BY DEF TypeOK, RecordsLive, HandleHeld, Undisturbed, HandleNeeded, take_ref
<1> QED BY <1>1, <1>2, <1>3, <1>4, <1>5

(* The rest of S_auth_user_authenticate. *)
LEMMA UserWakes ==
  ASSUME Inv, NEW r \in Rendezvous, user_wakes(r)
  PROVE  Inv'
<1> USE AuthAssumption DEF Inv, user_wakes, user_released, remove_record
<1>1. TypeOK'
  BY DEF TypeOK
<1>2. RecordsLive'
  BY DEF TypeOK, RecordsLive, Meeting, HandleHeld
<1>3. Meeting'
  BY DEF TypeOK, RecordsLive, Meeting
<1>4. HandleHeld'
  BY DEF TypeOK, RecordsLive, HandleHeld, HandleNeeded
<1>5. Undisturbed'
  BY DEF TypeOK, RecordsLive, Meeting, Undisturbed, HandleNeeded
<1> QED BY <1>1, <1>2, <1>3, <1>4, <1>5

(* S_auth_server_authenticate up to its wait or its first unlock. *)
LEMMA ServerCalls ==
  ASSUME Inv, NEW r \in Rendezvous, server_authenticate(r)
  PROVE  Inv'
<1> USE AuthAssumption DEF Inv, server_authenticate, TakeUser, tables
<1>1. TypeOK'
  BY DEF TypeOK
<1>2. RecordsLive'
  BY DEF TypeOK, RecordsLive
<1>3. Meeting'
  BY DEF TypeOK, RecordsLive, Meeting
<1>4. HandleHeld'
  BY DEF TypeOK, RecordsLive, HandleHeld, HandleNeeded
<1>5. Undisturbed'
  BY DEF TypeOK, RecordsLive, Meeting, Undisturbed, HandleNeeded
<1> QED BY <1>1, <1>2, <1>3, <1>4, <1>5

(* S_auth_server_authenticate after its wait. *)
LEMMA ServerWakes ==
  ASSUME Inv, NEW r \in Rendezvous, server_wakes(r)
  PROVE  Inv'
<1> USE AuthAssumption DEF Inv, server_wakes, TakeUser, tables
<1>1. TypeOK'
  BY DEF TypeOK
<1>2. RecordsLive'
  BY DEF TypeOK, RecordsLive, Meeting
<1>3. Meeting'
  BY DEF TypeOK, RecordsLive, Meeting
<1>4. HandleHeld'
  BY DEF TypeOK, RecordsLive, HandleHeld, HandleNeeded
<1>5. Undisturbed'
  BY DEF TypeOK, RecordsLive, Meeting, Undisturbed, HandleNeeded
<1> QED BY <1>1, <1>2, <1>3, <1>4, <1>5

(* The server has transmitted the ids. *)
LEMMA ServerReplies ==
  ASSUME Inv, NEW r \in Rendezvous, server_replies(r)
  PROVE  Inv'
<1> USE AuthAssumption DEF Inv, server_replies, tables
<1>1. TypeOK'
  BY DEF TypeOK, HandleHeld, HandleNeeded, drop_ref, wake_user
<1>2. RecordsLive'
  BY DEF TypeOK, RecordsLive, Undisturbed
<1>3. Meeting'
  BY DEF TypeOK, Meeting, HandleHeld, wake_user
<1>4. HandleHeld'
  BY DEF TypeOK, HandleHeld, HandleNeeded, drop_ref
<1>5. Undisturbed'
  BY DEF TypeOK, HandleHeld, Undisturbed, HandleNeeded, drop_ref, wake_user
<1> QED BY <1>1, <1>2, <1>3, <1>4, <1>5

(* Interrupts, and the death of a rendezvous port. *)
LEMMA FailureKeeps ==
  ASSUME Inv, NEW r \in Rendezvous,
         interrupt_user(r) \/ interrupt_server(r) \/ rendezvous_dies(r)
  PROVE  Inv'
<1> USE AuthAssumption
    DEF Inv, interrupt_user, interrupt_server, rendezvous_dies, tables
<1>1. TypeOK'
  BY DEF TypeOK
<1>2. RecordsLive' /\ Meeting' /\ HandleHeld'
  BY DEF RecordsLive, Meeting, HandleHeld, HandleNeeded
<1>3. Undisturbed'
  BY DEF TypeOK, Undisturbed, HandleNeeded
<1> QED BY <1>1, <1>2, <1>3

(* A step in which nothing changes. *)
LEMMA StutterKeeps ==
  ASSUME Inv, UNCHANGED vars
  PROVE  Inv'
BY DEF vars, Inv, TypeOK, RecordsLive, Meeting, HandleHeld, Undisturbed, HandleNeeded

-----------------------------------------------------------------------------
(* The inductive invariant holds in every state of the transaction. *)
THEOREM InvHolds == Spec => []Inv
<1>1. Init => Inv
  BY AuthAssumption DEF Init, Inv, TypeOK, RecordsLive, Meeting, HandleHeld, Undisturbed, HandleNeeded
<1>2. Inv /\ [Next]_vars => Inv'
  <2> SUFFICES ASSUME Inv, [Next]_vars PROVE Inv'
    OBVIOUS
  <2>1. ASSUME NEW r \in Rendezvous, Step(r) PROVE Inv'
    BY <2>1, UserCalls, UserWakes, ServerCalls, ServerWakes, ServerReplies DEF Step
  <2>2. ASSUME NEW r \in Rendezvous,
               interrupt_user(r) \/ interrupt_server(r) \/ rendezvous_dies(r)
        PROVE Inv'
    BY <2>2, FailureKeeps
  <2>3. CASE Finished \/ UNCHANGED vars
    BY <2>3, StutterKeeps DEF Finished
  <2> QED
    BY <2>1, <2>2, <2>3 DEF Next
<1> QED
  BY <1>1, <1>2, PTL DEF Spec

(* Type correctness; the count of references never becomes negative. *)
THEOREM TypeCorrect == Spec => []TypeOK
<1>1. Inv => TypeOK
  BY DEF Inv
<1> QED BY <1>1, InvHolds, PTL

(* A record in a table is in the frame of an RPC that still waits, and     *)
(* S_auth_server_authenticate writes to a frame that is gone only after an *)
(* interrupt.                                                              *)
THEOREM RecordsStayLive == Spec => []RecordsLive
<1>1. Inv => RecordsLive
  BY DEF Inv
<1> QED BY <1>1, InvHolds, PTL

(* A user and a server that wait for the same rendezvous have been told of *)
(* each other.                                                             *)
THEOREM NeverPastEachOther == Spec => []NoMissedMeeting
<1>1. Inv => NoMissedMeeting
  BY DEF Inv, RecordsLive, Meeting, NoMissedMeeting
<1> QED BY <1>1, InvHolds, PTL

(* The handle whose ids the server transmits is referenced. *)
THEOREM HandleStaysReferenced == Spec => []HandleReferenced
<1>1. Inv => HandleReferenced
  BY DEF Inv, HandleHeld, HandleNeeded, HandleReferenced
<1> QED BY <1>1, InvHolds, PTL

(* An undisturbed transaction gives back every reference. *)
THEOREM ReferencesBalanced == Spec => []RefsBalanced
<1>1. Inv => RefsBalanced
  BY DEF Inv, RecordsLive, Undisturbed, HandleNeeded, RefsBalanced
<1> QED BY <1>1, InvHolds, PTL

-----------------------------------------------------------------------------
(* The auth handles, which no transaction changes, have a specification of *)
(* their own.  Its invariant is inductive with the types.                  *)
Confined == HandlesTypeOK /\ AuthorityConfined

(* The authority of a client that got one more handle. *)
LEMMA AuthorityOfOneMore ==
  ASSUME NEW hs, NEW h
  PROVE  /\ Authority(hs \cup {h}).uids = Authority(hs).uids \cup uids(h)
         /\ Authority(hs \cup {h}).gids = Authority(hs).gids \cup gids(h)
BY DEF Authority

(* The check of S_auth_makeauth, for handles without uid 0: every id of    *)
(* the new handle is an id of some handle that was presented.              *)
LEMMA JustifiedConfined ==
  ASSUME NEW auths, NEW h \in Handle, justified(auths, h),
         0 \notin Authority(auths).uids
  PROVE  /\ uids(h) \subseteq Authority(auths).uids
         /\ gids(h) \subseteq Authority(auths).gids
<1>1. \A a \in auths : ~isroot(a)
  BY DEF isroot, isuid, Authority
<1>2. /\ \A uid \in h.euids \cup h.auids : \E a \in auths : uid \in uids(a)
      /\ \A gid \in h.egids \cup h.agids : \E a \in auths : gid \in gids(a)
  BY <1>1 DEF justified, isuid, groupmember
<1> QED
  BY <1>2 DEF uids, gids, Authority

(* S_auth_makeauth keeps every client's ids within what it was given. *)
LEMMA MakeauthKeeps ==
  ASSUME Confined, NEW c \in Clients, NEW h \in Handle,
         NEW auths \in SUBSET handles[c], makeauth(c, auths, h)
  PROVE  Confined'
<1> USE DEF Confined
<1>1. HandlesTypeOK'
  BY DEF HandlesTypeOK, makeauth
<1>2. ASSUME NEW d \in Clients, 0 \notin granted[d].uids
      PROVE  /\ Authority(handles'[d]).uids \subseteq granted[d].uids
             /\ Authority(handles'[d]).gids \subseteq granted[d].gids
  <2>1. /\ Authority(handles[d]).uids \subseteq granted[d].uids
        /\ Authority(handles[d]).gids \subseteq granted[d].gids
    BY <1>2 DEF AuthorityConfined
  <2>2. CASE d # c
    <3>1. handles'[d] = handles[d]
      BY <2>2 DEF makeauth, HandlesTypeOK
    <3> QED BY <2>1, <3>1
  <2>3. CASE d = c
    <3>1. handles'[d] = handles[d] \cup {h}
      BY <2>3 DEF makeauth, HandlesTypeOK
    <3>2. /\ Authority(auths).uids \subseteq Authority(handles[d]).uids
          /\ Authority(auths).gids \subseteq Authority(handles[d]).gids
      BY <2>3 DEF Authority
    <3>3. 0 \notin Authority(auths).uids
      BY <1>2, <2>1, <3>2
    <3>4. /\ uids(h) \subseteq Authority(auths).uids
          /\ gids(h) \subseteq Authority(auths).gids
      BY <3>3, JustifiedConfined DEF makeauth
    <3> QED BY <2>1, <3>1, <3>2, <3>4, AuthorityOfOneMore
  <2> QED BY <2>2, <2>3
<1> QED
  BY <1>1, <1>2 DEF AuthorityConfined, makeauth

(* A handle that a client gets from others counts as given. *)
LEMMA ReceiveKeeps ==
  ASSUME Confined, NEW c \in Clients, NEW h \in Handle, receive_handle(c, h)
  PROVE  Confined'
<1> USE DEF Confined
<1>0. uids(h) \subseteq Uids /\ gids(h) \subseteq Gids
  BY DEF Handle, uids, gids
<1>1. HandlesTypeOK'
  BY <1>0 DEF HandlesTypeOK, receive_handle
<1>2. ASSUME NEW d \in Clients, 0 \notin granted'[d].uids
      PROVE  /\ Authority(handles'[d]).uids \subseteq granted'[d].uids
             /\ Authority(handles'[d]).gids \subseteq granted'[d].gids
  <2>2. CASE d # c
    <3>1. handles'[d] = handles[d] /\ granted'[d] = granted[d]
      BY <2>2 DEF receive_handle, HandlesTypeOK
    <3> QED BY <1>2, <3>1 DEF AuthorityConfined
  <2>3. CASE d = c
    <3>1. /\ handles'[d] = handles[d] \cup {h}
          /\ granted'[d].uids = granted[d].uids \cup uids(h)
          /\ granted'[d].gids = granted[d].gids \cup gids(h)
      BY <2>3 DEF receive_handle, HandlesTypeOK
    <3>2. /\ Authority(handles[d]).uids \subseteq granted[d].uids
          /\ Authority(handles[d]).gids \subseteq granted[d].gids
      BY <1>2, <3>1 DEF AuthorityConfined
    <3> QED BY <3>1, <3>2, AuthorityOfOneMore
  <2> QED BY <2>2, <2>3
<1> QED
  BY <1>1, <1>2 DEF AuthorityConfined

(* A handle that is dropped takes authority away only. *)
LEMMA DropKeeps ==
  ASSUME Confined, NEW c \in Clients, NEW h \in handles[c], drop_handle(c, h)
  PROVE  Confined'
<1> USE DEF Confined
<1>1. HandlesTypeOK'
  BY DEF HandlesTypeOK, drop_handle
<1>2. \A d \in Clients : handles'[d] \subseteq handles[d] /\ granted'[d] = granted[d]
  BY DEF HandlesTypeOK, drop_handle
<1>3. \A d \in Clients : /\ Authority(handles'[d]).uids \subseteq Authority(handles[d]).uids
                         /\ Authority(handles'[d]).gids \subseteq Authority(handles[d]).gids
  BY <1>2 DEF Authority
<1> QED
  BY <1>1, <1>2, <1>3 DEF AuthorityConfined

(* No sequence of calls of auth_makeauth gives a client that was never     *)
(* given uid 0 an id that it was not given.                                *)
THEOREM AuthorityNeverGrows == HandlesSpec => []AuthorityConfined
<1>1. HandlesInit => Confined
  BY DEF HandlesInit, Confined, HandlesTypeOK, AuthorityConfined, Authority
<1>2. Confined /\ [HandlesNext]_handle_vars => Confined'
  <2> SUFFICES ASSUME Confined, [HandlesNext]_handle_vars PROVE Confined'
    OBVIOUS
  <2>1. CASE UNCHANGED handle_vars
    BY <2>1 DEF handle_vars, Confined, HandlesTypeOK, AuthorityConfined, Authority
  <2>2. ASSUME NEW c \in Clients, NEW h \in Handle,
               NEW auths \in SUBSET handles[c], makeauth(c, auths, h)
        PROVE Confined'
    BY <2>2, MakeauthKeeps
  <2>3. ASSUME NEW c \in Clients, NEW h \in Handle, receive_handle(c, h)
        PROVE Confined'
    BY <2>3, ReceiveKeeps
  <2>4. ASSUME NEW c \in Clients, NEW h \in handles[c], drop_handle(c, h)
        PROVE Confined'
    BY <2>4, DropKeeps
  <2> QED
    BY <2>1, <2>2, <2>3, <2>4 DEF HandlesNext
<1>3. Confined => AuthorityConfined
  BY DEF Confined
<1> QED
  BY <1>1, <1>2, <1>3, PTL DEF HandlesSpec
=============================================================================
