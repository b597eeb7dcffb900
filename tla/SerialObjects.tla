--------------------------- MODULE SerialObjects ----------------------------
(***************************************************************************)
(* What libpager's worker pool promises the pagers: the requests to an     *)
(* object are served one at a time, in the order in which they came.       *)
(***************************************************************************)
EXTENDS Sequences

CONSTANTS Objects, Kinds, None

VARIABLES
  pending,   \* requests to each object that wait
  active     \* the request that is being served, or None

vars == <<pending, active>>

Init ==
  /\ pending = [o \in Objects |-> <<>>]
  /\ active = [o \in Objects |-> None]

Receive(o, k) ==
  /\ pending' = [pending EXCEPT ![o] = Append(@, k)]
  /\ UNCHANGED active

Start(o) ==
  /\ active[o] = None
  /\ pending[o] # <<>>
  /\ active' = [active EXCEPT ![o] = Head(pending[o])]
  /\ pending' = [pending EXCEPT ![o] = Tail(@)]

Finish(o) ==
  /\ active[o] # None
  /\ active' = [active EXCEPT ![o] = None]
  /\ UNCHANGED pending

Next ==
  \E o \in Objects :
    \/ \E k \in Kinds : Receive(o, k)
    \/ Start(o)
    \/ Finish(o)

Spec == Init /\ [][Next]_vars
=============================================================================
