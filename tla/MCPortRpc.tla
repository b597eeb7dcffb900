------------------------------ MODULE MCPortRpc ------------------------------
(* Instances of PortRpc for TLC. *)
EXTENDS PortRpc, TLC

CONSTANTS p1, p2, c1, c2, b1

(* Two ports of one bucket and of different classes. *)
TwoClasses == (p1 :> c1) @@ (p2 :> c2)
OneBucket  == (p1 :> b1) @@ (p2 :> b1)

(* Messages of each port: two, so that an interrupt_operation can overtake *)
(* a request, and one. *)
TwoAndOne  == (p1 :> 2) @@ (p2 :> 1)
=============================================================================
