-------------------------- MODULE MCMessageQueue --------------------------
(* Instances of MessageQueue for TLC. *)
EXTENDS MessageQueue, TLC

CONSTANTS m1, m2, m3

(* The first customer has two messages, a second customer has one. *)
MCCustomerOf == (m1 :> 1) @@ (m2 :> 1) @@ (m3 :> 2)
=============================================================================
