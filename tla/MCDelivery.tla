----------------------------- MODULE MCDelivery -----------------------------
(* One call for an index of two parts, and another that races it for the   *)
(* repository.                                                             *)
EXTENDS Delivery

TagContent == [t \in Tags |-> Parts]
=============================================================================
