----------------------------- MODULE MCDelivery -----------------------------
(* One deployment and its conversation.                                     *)
EXTENDS Delivery
=============================================================================
