----------------------------- MODULE MCDelivery -----------------------------
(* Delivery on small instances. *)
EXTENDS Delivery, TLC

MCEvents == 1..2
=============================================================================
