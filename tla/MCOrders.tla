------------------------------ MODULE MCOrders ------------------------------
(* Orders on small instances. *)
EXTENDS Orders, TLC

CONSTANTS u1, u2, r1, r2, h1, h2

(* One user whose reservations follow or race one another. *)
SameUser == [r \in Reservations |-> u1]

Symmetry == Permutations(Handlers) \cup Permutations(Reservations)
=============================================================================
