----------------------------- MODULE MCPayments -----------------------------
(* Payments on a small instance: one order, paid for and cancelled by requests
   that overlap. *)
EXTENDS Payments, TLC

CONSTANTS u1, r1, h1, h2, c1, c2

OneUser == [r \in Reservations |-> u1]

Symmetry == Permutations(Handlers) \cup Permutations(Cards)
=============================================================================
