----------------------------- MODULE MCRecovery -----------------------------
(* Recovery on a small instance: one user, whose reservations are lost, made
   again and recovered by requests that overlap. *)
EXTENDS Recovery, TLC

CONSTANTS u1, r1, r2, h1, h2, k1, k2

OneUser == [r \in Reservations |-> u1]

Symmetry == Permutations(Handlers) \cup Permutations(Reservations) \cup Permutations(Keys)
=============================================================================
