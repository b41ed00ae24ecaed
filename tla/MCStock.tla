------------------------------- MODULE MCStock -------------------------------
(* Stock on small instances. *)
EXTENDS Stock, TLC

CONSTANTS u1, u2, r1, r2, h1, m1, m2

Symmetry == Permutations({m1, m2})

(* The stock run goes no further than the step that ends clean: the property
   claims nothing of what follows. *)
WhileClean == clean

EachUser == [r \in Reservations |-> IF r = r1 THEN u1 ELSE u2]
=============================================================================
