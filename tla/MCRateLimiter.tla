---------------------------- MODULE MCRateLimiter ----------------------------
(* RateLimiter on a small instance. *)
EXTENDS RateLimiter, TLC

CONSTANTS h1, h2, h3

Symmetry == Permutations(Handlers)
=============================================================================
