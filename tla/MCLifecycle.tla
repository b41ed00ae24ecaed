---------------------------- MODULE MCLifecycle ----------------------------
(* Lifecycle on a small instance. *)
EXTENDS Lifecycle, TLC

CONSTANTS h1, h2
=============================================================================
