---------------------------- MODULE MCWaitingRoom ----------------------------
(* WaitingRoom on a small instance: two users who ask, wait, leave and come
   back. *)
EXTENDS WaitingRoom

CONSTANTS u1, u2, h1, h2

Names == [u \in Users |-> IF u = u1 THEN 1 ELSE 2]
=============================================================================
