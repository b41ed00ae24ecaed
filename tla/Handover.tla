------------------------------ MODULE Handover ------------------------------
(***************************************************************************)
(* What becomes of the event of a reservation, without saying how outbox,  *)
(* broker, worker and consumer achieve it: the event is stored, handed to  *)
(* the broker, and settled by an order or by the end of its reservation.   *)
(*                                                                         *)
(* The promise is what may not happen.  Once the broker has taken an event *)
(* nothing but its settlement, or the dead letters, takes it away; before, *)
(* only as many failures as are allowed give it up; and no order is made   *)
(* of an event that nobody has handed over.  Copies are not counted: the   *)
(* event may be handed over and buried more than once.                     *)
(***************************************************************************)
EXTENDS Integers

CONSTANTS Events, MaxRetry

VARIABLES fate,   \* what has become of each event
          tries   \* how often handing it over is known to have failed

vars == <<fate, tries>>

Init ==
    /\ fate = [e \in Events |-> "none"]
    /\ tries = [e \in Events |-> 0]

Becomes(e, f) ==
    /\ fate' = [fate EXCEPT ![e] = f]
    /\ UNCHANGED tries

Store(e) == fate[e] = "none" /\ Becomes(e, "stored")

(* The broker takes it, a lost one too: the handler may publish very late. *)
HandOver(e) == fate[e] \in {"stored", "lost"} /\ Becomes(e, "queued")

Fail(e) ==
    /\ tries[e] < MaxRetry
    /\ tries' = [tries EXCEPT ![e] = @ + 1]
    /\ UNCHANGED fate

GiveUp(e) == fate[e] = "stored" /\ tries[e] = MaxRetry /\ Becomes(e, "lost")

Bury(e) == fate[e] = "queued" /\ Becomes(e, "dead")

(* The reservation is ordered.  It may be over by then, because the consumer
   read it before. *)
Order(e) == fate[e] \in {"queued", "dead", "left"} /\ Becomes(e, "ordered")

(* The reservation ends without an order. *)
Leave(e) == fate[e] \in {"stored", "lost", "queued", "dead"} /\ Becomes(e, "left")

Next ==
    \E e \in Events :
        \/ Store(e) \/ HandOver(e) \/ Fail(e) \/ GiveUp(e)
        \/ Bury(e) \/ Order(e) \/ Leave(e)

Spec == Init /\ [][Next]_vars
=============================================================================
