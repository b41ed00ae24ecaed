----------------------------- MODULE MCAdmission -----------------------------
(* Admission on small instances. *)
EXTENDS Admission, TLC

CONSTANTS u1, u2, u3, p1, p2, h1

(* One user has registered, and the INSERT of the next one is under way; the
   third comes while the sale runs. *)
MCInit ==
    /\ status \in {"scheduled", "active"} /\ ended = FALSE
    /\ clock = 2 /\ stamp = (u1 :> 1 @@ u2 :> 2 @@ u3 :> 0)
    /\ inserting = {u2} /\ rows = {u1} /\ ahead = (u1 :> {} @@ u2 :> {u1} @@ u3 :> {})
    /\ admitted = {} /\ given = {}
    /\ running = {} /\ stale = {} /\ marking = {}
    /\ batch = [p \in Processes |-> {}]
    /\ req = [h \in Handlers |-> Idle]

MCSpec == MCInit /\ [][Next]_vars /\ Fairness
=============================================================================
