------------------------------ MODULE Admission ------------------------------
(***************************************************************************)
(* The life of one sale and the staggered admission of the users who       *)
(* pre-registered for it (routers/sales.py, routers/admin.py,              *)
(* workers/expiry_worker.py, workers/admission_worker.py).                 *)
(*                                                                         *)
(* An admission worker is a task of the API process that handled the       *)
(* activation, known only to that process's registry; the other API        *)
(* processes, and the worker process that activates scheduled sales, can   *)
(* neither see nor stop it.  A handler writes the status and then starts or  *)
(* stops the worker of its own process.                                    *)
(*                                                                         *)
(* registered_at is drawn when an INSERT starts, the row is seen once it   *)
(* has committed: with two API processes the two orders can differ.        *)
(*                                                                         *)
(* The inventory counter that activation seeds, and the deletion of a sale, *)
(* are module Lifecycle's.  Of the token in Redis only that it was written *)
(* is kept: nothing here depends on whether it has been used or has lapsed. *)
(***************************************************************************)
EXTENDS Integers, FiniteSets

CONSTANTS Users,
          Processes,  \* API processes
          Handlers,   \* API requests on the sale that can be in flight at once
          BatchSize,  \* BATCH_SIZE
          MaxStamp    \* bound: registrations that can be tried

ASSUME AdmissionAssumption ==
    /\ BatchSize \in Nat \ {0}
    /\ MaxStamp \in Nat

VARIABLES
    status,     \* sales.status
    ended,      \* sales.ends_at < NOW()
    clock,      \* the last registered_at drawn
    stamp,      \* registered_at of each user's registration
    inserting,  \* users whose INSERT is under way
    rows,       \* users with a row in preregistrations
    ahead,      \* history: who had a row when the user's INSERT started
    admitted,   \* users whose row says admitted
    given,      \* history: users whose admission:{sale}:{user} token was written
    running,    \* processes whose worker of the sale is running
    stale,      \* running workers started with dates that were edited since
    batch,      \* users each worker fetched and has still to work on
    marking,    \* workers that gave a token and have to mark its user
    req         \* the request each handler is working on, or Idle

sale == <<status, ended>>
registry == <<clock, stamp, inserting, rows, ahead>>
workers == <<running, stale, batch, marking>>
vars == <<sale, registry, admitted, given, workers, req>>

-----------------------------------------------------------------------------
Statuses == {"scheduled", "active", "paused", "completed"}

Idle == [do |-> "nothing"]

(* A request that has written the status and has yet to start or stop the worker
   of its process; old: the dates were edited since. *)
Requests == [do : {"start", "stop"}, proc : Processes, old : BOOLEAN]

TypeOK ==
    /\ status \in Statuses /\ ended \in BOOLEAN
    /\ clock \in Nat /\ stamp \in [Users -> 0..clock]
    /\ rows \subseteq Users /\ inserting \subseteq Users \ rows
    /\ ahead \in [Users -> SUBSET rows]
    /\ admitted \subseteq rows /\ given \subseteq rows
    /\ running \subseteq Processes
    /\ stale \subseteq running /\ marking \subseteq running
    /\ batch \in [Processes -> SUBSET rows]
    /\ \A p \in Processes : (batch[p] # {} => p \in running) /\ (p \in marking => batch[p] # {})
    /\ req \in [Handlers -> Requests \cup {Idle}]

(* create_sale: an active sale has no worker either. *)
Init ==
    /\ status \in {"scheduled", "active"} /\ ended \in BOOLEAN
    /\ clock = 0 /\ stamp = [u \in Users |-> 0]
    /\ inserting = {} /\ rows = {} /\ ahead = [u \in Users |-> {}]
    /\ admitted = {} /\ given = {}
    /\ running = {} /\ stale = {} /\ marking = {}
    /\ batch = [p \in Processes |-> {}]
    /\ req = [h \in Handlers |-> Idle]

-----------------------------------------------------------------------------
(* preregister_for_sale *)
Register(u) ==
    /\ status # "completed"
    /\ u \notin rows \cup inserting
    /\ clock < MaxStamp
    /\ clock' = clock + 1
    /\ stamp' = [stamp EXCEPT ![u] = clock']
    /\ ahead' = [ahead EXCEPT ![u] = rows]
    /\ inserting' = inserting \cup {u}
    /\ UNCHANGED <<sale, rows, admitted, given, workers, req>>

Registered(u) ==
    /\ u \in inserting
    /\ inserting' = inserting \ {u}
    /\ rows' = rows \cup {u}
    /\ UNCHANGED <<sale, clock, stamp, ahead, admitted, given, workers, req>>

RegisterFails(u) ==
    /\ u \in inserting
    /\ inserting' = inserting \ {u}
    /\ UNCHANGED <<sale, clock, stamp, rows, ahead, admitted, given, workers, req>>

-----------------------------------------------------------------------------
(* run_admission_worker and admit_batch *)
Waiting == rows \ admitted

(* The worker of p is between two batches. *)
Resting(p) == p \in running /\ batch[p] = {}

(* Mutant: a batch that is not full is left for later. *)
FetchBatch_FullOnly(p) ==
    /\ Resting(p)
    /\ ~ended \/ p \in stale
    /\ \E b \in SUBSET Waiting :
        /\ \A u \in b, w \in Waiting \ b : stamp[u] < stamp[w]
        /\ Cardinality(b) = BatchSize
        /\ batch' = [batch EXCEPT ![p] = b]
    /\ UNCHANGED <<sale, registry, admitted, given, running, stale, marking, req>>

(* Mutant: the query has no ORDER BY. *)
FetchBatch_NoOrder(p) ==
    /\ Resting(p) /\ Waiting # {}
    /\ ~ended \/ p \in stale
    /\ \E b \in SUBSET Waiting :
        /\ Cardinality(b) <= BatchSize
        /\ Cardinality(b) < BatchSize => b = Waiting
        /\ batch' = [batch EXCEPT ![p] = b]
    /\ UNCHANGED <<sale, registry, admitted, given, running, stale, marking, req>>

(* WHERE status = 'waiting' ORDER BY registered_at LIMIT BATCH_SIZE, unless the
   end the worker was started with has passed *)
FetchBatch(p) ==
    /\ Resting(p) /\ Waiting # {}
    /\ ~ended \/ p \in stale
    /\ \E b \in SUBSET Waiting :
        /\ \A u \in b, w \in Waiting \ b : stamp[u] < stamp[w]
        /\ Cardinality(b) <= BatchSize
        /\ Cardinality(b) < BatchSize => b = Waiting
        /\ batch' = [batch EXCEPT ![p] = b]
    /\ UNCHANGED <<sale, registry, admitted, given, running, stale, marking, req>>

(* u is the earliest of the batch that p works on. *)
Serving(p, u) == u \in batch[p] /\ \A w \in batch[p] : stamp[u] <= stamp[w]

GiveToken(p, u) ==
    /\ Serving(p, u) /\ p \notin marking
    /\ given' = given \cup {u}
    /\ marking' = marking \cup {p}
    /\ UNCHANGED <<sale, registry, admitted, running, stale, batch, req>>

(* Mutant: the row is marked before the token is written. *)
MarkAdmitted_First(p, u) ==
    /\ Serving(p, u)
    /\ admitted' = admitted \cup {u}
    /\ batch' = [batch EXCEPT ![p] = @ \ {u}]
    /\ marking' = marking \ {p}
    /\ UNCHANGED <<sale, registry, given, running, stale, req>>

MarkAdmitted(p, u) ==
    /\ Serving(p, u) /\ p \in marking
    /\ admitted' = admitted \cup {u}
    /\ batch' = [batch EXCEPT ![p] = @ \ {u}]
    /\ marking' = marking \ {p}
    /\ UNCHANGED <<sale, registry, given, running, stale, req>>

Abandon(p) ==
    /\ batch' = [batch EXCEPT ![p] = {}]
    /\ marking' = marking \ {p}

(* A command raises: the worker pauses, and fetches anew. *)
WorkerRaises(p) ==
    /\ batch[p] # {}
    /\ Abandon(p)
    /\ UNCHANGED <<sale, registry, admitted, given, running, stale, req>>

(* Mutant: a worker whose sale has ended first empties the waiting list. *)
WorkerEnds_Served(p) ==
    /\ Resting(p) /\ Waiting = {}
    /\ ended \/ p \in stale
    /\ running' = running \ {p} /\ stale' = stale \ {p}
    /\ UNCHANGED <<sale, registry, admitted, given, batch, marking, req>>

(* The end the worker was started with has passed. *)
WorkerEnds(p) ==
    /\ Resting(p)
    /\ ended \/ p \in stale
    /\ running' = running \ {p} /\ stale' = stale \ {p}
    /\ UNCHANGED <<sale, registry, admitted, given, batch, marking, req>>

-----------------------------------------------------------------------------
(* update_sale_status checks nothing, and so does all that activate_sale,
   pause_sale, resume_sale and complete_sale do after their checks. *)
SetStatus(h, p, to) ==
    /\ req[h] = Idle
    /\ status' = to
    /\ req' = IF to = "scheduled" THEN req
                ELSE [req EXCEPT ![h] = [do |-> IF to = "active" THEN "start" ELSE "stop",
                                          proc |-> p, old |-> FALSE]]
    /\ UNCHANGED <<ended, registry, admitted, given, workers>>

End(h) == req' = [req EXCEPT ![h] = Idle]

(* start_admission_worker: a worker that is already running is left alone. *)
StartWorker(h) ==
    LET p == req[h].proc IN
    /\ req[h].do = "start"
    /\ running' = running \cup {p}
    /\ stale' = IF req[h].old /\ p \notin running THEN stale \cup {p} ELSE stale
    /\ End(h)
    /\ UNCHANGED <<sale, registry, admitted, given, batch, marking>>

Stop(p) ==
    /\ running' = running \ {p} /\ stale' = stale \ {p}
    /\ Abandon(p)

(* Mutant: the batch of the worker survives it. *)
StopWorker_KeepsBatch(h) ==
    /\ req[h].do = "stop"
    /\ running' = running \ {req[h].proc} /\ stale' = stale \ {req[h].proc}
    /\ End(h)
    /\ UNCHANGED <<sale, registry, admitted, given, batch, marking>>

(* stop_admission_worker: the task is cancelled wherever it is. *)
StopWorker(h) ==
    /\ req[h].do = "stop"
    /\ Stop(req[h].proc)
    /\ End(h)
    /\ UNCHANGED <<sale, registry, admitted, given>>

(* edit_sale: the running workers keep the end they were started with.  That
   the sale is not completed was true when the handler read it. *)
EditDates ==
    /\ ended' \in BOOLEAN
    /\ stale' = running
    /\ req' = [h \in Handlers |-> IF req[h].do = "start" THEN [req[h] EXCEPT !.old = TRUE] ELSE req[h]]
    /\ UNCHANGED <<status, registry, admitted, given, running, batch, marking>>

(* A statement between the two raises. *)
Drop(h) ==
    /\ req[h] # Idle
    /\ End(h)
    /\ UNCHANGED <<sale, registry, admitted, given, workers>>

-----------------------------------------------------------------------------
(* activate_scheduled_sales: in the worker process, which has no registry *)
AutoActivate ==
    /\ status = "scheduled"
    /\ status' = "active"
    /\ UNCHANGED <<ended, registry, admitted, given, workers, req>>

(* expire_sales *)
AutoComplete ==
    /\ status = "active" /\ ended
    /\ status' = "completed"
    /\ UNCHANGED <<ended, registry, admitted, given, workers, req>>

EndPasses ==
    /\ ~ended
    /\ ended' = TRUE
    /\ UNCHANGED <<status, registry, admitted, given, workers, req>>

(* An API process dies, its workers and requests with it. *)
Crash(p) ==
    /\ Stop(p)
    /\ req' = [h \in Handlers |-> IF req[h] # Idle /\ req[h].proc = p THEN Idle ELSE req[h]]
    /\ UNCHANGED <<sale, registry, admitted, given>>

-----------------------------------------------------------------------------
Worker(p) ==
    \/ FetchBatch(p) \/ WorkerRaises(p) \/ WorkerEnds(p)
    \/ \E u \in Users : GiveToken(p, u) \/ MarkAdmitted(p, u)

Handling(h) ==
    \/ \E p \in Processes, to \in Statuses : SetStatus(h, p, to)
    \/ StartWorker(h) \/ StopWorker(h) \/ Drop(h)

Next ==
    \/ \E u \in Users : Register(u) \/ Registered(u) \/ RegisterFails(u)
    \/ \E p \in Processes : Worker(p) \/ Crash(p)
    \/ \E h \in Handlers : Handling(h)
    \/ EditDates \/ EndPasses
    \/ AutoActivate \/ AutoComplete

(* The task of a running worker is scheduled, and neither of its commands
   raises every time. *)
Fairness ==
    \A p \in Processes :
        /\ WF_vars(FetchBatch(p) \/ WorkerEnds(p))
        /\ SF_vars(\E u \in Users : GiveToken(p, u))
        /\ SF_vars(\E u \in Users : MarkAdmitted(p, u))

Spec == Init /\ [][Next]_vars /\ Fairness

-----------------------------------------------------------------------------
(* Nobody is admitted before a user whose registration had committed when
   theirs began: whichever processes run workers of the sale at once, on
   batches fetched at different times, and wherever they raise, are cancelled
   or die. *)
AdmittedInOrder == \A u \in admitted : ahead[u] \subseteq admitted

(* Whoever is marked as admitted was given a token first: no failure leaves a
   user marked, and so never looked at again, without one. *)
TokenBeforeMark == admitted \subseteq given

(* As long as a process keeps its worker of the sale, the waiting list is
   emptied again and again, the last users of an incomplete batch included. *)
WaitingListDrains == \A p \in Processes : []<>(Waiting = {} \/ p \notin running)

(* No worker outlives the end of the sale for good, also in a process that was
   never told that the sale is over, and whoever is still waiting. *)
WorkersEnd == \A p \in Processes : []<>(~ended \/ p \notin running)

-----------------------------------------------------------------------------
(* The inductive invariant behind AdmittedInOrder and TokenBeforeMark. *)

(* Whoever had a row when the INSERT of u started has an earlier stamp, and
   nobody has the same. *)
StampsInOrder ==
    \A u \in rows \cup inserting :
        /\ \A w \in ahead[u] : stamp[w] < stamp[u]
        /\ \A w \in (rows \cup inserting) \ {u} : stamp[w] # stamp[u]

(* A batch skips nobody who is ahead of one of its users. *)
BatchesInOrder == \A p \in Processes : \A u \in batch[p] : ahead[u] \subseteq admitted \cup batch[p]

MarksGiven == \A p \in marking : \A u \in Users : Serving(p, u) => u \in given

IInv ==
    /\ TypeOK /\ StampsInOrder /\ BatchesInOrder /\ MarksGiven
    /\ AdmittedInOrder /\ TokenBeforeMark
=============================================================================
