------------------------------ MODULE Lifecycle ------------------------------
(***************************************************************************)
(* The life of one sale beside its Redis counter (routers/admin.py,        *)
(* routers/sales.py, workers/expiry_worker.py): creation, activation by an *)
(* administrator, by the worker or through PATCH, pause, resume, edits and *)
(* adjustments of the stock, completion, deletion, and the reconciliation  *)
(* that mends what they leave behind.  Every handler reads the rows in one *)
(* statement, writes them in another and then speaks to Redis; whatever    *)
(* Redis raises is swallowed, and nothing spans the steps.                 *)
(*                                                                         *)
(* Of the rows only the stock and the units are kept, one unit at a time:  *)
(* those the inventory row books, those granted and not booked yet, and    *)
(* those it has ceased to book although a payment may come.  The handlers  *)
(* of a reservation are module Stock's, the fallback among them; the       *)
(* admission workers are module Admission's.  Time is left out: a sale may *)
(* be due, or over, at any moment.                                         *)
(***************************************************************************)
EXTENDS Integers, FiniteSets, FiniteSetsExt

CONSTANTS Handlers,  \* API requests of administrators in flight at once
          Managers,  \* bound: those that may do more than edit the sale
          Worker,    \* the expiry worker, which also activates and completes
          Rec,       \* the reconciliation worker
          MaxTotal,  \* bound: units of stock, and INCRBY and DECRBY keep the counter within
                     \* -MaxTotal..MaxTotal
          MaxComing, \* bound: units that are on their way, or may be paid for late, at once
          FixAt,     \* AUTO_FIX_THRESHOLD
          Nil        \* what Redis answers for a key it does not have

ASSUME LifecycleAssumption ==
    /\ IsFiniteSet(Handlers) /\ Managers \subseteq Handlers
    /\ Worker \notin Handlers /\ Rec \notin Handlers \cup {Worker}
    /\ MaxTotal \in Nat /\ MaxComing \in Nat
    /\ FixAt \in Nat \ {0}
    /\ Nil \notin Int

VARIABLES
    status,   \* sales.status, or "deleted"
    total,    \* total_quantity
    booked,   \* reserved_quantity + sold_quantity
    coming,   \* units granted by Redis that the inventory row does not book yet
    lapsed,   \* units the rows do not book any more, which a late payment may book
    opened,   \* history: the sale has been active
    counter,  \* inventory:{sale_id}
    req,      \* what each handler and the expiry worker is doing
    rec,      \* the reconciliation worker's progress on the sale
    sure,     \* history: whose reading of the rows nothing has overtaken yet
    clean     \* history: no step has yet let the counter exceed what is free

sale == <<status, opened>>
units == <<booked, coming, lapsed>>
history == <<sure, clean>>
vars == <<sale, total, units, counter, req, rec, history>>

-----------------------------------------------------------------------------
Statuses == {"scheduled", "active", "paused", "completed"}

Tasks == Handlers \cup {Worker}

Idle == [do |-> "nothing"]
Resting == [step |-> "rest"]

Units == 0..MaxTotal

Requests ==
    [do : {"activate", "count", "seed"}, seen : Units]
    \cup [do : {"pause", "resume", "complete", "total", "row", "clear", "delete"}]
    \cup [do : {"edit"}, by : -MaxTotal..MaxTotal, to : Units]
    \cup [do : {"shift"}, by : -MaxTotal..MaxTotal]

TypeOK ==
    /\ status \in Statuses \cup {"deleted"} /\ opened \in BOOLEAN
    /\ total \in Units /\ booked \in 0..total /\ coming \in Nat /\ lapsed \in Nat
    /\ coming + lapsed <= MaxComing
    /\ counter \in Int \cup {Nil}
    /\ req \in [Tasks -> Requests \cup {Idle}]
    /\ rec \in [step : {"get", "set"}, want : Units, live : BOOLEAN] \cup {Resting}
    /\ sure \subseteq Tasks \cup {Rec}
    /\ clean \in BOOLEAN

(* The row of the sale has been inserted.  The request that did it has yet to
   activate and seed the sale, when an administrator created it for now, or to
   seed it, when it came through POST /sales. *)
Init ==
    /\ status = "scheduled" /\ opened = FALSE
    /\ total \in 1..MaxTotal
    /\ booked = 0 /\ coming = 0 /\ lapsed = 0
    /\ counter = Nil
    /\ sure \in {{h} : h \in Managers} \cup {{}}
    /\ \E what \in {"activate", "seed"} :
         req = [t \in Tasks |-> IF t \in sure THEN [do |-> what, seen |-> total] ELSE Idle]
    /\ rec = Resting
    /\ clean = TRUE

-----------------------------------------------------------------------------
SetStatus(s) ==
    /\ status' = s
    /\ opened' = (opened \/ s = "active")

Doing(t, what) == req[t].do = what

Begin(t, r) ==
    /\ req[t] = Idle
    /\ req' = [req EXCEPT ![t] = r]

Continue(t, r) == req' = [req EXCEPT ![t] = r]

End(t) == Continue(t, Idle)

(* The rows and the counter show all there is. *)
AllShown == coming = 0 /\ lapsed = 0 /\ \A t \in Tasks : ~Doing(t, "shift")

(* t reads the rows: the reading is sure to the next grant or stock change,
   unless units that it does not show are promised already. *)
Reads(t) ==
    /\ sure' = IF clean /\ AllShown THEN sure \cup {t} ELSE sure \ {t}
    /\ UNCHANGED clean

Overtake == sure' = {}

(* t has no use for its reading any more. *)
Forget(t) == sure' = sure \ {t}

(* SET, whatever the counter is by now *)
SetCounter(t, n) ==
    /\ counter' = n
    /\ clean' = (clean /\ t \in sure)
    /\ Forget(t)

(* INCRBY and DECRBY, which create a missing key *)
IncrBy(n) ==
    /\ counter' = IF counter = Nil THEN n ELSE counter + n
    /\ counter' \in -MaxTotal..MaxTotal

(* The key goes, and with it that a stock reduction has left it below zero. *)
LoseCounter ==
    /\ counter' = Nil
    /\ clean' = (clean /\ (counter = Nil \/ counter >= 0))
    /\ UNCHANGED sure

-----------------------------------------------------------------------------
(* activate_sale, pause_sale, resume_sale and complete_sale: the status is
   read and judged first, and written whatever it is by then. *)
From == [activate |-> {"scheduled"}, pause |-> {"active"}, resume |-> {"paused"},
         complete |-> Statuses]

Target == [activate |-> "active", pause |-> "paused", resume |-> "active",
           complete |-> "completed"]

BeginStatus(h, what) ==
    /\ status \in From[what]
    /\ IF what = "activate"
         THEN Begin(h, [do |-> what, seen |-> total - booked]) /\ Reads(h)
         ELSE Begin(h, [do |-> what]) /\ UNCHANGED history
    /\ UNCHANGED <<sale, total, units, counter, rec>>

WriteStatus(h) ==
    /\ \E what \in DOMAIN Target :
        /\ Doing(h, what)
        /\ SetStatus(IF status = "deleted" THEN status ELSE Target[what])
        /\ CASE what = "activate" -> Continue(h, [do |-> "seed", seen |-> req[h].seen])
             [] what = "complete" -> Continue(h, [do |-> "clear"])
             [] OTHER -> End(h)
    /\ UNCHANGED <<total, units, counter, rec, history>>

(* update_sale_status of routers/sales.py asks for no particular status.  To
   seed, it reads the stock first and what is booked later. *)
PatchStatus(h, s) ==
    /\ status # "deleted"
    /\ SetStatus(s)
    /\ Begin(h, IF s = "active" THEN [do |-> "total"] ELSE Idle)
    /\ UNCHANGED <<total, units, counter, rec, history>>

ReadTotal(h) ==
    /\ Doing(h, "total")
    /\ IF status = "deleted"
         THEN End(h) /\ UNCHANGED history
         ELSE Continue(h, [do |-> "count", seen |-> total]) /\ Reads(h)
    /\ UNCHANGED <<sale, total, units, counter, rec>>

(* Mutant: the difference is not kept from going below zero. *)
ReadBooked_NoMax(h) ==
    /\ Doing(h, "count")
    /\ Continue(h, [do |-> "seed", seen |-> req[h].seen - booked])
    /\ IF AllShown THEN UNCHANGED sure ELSE Forget(h)
    /\ UNCHANGED <<sale, total, units, counter, rec, clean>>

ReadBooked(h) ==
    /\ Doing(h, "count")
    /\ Continue(h, [do |-> "seed", seen |-> Max({0, req[h].seen - booked})])
    /\ IF AllShown THEN UNCHANGED sure ELSE Forget(h)
    /\ UNCHANGED <<sale, total, units, counter, rec, clean>>

Seed(t) ==
    /\ Doing(t, "seed")
    /\ SetCounter(t, req[t].seen)
    /\ End(t)
    /\ UNCHANGED <<sale, total, units, rec>>

(* The DEL of complete_sale and delete_sale *)
Clear(h) ==
    /\ Doing(h, "clear")
    /\ LoseCounter
    /\ End(h)
    /\ UNCHANGED <<sale, total, units, rec>>

-----------------------------------------------------------------------------
(* delete_sale *)
BeginDelete(h) ==
    /\ status \notin {"active", "deleted"}
    /\ Begin(h, [do |-> "delete"])
    /\ UNCHANGED <<sale, total, units, counter, rec, history>>

(* All rows of the sale go; requests that have no row yet keep their units. *)
CommitDelete(h) ==
    /\ Doing(h, "delete")
    /\ status # "deleted"
    /\ SetStatus("deleted")
    /\ total' = 0 /\ booked' = 0 /\ lapsed' = 0
    /\ coming' \in 0..coming
    /\ Continue(h, [do |-> "clear"])
    /\ UNCHANGED <<counter, rec, history>>

(* edit_sale: the new stock is written as it was asked for, the counter moves
   by the difference from the stock that was read. *)
BeginEdit(h, t) ==
    /\ status \notin {"completed", "deleted"}
    /\ Begin(h, [do |-> "edit", by |-> t - total, to |-> t])
    /\ UNCHANGED <<sale, total, units, counter, rec, history>>

(* The CHECK of the inventory table holds; the dates are written as well. *)
CommitEdit(h) ==
    /\ Doing(h, "edit")
    /\ IF status = "deleted"
         THEN UNCHANGED <<total, history>>
         ELSE /\ booked <= req[h].to
              /\ total' = req[h].to
              /\ clean' = (clean /\ total = req[h].to - req[h].by)
              /\ Overtake
    /\ IF req[h].by = 0 THEN End(h) ELSE Continue(h, [do |-> "shift", by |-> req[h].by])
    /\ UNCHANGED <<sale, units, counter, rec>>

(* adjust_inventory, of a sale in any status; zero units are moved as well.  The
   UPDATE is relative, so what was read before it only refuses. *)
AdjustTotal(h, n) ==
    /\ status # "deleted"
    /\ total + n \in booked..MaxTotal
    /\ total' = total + n
    /\ Begin(h, [do |-> "shift", by |-> n])
    /\ Overtake
    /\ UNCHANGED <<sale, units, counter, rec, clean>>

(* Mutant: a reduction is added like an increase. *)
Shift_Adds(h) ==
    /\ Doing(h, "shift")
    /\ IncrBy(IF req[h].by < 0 THEN -req[h].by ELSE req[h].by)
    /\ End(h)
    /\ UNCHANGED <<sale, total, units, rec, history>>

Shift(h) ==
    /\ Doing(h, "shift")
    /\ IncrBy(req[h].by)
    /\ End(h)
    /\ UNCHANGED <<sale, total, units, rec, history>>

(* A statement raises, Redis raises, or the process dies. *)
Abandon(t) ==
    /\ req[t] # Idle
    /\ End(t)
    /\ Forget(t)
    /\ clean' = (clean /\ ~(Doing(t, "shift") /\ req[t].by < 0))
    /\ UNCHANGED <<sale, total, units, counter, rec>>

-----------------------------------------------------------------------------
(* The expiry worker: activate_scheduled_sales updates all sales that are due
   and returns them, then reads the row of each; expire_sales. *)
AutoActivate ==
    /\ status = "scheduled"
    /\ Begin(Worker, [do |-> "row"])
    /\ SetStatus("active")
    /\ UNCHANGED <<total, units, counter, rec, history>>

ReadRow ==
    /\ Doing(Worker, "row")
    /\ IF status = "deleted"
         THEN End(Worker) /\ UNCHANGED history
         ELSE Continue(Worker, [do |-> "seed", seen |-> total - booked]) /\ Reads(Worker)
    /\ UNCHANGED <<sale, total, units, counter, rec>>

(* The counter stays. *)
AutoComplete ==
    /\ req[Worker] = Idle
    /\ status = "active"
    /\ SetStatus("completed")
    /\ UNCHANGED <<total, units, counter, req, rec, history>>

-----------------------------------------------------------------------------
(* reconcile_inventory: the rows are read, then Redis, then Redis is set.  A
   scheduled sale is mended when its counter drifts, not when it has none. *)
RecRead ==
    /\ rec = Resting
    /\ status \in {"active", "scheduled"}
    /\ rec' = [step |-> "get", want |-> total - booked, live |-> status = "active"]
    /\ Reads(Rec)
    /\ UNCHANGED <<sale, total, units, counter, req>>

Drifted == counter - rec.want >= FixAt \/ rec.want - counter >= FixAt

Mend(wrong) ==
    /\ rec # Resting /\ rec.step = "get"
    /\ IF wrong
         THEN rec' = [rec EXCEPT !.step = "set"] /\ UNCHANGED history
         ELSE rec' = Resting /\ Forget(Rec) /\ UNCHANGED clean
    /\ UNCHANGED <<sale, total, units, counter, req>>

(* Mutant: a missing counter is nothing to mend. *)
RecGet_MissingIsFine == Mend(counter # Nil /\ Drifted)

(* Mutant: only a counter that offers too much is mended. *)
RecGet_HighOnly == Mend(IF counter = Nil THEN rec.live ELSE counter - rec.want >= FixAt)

RecGet == Mend(IF counter = Nil THEN rec.live ELSE Drifted)

RecSet ==
    /\ rec # Resting /\ rec.step = "set"
    /\ SetCounter(Rec, rec.want)
    /\ rec' = Resting
    /\ UNCHANGED <<sale, total, units, req>>

RecFails ==
    /\ rec # Resting
    /\ rec' = Resting
    /\ Forget(Rec)
    /\ UNCHANGED <<sale, total, units, counter, req, clean>>

-----------------------------------------------------------------------------
(* Buyers.  create_reservation finds the sale active long before it asks Redis. *)
Grant ==
    /\ opened
    /\ coming + lapsed < MaxComing
    /\ counter # Nil /\ counter >= 1
    /\ counter' = counter - 1
    /\ coming' = coming + 1
    /\ Overtake
    /\ UNCHANGED <<sale, total, booked, lapsed, req, rec, clean>>

(* The insert failed, and release_inventory returns its units. *)
Compensate ==
    /\ coming > 0
    /\ coming' = coming - 1
    /\ IncrBy(1)
    /\ UNCHANGED <<sale, total, booked, lapsed, req, rec, history>>

(* A unit is not, or no longer, booked: for good, or with a payment that may
   come.  The rows count units and do not know whose they are: what one payment
   or cancellation takes out of reserved_quantity may be another's. *)
Lapse ==
    \/ UNCHANGED lapsed
    \/ coming' + lapsed < MaxComing /\ lapsed' = lapsed + 1

(* It ends before it is booked, or the insert failed and the compensation with
   it: the counter gets nothing back. *)
Vanish ==
    /\ coming > 0
    /\ coming' = coming - 1
    /\ Lapse
    /\ UNCHANGED <<sale, total, booked, counter, req, rec, history>>

(* The consumer books the unit, which the CHECK of the inventory table allows. *)
Book ==
    /\ coming > 0 /\ booked < total
    /\ coming' = coming - 1
    /\ booked' = booked + 1
    /\ UNCHANGED <<sale, total, lapsed, counter, req, rec, history>>

(* A booked reservation expires or is cancelled; the release call that follows
   names a key that never existed, and changes nothing. *)
Unbook ==
    /\ booked > 0
    /\ booked' = booked - 1
    /\ UNCHANGED <<sale, total, coming, counter, req, rec, history>>
    /\ Lapse

(* A late payment books the unit.  Where it takes it out of another's reserved
   one, nothing changes here. *)
Revive ==
    /\ lapsed > 0 /\ booked < total
    /\ lapsed' = lapsed - 1
    /\ booked' = booked + 1
    /\ UNCHANGED <<sale, total, coming, counter, req, rec, history>>

(* Redis restarts; it saves nothing. *)
Restart ==
    /\ counter # Nil
    /\ LoseCounter
    /\ UNCHANGED <<sale, total, units, req, rec>>

-----------------------------------------------------------------------------
Managing(h) ==
    \/ \E what \in DOMAIN Target : BeginStatus(h, what)
    \/ WriteStatus(h)
    \/ \E s \in Statuses : PatchStatus(h, s)
    \/ ReadTotal(h) \/ ReadBooked(h)
    \/ BeginDelete(h) \/ CommitDelete(h)
    \/ \E n \in -MaxTotal..MaxTotal : AdjustTotal(h, n)
    \/ Seed(h) \/ Clear(h)

Editing(h) ==
    \/ \E t \in 1..MaxTotal : BeginEdit(h, t)
    \/ CommitEdit(h)
    \/ Shift(h)

ExpiryWorker == AutoActivate \/ ReadRow \/ Seed(Worker) \/ AutoComplete

Reconciling == RecRead \/ RecGet \/ RecSet \/ RecFails

Buying == Grant \/ Compensate \/ Vanish \/ Book \/ Unbook \/ Revive

Next ==
    \/ \E h \in Managers : Managing(h)
    \/ \E h \in Handlers : Editing(h)
    \/ \E t \in Tasks : Abandon(t)
    \/ ExpiryWorker
    \/ Reconciling
    \/ Buying
    \/ Restart

(* The reconciliation worker loops for ever, whatever a round raises, and Redis
   does not fail for ever. *)
Fairness == WF_vars(RecRead) /\ SF_vars(RecGet) /\ SF_vars(RecSet)

Spec == Init /\ [][Next]_vars /\ Fairness

-----------------------------------------------------------------------------
Free == IF counter = Nil THEN 0 ELSE counter

(* What the stock change of each task has still to move the counter by *)
Pending == [t \in Tasks |-> IF Doing(t, "shift") THEN req[t].by ELSE 0]

(* The units that f gives its tasks, one by one, so that they can be counted *)
OneByOne(f) == {u \in Tasks \X (1..MaxTotal) : u[2] <= f[u[1]]}

ToAdd == OneByOne(Pending)
ToRemove == OneByOne([t \in Tasks |-> -Pending[t]])

(* Whatever the administrators, the workers and Redis do at once: the counter
   offers no unit that is booked or on its way, until a SET ignores what was
   granted or resized, an edit overwrites another change, or a reduction is
   forgotten.  Completions, deletions, counters that INCRBY brings back, late
   payments and late requests of every kind are harmless. *)
CounterBacked ==
    clean /\ status # "deleted" =>
        coming + booked + Free + Cardinality(ToAdd) <= total + Cardinality(ToRemove)

(* A sale that stays active has a counter again and again: a seeding that was
   lost, a completion that was late, a restart, are all made good. *)
ActiveIsSeeded == <>[](status = "active") => []<>(counter # Nil)

(* Once only the reconciliation moves, the counter of an active sale settles,
   whatever has happened before, to less than FixAt units from what is free.  It
   gets no nearer: a smaller drift is logged and stays for ever, although
   workers/reconciliation_worker.py promises to correct any above 2 units and
   corrects from 10, its AUTO_FIX_THRESHOLD. *)
Converges ==
    <>[](status = "active") /\ <>[][Reconciling]_vars =>
        <>[](/\ counter # Nil
             /\ counter - (total - booked) < FixAt /\ (total - booked) - counter < FixAt)
=============================================================================
