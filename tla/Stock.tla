-------------------------------- MODULE Stock --------------------------------
(***************************************************************************)
(* The Redis counter of a sale (services/inventory_service.py), beside the *)
(* PostgreSQL rows of module Orders: the Lua scripts that grant, release   *)
(* and shift units, the fallback when Redis raises, the release calls that *)
(* follow an expiry, a cancellation or a failed insert, the stock changes  *)
(* and the reconciliation worker.  Every step on the rows is a step of     *)
(* Orders; this module says what happens to Redis with it, before it or    *)
(* after it.  No transaction spans the two.                                *)
(*                                                                         *)
(* create_reservation draws a uuid for the key its grant is kept under,    *)
(* and the database draws another for the row; the release calls of expiry *)
(* and cancellation name the row's.  GrantKey(h) stands for the uuid of    *)
(* the attempt that handler h is making; once the attempt is over nobody   *)
(* knows the uuid, and the key is forgotten here (in Redis it times out).  *)
(***************************************************************************)
EXTENDS Integers, FiniteSets

CONSTANTS Users, Reservations, Owner, Handlers, MaxQuantity, Totals, MaxCopies,
          Managers,  \* API requests of administrators in flight at once
          FixAt,  \* AUTO_FIX_THRESHOLD of the reconciliation worker
          Nil,    \* what Redis answers for a key it does not have
          Bound,    \* bound: INCRBY and DECRBY keep the counter within -Bound..Bound
          MaxCalls  \* bound: release calls on their way at once

ASSUME StockAssumption ==
    /\ IsFiniteSet(Reservations)
    /\ Owner \in [Reservations -> Users]
    /\ MaxQuantity \in Nat /\ MaxCopies \in Nat
    /\ Totals \subseteq Nat
    /\ FixAt \in Nat \ {0}
    /\ Nil \notin Int
    /\ Bound \in Nat
    /\ MaxCalls \in Nat

VARIABLES rstatus, rqty, due, ostatus, oqty, total, reserved, sold, queue, cons, req

VARIABLES
    counter,  \* inventory:{sale_id}
    keys,     \* the reservation:{id} keys Redis holds
    raised,   \* handlers whose Redis grant raised
    calls,    \* release_inventory calls about to be made
    shift,    \* units a quantity change has still to move in Redis
    admin,    \* what each administrator's request is doing
    adjust,   \* history: units all stock changes together have still to move in Redis
    rec,      \* the reconciliation worker's progress on the sale
    clean     \* history: no step has yet let the counter exceed what is free

rows == <<rstatus, rqty, due, ostatus, oqty, total, reserved, sold, queue, cons, req>>
stock == <<counter, keys, raised, calls, shift, admin, adjust, rec, clean>>
vars == <<rows, stock>>

O == INSTANCE Orders

-----------------------------------------------------------------------------
Quantity == 1..MaxQuantity

GrantKey(h) == <<"grant", h>>
RowKey(r) == <<"row", r>>

ReleaseCalls ==
    [key : {GrantKey(h) : h \in Handlers} \cup {RowKey(r) : r \in Reservations}, qty : Quantity]

Resting == [step |-> "rest"]

NoChange == [do |-> "nothing"]

StockChanges == [do : {"edit"}, seen : Nat] \cup [do : {"shift"}, by : Int]

TypeOK ==
    /\ counter \in Int \cup {Nil}
    /\ keys \subseteq {GrantKey(h) : h \in Handlers}
    /\ raised \subseteq {h \in Handlers : O!Doing(h, "checked")}
    /\ calls \subseteq ReleaseCalls
    /\ shift \in [Handlers -> Int]
    /\ \A h \in Handlers : shift[h] # 0 => O!Doing(h, "modifying")
    /\ admin \in [Managers -> StockChanges \cup {NoChange}]
    /\ adjust \in Int
    /\ rec \in [step : {"get", "set"}, want : Nat] \cup {Resting}
    /\ clean \in BOOLEAN

(* The sale has been activated and its counter seeded, unless that SET raised. *)
Init ==
    /\ O!Init
    /\ counter \in {total, Nil}
    /\ keys = {} /\ raised = {} /\ calls = {}
    /\ shift = [h \in Handlers |-> 0]
    /\ admin = [m \in Managers |-> NoChange] /\ adjust = 0
    /\ rec = Resting
    /\ clean = TRUE

-----------------------------------------------------------------------------
(* Redis commands and scripts *)

(* INCRBY and DECRBY, which create a missing key *)
IncrBy(n) ==
    /\ counter' = IF counter = Nil THEN n ELSE counter + n
    /\ counter' \in -Bound..Bound

(* The check and the DECRBY of try_reserve_inventory and try_increase_reservation *)
Deduct(n) ==
    /\ counter # Nil
    /\ counter >= n
    /\ counter' = counter - n

(* The attempt of h is over: no call can name its key any more. *)
Forget(h) == keys' = keys \ {GrantKey(h)}

(* A call of release_inventory is on its way. *)
CallRelease(key, q) ==
    /\ Cardinality(calls) < MaxCalls
    /\ calls' = calls \cup {[key |-> key, qty |-> q]}

(* A release call of the handler's attempt is still to be made. *)
Releasing(h) == \E c \in calls : c.key = GrantKey(h)

-----------------------------------------------------------------------------
(* create_reservation *)
Check(h) ==
    /\ \/ ~Releasing(h) /\ (\E r \in Reservations, q \in Quantity : O!CheckPaid(h, r, q))
       \/ O!CheckActive(h)
    /\ UNCHANGED stock

Grant(h) ==
    /\ h \notin raised
    /\ O!GrantByRedis(h)
    /\ Deduct(req[h].qty)
    /\ keys' = keys \cup {GrantKey(h)}
    /\ UNCHANGED <<raised, calls, shift, admin, adjust, rec, clean>>

(* The call raises, before the script ran or after it. *)
GrantRaises(h) ==
    /\ h \notin raised
    /\ O!Doing(h, "checked")
    /\ raised' = raised \cup {h}
    /\ \/ UNCHANGED <<counter, keys>>
       \/ Deduct(req[h].qty) /\ keys' = keys \cup {GrantKey(h)}
    /\ UNCHANGED <<rows, calls, shift, admin, adjust, rec, clean>>

Fallback(h) ==
    /\ h \in raised
    /\ O!GrantByFallback(h)
    /\ raised' = raised \ {h}
    /\ clean' = FALSE
    /\ UNCHANGED <<counter, keys, calls, shift, admin, adjust, rec>>

Persist(h) ==
    /\ O!Insert(h)
    /\ Forget(h)
    /\ UNCHANGED <<counter, raised, calls, shift, admin, adjust, rec, clean>>

(* The transaction raised.  It may have been committed all the same, when
   only the answer to COMMIT is lost. *)
PersistRaises(h) ==
    /\ O!Doing(h, "granted")
    /\ \/ O!Drop(h) /\ UNCHANGED clean
       \/ O!Insert(h) /\ clean' = FALSE
    /\ CallRelease(GrantKey(h), req[h].qty)
    /\ UNCHANGED <<counter, keys, raised, shift, admin, adjust, rec>>

(* Mutant: the units a quantity change still has to move outlive the request. *)
Abandon_KeepsShift(h) ==
    /\ O!Drop(h)
    /\ Forget(h)
    /\ raised' = raised \ {h}
    /\ UNCHANGED <<counter, calls, shift, admin, adjust, rec, clean>>

(* Any request ends here when it is refused, when a statement raises, or when
   its process dies. *)
Abandon(h) ==
    /\ O!Drop(h)
    /\ Forget(h)
    /\ raised' = raised \ {h}
    /\ shift' = [shift EXCEPT ![h] = 0]
    /\ UNCHANGED <<counter, calls, admin, adjust, rec, clean>>

-----------------------------------------------------------------------------
(* Mutant: the script without its EXISTS. *)
Release_Unchecked(c) ==
    /\ c \in calls
    /\ calls' = calls \ {c}
    /\ IncrBy(c.qty)
    /\ keys' = keys \ {c.key}
    /\ UNCHANGED <<rows, raised, shift, admin, adjust, rec, clean>>

(* release_inventory *)
Release(c) ==
    /\ c \in calls
    /\ calls' = calls \ {c}
    /\ IF c.key \in keys
         THEN IncrBy(c.qty) /\ keys' = keys \ {c.key}
         ELSE UNCHANGED <<counter, keys>>
    /\ UNCHANGED <<rows, raised, shift, admin, adjust, rec, clean>>

(* Redis raises, which the callers swallow, or the caller's process dies. *)
ReleaseLost(c) ==
    /\ c \in calls
    /\ calls' = calls \ {c}
    /\ keys' = keys \ {c.key}
    /\ UNCHANGED <<rows, counter, raised, shift, admin, adjust, rec, clean>>

CommitCancel(h) ==
    /\ O!CommitCancel(h)
    /\ CallRelease(RowKey(req[h].res), req[h].qty)
    /\ UNCHANGED <<counter, keys, raised, shift, admin, adjust, rec, clean>>

Expire(r) ==
    /\ O!Expire(r)
    /\ CallRelease(RowKey(r), rqty[r])
    /\ UNCHANGED <<counter, keys, raised, shift, admin, adjust, rec, clean>>

-----------------------------------------------------------------------------
(* modify_reservation_quantity: Redis first, then the row *)
BeginModify(h, r, q) ==
    /\ O!BeginModify(h, r, q)
    /\ shift' = [shift EXCEPT ![h] = q - rqty[r]]
    /\ UNCHANGED <<counter, keys, raised, calls, admin, adjust, rec, clean>>

IncreaseUnits(h) ==
    /\ shift[h] > 0
    /\ Deduct(shift[h])
    /\ shift' = [shift EXCEPT ![h] = 0]
    /\ UNCHANGED <<rows, keys, raised, calls, admin, adjust, rec, clean>>

DecreaseUnits(h) ==
    /\ shift[h] < 0
    /\ IncrBy(-shift[h])
    /\ shift' = [shift EXCEPT ![h] = 0]
    /\ clean' = FALSE
    /\ UNCHANGED <<rows, keys, raised, calls, admin, adjust, rec>>

(* Mutant: the row is written although Redis has not moved the units. *)
CommitModify_First(h) ==
    /\ O!CommitModify(h)
    /\ shift' = [shift EXCEPT ![h] = 0]
    /\ UNCHANGED <<counter, keys, raised, calls, admin, adjust, rec, clean>>

CommitModify(h) ==
    /\ shift[h] = 0
    /\ O!CommitModify(h)
    /\ UNCHANGED stock

-----------------------------------------------------------------------------
(* edit_sale and adjust_inventory: the row first, then Redis.  Nothing keeps
   two of them from overlapping.  edit_sale reads the stock, writes the stock
   it was asked for, and shifts Redis by the difference from what it read. *)
BeginEdit(m) ==
    /\ admin[m] = NoChange
    /\ admin' = [admin EXCEPT ![m] = [do |-> "edit", seen |-> total]]
    /\ UNCHANGED <<rows, counter, keys, raised, calls, shift, adjust, rec, clean>>

(* The run ends clean when an increase that the edit has not seen is
   overwritten: its units stay in the counter. *)
CommitEdit(m, t) ==
    /\ admin[m].do = "edit"
    /\ O!SetTotal(t)
    /\ LET n == t - admin[m].seen
       IN /\ admin' = [admin EXCEPT ![m] = IF n = 0 THEN NoChange ELSE [do |-> "shift", by |-> n]]
          /\ adjust' = adjust + n
    /\ clean' = (clean /\ total <= admin[m].seen)
    /\ UNCHANGED <<counter, keys, raised, calls, shift, rec>>

(* The UPDATE of adjust_inventory is relative; the stock it reads before only
   refuses.  No units are moved as well. *)
AdjustTotal(m, t) ==
    /\ admin[m] = NoChange
    /\ O!SetTotal(t)
    /\ admin' = [admin EXCEPT ![m] = [do |-> "shift", by |-> t - total]]
    /\ adjust' = adjust + (t - total)
    /\ UNCHANGED <<counter, keys, raised, calls, shift, rec, clean>>

AdjustCounter(m) ==
    /\ admin[m].do = "shift"
    /\ IncrBy(admin[m].by)
    /\ admin' = [admin EXCEPT ![m] = NoChange]
    /\ adjust' = adjust - admin[m].by
    /\ UNCHANGED <<rows, keys, raised, calls, shift, rec, clean>>

(* Redis raises, which is swallowed, or the request's process dies. *)
AdjustLost(m) ==
    /\ admin[m].do = "shift"
    /\ admin' = [admin EXCEPT ![m] = NoChange]
    /\ adjust' = adjust - admin[m].by
    /\ clean' = (clean /\ admin[m].by >= 0)
    /\ UNCHANGED <<rows, counter, keys, raised, calls, shift, rec>>

(* The UPDATE of edit_sale raises, or its process dies before. *)
EditFails(m) ==
    /\ admin[m].do = "edit"
    /\ admin' = [admin EXCEPT ![m] = NoChange]
    /\ UNCHANGED <<rows, counter, keys, raised, calls, shift, adjust, rec, clean>>

-----------------------------------------------------------------------------
(* reconcile_inventory: the rows are read, then Redis, then Redis is set. *)
RecRead ==
    /\ rec = Resting
    /\ rec' = [step |-> "get", want |-> total - reserved - sold]
    /\ UNCHANGED <<rows, counter, keys, raised, calls, shift, admin, adjust, clean>>

Drifted == counter - rec.want >= FixAt \/ rec.want - counter >= FixAt

RecGet ==
    /\ rec # Resting /\ rec.step = "get"
    /\ rec' = IF counter = Nil \/ Drifted THEN [rec EXCEPT !.step = "set"] ELSE Resting
    /\ UNCHANGED <<rows, counter, keys, raised, calls, shift, admin, adjust, clean>>

RecSet ==
    /\ rec # Resting /\ rec.step = "set"
    /\ counter' = rec.want
    /\ rec' = Resting
    /\ clean' = FALSE
    /\ UNCHANGED <<rows, keys, raised, calls, shift, admin, adjust>>

(* Redis raises or the worker dies; the next round starts afresh. *)
RecFails ==
    /\ rec # Resting
    /\ rec' = Resting
    /\ UNCHANGED <<rows, counter, keys, raised, calls, shift, admin, adjust, clean>>

-----------------------------------------------------------------------------
(* Redis restarts; it saves nothing, not even that a stock reduction has left
   the counter below zero. *)
Restart ==
    /\ counter # Nil
    /\ counter' = Nil
    /\ keys' = {}
    /\ clean' = (clean /\ counter >= 0)
    /\ UNCHANGED <<rows, raised, calls, shift, admin, adjust, rec>>

(* The TTL of a reservation key passes. *)
KeyExpires(k) ==
    /\ k \in keys
    /\ keys' = keys \ {k}
    /\ UNCHANGED <<rows, counter, raised, calls, shift, admin, adjust, rec, clean>>

(* The steps of Orders that do not touch Redis *)
RowsOnly ==
    /\ \/ \E h \in Handlers, r \in Reservations : O!BeginPay(h, r) \/ O!BeginCancel(h, r)
       \/ \E h \in Handlers : O!CommitPay(h)
       \/ \E r \in Reservations : O!Publish(r) \/ O!Lapse(r)
       \/ O!Consumer
    /\ UNCHANGED stock

-----------------------------------------------------------------------------
Reserving(h) ==
    \/ Check(h) \/ Grant(h) \/ GrantRaises(h) \/ Fallback(h)
    \/ Persist(h) \/ PersistRaises(h)

Modifying(h) ==
    \/ \E r \in Reservations, q \in Quantity : BeginModify(h, r, q)
    \/ IncreaseUnits(h) \/ DecreaseUnits(h) \/ CommitModify(h)

Changing(m) ==
    \/ BeginEdit(m) \/ EditFails(m)
    \/ \E t \in Totals : CommitEdit(m, t) \/ AdjustTotal(m, t)
    \/ AdjustCounter(m) \/ AdjustLost(m)

Reconciling == RecRead \/ RecGet \/ RecSet \/ RecFails

Next ==
    \/ \E h \in Handlers : Reserving(h) \/ Modifying(h) \/ CommitCancel(h) \/ Abandon(h)
    \/ \E r \in Reservations : Expire(r)
    \/ \E c \in calls : Release(c) \/ ReleaseLost(c)
    \/ \E m \in Managers : Changing(m)
    \/ Reconciling
    \/ Restart \/ (\E k \in keys : KeyExpires(k))
    \/ RowsOnly

Spec == Init /\ [][Next]_vars

-----------------------------------------------------------------------------
(* The units promised to somebody: granted to a request, held by a live row,
   or paid. *)
HeldUnits ==
    {u \in Reservations \X Quantity :
        \/ rstatus[u[1]] \in O!Active /\ u[2] <= rqty[u[1]]
        \/ ostatus[u[1]] = "paid" /\ u[2] <= oqty[u[1]]
        \/ \E h \in Handlers : O!Doing(h, "granted") /\ req[h].res = u[1] /\ u[2] <= req[h].qty}

Free == IF counter = Nil THEN 0 ELSE counter

(* What the counter still offers, with what is promised, stays within the
   stock, through lost replies, failed inserts and their compensation, Redis
   restarts, expired keys, repeated cancellations and stock changes that
   overlap: until the first fallback grant, quantity decrease, unacknowledged
   commit, lost reduction, edit that overwrites an increase it has not read, or
   reconciling SET, each of which can really break it. *)
CounterBacksHolds == clean => Cardinality(HeldUnits) + Free + adjust <= total

(* services/inventory_service.py on release_inventory: "Returns inventory back
   to the pool when a reservation expires or is cancelled." *)
UnitsComeBack ==
    [][\A c \in calls : \A r \in Reservations :
        c.key = RowKey(r) /\ counter # Nil /\ Release(c) => counter' = counter + c.qty]_vars

(* Every step on the rows is a step of Orders. *)
ImplementsOrders == O!Spec

-----------------------------------------------------------------------------
(* The inductive invariant behind CounterBacksHolds. *)

(* The units the counter has been charged for and will not get back: those of
   rows and orders, dead ones too, which a payment can revive, those the
   consumer still holds as a number it has read, and those of requests past
   their grant, or past the script of a quantity change. *)
ChargedUnits ==
    {u \in Reservations \X Quantity :
        \/ u[2] <= rqty[u[1]] \/ u[2] <= oqty[u[1]]
        \/ cons # O!NoJob /\ cons.res = u[1] /\ u[2] <= cons.qty
        \/ \E h \in Handlers :
             /\ req[h] # O!Idle /\ req[h].res = u[1]
             /\ \/ req[h].op = "granted" /\ u[2] <= req[h].qty
                \/ req[h].op = "modifying" /\ u[2] <= req[h].qty - shift[h]}

(* The units that a release call will return. *)
ReturningUnits == {p \in calls \X Quantity : p[1].key \in keys /\ p[2] <= p[1].qty}

CounterCovers ==
    clean => Cardinality(ChargedUnits) + Cardinality(ReturningUnits) + Free + adjust <= total

(* An attempt to reserve that is being made has no release call. *)
Making(h) == \E op \in {"asked", "checked", "granted"} : O!Doing(h, op)

NoEarlyRelease == \A h \in Handlers : Making(h) => ~Releasing(h)

(* What does not exist has no units. *)
RowsEmpty ==
    \A r \in Reservations : /\ rstatus[r] = "none" => rqty[r] = 0
                            /\ ostatus[r] = "none" => oqty[r] = 0

StockIInv ==
    /\ TypeOK /\ IsFiniteSet(calls)
    /\ NoEarlyRelease /\ RowsEmpty /\ CounterCovers
=============================================================================
