------------------------------- MODULE Orders -------------------------------
(***************************************************************************)
(* The reservation, order and inventory rows of one sale in PostgreSQL,    *)
(* and everything that writes them: the API handlers that reserve, change  *)
(* a quantity, pay and cancel (services/reservation_service.py,            *)
(* routers/reservations.py, routers/orders.py), the order consumer, the    *)
(* expiry worker and the administrator's stock changes.                    *)
(*                                                                         *)
(* A handler reads, awaits, and commits later: between its steps any other *)
(* handler or worker runs.  A request in flight is a record in req, held   *)
(* from the read that admitted it to the transaction that ends it.  One    *)
(* SQL statement, or one transaction block, is one action.                 *)
(*                                                                         *)
(* Time enters only as due[r]: expires_at has passed.  The window depends  *)
(* on the user's score, so it may pass at any moment.  Redis enters only   *)
(* as the choice between its grant, which touches no row, and the          *)
(* PostgreSQL fallback: nothing below relies on the counter being right.   *)
(* The order of a reservation is named by the reservation, which           *)
(* orders.reservation_id UNIQUE justifies.                                 *)
(***************************************************************************)
EXTENDS Integers, FiniteSets

CONSTANTS Users,
          Reservations,  \* ids the database may generate
          Owner,         \* Owner[r]: the user reservation r is created for
          Handlers,      \* API requests that can be in flight at once
          MaxQuantity,   \* most units of a reservation (10 in schemas.py)
          Totals,        \* stock levels an administrator may set
          MaxCopies      \* bound: copies of one event in the broker queue

ASSUME OrdersAssumption ==
    /\ IsFiniteSet(Reservations)
    /\ Owner \in [Reservations -> Users]
    /\ MaxQuantity \in Nat
    /\ Totals \subseteq Nat
    /\ MaxCopies \in Nat

VARIABLES
    rstatus,   \* reservations.status, "none" before the row exists
    rqty,      \* reservations.quantity
    due,       \* reservations.expires_at < NOW()
    ostatus,   \* orders.status, "none" before the row exists
    oqty,      \* orders.quantity
    total, reserved, sold,  \* the sale's inventory row
    queue,     \* copies of each order.created event in fluxkart.orders
    cons,      \* the message the consumer is working on, or NoJob
    req        \* the request each handler is working on, or Idle

inventory == <<total, reserved, sold>>
vars == <<rstatus, rqty, due, ostatus, oqty, inventory, queue, cons, req>>

-----------------------------------------------------------------------------
Quantity == 1..MaxQuantity
Active == {"pending", "confirmed"}

Idle == [op |-> "idle"]
NoJob == [step |-> "none"]

Requests ==
    [op : {"asked", "checked", "granted", "paying", "cancelling", "modifying"},
     res : Reservations, qty : Quantity]
Jobs == [step : {"create", "confirm", "count"}, res : Reservations, qty : Quantity]

TypeOK ==
    /\ rstatus \in [Reservations -> {"none", "pending", "confirmed", "expired", "cancelled"}]
    /\ rqty \in [Reservations -> 0..MaxQuantity]
    /\ due \in [Reservations -> BOOLEAN]
    /\ ostatus \in [Reservations -> {"none", "pending", "paid", "failed"}]
    /\ oqty \in [Reservations -> 0..MaxQuantity]
    /\ total \in Nat /\ reserved \in Nat /\ sold \in Nat
    /\ queue \in [Reservations -> Nat]
    /\ cons \in Jobs \cup {NoJob}
    /\ req \in [Handlers -> Requests \cup {Idle}]

Init ==
    /\ rstatus = [r \in Reservations |-> "none"]
    /\ rqty = [r \in Reservations |-> 0]
    /\ due = [r \in Reservations |-> FALSE]
    /\ ostatus = [r \in Reservations |-> "none"]
    /\ oqty = [r \in Reservations |-> 0]
    /\ total \in Totals /\ reserved = 0 /\ sold = 0
    /\ queue = [r \in Reservations |-> 0]
    /\ cons = NoJob
    /\ req = [h \in Handlers |-> Idle]

(* Mutant: the subtraction without its floor. *)
LessReserved_NoFloor(n) == reserved - n

(* GREATEST(0, reserved_quantity - n) *)
LessReserved(n) == IF reserved >= n THEN reserved - n ELSE 0

(* Mutant: the row constraint forgets what is sold. *)
RowFits_ReservedOnly(res, sol) == res <= total

(* chk_quantities_valid on the row a statement is about to write *)
RowFits(res, sol) == res + sol <= total

(* Mutant: the partial index covers pending rows only. *)
IndexAllows_PendingOnly(r) ==
    \A s \in Reservations \ {r} : Owner[s] = Owner[r] => rstatus[s] # "pending"

(* No other active row of the same user: uq_one_active_reservation_per_user_sale
   lets a row of r become, or stay, active. *)
IndexAllows(r) ==
    \A s \in Reservations \ {r} : Owner[s] = Owner[r] => rstatus[s] \notin Active

Begin(h, op, r, q) ==
    /\ req[h] = Idle
    /\ req' = [req EXCEPT ![h] = [op |-> op, res |-> r, qty |-> q]]

End(h) == req' = [req EXCEPT ![h] = Idle]

Doing(h, op) == req[h] # Idle /\ req[h].op = op

(* A request ends without writing a row: it is refused, a statement raises,
   or its process dies. *)
Drop(h) ==
    /\ req[h] # Idle
    /\ End(h)
    /\ UNCHANGED <<rstatus, rqty, due, ostatus, oqty, inventory, queue, cons>>

-----------------------------------------------------------------------------
(* create_reservation: the one-per-user checks, read before any lock and in two
   statements, first the paid orders of the user *)
CheckPaid(h, r, q) ==
    /\ rstatus[r] = "none"
    /\ \A k \in Handlers : req[k] # Idle => req[k].res # r
    /\ \A s \in Reservations : Owner[s] = Owner[r] => ostatus[s] # "paid"
    /\ Begin(h, "asked", r, q)
    /\ UNCHANGED <<rstatus, rqty, due, ostatus, oqty, inventory, queue, cons>>

(* then the user's live rows *)
CheckActive(h) ==
    /\ Doing(h, "asked")
    /\ IndexAllows(req[h].res)
    /\ req' = [req EXCEPT ![h].op = "checked"]
    /\ UNCHANGED <<rstatus, rqty, due, ostatus, oqty, inventory, queue, cons>>

(* The Lua script granted the units. *)
GrantByRedis(h) ==
    /\ Doing(h, "checked")
    /\ req' = [req EXCEPT ![h].op = "granted"]
    /\ UNCHANGED <<rstatus, rqty, due, ostatus, oqty, inventory, queue, cons>>

(* Redis raised, and the inventory row was locked and charged instead. *)
GrantByFallback(h) ==
    /\ Doing(h, "checked")
    /\ req[h].qty <= total - reserved - sold
    /\ reserved' = reserved + req[h].qty
    /\ req' = [req EXCEPT ![h].op = "granted"]
    /\ UNCHANGED <<rstatus, rqty, due, ostatus, oqty, total, sold, queue, cons>>

(* The reservation and its outbox event, in one transaction. *)
Insert(h) ==
    LET r == req[h].res IN
    /\ Doing(h, "granted")
    /\ IndexAllows(r)
    /\ rstatus' = [rstatus EXCEPT ![r] = "pending"]
    /\ rqty' = [rqty EXCEPT ![r] = req[h].qty]
    /\ End(h)
    /\ UNCHANGED <<due, ostatus, oqty, inventory, queue, cons>>

(* A copy of the event reaches the queue: from the handler's direct publish
   or from the outbox worker, which may send it again (module Delivery). *)
Publish(r) ==
    /\ rstatus[r] # "none"
    /\ queue[r] < MaxCopies
    /\ queue' = [queue EXCEPT ![r] = @ + 1]
    /\ UNCHANGED <<rstatus, rqty, due, ostatus, oqty, inventory, cons, req>>

-----------------------------------------------------------------------------
(* modify_reservation_quantity *)
BeginModify(h, r, q) ==
    /\ rstatus[r] = "pending"
    /\ q # rqty[r]
    /\ Begin(h, "modifying", r, q)
    /\ UNCHANGED <<rstatus, rqty, due, ostatus, oqty, inventory, queue, cons>>

CommitModify(h) ==
    LET r == req[h].res IN
    /\ Doing(h, "modifying")
    /\ rstatus[r] = "pending"
    /\ rqty' = [rqty EXCEPT ![r] = req[h].qty]
    /\ due' = [due EXCEPT ![r] = FALSE]
    /\ End(h)
    /\ UNCHANGED <<rstatus, ostatus, oqty, inventory, queue, cons>>

(* Mutant: the payment takes its quantity from the reservation. *)
BeginPay_ReservedQuantity(h, r) ==
    /\ ostatus[r] \notin {"none", "paid"}
    /\ ~due[r]
    /\ Begin(h, "paying", r, rqty[r])
    /\ UNCHANGED <<rstatus, rqty, due, ostatus, oqty, inventory, queue, cons>>

(* pay_order: the checks on the row as it was read *)
BeginPay(h, r) ==
    /\ ostatus[r] \notin {"none", "paid"}
    /\ ~due[r]
    /\ Begin(h, "paying", r, oqty[r])
    /\ UNCHANGED <<rstatus, rqty, due, ostatus, oqty, inventory, queue, cons>>

(* Mutant: the inventory statement only releases the hold. *)
CommitPay_NotBooked(h) ==
    LET r == req[h].res IN
    /\ Doing(h, "paying")
    /\ IndexAllows(r)
    /\ ostatus' = [ostatus EXCEPT ![r] = "paid"]
    /\ rstatus' = [rstatus EXCEPT ![r] = "confirmed"]
    /\ reserved' = LessReserved(req[h].qty)
    /\ End(h)
    /\ UNCHANGED <<rqty, due, oqty, total, sold, queue, cons>>

(* The payment transaction.  The index and the row constraint can still
   refuse it, in which case it rolls back and the request is dropped. *)
CommitPay(h) ==
    LET r == req[h].res
        q == req[h].qty
    IN
    /\ Doing(h, "paying")
    /\ IndexAllows(r)
    /\ RowFits(LessReserved(q), sold + q)
    /\ ostatus' = [ostatus EXCEPT ![r] = "paid"]
    /\ rstatus' = [rstatus EXCEPT ![r] = "confirmed"]
    /\ sold' = sold + q
    /\ reserved' = LessReserved(q)
    /\ End(h)
    /\ UNCHANGED <<rqty, due, oqty, total, queue, cons>>

(* cancel_order *)
BeginCancel(h, r) ==
    /\ ostatus[r] \notin {"none", "paid"}
    /\ Begin(h, "cancelling", r, oqty[r])
    /\ UNCHANGED <<rstatus, rqty, due, ostatus, oqty, inventory, queue, cons>>

CommitCancel(h) ==
    LET r == req[h].res IN
    /\ Doing(h, "cancelling")
    /\ ostatus' = [ostatus EXCEPT ![r] = "failed"]
    /\ rstatus' = [rstatus EXCEPT ![r] = "cancelled"]
    /\ reserved' = LessReserved(req[h].qty)
    /\ End(h)
    /\ UNCHANGED <<rqty, due, oqty, total, sold, queue, cons>>

-----------------------------------------------------------------------------
(* process_order_message.  The message stays in the queue, unacknowledged,
   while the consumer works on it. *)
Settle(r) ==
    /\ queue' = [queue EXCEPT ![r] = @ - 1]
    /\ cons' = NoJob

(* Mutant: the reservation is confirmed before its order is created. *)
Fetch_ConfirmFirst(r) ==
    /\ cons = NoJob
    /\ queue[r] > 0
    /\ cons' = [step |-> "confirm", res |-> r, qty |-> rqty[r]]
    /\ UNCHANGED <<rstatus, rqty, due, ostatus, oqty, inventory, queue, req>>

Fetch(r) ==
    /\ cons = NoJob
    /\ queue[r] > 0
    /\ IF rstatus[r] = "pending"
         THEN /\ cons' = [step |-> "create", res |-> r, qty |-> rqty[r]]
              /\ UNCHANGED queue
         ELSE Settle(r)
    /\ UNCHANGED <<rstatus, rqty, due, ostatus, oqty, inventory, req>>

CreateOrder ==
    /\ cons # NoJob /\ cons.step = "create"
    /\ ostatus[cons.res] = "none"
    /\ ostatus' = [ostatus EXCEPT ![cons.res] = "pending"]
    /\ oqty' = [oqty EXCEPT ![cons.res] = cons.qty]
    /\ cons' = [cons EXCEPT !.step = "confirm"]
    /\ UNCHANGED <<rstatus, rqty, due, inventory, queue, req>>

(* Mutant: the UPDATE without its status condition. *)
Confirm_Unguarded ==
    /\ cons # NoJob /\ cons.step = "confirm"
    /\ rstatus' = [rstatus EXCEPT ![cons.res] = "confirmed"]
    /\ cons' = [cons EXCEPT !.step = "count"]
    /\ UNCHANGED <<rqty, due, ostatus, oqty, inventory, queue, req>>

(* UPDATE ... WHERE status = 'pending': no row, no error *)
Confirm ==
    LET r == cons.res IN
    /\ cons # NoJob /\ cons.step = "confirm"
    /\ rstatus' = IF rstatus[r] = "pending"
                    THEN [rstatus EXCEPT ![r] = "confirmed"] ELSE rstatus
    /\ cons' = [cons EXCEPT !.step = "count"]
    /\ UNCHANGED <<rqty, due, ostatus, oqty, inventory, queue, req>>

CountReserved ==
    /\ cons # NoJob /\ cons.step = "count"
    /\ RowFits(reserved + cons.qty, sold)
    /\ reserved' = reserved + cons.qty
    /\ Settle(cons.res)
    /\ UNCHANGED <<rstatus, rqty, due, ostatus, oqty, total, sold, req>>

(* A statement raised (a second order of the reservation, the row
   constraint, a lost connection): the message is rejected. *)
Reject ==
    /\ cons # NoJob
    /\ Settle(cons.res)
    /\ UNCHANGED <<rstatus, rqty, due, ostatus, oqty, inventory, req>>

(* The worker process dies; the broker delivers the message again. *)
ConsumerCrash ==
    /\ cons # NoJob
    /\ cons' = NoJob
    /\ UNCHANGED <<rstatus, rqty, due, ostatus, oqty, inventory, queue, req>>

-----------------------------------------------------------------------------
(* expires_at passes *)
Lapse(r) ==
    /\ rstatus[r] # "none" /\ ~due[r]
    /\ due' = [due EXCEPT ![r] = TRUE]
    /\ UNCHANGED <<rstatus, rqty, ostatus, oqty, inventory, queue, cons, req>>

(* _expire_batch.  FOR UPDATE SKIP LOCKED and the batch limit let a batch be
   any set of overdue rows, and its one GREATEST(0, reserved - sum) equals
   taking the rows one after the other: a batch is a run of these steps. *)
Expire(r) ==
    /\ rstatus[r] \in Active /\ due[r]
    /\ rstatus' = [rstatus EXCEPT ![r] = "expired"]
    /\ ostatus' = IF ostatus[r] \in {"none", "paid"}
                    THEN ostatus ELSE [ostatus EXCEPT ![r] = "failed"]
    /\ reserved' = LessReserved(rqty[r])
    /\ UNCHANGED <<rqty, due, oqty, total, sold, queue, cons, req>>

(* edit_sale and adjust_inventory: only the row constraint guards the stock. *)
SetTotal(t) ==
    /\ reserved + sold <= t
    /\ total' = t
    /\ UNCHANGED <<rstatus, rqty, due, ostatus, oqty, reserved, sold, queue, cons, req>>

-----------------------------------------------------------------------------
Consumer ==
    \/ \E r \in Reservations : Fetch(r)
    \/ CreateOrder \/ Confirm \/ CountReserved \/ Reject \/ ConsumerCrash

Reserving(h) ==
    \/ \E r \in Reservations, q \in Quantity : CheckPaid(h, r, q)
    \/ CheckActive(h) \/ GrantByRedis(h) \/ GrantByFallback(h) \/ Insert(h)

Ordering(h) ==
    \/ \E r \in Reservations, q \in Quantity : BeginModify(h, r, q)
    \/ \E r \in Reservations : BeginPay(h, r) \/ BeginCancel(h, r)
    \/ CommitModify(h) \/ CommitPay(h) \/ CommitCancel(h)

Next ==
    \/ \E h \in Handlers : Reserving(h) \/ Ordering(h) \/ Drop(h)
    \/ \E r \in Reservations : Publish(r) \/ Lapse(r) \/ Expire(r)
    \/ Consumer
    \/ \E t \in Totals : SetTotal(t)

Spec == Init /\ [][Next]_vars

-----------------------------------------------------------------------------
(* The units of the paid orders, one pair for each unit. *)
PaidUnits == {u \in Reservations \X Quantity : ostatus[u[1]] = "paid" /\ u[2] <= oqty[u[1]]}

(* The units of paid orders never exceed what the inventory row books as
   sold, nor that the stock: whatever Redis granted, and however payments,
   cancellations, expiry, stale reads and stock changes interleave. *)
NoOversell == Cardinality(PaidUnits) <= sold /\ sold <= total

(* A user has at most one live reservation of the sale, also when a payment
   brings a cancelled or expired one back while another was made. *)
OneActivePerUser ==
    \A r, s \in Reservations :
        r # s /\ Owner[r] = Owner[s] => ~(rstatus[r] \in Active /\ rstatus[s] \in Active)

(* A confirmed reservation has its order: a consumer that dies, or is
   redelivered a message, between its statements never confirms a hold that
   nobody can pay. *)
ConfirmedHasOrder ==
    \A r \in Reservations : rstatus[r] = "confirmed" => ostatus[r] # "none"

(* Only a payment revives an expired or cancelled reservation: the consumer
   and the quantity change, which decided on an earlier read, do not. *)
OnlyPaymentRevives ==
    [][\A r \in Reservations :
        rstatus[r] \in {"expired", "cancelled"} /\ rstatus'[r] \in Active
            => ostatus'[r] = "paid" /\ sold' = sold + oqty[r]]_vars

(* utils/idempotency.py: "only one charge is processed".  No order's units
   are booked more than once. *)
ChargedOnce ==
    sold <= Cardinality({u \in Reservations \X Quantity : u[2] <= oqty[u[1]]})

-----------------------------------------------------------------------------
(* The inductive invariant behind the theorems of OrdersProofs. *)

(* Rows that exist have units, and an order has its reservation. *)
RowsFilled ==
    \A r \in Reservations :
        /\ rstatus[r] # "none" => rqty[r] \in Quantity
        /\ ostatus[r] # "none" => rstatus[r] # "none" /\ oqty[r] \in Quantity

(* The consumer's message is still in the queue, and past its first
   statement the order exists. *)
JobCurrent ==
    cons # NoJob => /\ queue[cons.res] > 0
                    /\ rstatus[cons.res] # "none"
                    /\ cons.step # "create" => ostatus[cons.res] # "none"

(* A payment or a cancellation in flight works on an order that exists, and
   the quantity it read is still the order's; a reservation being made has
   no row yet and no other request. *)
RequestsCurrent ==
    \A h \in Handlers : req[h] # Idle =>
        /\ req[h].op \in {"paying", "cancelling"} =>
               ostatus[req[h].res] # "none" /\ req[h].qty = oqty[req[h].res]
        /\ req[h].op \in {"asked", "checked", "granted"} =>
               /\ rstatus[req[h].res] = "none"
               /\ \A k \in Handlers \ {h} : req[k] # Idle => req[k].res # req[h].res

IInv ==
    /\ TypeOK /\ RowsFilled /\ JobCurrent /\ RequestsCurrent
    /\ reserved + sold <= total
    /\ NoOversell /\ OneActivePerUser /\ ConfirmedHasOrder

-----------------------------------------------------------------------------
(* The rows implement the abstract promise. *)
Sale == INSTANCE FlashSale WITH
    bought <- [r \in Reservations |-> IF ostatus[r] = "paid" THEN oqty[r] ELSE 0]

ImplementsFlashSale == Sale!Spec
=============================================================================
