------------------------------ MODULE Recovery ------------------------------
(***************************************************************************)
(* What makes a reservation repeatable, beside the rows of module Orders:  *)
(* its idempotency key, a UNIQUE column that is looked up before anything  *)
(* else, and the recovery window, a Redis key that names the reservation   *)
(* a user may make again (POST /reservations/recover).  A recovery is a    *)
(* reservation under a key that names the one it replaces.                 *)
(*                                                                         *)
(* The window is opened after the row is committed and deleted after a     *)
(* recovery has made its row, when it already names that row: a recovered  *)
(* reservation has a window only if the deletion is lost.  The key's       *)
(* time-to-live starts with the reservation and a quantity change does not *)
(* extend it, so it can pass before or after the reservation is over.      *)
(* Every step on the rows is one of Orders.                                *)
(***************************************************************************)
EXTENDS Orders

CONSTANTS Keys,  \* idempotency keys that clients draw
          Nil    \* no key, no window

(* The frontend draws UUIDs, and a recovery's key is no UUID.  Nothing enforces
   it: the API takes any text as a key. *)
ASSUME RecoveryAssumption == Keys \cap {<<"recovery", r>> : r \in Reservations} = {}

VARIABLES
    key,     \* reservations.idempotency_key
    window,  \* recovery:{user}:{sale}, for each user
    task,    \* what each handler does besides its rows
    revoked  \* history: users of paid orders that became unpaid

recoveryVars == <<vars, key, window, task, revoked>>

-----------------------------------------------------------------------------
RecoveryKey(r) == <<"recovery", r>>
RecoveryKeys == {RecoveryKey(r) : r \in Reservations}

NoTask == [step |-> "none"]

Tasks ==
    [step : {"ask", "make"}, user : Users, key : Keys \cup RecoveryKeys, qty : Quantity,
     late : BOOLEAN]  \* the user had a paid order when the request came
    \cup [step : {"open"}, res : Reservations, qty : Quantity]
    \cup [step : {"close"}, user : Users]

RecoveryTypeOK ==
    /\ key \in [Reservations -> Keys \cup RecoveryKeys \cup {Nil}]
    /\ window \in [Users -> [res : Reservations, qty : Quantity] \cup {Nil}]
    /\ task \in [Handlers -> Tasks \cup {NoTask}]
    /\ revoked \subseteq Users

RecoveryInit ==
    /\ Init
    /\ key = [r \in Reservations |-> Nil]
    /\ window = [u \in Users |-> Nil]
    /\ task = [h \in Handlers |-> NoTask]
    /\ revoked = {}

Free(h) == req[h] = Idle /\ task[h] = NoTask

On(h, step) == task[h].step = step

Give(h, t) == task' = [task EXCEPT ![h] = t]

(* A row has the key. *)
Taken(k) == \E r \in Reservations : key[r] = k

Buyer(u) == \E r \in Reservations : Owner[r] = u /\ ostatus[r] = "paid"

-----------------------------------------------------------------------------
(* create_reservation, step 1: no row has the key.  (A request whose key is
   taken is answered with the row, and ends.) *)
BeginReserve(h, u, k, q) ==
    /\ Free(h)
    /\ ~Taken(k)
    /\ Give(h, [step |-> "make", user |-> u, key |-> k, qty |-> q, late |-> Buyer(u)])
    /\ UNCHANGED <<vars, key, window, revoked>>

(* recover_reservation reads the window. *)
BeginRecover(h, u) ==
    /\ Free(h)
    /\ window[u] # Nil
    /\ Give(h, [step |-> "ask", user |-> u, key |-> RecoveryKey(window[u].res),
                qty |-> window[u].qty, late |-> Buyer(u)])
    /\ UNCHANGED <<vars, key, window, revoked>>

(* step 1 again, for the reservation that the recovery makes *)
AskRecovered(h) ==
    /\ On(h, "ask")
    /\ Give(h, IF Taken(task[h].key) THEN [step |-> "close", user |-> task[h].user]
                                     ELSE [task[h] EXCEPT !.step = "make"])
    /\ UNCHANGED <<vars, key, window, revoked>>

(* Mutant: nobody asks for paid orders. *)
CheckBuyer_Never(h, r) ==
    /\ On(h, "make")
    /\ Owner[r] = task[h].user
    /\ rstatus[r] = "none"
    /\ \A k \in Handlers : req[k] # Idle => req[k].res # r
    /\ Begin(h, "asked", r, task[h].qty)
    /\ UNCHANGED <<rstatus, rqty, due, ostatus, oqty, inventory, queue, cons>>
    /\ UNCHANGED <<key, window, task, revoked>>

(* step 2: the user has no paid order, *)
CheckBuyer(h, r) ==
    /\ On(h, "make")
    /\ Owner[r] = task[h].user
    /\ CheckPaid(h, r, task[h].qty)
    /\ UNCHANGED <<key, window, task, revoked>>

(* and no live reservation. *)
CheckUser(h) ==
    /\ On(h, "make")
    /\ CheckActive(h)
    /\ UNCHANGED <<key, window, task, revoked>>

GrantUnits(h) ==
    /\ On(h, "make")
    /\ GrantByRedis(h) \/ GrantByFallback(h)
    /\ UNCHANGED <<key, window, task, revoked>>

(* Mutant: the column is not UNIQUE. *)
Persist_NotUnique(h) ==
    LET r == req[h].res IN
    /\ On(h, "make")
    /\ Insert(h)
    /\ key' = [key EXCEPT ![r] = task[h].key]
    /\ Give(h, [step |-> "open", res |-> r, qty |-> task[h].qty])
    /\ UNCHANGED <<window, revoked>>

(* step 7 *)
Persist(h) ==
    LET r == req[h].res IN
    /\ On(h, "make")
    /\ ~Taken(task[h].key)
    /\ Insert(h)
    /\ key' = [key EXCEPT ![r] = task[h].key]
    /\ Give(h, [step |-> "open", res |-> r, qty |-> task[h].qty])
    /\ UNCHANGED <<window, revoked>>

(* Mutant: the window does not say how many units were reserved. *)
OpenWindow_NoQuantity(h) ==
    LET r == task[h].res
        u == Owner[r]
    IN
    /\ On(h, "open")
    /\ \/ window' = [window EXCEPT ![u] = [res |-> r]]
       \/ UNCHANGED window
    /\ Give(h, IF key[r] \in RecoveryKeys THEN [step |-> "close", user |-> u] ELSE NoTask)
    /\ UNCHANGED <<vars, key, revoked>>

(* step 8: the window is opened, unless the user's score allows none or Redis
   raises.  A recovery goes on to delete the key. *)
OpenWindow(h) ==
    LET r == task[h].res
        u == Owner[r]
    IN
    /\ On(h, "open")
    /\ \/ window' = [window EXCEPT ![u] = [res |-> r, qty |-> task[h].qty]]
       \/ UNCHANGED window
    /\ Give(h, IF key[r] \in RecoveryKeys THEN [step |-> "close", user |-> u] ELSE NoTask)
    /\ UNCHANGED <<vars, key, revoked>>

(* recover_reservation deletes the key, whatever it holds by now. *)
CloseWindow(h) ==
    /\ On(h, "close")
    /\ window' = [window EXCEPT ![task[h].user] = Nil]
    /\ Give(h, NoTask)
    /\ UNCHANGED <<vars, key, revoked>>

(* A request is refused, a statement or Redis raises, or the process dies:
   what is committed stays, and the window is left as it is. *)
Abandon(h) ==
    /\ task[h] # NoTask
    /\ IF req[h] = Idle THEN UNCHANGED vars ELSE Drop(h)
    /\ Give(h, NoTask)
    /\ UNCHANGED <<key, window, revoked>>

(* The time-to-live passes, or Redis restarts. *)
WindowLost ==
    /\ window' \in {[window EXCEPT ![u] = Nil] : u \in Users} \cup {[u \in Users |-> Nil]}
    /\ window' # window
    /\ UNCHANGED <<vars, key, task, revoked>>

(* The steps of Orders that make no reservation.  A cancellation may overwrite
   a paid order. *)
OtherSteps ==
    /\ \/ \E h \in Handlers : task[h] = NoTask /\ (Ordering(h) \/ Drop(h))
       \/ \E r \in Reservations : Publish(r) \/ Lapse(r) \/ Expire(r)
       \/ Consumer
       \/ \E t \in Totals : SetTotal(t)
    /\ revoked' = revoked \cup
            {Owner[r] : r \in {s \in Reservations : ostatus[s] = "paid" /\ ostatus'[s] # "paid"}}
    /\ UNCHANGED <<key, window, task>>

Repeating(h) ==
    \/ \E u \in Users :
        BeginRecover(h, u) \/ \E k \in Keys, q \in Quantity : BeginReserve(h, u, k, q)
    \/ AskRecovered(h)
    \/ \E r \in Reservations : CheckBuyer(h, r)
    \/ CheckUser(h) \/ GrantUnits(h) \/ Persist(h) \/ OpenWindow(h) \/ CloseWindow(h) \/ Abandon(h)

RecoveryNext == (\E h \in Handlers : Repeating(h)) \/ WindowLost \/ OtherSteps

RecoverySpec == RecoveryInit /\ [][RecoveryNext]_recoveryVars

-----------------------------------------------------------------------------
(* The request of h makes its row in this step. *)
Makes(h) == On(h, "make") /\ task'[h].step = "open"

(* However often a key is sent, and however its requests overlap, are cut short
   or outlive the reservation that was made, one row has it: a reservation is
   recovered at most once, although its window may stay open. *)
OneRowPerKey == \A r, s \in Reservations : key[r] = key[s] /\ key[r] # Nil => r = s

(* A recovery replaces a reservation that is over: it makes no row while
   the old one is live, also when a late payment has brought it back since
   the recovery began. *)
RecoversTheDead ==
    [][\A h \in Handlers, r \in Reservations :
        Makes(h) /\ task[h].key = RecoveryKey(r) => rstatus[r] \notin Active]_recoveryVars

(* A reservation or recovery sent after its user has bought makes no row, under
   whatever key, also once the paid reservation has expired: one purchase for
   a user, but for requests that overlap the purchase, and for a paid order that a
   cancellation has overwritten. *)
BuyerReservesNothing ==
    [][\A h \in Handlers : Makes(h) /\ task[h].late => task[h].user \in revoked]_recoveryVars
=============================================================================
