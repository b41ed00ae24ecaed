------------------------------ MODULE Payments ------------------------------
(***************************************************************************)
(* The answers to payments that Redis keeps (utils/idempotency.py), beside *)
(* the rows of module Orders.  pay_order asks Redis first, then reads the  *)
(* order, commits, and only then stores its answer: four steps, between    *)
(* which anything else happens, and after each of which it can be cut      *)
(* short.  The answers go when their time-to-live passes or Redis          *)
(* restarts.  Every step on the rows is one of Orders.                     *)
(*                                                                         *)
(* The key is made of the user, the order and the last digits of the card, *)
(* for which Cards stands (the amount that the comment names is not in     *)
(* it); an order has one user.                                             *)
(***************************************************************************)
EXTENDS Orders

CONSTANT Cards  \* last four digits of a card

VARIABLES
    results,  \* payments whose answer a pay_idem key holds
    pay,      \* what pay_order does on each handler besides its rows
    undone    \* history: paid orders that a cancellation has overwritten

paymentVars == <<vars, results, pay, undone>>

-----------------------------------------------------------------------------
NoPay == [step |-> "none"]

Pays == [step : {"asked", "store"}, res : Reservations, card : Cards,
         late : BOOLEAN]  \* the order was paid when Redis was asked

PaymentsTypeOK ==
    /\ results \subseteq Reservations \X Cards
    /\ pay \in [Handlers -> Pays \cup {NoPay}]
    /\ undone \subseteq Reservations

PaymentsInit ==
    /\ Init
    /\ results = {}
    /\ pay = [h \in Handlers |-> NoPay]
    /\ undone = {}

At(h, step) == pay[h].step = step

(* check_idempotency finds no answer, or Redis raises, which counts as none:
   so a payment may go on whatever results holds.  (An answer that is found is
   returned, and nothing else happens.) *)
Ask(h, r, c) ==
    /\ req[h] = Idle /\ pay[h] = NoPay
    /\ ostatus[r] # "none"
    /\ pay' = [pay EXCEPT ![h] = [step |-> "asked", res |-> r, card |-> c,
                                  late |-> ostatus[r] = "paid"]]
    /\ UNCHANGED <<vars, results, undone>>

(* Mutant: the answer alone decides, not the row. *)
ReadOrder_AnyStatus(h) ==
    LET r == pay[h].res IN
    /\ At(h, "asked")
    /\ ~due[r]
    /\ Begin(h, "paying", r, oqty[r])
    /\ UNCHANGED <<rstatus, rqty, due, ostatus, oqty, inventory, queue, cons>>
    /\ UNCHANGED <<results, pay, undone>>

ReadOrder(h) ==
    /\ At(h, "asked")
    /\ BeginPay(h, pay[h].res)
    /\ UNCHANGED <<results, pay, undone>>

Commit(h) ==
    /\ At(h, "asked")
    /\ CommitPay(h)
    /\ pay' = [pay EXCEPT ![h].step = "store"]
    /\ UNCHANGED <<results, undone>>

(* Mutant: the key is that of the order alone. *)
Store_NoCard(h) ==
    /\ At(h, "store")
    /\ results' = results \cup {<<pay[h].res>>}
    /\ pay' = [pay EXCEPT ![h] = NoPay]
    /\ UNCHANGED <<vars, undone>>

(* store_idempotency_result *)
Store(h) ==
    /\ At(h, "store")
    /\ results' = results \cup {<<pay[h].res, pay[h].card>>}
    /\ pay' = [pay EXCEPT ![h] = NoPay]
    /\ UNCHANGED <<vars, undone>>

(* Mutant: the answer is stored however the payment ends. *)
Fail_Stores(h) ==
    /\ pay[h] # NoPay
    /\ IF req[h] = Idle THEN UNCHANGED vars ELSE Drop(h)
    /\ results' = results \cup {<<pay[h].res, pay[h].card>>}
    /\ pay' = [pay EXCEPT ![h] = NoPay]
    /\ UNCHANGED undone

(* The payment is refused, a statement raises, Redis raises when the answer is
   to be stored, or the process dies. *)
Fail(h) ==
    /\ pay[h] # NoPay
    /\ IF req[h] = Idle THEN UNCHANGED vars ELSE Drop(h)
    /\ pay' = [pay EXCEPT ![h] = NoPay]
    /\ UNCHANGED <<results, undone>>

(* The 24 hours of an answer pass, or Redis restarts. *)
Forget ==
    /\ \/ \E a \in results : results' = results \ {a}
       \/ results # {} /\ results' = {}
    /\ UNCHANGED <<vars, pay, undone>>

Cancel(h) ==
    LET r == req[h].res IN
    /\ CommitCancel(h)
    /\ undone' = IF ostatus[r] = "paid" THEN undone \cup {r} ELSE undone
    /\ UNCHANGED <<results, pay>>

(* The other steps of Orders *)
RowsOnly ==
    /\ \/ \E h \in Handlers :
            /\ pay[h] = NoPay
            /\ \/ Reserving(h) \/ Drop(h) \/ CommitModify(h)
               \/ \E r \in Reservations :
                    BeginCancel(h, r) \/ \E q \in Quantity : BeginModify(h, r, q)
       \/ \E r \in Reservations : Publish(r) \/ Lapse(r) \/ Expire(r)
       \/ Consumer
       \/ \E t \in Totals : SetTotal(t)
    /\ UNCHANGED <<results, pay, undone>>

Paying(h) ==
    \/ \E r \in Reservations, c \in Cards : Ask(h, r, c)
    \/ ReadOrder(h) \/ Commit(h) \/ Store(h) \/ Fail(h)

PaymentsNext ==
    \/ \E h \in Handlers : Paying(h) \/ Cancel(h)
    \/ Forget
    \/ RowsOnly

PaymentsSpec == PaymentsInit /\ [][PaymentsNext]_paymentVars

-----------------------------------------------------------------------------
(* The payments that Redis remembers, or is about to, as successful. *)
Answers ==
    results \cup {<<pay[h].res, pay[h].card>> : h \in {k \in Handlers : At(k, "store")}}

(* Whoever repeats a payment that was answered "Payment successful" is told the
   truth: the order is paid, whatever expiry, the consumer, other payments and
   lost answers have done since.  The exception the code leaves is a
   cancellation that had read the order before the payment committed. *)
AnswerStands == \A a \in Answers : ostatus[a[1]] = "paid" \/ a[1] \in undone

(* A payment sent when its order was paid, with whatever card, and whether Redis
   remembers, has lost, or never learnt the answer, books nothing: unless a
   cancellation has overwritten the paid order. *)
RepeatBooksNothing ==
    [][\A h \in Handlers :
        At(h, "asked") /\ pay'[h].step = "store" /\ pay[h].late => pay[h].res \in undone]_paymentVars

=============================================================================
