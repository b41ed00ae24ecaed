---------------------------- MODULE RepeatProofs ----------------------------
(* Theorems about what is sent twice: the payments of Payments and the
   reservations of Recovery, each beside the rows of Orders, for every value of
   the constants. *)
EXTENDS Payments, Recovery, OrdersProofs

-----------------------------------------------------------------------------
(* Payments *)

(* What the payment of a handler, held through its steps, still knows: its order,
   whose payment it is about to commit; and, when that order was paid when Redis
   was asked, that it still is, or that a cancellation has overwritten it. *)
PaysCurrent ==
    \A h \in Handlers :
        /\ At(h, "store") => req[h] = Idle
        /\ At(h, "asked") /\ req[h] # Idle =>
               /\ req[h].op = "paying" /\ req[h].res = pay[h].res
               /\ pay[h].late => pay[h].res \in undone
        /\ At(h, "asked") /\ pay[h].late =>
               ostatus[pay[h].res] = "paid" \/ pay[h].res \in undone

PaymentsIInv == WellFormed /\ PaymentsTypeOK /\ PaysCurrent /\ AnswerStands

-----------------------------------------------------------------------------
(* Every step is one of Orders, or leaves the rows alone. *)
LEMMA PaymentsRows == PaymentsTypeOK /\ [PaymentsNext]_paymentVars => [Next]_vars
<1> SUFFICES ASSUME PaymentsTypeOK, [PaymentsNext]_paymentVars PROVE Next \/ UNCHANGED vars
  OBVIOUS
<1>1. ASSUME NEW h \in Handlers, NEW r \in Reservations, NEW c \in Cards, Ask(h, r, c)
      PROVE UNCHANGED vars
  BY <1>1 DEF Ask
<1>2. ASSUME NEW h \in Handlers, ReadOrder(h) PROVE Next
  <2>1. pay[h].res \in Reservations
    BY <1>2 DEF ReadOrder, At, PaymentsTypeOK, Pays, NoPay
  <2> QED
    BY <1>2, <2>1 DEF ReadOrder, Next, Ordering
<1>3. ASSUME NEW h \in Handlers, Commit(h) PROVE Next
  BY <1>3 DEF Commit, Next, Ordering
<1>4. ASSUME NEW h \in Handlers, Store(h) PROVE UNCHANGED vars
  BY <1>4 DEF Store
<1>5. ASSUME NEW h \in Handlers, Fail(h) PROVE Next \/ UNCHANGED vars
  BY <1>5 DEF Fail, Next
<1>6. ASSUME NEW h \in Handlers, Cancel(h) PROVE Next
  BY <1>6 DEF Cancel, Next, Ordering
<1>7. CASE Forget
  BY <1>7 DEF Forget
<1>8. CASE RowsOnly
  BY <1>8 DEF RowsOnly, Next, Ordering, Reserving
<1>9. CASE UNCHANGED paymentVars
  BY <1>9 DEF paymentVars
<1> QED
  BY <1>1, <1>2, <1>3, <1>4, <1>5, <1>6, <1>7, <1>8, <1>9 DEF PaymentsNext, Paying

(* A step leaves a paid order paid, or it is a cancellation and is recorded. *)
LEMMA PaidOrUndone ==
    ASSUME WellFormed, PaymentsTypeOK, [PaymentsNext]_paymentVars,
           NEW r \in Reservations, ostatus[r] = "paid"
    PROVE  ostatus'[r] = "paid" \/ r \in undone'
<1> USE DEF WellFormed, TypeOK
<1>1. ASSUME NEW h \in Handlers, Commit(h) PROVE ostatus'[r] = "paid"
  BY <1>1 DEF Commit, CommitPay
<1>2. ASSUME NEW h \in Handlers, Cancel(h) PROVE ostatus'[r] = "paid" \/ r \in undone'
  BY <1>2 DEF Cancel, CommitCancel
<1>3. ASSUME NEW s \in Reservations, Expire(s) PROVE ostatus'[r] = "paid"
  BY <1>3 DEF Expire
<1>4. CASE CreateOrder
  BY <1>4 DEF CreateOrder
<1>5. CASE UNCHANGED ostatus
  BY <1>5
<1> QED
  BY <1>1, <1>2, <1>3, <1>4, <1>5 DEF PaymentsNext, Paying, Ask, ReadOrder, Store, Fail, Forget,
     RowsOnly, Reserving, Consumer, paymentVars, vars, CheckPaid, CheckActive, GrantByRedis, GrantByFallback,
     Insert, BeginModify, CommitModify, BeginPay, BeginCancel, Drop, Publish, Lapse, Fetch,
     Confirm, CountReserved, Reject, ConsumerCrash, SetTotal

LEMMA UndoneGrows == [PaymentsNext]_paymentVars => undone \subseteq undone'
  BY DEF PaymentsNext, Paying, Ask, ReadOrder, Commit, Store, Fail, Cancel, Forget, RowsOnly,
     paymentVars

LEMMA PaymentsTypes ==
    WellFormed /\ PaymentsTypeOK /\ [PaymentsNext]_paymentVars => PaymentsTypeOK'
<1> SUFFICES ASSUME WellFormed, PaymentsTypeOK, [PaymentsNext]_paymentVars PROVE PaymentsTypeOK'
  OBVIOUS
<1> USE DEF PaymentsTypeOK, Pays, NoPay, At
<1>1. ASSUME NEW h \in Handlers, NEW r \in Reservations, NEW c \in Cards, Ask(h, r, c)
      PROVE PaymentsTypeOK'
  BY <1>1 DEF Ask
<1>2. ASSUME NEW h \in Handlers, ReadOrder(h) PROVE PaymentsTypeOK'
  BY <1>2 DEF ReadOrder
<1>3. ASSUME NEW h \in Handlers, Commit(h) PROVE PaymentsTypeOK'
  BY <1>3 DEF Commit
<1>4. ASSUME NEW h \in Handlers, Store(h) PROVE PaymentsTypeOK'
  BY <1>4 DEF Store
<1>5. ASSUME NEW h \in Handlers, Fail(h) PROVE PaymentsTypeOK'
  BY <1>5 DEF Fail
<1>6. ASSUME NEW h \in Handlers, Cancel(h) PROVE PaymentsTypeOK'
  <2>1. req[h].res \in Reservations
    BY <1>6 DEF Cancel, CommitCancel, Doing, WellFormed, TypeOK, Requests, Idle
  <2> QED
    BY <1>6, <2>1 DEF Cancel
<1>7. CASE Forget
  BY <1>7 DEF Forget
<1>8. CASE RowsOnly \/ UNCHANGED paymentVars
  BY <1>8 DEF RowsOnly, paymentVars
<1> QED
  BY <1>1, <1>2, <1>3, <1>4, <1>5, <1>6, <1>7, <1>8 DEF PaymentsNext, Paying

-----------------------------------------------------------------------------
(* The other steps of Orders leave the requests of payments alone. *)
LEMMA PaysUntouched ==
    ASSUME WellFormed, PaymentsTypeOK, RowsOnly \/ UNCHANGED paymentVars,
           NEW k \in Handlers, pay[k] # NoPay
    PROVE  req'[k] = req[k]
<1> USE DEF WellFormed, TypeOK
<1>1. ASSUME NEW h \in Handlers, pay[h] = NoPay, Reserving(h) \/ Drop(h) \/ CommitModify(h)
      PROVE req'[k] = req[k]
  BY <1>1 DEF Reserving, CheckPaid, CheckActive, GrantByRedis, GrantByFallback, Insert, Begin, End, Drop, CommitModify
<1>2. ASSUME NEW h \in Handlers, pay[h] = NoPay, NEW r \in Reservations, NEW q \in Quantity,
             BeginModify(h, r, q)
      PROVE req'[k] = req[k]
  BY <1>2 DEF Begin, BeginModify
<1>3. ASSUME NEW h \in Handlers, pay[h] = NoPay, NEW r \in Reservations, BeginCancel(h, r)
      PROVE req'[k] = req[k]
  BY <1>3 DEF Begin, BeginCancel
<1>4. CASE UNCHANGED req
  BY <1>4
<1> QED
  BY <1>1, <1>2, <1>3, <1>4 DEF RowsOnly, Consumer, paymentVars, vars, Publish, Lapse, Expire,
     Fetch, CreateOrder, Confirm, CountReserved, Reject, ConsumerCrash, SetTotal

LEMMA NextPaysCurrent ==
    ASSUME WellFormed, PaymentsTypeOK, PaysCurrent, [PaymentsNext]_paymentVars
    PROVE  PaysCurrent'
<1> USE DEF WellFormed, TypeOK, PaymentsTypeOK, Pays, NoPay, At
<1>1. \A r \in Reservations : ostatus[r] = "paid" \/ r \in undone
                                 => ostatus'[r] = "paid" \/ r \in undone'
  BY PaidOrUndone, UndoneGrows
<1>2. ASSUME NEW h \in Handlers, NEW r \in Reservations, NEW c \in Cards, Ask(h, r, c)
      PROVE PaysCurrent'
  BY <1>1, <1>2 DEF Ask, PaysCurrent, vars
<1>3. ASSUME NEW h \in Handlers, ReadOrder(h) PROVE PaysCurrent'
  BY <1>1, <1>3 DEF ReadOrder, BeginPay, Begin, PaysCurrent
<1>4. ASSUME NEW h \in Handlers, Commit(h) PROVE PaysCurrent'
  BY <1>1, <1>4 DEF Commit, CommitPay, End, PaysCurrent
<1>5. ASSUME NEW h \in Handlers, Store(h) PROVE PaysCurrent'
  BY <1>1, <1>5 DEF Store, PaysCurrent, vars
<1>6. ASSUME NEW h \in Handlers, Fail(h) PROVE PaysCurrent'
  <2>1. \A k \in Handlers \ {h} : req'[k] = req[k]
    BY <1>6 DEF Fail, Drop, End, vars
  <2> QED
    BY <1>1, <1>6, <2>1 DEF Fail, PaysCurrent
<1>7. ASSUME NEW h \in Handlers, Cancel(h) PROVE PaysCurrent'
  BY <1>1, <1>7 DEF Cancel, CommitCancel, Doing, End, PaysCurrent
<1>8. CASE Forget
  BY <1>1, <1>8 DEF Forget, PaysCurrent, vars
<1>9. CASE RowsOnly \/ UNCHANGED paymentVars
  <2>1. UNCHANGED <<pay, undone>>
    BY <1>9 DEF RowsOnly, paymentVars
  <2>2. \A k \in Handlers : pay[k] # NoPay => req'[k] = req[k]
    BY <1>9, PaysUntouched
  <2> QED
    BY <1>1, <2>1, <2>2 DEF PaysCurrent
<1> QED
  BY <1>2, <1>3, <1>4, <1>5, <1>6, <1>7, <1>8, <1>9 DEF PaymentsNext, Paying

(* An answer enters Redis from a payment that has committed. *)
LEMMA NextAnswers ==
    ASSUME WellFormed, PaymentsTypeOK, PaysCurrent, AnswerStands, [PaymentsNext]_paymentVars
    PROVE  AnswerStands'
<1> USE DEF PaymentsTypeOK, Pays, NoPay, At
<1>1. \A r \in Reservations : ostatus[r] = "paid" \/ r \in undone
                                 => ostatus'[r] = "paid" \/ r \in undone'
  BY PaidOrUndone, UndoneGrows
<1>2. Answers \subseteq Reservations \X Cards
  BY DEF Answers
<1>3. ASSUME Answers' \subseteq Answers PROVE AnswerStands'
  BY <1>1, <1>2, <1>3 DEF AnswerStands
<1>4. ASSUME NEW h \in Handlers, Commit(h) PROVE AnswerStands'
  <2>1. Answers' \subseteq Answers \cup {<<pay[h].res, pay[h].card>>}
    BY <1>4 DEF Commit, Answers
  <2>2. pay[h].res = req[h].res /\ pay[h].res \in Reservations
    BY <1>4 DEF Commit, CommitPay, Doing, PaysCurrent
  <2>3. ostatus'[pay[h].res] = "paid"
    BY <1>4, <2>2 DEF Commit, CommitPay, WellFormed, TypeOK
  <2> QED
    BY <1>1, <1>2, <2>1, <2>2, <2>3 DEF AnswerStands
<1>5. ASSUME NEW h \in Handlers, NEW r \in Reservations, NEW c \in Cards, Ask(h, r, c)
      PROVE AnswerStands'
  BY <1>3, <1>5 DEF Ask, Answers
<1>6. ASSUME NEW h \in Handlers, Store(h) PROVE AnswerStands'
  BY <1>3, <1>6 DEF Store, Answers
<1>7. ASSUME NEW h \in Handlers, Fail(h) PROVE AnswerStands'
  BY <1>3, <1>7 DEF Fail, Answers
<1>8. CASE Forget
  BY <1>3, <1>8 DEF Forget, Answers
<1>9. CASE UNCHANGED <<results, pay>>
  BY <1>3, <1>9 DEF Answers
<1> QED
  BY <1>4, <1>5, <1>6, <1>7, <1>8, <1>9
     DEF PaymentsNext, Paying, ReadOrder, Cancel, RowsOnly, paymentVars

-----------------------------------------------------------------------------
LEMMA InitPayments == PaymentsInit => PaymentsIInv
<1> SUFFICES ASSUME PaymentsInit PROVE PaymentsIInv
  OBVIOUS
<1>1. WellFormed
  BY InitWellFormed DEF PaymentsInit
<1>2. Answers = {}
  BY DEF PaymentsInit, Answers, At, NoPay
<1> QED
  BY <1>1, <1>2 DEF PaymentsInit, PaymentsIInv, PaymentsTypeOK, PaysCurrent, AnswerStands, At, NoPay

LEMMA NextPayments == PaymentsIInv /\ [PaymentsNext]_paymentVars => PaymentsIInv'
  BY PaymentsRows, NextWellFormed, PaymentsTypes, NextPaysCurrent, NextAnswers DEF PaymentsIInv

(* PaymentsIInv is an invariant of the payments: what a payment has read or been
   told is still true when it acts on it. *)
THEOREM PaymentsInvariant == PaymentsSpec => []PaymentsIInv
  BY InitPayments, NextPayments, PTL DEF PaymentsSpec

(* The payments in flight and the answers kept are well formed. *)
THEOREM PaymentsTyped == PaymentsSpec => []PaymentsTypeOK
<1>1. PaymentsIInv => PaymentsTypeOK
  BY DEF PaymentsIInv
<1> QED
  BY <1>1, PaymentsInvariant, PTL

(* A payment that Redis answers "successful" has been made, and stands unless a
   cancellation has overwritten it. *)
THEOREM AnswersStand == PaymentsSpec => []AnswerStands
<1>1. PaymentsIInv => AnswerStands
  BY DEF PaymentsIInv
<1> QED
  BY <1>1, PaymentsInvariant, PTL

(* A repeated payment books nothing, whatever Redis has forgotten. *)
THEOREM RepeatsBookNothing == PaymentsSpec => RepeatBooksNothing
<1> DEFINE A == \A h \in Handlers :
        At(h, "asked") /\ pay'[h].step = "store" /\ pay[h].late => pay[h].res \in undone
<1>1. PaymentsIInv /\ [PaymentsNext]_paymentVars => [A]_paymentVars
  <2> SUFFICES ASSUME PaymentsIInv, PaymentsNext, NEW h \in Handlers,
                      At(h, "asked"), pay'[h].step = "store", pay[h].late
               PROVE  pay[h].res \in undone
    BY DEF At
  <2> USE DEF PaymentsIInv, PaymentsTypeOK, Pays, NoPay, At
  <2>1. CASE Commit(h)
    BY <2>1 DEF Commit, CommitPay, Doing, PaysCurrent
  <2>2. ASSUME ~Commit(h) PROVE pay'[h].step # "store"
    BY <2>2 DEF PaymentsNext, Paying, Ask, ReadOrder, Commit, Store, Fail, Cancel, Forget, RowsOnly
  <2> QED
    BY <2>1, <2>2
<1> QED
  BY <1>1, PaymentsInvariant, PTL DEF PaymentsSpec, RepeatBooksNothing

(* The cache only restricts which payments are made: with it, the rows still do
   what Orders says, and so what FlashSale promises. *)
THEOREM PaymentsImplementOrders == PaymentsSpec => Spec
<1>1. PaymentsInit => Init
  BY DEF PaymentsInit
<1>2. PaymentsIInv /\ [PaymentsNext]_paymentVars => [Next]_vars
  BY PaymentsRows DEF PaymentsIInv
<1> QED
  BY <1>1, <1>2, PaymentsInvariant, PTL DEF PaymentsSpec, Spec

-----------------------------------------------------------------------------
(* Recovery *)

(* A key belongs to a row, and a window names a row of its user. *)
KeysCurrent ==
    /\ \A r \in Reservations : key[r] # Nil => rstatus[r] # "none"
    /\ \A u \in Users : window[u] # Nil =>
            Owner[window[u].res] = u /\ rstatus[window[u].res] # "none"

Asking(h) == On(h, "ask") \/ On(h, "make")

(* What a request still knows of the rows: the row it has made, the row that its
   key says it replaces, the user of the row that it is making; and, when it came
   from a buyer, that the user still is one, or that the paid order has been
   overwritten, which is certain once it has passed the one-per-user checks. *)
TaskCurrent(h) ==
    /\ On(h, "open") => rstatus[task[h].res] # "none"
    /\ On(h, "ask") => req[h] = Idle
    /\ Asking(h) =>
           /\ \A r \in Reservations : task[h].key = RecoveryKey(r) =>
                  Owner[r] = task[h].user /\ rstatus[r] # "none"
           /\ task[h].late => Buyer(task[h].user) \/ task[h].user \in revoked
    /\ On(h, "make") /\ req[h] # Idle =>
           /\ Owner[req[h].res] = task[h].user
           /\ task[h].late => task[h].user \in revoked

TasksCurrent == \A h \in Handlers : TaskCurrent(h)

RecoveryIInv == WellFormed /\ RecoveryTypeOK /\ KeysCurrent /\ TasksCurrent /\ OneRowPerKey

-----------------------------------------------------------------------------
(* Every step is one of Orders, or leaves the rows alone. *)
LEMMA RecoveryRows == RecoveryTypeOK /\ [RecoveryNext]_recoveryVars => [Next]_vars
<1> SUFFICES ASSUME RecoveryTypeOK, [RecoveryNext]_recoveryVars PROVE Next \/ UNCHANGED vars
  OBVIOUS
<1>1. ASSUME NEW h \in Handlers, NEW r \in Reservations, CheckBuyer(h, r) PROVE Next
  <2>1. task[h].qty \in Quantity
    BY <1>1 DEF CheckBuyer, On, RecoveryTypeOK, Tasks, NoTask
  <2> QED
    BY <1>1, <2>1 DEF CheckBuyer, Next, Reserving
<1>2. ASSUME NEW h \in Handlers, CheckUser(h) \/ GrantUnits(h) \/ Persist(h) PROVE Next
  BY <1>2 DEF CheckUser, GrantUnits, Persist, Next, Reserving
<1>3. ASSUME NEW h \in Handlers, Abandon(h) PROVE Next \/ UNCHANGED vars
  BY <1>3 DEF Abandon, Next
<1>4. CASE OtherSteps
  BY <1>4 DEF OtherSteps, Next
<1>5. CASE UNCHANGED vars
  BY <1>5
<1> QED
  BY <1>1, <1>2, <1>3, <1>4, <1>5 DEF RecoveryNext, Repeating, BeginReserve, BeginRecover,
     AskRecovered, OpenWindow, CloseWindow, WindowLost, recoveryVars

(* No row of Orders is ever deleted. *)
LEMMA RowsStay ==
    ASSUME WellFormed, [Next]_vars, NEW r \in Reservations, rstatus[r] # "none"
    PROVE  rstatus'[r] # "none"
<1> USE DEF WellFormed, TypeOK, Requests, Jobs, Idle, NoJob
<1>1. ASSUME NEW h \in Handlers, Insert(h) \/ CommitPay(h) \/ CommitCancel(h)
      PROVE rstatus'[r] # "none"
  BY <1>1 DEF Insert, CommitPay, CommitCancel, Doing
<1>2. ASSUME NEW s \in Reservations, Expire(s) PROVE rstatus'[r] # "none"
  BY <1>2 DEF Expire
<1>3. CASE Confirm
  BY <1>3 DEF Confirm
<1>4. CASE UNCHANGED rstatus
  BY <1>4
<1> QED
  BY <1>1, <1>2, <1>3, <1>4
     DEF Next, Reserving, Ordering, Consumer, vars, CheckPaid, CheckActive, GrantByRedis, GrantByFallback,
     BeginModify, CommitModify, BeginPay, BeginCancel, Drop, Publish, Lapse, Fetch, CreateOrder,
     CountReserved, Reject, ConsumerCrash, SetTotal

(* A buyer stays one, or the loss of the paid order is recorded. *)
LEMMA BuyerOrUndone ==
    ASSUME [RecoveryNext]_recoveryVars, NEW u \in Users, Buyer(u) \/ u \in revoked
    PROVE  Buyer(u)' \/ u \in revoked'
<1>1. CASE UNCHANGED <<ostatus, revoked>>
  BY <1>1 DEF Buyer
<1>2. CASE OtherSteps
  <2>1. revoked \subseteq revoked'
    BY <1>2 DEF OtherSteps
  <2>2. ASSUME NEW r \in Reservations, Owner[r] = u, ostatus[r] = "paid"
        PROVE  ostatus'[r] = "paid" \/ u \in revoked'
    BY <1>2, <2>2 DEF OtherSteps
  <2> QED
    BY <2>1, <2>2 DEF Buyer
<1> QED
  BY <1>1, <1>2 DEF RecoveryNext, Repeating, BeginReserve, BeginRecover, AskRecovered, CheckBuyer,
     CheckUser,
     GrantUnits, Persist, OpenWindow, CloseWindow, Abandon, WindowLost, recoveryVars, vars,
     CheckPaid, CheckActive,
     GrantByRedis, GrantByFallback, Insert, Drop

(* The steps that make no reservation leave the requests that do alone. *)
LEMMA TasksUntouched ==
    ASSUME WellFormed, OtherSteps, NEW k \in Handlers, task[k] # NoTask
    PROVE  req'[k] = req[k]
<1> USE DEF WellFormed, TypeOK
<1>1. ASSUME NEW h \in Handlers, task[h] = NoTask, Drop(h) \/ CommitModify(h) \/ CommitPay(h) \/ CommitCancel(h)
      PROVE req'[k] = req[k]
  BY <1>1 DEF End, Drop, CommitModify, CommitPay, CommitCancel
<1>2. ASSUME NEW h \in Handlers, task[h] = NoTask, NEW r \in Reservations, NEW q \in Quantity,
             BeginModify(h, r, q)
      PROVE req'[k] = req[k]
  BY <1>2 DEF Begin, BeginModify
<1>3. ASSUME NEW h \in Handlers, task[h] = NoTask, NEW r \in Reservations,
             BeginPay(h, r) \/ BeginCancel(h, r)
      PROVE req'[k] = req[k]
  BY <1>3 DEF Begin, BeginPay, BeginCancel
<1>4. CASE UNCHANGED req
  BY <1>4
<1> QED
  BY <1>1, <1>2, <1>3, <1>4 DEF OtherSteps, Ordering, Consumer, Publish, Lapse, Expire,
     Fetch, CreateOrder, Confirm, CountReserved, Reject, ConsumerCrash, SetTotal
-----------------------------------------------------------------------------
LEMMA RecoveryTypes ==
    WellFormed /\ RecoveryTypeOK /\ [RecoveryNext]_recoveryVars => RecoveryTypeOK'
<1> SUFFICES ASSUME WellFormed, RecoveryTypeOK, [RecoveryNext]_recoveryVars
             PROVE  RecoveryTypeOK'
  OBVIOUS
<1> USE OrdersAssumption
    DEF RecoveryTypeOK, Tasks, NoTask, On, Give, RecoveryKeys, RecoveryKey
<1>1. ASSUME NEW h \in Handlers, NEW u \in Users, NEW k \in Keys, NEW q \in Quantity,
             BeginReserve(h, u, k, q)
      PROVE RecoveryTypeOK'
  BY <1>1 DEF BeginReserve, Buyer
<1>2. ASSUME NEW h \in Handlers, NEW u \in Users, BeginRecover(h, u) PROVE RecoveryTypeOK'
  <2>1. window[u].res \in Reservations
    BY <1>2 DEF BeginRecover
  <2>2. window[u].qty \in Quantity
    BY <1>2 DEF BeginRecover
  <2> QED
    BY <1>2, <2>1, <2>2 DEF BeginRecover, Buyer
<1>3. ASSUME NEW h \in Handlers, AskRecovered(h) PROVE RecoveryTypeOK'
  BY <1>3 DEF AskRecovered
<1>4. ASSUME NEW h \in Handlers, Persist(h) PROVE RecoveryTypeOK'
  <2>1. req[h].res \in Reservations
    BY <1>4 DEF Persist, Insert, Doing, WellFormed, TypeOK, Requests, Idle
  <2>2. task[h].key \in Keys \cup RecoveryKeys /\ task[h].qty \in Quantity
    BY <1>4 DEF Persist
  <2> QED
    BY <1>4, <2>1, <2>2 DEF Persist
<1>5. ASSUME NEW h \in Handlers, OpenWindow(h) PROVE RecoveryTypeOK'
  BY <1>5 DEF OpenWindow
<1>6. ASSUME NEW h \in Handlers, CloseWindow(h) PROVE RecoveryTypeOK'
  BY <1>6 DEF CloseWindow
<1>7. ASSUME NEW h \in Handlers, Abandon(h) PROVE RecoveryTypeOK'
  BY <1>7 DEF Abandon
<1>8. CASE WindowLost
  BY <1>8 DEF WindowLost
<1>9. CASE OtherSteps
  BY <1>9 DEF OtherSteps
<1>10. CASE UNCHANGED <<key, window, task, revoked>>
  BY <1>10
<1> QED
  BY <1>1, <1>2, <1>3, <1>4, <1>5, <1>6, <1>7, <1>8, <1>9, <1>10
     DEF RecoveryNext, Repeating, CheckBuyer, CheckUser, GrantUnits, recoveryVars

(* A row that is made takes a key no row has. *)
LEMMA NextKeys ==
    ASSUME WellFormed, RecoveryTypeOK, KeysCurrent, TasksCurrent, OneRowPerKey,
           [RecoveryNext]_recoveryVars
    PROVE  KeysCurrent' /\ OneRowPerKey'
<1> USE OrdersAssumption DEF RecoveryTypeOK, Tasks, NoTask, On, Give
<1>1. \A r \in Reservations : rstatus[r] # "none" => rstatus'[r] # "none"
  BY RecoveryRows, RowsStay
<1>2. ASSUME UNCHANGED <<key, window>> PROVE KeysCurrent' /\ OneRowPerKey'
  BY <1>1, <1>2 DEF KeysCurrent, OneRowPerKey
<1>3. ASSUME NEW h \in Handlers, Persist(h) PROVE KeysCurrent' /\ OneRowPerKey'
  <2>1. req[h].res \in Reservations
    BY <1>3 DEF Persist, Insert, Doing, WellFormed, TypeOK, Requests, Idle
  <2>2. rstatus'[req[h].res] = "pending"
    BY <1>3, <2>1 DEF Persist, Insert, WellFormed, TypeOK
  <2>3. key' = [key EXCEPT ![req[h].res] = task[h].key] /\ UNCHANGED window
    BY <1>3 DEF Persist
  <2>4. \A r \in Reservations : key[r] # task[h].key
    BY <1>3 DEF Persist, Taken
  <2>5. KeysCurrent'
    BY <1>1, <2>1, <2>2, <2>3 DEF KeysCurrent
  <2>6. OneRowPerKey'
    BY <2>1, <2>3, <2>4 DEF OneRowPerKey
  <2> QED
    BY <2>5, <2>6
<1>4. ASSUME NEW h \in Handlers, OpenWindow(h) PROVE KeysCurrent' /\ OneRowPerKey'
  <2>1. task[h].res \in Reservations /\ rstatus'[task[h].res] # "none"
    BY <1>1, <1>4 DEF OpenWindow, TasksCurrent, TaskCurrent
  <2> QED
    BY <1>1, <1>4, <2>1 DEF OpenWindow, KeysCurrent, OneRowPerKey
<1>5. ASSUME NEW h \in Handlers, CloseWindow(h) PROVE KeysCurrent' /\ OneRowPerKey'
  BY <1>1, <1>5 DEF CloseWindow, KeysCurrent, OneRowPerKey
<1>6. CASE WindowLost
  BY <1>1, <1>6 DEF WindowLost, KeysCurrent, OneRowPerKey
<1> QED
  BY <1>2, <1>3, <1>4, <1>5, <1>6 DEF RecoveryNext, Repeating, BeginReserve, BeginRecover,
     AskRecovered, CheckBuyer, CheckUser, GrantUnits, Abandon, OtherSteps, recoveryVars

LEMMA NextTasks ==
    ASSUME WellFormed, RecoveryTypeOK, KeysCurrent, TasksCurrent, [RecoveryNext]_recoveryVars
    PROVE  TasksCurrent'
<1> USE OrdersAssumption, RecoveryAssumption
    DEF RecoveryTypeOK, Tasks, NoTask, On, Give, Asking, RecoveryKey, RecoveryKeys
<1>1. \A r \in Reservations : rstatus[r] # "none" => rstatus'[r] # "none"
  BY RecoveryRows, RowsStay
<1>2. /\ \A u \in Users : Buyer(u) \/ u \in revoked => Buyer(u)' \/ u \in revoked'
      /\ revoked \subseteq revoked'
  <2>1. revoked \subseteq revoked'
    BY DEF RecoveryNext, Repeating, BeginReserve, BeginRecover, AskRecovered, CheckBuyer,
     CheckUser,
       GrantUnits, Persist, OpenWindow, CloseWindow, Abandon, WindowLost, OtherSteps, recoveryVars
  <2> QED
    BY <2>1, BuyerOrUndone
<1>3. ASSUME NEW h \in Handlers, NEW u \in Users, NEW k \in Keys, NEW q \in Quantity,
             BeginReserve(h, u, k, q)
      PROVE TasksCurrent'
  <2>1. UNCHANGED <<rstatus, ostatus, req, revoked>> /\ req[h] = Idle
    BY <1>3 DEF BeginReserve, Free, vars
  <2>2. \A x \in Handlers \ {h} : task'[x] = task[x]
    BY <1>3 DEF BeginReserve
  <2>3. /\ task'[h].step = "make" /\ task'[h].user = u /\ task'[h].key = k
        /\ task'[h].late = Buyer(u)
    BY <1>3 DEF BeginReserve
  <2>4. \A r \in Reservations : k # RecoveryKey(r)
    OBVIOUS
  <2>5. \A v : Buyer(v)' = Buyer(v)
    BY <2>1 DEF Buyer
  <2>6. TaskCurrent(h)'
    BY <2>1, <2>3, <2>4, <2>5 DEF TaskCurrent
  <2>7. \A x \in Handlers \ {h} : TaskCurrent(x)'
    BY <2>1, <2>2, <2>5 DEF TaskCurrent, TasksCurrent
  <2> QED
    BY <2>6, <2>7 DEF TasksCurrent
<1>4. ASSUME NEW h \in Handlers, NEW u \in Users, BeginRecover(h, u) PROVE TasksCurrent'
  <2>1. UNCHANGED <<rstatus, ostatus, req, revoked>> /\ req[h] = Idle
    BY <1>4 DEF BeginRecover, Free, vars
  <2>2. Owner[window[u].res] = u /\ rstatus[window[u].res] # "none"
    BY <1>4 DEF BeginRecover, KeysCurrent
  <2> QED
    BY <1>1, <1>2, <1>4, <2>1, <2>2 DEF BeginRecover, TasksCurrent, TaskCurrent, Buyer
<1>5. ASSUME NEW h \in Handlers, AskRecovered(h) PROVE TasksCurrent'
  <2>1. UNCHANGED <<rstatus, ostatus, req, revoked>>
    BY <1>5 DEF AskRecovered, vars
  <2>2. \A x \in Handlers \ {h} : task'[x] = task[x]
    BY <1>5 DEF AskRecovered
  <2>3. \/ task'[h].step = "close"
        \/ /\ task'[h].step = "make" /\ task'[h].user = task[h].user
           /\ task'[h].key = task[h].key /\ task'[h].late = task[h].late
    BY <1>5 DEF AskRecovered
  <2>4. \A v : Buyer(v)' = Buyer(v)
    BY <2>1 DEF Buyer
  <2>5. req[h] = Idle
    BY <1>5 DEF AskRecovered, TasksCurrent, TaskCurrent
  <2>6. TaskCurrent(h)'
    BY <1>5, <2>1, <2>3, <2>4, <2>5 DEF AskRecovered, TaskCurrent, TasksCurrent
  <2>7. \A x \in Handlers \ {h} : TaskCurrent(x)'
    BY <2>1, <2>2, <2>4 DEF TaskCurrent, TasksCurrent
  <2> QED
    BY <2>6, <2>7 DEF TasksCurrent
<1>6. ASSUME NEW h \in Handlers, NEW r \in Reservations, CheckBuyer(h, r) PROVE TasksCurrent'
  <2>1. task[h].late => task[h].user \in revoked
    BY <1>6 DEF CheckBuyer, CheckPaid, TasksCurrent, TaskCurrent, Buyer
  <2>2. req' = [req EXCEPT ![h] = [op |-> "asked", res |-> r, qty |-> task[h].qty]]
    BY <1>6 DEF CheckBuyer, CheckPaid, Begin
  <2>3. UNCHANGED <<task, revoked>> /\ Owner[r] = task[h].user
    BY <1>6 DEF CheckBuyer
  <2>4. UNCHANGED <<rstatus, ostatus>>
    BY <1>6 DEF CheckBuyer, CheckPaid
  <2>5. \A v : Buyer(v)' = Buyer(v)
    BY <2>4 DEF Buyer
  <2>6. TaskCurrent(h)'
    BY <1>6, <2>1, <2>2, <2>3, <2>4, <2>5 DEF CheckBuyer, TaskCurrent, TasksCurrent, WellFormed, TypeOK
  <2>7. \A x \in Handlers \ {h} : TaskCurrent(x)'
    BY <2>2, <2>3, <2>4, <2>5 DEF TaskCurrent, TasksCurrent, WellFormed, TypeOK
  <2> QED
    BY <2>6, <2>7 DEF TasksCurrent
<1>7. ASSUME NEW h \in Handlers, CheckUser(h) \/ GrantUnits(h) PROVE TasksCurrent'
  <2>1. PICK op \in {"checked", "granted"} : req[h] # Idle /\ req' = [req EXCEPT ![h].op = op]
    BY <1>7 DEF CheckUser, CheckActive, GrantUnits, GrantByRedis, GrantByFallback, Doing
  <2>2. \A k \in Handlers : /\ req'[k] # Idle => req[k] # Idle
                            /\ req'[k].res = req[k].res
    BY <2>1 DEF WellFormed, TypeOK, Requests
  <2>3. UNCHANGED <<task, ostatus, rstatus, revoked>>
    BY <1>7 DEF CheckUser, CheckActive, GrantUnits, GrantByRedis, GrantByFallback
  <2> QED
    BY <2>2, <2>3 DEF TasksCurrent, TaskCurrent, Buyer
<1>8. ASSUME NEW h \in Handlers, Persist(h) PROVE TasksCurrent'
  <2>1. req[h].res \in Reservations
    BY <1>8 DEF Persist, Insert, Doing, WellFormed, TypeOK, Requests, Idle
  <2>2. rstatus'[req[h].res] = "pending" /\ req' = [req EXCEPT ![h] = Idle]
    BY <1>8, <2>1 DEF Persist, Insert, End, WellFormed, TypeOK
  <2>3. UNCHANGED <<ostatus, revoked>>
    BY <1>8 DEF Persist, Insert
  <2>4. task' = [task EXCEPT ![h] = [step |-> "open", res |-> req[h].res, qty |-> task[h].qty]]
    BY <1>8 DEF Persist
  <2>5. \A k \in Handlers \ {h} : req'[k] = req[k] /\ task'[k] = task[k]
    BY <2>2, <2>4 DEF WellFormed, TypeOK
  <2>6. task'[h].step = "open" /\ task'[h].res = req[h].res
    BY <2>4
  <2> QED
    BY <1>1, <2>1, <2>2, <2>3, <2>5, <2>6 DEF TasksCurrent, TaskCurrent, Buyer
<1>9. ASSUME NEW h \in Handlers, OpenWindow(h) PROVE TasksCurrent'
  BY <1>1, <1>2, <1>9 DEF OpenWindow, TasksCurrent, TaskCurrent, vars
<1>10. ASSUME NEW h \in Handlers, CloseWindow(h) PROVE TasksCurrent'
  BY <1>1, <1>2, <1>10 DEF CloseWindow, TasksCurrent, TaskCurrent, vars
<1>11. ASSUME NEW h \in Handlers, Abandon(h) PROVE TasksCurrent'
  <2>1. \A k \in Handlers \ {h} : req'[k] = req[k]
    BY <1>11 DEF Abandon, Drop, End, vars, WellFormed, TypeOK
  <2> QED
    BY <1>1, <1>2, <1>11, <2>1 DEF Abandon, TasksCurrent, TaskCurrent
<1>12. CASE WindowLost \/ UNCHANGED recoveryVars
  <2>1. UNCHANGED <<rstatus, ostatus, req, task, revoked>>
    BY <1>12 DEF WindowLost, recoveryVars, vars
  <2> QED
    BY <1>1, <1>2, <2>1 DEF TasksCurrent, TaskCurrent
<1>13. CASE OtherSteps
  <2>1. UNCHANGED task
    BY <1>13 DEF OtherSteps
  <2>2. \A k \in Handlers : task[k] # NoTask => req'[k] = req[k]
    BY <1>13, TasksUntouched
  <2> QED
    BY <1>1, <1>2, <2>1, <2>2 DEF TasksCurrent, TaskCurrent
<1> QED
  BY <1>3, <1>4, <1>5, <1>6, <1>7, <1>8, <1>9, <1>10, <1>11, <1>12, <1>13
     DEF RecoveryNext, Repeating

-----------------------------------------------------------------------------
LEMMA InitRecovery == RecoveryInit => RecoveryIInv
<1> SUFFICES ASSUME RecoveryInit PROVE RecoveryIInv
  OBVIOUS
<1>1. WellFormed
  BY InitWellFormed DEF RecoveryInit
<1>2. RecoveryTypeOK /\ KeysCurrent /\ TasksCurrent /\ OneRowPerKey
  BY DEF RecoveryInit, RecoveryTypeOK, KeysCurrent, TasksCurrent, TaskCurrent, Asking, OneRowPerKey, On, NoTask
<1> QED
  BY <1>1, <1>2 DEF RecoveryIInv

LEMMA NextRecovery == RecoveryIInv /\ [RecoveryNext]_recoveryVars => RecoveryIInv'
  BY RecoveryRows, NextWellFormed, RecoveryTypes, NextKeys, NextTasks DEF RecoveryIInv

(* RecoveryIInv is an invariant: keys, windows and requests in flight name rows
   that exist, and what a request was admitted on still holds. *)
THEOREM RecoveryInvariant == RecoverySpec => []RecoveryIInv
  BY InitRecovery, NextRecovery, PTL DEF RecoverySpec

(* Keys, windows and requests in flight are well formed. *)
THEOREM RecoveryTyped == RecoverySpec => []RecoveryTypeOK
<1>1. RecoveryIInv => RecoveryTypeOK
  BY DEF RecoveryIInv
<1> QED
  BY <1>1, RecoveryInvariant, PTL

(* No key makes two reservations. *)
THEOREM KeysMakeOneRow == RecoverySpec => []OneRowPerKey
<1>1. RecoveryIInv => OneRowPerKey
  BY DEF RecoveryIInv
<1> QED
  BY <1>1, RecoveryInvariant, PTL

(* The step that makes a row is Persist. *)
LEMMA MakesPersists ==
    ASSUME RecoveryTypeOK, RecoveryNext, NEW h \in Handlers, Makes(h)
    PROVE  Persist(h)
<1> USE DEF RecoveryTypeOK, Tasks, NoTask, On, Give, Makes
<1>1. ASSUME NEW k \in Handlers, Repeating(k), ~Persist(h) PROVE FALSE
  BY <1>1 DEF Repeating, BeginReserve, BeginRecover, AskRecovered, CheckBuyer, CheckUser, GrantUnits, Persist,
     OpenWindow, CloseWindow, Abandon, Free
<1> QED
  BY <1>1 DEF RecoveryNext, WindowLost, OtherSteps

(* A recovery never replaces a live reservation. *)
THEOREM OnlyTheDeadRecovered == RecoverySpec => RecoversTheDead
<1> DEFINE A == \A h \in Handlers, r \in Reservations :
        Makes(h) /\ task[h].key = RecoveryKey(r) => rstatus[r] \notin Active
<1>1. RecoveryIInv /\ [RecoveryNext]_recoveryVars => [A]_recoveryVars
  <2> SUFFICES ASSUME RecoveryIInv, RecoveryNext, NEW h \in Handlers, NEW r \in Reservations,
                      Makes(h), task[h].key = RecoveryKey(r)
               PROVE  rstatus[r] \notin Active
    BY DEF Makes
  <2>1. Insert(h) /\ On(h, "make")
    BY MakesPersists DEF RecoveryIInv, Persist
  <2>2. Owner[r] = task[h].user /\ rstatus[r] # "none"
    BY <2>1 DEF RecoveryIInv, TasksCurrent, TaskCurrent, Asking
  <2>3. /\ req[h] # Idle /\ req[h].op = "granted" /\ IndexAllows(req[h].res)
    BY <2>1 DEF Insert, Doing
  <2>4. rstatus[req[h].res] = "none" /\ Owner[req[h].res] = task[h].user
    BY <2>1, <2>3 DEF RecoveryIInv, TasksCurrent, TaskCurrent, WellFormed, RequestsCurrent
  <2> QED
    BY <2>2, <2>3, <2>4 DEF IndexAllows
<1> QED
  BY <1>1, RecoveryInvariant, PTL DEF RecoverySpec, RecoversTheDead

(* A user who has bought makes no further reservation. *)
THEOREM BuyersReserveNothing == RecoverySpec => BuyerReservesNothing
<1> DEFINE A == \A h \in Handlers : Makes(h) /\ task[h].late => task[h].user \in revoked
<1>1. RecoveryIInv /\ [RecoveryNext]_recoveryVars => [A]_recoveryVars
  <2> SUFFICES ASSUME RecoveryIInv, RecoveryNext, NEW h \in Handlers, Makes(h), task[h].late
               PROVE  task[h].user \in revoked
    BY DEF Makes
  <2>1. On(h, "make") /\ req[h] # Idle
    BY MakesPersists DEF RecoveryIInv, Persist, Insert, Doing
  <2> QED
    BY <2>1 DEF RecoveryIInv, TasksCurrent, TaskCurrent
<1> QED
  BY <1>1, RecoveryInvariant, PTL DEF RecoverySpec, BuyerReservesNothing

(* Keys and windows only restrict which reservations are made: the rows still do
   what Orders says. *)
THEOREM RecoveryImplementsOrders == RecoverySpec => Spec
<1>1. RecoveryInit => Init
  BY DEF RecoveryInit
<1>2. RecoveryIInv /\ [RecoveryNext]_recoveryVars => [Next]_vars
  BY RecoveryRows DEF RecoveryIInv
<1> QED
  BY <1>1, <1>2, RecoveryInvariant, PTL DEF RecoverySpec, Spec
=============================================================================
