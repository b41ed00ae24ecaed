----------------------------- MODULE StockProofs -----------------------------
(* Theorems about Stock, for every value of the constants. *)
EXTENDS Stock, FiniteSetTheorems, TLAPS

OP == INSTANCE OrdersProofs

(* The handlers' steps are the steps of Orders' handlers, or touch no row. *)
LEMMA ReservingRows ==
    ASSUME NEW h \in Handlers, Reserving(h)
    PROVE  O!Next \/ UNCHANGED rows
<1>1. CASE Check(h)
  BY <1>1 DEF Check, O!Next, O!Reserving, O!Quantity, Quantity
<1>2. CASE Grant(h)
  BY <1>2 DEF Grant, O!Next, O!Reserving
<1>3. CASE GrantRaises(h)
  BY <1>3 DEF GrantRaises
<1>4. CASE Fallback(h)
  BY <1>4 DEF Fallback, O!Next, O!Reserving
<1>5. CASE Persist(h)
  BY <1>5 DEF Persist, O!Next, O!Reserving
<1>6. CASE PersistRaises(h)
  BY <1>6 DEF PersistRaises, O!Next, O!Reserving
<1> QED
  BY <1>1, <1>2, <1>3, <1>4, <1>5, <1>6 DEF Reserving

LEMMA ModifyingRows ==
    ASSUME NEW h \in Handlers, Modifying(h) \/ CommitCancel(h) \/ Abandon(h)
    PROVE  O!Next \/ UNCHANGED rows
<1>1. ASSUME NEW r \in Reservations, NEW q \in Quantity, BeginModify(h, r, q) PROVE O!Next
  BY <1>1 DEF BeginModify, O!Next, O!Ordering, O!Quantity, Quantity
<1>2. CASE IncreaseUnits(h) \/ DecreaseUnits(h)
  BY <1>2 DEF IncreaseUnits, DecreaseUnits
<1>3. CASE CommitModify(h)
  BY <1>3 DEF CommitModify, O!Next, O!Ordering
<1>4. CASE CommitCancel(h)
  BY <1>4 DEF CommitCancel, O!Next, O!Ordering
<1>5. CASE Abandon(h)
  BY <1>5 DEF Abandon, O!Next
<1> QED
  BY <1>1, <1>2, <1>3, <1>4, <1>5 DEF Modifying

(* Every step on the rows is a step of Orders: what Redis does in between, its
   restarts included, is invisible to the rows. *)
LEMMA NextRows == [Next]_vars => [O!Next]_rows
<1> SUFFICES ASSUME [Next]_vars PROVE O!Next \/ UNCHANGED rows
  OBVIOUS
<1>1. ASSUME NEW h \in Handlers, Reserving(h) \/ Modifying(h) \/ CommitCancel(h) \/ Abandon(h)
      PROVE O!Next \/ UNCHANGED rows
  BY <1>1, ReservingRows, ModifyingRows
<1>2. ASSUME NEW r \in Reservations, Expire(r) PROVE O!Next
  BY <1>2 DEF Expire, O!Next
<1>3. ASSUME NEW c \in calls, Release(c) \/ ReleaseLost(c) PROVE UNCHANGED rows
  BY <1>3 DEF Release, ReleaseLost
<1>4. ASSUME NEW m \in Managers, NEW t \in Totals, CommitEdit(m, t) \/ AdjustTotal(m, t)
      PROVE O!Next
  BY <1>4 DEF CommitEdit, AdjustTotal, O!Next
<1>5. ASSUME NEW m \in Managers, BeginEdit(m) \/ EditFails(m) \/ AdjustCounter(m) \/ AdjustLost(m)
      PROVE UNCHANGED rows
  BY <1>5 DEF BeginEdit, EditFails, AdjustCounter, AdjustLost
<1>6. CASE Reconciling
  BY <1>6 DEF Reconciling, RecRead, RecGet, RecSet, RecFails
<1>7. CASE Restart \/ \E k \in keys : KeyExpires(k)
  BY <1>7 DEF Restart, KeyExpires
<1>8. CASE RowsOnly
  BY <1>8 DEF RowsOnly, O!Next, O!Ordering
<1>9. CASE UNCHANGED vars
  BY <1>9 DEF vars
<1> QED
  BY <1>1, <1>2, <1>3, <1>4, <1>5, <1>6, <1>7, <1>8, <1>9 DEF Next, Changing

(* The composed system implements Orders. *)
THEOREM StockImplementsOrders == Spec => O!Spec
<1>1. Init => O!Init
  BY DEF Init
<1>2. [O!Next]_rows => [O!Next]_(O!vars)
  BY DEF rows, O!vars, O!inventory
<1> QED
  BY <1>1, <1>2, NextRows, PTL DEF Spec, O!Spec

-----------------------------------------------------------------------------
(* The theorems of OrdersProofs are about the instance OP of Orders; Stock is
   composed of the instance O.  The two are the same, definition by definition. *)
LEMMA SameInit == O!Init => OP!Init
  BY DEF
     O!Init, OP!Init, O!NoJob, OP!NoJob, O!Idle, OP!Idle

LEMMA SameNext == O!Next = OP!Next
  BY DEF
     O!Next, OP!Next, O!Reserving, OP!Reserving, O!Ordering, OP!Ordering, O!Drop, OP!Drop,
     O!Publish, OP!Publish, O!Lapse, OP!Lapse, O!Expire, OP!Expire, O!Consumer, OP!Consumer,
     O!SetTotal, OP!SetTotal, O!CheckPaid, OP!CheckPaid,
     O!CheckActive, OP!CheckActive, O!GrantByRedis, OP!GrantByRedis,
     O!GrantByFallback, OP!GrantByFallback, O!Insert, OP!Insert, O!BeginModify,
     OP!BeginModify, O!CommitModify, OP!CommitModify, O!BeginPay, OP!BeginPay, O!CommitPay,
     OP!CommitPay, O!BeginCancel, OP!BeginCancel, O!CommitCancel, OP!CommitCancel, O!Fetch,
     OP!Fetch, O!CreateOrder, OP!CreateOrder, O!Confirm, OP!Confirm, O!CountReserved,
     OP!CountReserved, O!Reject, OP!Reject, O!ConsumerCrash, OP!ConsumerCrash, O!Settle,
     OP!Settle, O!Begin, OP!Begin, O!End, OP!End, O!Doing, OP!Doing, O!IndexAllows,
     OP!IndexAllows, O!RowFits, OP!RowFits, O!LessReserved, OP!LessReserved, O!Quantity,
     OP!Quantity, O!Active, OP!Active, O!Idle, OP!Idle, O!NoJob, OP!NoJob, O!inventory,
     OP!inventory

LEMMA SameInvariant == OP!IInv => O!IInv
<1> SUFFICES ASSUME OP!IInv PROVE O!IInv
  OBVIOUS
<1>1. O!TypeOK
  BY DEF OP!IInv, O!TypeOK, OP!TypeOK, O!Requests, OP!Requests, O!Jobs, OP!Jobs, O!Quantity,
     OP!Quantity, O!Idle, OP!Idle, O!NoJob, OP!NoJob
<1>2. O!RowsFilled /\ O!JobCurrent /\ O!RequestsCurrent
  BY DEF OP!IInv, O!RowsFilled, OP!RowsFilled, O!JobCurrent, OP!JobCurrent, O!RequestsCurrent,
     OP!RequestsCurrent, O!Quantity, OP!Quantity, O!Idle, OP!Idle, O!NoJob, OP!NoJob
<1>3. O!PaidUnits = OP!PaidUnits
  BY DEF O!PaidUnits, OP!PaidUnits, O!Quantity, OP!Quantity
<1>4. O!Cardinality(O!PaidUnits) = OP!Cardinality(O!PaidUnits)
  BY DEF O!Cardinality, OP!Cardinality
<1>5. O!NoOversell
  BY <1>3, <1>4 DEF OP!IInv, O!NoOversell, OP!NoOversell
<1>6. O!OneActivePerUser /\ O!ConfirmedHasOrder
  BY DEF OP!IInv, O!OneActivePerUser, OP!OneActivePerUser, O!ConfirmedHasOrder,
     OP!ConfirmedHasOrder, O!Active, OP!Active
<1>7. reserved + sold <= total
  BY DEF OP!IInv
<1> QED
  BY <1>1, <1>2, <1>5, <1>6, <1>7 DEF O!IInv

(* The rows keep their invariant, whatever Redis does, loses or is told late:
   nothing is oversold however wrong the counter is. *)
THEOREM StockRowsInvariant == Spec => []O!IInv
<1>1. OP!Init => OP!IInv
  BY OP!InitIInv, StockAssumption DEF OP!IsFiniteSet, IsFiniteSet
<1>2. OP!IInv /\ [OP!Next]_(OP!vars) => OP!IInv'
  BY OP!NextIInv, StockAssumption DEF OP!IsFiniteSet, IsFiniteSet
<1>3. [O!Next]_rows => [OP!Next]_(OP!vars)
  BY SameNext DEF rows, OP!vars, OP!inventory
<1>4. Init => OP!Init
  BY SameInit DEF Init
<1> QED
  BY <1>1, <1>2, <1>3, <1>4, NextRows, SameInvariant, PTL DEF Spec
-----------------------------------------------------------------------------
(* Type correctness.  Who waits for the fallback is still at its grant, units
   still to be moved belong to a quantity change, and a correction is natural
   because the row is never overdrawn. *)
CallsTyped == calls \subseteq ReleaseCalls /\ IsFiniteSet(calls)

LEMMA CallAdded ==
    ASSUME CallsTyped, NEW key, NEW q \in Quantity, CallRelease(key, q),
           \/ \E h \in Handlers : key = GrantKey(h)
           \/ \E r \in Reservations : key = RowKey(r)
    PROVE  CallsTyped'
<1>1. calls' = calls \cup {[key |-> key, qty |-> q]}
  BY DEF CallRelease
<1>2. IsFiniteSet(calls')
  BY <1>1, FS_AddElement DEF CallsTyped
<1>3. [key |-> key, qty |-> q] \in ReleaseCalls
  BY DEF ReleaseCalls
<1> QED
  BY <1>1, <1>2, <1>3 DEF CallsTyped

LEMMA CallRemoved ==
    ASSUME CallsTyped, NEW c, calls' = calls \ {c}
    PROVE  CallsTyped'
<1>1. calls' \subseteq calls
  OBVIOUS
<1> QED
  BY <1>1, FS_Subset DEF CallsTyped

Typed == TypeOK /\ IsFiniteSet(calls)

(* The stock change of one administrator *)
LEMMA ChangeTyped ==
    ASSUME TypeOK, Totals \subseteq Nat, total \in Nat, NEW m \in Managers, Changing(m)
    PROVE  /\ admin' \in [Managers -> StockChanges \cup {NoChange}] /\ adjust' \in Int
           /\ counter' \in Int \cup {Nil}
<1>a. admin \in [Managers -> StockChanges \cup {NoChange}] /\ adjust \in Int /\ counter \in Int \cup {Nil}
  BY DEF TypeOK
<1> USE <1>a DEF StockChanges, NoChange
<1>1. CASE BeginEdit(m)
  BY <1>1 DEF BeginEdit
<1>2. CASE EditFails(m)
  BY <1>2 DEF EditFails
<1>3. ASSUME NEW t \in Totals, CommitEdit(m, t)
      PROVE  /\ admin' \in [Managers -> StockChanges \cup {NoChange}] /\ adjust' \in Int
             /\ counter' = counter
  <2>1. t \in Nat /\ admin[m].seen \in Nat
    BY <1>3 DEF CommitEdit
  <2>2. t - admin[m].seen \in Int
    BY <2>1
  <2> QED
    BY <1>3, <2>2 DEF CommitEdit
<1>4. ASSUME NEW t \in Totals, AdjustTotal(m, t)
      PROVE  /\ admin' \in [Managers -> StockChanges \cup {NoChange}] /\ adjust' \in Int
             /\ counter' = counter
  <2>1. t \in Nat
    OBVIOUS
  <2>2. t - total \in Int
    BY <2>1
  <2> QED
    BY <1>4, <2>2 DEF AdjustTotal
<1>5. CASE AdjustCounter(m) \/ AdjustLost(m)
  <2>1. admin[m].by \in Int
    BY <1>5 DEF AdjustCounter, AdjustLost
  <2>2. counter' \in Int \cup {Nil}
    BY <1>5, <2>1 DEF AdjustCounter, AdjustLost, IncrBy
  <2> QED
    BY <1>5, <2>1, <2>2 DEF AdjustCounter, AdjustLost
<1> QED
  BY <1>1, <1>2, <1>3, <1>4, <1>5 DEF Changing

(* What every step has to show, when the rows are well formed before and after. *)
LEMMA NextTyped ==
    ASSUME Typed, O!IInv, O!IInv', [Next]_vars
    PROVE  Typed'
<1> USE StockAssumption DEF Typed, TypeOK, stock
<1>a. /\ req \in [Handlers -> O!Requests \cup {O!Idle}]
      /\ total \in Nat /\ reserved \in Nat /\ sold \in Nat /\ reserved + sold <= total
      /\ total' \in Nat
      /\ rqty \in [Reservations -> 0..MaxQuantity]
  BY DEF O!IInv, O!TypeOK
<1>b. \A h \in Handlers : req[h] # O!Idle =>
            /\ req[h].res \in Reservations /\ req[h].qty \in Quantity /\ req[h].qty \in Nat
  BY <1>a DEF O!Requests, Quantity, O!Quantity
<1>c. \A r \in Reservations : rstatus[r] # "none" => rqty[r] \in Quantity
  BY DEF O!IInv, O!RowsFilled, Quantity, O!Quantity
<1>d. Quantity \subseteq Nat
  BY DEF Quantity
<1>1. ASSUME NEW h \in Handlers, Check(h) PROVE Typed'
  <2>1. \A k \in Handlers : O!Doing(k, "checked") \/ O!Doing(k, "modifying") => req'[k] = req[k]
    BY <1>1, <1>a DEF Check, O!CheckPaid, O!CheckActive, O!Begin, O!Doing
  <2> QED
    BY <2>1, <1>1 DEF Check, O!Doing
<1>2. ASSUME NEW h \in Handlers, Grant(h) PROVE Typed'
  BY <1>2, <1>a, <1>b DEF Grant, O!GrantByRedis, O!Doing, Deduct
<1>3. ASSUME NEW h \in Handlers, GrantRaises(h) PROVE Typed'
  BY <1>3, <1>a, <1>b DEF GrantRaises, O!Doing, Deduct, rows
<1>4. ASSUME NEW h \in Handlers, Fallback(h) PROVE Typed'
  BY <1>4, <1>a DEF Fallback, O!GrantByFallback, O!Doing
<1>5. ASSUME NEW h \in Handlers, Persist(h) PROVE Typed'
  BY <1>5, <1>a DEF Persist, O!Insert, O!End, O!Doing, Forget
<1>6. ASSUME NEW h \in Handlers, PersistRaises(h) PROVE Typed'
  <2>1. CallsTyped'
    BY <1>6, <1>b, CallAdded DEF PersistRaises, O!Doing, CallsTyped
  <2>2. UNCHANGED <<counter, keys, raised, shift, admin, adjust, rec>> /\ clean' \in BOOLEAN
    BY <1>6 DEF PersistRaises
  <2>3. req' = [req EXCEPT ![h] = O!Idle] /\ O!Doing(h, "granted")
    BY <1>6 DEF PersistRaises, O!Drop, O!Insert, O!End
  <2> QED
    BY <2>1, <2>2, <2>3, <1>a DEF CallsTyped, O!Doing
<1>7. ASSUME NEW h \in Handlers, Abandon(h) PROVE Typed'
  BY <1>7, <1>a DEF Abandon, O!Drop, O!End, O!Doing, Forget
<1>8. ASSUME NEW c \in calls, Release(c) PROVE Typed'
  <2>1. CallsTyped'
    BY <1>8, CallRemoved DEF Release, CallsTyped
  <2>2. UNCHANGED <<rows, raised, shift, admin, adjust, rec, clean>> /\ keys' \subseteq keys
    BY <1>8 DEF Release
  <2>3. counter' \in Int \cup {Nil}
    <3>1. CASE c.key \in keys
      BY <1>8, <3>1 DEF Release, IncrBy
    <3>2. CASE c.key \notin keys
      BY <1>8, <3>2 DEF Release
    <3> QED
      BY <3>1, <3>2
  <2> QED
    BY <2>1, <2>2, <2>3 DEF CallsTyped, O!Doing, rows
<1>9. ASSUME NEW c \in calls, ReleaseLost(c) PROVE Typed'
  <2>1. CallsTyped'
    BY <1>9, CallRemoved DEF ReleaseLost, CallsTyped
  <2> QED
    BY <2>1, <1>9 DEF ReleaseLost, CallsTyped, O!Doing, rows
<1>10. ASSUME NEW h \in Handlers, CommitCancel(h) PROVE Typed'
  <2>1. CallsTyped'
    BY <1>10, <1>b, CallAdded DEF CommitCancel, O!CommitCancel, O!Doing, CallsTyped
  <2>2. req' = [req EXCEPT ![h] = O!Idle] /\ O!Doing(h, "cancelling")
    BY <1>10 DEF CommitCancel, O!CommitCancel, O!End
  <2> QED
    BY <2>1, <2>2, <1>10, <1>a DEF CommitCancel, CallsTyped, O!Doing
<1>11. ASSUME NEW r \in Reservations, Expire(r) PROVE Typed'
  <2>1. CallsTyped'
    BY <1>11, <1>c, CallAdded DEF Expire, O!Expire, O!Active, CallsTyped
  <2>2. UNCHANGED req
    BY <1>11 DEF Expire, O!Expire
  <2> QED
    BY <2>1, <2>2, <1>11 DEF Expire, CallsTyped, O!Doing
<1>12. ASSUME NEW h \in Handlers, NEW r \in Reservations, NEW q \in Quantity, BeginModify(h, r, q)
       PROVE Typed'
  <2>1. q - rqty[r] \in Int
    BY <1>a, <1>d
  <2> QED
    BY <2>1, <1>12, <1>a DEF BeginModify, O!BeginModify, O!Begin, O!Doing, O!Idle
<1>13. ASSUME NEW h \in Handlers, IncreaseUnits(h) PROVE Typed'
  BY <1>13 DEF IncreaseUnits, Deduct, O!Doing, rows
<1>14. ASSUME NEW h \in Handlers, DecreaseUnits(h) PROVE Typed'
  <2>1. UNCHANGED <<rows, keys, raised, calls, admin, adjust, rec>> /\ clean' \in BOOLEAN
    BY <1>14 DEF DecreaseUnits
  <2>2. counter' \in Int \cup {Nil}
    BY <1>14 DEF DecreaseUnits, IncrBy
  <2>3. shift' = [shift EXCEPT ![h] = 0]
    BY <1>14 DEF DecreaseUnits
  <2> QED
    BY <2>1, <2>2, <2>3 DEF O!Doing, rows
<1>15. ASSUME NEW h \in Handlers, CommitModify(h) PROVE Typed'
  <2>1. UNCHANGED stock /\ shift[h] = 0
    BY <1>15 DEF CommitModify
  <2>2. req' = [req EXCEPT ![h] = O!Idle] /\ O!Doing(h, "modifying")
    BY <1>15 DEF CommitModify, O!CommitModify, O!End
  <2>3. \A k \in Handlers : k # h => req'[k] = req[k]
    BY <2>2, <1>a
  <2> QED
    BY <2>1, <2>2, <2>3 DEF O!Doing
<1>16. ASSUME NEW m \in Managers, Changing(m) PROVE Typed'
  <2>1. UNCHANGED <<keys, raised, calls, shift, rec, req>>
    BY <1>16 DEF Changing, BeginEdit, EditFails, CommitEdit, AdjustTotal, AdjustCounter, AdjustLost,
       O!SetTotal, rows
  <2>2. /\ admin' \in [Managers -> StockChanges \cup {NoChange}] /\ adjust' \in Int
        /\ counter' \in Int \cup {Nil}
    BY <1>16, ChangeTyped, <1>a
  <2>3. clean' \in BOOLEAN
    BY <1>16, Zenon DEF Changing, BeginEdit, EditFails, CommitEdit, AdjustTotal, AdjustCounter,
       AdjustLost
  <2> QED
    BY <2>1, <2>2, <2>3 DEF O!Doing
<1>17. CASE Reconciling
  <2>1. UNCHANGED <<rows, keys, raised, calls, shift, admin, adjust>>
    BY <1>17 DEF Reconciling, RecRead, RecGet, RecSet, RecFails
  <2>2. rec' \in [step : {"get", "set"}, want : Nat] \cup {Resting}
    <3>1. CASE RecRead
      BY <3>1, <1>a DEF RecRead
    <3>2. CASE RecGet
      BY <3>2 DEF RecGet, Resting
    <3>3. CASE RecSet \/ RecFails
      BY <3>3 DEF RecSet, RecFails
    <3> QED
      BY <1>17, <3>1, <3>2, <3>3 DEF Reconciling
  <2>3. counter' \in Int \cup {Nil} /\ clean' \in BOOLEAN
    <3>1. CASE RecRead \/ RecGet \/ RecFails
      BY <3>1 DEF RecRead, RecGet, RecFails
    <3>2. CASE RecSet
      <4>1. rec \in [step : {"get", "set"}, want : Nat]
        BY <3>2 DEF RecSet
      <4>2. rec.want \in Int
        BY <4>1
      <4>3. counter' = rec.want /\ clean' = FALSE
        BY <3>2 DEF RecSet
      <4> QED
        BY <4>2, <4>3
    <3> QED
      BY <1>17, <3>1, <3>2 DEF Reconciling
  <2> QED
    BY <2>1, <2>2, <2>3 DEF O!Doing, rows
<1>18. CASE Restart \/ \E k \in keys : KeyExpires(k)
  BY <1>18 DEF Restart, KeyExpires, O!Doing, rows
<1>19. CASE RowsOnly
  <2>1. \A h \in Handlers : req[h] # O!Idle /\ req[h].op \in {"checked", "modifying"} => req'[h] = req[h]
    <3>1. ASSUME NEW h \in Handlers, NEW r \in Reservations, O!BeginPay(h, r) \/ O!BeginCancel(h, r)
          PROVE <2>1
      BY <3>1, <1>a DEF O!BeginPay, O!BeginCancel, O!Begin
    <3>2. ASSUME NEW h \in Handlers, O!CommitPay(h) PROVE <2>1
      BY <3>2, <1>a DEF O!CommitPay, O!End, O!Doing
    <3>3. ASSUME NEW r \in Reservations, O!Publish(r) \/ O!Lapse(r) \/ O!Fetch(r) PROVE UNCHANGED req
      BY <3>3 DEF O!Publish, O!Lapse, O!Fetch
    <3>4. CASE O!CreateOrder \/ O!Confirm \/ O!CountReserved \/ O!Reject \/ O!ConsumerCrash
      BY <3>4 DEF O!CreateOrder, O!Confirm, O!CountReserved, O!Reject, O!ConsumerCrash
    <3> QED
      BY <1>19, <3>1, <3>2, <3>3, <3>4 DEF RowsOnly, O!Consumer
  <2> QED
    BY <2>1, <1>19 DEF RowsOnly, O!Doing
<1>20. CASE UNCHANGED vars
  BY <1>20 DEF vars, rows, O!Doing
<1> QED
  BY <1>1, <1>2, <1>3, <1>4, <1>5, <1>6, <1>7, <1>8, <1>9, <1>10, <1>11, <1>12, <1>13, <1>14,
     <1>15, <1>16, <1>17, <1>18, <1>19, <1>20 DEF Next, Reserving, Modifying
-----------------------------------------------------------------------------
(* Only Check begins an attempt, and not while one of the same handler is
   still to be compensated. *)
LEMMA AttemptsBegin ==
    ASSUME Typed, O!IInv, [Next]_vars, NEW k \in Handlers, Making(k)'
    PROVE  Making(k) \/ (~Releasing(k) /\ UNCHANGED calls)
<1> DEFINE Goal == Making(k) \/ (~Releasing(k) /\ UNCHANGED calls)
<1>a. req \in [Handlers -> O!Requests \cup {O!Idle}]
  BY DEF O!IInv, O!TypeOK
<1> USE DEF Making, O!Doing, O!Idle
<1>1. ASSUME NEW h \in Handlers, Check(h) PROVE Goal
  BY <1>1, <1>a DEF Check, O!CheckPaid, O!CheckActive, O!Begin, stock
<1>2. ASSUME NEW h \in Handlers, Grant(h) \/ Fallback(h) PROVE Goal
  BY <1>2, <1>a DEF Grant, Fallback, O!GrantByRedis, O!GrantByFallback
<1>3. ASSUME NEW h \in Handlers, Persist(h) \/ PersistRaises(h) \/ Abandon(h) PROVE Goal
  BY <1>3, <1>a DEF Persist, PersistRaises, Abandon, O!Insert, O!Drop, O!End
<1>4. ASSUME NEW h \in Handlers, CommitCancel(h) \/ CommitModify(h) PROVE Goal
  BY <1>4, <1>a DEF CommitCancel, CommitModify, O!CommitCancel, O!CommitModify, O!End
<1>5. ASSUME NEW h \in Handlers, NEW r \in Reservations, NEW q \in Quantity, BeginModify(h, r, q)
      PROVE Goal
  BY <1>5, <1>a DEF BeginModify, O!BeginModify, O!Begin
<1>6. ASSUME NEW h \in Handlers, NEW r \in Reservations, O!BeginPay(h, r) \/ O!BeginCancel(h, r)
      PROVE Goal
  BY <1>6, <1>a DEF O!BeginPay, O!BeginCancel, O!Begin
<1>7. ASSUME NEW h \in Handlers, O!CommitPay(h) PROVE Goal
  BY <1>7, <1>a DEF O!CommitPay, O!End
<1>8. CASE UNCHANGED req
  BY <1>8
<1> QED
  BY <1>1, <1>2, <1>3, <1>4, <1>5, <1>6, <1>7, <1>8
     DEF Next, Reserving, Modifying, Reconciling, RowsOnly, vars, rows, GrantRaises, Expire,
     O!Expire, Release, ReleaseLost, IncreaseUnits, DecreaseUnits, Changing, BeginEdit, CommitEdit,
     AdjustTotal, EditFails, O!SetTotal, AdjustCounter, AdjustLost, RecRead, RecGet, RecSet, RecFails, Restart, KeyExpires,
     O!Publish, O!Lapse, O!Consumer, O!Fetch, O!CreateOrder, O!Confirm, O!CountReserved,
     O!Reject, O!ConsumerCrash

(* A new release call names a row, or an attempt that has just ended. *)
LEMMA CallsBegin ==
    ASSUME Typed, O!IInv, [Next]_vars, NEW c \in calls'
    PROVE  \/ c \in calls
           \/ \E r \in Reservations : c.key = RowKey(r)
           \/ \E h \in Handlers : c.key = GrantKey(h) /\ ~Making(h)'
<1> DEFINE Goal == \/ c \in calls
                   \/ \E r \in Reservations : c.key = RowKey(r)
                   \/ \E h \in Handlers : c.key = GrantKey(h) /\ ~Making(h)'
<1>a. req \in [Handlers -> O!Requests \cup {O!Idle}]
  BY DEF O!IInv, O!TypeOK
<1>1. ASSUME NEW h \in Handlers, PersistRaises(h) PROVE Goal
  <2>1. req' = [req EXCEPT ![h] = O!Idle]
    BY <1>1 DEF PersistRaises, O!Insert, O!Drop, O!End
  <2>2. ~Making(h)'
    BY <2>1, <1>a DEF Making, O!Doing
  <2> QED
    BY <1>1, <2>2 DEF PersistRaises, CallRelease
<1>2. ASSUME NEW h \in Handlers, CommitCancel(h) PROVE Goal
  BY <1>2, <1>a DEF CommitCancel, CallRelease, O!CommitCancel, O!Doing, O!Requests
<1>3. ASSUME NEW r \in Reservations, Expire(r) PROVE Goal
  BY <1>3 DEF Expire, CallRelease
<1>4. CASE calls' \subseteq calls
  BY <1>4
<1> QED
  BY <1>1, <1>2, <1>3, <1>4
     DEF Next, Reserving, Modifying, Reconciling, RowsOnly, vars, stock, Check, Grant, GrantRaises,
     Fallback, Persist, Abandon, Release, ReleaseLost, BeginModify, IncreaseUnits, DecreaseUnits,
     CommitModify, Changing, BeginEdit, CommitEdit, AdjustTotal, EditFails, AdjustCounter,
     AdjustLost, RecRead, RecGet, RecSet, RecFails,
     Restart, KeyExpires

LEMMA NextNoEarly ==
    ASSUME Typed, NoEarlyRelease, O!IInv, [Next]_vars
    PROVE  NoEarlyRelease'
<1> SUFFICES ASSUME NEW k \in Handlers, Making(k)', NEW c \in calls', c.key = GrantKey(k)
             PROVE  FALSE
  BY DEF NoEarlyRelease, Releasing, Making
<1>1. c \in calls
  BY CallsBegin DEF GrantKey, RowKey
<1>2. Releasing(k)
  BY <1>1 DEF Releasing
<1>3. Making(k) /\ ~Making(k)
  BY <1>1, <1>2, AttemptsBegin DEF NoEarlyRelease, Making
<1> QED
  BY <1>3

(* Rows and orders get their units when they come into being. *)
LEMMA NextRowsEmpty ==
    ASSUME O!IInv, RowsEmpty, O!Next \/ UNCHANGED rows
    PROVE  RowsEmpty'
<1>a. /\ rstatus \in [Reservations -> {"none", "pending", "confirmed", "expired", "cancelled"}]
      /\ ostatus \in [Reservations -> {"none", "pending", "paid", "failed"}]
      /\ rqty \in [Reservations -> 0..MaxQuantity] /\ oqty \in [Reservations -> 0..MaxQuantity]
      /\ req \in [Handlers -> O!Requests \cup {O!Idle}] /\ cons \in O!Jobs \cup {O!NoJob}
  BY DEF O!IInv, O!TypeOK
<1> USE <1>a DEF RowsEmpty, O!Requests, O!Jobs, O!Idle, O!NoJob, O!Doing
<1>1. ASSUME NEW h \in Handlers, O!Insert(h) PROVE RowsEmpty'
  BY <1>1 DEF O!Insert
<1>2. ASSUME NEW h \in Handlers, O!CommitModify(h) PROVE RowsEmpty'
  BY <1>2 DEF O!CommitModify
<1>3. ASSUME NEW h \in Handlers, O!CommitPay(h) \/ O!CommitCancel(h) PROVE RowsEmpty'
  BY <1>3 DEF O!CommitPay, O!CommitCancel
<1>4. CASE O!CreateOrder
  BY <1>4 DEF O!CreateOrder
<1>5. CASE O!Confirm
  BY <1>5 DEF O!Confirm
<1>6. ASSUME NEW r \in Reservations, O!Expire(r) PROVE RowsEmpty'
  BY <1>6 DEF O!Expire, O!Active
<1>7. CASE UNCHANGED <<rstatus, rqty, ostatus, oqty>>
  BY <1>7
<1> QED
  BY <1>1, <1>2, <1>3, <1>4, <1>5, <1>6, <1>7
     DEF O!Next, O!Reserving, O!Ordering, O!Consumer, rows, O!CheckPaid, O!CheckActive, O!GrantByRedis,
     O!GrantByFallback, O!BeginModify, O!BeginPay, O!BeginCancel, O!Drop, O!Publish, O!Lapse,
     O!Fetch, O!CountReserved, O!Reject, O!ConsumerCrash, O!SetTotal
-----------------------------------------------------------------------------
(* Counting units.  A reservation or a call of n units is n pairs. *)
LEMMA UnitsOf ==
    ASSUME NEW x, NEW n \in Nat
    PROVE  IsFiniteSet({x} \X (1..n)) /\ Cardinality({x} \X (1..n)) = n
<1>1. IsFiniteSet({x}) /\ Cardinality({x}) = 1
  BY FS_Singleton
<1>2. IsFiniteSet(1..n) /\ Cardinality(1..n) = n
  BY FS_Interval
<1>3. /\ IsFiniteSet({x} \X (1..n))
      /\ Cardinality({x} \X (1..n)) = Cardinality({x}) * Cardinality(1..n)
  BY <1>1, <1>2, FS_Product
<1> QED
  BY <1>1, <1>2, <1>3

LEMMA SomeMore ==
    ASSUME NEW S, IsFiniteSet(S), NEW T, NEW X, IsFiniteSet(X), T \subseteq S \cup X
    PROVE  /\ Cardinality(S) \in Nat /\ Cardinality(T) \in Nat /\ Cardinality(X) \in Nat
           /\ Cardinality(T) <= Cardinality(S) + Cardinality(X)
<1>1. /\ IsFiniteSet(S \cup X)
      /\ Cardinality(S \cup X) = Cardinality(S) + Cardinality(X) - Cardinality(S \cap X)
  BY FS_Union
<1>2. IsFiniteSet(S \cap X)
  BY FS_Intersection
<1>3. IsFiniteSet(T) /\ Cardinality(T) <= Cardinality(S \cup X)
  BY <1>1, FS_Subset
<1>4. /\ Cardinality(S) \in Nat /\ Cardinality(X) \in Nat /\ Cardinality(S \cap X) \in Nat
      /\ Cardinality(T) \in Nat
  BY <1>2, <1>3, FS_CardinalityType
<1> QED
  BY <1>1, <1>3, <1>4

LEMMA SomeLess ==
    ASSUME NEW S, IsFiniteSet(S), NEW T, NEW X, T \cup X \subseteq S, T \cap X = {}
    PROVE  /\ Cardinality(S) \in Nat /\ Cardinality(T) \in Nat /\ Cardinality(X) \in Nat
           /\ Cardinality(T) + Cardinality(X) <= Cardinality(S)
<1>1. IsFiniteSet(T) /\ IsFiniteSet(X)
  BY FS_Subset
<1>2. /\ IsFiniteSet(T \cup X)
      /\ Cardinality(T \cup X) = Cardinality(T) + Cardinality(X) - Cardinality(T \cap X)
  BY <1>1, FS_Union
<1>3. Cardinality(T \cap X) = 0
  BY FS_EmptySet
<1>4. Cardinality(T \cup X) <= Cardinality(S)
  BY FS_Subset
<1>5. Cardinality(S) \in Nat /\ Cardinality(T) \in Nat /\ Cardinality(X) \in Nat
  BY <1>1, FS_CardinalityType
<1> QED
  BY <1>2, <1>3, <1>4, <1>5

LEMMA UnitsFinite == Typed => IsFiniteSet(ChargedUnits) /\ IsFiniteSet(ReturningUnits)
<1>1. IsFiniteSet(Quantity)
  BY FS_Interval, StockAssumption DEF Quantity
<1>2. IsFiniteSet(Reservations \X Quantity)
  BY <1>1, FS_Product, StockAssumption
<1>3. Typed => IsFiniteSet(calls \X Quantity)
  BY <1>1, FS_Product DEF Typed
<1> QED
  BY <1>2, <1>3, FS_Subset DEF ChargedUnits, ReturningUnits

(* What the counter offers, and what the stock changes have yet to add to it *)
Offer == Free + adjust

LEMMA OfferTyped ==
    ASSUME Typed, O!IInv
    PROVE  Free \in Int /\ adjust \in Int /\ Offer = Free + adjust /\ Offer \in Int /\ total \in Nat
  BY StockAssumption DEF Typed, TypeOK, Free, Offer, O!IInv, O!TypeOK

LEMMA OfferTypedNext ==
    ASSUME Typed', O!IInv'
    PROVE  /\ Free' \in Int /\ adjust' \in Int /\ Offer' = Free' + adjust' /\ Offer' \in Int
           /\ total' \in Nat
  BY StockAssumption DEF Typed, TypeOK, Free, Offer, O!IInv, O!TypeOK

(* The invariant balances: what a step charges, returns or offers anew is paid
   for by what it takes from the two others, or adds to the stock. *)
LEMMA Balance ==
    ASSUME Typed, Typed', O!IInv, O!IInv', CounterCovers, clean' => clean,
           NEW a \in Int, NEW b \in Int,
           Cardinality(ChargedUnits') \in Nat, Cardinality(ReturningUnits') \in Nat,
           Cardinality(ChargedUnits') <= Cardinality(ChargedUnits) + a,
           Cardinality(ReturningUnits') <= Cardinality(ReturningUnits) + b,
           Offer' + a + b - total' <= Offer - total
    PROVE  CounterCovers'
<1> SUFFICES ASSUME clean'
             PROVE  Cardinality(ChargedUnits') + Cardinality(ReturningUnits') + Free' + adjust' <= total'
  BY DEF CounterCovers
<1>1. Cardinality(ChargedUnits) \in Nat /\ Cardinality(ReturningUnits) \in Nat
  BY UnitsFinite, FS_CardinalityType
<1>2. Cardinality(ChargedUnits) + Cardinality(ReturningUnits) + Offer <= total
  BY <1>1, OfferTyped DEF CounterCovers
<1> QED
  BY <1>1, <1>2, OfferTyped, OfferTypedNext

(* A step that charges no unit anew, returns none, and offers no more. *)
LEMMA CoversLess ==
    ASSUME Typed, Typed', O!IInv, O!IInv', CounterCovers, clean' => clean,
           ChargedUnits' \subseteq ChargedUnits, ReturningUnits' \subseteq ReturningUnits,
           Offer' - total' <= Offer - total
    PROVE  CounterCovers'
<1>1. IsFiniteSet(ChargedUnits) /\ IsFiniteSet(ReturningUnits)
  BY UnitsFinite
<1>2. /\ Cardinality(ChargedUnits) \in Nat /\ Cardinality(ChargedUnits') \in Nat
      /\ Cardinality(ReturningUnits) \in Nat /\ Cardinality(ReturningUnits') \in Nat
      /\ Cardinality(ChargedUnits') <= Cardinality(ChargedUnits)
      /\ Cardinality(ReturningUnits') <= Cardinality(ReturningUnits)
  BY <1>1, FS_Subset, FS_CardinalityType
<1>3. /\ Cardinality(ChargedUnits') <= Cardinality(ChargedUnits) + 0
      /\ Cardinality(ReturningUnits') <= Cardinality(ReturningUnits) + 0
      /\ Offer' + 0 + 0 - total' <= Offer - total
  BY <1>2, OfferTyped, OfferTypedNext
<1> QED
  BY <1>2, <1>3, Balance

(* What is charged stays so, or is forgotten. *)
LEMMA ChargedKept ==
    ASSUME UNCHANGED <<rqty, oqty>>,
           cons' # O!NoJob => cons # O!NoJob /\ cons'.res = cons.res /\ cons'.qty = cons.qty,
           \A k \in Handlers : req'[k] # O!Idle /\ req'[k].op \in {"granted", "modifying"}
                => req'[k] = req[k] /\ shift'[k] = shift[k]
    PROVE  ChargedUnits' \subseteq ChargedUnits
<1> SUFFICES ASSUME NEW u \in ChargedUnits' PROVE u \in ChargedUnits
  OBVIOUS
<1>1. u \in Reservations \X Quantity
  BY DEF ChargedUnits
<1>2. CASE u[2] <= rqty'[u[1]] \/ u[2] <= oqty'[u[1]]
  BY <1>1, <1>2 DEF ChargedUnits
<1>3. CASE cons' # O!NoJob /\ cons'.res = u[1] /\ u[2] <= cons'.qty
  BY <1>1, <1>3 DEF ChargedUnits
<1>4. ASSUME NEW h \in Handlers, req'[h] # O!Idle, req'[h].res = u[1],
             \/ req'[h].op = "granted" /\ u[2] <= req'[h].qty
             \/ req'[h].op = "modifying" /\ u[2] <= req'[h].qty - shift'[h]
      PROVE u \in ChargedUnits
  BY <1>1, <1>4 DEF ChargedUnits
<1> QED
  BY <1>2, <1>3, <1>4 DEF ChargedUnits, O!NoJob, O!Idle

(* What is to be returned stays so, or is forgotten, also when a call for a
   row joins, whose key Redis never has. *)
LEMMA ReturningKept ==
    ASSUME Typed, keys' \subseteq keys,
           \A c \in calls' : c \in calls \/ \E r \in Reservations : c.key = RowKey(r)
    PROVE  ReturningUnits' \subseteq ReturningUnits
<1>1. \A r \in Reservations : RowKey(r) \notin keys
  BY DEF Typed, TypeOK, RowKey, GrantKey
<1> QED
  BY <1>1 DEF ReturningUnits

(* A grant, or one whose answer is lost, sets the key of an attempt that no
   call names. *)
LEMMA ReturningGrant ==
    ASSUME Typed, NoEarlyRelease, NEW h \in Handlers, O!Doing(h, "checked"), UNCHANGED calls,
           keys' \subseteq keys \cup {GrantKey(h)}
    PROVE  ReturningUnits' \subseteq ReturningUnits
<1>1. \A c \in calls : c.key # GrantKey(h)
  BY DEF NoEarlyRelease, Making, Releasing
<1> QED
  BY <1>1 DEF ReturningUnits

(* The script takes from the counter what the request asks for. *)
LEMMA Taken ==
    ASSUME Typed, Typed', O!IInv, O!IInv', NEW n \in Nat, Deduct(n), UNCHANGED <<adjust, total>>
    PROVE  Offer' + n - total' <= Offer - total
<1>1. Free = counter /\ counter \in Int
  BY DEF Deduct, Free, Typed, TypeOK
<1>2. Free' = counter - n
  BY <1>1, StockAssumption DEF Deduct, Free
<1> QED
  BY <1>1, <1>2, OfferTyped, OfferTypedNext

(* An INCRBY gives the counter what it is called with. *)
LEMMA Given ==
    ASSUME Typed, NEW n \in Int, IncrBy(n)
    PROVE  Free' = Free + n
  BY StockAssumption DEF IncrBy, Free, Typed, TypeOK

LEMMA CoversGrant ==
    ASSUME Typed, Typed', NoEarlyRelease, CounterCovers, O!IInv, O!IInv',
           NEW h \in Handlers, Grant(h)
    PROVE  CounterCovers'
<1> DEFINE r == req[h].res
           q == req[h].qty
           X == {r} \X (1..q)
<1>1. /\ req \in [Handlers -> O!Requests \cup {O!Idle}] /\ O!Doing(h, "checked")
      /\ q \in Nat /\ r \in Reservations
  BY DEF Grant, O!GrantByRedis, O!Doing, O!IInv, O!TypeOK, O!Requests, O!Quantity
<1>2. /\ UNCHANGED <<rqty, oqty, cons, calls, adjust, total, shift, clean>>
      /\ req' = [req EXCEPT ![h].op = "granted"]
      /\ Deduct(q) /\ keys' = keys \cup {GrantKey(h)}
  BY DEF Grant, O!GrantByRedis, O!inventory
<1>3. ChargedUnits' \subseteq ChargedUnits \cup X
  <2> SUFFICES ASSUME NEW u \in ChargedUnits', u \notin ChargedUnits PROVE u \in X
    OBVIOUS
  <2>1. u \in Reservations \X Quantity
    BY DEF ChargedUnits
  <2>2. PICK k \in Handlers :
            /\ req'[k] # O!Idle /\ req'[k].res = u[1]
            /\ \/ req'[k].op = "granted" /\ u[2] <= req'[k].qty
               \/ req'[k].op = "modifying" /\ u[2] <= req'[k].qty - shift'[k]
    BY <1>2, <2>1 DEF ChargedUnits, O!Idle, O!NoJob
  <2>3. k = h
    BY <1>1, <1>2, <2>1, <2>2 DEF ChargedUnits
  <2>4. req'[h].res = r /\ req'[h].qty = q /\ req'[h].op = "granted"
    BY <1>1, <1>2 DEF O!Doing, O!Requests
  <2>5. u[1] = r /\ u[2] <= q
    BY <2>2, <2>3, <2>4
  <2> QED
    BY <2>1, <2>5, <1>1 DEF Quantity
<1>4. IsFiniteSet(X) /\ Cardinality(X) = q
  BY <1>1, UnitsOf
<1>5. IsFiniteSet(ChargedUnits) /\ IsFiniteSet(ReturningUnits)
  BY UnitsFinite
<1>6. Cardinality(ChargedUnits') \in Nat /\ Cardinality(ChargedUnits') <= Cardinality(ChargedUnits) + q
  <2> HIDE DEF X
  <2> QED
    BY <1>3, <1>4, <1>5, SomeMore
<1>7. ReturningUnits' \subseteq ReturningUnits
  BY <1>1, <1>2, ReturningGrant
<1>8. /\ Cardinality(ReturningUnits') \in Nat
      /\ Cardinality(ReturningUnits') <= Cardinality(ReturningUnits) + 0
  BY <1>5, <1>7, FS_Subset, FS_CardinalityType
<1>9. Offer' + q + 0 - total' <= Offer - total
  BY <1>1, <1>2, Taken, OfferTyped, OfferTypedNext
<1> HIDE DEF q
<1> QED
  BY <1>1, <1>2, <1>6, <1>8, <1>9, Balance

LEMMA CoversIncrease ==
    ASSUME Typed, Typed', CounterCovers, O!IInv, O!IInv', NEW h \in Handlers, IncreaseUnits(h)
    PROVE  CounterCovers'
<1> DEFINE r == req[h].res
           d == shift[h]
           q == req[h].qty
           X == {p \in {r} \X (1..q) : p[2] > q - d}
<1>1. /\ req \in [Handlers -> O!Requests \cup {O!Idle}] /\ O!Doing(h, "modifying")
      /\ q \in Nat /\ r \in Reservations /\ d \in Nat /\ d > 0 /\ shift \in [Handlers -> Int]
  <2>1. d \in Int /\ d > 0 /\ O!Doing(h, "modifying") /\ shift \in [Handlers -> Int]
    BY DEF IncreaseUnits, Typed, TypeOK
  <2> QED
    BY <2>1 DEF O!Doing, O!IInv, O!TypeOK, O!Requests, O!Quantity
<1>2. /\ UNCHANGED <<rqty, oqty, cons, req, calls, keys, adjust, total, clean>>
      /\ shift' = [shift EXCEPT ![h] = 0]
      /\ Deduct(d)
  BY DEF IncreaseUnits, rows
<1>3. ChargedUnits' \subseteq ChargedUnits \cup X
  <2> SUFFICES ASSUME NEW u \in ChargedUnits', u \notin ChargedUnits PROVE u \in X
    OBVIOUS
  <2>1. u \in Reservations \X Quantity
    BY DEF ChargedUnits
  <2>2. PICK k \in Handlers :
            /\ req[k] # O!Idle /\ req[k].res = u[1]
            /\ \/ req[k].op = "granted" /\ u[2] <= req[k].qty
               \/ req[k].op = "modifying" /\ u[2] <= req[k].qty - shift'[k]
    BY <1>2, <2>1 DEF ChargedUnits, O!Idle, O!NoJob
  <2>3. k = h /\ req[k].op = "modifying"
    BY <1>1, <1>2, <2>1, <2>2 DEF ChargedUnits
  <2>4. u[1] = r /\ u[2] <= q - 0 /\ u[2] \in Nat /\ u[2] >= 1
    BY <1>1, <1>2, <2>1, <2>2, <2>3 DEF Quantity
  <2>5. ~(u[2] <= q - d)
    BY <1>1, <2>1, <2>2, <2>3 DEF ChargedUnits
  <2> QED
    BY <2>1, <2>4, <2>5, <1>1
<1>4. IsFiniteSet(X) /\ Cardinality(X) <= d /\ Cardinality(X) \in Nat
  <2> DEFINE a == (q - d) + 1
             Y == {r} \X (a..q)
  <2>1. a \in Int /\ ~(a > q) /\ (q - a) + 1 = d
    BY <1>1
  <2>2. IsFiniteSet(a..q) /\ Cardinality(a..q) = d
    <3> HIDE DEF a, d, q
    <3> QED
      BY <1>1, <2>1, FS_Interval
  <2>3. IsFiniteSet({r}) /\ Cardinality({r}) = 1
    BY FS_Singleton
  <2>4. IsFiniteSet(Y) /\ Cardinality(Y) = Cardinality({r}) * Cardinality(a..q)
    <3> HIDE DEF a, q
    <3> QED
      BY <2>2, <2>3, FS_Product
  <2>5. IsFiniteSet(Y) /\ Cardinality(Y) = d
    <3> HIDE DEF a, q, d, Y
    <3> QED
      BY <1>1, <2>2, <2>3, <2>4
  <2>6. X \subseteq Y
    BY <1>1, <2>1
  <2> HIDE DEF X, Y
  <2> QED
    BY <2>5, <2>6, FS_Subset, FS_CardinalityType
<1>5. IsFiniteSet(ChargedUnits) /\ IsFiniteSet(ReturningUnits)
  BY UnitsFinite
<1>6. Cardinality(ChargedUnits') \in Nat /\ Cardinality(ChargedUnits') <= Cardinality(ChargedUnits) + d
  <2> HIDE DEF X, d
  <2> QED
    BY <1>1, <1>3, <1>4, <1>5, SomeMore
<1>7. ReturningUnits' \subseteq ReturningUnits
  BY <1>2, ReturningKept
<1>8. /\ Cardinality(ReturningUnits') \in Nat
      /\ Cardinality(ReturningUnits') <= Cardinality(ReturningUnits) + 0
  BY <1>5, <1>7, FS_Subset, FS_CardinalityType
<1>9. Offer' + d + 0 - total' <= Offer - total
  BY <1>1, <1>2, Taken, OfferTyped, OfferTypedNext
<1> HIDE DEF d
<1> QED
  BY <1>1, <1>2, <1>6, <1>8, <1>9, Balance

(* The insert failed: the units of the attempt are no longer charged, and
   will be returned. *)
LEMMA CoversCompensate ==
    ASSUME Typed, Typed', NoEarlyRelease, RowsEmpty, CounterCovers, O!IInv, O!IInv',
           NEW h \in Handlers, PersistRaises(h)
    PROVE  CounterCovers'
<1> DEFINE r == req[h].res
           q == req[h].qty
           c == [key |-> GrantKey(h), qty |-> q]
           X == {r} \X (1..q)
           Y == {c} \X (1..q)
<1>1. CASE clean' = FALSE
  BY <1>1 DEF CounterCovers
<1>2. CASE clean' # FALSE
  <2>1. /\ UNCHANGED <<rqty, oqty, cons, keys, counter, adjust, total, shift, clean>>
        /\ req' = [req EXCEPT ![h] = O!Idle] /\ calls' = calls \cup {c}
        /\ O!Doing(h, "granted")
    BY <1>2 DEF PersistRaises, O!Drop, O!End, O!inventory, CallRelease
  <2>2. /\ req \in [Handlers -> O!Requests \cup {O!Idle}] /\ req[h] # O!Idle
        /\ req[h].op = "granted" /\ q \in Nat /\ q \in Quantity /\ r \in Reservations
    BY <2>1 DEF O!Doing, O!IInv, O!TypeOK, O!Requests, O!Quantity, Quantity
  <2>3. /\ rqty[r] = 0 /\ oqty[r] = 0
        /\ cons # O!NoJob => cons.res # r
        /\ \A k \in Handlers : k # h /\ req[k] # O!Idle => req[k].res # r
    BY <2>2 DEF RowsEmpty, O!IInv, O!RequestsCurrent, O!RowsFilled, O!JobCurrent
  <2>4. X \subseteq ChargedUnits
    <3>1. 1..q \subseteq Quantity
      BY <2>2, StockAssumption DEF Quantity
    <3>2. \A u \in X : u \in Reservations \X Quantity /\ u[1] = r /\ u[2] <= q
      BY <2>2, <3>1
    <3> QED
      BY <2>2, <3>2 DEF ChargedUnits
  <2>5. ChargedUnits' \subseteq ChargedUnits
    <3>1. \A k \in Handlers : req'[k] # O!Idle => req'[k] = req[k]
      BY <2>1, <2>2
    <3> QED
      BY <2>1, <3>1, ChargedKept
  <2>6. ChargedUnits' \cap X = {}
    <3> SUFFICES ASSUME NEW u \in ChargedUnits', u[1] = r PROVE FALSE
      OBVIOUS
    <3>1. u[2] \in Quantity /\ u[2] >= 1
      BY DEF ChargedUnits, Quantity
    <3>2. ~(u[2] <= rqty'[u[1]]) /\ ~(u[2] <= oqty'[u[1]])
      BY <2>1, <2>3, <3>1 DEF Quantity
    <3>3. ~(cons' # O!NoJob /\ cons'.res = u[1])
      BY <2>1, <2>3
    <3>4. \A k \in Handlers : ~(req'[k] # O!Idle /\ req'[k].res = u[1])
      BY <2>1, <2>2, <2>3
    <3> QED
      BY <3>2, <3>3, <3>4 DEF ChargedUnits, O!NoJob, O!Idle
  <2>7. ReturningUnits' \subseteq ReturningUnits \cup Y
    BY <2>1, <2>2 DEF ReturningUnits, Quantity
  <2>8. /\ IsFiniteSet(ChargedUnits) /\ IsFiniteSet(ReturningUnits)
        /\ Cardinality(X) = q /\ IsFiniteSet(Y) /\ Cardinality(Y) = q
    BY <2>2, UnitsFinite, UnitsOf
  <2>9. /\ Cardinality(ChargedUnits) \in Nat /\ Cardinality(ChargedUnits') \in Nat
        /\ Cardinality(ChargedUnits') + q <= Cardinality(ChargedUnits)
    <3>1. ChargedUnits' \cup X \subseteq ChargedUnits
      BY <2>4, <2>5
    <3> HIDE DEF X, q
    <3> QED
      BY <3>1, <2>6, <2>8, SomeLess
  <2>10. /\ Cardinality(ReturningUnits') \in Nat
         /\ Cardinality(ReturningUnits') <= Cardinality(ReturningUnits) + q
    <3> HIDE DEF Y, q
    <3> QED
      BY <2>7, <2>8, SomeMore
  <2>11. Cardinality(ChargedUnits') <= Cardinality(ChargedUnits) + (-q)
    <3> HIDE DEF q
    <3> QED
      BY <2>2, <2>9
  <2>12. Offer' = Offer
    BY <2>1 DEF Offer, Free
  <2>13. Offer' + (-q) + q - total' <= Offer - total
    <3> HIDE DEF q
    <3> QED
      BY <2>1, <2>2, <2>12, OfferTyped, OfferTypedNext
  <2>14. -q \in Int /\ q \in Int
    BY <2>2
  <2> HIDE DEF q
  <2> QED
    BY <2>1, <2>9, <2>10, <2>11, <2>13, <2>14, Balance
<1> QED
  BY <1>1, <1>2

(* The script returns the units of a call whose key Redis still has, once. *)
LEMMA CoversRelease ==
    ASSUME Typed, Typed', CounterCovers, O!IInv, O!IInv', NEW c \in calls, Release(c)
    PROVE  CounterCovers'
<1> DEFINE q == c.qty
           Y == {c} \X (1..q)
<1>1. /\ UNCHANGED <<rows, shift, adjust, clean>> /\ calls' = calls \ {c}
      /\ UNCHANGED <<rqty, oqty, cons, req, total>>
  BY DEF Release, rows
<1>2. ChargedUnits' \subseteq ChargedUnits
  BY <1>1, ChargedKept
<1>3. CASE c.key \in keys
  <2>1. IncrBy(q) /\ keys' = keys \ {c.key} /\ q \in Nat /\ q \in Quantity
    BY <1>3 DEF Release, Typed, TypeOK, ReleaseCalls, Quantity
  <2>2. ReturningUnits' \cup Y \subseteq ReturningUnits /\ ReturningUnits' \cap Y = {}
    <3>1. 1..q \subseteq Quantity
      BY <2>1, StockAssumption DEF Quantity
    <3>2. \A p \in Y : p \in calls \X Quantity /\ p[1] = c /\ p[2] <= q
      BY <3>1
    <3>3. Y \subseteq ReturningUnits
      BY <1>3, <3>2 DEF ReturningUnits
    <3>4. ReturningUnits' \subseteq ReturningUnits
      BY <1>1, <2>1 DEF ReturningUnits
    <3>5. \A p \in ReturningUnits' : p[1] # c
      BY <1>1 DEF ReturningUnits
    <3> QED
      BY <3>2, <3>3, <3>4, <3>5
  <2>3. /\ IsFiniteSet(ChargedUnits) /\ IsFiniteSet(ReturningUnits) /\ Cardinality(Y) = q
    BY <2>1, UnitsFinite, UnitsOf
  <2>4. /\ Cardinality(ReturningUnits) \in Nat /\ Cardinality(ReturningUnits') \in Nat
        /\ Cardinality(ReturningUnits') + q <= Cardinality(ReturningUnits)
    <3> HIDE DEF Y, q
    <3> QED
      BY <2>2, <2>3, SomeLess
  <2>5. /\ Cardinality(ChargedUnits') \in Nat
        /\ Cardinality(ChargedUnits') <= Cardinality(ChargedUnits) + 0
    BY <1>2, <2>3, FS_Subset, FS_CardinalityType
  <2>6. Free' = Free + q
    BY <2>1, Given
  <2> HIDE DEF q
  <2>7. Cardinality(ReturningUnits') <= Cardinality(ReturningUnits) + (-q)
    BY <2>1, <2>4
  <2>8. Offer' + 0 + (-q) - total' <= Offer - total
    BY <1>1, <2>1, <2>6, OfferTyped, OfferTypedNext
  <2>9. -q \in Int /\ 0 \in Int
    BY <2>1
  <2> QED
    BY <1>1, <2>4, <2>5, <2>7, <2>8, <2>9, Balance
<1>4. CASE c.key \notin keys
  <2>1. UNCHANGED <<counter, keys>>
    BY <1>4 DEF Release
  <2>2. ReturningUnits' \subseteq ReturningUnits
    BY <1>1, <2>1, ReturningKept
  <2>3. Offer' - total' <= Offer - total
    BY <1>1, <2>1, OfferTyped, OfferTypedNext DEF Offer, Free
  <2> QED
    BY <1>1, <1>2, <2>2, <2>3, CoversLess
<1> QED
  BY <1>3, <1>4

(* Steps on the rows alone: whatever they charge, they take over from a row
   that was charged already.  A payment revives units that never left. *)
LEMMA RowsCharge ==
    ASSUME Typed, O!IInv, RowsOnly
    PROVE  ChargedUnits' \subseteq ChargedUnits
<1>a. /\ req \in [Handlers -> O!Requests \cup {O!Idle}] /\ cons \in O!Jobs \cup {O!NoJob}
      /\ oqty \in [Reservations -> 0..MaxQuantity]
  BY DEF O!IInv, O!TypeOK
<1>b. UNCHANGED shift
  BY DEF RowsOnly, stock
<1>1. ASSUME NEW h \in Handlers, NEW r \in Reservations, O!BeginPay(h, r) \/ O!BeginCancel(h, r)
      PROVE ChargedUnits' \subseteq ChargedUnits
  <2>1. UNCHANGED <<rqty, oqty, cons>>
    BY <1>1 DEF O!BeginPay, O!BeginCancel
  <2>2. \A k \in Handlers : req'[k].op \in {"granted", "modifying"} => req'[k] = req[k]
    BY <1>1, <1>a DEF O!BeginPay, O!BeginCancel, O!Begin
  <2> QED
    BY <2>1, <2>2, <1>b, ChargedKept
<1>2. ASSUME NEW h \in Handlers, O!CommitPay(h) PROVE ChargedUnits' \subseteq ChargedUnits
  <2>1. UNCHANGED <<rqty, oqty, cons>>
    BY <1>2 DEF O!CommitPay
  <2>2. \A k \in Handlers : req'[k] # O!Idle => req'[k] = req[k]
    BY <1>2, <1>a DEF O!CommitPay, O!End
  <2> QED
    BY <2>1, <2>2, <1>b, ChargedKept
<1>3. ASSUME NEW r \in Reservations, O!Publish(r) \/ O!Lapse(r)
      PROVE ChargedUnits' \subseteq ChargedUnits
  BY <1>3, <1>b, ChargedKept DEF O!Publish, O!Lapse
<1>4. ASSUME NEW r \in Reservations, O!Fetch(r) PROVE ChargedUnits' \subseteq ChargedUnits
  <2>1. UNCHANGED <<rqty, oqty, req>>
    BY <1>4 DEF O!Fetch
  <2>2. CASE cons' = O!NoJob
    BY <2>1, <2>2, <1>b, ChargedKept
  <2>3. CASE cons'.res = r /\ cons'.qty = rqty[r]
    <3> SUFFICES ASSUME NEW u \in ChargedUnits', u \notin ChargedUnits PROVE FALSE
      OBVIOUS
    <3>1. u \in Reservations \X Quantity
      BY DEF ChargedUnits
    <3>2. cons'.res = u[1] /\ u[2] <= cons'.qty
      BY <2>1, <3>1, <1>b DEF ChargedUnits, O!NoJob, O!Idle
    <3> QED
      BY <2>3, <3>1, <3>2 DEF ChargedUnits
  <2> QED
    BY <1>4, <2>2, <2>3 DEF O!Fetch, O!Settle
<1>5. CASE O!CreateOrder
  <2>1. /\ UNCHANGED <<rqty, req>> /\ cons # O!NoJob
        /\ oqty' = [oqty EXCEPT ![cons.res] = cons.qty]
        /\ cons' = [cons EXCEPT !.step = "confirm"]
    BY <1>5 DEF O!CreateOrder
  <2>2. cons'.res = cons.res /\ cons'.qty = cons.qty
    BY <2>1, <1>a DEF O!Jobs
  <2> SUFFICES ASSUME NEW u \in ChargedUnits', u \notin ChargedUnits PROVE FALSE
    OBVIOUS
  <2>3. u \in Reservations \X Quantity
    BY DEF ChargedUnits
  <2>4. ~(cons'.res = u[1] /\ u[2] <= cons'.qty)
    BY <2>1, <2>2, <2>3 DEF ChargedUnits
  <2>5. u[2] <= oqty'[u[1]]
    BY <2>1, <2>3, <2>4, <1>b DEF ChargedUnits, O!NoJob, O!Idle
  <2>6. ~(u[2] <= oqty[u[1]])
    BY <2>3 DEF ChargedUnits
  <2>7. u[1] = cons.res /\ u[2] <= cons.qty
    BY <2>1, <2>3, <2>5, <2>6, <1>a
  <2> QED
    BY <2>2, <2>4, <2>7
<1>6. CASE O!Confirm
  <2>1. UNCHANGED <<rqty, oqty, req>> /\ cons # O!NoJob /\ cons' = [cons EXCEPT !.step = "count"]
    BY <1>6 DEF O!Confirm
  <2>2. cons'.res = cons.res /\ cons'.qty = cons.qty
    BY <2>1, <1>a DEF O!Jobs
  <2> QED
    BY <2>1, <2>2, <1>b, ChargedKept
<1>7. CASE O!CountReserved \/ O!Reject \/ O!ConsumerCrash
  BY <1>7, <1>b, ChargedKept DEF O!CountReserved, O!Reject, O!ConsumerCrash, O!Settle
<1> QED
  BY <1>1, <1>2, <1>3, <1>4, <1>5, <1>6, <1>7 DEF RowsOnly, O!Consumer

(* A stock change moves no unit.  An edit has read at least the stock it
   overwrites, or ends clean. *)
LEMMA CoversChange ==
    ASSUME Typed, Typed', O!IInv, O!IInv', CounterCovers, NEW m \in Managers, Changing(m)
    PROVE  CounterCovers'
<1>1. UNCHANGED <<rqty, oqty, cons, req, keys, calls, shift>>
  BY DEF Changing, BeginEdit, EditFails, CommitEdit, AdjustTotal, AdjustCounter, AdjustLost,
     O!SetTotal, rows
<1>2. ChargedUnits' \subseteq ChargedUnits /\ ReturningUnits' \subseteq ReturningUnits
  BY <1>1, ChargedKept, ReturningKept
<1>a. admin[m] \in StockChanges \cup {NoChange}
  BY DEF Typed, TypeOK
<1>3. CASE BeginEdit(m) \/ EditFails(m)
  <2>1. UNCHANGED <<counter, adjust, total, clean>>
    BY <1>3 DEF BeginEdit, EditFails, rows
  <2>2. Offer' - total' <= Offer - total
    BY <2>1, OfferTyped DEF Offer, Free
  <2> QED
    BY <1>2, <2>1, <2>2, CoversLess
<1>4. ASSUME NEW t \in Totals, CommitEdit(m, t) PROVE CounterCovers'
  <2> DEFINE seen == admin[m].seen
  <2>1. seen \in Int /\ t \in Int
    BY <1>4, <1>a, StockAssumption DEF CommitEdit, StockChanges, NoChange
  <2>2. /\ counter' = counter /\ adjust' = adjust + (t - seen) /\ total' = t
        /\ (clean' => clean /\ total <= seen)
    BY <1>4 DEF CommitEdit, O!SetTotal
  <2>3. Free' = Free
    BY <2>2 DEF Free
  <2>4. CASE clean'
    <3>1. Offer' - total' <= Offer - total
      BY <2>1, <2>2, <2>3, <2>4, OfferTyped, OfferTypedNext
    <3> QED
      BY <1>2, <2>2, <3>1, CoversLess
  <2>5. CASE ~clean'
    BY <2>5 DEF CounterCovers
  <2> QED
    BY <2>4, <2>5
<1>5. ASSUME NEW t \in Totals, AdjustTotal(m, t) PROVE CounterCovers'
  <2>1. t \in Int
    BY StockAssumption
  <2>2. UNCHANGED <<counter, clean>> /\ adjust' = adjust + (t - total) /\ total' = t
    BY <1>5 DEF AdjustTotal, O!SetTotal
  <2>3. Free' = Free
    BY <2>2 DEF Free
  <2>4. Offer' - total' <= Offer - total
    BY <2>1, <2>2, <2>3, OfferTyped, OfferTypedNext
  <2> QED
    BY <1>2, <2>2, <2>4, CoversLess
<1>6. CASE AdjustCounter(m)
  <2> DEFINE n == admin[m].by
  <2>1. n \in Int
    BY <1>6, <1>a DEF AdjustCounter, StockChanges, NoChange
  <2>2. UNCHANGED <<total, clean>> /\ adjust' = adjust - n
    BY <1>6 DEF AdjustCounter, rows
  <2>3. Free' = Free + n
    BY <1>6, <2>1, Given DEF AdjustCounter
  <2>4. Offer' - total' <= Offer - total
    BY <2>1, <2>2, <2>3, OfferTyped, OfferTypedNext
  <2> QED
    BY <1>2, <2>2, <2>4, CoversLess
<1>7. CASE AdjustLost(m)
  <2> DEFINE n == admin[m].by
  <2>1. n \in Int
    BY <1>7, <1>a DEF AdjustLost, StockChanges, NoChange
  <2>2. UNCHANGED <<total, counter>> /\ adjust' = adjust - n /\ (clean' => clean /\ n >= 0)
    BY <1>7 DEF AdjustLost, rows
  <2>3. Free' = Free
    BY <2>2 DEF Free
  <2>4. CASE clean'
    <3>1. Offer' - total' <= Offer - total
      BY <2>1, <2>2, <2>3, <2>4, OfferTyped, OfferTypedNext
    <3> QED
      BY <1>2, <2>2, <3>1, CoversLess
  <2>5. CASE ~clean'
    BY <2>5 DEF CounterCovers
  <2> QED
    BY <2>4, <2>5
<1> QED
  BY <1>3, <1>4, <1>5, <1>6, <1>7 DEF Changing

LEMMA NextCovers ==
    ASSUME Typed, Typed', NoEarlyRelease, RowsEmpty, CounterCovers, O!IInv, O!IInv', [Next]_vars
    PROVE  CounterCovers'
<1>a. /\ req \in [Handlers -> O!Requests \cup {O!Idle}]
      /\ rqty \in [Reservations -> 0..MaxQuantity] /\ shift \in [Handlers -> Int]
  BY DEF O!IInv, O!TypeOK, Typed, TypeOK
<1>1. ASSUME NEW h \in Handlers, Check(h) PROVE CounterCovers'
  <2>1. UNCHANGED <<rqty, oqty, cons, total, stock>>
    BY <1>1 DEF Check, O!CheckPaid, O!CheckActive, O!inventory
  <2>2. \A k \in Handlers : req'[k].op \in {"granted", "modifying"} => req'[k] = req[k]
    <3>1. ASSUME NEW r \in Reservations, NEW q \in Quantity, O!CheckPaid(h, r, q) PROVE <2>2
      BY <3>1, <1>a DEF O!CheckPaid, O!Begin
    <3>2. CASE O!CheckActive(h)
      BY <3>2, <1>a DEF O!CheckActive, O!Doing
    <3> QED
      BY <1>1, <3>1, <3>2 DEF Check
  <2>3. ChargedUnits' \subseteq ChargedUnits
    BY <2>1, <2>2, ChargedKept DEF stock
  <2>4. ReturningUnits' \subseteq ReturningUnits
    BY <2>1, ReturningKept DEF stock
  <2>5. Offer' - total' <= Offer - total
    BY <2>1, OfferTyped DEF Offer, Free, stock
  <2> QED
    BY <2>1, <2>3, <2>4, <2>5, CoversLess DEF stock
<1>2. ASSUME NEW h \in Handlers, Grant(h) PROVE CounterCovers'
  BY <1>2, CoversGrant
<1>3. ASSUME NEW h \in Handlers, GrantRaises(h) PROVE CounterCovers'
  <2>1. /\ UNCHANGED <<rqty, oqty, cons, req, total, calls, shift, adjust, clean>>
        /\ O!Doing(h, "checked") /\ keys' \subseteq keys \cup {GrantKey(h)}
    BY <1>3 DEF GrantRaises, rows
  <2>2. ChargedUnits' \subseteq ChargedUnits
    BY <2>1, ChargedKept
  <2>3. ReturningUnits' \subseteq ReturningUnits
    BY <2>1, ReturningGrant
  <2>4. Offer' - total' <= Offer - total
    <3>1. CASE UNCHANGED counter
      BY <2>1, <3>1, OfferTyped DEF Offer, Free
    <3>2. CASE Deduct(req[h].qty)
      <4>1. req[h].qty \in Nat
        BY <2>1, <1>a DEF O!Doing, O!Requests, O!Quantity
      <4>2. Offer' + req[h].qty - total' <= Offer - total
        BY <2>1, <3>2, <4>1, Taken
      <4> QED
        BY <4>1, <4>2, OfferTyped, OfferTypedNext
    <3> QED
      BY <1>3, <3>1, <3>2 DEF GrantRaises
  <2> QED
    BY <2>1, <2>2, <2>3, <2>4, CoversLess
<1>4. ASSUME NEW h \in Handlers, Fallback(h) \/ DecreaseUnits(h) PROVE CounterCovers'
  BY <1>4 DEF Fallback, DecreaseUnits, CounterCovers
<1>5. ASSUME NEW h \in Handlers, Persist(h) PROVE CounterCovers'
  <2> DEFINE r == req[h].res
             q == req[h].qty
  <2>1. /\ UNCHANGED <<oqty, cons, total, counter, calls, shift, adjust, clean>>
        /\ keys' \subseteq keys
        /\ rqty' = [rqty EXCEPT ![r] = q]
        /\ req' = [req EXCEPT ![h] = O!Idle] /\ O!Doing(h, "granted")
    BY <1>5 DEF Persist, Forget, O!Insert, O!End, O!inventory
  <2>2. ChargedUnits' \subseteq ChargedUnits
    <3> SUFFICES ASSUME NEW u \in ChargedUnits', u \notin ChargedUnits PROVE FALSE
      OBVIOUS
    <3>1. u \in Reservations \X Quantity
      BY DEF ChargedUnits
    <3>2. u[2] <= rqty'[u[1]]
      BY <2>1, <3>1, <1>a DEF ChargedUnits, O!NoJob, O!Idle
    <3>3. ~(u[2] <= rqty[u[1]])
      BY <3>1 DEF ChargedUnits
    <3>4. u[1] = r /\ u[2] <= q
      BY <2>1, <3>1, <3>2, <3>3, <1>a
    <3> QED
      BY <2>1, <3>1, <3>4 DEF ChargedUnits, O!Doing
  <2>3. ReturningUnits' \subseteq ReturningUnits
    BY <2>1, ReturningKept
  <2>4. Offer' - total' <= Offer - total
    BY <2>1, OfferTyped DEF Offer, Free
  <2> QED
    BY <2>1, <2>2, <2>3, <2>4, CoversLess
<1>6. ASSUME NEW h \in Handlers, PersistRaises(h) PROVE CounterCovers'
  BY <1>6, CoversCompensate
<1>7. ASSUME NEW h \in Handlers, Abandon(h) PROVE CounterCovers'
  <2>1. /\ UNCHANGED <<rqty, oqty, cons, total, counter, calls, adjust, clean>>
        /\ keys' \subseteq keys
        /\ req' = [req EXCEPT ![h] = O!Idle] /\ shift' = [shift EXCEPT ![h] = 0]
    BY <1>7 DEF Abandon, Forget, O!Drop, O!End, O!inventory
  <2>2. ChargedUnits' \subseteq ChargedUnits
    BY <2>1, <1>a, ChargedKept
  <2>3. ReturningUnits' \subseteq ReturningUnits
    BY <2>1, ReturningKept
  <2>4. Offer' - total' <= Offer - total
    BY <2>1, OfferTyped DEF Offer, Free
  <2> QED
    BY <2>1, <2>2, <2>3, <2>4, CoversLess
<1>8. ASSUME NEW c \in calls, Release(c) PROVE CounterCovers'
  BY <1>8, CoversRelease
<1>9. ASSUME NEW c \in calls, ReleaseLost(c) PROVE CounterCovers'
  <2>1. /\ UNCHANGED <<rqty, oqty, cons, req, total, counter, shift, adjust, clean>>
        /\ keys' \subseteq keys /\ calls' \subseteq calls
    BY <1>9 DEF ReleaseLost, rows
  <2>2. ChargedUnits' \subseteq ChargedUnits /\ ReturningUnits' \subseteq ReturningUnits
    BY <2>1, ChargedKept, ReturningKept
  <2>3. Offer' - total' <= Offer - total
    BY <2>1, OfferTyped DEF Offer, Free
  <2> QED
    BY <2>1, <2>2, <2>3, CoversLess
<1>10. ASSUME NEW h \in Handlers, CommitCancel(h) PROVE CounterCovers'
  <2>1. /\ UNCHANGED <<rqty, oqty, cons, total, counter, keys, shift, adjust, clean>>
        /\ req' = [req EXCEPT ![h] = O!Idle] /\ req[h].res \in Reservations
        /\ \A c \in calls' : c \in calls \/ c.key = RowKey(req[h].res)
    BY <1>10, <1>a DEF CommitCancel, CallRelease, O!CommitCancel, O!End, O!Doing, O!Requests
  <2>2. ChargedUnits' \subseteq ChargedUnits
    BY <2>1, <1>a, ChargedKept
  <2>3. ReturningUnits' \subseteq ReturningUnits
    BY <2>1, ReturningKept
  <2>4. Offer' - total' <= Offer - total
    BY <2>1, OfferTyped DEF Offer, Free
  <2> QED
    BY <2>1, <2>2, <2>3, <2>4, CoversLess
<1>11. ASSUME NEW r \in Reservations, Expire(r) PROVE CounterCovers'
  <2>1. /\ UNCHANGED <<rqty, oqty, cons, req, total, counter, keys, shift, adjust, clean>>
        /\ \A c \in calls' : c \in calls \/ c.key = RowKey(r)
    BY <1>11 DEF Expire, CallRelease, O!Expire
  <2>2. ChargedUnits' \subseteq ChargedUnits /\ ReturningUnits' \subseteq ReturningUnits
    BY <2>1, ChargedKept, ReturningKept
  <2>3. Offer' - total' <= Offer - total
    BY <2>1, OfferTyped DEF Offer, Free
  <2> QED
    BY <2>1, <2>2, <2>3, CoversLess
<1>12. ASSUME NEW h \in Handlers, NEW r \in Reservations, NEW q \in Quantity, BeginModify(h, r, q)
       PROVE CounterCovers'
  <2>1. /\ UNCHANGED <<rqty, oqty, cons, total, counter, keys, calls, adjust, clean>>
        /\ shift' = [shift EXCEPT ![h] = q - rqty[r]]
        /\ req' = [req EXCEPT ![h] = [op |-> "modifying", res |-> r, qty |-> q]]
    BY <1>12 DEF BeginModify, O!BeginModify, O!Begin, O!inventory
  <2>2. ChargedUnits' \subseteq ChargedUnits
    <3> SUFFICES ASSUME NEW u \in ChargedUnits', u \notin ChargedUnits PROVE FALSE
      OBVIOUS
    <3>1. u \in Reservations \X Quantity
      BY DEF ChargedUnits
    <3>2. PICK k \in Handlers :
            /\ req'[k] # O!Idle /\ req'[k].res = u[1]
            /\ \/ req'[k].op = "granted" /\ u[2] <= req'[k].qty
               \/ req'[k].op = "modifying" /\ u[2] <= req'[k].qty - shift'[k]
      BY <2>1, <3>1 DEF ChargedUnits, O!Idle, O!NoJob
    <3>3. k = h
      BY <2>1, <3>1, <3>2, <1>a DEF ChargedUnits
    <3>4. u[1] = r /\ u[2] <= q - (q - rqty[r])
      BY <2>1, <3>2, <3>3, <1>a
    <3>5. u[2] <= rqty[r]
      BY <3>1, <3>4, <1>a DEF Quantity
    <3> QED
      BY <3>1, <3>4, <3>5 DEF ChargedUnits
  <2>3. ReturningUnits' \subseteq ReturningUnits
    BY <2>1, ReturningKept
  <2>4. Offer' - total' <= Offer - total
    BY <2>1, OfferTyped DEF Offer, Free
  <2> QED
    BY <2>1, <2>2, <2>3, <2>4, CoversLess
<1>13. ASSUME NEW h \in Handlers, IncreaseUnits(h) PROVE CounterCovers'
  BY <1>13, CoversIncrease
<1>14. ASSUME NEW h \in Handlers, CommitModify(h) PROVE CounterCovers'
  <2> DEFINE r == req[h].res
             q == req[h].qty
  <2>1. /\ UNCHANGED <<oqty, cons, total, stock>> /\ shift[h] = 0
        /\ rqty' = [rqty EXCEPT ![r] = q]
        /\ req' = [req EXCEPT ![h] = O!Idle] /\ O!Doing(h, "modifying")
    BY <1>14 DEF CommitModify, O!CommitModify, O!End, O!inventory
  <2>2. ChargedUnits' \subseteq ChargedUnits
    <3> SUFFICES ASSUME NEW u \in ChargedUnits', u \notin ChargedUnits PROVE FALSE
      OBVIOUS
    <3>1. u \in Reservations \X Quantity
      BY DEF ChargedUnits
    <3>2. u[2] <= rqty'[u[1]]
      BY <2>1, <3>1, <1>a DEF ChargedUnits, O!NoJob, O!Idle, stock
    <3>3. ~(u[2] <= rqty[u[1]])
      BY <3>1 DEF ChargedUnits
    <3>4. u[1] = r /\ u[2] <= q
      BY <2>1, <3>1, <3>2, <3>3, <1>a
    <3>5. q \in Nat /\ q - shift[h] = q
      BY <2>1, <1>a DEF O!Doing, O!Requests, O!Quantity
    <3> QED
      BY <2>1, <3>1, <3>4, <3>5 DEF ChargedUnits, O!Doing
  <2>3. ReturningUnits' \subseteq ReturningUnits
    BY <2>1, ReturningKept DEF stock
  <2>4. Offer' - total' <= Offer - total
    BY <2>1, OfferTyped DEF Offer, Free, stock
  <2> QED
    BY <2>1, <2>2, <2>3, <2>4, CoversLess DEF stock
<1>15. ASSUME NEW m \in Managers, Changing(m) PROVE CounterCovers'
  BY <1>15, CoversChange
<1>16. CASE RecSet
  BY <1>16 DEF RecSet, CounterCovers
<1>17. CASE Restart
  <2>1. /\ UNCHANGED <<rqty, oqty, cons, req, total, calls, shift, adjust>>
        /\ keys' = {} /\ counter' = Nil /\ counter # Nil /\ (clean' => clean /\ counter >= 0)
    BY <1>17 DEF Restart, rows
  <2>2. ChargedUnits' \subseteq ChargedUnits /\ ReturningUnits' \subseteq ReturningUnits
    BY <2>1, ChargedKept, ReturningKept
  <2>3. CASE clean'
    <3>1. Free' = 0 /\ Free >= 0
      BY <2>1, <2>3 DEF Free
    <3>2. Offer' - total' <= Offer - total
      BY <2>1, <3>1, OfferTyped, OfferTypedNext
    <3> QED
      BY <2>1, <2>2, <3>2, CoversLess
  <2>4. CASE ~clean'
    BY <2>4 DEF CounterCovers
  <2> QED
    BY <2>3, <2>4
<1>18. CASE RowsOnly
  <2>1. ChargedUnits' \subseteq ChargedUnits
    BY <1>18, RowsCharge
  <2>2. UNCHANGED <<counter, keys, calls, adjust, clean>>
    BY <1>18 DEF RowsOnly, stock
  <2>3. UNCHANGED total
    BY <1>18 DEF RowsOnly, O!BeginPay, O!BeginCancel, O!CommitPay, O!Publish, O!Lapse,
       O!Consumer, O!Fetch, O!CreateOrder, O!Confirm, O!CountReserved, O!Reject,
       O!ConsumerCrash, O!inventory
  <2>4. ReturningUnits' \subseteq ReturningUnits
    BY <2>2, ReturningKept
  <2>5. Offer' - total' <= Offer - total
    BY <2>2, <2>3, OfferTyped DEF Offer, Free
  <2> QED
    BY <2>1, <2>2, <2>4, <2>5, CoversLess
<1>19. CASE RecRead \/ RecGet \/ RecFails \/ (\E k \in keys : KeyExpires(k)) \/ UNCHANGED vars
  <2>1. /\ UNCHANGED <<rqty, oqty, cons, req, total, counter, calls, shift, adjust, clean>>
        /\ keys' \subseteq keys
    BY <1>19 DEF RecRead, RecGet, RecFails, KeyExpires, vars, rows, stock
  <2>2. ChargedUnits' \subseteq ChargedUnits /\ ReturningUnits' \subseteq ReturningUnits
    BY <2>1, ChargedKept, ReturningKept
  <2>3. Offer' - total' <= Offer - total
    BY <2>1, OfferTyped DEF Offer, Free
  <2> QED
    BY <2>1, <2>2, <2>3, CoversLess
<1> QED
  BY <1>1, <1>2, <1>3, <1>4, <1>5, <1>6, <1>7, <1>8, <1>9, <1>10, <1>11, <1>12, <1>13, <1>14,
     <1>15, <1>16, <1>17, <1>18, <1>19 DEF Next, Reserving, Modifying, Reconciling
-----------------------------------------------------------------------------
LEMMA InitStock == Init => StockIInv
<1> SUFFICES ASSUME Init PROVE StockIInv
  OBVIOUS
<1>1. /\ req = [h \in Handlers |-> O!Idle] /\ cons = O!NoJob /\ total \in Nat
      /\ rqty = [r \in Reservations |-> 0] /\ oqty = [r \in Reservations |-> 0]
  BY StockAssumption DEF Init, O!Init
<1>2. counter \in Int \cup {Nil} /\ Free \in Int /\ Free <= total
  BY <1>1 DEF Init, Free
<1>3. TypeOK /\ IsFiniteSet(calls)
  BY <1>2, FS_EmptySet DEF Init, TypeOK
<1>4. NoEarlyRelease /\ RowsEmpty
  BY <1>1 DEF Init, NoEarlyRelease, Making, RowsEmpty, O!Doing
<1>5. ChargedUnits = {} /\ ReturningUnits = {}
  BY <1>1 DEF Init, ChargedUnits, ReturningUnits, Quantity
<1>6. Cardinality(ChargedUnits) = 0 /\ Cardinality(ReturningUnits) = 0
  BY <1>5, FS_EmptySet
<1>7. CounterCovers
  BY <1>1, <1>2, <1>6 DEF Init, CounterCovers
<1> QED
  BY <1>3, <1>4, <1>7 DEF StockIInv

LEMMA NextStock == StockIInv /\ O!IInv /\ O!IInv' /\ [Next]_vars => StockIInv'
<1> SUFFICES ASSUME StockIInv, O!IInv, O!IInv', [Next]_vars PROVE StockIInv'
  OBVIOUS
<1>1. Typed /\ NoEarlyRelease /\ RowsEmpty /\ CounterCovers
  BY DEF StockIInv, Typed
<1>2. Typed'
  BY <1>1, NextTyped
<1>3. NoEarlyRelease'
  BY <1>1, NextNoEarly
<1>4. O!Next \/ UNCHANGED rows
  BY NextRows
<1>5. RowsEmpty'
  BY <1>1, <1>4, NextRowsEmpty
<1>6. CounterCovers'
  BY <1>1, <1>2, NextCovers
<1> QED
  BY <1>2, <1>3, <1>5, <1>6 DEF StockIInv, Typed

(* The inductive invariant of the counter: every unit it was charged for is
   accounted for by a row, an order, a request or the consumer, and every
   unit it will get back by a call. *)
THEOREM StockInvariant == Spec => []StockIInv
  BY InitStock, NextStock, StockRowsInvariant, PTL DEF Spec

(* The counter, the keys, the calls and the worker's progress keep their
   types. *)
THEOREM StockTypeOK == Spec => []TypeOK
<1>1. StockIInv => TypeOK
  BY DEF StockIInv
<1> QED
  BY <1>1, StockInvariant, PTL

(* Whoever is promised a unit has one that the counter was charged for. *)
LEMMA HeldIsCharged ==
    ASSUME StockIInv, O!IInv
    PROVE  CounterBacksHolds
<1> SUFFICES ASSUME clean
             PROVE  Cardinality(HeldUnits) + Free + adjust <= total
  BY DEF CounterBacksHolds
<1>1. HeldUnits \subseteq ChargedUnits
  BY DEF HeldUnits, ChargedUnits, O!Doing
<1>2. Typed
  BY DEF StockIInv, Typed
<1>3. IsFiniteSet(ChargedUnits) /\ IsFiniteSet(ReturningUnits)
  BY <1>2, UnitsFinite
<1>4. /\ Cardinality(HeldUnits) <= Cardinality(ChargedUnits)
      /\ Cardinality(HeldUnits) \in Nat /\ Cardinality(ChargedUnits) \in Nat
      /\ Cardinality(ReturningUnits) \in Nat
  BY <1>1, <1>3, FS_Subset, FS_CardinalityType
<1>5. Cardinality(ChargedUnits) + Cardinality(ReturningUnits) + Free + adjust <= total
  BY DEF StockIInv, CounterCovers
<1> QED
  BY <1>2, <1>4, <1>5, OfferTyped

(* For every number of users, requests, units and release calls: until one of
   the steps that end clean, what the counter offers and what is promised stay
   within the stock, through lost replies, failed inserts, restarts of Redis,
   expired keys, cancellations, revivals by payment, and stock changes of any
   number of administrators at once. *)
THEOREM CounterAlwaysBacks == Spec => []CounterBacksHolds
  BY StockInvariant, StockRowsInvariant, HeldIsCharged, PTL
=============================================================================
