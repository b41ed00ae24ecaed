---------------------------- MODULE OrdersProofs ----------------------------
(* Theorems about Orders, for every set of users, reservations and handlers,
   every owner assignment and every stock. *)
EXTENDS Orders, FiniteSetTheorems, TLAPS

(* The part of the invariant that says every variable, and every snapshot a
   request or the consumer holds, is well formed. *)
WellFormed == TypeOK /\ RowsFilled /\ JobCurrent /\ RequestsCurrent

LEMMA InitWellFormed == Init => WellFormed
  BY OrdersAssumption DEF Init, WellFormed, TypeOK, RowsFilled, JobCurrent, RequestsCurrent,
     Idle, NoJob, Jobs, Requests, Quantity

LEMMA NextWellFormed == WellFormed /\ [Next]_vars => WellFormed'
<1> SUFFICES ASSUME WellFormed, [Next]_vars PROVE WellFormed'
  OBVIOUS
<1> USE OrdersAssumption DEF WellFormed, TypeOK, RowsFilled, JobCurrent, RequestsCurrent,
     Idle, NoJob, Jobs, Requests, Quantity, inventory
<1>1. ASSUME NEW h \in Handlers, NEW r \in Reservations, NEW q \in Quantity, CheckPaid(h, r, q)
      PROVE WellFormed'
  BY <1>1 DEF CheckPaid, Begin
<1>2. ASSUME NEW h \in Handlers, CheckActive(h) \/ GrantByRedis(h) PROVE WellFormed'
  BY <1>2 DEF CheckActive, GrantByRedis, Doing
<1>3. ASSUME NEW h \in Handlers, GrantByFallback(h) PROVE WellFormed'
  BY <1>3 DEF GrantByFallback, Doing
<1>4. ASSUME NEW h \in Handlers, Insert(h) PROVE WellFormed'
  BY <1>4 DEF Insert, Doing, End
<1>5. ASSUME NEW h \in Handlers, NEW r \in Reservations, NEW q \in Quantity, BeginModify(h, r, q)
      PROVE WellFormed'
  BY <1>5 DEF BeginModify, Begin
<1>6. ASSUME NEW h \in Handlers, CommitModify(h) PROVE WellFormed'
  BY <1>6 DEF CommitModify, Doing, End
<1>7. ASSUME NEW h \in Handlers, NEW r \in Reservations, BeginPay(h, r) PROVE WellFormed'
  BY <1>7 DEF BeginPay, Begin
<1>8. ASSUME NEW h \in Handlers, CommitPay(h) PROVE WellFormed'
  <2>1. TypeOK'
    BY <1>8 DEF CommitPay, Doing, End, LessReserved
  <2>2. RowsFilled'
    BY <1>8 DEF CommitPay, Doing, End, LessReserved
  <2>3. JobCurrent'
    BY <1>8 DEF CommitPay, Doing, End, LessReserved
  <2>4. RequestsCurrent'
    BY <1>8 DEF CommitPay, Doing, End, LessReserved
  <2> QED
    BY <2>1, <2>2, <2>3, <2>4
<1>9. ASSUME NEW h \in Handlers, NEW r \in Reservations, BeginCancel(h, r) PROVE WellFormed'
  BY <1>9 DEF BeginCancel, Begin
<1>10. ASSUME NEW h \in Handlers, CommitCancel(h) PROVE WellFormed'
  <2>1. TypeOK'
    BY <1>10 DEF CommitCancel, Doing, End, LessReserved
  <2>2. RowsFilled'
    BY <1>10 DEF CommitCancel, Doing, End, LessReserved
  <2>3. JobCurrent'
    BY <1>10 DEF CommitCancel, Doing, End, LessReserved
  <2>4. RequestsCurrent'
    BY <1>10 DEF CommitCancel, Doing, End, LessReserved
  <2> QED
    BY <2>1, <2>2, <2>3, <2>4
<1>11. ASSUME NEW h \in Handlers, Drop(h) PROVE WellFormed'
  BY <1>11 DEF Drop, End
<1>12. ASSUME NEW r \in Reservations, Publish(r) PROVE WellFormed'
  BY <1>12 DEF Publish
<1>13. ASSUME NEW r \in Reservations, Lapse(r) PROVE WellFormed'
  BY <1>13 DEF Lapse
<1>14. ASSUME NEW r \in Reservations, Expire(r) PROVE WellFormed'
  <2>1. TypeOK'
    BY <1>14 DEF Expire, LessReserved
  <2>2. \A s \in Reservations : /\ rstatus'[s] = "none" <=> rstatus[s] = "none"
                                /\ ostatus'[s] = "none" <=> ostatus[s] = "none"
    BY <1>14 DEF Expire, Active
  <2>3. UNCHANGED <<rqty, oqty, queue, cons, req>>
    BY <1>14 DEF Expire
  <2>4. RowsFilled' /\ JobCurrent'
    BY <2>2, <2>3
  <2>5. RequestsCurrent'
    BY <2>2, <2>3
  <2> QED
    BY <2>1, <2>4, <2>5
<1>15. ASSUME NEW r \in Reservations, Fetch(r) PROVE WellFormed'
  BY <1>15 DEF Fetch, Settle
<1>16. CASE CreateOrder
  BY <1>16 DEF CreateOrder
<1>17. CASE Confirm
  BY <1>17 DEF Confirm
<1>18. CASE CountReserved
  BY <1>18 DEF CountReserved, Settle
<1>19. CASE Reject
  BY <1>19 DEF Reject, Settle
<1>20. CASE ConsumerCrash
  BY <1>20 DEF ConsumerCrash
<1>21. ASSUME NEW t \in Totals, SetTotal(t) PROVE WellFormed'
  BY <1>21 DEF SetTotal
<1>22. CASE UNCHANGED vars
  BY <1>22 DEF vars
<1> QED
  BY <1>1, <1>2, <1>3, <1>4, <1>5, <1>6, <1>7, <1>8, <1>9, <1>10, <1>11, <1>12, <1>13, <1>14,
     <1>15, <1>16, <1>17, <1>18, <1>19, <1>20, <1>21, <1>22
     DEF Next, Reserving, Ordering, Consumer
-----------------------------------------------------------------------------
(* chk_quantities_valid: no step leaves the inventory row overdrawn. *)
LEMMA NextFits ==
    ASSUME WellFormed, reserved + sold <= total, [Next]_vars
    PROVE  reserved' + sold' <= total'
<1> USE DEF WellFormed, TypeOK, RowsFilled, RequestsCurrent, JobCurrent, RowFits, LessReserved,
     Requests, Jobs, Quantity, inventory, Idle, NoJob
<1>1. ASSUME NEW h \in Handlers, GrantByFallback(h) PROVE reserved' + sold' <= total'
  BY <1>1 DEF GrantByFallback, Doing
<1>2. ASSUME NEW h \in Handlers, CommitPay(h) PROVE reserved' + sold' <= total'
  BY <1>2 DEF CommitPay, Doing
<1>3. ASSUME NEW h \in Handlers, CommitCancel(h) PROVE reserved' + sold' <= total'
  BY <1>3 DEF CommitCancel, Doing
<1>4. ASSUME NEW r \in Reservations, Expire(r) PROVE reserved' + sold' <= total'
  BY <1>4, OrdersAssumption DEF Expire
<1>5. CASE CountReserved
  BY <1>5 DEF CountReserved
<1>6. ASSUME NEW t \in Totals, SetTotal(t) PROVE reserved' + sold' <= total'
  BY <1>6 DEF SetTotal
<1>7. CASE UNCHANGED inventory
  BY <1>7
<1> QED
  BY <1>1, <1>2, <1>3, <1>4, <1>5, <1>6, <1>7
     DEF Next, Reserving, Ordering, Consumer, vars, CheckPaid, CheckActive, GrantByRedis, Insert, BeginModify,
     CommitModify, BeginPay, BeginCancel, Drop, Publish, Lapse, Fetch, CreateOrder, Confirm,
     Reject, ConsumerCrash

(* What a step that makes reservation r live, or live in another way, has
   checked, and what it leaves alone. *)
Goes(r) ==
    /\ \A s \in Reservations \ {r} : rstatus'[s] = rstatus[s]
    /\ rstatus[r] = "pending" \/ IndexAllows(r)
    /\ rstatus'[r] = "confirmed" => ostatus'[r] # "none"
    /\ \/ rstatus[r] \in {"none", "pending"}
       \/ ostatus'[r] = "paid" /\ sold' = sold + oqty[r]

LEMMA GoingLive ==
    ASSUME WellFormed, [Next]_vars, NEW r \in Reservations,
           rstatus'[r] # rstatus[r], rstatus'[r] \in Active
    PROVE  Goes(r)
<1> USE DEF WellFormed, TypeOK, RequestsCurrent, JobCurrent, Requests, Jobs, Idle, NoJob, Active
<1>1. ASSUME NEW h \in Handlers, Insert(h) PROVE Goes(r)
  BY <1>1 DEF Insert, Doing, Goes
<1>2. ASSUME NEW h \in Handlers, CommitPay(h) PROVE Goes(r)
  BY <1>2 DEF CommitPay, Doing, Goes
<1>3. CASE Confirm
  BY <1>3 DEF Confirm, Goes
<1>4. ASSUME NEW h \in Handlers, CommitCancel(h) PROVE FALSE
  BY <1>4 DEF CommitCancel, Doing
<1>5. ASSUME NEW s \in Reservations, Expire(s) PROVE FALSE
  BY <1>5 DEF Expire
<1>6. ~UNCHANGED rstatus
  OBVIOUS
<1> QED
  BY <1>1, <1>2, <1>3, <1>4, <1>5, <1>6
     DEF Next, Reserving, Ordering, Consumer, vars, CheckPaid, CheckActive, GrantByRedis, GrantByFallback,
     BeginModify, CommitModify, BeginPay, BeginCancel, Drop, Publish, Lapse, Fetch, CreateOrder,
     CountReserved, Reject, ConsumerCrash, SetTotal

LEMMA NextOneActive ==
    ASSUME WellFormed, OneActivePerUser, [Next]_vars
    PROVE  OneActivePerUser'
<1> SUFFICES ASSUME NEW r \in Reservations, NEW s \in Reservations,
                    r # s, Owner[r] = Owner[s],
                    rstatus'[r] \in Active, rstatus'[s] \in Active
             PROVE  FALSE
  BY DEF OneActivePerUser
<1>1. \A x \in Reservations : rstatus'[x] \in Active /\ rstatus'[x] # rstatus[x] => Goes(x)
  BY GoingLive
<1>2. CASE rstatus'[r] = rstatus[r] /\ rstatus'[s] = rstatus[s]
  BY <1>2 DEF OneActivePerUser
<1>3. CASE rstatus'[r] # rstatus[r]
  BY <1>1, <1>3 DEF Goes, IndexAllows, OneActivePerUser, Active
<1>4. CASE rstatus'[s] # rstatus[s]
  BY <1>1, <1>4 DEF Goes, IndexAllows, OneActivePerUser, Active
<1> QED
  BY <1>2, <1>3, <1>4

(* Rows are never deleted: an order that exists stays. *)
LEMMA OrdersStay ==
    ASSUME WellFormed, [Next]_vars, NEW r \in Reservations, ostatus[r] # "none"
    PROVE  ostatus'[r] # "none" /\ oqty'[r] = oqty[r]
<1> USE DEF WellFormed, TypeOK, Requests, Jobs, Idle, NoJob
<1>1. ASSUME NEW h \in Handlers, CommitPay(h) \/ CommitCancel(h)
      PROVE ostatus'[r] # "none" /\ oqty'[r] = oqty[r]
  BY <1>1 DEF CommitPay, CommitCancel, Doing
<1>2. ASSUME NEW s \in Reservations, Expire(s)
      PROVE ostatus'[r] # "none" /\ oqty'[r] = oqty[r]
  BY <1>2 DEF Expire
<1>3. CASE CreateOrder
  BY <1>3 DEF CreateOrder
<1>4. CASE UNCHANGED <<ostatus, oqty>>
  BY <1>4
<1> QED
  BY <1>1, <1>2, <1>3, <1>4
     DEF Next, Reserving, Ordering, Consumer, vars, CheckPaid, CheckActive, GrantByRedis, GrantByFallback, Insert,
     BeginModify, CommitModify, BeginPay, BeginCancel, Drop, Publish, Lapse, Fetch, Confirm,
     CountReserved, Reject, ConsumerCrash, SetTotal

LEMMA NextConfirmed ==
    ASSUME WellFormed, ConfirmedHasOrder, [Next]_vars
    PROVE  ConfirmedHasOrder'
<1> SUFFICES ASSUME NEW r \in Reservations, rstatus'[r] = "confirmed"
             PROVE  ostatus'[r] # "none"
  BY DEF ConfirmedHasOrder
<1>1. CASE rstatus'[r] = rstatus[r]
  BY <1>1, OrdersStay DEF ConfirmedHasOrder
<1>2. CASE rstatus'[r] # rstatus[r]
  BY <1>2, GoingLive DEF Goes, Active
<1> QED
  BY <1>1, <1>2
-----------------------------------------------------------------------------
(* Only a payment makes an order paid, and it books the order's units. *)
LEMMA Booking ==
    ASSUME WellFormed, [Next]_vars
    PROVE  \/ /\ sold' = sold
              /\ \A s \in Reservations : ostatus'[s] = "paid" => ostatus[s] = "paid"
           \/ \E r \in Reservations :
              /\ ostatus[r] # "none" /\ ostatus'[r] = "paid" /\ sold' = sold + oqty[r]
              /\ sold' <= total' /\ UNCHANGED total
              /\ \A s \in Reservations \ {r} : ostatus'[s] = ostatus[s]
<1> DEFINE Kept == /\ sold' = sold
                   /\ \A s \in Reservations : ostatus'[s] = "paid" => ostatus[s] = "paid"
<1> USE DEF WellFormed, TypeOK, RequestsCurrent, Requests, Jobs, Idle, NoJob
<1>1. ASSUME NEW h \in Handlers, CommitPay(h)
      PROVE \E r \in Reservations :
              /\ ostatus[r] # "none" /\ ostatus'[r] = "paid" /\ sold' = sold + oqty[r]
              /\ sold' <= total' /\ UNCHANGED total
              /\ \A s \in Reservations \ {r} : ostatus'[s] = ostatus[s]
  <2> DEFINE r == req[h].res
  <2>1. r \in Reservations /\ ostatus[r] # "none" /\ req[h].qty = oqty[r] /\ oqty[r] \in Nat
    BY <1>1, OrdersAssumption DEF CommitPay, Doing
  <2>2. ostatus'[r] = "paid" /\ sold' = sold + oqty[r] /\ UNCHANGED total
    BY <1>1, <2>1 DEF CommitPay
  <2>3. sold' <= total'
    BY <1>1, <2>1 DEF CommitPay, RowFits, LessReserved
  <2>4. \A s \in Reservations \ {r} : ostatus'[s] = ostatus[s]
    BY <1>1, <2>1 DEF CommitPay
  <2> QED
    BY <2>1, <2>2, <2>3, <2>4
<1>2. ASSUME NEW h \in Handlers, CommitCancel(h) PROVE Kept
  BY <1>2 DEF CommitCancel, Doing
<1>3. ASSUME NEW s \in Reservations, Expire(s) PROVE Kept
  BY <1>3 DEF Expire
<1>4. CASE CreateOrder
  BY <1>4 DEF CreateOrder, inventory
<1>5. CASE UNCHANGED <<ostatus, sold>>
  BY <1>5
<1> QED
  BY <1>1, <1>2, <1>3, <1>4, <1>5
     DEF Next, Reserving, Ordering, Consumer, vars, inventory, CheckPaid, CheckActive, GrantByRedis,
     GrantByFallback, Insert, BeginModify, CommitModify, BeginPay, BeginCancel, Drop, Publish,
     Lapse, Fetch, Confirm, CountReserved, Reject, ConsumerCrash, SetTotal

LEMMA PaidUnitsFinite == WellFormed => IsFiniteSet(PaidUnits)
<1>1. IsFiniteSet(Quantity)
  BY FS_Interval, OrdersAssumption DEF Quantity
<1>2. IsFiniteSet(Reservations \X Quantity)
  BY <1>1, FS_Product, OrdersAssumption
<1> QED
  BY <1>2, FS_Subset DEF PaidUnits

(* A reservation of n units is n pairs. *)
LEMMA UnitsOfOne ==
    ASSUME NEW r, NEW n \in Nat
    PROVE  IsFiniteSet({r} \X (1..n)) /\ Cardinality({r} \X (1..n)) = n
<1>1. IsFiniteSet({r}) /\ Cardinality({r}) = 1
  BY FS_Singleton
<1>2. IsFiniteSet(1..n) /\ Cardinality(1..n) = n
  BY FS_Interval
<1>3. /\ IsFiniteSet({r} \X (1..n))
      /\ Cardinality({r} \X (1..n)) = Cardinality({r}) * Cardinality(1..n)
  BY <1>1, <1>2, FS_Product
<1> QED
  BY <1>1, <1>2, <1>3

LEMMA PartFits ==
    ASSUME NEW a \in Nat, NEW b \in Nat, NEW c \in Nat, a + b <= c
    PROVE  b <= c
  OBVIOUS

LEMMA NextOversell ==
    ASSUME WellFormed, WellFormed', NoOversell, reserved' + sold' <= total', [Next]_vars
    PROVE  NoOversell'
<1>1. sold' <= total'
  <2>1. reserved' \in Nat /\ sold' \in Nat /\ total' \in Nat
    BY DEF WellFormed, TypeOK
  <2> QED
    BY <2>1, PartFits
<1>2. ASSUME sold' = sold,
             \A s \in Reservations : ostatus'[s] = "paid" => ostatus[s] = "paid"
      PROVE  Cardinality(PaidUnits') <= sold'
  <2>1. PaidUnits' \subseteq PaidUnits
    BY <1>2, OrdersStay DEF PaidUnits
  <2>2. Cardinality(PaidUnits') <= Cardinality(PaidUnits)
    BY <2>1, PaidUnitsFinite, FS_Subset
  <2>3. Cardinality(PaidUnits) \in Nat /\ Cardinality(PaidUnits') \in Nat
    BY <2>1, PaidUnitsFinite, FS_Subset, FS_CardinalityType
  <2> QED
    BY <1>2, <2>2, <2>3 DEF NoOversell, WellFormed, TypeOK
<1>3. ASSUME NEW r \in Reservations, ostatus[r] # "none", sold' = sold + oqty[r],
             \A s \in Reservations \ {r} : ostatus'[s] = ostatus[s]
      PROVE  Cardinality(PaidUnits') <= sold'
  <2> DEFINE New == {r} \X (1..oqty[r])
  <2>1. oqty[r] \in Nat
    BY OrdersAssumption DEF WellFormed, TypeOK
  <2>2. IsFiniteSet(New) /\ Cardinality(New) = oqty[r]
    BY <2>1, UnitsOfOne
  <2>3. PaidUnits' \subseteq PaidUnits \cup New
    BY <1>3, <2>1, OrdersStay DEF PaidUnits, Quantity
  <2>4. IsFiniteSet(PaidUnits)
    BY PaidUnitsFinite
  <2>5. /\ IsFiniteSet(PaidUnits \cup New)
        /\ Cardinality(PaidUnits \cup New)
              = Cardinality(PaidUnits) + Cardinality(New) - Cardinality(PaidUnits \cap New)
    BY <2>2, <2>4, FS_Union
  <2>6. IsFiniteSet(PaidUnits \cap New)
    BY <2>4, FS_Intersection
  <2>7. Cardinality(PaidUnits') <= Cardinality(PaidUnits \cup New) /\ IsFiniteSet(PaidUnits')
    BY <2>3, <2>5, FS_Subset
  <2>8. /\ Cardinality(PaidUnits \cap New) \in Nat /\ Cardinality(PaidUnits) \in Nat
        /\ Cardinality(PaidUnits') \in Nat
    BY <2>4, <2>6, <2>7, FS_CardinalityType
  <2> HIDE DEF New
  <2> QED
    BY <1>3, <2>1, <2>2, <2>5, <2>7, <2>8 DEF NoOversell, WellFormed, TypeOK
<1> QED
  BY <1>1, <1>2, <1>3, Booking DEF NoOversell

-----------------------------------------------------------------------------
LEMMA InitIInv == Init => IInv
<1> SUFFICES ASSUME Init PROVE IInv
  OBVIOUS
<1>1. WellFormed
  BY InitWellFormed
<1>2. PaidUnits = {}
  BY DEF Init, PaidUnits
<1>3. NoOversell
  BY <1>2, FS_EmptySet, OrdersAssumption DEF NoOversell, Init
<1>4. reserved + sold <= total
  BY OrdersAssumption DEF Init
<1>5. OneActivePerUser /\ ConfirmedHasOrder
  BY DEF Init, OneActivePerUser, ConfirmedHasOrder, Active
<1> QED
  BY <1>1, <1>3, <1>4, <1>5 DEF IInv, WellFormed

LEMMA NextIInv == IInv /\ [Next]_vars => IInv'
  BY NextWellFormed, NextFits, NextOneActive, NextConfirmed, NextOversell DEF IInv, WellFormed

(* IInv is an invariant of the rows: what a handler or the consumer read stays
   true enough of the rows until it commits. *)
THEOREM OrdersInvariant == Spec => []IInv
  BY InitIInv, NextIInv, PTL DEF Spec

(* The rows, and every snapshot in flight, keep their types. *)
THEOREM OrdersTypeOK == Spec => []TypeOK
<1>1. IInv => TypeOK
  BY DEF IInv
<1> QED
  BY <1>1, OrdersInvariant, PTL

(* The units of paid orders never exceed sold_quantity, nor that the stock. *)
THEOREM NeverOversold == Spec => []NoOversell
<1>1. IInv => NoOversell
  BY DEF IInv
<1> QED
  BY <1>1, OrdersInvariant, PTL

(* No user ever has two live reservations of the sale. *)
THEOREM NeverTwoActive == Spec => []OneActivePerUser
<1>1. IInv => OneActivePerUser
  BY DEF IInv
<1> QED
  BY <1>1, OrdersInvariant, PTL

(* Every confirmed reservation can be paid for: its order exists. *)
THEOREM ConfirmedAlwaysHasOrder == Spec => []ConfirmedHasOrder
<1>1. IInv => ConfirmedHasOrder
  BY DEF IInv
<1> QED
  BY <1>1, OrdersInvariant, PTL

(* An expired or cancelled reservation comes back by a payment or not at all. *)
THEOREM RevivedOnlyByPayment == Spec => OnlyPaymentRevives
<1> DEFINE A == \A r \in Reservations :
        rstatus[r] \in {"expired", "cancelled"} /\ rstatus'[r] \in Active
            => ostatus'[r] = "paid" /\ sold' = sold + oqty[r]
<1>1. IInv /\ [Next]_vars => [A]_vars
  <2> SUFFICES ASSUME IInv, [Next]_vars, NEW r \in Reservations,
                      rstatus[r] \in {"expired", "cancelled"}, rstatus'[r] \in Active
               PROVE  ostatus'[r] = "paid" /\ sold' = sold + oqty[r]
    OBVIOUS
  <2>1. WellFormed /\ rstatus'[r] # rstatus[r]
    BY DEF IInv, WellFormed, Active
  <2>2. Goes(r)
    BY <2>1, GoingLive
  <2> QED
    BY <2>2 DEF Goes
<1> QED
  BY <1>1, OrdersInvariant, PTL DEF Spec, OnlyPaymentRevives

-----------------------------------------------------------------------------
(* Refinement. *)
LEMMA InitImplements == Init => Sale!Init
  BY OrdersAssumption DEF Init, Sale!Init

LEMMA StepImplements == IInv /\ IInv' /\ [Next]_vars => [Sale!Next]_Sale!vars
<1> SUFFICES ASSUME IInv, IInv', [Next]_vars PROVE [Sale!Next]_Sale!vars
  OBVIOUS
<1> DEFINE Bought == [r \in Reservations |-> IF ostatus[r] = "paid" THEN oqty[r] ELSE 0]
<1>1. /\ WellFormed /\ sold' <= total' /\ sold' \in Nat /\ total' \in Nat
      /\ sold \in Nat /\ total \in Nat
  BY DEF IInv, WellFormed, NoOversell, TypeOK
<1> USE DEF WellFormed, TypeOK, RowsFilled, RequestsCurrent, JobCurrent, Requests, Jobs, Idle, NoJob
<1>2. ASSUME NEW h \in Handlers, CommitPay(h) PROVE Sale!Next
  <2>1. PICK r \in Reservations, q \in Quantity : r = req[h].res /\ q = oqty[r] /\ req[h].qty = q
    BY <1>1, <1>2 DEF CommitPay, Doing
  <2>2. sold' = sold + q /\ total' = total
    BY <1>2, <2>1 DEF CommitPay
  <2>3. sold + q <= total
    BY <1>1, <2>2
  <2>4. Bought' = [Bought EXCEPT ![r] = q] /\ Bought[r] \in {0, q}
    BY <1>1, <1>2, <2>1 DEF CommitPay
  <2> HIDE DEF Bought
  <2>5. Sale!Buy(r, q)
    BY <2>1, <2>2, <2>3, <2>4 DEF Sale!Buy, Bought
  <2> QED
    BY <2>1, <2>5 DEF Sale!Next, Quantity
<1>3. ASSUME NEW h \in Handlers, CommitCancel(h) PROVE [Sale!Next]_Sale!vars
  <2>1. PICK r \in Reservations : r = req[h].res /\ ostatus[r] # "none"
    BY <1>1, <1>3 DEF CommitCancel, Doing
  <2>2. UNCHANGED <<sold, total, oqty>> /\ ostatus' = [ostatus EXCEPT ![r] = "failed"]
    BY <1>3, <2>1 DEF CommitCancel
  <2>3. CASE ostatus[r] = "paid"
    <3>1. Bought' = [Bought EXCEPT ![r] = 0] /\ Bought[r] # 0
      BY <1>1, <2>1, <2>2, <2>3, OrdersAssumption DEF Quantity
    <3> HIDE DEF Bought
    <3>2. Sale!Revoke(r)
      BY <2>2, <3>1 DEF Sale!Revoke, Bought
    <3> QED
      BY <2>1, <3>2 DEF Sale!Next
  <2>4. CASE ostatus[r] # "paid"
    BY <1>1, <2>1, <2>2, <2>4 DEF Sale!vars
  <2> QED
    BY <2>3, <2>4
<1>4. ASSUME NEW t \in Totals, SetTotal(t) PROVE Sale!Next
  <2>1. UNCHANGED <<sold, ostatus, oqty>>
    BY <1>4 DEF SetTotal
  <2>2. Sale!Resize
    BY <1>1, <2>1 DEF Sale!Resize
  <2> QED
    BY <2>2 DEF Sale!Next
<1>5. CASE CreateOrder
  BY <1>1, <1>5 DEF CreateOrder, inventory, Sale!vars
<1>6. ASSUME NEW r \in Reservations, Expire(r) PROVE UNCHANGED Sale!vars
  BY <1>1, <1>6 DEF Expire, Sale!vars
<1>7. CASE UNCHANGED <<ostatus, oqty, sold, total>>
  BY <1>7 DEF Sale!vars
<1> QED
  BY <1>2, <1>3, <1>4, <1>5, <1>6, <1>7
     DEF Next, Reserving, Ordering, Consumer, vars, inventory, CheckPaid, CheckActive, GrantByRedis,
     GrantByFallback, Insert, BeginModify, CommitModify, BeginPay, BeginCancel, Drop, Publish,
     Lapse, Fetch, Confirm, CountReserved, Reject, ConsumerCrash

(* Every behaviour of the rows is one the abstract sale allows. *)
THEOREM OrdersImplementFlashSale == Spec => ImplementsFlashSale
  BY InitImplements, StepImplements, OrdersInvariant, PTL
     DEF Spec, ImplementsFlashSale, Sale!Spec
=============================================================================
