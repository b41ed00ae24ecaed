--------------------------- MODULE LifecycleProofs ---------------------------
(* Theorems about Lifecycle, for every value of the constants. *)
EXTENDS Lifecycle, FiniteSetTheorems, TLAPS

(* Units that the counter must not offer: booked, on their way, or such that a
   late payment may book them again. *)
Used == booked + coming + lapsed

(* What a reading that nothing has overtaken still says of the rows, and that no
   stock change is on its way to the counter beside it. *)
SureCurrent ==
    status # "deleted" =>
        /\ \A t \in Tasks : Doing(t, "shift") => sure = {}
        /\ \A t \in Tasks \cap sure :
             /\ Doing(t, "activate") \/ Doing(t, "seed") => req[t].seen + Used <= total
             /\ Doing(t, "count") => req[t].seen <= total
        /\ Rec \in sure /\ rec # Resting => rec.want + Used <= total

(* CounterBacked with the units that a late payment may book *)
CounterCovers ==
    clean /\ status # "deleted" =>
        Used + Free + Cardinality(ToAdd) <= total + Cardinality(ToRemove)

IInv == TypeOK /\ SureCurrent /\ CounterCovers

-----------------------------------------------------------------------------
(* Counting units one by one *)
Positive(n) == IF n > 0 THEN n ELSE 0

LEMMA UnitsOfOne ==
    ASSUME NEW t, NEW n \in Nat
    PROVE  IsFiniteSet({t} \X (1..n)) /\ Cardinality({t} \X (1..n)) = n
<1>1. IsFiniteSet({t}) /\ Cardinality({t}) = 1
  BY FS_Singleton
<1>2. IsFiniteSet(1..n) /\ Cardinality(1..n) = n
  BY FS_Interval
<1>3. /\ IsFiniteSet({t} \X (1..n))
      /\ Cardinality({t} \X (1..n)) = Cardinality({t}) * Cardinality(1..n)
  BY <1>1, <1>2, FS_Product
<1> QED
  BY <1>1, <1>2, <1>3

LEMMA OneByOneFinite ==
    ASSUME NEW f
    PROVE  IsFiniteSet(OneByOne(f)) /\ Cardinality(OneByOne(f)) \in Nat
<1>1. IsFiniteSet(Tasks)
  BY LifecycleAssumption, FS_AddElement DEF Tasks
<1>2. IsFiniteSet(1..MaxTotal)
  BY LifecycleAssumption, FS_Interval
<1>3. IsFiniteSet(Tasks \X (1..MaxTotal))
  BY <1>1, <1>2, FS_Product
<1>4. IsFiniteSet(OneByOne(f))
  BY <1>3, FS_Subset DEF OneByOne
<1> QED
  BY <1>4, FS_CardinalityType

Others(f, t) == {u \in OneByOne(f) : u[1] # t}

(* The units of one task, taken out of the count *)
LEMMA TakeOut ==
    ASSUME NEW f \in [Tasks -> -MaxTotal..MaxTotal], NEW t \in Tasks
    PROVE  /\ Cardinality(Others(f, t)) \in Nat
           /\ Cardinality(OneByOne(f)) = Cardinality(Others(f, t)) + Positive(f[t])
<1> DEFINE own == {t} \X (1..Positive(f[t]))
<1>1. f[t] \in Int /\ f[t] <= MaxTotal /\ MaxTotal \in Nat
  BY LifecycleAssumption
<1>2. Positive(f[t]) \in Nat /\ Positive(f[t]) <= MaxTotal
  BY <1>1 DEF Positive
<1>3. IsFiniteSet(own) /\ Cardinality(own) = Positive(f[t])
  BY <1>2, UnitsOfOne
<1>4. IsFiniteSet(Others(f, t)) /\ Cardinality(Others(f, t)) \in Nat
  BY OneByOneFinite, FS_Subset, FS_CardinalityType DEF Others
<1>5. OneByOne(f) = Others(f, t) \cup own
  <2>1. ASSUME NEW n \in 1..MaxTotal PROVE n <= f[t] <=> n \in 1..Positive(f[t])
    BY <1>1, <1>2 DEF Positive
  <2>2. ASSUME NEW u \in OneByOne(f) PROVE u \in Others(f, t) \cup own
    BY <2>1 DEF OneByOne, Others
  <2>3. ASSUME NEW u \in own PROVE u \in OneByOne(f)
    BY <1>1, <1>2, <2>1 DEF OneByOne
  <2> QED
    BY <2>2, <2>3 DEF Others
<1>6. Others(f, t) \cap own = {}
  BY DEF Others
<1>7. Cardinality(OneByOne(f)) = Cardinality(Others(f, t)) + Cardinality(own) - Cardinality({})
  BY <1>3, <1>4, <1>5, <1>6, FS_Union
<1> QED
  BY <1>2, <1>3, <1>4, <1>7, FS_EmptySet

LEMMA ChangeOne ==
    ASSUME NEW f \in [Tasks -> -MaxTotal..MaxTotal], NEW g \in [Tasks -> -MaxTotal..MaxTotal],
           NEW t \in Tasks, \A x \in Tasks \ {t} : g[x] = f[x]
    PROVE  Cardinality(OneByOne(g)) + Positive(f[t]) = Cardinality(OneByOne(f)) + Positive(g[t])
<1>1. Others(g, t) = Others(f, t)
  BY DEF OneByOne, Others
<1>2. Positive(f[t]) \in Nat /\ Positive(g[t]) \in Nat
  BY LifecycleAssumption DEF Positive
<1>3. /\ Cardinality(Others(f, t)) \in Nat
      /\ Cardinality(OneByOne(f)) = Cardinality(Others(f, t)) + Positive(f[t])
      /\ Cardinality(OneByOne(g)) = Cardinality(Others(g, t)) + Positive(g[t])
  BY TakeOut
<1> QED
  BY <1>1, <1>2, <1>3

(* What the stock changes have still to move the counter by, in all *)
Balance == Cardinality(ToAdd) - Cardinality(ToRemove)

LEMMA BalanceInt == Balance \in Int
  BY OneByOneFinite DEF Balance, ToAdd, ToRemove

PendingOK ==
    /\ Pending \in [Tasks -> -MaxTotal..MaxTotal]
    /\ [t \in Tasks |-> -Pending[t]] \in [Tasks -> -MaxTotal..MaxTotal]

LEMMA PendingTyped == TypeOK => PendingOK
<1> SUFFICES ASSUME TypeOK PROVE PendingOK
  OBVIOUS
<1>1. ASSUME NEW t \in Tasks PROVE Pending[t] \in -MaxTotal..MaxTotal
  BY LifecycleAssumption DEF TypeOK, Requests, Idle, Pending, Doing
<1>2. Pending \in [Tasks -> -MaxTotal..MaxTotal]
  BY <1>1 DEF Pending
<1>3. ASSUME NEW t \in Tasks PROVE -Pending[t] \in -MaxTotal..MaxTotal
  BY <1>1, LifecycleAssumption
<1> QED
  BY <1>2, <1>3 DEF PendingOK

(* A step of one task moves the balance by what it begins or ends. *)
LEMMA BalanceMoves ==
    ASSUME TypeOK, TypeOK', NEW t \in Tasks, \A x \in Tasks \ {t} : req'[x] = req[x]
    PROVE  Balance' = Balance - Pending[t] + Pending'[t]
<1> DEFINE minus == [x \in Tasks |-> -Pending[x]]
<1>0. PendingOK /\ PendingOK'
  BY PendingTyped, PTL
<1>1. /\ Pending \in [Tasks -> -MaxTotal..MaxTotal] /\ minus \in [Tasks -> -MaxTotal..MaxTotal]
      /\ Pending' \in [Tasks -> -MaxTotal..MaxTotal] /\ minus' \in [Tasks -> -MaxTotal..MaxTotal]
  BY <1>0 DEF PendingOK
<1>2. \A x \in Tasks \ {t} : Pending'[x] = Pending[x] /\ minus'[x] = minus[x]
  BY DEF Pending, Doing
<1>3. Cardinality(ToAdd') + Positive(Pending[t]) = Cardinality(ToAdd) + Positive(Pending'[t])
  BY <1>1, <1>2, ChangeOne DEF ToAdd
<1>4. Cardinality(ToRemove') + Positive(minus[t]) = Cardinality(ToRemove) + Positive(minus'[t])
  BY <1>1, <1>2, ChangeOne DEF ToRemove
<1>5. minus[t] = -Pending[t] /\ minus'[t] = -Pending'[t]
  OBVIOUS
<1>6. Pending[t] \in Int /\ Pending'[t] \in Int
  BY <1>1, LifecycleAssumption
<1>7. /\ Cardinality(ToAdd) \in Int /\ Cardinality(ToRemove) \in Int
      /\ Cardinality(ToAdd') \in Int /\ Cardinality(ToRemove') \in Int
  BY OneByOneFinite DEF ToAdd, ToRemove
<1> QED
  BY <1>3, <1>4, <1>5, <1>6, <1>7 DEF Balance, Positive

-----------------------------------------------------------------------------
LEMMA MaxOfTwo == ASSUME NEW n \in Int PROVE Max({0, n}) = IF n >= 0 THEN n ELSE 0
<1> DEFINE P(x) == x \in {0, n} /\ \A y \in {0, n} : x >= y
<1>1. \E x : P(x)
  <2>1. CASE n >= 0
    <3>1. P(n)
      BY <2>1
    <3> QED
      BY <3>1
  <2>2. CASE n < 0
    <3>1. P(0)
      BY <2>2
    <3> QED
      BY <3>1
  <2> QED
    BY <2>1, <2>2
<1>2. P(Max({0, n}))
  BY <1>1 DEF Max
<1> QED
  BY <1>2

(* Every step leaves the variables of their type. *)
LEMMA NextTyped == TypeOK /\ [Next]_vars => TypeOK'
<1> SUFFICES ASSUME TypeOK, [Next]_vars PROVE TypeOK'
  OBVIOUS
<1> USE LifecycleAssumption
    DEF TypeOK, Requests, Idle, Resting, Units, Statuses, sale, units, history, Doing, Begin, Continue, End
<1>0. Managers \subseteq Handlers /\ Handlers \subseteq Tasks /\ Worker \in Tasks
  BY DEF Tasks
<1>1. ASSUME NEW h \in Tasks, NEW what \in DOMAIN Target, BeginStatus(h, what) PROVE TypeOK'
  BY <1>1 DEF BeginStatus, Target, Reads
<1>2. ASSUME NEW h \in Tasks, WriteStatus(h) PROVE TypeOK'
  <2>1. PICK what \in DOMAIN Target :
          /\ Doing(h, what)
          /\ SetStatus(IF status = "deleted" THEN status ELSE Target[what])
          /\ CASE what = "activate" -> Continue(h, [do |-> "seed", seen |-> req[h].seen])
               [] what = "complete" -> Continue(h, [do |-> "clear"])
               [] OTHER -> End(h)
    BY <1>2 DEF WriteStatus
  <2>2. status' \in Statuses \cup {"deleted"} /\ opened' \in BOOLEAN
    BY <2>1 DEF SetStatus, Target
  <2>3. req' \in [Tasks -> Requests \cup {Idle}]
    BY <2>1 DEF Target
  <2> QED
    BY <1>2, <2>2, <2>3 DEF WriteStatus
<1>3. ASSUME NEW h \in Tasks, NEW s \in Statuses, PatchStatus(h, s) PROVE TypeOK'
  BY <1>3 DEF PatchStatus, SetStatus
<1>4. ASSUME NEW h \in Tasks, ReadTotal(h) PROVE TypeOK'
  BY <1>4 DEF ReadTotal, Reads
<1>5. ASSUME NEW h \in Tasks, ReadBooked(h) PROVE TypeOK'
  <2>1. req[h].seen - booked \in Int /\ req[h].seen - booked <= MaxTotal
    BY <1>5 DEF ReadBooked
  <2>2. Max({0, req[h].seen - booked}) \in Units
    BY <2>1, MaxOfTwo
  <2> QED
    BY <1>5, <2>2 DEF ReadBooked, Forget
<1>6. ASSUME NEW h \in Tasks, Seed(h) PROVE TypeOK'
  BY <1>6 DEF Seed, SetCounter, Forget
<1>7. ASSUME NEW h \in Tasks, Clear(h) PROVE TypeOK'
  BY <1>7 DEF Clear, LoseCounter
<1>8. ASSUME NEW h \in Tasks, BeginDelete(h) PROVE TypeOK'
  BY <1>8 DEF BeginDelete
<1>9. ASSUME NEW h \in Tasks, CommitDelete(h) PROVE TypeOK'
  <2>1. /\ status' = "deleted" /\ opened' \in BOOLEAN
        /\ total' = 0 /\ booked' = 0 /\ lapsed' = 0 /\ coming' \in 0..coming
        /\ req' = [req EXCEPT ![h] = [do |-> "clear"]]
        /\ UNCHANGED <<counter, rec, sure, clean>>
    BY <1>9 DEF CommitDelete, SetStatus
  <2>2. req' \in [Tasks -> Requests \cup {Idle}]
    BY <2>1
  <2>3. coming' \in Nat /\ coming' <= coming /\ coming + lapsed <= MaxComing
    <3>1. coming \in Nat /\ coming' \in 0..coming
      BY <2>1
    <3>2. coming + lapsed <= MaxComing
      OBVIOUS
    <3> HIDE DEF TypeOK
    <3> QED
      BY <3>1, <3>2
  <2>4. total' = 0 /\ booked' = 0 /\ lapsed' = 0
    BY <2>1
  <2>5. lapsed \in Nat /\ coming \in Nat /\ MaxTotal \in Nat /\ MaxComing \in Nat
    OBVIOUS
  <2>6. total' \in Units /\ booked' \in 0..total' /\ lapsed' \in Nat
    BY <2>4, <2>5
  <2>7. coming' + lapsed' <= MaxComing
    <3>1. \A m, n, l, k \in Nat : n + l <= k /\ m <= n => m + 0 <= k
      OBVIOUS
    <3>2. coming' + 0 <= MaxComing
      BY <2>3, <2>5, <3>1
    <3> QED
      BY <2>4, <3>2
  <2> QED
    BY <2>1, <2>2, <2>3, <2>6, <2>7
<1>10. ASSUME NEW h \in Tasks, NEW t \in 1..MaxTotal, BeginEdit(h, t) PROVE TypeOK'
  BY <1>10 DEF BeginEdit
<1>11. ASSUME NEW h \in Tasks, CommitEdit(h) PROVE TypeOK'
  <2>1. /\ req[h].by \in -MaxTotal..MaxTotal /\ req[h].to \in Units
        /\ UNCHANGED <<status, opened, booked, coming, lapsed, counter, rec>>
    BY <1>11 DEF CommitEdit
  <2>2. req' \in [Tasks -> Requests \cup {Idle}]
    <3>1. [do |-> "shift", by |-> req[h].by] \in Requests
      BY <2>1
    <3>2. \/ req' = [req EXCEPT ![h] = Idle]
          \/ req' = [req EXCEPT ![h] = [do |-> "shift", by |-> req[h].by]]
      BY <1>11 DEF CommitEdit
    <3> QED
      BY <3>1, <3>2
  <2>3. total' \in Units /\ booked <= total'
    BY <1>11, <2>1 DEF CommitEdit
  <2>4. sure' \subseteq Tasks \cup {Rec} /\ clean' \in BOOLEAN
    BY <1>11, <2>1 DEF CommitEdit, Overtake
  <2> QED
    BY <2>1, <2>2, <2>3, <2>4
<1>12. ASSUME NEW h \in Tasks, NEW n \in -MaxTotal..MaxTotal, AdjustTotal(h, n) PROVE TypeOK'
  BY <1>12 DEF AdjustTotal, Overtake
<1>13. ASSUME NEW h \in Tasks, Shift(h) PROVE TypeOK'
  BY <1>13 DEF Shift, IncrBy
<1>14. ASSUME NEW t \in Tasks, Abandon(t) PROVE TypeOK'
  BY <1>14 DEF Abandon, Forget
<1>15. CASE AutoActivate
  BY <1>0, <1>15 DEF AutoActivate, SetStatus
<1>16. CASE ReadRow
  BY <1>0, <1>16 DEF ReadRow, Reads
<1>17. CASE AutoComplete
  BY <1>17 DEF AutoComplete, SetStatus
<1>18. CASE RecRead
  BY <1>18 DEF RecRead, Reads
<1>19. CASE RecGet
  BY <1>19 DEF RecGet, Mend, Forget
<1>20. CASE RecSet
  BY <1>20 DEF RecSet, SetCounter, Forget
<1>21. CASE RecFails
  BY <1>21 DEF RecFails, Forget
<1>22. CASE Grant
  BY <1>22 DEF Grant, Overtake
<1>23. CASE Compensate
  BY <1>23 DEF Compensate, IncrBy
<1>24. CASE Vanish
  BY <1>24 DEF Vanish, Lapse
<1>25. CASE Book
  BY <1>25 DEF Book
<1>26. CASE Unbook
  BY <1>26 DEF Unbook, Lapse
<1>27. CASE Revive
  BY <1>27 DEF Revive
<1>28. CASE Restart
  BY <1>28 DEF Restart, LoseCounter
<1>29. CASE UNCHANGED vars
  BY <1>29 DEF vars
<1> QED
  BY <1>0, <1>1, <1>2, <1>3, <1>4, <1>5, <1>6, <1>7, <1>8, <1>9, <1>10, <1>11, <1>12, <1>13, <1>14,
     <1>15, <1>16, <1>17, <1>18, <1>19, <1>20, <1>21, <1>22, <1>23, <1>24, <1>25, <1>26, <1>27,
     <1>28, <1>29
     DEF Next, Managing, Editing, ExpiryWorker, Reconciling, Buying

(* No row of a deleted sale comes back. *)
LEMMA DeletedStays == TypeOK /\ [Next]_vars /\ status = "deleted" => status' = "deleted"
  BY DEF TypeOK, Next, Managing, Editing, ExpiryWorker, Reconciling, Buying, vars, sale, SetStatus,
     BeginStatus, WriteStatus, PatchStatus, ReadTotal, ReadBooked, Seed, Clear, BeginDelete,
     CommitDelete, BeginEdit, CommitEdit, AdjustTotal, Shift, Abandon, AutoActivate, ReadRow,
     AutoComplete, RecRead, RecGet, Mend, RecSet, RecFails, Grant, Compensate, Vanish, Book, Unbook,
     Revive, Restart

-----------------------------------------------------------------------------
(* Readings that nothing has overtaken *)
Seeding(t) == Doing(t, "activate") \/ Doing(t, "seed")

Numbers ==
    /\ total \in Nat /\ booked \in Nat /\ coming \in Nat /\ lapsed \in Nat
    /\ Used \in Nat /\ booked <= total

LEMMA NumbersTyped == TypeOK => Numbers
<1> SUFFICES ASSUME TypeOK PROVE Numbers
  OBVIOUS
<1>1. /\ total \in Nat /\ coming \in Nat /\ lapsed \in Nat
      /\ booked \in 0..total
  BY LifecycleAssumption DEF TypeOK, Units
<1> QED
  BY <1>1 DEF Numbers, Used

(* t makes no reading sure by its step, and takes no part in a stock change. *)
KeepsReading(t) ==
    /\ Doing(t, "shift")' => Doing(t, "shift")
    /\ t \in sure' => /\ Seeding(t)' => Seeding(t) /\ req'[t].seen = req[t].seen
                      /\ Doing(t, "count")' => Doing(t, "count") /\ req'[t].seen = req[t].seen

KeepsRec == Rec \in sure' /\ rec' # Resting => rec # Resting /\ rec'.want = rec.want

LEMMA SureKept ==
    ASSUME TypeOK, TypeOK', SureCurrent, status # "deleted",
           sure' \subseteq sure, total' = total, Used' <= Used,
           \A t \in Tasks : KeepsReading(t), KeepsRec
    PROVE  SureCurrent'
<1>1. ASSUME NEW t \in Tasks, Doing(t, "shift")' PROVE sure' = {}
  BY <1>1 DEF SureCurrent, KeepsReading
<1>2. Numbers /\ Numbers'
  BY NumbersTyped, PTL
<1>3. ASSUME NEW t \in Tasks \cap sure', Seeding(t)' PROVE req'[t].seen + Used' <= total'
  <2>1. req[t].seen + Used <= total /\ req'[t].seen = req[t].seen
    BY <1>3 DEF SureCurrent, KeepsReading, Seeding
  <2>2. req[t].seen \in Nat
    BY <1>3, LifecycleAssumption DEF TypeOK, Requests, Units, Idle, KeepsReading, Seeding, Doing
  <2> QED
    BY <1>2, <2>1, <2>2 DEF Numbers
<1>4. ASSUME NEW t \in Tasks \cap sure', Doing(t, "count")' PROVE req'[t].seen <= total'
  BY <1>4 DEF SureCurrent, KeepsReading
<1>5. ASSUME Rec \in sure', rec' # Resting PROVE rec'.want + Used' <= total'
  <2>1. rec.want + Used <= total /\ rec'.want = rec.want
    BY <1>5 DEF SureCurrent, KeepsRec
  <2>2. rec.want \in Nat
    BY <1>5, LifecycleAssumption DEF TypeOK, Units, KeepsRec
  <2> QED
    BY <1>2, <2>1, <2>2 DEF Numbers
<1> QED
  BY <1>1, <1>3, <1>4, <1>5 DEF SureCurrent, Seeding

LEMMA SureNone == ASSUME sure' = {} PROVE SureCurrent'
  BY DEF SureCurrent

(* A reading that t makes of the rows is sure only when they show all there is. *)
LEMMA SureRead ==
    ASSUME TypeOK, TypeOK', SureCurrent, status # "deleted", UNCHANGED <<total, units>>,
           NEW t \in Tasks \cup {Rec}, Reads(t),
           \A x \in Tasks : ~Doing(x, "shift") => ~Doing(x, "shift")',
           \A x \in Tasks \ {t} : req'[x] = req[x],
           t \in Tasks => /\ rec' = rec
                          /\ Seeding(t)' => req'[t].seen = total - booked
                          /\ Doing(t, "count")' => req'[t].seen = total,
           t = Rec => rec'.want = total - booked
    PROVE  SureCurrent'
<1> USE LifecycleAssumption DEF Tasks
<1>1. CASE ~(clean /\ AllShown)
  <2>1. sure' = sure \ {t}
    BY <1>1 DEF Reads
  <2>2. \A x \in Tasks : KeepsReading(x)
    BY <2>1 DEF KeepsReading, Seeding, Doing
  <2>3. KeepsRec
    BY <2>1 DEF KeepsRec
  <2>4. Used' <= Used /\ total' = total
    BY DEF Used, units, TypeOK, Units
  <2> QED
    BY <2>1, <2>2, <2>3, <2>4, SureKept
<1>2. CASE clean /\ AllShown
  <2>1. sure' = sure \cup {t} /\ coming = 0 /\ lapsed = 0
    BY <1>2 DEF Reads, AllShown
  <2>2. Used' = booked /\ Used = booked /\ total' = total /\ booked \in 0..total /\ total \in Nat
    BY <2>1 DEF Used, units, TypeOK, Units
  <2>3. \A x \in Tasks : ~Doing(x, "shift")'
    BY <1>2 DEF AllShown
  <2>4. ASSUME NEW x \in Tasks \cap sure', Seeding(x)' PROVE req'[x].seen + Used' <= total'
    BY <2>1, <2>2, <2>4 DEF SureCurrent, Seeding, Doing
  <2>5. ASSUME NEW x \in Tasks \cap sure', Doing(x, "count")' PROVE req'[x].seen <= total'
    BY <2>1, <2>2, <2>5 DEF SureCurrent, Doing
  <2>6. ASSUME Rec \in sure', rec' # Resting PROVE rec'.want + Used' <= total'
    BY <2>1, <2>2, <2>6 DEF SureCurrent
  <2> QED
    BY <2>3, <2>4, <2>5, <2>6 DEF SureCurrent, Seeding
<1> QED
  BY <1>1, <1>2

(* Buyers only put units on their way by a grant. *)
LEMMA FewerUsed ==
    ASSUME Numbers, Compensate \/ Vanish \/ Book \/ Unbook \/ Revive
    PROVE  Used' <= Used
<1>1. CASE Compensate
  BY <1>1 DEF Compensate, Used, Numbers
<1>2. CASE Vanish
  BY <1>2 DEF Vanish, Lapse, Used, Numbers
<1>3. CASE Book
  BY <1>3 DEF Book, Used, Numbers
<1>4. CASE Unbook
  BY <1>4 DEF Unbook, Lapse, Used, Numbers
<1>5. CASE Revive
  BY <1>5 DEF Revive, Used, Numbers
<1> QED
  BY <1>1, <1>2, <1>3, <1>4, <1>5

LEMMA NextSure ==
    ASSUME TypeOK, TypeOK', SureCurrent, [Next]_vars, status' # "deleted"
    PROVE  SureCurrent'
<1>0. /\ status # "deleted" /\ Numbers /\ Numbers'
      /\ Managers \subseteq Handlers /\ Handlers \subseteq Tasks /\ Worker \in Tasks /\ Rec \notin Tasks
  <2>1. Numbers /\ Numbers'
    BY NumbersTyped, PTL
  <2> QED
    BY <2>1, DeletedStays, LifecycleAssumption DEF Tasks
<1> DEFINE Plain == /\ sure' \subseteq sure /\ total' = total /\ Used' <= Used
                    /\ (\A t \in Tasks : KeepsReading(t)) /\ KeepsRec
<1>1. Plain => SureCurrent'
  BY <1>0, SureKept
<1> HIDE DEF Plain
<1>2. ASSUME sure' \subseteq sure, UNCHANGED <<total, units, rec>>,
             NEW t \in Tasks, KeepsReading(t), \A x \in Tasks \ {t} : req'[x] = req[x]
      PROVE  SureCurrent'
  <2>1. Used' = Used /\ Used \in Nat
    BY <1>0, <1>2 DEF Used, units, Numbers
  <2>2. Plain
    BY <1>2, <2>1 DEF Plain, KeepsReading, KeepsRec, Seeding, Doing
  <2> QED
    BY <1>1, <2>2
<1>3. ASSUME NEW h \in Tasks, NEW what \in DOMAIN Target, BeginStatus(h, what) PROVE SureCurrent'
  <2>1. UNCHANGED <<total, units, rec>> /\ \A x \in Tasks \ {h} : req'[x] = req[x]
    BY <1>3 DEF BeginStatus, Begin, TypeOK
  <2>2. CASE what = "activate"
    <3>1. Reads(h) /\ req'[h] = [do |-> what, seen |-> total - booked]
      BY <1>3, <2>2 DEF BeginStatus, Begin, TypeOK
    <3> QED
      BY <1>0, <2>1, <2>2, <3>1, SureRead DEF Doing
  <2>3. CASE what # "activate"
    <3>1. UNCHANGED sure /\ req'[h] = [do |-> what] /\ what \in {"pause", "resume", "complete"}
      BY <1>3, <2>3 DEF BeginStatus, Begin, TypeOK, history, Target
    <3> QED
      BY <1>2, <2>1, <3>1 DEF KeepsReading, Seeding, Doing
  <2> QED
    BY <2>2, <2>3
<1>4. ASSUME NEW h \in Tasks, WriteStatus(h) PROVE SureCurrent'
  <2>1. UNCHANGED <<total, units, rec, sure>>
    BY <1>4 DEF WriteStatus, history
  <2>2. PICK what \in DOMAIN Target :
          /\ Doing(h, what)
          /\ CASE what = "activate" -> Continue(h, [do |-> "seed", seen |-> req[h].seen])
               [] what = "complete" -> Continue(h, [do |-> "clear"])
               [] OTHER -> End(h)
    BY <1>4 DEF WriteStatus
  <2>3. \A x \in Tasks \ {h} : req'[x] = req[x]
    BY <2>2 DEF Continue, End, TypeOK, Target
  <2>4. \/ what = "activate" /\ req'[h] = [do |-> "seed", seen |-> req[h].seen]
        \/ req'[h] \in {[do |-> "clear"], Idle}
    BY <2>2 DEF Continue, End, TypeOK, Target
  <2>5. KeepsReading(h)
    BY <2>2, <2>4 DEF KeepsReading, Seeding, Doing, Idle
  <2> QED
    BY <1>2, <2>1, <2>3, <2>5
<1>5. ASSUME NEW h \in Tasks, NEW s \in Statuses, PatchStatus(h, s) PROVE SureCurrent'
  BY <1>2, <1>5 DEF PatchStatus, Begin, TypeOK, history, KeepsReading, Seeding, Doing, Idle
<1>6. ASSUME NEW h \in Tasks, ReadTotal(h) PROVE SureCurrent'
  <2>1. Reads(h) /\ UNCHANGED <<total, units, rec>>
    BY <1>0, <1>6 DEF ReadTotal
  <2>2. req'[h] = [do |-> "count", seen |-> total] /\ \A x \in Tasks \ {h} : req'[x] = req[x]
    BY <1>0, <1>6 DEF ReadTotal, Continue, TypeOK
  <2> QED
    BY <1>0, <2>1, <2>2, SureRead DEF Doing, Seeding
<1>7. ASSUME NEW h \in Tasks, ReadBooked(h) PROVE SureCurrent'
  <2> DEFINE n == Max({0, req[h].seen - booked})
  <2>1. Doing(h, "count") /\ UNCHANGED <<total, units, rec>>
    BY <1>7 DEF ReadBooked
  <2>2. req'[h] = [do |-> "seed", seen |-> n] /\ \A x \in Tasks \ {h} : req'[x] = req[x]
    BY <1>7 DEF ReadBooked, Continue, TypeOK
  <2>3. CASE ~AllShown
    BY <1>2, <1>7, <2>1, <2>2, <2>3 DEF ReadBooked, Forget, KeepsReading, Seeding, Doing
  <2>4. CASE AllShown
    <3>1. sure' = sure /\ coming = 0 /\ lapsed = 0
      BY <1>7, <2>4 DEF ReadBooked, AllShown
    <3>2. Used' = booked /\ Used = booked
      BY <1>0, <2>1, <3>1 DEF Used, units, Numbers
    <3>3. ASSUME h \in sure PROVE n + booked <= total
      <4>1. req[h].seen \in Nat /\ req[h].seen <= total
        BY <1>0, <2>1, <3>3, LifecycleAssumption
           DEF SureCurrent, TypeOK, Requests, Units, Idle, Doing
      <4>2. n = IF req[h].seen - booked >= 0 THEN req[h].seen - booked ELSE 0
        BY <1>0, <4>1, MaxOfTwo DEF Numbers
      <4> QED
        BY <1>0, <4>1, <4>2 DEF Numbers
    <3>4. ASSUME NEW x \in Tasks \cap sure', Seeding(x)' PROVE req'[x].seen + Used' <= total'
      BY <1>0, <2>1, <2>2, <3>1, <3>2, <3>3, <3>4 DEF SureCurrent, Seeding, Doing
    <3>5. ASSUME NEW x \in Tasks \cap sure', Doing(x, "count")' PROVE req'[x].seen <= total'
      BY <1>0, <2>1, <2>2, <3>1, <3>5 DEF SureCurrent, Doing
    <3>6. ASSUME NEW x \in Tasks, Doing(x, "shift")' PROVE sure' = {}
      BY <1>0, <2>2, <3>1, <3>6 DEF SureCurrent, Doing
    <3>7. Rec \in sure' /\ rec' # Resting => rec'.want + Used' <= total'
      BY <1>0, <2>1, <3>1, <3>2 DEF SureCurrent
    <3> QED
      BY <3>4, <3>5, <3>6, <3>7 DEF SureCurrent, Seeding
  <2> QED
    BY <2>3, <2>4
<1>8. ASSUME NEW h \in Tasks, Seed(h) PROVE SureCurrent'
  BY <1>2, <1>8 DEF Seed, SetCounter, Forget, End, Continue, TypeOK, KeepsReading, Seeding, Doing, Idle
<1>9. ASSUME NEW h \in Tasks, Clear(h) PROVE SureCurrent'
  BY <1>2, <1>9 DEF Clear, LoseCounter, End, Continue, TypeOK, KeepsReading, Seeding, Doing, Idle
<1>10. ASSUME NEW h \in Tasks, BeginDelete(h) PROVE SureCurrent'
  BY <1>2, <1>10 DEF BeginDelete, Begin, TypeOK, history, KeepsReading, Seeding, Doing
<1>11. ASSUME NEW h \in Tasks, CommitDelete(h) PROVE SureCurrent'
  BY <1>11 DEF CommitDelete, SetStatus
<1>12. ASSUME NEW h \in Tasks, NEW t \in 1..MaxTotal, BeginEdit(h, t) PROVE SureCurrent'
  BY <1>2, <1>12 DEF BeginEdit, Begin, TypeOK, history, KeepsReading, Seeding, Doing
<1>13. ASSUME NEW h \in Tasks, Shift(h) PROVE SureCurrent'
  BY <1>2, <1>13 DEF Shift, End, Continue, TypeOK, history, KeepsReading, Seeding, Doing, Idle
<1>14. ASSUME NEW t \in Tasks, Abandon(t) PROVE SureCurrent'
  BY <1>2, <1>14 DEF Abandon, Forget, End, Continue, TypeOK, KeepsReading, Seeding, Doing, Idle
<1>15. CASE \/ \E h \in Tasks : CommitEdit(h) \/ \E n \in -MaxTotal..MaxTotal : AdjustTotal(h, n)
            \/ Grant
  BY <1>0, <1>15, SureNone DEF CommitEdit, AdjustTotal, Grant, Overtake
<1>16. CASE AutoActivate
  BY <1>0, <1>2, <1>16 DEF AutoActivate, Begin, TypeOK, history, KeepsReading, Seeding, Doing
<1>17. CASE ReadRow
  <2>1. Reads(Worker) /\ UNCHANGED <<total, units, rec>>
    BY <1>0, <1>17 DEF ReadRow
  <2>2. /\ req'[Worker] = [do |-> "seed", seen |-> total - booked]
        /\ \A x \in Tasks \ {Worker} : req'[x] = req[x]
    BY <1>0, <1>17 DEF ReadRow, Continue, TypeOK
  <2> QED
    BY <1>0, <2>1, <2>2, SureRead DEF Doing, Seeding
<1>18. CASE RecRead
  <2>1. /\ Reads(Rec) /\ UNCHANGED <<total, units, req>>
        /\ rec' = [step |-> "get", want |-> total - booked, live |-> status = "active"]
    BY <1>18 DEF RecRead
  <2> QED
    BY <1>0, <2>1, SureRead DEF Doing
<1>19. ASSUME UNCHANGED <<req, total, units>>, sure' \subseteq sure, KeepsRec PROVE SureCurrent'
  <2>1. Used' = Used /\ Used \in Nat
    BY <1>0, <1>19 DEF Used, units, Numbers
  <2>2. Plain
    BY <1>19, <2>1 DEF Plain, KeepsReading, Seeding, Doing
  <2> QED
    BY <1>1, <2>2
<1>20. CASE RecGet
  BY <1>19, <1>20 DEF RecGet, Mend, Forget, history, KeepsRec, TypeOK, Resting
<1>21. CASE RecSet \/ RecFails
  BY <1>19, <1>21 DEF RecSet, RecFails, SetCounter, Forget, KeepsRec
<1>22. CASE Compensate \/ Vanish \/ Book \/ Unbook \/ Revive
  <2>1. UNCHANGED <<req, rec, sure, total>>
    BY <1>22 DEF Compensate, Vanish, Book, Unbook, Revive, history
  <2>2. Used' <= Used
    BY <1>0, <1>22, FewerUsed
  <2>3. Plain
    BY <2>1, <2>2 DEF Plain, KeepsReading, KeepsRec, Seeding, Doing
  <2> QED
    BY <1>1, <2>3
<1>23. CASE AutoComplete \/ Restart \/ UNCHANGED vars
  BY <1>19, <1>23 DEF AutoComplete, Restart, LoseCounter, vars, history, KeepsRec
<1> QED
  BY <1>0, <1>3, <1>4, <1>5, <1>6, <1>7, <1>8, <1>9, <1>10, <1>11, <1>12, <1>13, <1>14,
     <1>15, <1>16, <1>17, <1>18, <1>20, <1>21, <1>22, <1>23
     DEF Next, Managing, Editing, ExpiryWorker, Reconciling, Buying

-----------------------------------------------------------------------------
(* What the counter offers, beside what is used *)
Excess == Used + Free + Balance - total

Counts ==
    /\ Numbers
    /\ Used \in Int /\ total \in Int /\ Free \in Int /\ Balance \in Int /\ Excess \in Int

LEMMA CountsTyped == TypeOK => Counts
<1> SUFFICES ASSUME TypeOK PROVE Counts
  OBVIOUS
<1>1. Numbers /\ Used \in Int /\ total \in Int /\ Free \in Int /\ Balance \in Int
  BY NumbersTyped, BalanceInt DEF Free, TypeOK, Numbers
<1>2. Excess \in Int
  BY <1>1 DEF Excess
<1> QED
  BY <1>1, <1>2 DEF Counts

Covers == clean /\ status # "deleted" => Excess <= 0

LEMMA CoversExcess == TypeOK => (CounterCovers <=> Covers)
<1> SUFFICES ASSUME TypeOK PROVE CounterCovers <=> Covers
  OBVIOUS
<1>1. /\ Used \in Int /\ Free \in Int /\ total \in Int
      /\ Cardinality(ToAdd) \in Int /\ Cardinality(ToRemove) \in Int
  BY CountsTyped, OneByOneFinite DEF Counts, Numbers, ToAdd, ToRemove
<1> QED
  BY <1>1 DEF CounterCovers, Covers, Excess, Balance

LEMMA BalanceStays ==
    ASSUME TypeOK, TypeOK', NEW t \in Tasks, \A x \in Tasks \ {t} : req'[x] = req[x],
           ~Doing(t, "shift"), ~Doing(t, "shift")'
    PROVE  Balance' = Balance
<1>1. Pending[t] = 0 /\ Pending'[t] = 0
  BY DEF Pending
<1>2. Balance' = Balance - Pending[t] + Pending'[t]
  BY BalanceMoves
<1> QED
  BY <1>1, <1>2, BalanceInt

LEMMA BalanceSame == ASSUME UNCHANGED req PROVE Balance' = Balance
  BY DEF Balance, ToAdd, ToRemove, OneByOne, Pending, Doing

LEMMA NoShiftsNoBalance == ASSUME \A t \in Tasks : ~Doing(t, "shift") PROVE Balance = 0
<1>1. \A t \in Tasks : Pending[t] = 0
  BY DEF Pending
<1>2. ToAdd = {} /\ ToRemove = {}
  BY <1>1 DEF ToAdd, ToRemove, OneByOne
<1> QED
  BY <1>2, FS_EmptySet DEF Balance

LEMMA ExcessFalls ==
    ASSUME Counts, Counts', total' = total, Used' <= Used, Free' <= Free, Balance' <= Balance
    PROVE  Excess' <= Excess
<1>1. \A a, b, c, d, p, q, r \in Int : p <= a /\ q <= b /\ r <= c => p + q + r - d <= a + b + c - d
  OBVIOUS
<1>2. Used' + Free' + Balance' - total <= Used + Free + Balance - total
  BY <1>1 DEF Counts
<1> QED
  BY <1>2 DEF Excess

(* A sure reading that is set offers what is left. *)
LEMMA SetCovers ==
    ASSUME TypeOK, TypeOK', SureCurrent, status # "deleted", UNCHANGED <<total, units>>,
           sure # {}, Balance' = Balance, counter' \in Nat, counter' + Used <= total
    PROVE  Excess' <= 0
<1>1. Counts /\ Counts'
  BY CountsTyped, PTL
<1>2. Balance = 0
  BY NoShiftsNoBalance DEF SureCurrent
<1>3. Used' = Used /\ Free' = counter'
  BY LifecycleAssumption DEF Used, units, Free
<1>4. \A a, b, c \in Int : b + a <= c => a + b + 0 - c <= 0
  OBVIOUS
<1>5. Used \in Int /\ counter' \in Int /\ total \in Int
  BY <1>1 DEF Counts
<1>6. Used + counter' + 0 - total <= 0
  BY <1>4, <1>5
<1> QED
  BY <1>2, <1>3, <1>6 DEF Excess

LEMMA NextCovers ==
    ASSUME TypeOK, TypeOK', SureCurrent, CounterCovers, [Next]_vars
    PROVE  CounterCovers'
<1>0. Counts /\ Counts'
  BY CountsTyped, PTL
<1>00. CounterCovers' <=> Covers'
  BY CoversExcess, PTL
<1> SUFFICES ASSUME clean', status' # "deleted" PROVE Excess' <= 0
  BY <1>00 DEF Covers
<1>1. /\ status # "deleted" /\ Managers \subseteq Handlers /\ Handlers \subseteq Tasks /\ Worker \in Tasks
      /\ Nil \notin Int
  BY DeletedStays, LifecycleAssumption DEF Tasks
<1>2. clean => Excess <= 0
  BY <1>1, CoversExcess DEF Covers
<1>3. ASSUME clean, Excess' <= Excess PROVE Excess' <= 0
  BY <1>0, <1>2, <1>3 DEF Counts
<1>4. ASSUME clean, UNCHANGED <<total, units, counter>>, Balance' = Balance PROVE Excess' <= 0
  BY <1>2, <1>4 DEF Excess, Used, units, Free
<1>5. ASSUME clean, UNCHANGED <<total, units, counter>>, NEW t \in Tasks,
             \A x \in Tasks \ {t} : req'[x] = req[x], ~Doing(t, "shift"), ~Doing(t, "shift")'
      PROVE  Excess' <= 0
  BY <1>4, <1>5, BalanceStays
<1>6. ASSUME NEW h \in Tasks, NEW what \in DOMAIN Target, BeginStatus(h, what) PROVE Excess' <= 0
  <2>1. clean
    BY <1>6 DEF BeginStatus, Reads, history
  <2> QED
    BY <1>5, <1>6, <2>1 DEF BeginStatus, Begin, TypeOK, Idle, Doing, Target
<1>7. ASSUME NEW h \in Tasks, WriteStatus(h) PROVE Excess' <= 0
  <2>1. PICK what \in DOMAIN Target :
          /\ Doing(h, what)
          /\ CASE what = "activate" -> Continue(h, [do |-> "seed", seen |-> req[h].seen])
               [] what = "complete" -> Continue(h, [do |-> "clear"])
               [] OTHER -> End(h)
    BY <1>7 DEF WriteStatus
  <2>2. /\ ~Doing(h, "shift") /\ ~Doing(h, "shift")'
        /\ \A x \in Tasks \ {h} : req'[x] = req[x]
    BY <2>1 DEF Continue, End, TypeOK, Target, Doing, Idle
  <2> QED
    BY <1>5, <1>7, <2>2 DEF WriteStatus, history
<1>8. ASSUME NEW h \in Tasks, NEW s \in Statuses, PatchStatus(h, s) PROVE Excess' <= 0
  BY <1>5, <1>8 DEF PatchStatus, Begin, TypeOK, history, Doing, Idle
<1>9. ASSUME NEW h \in Tasks, ReadTotal(h) \/ ReadBooked(h) PROVE Excess' <= 0
  <2>1. /\ clean /\ UNCHANGED <<total, units, counter>>
        /\ Doing(h, "total") \/ Doing(h, "count")
    BY <1>1, <1>9 DEF ReadTotal, ReadBooked, Reads
  <2>2. ~Doing(h, "shift")' /\ \A x \in Tasks \ {h} : req'[x] = req[x]
    <3>1. CASE ReadTotal(h)
      BY <1>1, <3>1 DEF ReadTotal, Continue, TypeOK, Doing
    <3>2. CASE ReadBooked(h)
      BY <3>2 DEF ReadBooked, Continue, TypeOK, Doing
    <3> QED
      BY <1>9, <3>1, <3>2
  <2> QED
    BY <1>5, <2>1, <2>2 DEF Doing
<1>10. ASSUME NEW h \in Tasks, Seed(h) PROVE Excess' <= 0
  <2>1. h \in sure /\ counter' = req[h].seen /\ UNCHANGED <<total, units>> /\ Doing(h, "seed")
    BY <1>10 DEF Seed, SetCounter
  <2>2. counter' \in Nat /\ counter' + Used <= total
    <3>1. counter' \in Nat
      BY <2>1, LifecycleAssumption DEF TypeOK, Requests, Units, Idle, Doing
    <3>2. counter' + Used <= total
      BY <1>1, <2>1 DEF SureCurrent
    <3> QED
      BY <3>1, <3>2
  <2>3. Balance' = Balance
    BY <1>10, BalanceStays DEF Seed, End, Continue, TypeOK, Doing, Idle
  <2> QED
    BY <1>1, <2>1, <2>2, <2>3, SetCovers
<1>11. ASSUME clean, UNCHANGED <<total, units>>, LoseCounter, Balance' = Balance PROVE Excess' <= 0
  <2>1. Used' = Used /\ total' = total
    BY <1>11 DEF Used, units
  <2>2. counter = Nil \/ counter >= 0
    BY <1>11 DEF LoseCounter
  <2>3. Free' = 0 /\ 0 <= Free
    BY <1>0, <1>11, <2>2 DEF LoseCounter, Free, Counts
  <2> QED
    BY <1>0, <1>3, <1>11, <2>1, <2>3, ExcessFalls DEF Counts
<1>12. ASSUME NEW h \in Tasks, Clear(h) PROVE Excess' <= 0
  <2>1. Balance' = Balance
    BY <1>12, BalanceStays DEF Clear, End, Continue, TypeOK, Doing, Idle
  <2> QED
    BY <1>11, <1>12, <2>1 DEF Clear, LoseCounter
<1>13. ASSUME NEW h \in Tasks, BeginDelete(h) PROVE Excess' <= 0
  BY <1>5, <1>13 DEF BeginDelete, Begin, TypeOK, history, Doing, Idle
<1>14. ASSUME NEW h \in Tasks, CommitDelete(h) PROVE FALSE
  BY <1>14 DEF CommitDelete, SetStatus
<1>15. ASSUME NEW h \in Tasks, NEW t \in 1..MaxTotal, BeginEdit(h, t) PROVE Excess' <= 0
  BY <1>5, <1>15 DEF BeginEdit, Begin, TypeOK, history, Doing, Idle
<1>16. ASSUME NEW h \in Tasks, NEW n \in Int, total' = total + n, clean,
              UNCHANGED <<units, counter>>, Pending[h] = 0, Pending'[h] = n,
              \A x \in Tasks \ {h} : req'[x] = req[x]
       PROVE  Excess' <= 0
  <2>1. Balance' = Balance + n
    BY <1>0, <1>16, BalanceMoves DEF Counts
  <2>2. Used' = Used /\ Free' = Free
    BY <1>16 DEF Used, units, Free
  <2> QED
    BY <1>0, <1>3, <1>16, <2>1, <2>2 DEF Excess, Counts
<1>17. ASSUME NEW h \in Tasks, CommitEdit(h) PROVE Excess' <= 0
  <2>1. /\ Doing(h, "edit") /\ clean /\ total = req[h].to - req[h].by /\ total' = req[h].to
        /\ UNCHANGED <<units, counter>>
    BY <1>1, <1>17 DEF CommitEdit
  <2>2. req[h].by \in Int /\ req[h].to \in Int
    BY <2>1, LifecycleAssumption DEF TypeOK, Requests, Idle, Units, Doing
  <2>3. Pending[h] = 0 /\ \A x \in Tasks \ {h} : req'[x] = req[x]
    BY <1>17, <2>1 DEF CommitEdit, Continue, End, Pending, TypeOK, Doing
  <2>4. Pending'[h] = req[h].by
    BY <1>17, <2>2 DEF CommitEdit, Continue, End, Pending, TypeOK, Doing, Idle
  <2>5. total' = total + req[h].by
    BY <2>1, <2>2
  <2> QED
    BY <1>16, <2>1, <2>2, <2>3, <2>4, <2>5
<1>18. ASSUME NEW h \in Tasks, NEW n \in -MaxTotal..MaxTotal, AdjustTotal(h, n) PROVE Excess' <= 0
  <2>1. /\ clean /\ total' = total + n /\ UNCHANGED <<units, counter>> /\ n \in Int
        /\ req[h] = Idle /\ req' = [req EXCEPT ![h] = [do |-> "shift", by |-> n]]
    BY <1>18, LifecycleAssumption DEF AdjustTotal, Begin
  <2>2. Pending[h] = 0 /\ Pending'[h] = n /\ \A x \in Tasks \ {h} : req'[x] = req[x]
    BY <2>1 DEF Pending, Doing, Idle, TypeOK
  <2> QED
    BY <1>16, <2>1, <2>2
<1>19. ASSUME NEW h \in Tasks, Shift(h) PROVE Excess' <= 0
  <2>1. clean /\ UNCHANGED <<total, units>> /\ Doing(h, "shift") /\ req' = [req EXCEPT ![h] = Idle]
    BY <1>19 DEF Shift, history, End, Continue
  <2>2. req[h].by \in Int
    BY <2>1, LifecycleAssumption DEF TypeOK, Requests, Idle, Doing
  <2>3. /\ Pending[h] = req[h].by /\ Pending'[h] = 0
        /\ \A x \in Tasks \ {h} : req'[x] = req[x]
    BY <2>1 DEF Pending, Doing, Idle, TypeOK
  <2>4. Balance' = Balance - req[h].by
    BY <1>0, <2>2, <2>3, BalanceMoves DEF Counts
  <2>5. Free' = Free + req[h].by /\ Used' = Used
    BY <1>1, <1>19, <2>1, <2>2 DEF Shift, IncrBy, Free, Used, units, TypeOK
  <2> QED
    BY <1>0, <1>3, <2>1, <2>2, <2>4, <2>5 DEF Excess, Counts
<1>20. ASSUME NEW t \in Tasks, Abandon(t) PROVE Excess' <= 0
  <2>1. /\ clean /\ ~(Doing(t, "shift") /\ req[t].by < 0) /\ UNCHANGED <<total, units, counter>>
        /\ req' = [req EXCEPT ![t] = Idle]
    BY <1>20 DEF Abandon, End, Continue
  <2>2. /\ Pending'[t] = 0 /\ Pending[t] \in Nat
        /\ \A x \in Tasks \ {t} : req'[x] = req[x]
    BY <2>1, LifecycleAssumption DEF Pending, Doing, Idle, TypeOK, Requests
  <2>3. Balance' <= Balance
    BY <1>0, <2>2, BalanceMoves DEF Counts
  <2>4. Used' = Used /\ Free' = Free
    BY <2>1 DEF Used, units, Free
  <2> QED
    BY <1>0, <1>3, <2>1, <2>3, <2>4, ExcessFalls DEF Counts
<1>21. CASE AutoActivate
  BY <1>1, <1>5, <1>21 DEF AutoActivate, Begin, TypeOK, history, Doing, Idle
<1>22. CASE ReadRow
  <2>1. clean /\ UNCHANGED <<total, units, counter>> /\ Doing(Worker, "row")
    BY <1>1, <1>22 DEF ReadRow, Reads
  <2>2. ~Doing(Worker, "shift")' /\ \A x \in Tasks \ {Worker} : req'[x] = req[x]
    BY <1>1, <1>22 DEF ReadRow, Continue, TypeOK, Doing
  <2> QED
    BY <1>1, <1>5, <2>1, <2>2 DEF Doing
<1>23. CASE RecRead \/ RecGet \/ RecFails \/ AutoComplete \/ UNCHANGED vars
  BY <1>4, <1>23, BalanceSame DEF RecRead, Reads, RecGet, Mend, RecFails, AutoComplete, history, vars
<1>24. CASE RecSet
  <2>1. /\ Rec \in sure /\ rec # Resting /\ counter' = rec.want /\ UNCHANGED <<total, units, req>>
    BY <1>24 DEF RecSet, SetCounter
  <2>2. counter' \in Nat
    BY <2>1, LifecycleAssumption DEF TypeOK, Units
  <2>3. counter' + Used <= total
    BY <1>1, <2>1 DEF SureCurrent
  <2> QED
    BY <1>1, <2>1, <2>2, <2>3, BalanceSame, SetCovers
<1>25. CASE Grant
  <2>1. Used' = Used + 1 /\ Free' = Free - 1
    BY <1>0, <1>1, <1>25 DEF Grant, Used, Free, Counts, Numbers, TypeOK
  <2>2. clean /\ total' = total /\ Balance' = Balance
    BY <1>25, BalanceSame DEF Grant
  <2> QED
    BY <1>0, <1>3, <2>1, <2>2 DEF Excess, Counts
<1>26. CASE Compensate
  <2>1. Used' = Used - 1 /\ Free' = Free + 1
    BY <1>0, <1>1, <1>26 DEF Compensate, IncrBy, Used, Free, Counts, Numbers, TypeOK
  <2>2. clean /\ total' = total /\ Balance' = Balance
    BY <1>26, BalanceSame DEF Compensate, history
  <2> QED
    BY <1>0, <1>3, <2>1, <2>2 DEF Excess, Counts
<1>27. CASE Vanish \/ Book \/ Unbook \/ Revive
  <2>1. Used' <= Used
    BY <1>0, <1>27, FewerUsed DEF Counts
  <2>2. clean /\ total' = total /\ Balance' = Balance /\ Free' = Free
    BY <1>27, BalanceSame DEF Vanish, Book, Unbook, Revive, history, Free
  <2> QED
    BY <1>0, <1>3, <2>1, <2>2, ExcessFalls DEF Counts
<1>28. CASE Restart
  <2>1. Balance' = Balance
    BY <1>28, BalanceSame DEF Restart
  <2> QED
    BY <1>11, <1>28, <2>1 DEF Restart, LoseCounter
<1> QED
  BY <1>1, <1>6, <1>7, <1>8, <1>9, <1>10, <1>12, <1>13, <1>14, <1>15, <1>17, <1>18, <1>19, <1>20,
     <1>21, <1>22, <1>23, <1>24, <1>25, <1>26, <1>27, <1>28
     DEF Next, Managing, Editing, ExpiryWorker, Reconciling, Buying

-----------------------------------------------------------------------------
LEMMA InitLifecycle == Init => IInv
<1> SUFFICES ASSUME Init PROVE IInv
  OBVIOUS
<1>1. /\ total \in Nat /\ total >= 1 /\ total <= MaxTotal /\ counter = Nil
      /\ booked = 0 /\ coming = 0 /\ lapsed = 0 /\ rec = Resting
  BY LifecycleAssumption DEF Init
<1>2. sure \subseteq Tasks /\ Rec \notin Tasks
  BY LifecycleAssumption DEF Init, Tasks
<1>3. PICK what \in {"activate", "seed"} :
        req = [t \in Tasks |-> IF t \in sure THEN [do |-> what, seen |-> total] ELSE Idle]
  BY DEF Init
<1>4. TypeOK
  <2>1. req \in [Tasks -> Requests \cup {Idle}]
    BY <1>1, <1>3 DEF Requests, Units
  <2>2. total \in Units /\ booked \in 0..total /\ coming + lapsed <= MaxComing
    BY <1>1, LifecycleAssumption DEF Units
  <2>3. /\ status \in Statuses /\ opened \in BOOLEAN /\ clean \in BOOLEAN
        /\ sure \subseteq Tasks \cup {Rec}
    BY <1>2 DEF Init, Statuses
  <2> QED
    BY <1>1, <2>1, <2>2, <2>3 DEF TypeOK
<1>5. ASSUME NEW t \in Tasks
      PROVE  ~Doing(t, "shift") /\ ~Doing(t, "count") /\ (Seeding(t) => req[t].seen = total)
  <2>1. req[t] = [do |-> what, seen |-> total] \/ req[t] = Idle
    BY <1>3
  <2> QED
    BY <2>1 DEF Doing, Seeding, Idle
<1>6. SureCurrent
  <2>1. Used = 0
    BY <1>1 DEF Used
  <2>2. ASSUME NEW t \in Tasks, Seeding(t) PROVE req[t].seen + Used <= total
    BY <1>1, <1>5, <2>1, <2>2
  <2> QED
    BY <1>2, <1>5, <2>2 DEF SureCurrent, Seeding
<1>7. Balance = 0
  <2>1. \A t \in Tasks : ~Doing(t, "shift")
    BY <1>5
  <2> QED
    BY <2>1, NoShiftsNoBalance
<1>8. Excess <= 0
  BY <1>1, <1>7 DEF Excess, Used, Free
<1>9. CounterCovers
  BY <1>4, <1>8, CoversExcess DEF Covers
<1> QED
  BY <1>4, <1>6, <1>9 DEF IInv

LEMMA NextLifecycle == IInv /\ [Next]_vars => IInv'
<1> SUFFICES ASSUME IInv, [Next]_vars PROVE IInv'
  OBVIOUS
<1>1. TypeOK'
  BY NextTyped DEF IInv
<1>2. SureCurrent'
  BY <1>1, NextSure DEF IInv, SureCurrent
<1>3. CounterCovers'
  BY <1>1, NextCovers DEF IInv
<1> QED
  BY <1>1, <1>2, <1>3 DEF IInv

(* IInv is an invariant of the sale's life: a reading that nothing has overtaken
   still holds of the rows when it is set. *)
THEOREM LifecycleInvariant == Spec => []IInv
  BY InitLifecycle, NextLifecycle, PTL DEF Spec

(* The sale, its counter and the requests in flight are well formed; in
   particular the rows never book more than the stock, and what is about to be
   seeded is never below zero. *)
THEOREM LifecycleTyped == Spec => []TypeOK
<1>1. IInv => TypeOK
  BY DEF IInv
<1> QED
  BY <1>1, LifecycleInvariant, PTL

(* The counter offers no unit that is booked or on its way, until one of the
   steps that end clean. *)
THEOREM CounterAlwaysBacked == Spec => []CounterBacked
<1>1. IInv => CounterBacked
  <2> SUFFICES ASSUME IInv, clean, status # "deleted"
               PROVE  coming + booked + Free + Cardinality(ToAdd) <= total + Cardinality(ToRemove)
    BY DEF CounterBacked
  <2>1. Used + Free + Cardinality(ToAdd) <= total + Cardinality(ToRemove)
    BY DEF IInv, CounterCovers
  <2>2. Counts
    BY CountsTyped DEF IInv
  <2>3. Cardinality(ToAdd) \in Nat /\ Cardinality(ToRemove) \in Nat
    BY OneByOneFinite DEF ToAdd, ToRemove
  <2> QED
    BY <2>1, <2>2, <2>3 DEF Counts, Numbers, Used
<1> QED
  BY <1>1, LifecycleInvariant, PTL
=============================================================================
