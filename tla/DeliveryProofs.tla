--------------------------- MODULE DeliveryProofs ---------------------------
(* Theorems about Delivery, for every set of events and every limit, and about
   the circuit breaker around the direct publish, for any number of calls. *)
EXTENDS Delivery, CircuitBreaker, TLAPS

(* The elements of a sequence that grows or shrinks by one *)
ElementsOf(q) == {q[i] : i \in DOMAIN q}

LEMMA AppendElements ==
    ASSUME NEW S, NEW q \in Seq(S), NEW e \in S
    PROVE  Append(q, e) \in Seq(S) /\ ElementsOf(Append(q, e)) = ElementsOf(q) \cup {e}
<1>1. Append(q, e) \in Seq(S) /\ Len(Append(q, e)) = Len(q) + 1
  OBVIOUS
<1>2. \A i \in 1..Len(q) : Append(q, e)[i] = q[i]
  OBVIOUS
<1>3. Append(q, e)[Len(q) + 1] = e
  OBVIOUS
<1>4. DOMAIN q = 1..Len(q) /\ DOMAIN Append(q, e) = 1..(Len(q) + 1) /\ Len(q) \in Nat
  BY <1>1
<1> QED
  BY <1>1, <1>2, <1>3, <1>4 DEF ElementsOf

LEMMA TailElements ==
    ASSUME NEW S, NEW q \in Seq(S), q # <<>>
    PROVE  /\ Tail(q) \in Seq(S) /\ Head(q) \in S
           /\ ElementsOf(q) = {Head(q)} \cup ElementsOf(Tail(q))
<1>1. Tail(q) \in Seq(S) /\ Len(Tail(q)) = Len(q) - 1 /\ Head(q) = q[1] /\ Len(q) \in Nat \ {0}
  OBVIOUS
<1>2. \A i \in 1..Len(Tail(q)) : Tail(q)[i] = q[i + 1]
  OBVIOUS
<1>3. DOMAIN q = 1..Len(q) /\ DOMAIN Tail(q) = 1..(Len(q) - 1)
  BY <1>1
<1>4. ElementsOf(Tail(q)) \subseteq ElementsOf(q) /\ Head(q) \in ElementsOf(q) /\ Head(q) \in S
  BY <1>1, <1>2, <1>3 DEF ElementsOf
<1>5. ASSUME NEW i \in DOMAIN q PROVE q[i] \in {Head(q)} \cup ElementsOf(Tail(q))
  <2>1. CASE i = 1
    BY <1>1, <2>1
  <2>2. CASE i # 1
    <3>1. i - 1 \in 1..Len(Tail(q)) /\ q[i] = Tail(q)[i - 1]
      BY <1>1, <1>2, <1>3, <2>2
    <3> QED
      BY <3>1, <1>1, <1>3 DEF ElementsOf
  <2> QED
    BY <2>1, <2>2
<1> QED
  BY <1>1, <1>4, <1>5 DEF ElementsOf
-----------------------------------------------------------------------------
LEMMA InitInv == Init => IInv
  BY DeliveryAssumption DEF Init, IInv, TypeOK, JobCurrent, MarkIsSafe, NothingVanishes, At, Queued, NoJob

(* A step that leaves an event as safe as it was, and neither marks nor gives
   up any, keeps the last two conjuncts. *)
LEMMA KeepsSafe ==
    ASSUME IInv, \A e \in Events : Safe(e) => Safe(e)',
           published' = published, UNCHANGED retries,
           \A e \in Events : At(e, "mark")' => At(e, "mark")
    PROVE  MarkIsSafe' /\ NothingVanishes'
  BY DEF IInv, TypeOK, MarkIsSafe, NothingVanishes

LEMMA EnqueueElements ==
    ASSUME TypeOK, NEW e \in Events, Enqueue(e)
    PROVE  queue' \in Seq(Events) /\ Queued' = Queued \cup {e}
<1>1. queue \in Seq(Events) /\ queue' = Append(queue, e)
  BY DEF TypeOK, Enqueue
<1>2. Queued = ElementsOf(queue) /\ Queued' = ElementsOf(queue')
  BY DEF Queued, ElementsOf
<1> QED
  BY <1>1, <1>2, AppendElements

LEMMA HandlerInv ==
    ASSUME IInv, NEW e \in Events, Write(e) \/ DirectPublish(e) \/ DirectSkipped(e) \/ Leaves(e)
    PROVE  IInv'
<1> USE DEF IInv, TypeOK, JobCurrent, Safe, At, handler, worker, broker, consumer, rows, NoJob, Jobs
<1>1. CASE Write(e)
  <2>1. Queued' = Queued
    BY <1>1 DEF Write, Queued
  <2>2. TypeOK' /\ JobCurrent'
    BY <1>1, <2>1 DEF Write
  <2>3. MarkIsSafe' /\ NothingVanishes'
    BY <1>1, <2>1 DEF Write, MarkIsSafe, NothingVanishes
  <2> QED
    BY <2>2, <2>3
<1>2. CASE DirectPublish(e)
  <2>1. queue' \in Seq(Events) /\ Queued' = Queued \cup {e}
    BY <1>2, EnqueueElements DEF DirectPublish
  <2>2. TypeOK'
    BY <1>2, <2>1 DEF DirectPublish, Enqueue
  <2>3. JobCurrent'
    BY <1>2 DEF DirectPublish, Enqueue
  <2>4. MarkIsSafe' /\ NothingVanishes'
    BY <1>2, <2>1, KeepsSafe DEF DirectPublish, Enqueue
  <2> QED
    BY <2>2, <2>3, <2>4
<1>3. CASE DirectSkipped(e) \/ Leaves(e)
  <2>1. Queued' = Queued
    BY <1>3 DEF DirectSkipped, Leaves, Queued
  <2>2. TypeOK' /\ JobCurrent'
    BY <1>3, <2>1 DEF DirectSkipped, Leaves
  <2>3. MarkIsSafe' /\ NothingVanishes'
    BY <1>3, <2>1, KeepsSafe DEF DirectSkipped, Leaves
  <2> QED
    BY <2>2, <2>3
<1> QED
  BY <1>1, <1>2, <1>3

LEMMA OutboxInv == ASSUME IInv, Outbox PROVE IInv'
<1> USE DeliveryAssumption
    DEF IInv, TypeOK, JobCurrent, Safe, handler, worker, broker, consumer, rows, NoJob, Jobs
<1>1. ASSUME Queued' = Queued, UNCHANGED <<written, direct, queue, dead, job, consuming, pending, ordered>>
      PROVE  JobCurrent' /\ \A e \in Events : Safe(e)' <=> Safe(e)
  BY <1>1
<1>2. CASE FetchBatch \/ BatchRaises
  <2>1. Queued' = Queued
    BY <1>2 DEF FetchBatch, BatchRaises, Queued
  <2>2. TypeOK' /\ JobCurrent'
    BY <1>2, <2>1 DEF FetchBatch, BatchRaises, Unpublished
  <2>3. MarkIsSafe' /\ NothingVanishes'
    BY <1>2, <2>1, KeepsSafe DEF FetchBatch, BatchRaises, At
  <2> QED
    BY <2>2, <2>3
<1>3. ASSUME NEW e \in Events, GiveUp(e) \/ Mark(e) PROVE IInv'
  <2>1. Queued' = Queued
    BY <1>3 DEF GiveUp, Mark, Queued
  <2>2. TypeOK' /\ JobCurrent'
    BY <1>3, <2>1 DEF GiveUp, Mark, NextEvent, At
  <2>3. MarkIsSafe'
    <3>1. step' # "mark"
      BY <1>3 DEF GiveUp, Mark, NextEvent
    <3> QED
      BY <3>1 DEF MarkIsSafe, At
  <2>4. retries[e] < MaxRetry => Safe(e)
    BY <1>3 DEF GiveUp, Mark, MarkIsSafe
  <2>5. published' = published \cup {e} /\ UNCHANGED <<retries, pending, dead>>
    BY <1>3 DEF GiveUp, Mark
  <2>6. NothingVanishes'
    BY <2>1, <2>4, <2>5 DEF NothingVanishes
  <2> QED
    BY <2>2, <2>3, <2>6
<1>4. ASSUME NEW e \in Events, At(e, "publish"), Enqueue(e), step' \in {"mark", "fail"},
             UNCHANGED <<handler, published, retries, batch, consumer, rows>>
      PROVE  IInv'
  <2>1. queue' \in Seq(Events) /\ Queued' = Queued \cup {e}
    BY <1>4, EnqueueElements
  <2>2. TypeOK'
    BY <1>4, <2>1 DEF Enqueue, At
  <2>3. JobCurrent'
    BY <1>4 DEF Enqueue
  <2>4. MarkIsSafe'
    BY <1>4, <2>1 DEF MarkIsSafe, At
  <2>5. NothingVanishes'
    BY <1>4, <2>1 DEF Enqueue, NothingVanishes
  <2> QED
    BY <2>2, <2>3, <2>4, <2>5
<1>5. ASSUME NEW e \in Events, At(e, step), step' = "fail",
             UNCHANGED <<handler, published, retries, batch, broker, consumer, rows>>
      PROVE  IInv'
  <2>1. Queued' = Queued
    BY <1>5 DEF Queued
  <2>2. TypeOK' /\ JobCurrent'
    BY <1>5, <2>1 DEF At
  <2>3. MarkIsSafe' /\ NothingVanishes'
    BY <1>5, <2>1, KeepsSafe DEF At
  <2> QED
    BY <2>2, <2>3
<1>6. ASSUME NEW e \in Events, RecordFailure(e) PROVE IInv'
  <2>1. Queued' = Queued
    BY <1>6 DEF RecordFailure, Queued
  <2>2. TypeOK' /\ JobCurrent'
    BY <1>6, <2>1 DEF RecordFailure, NextEvent, At
  <2>3. MarkIsSafe'
    BY <1>6 DEF RecordFailure, NextEvent, MarkIsSafe, At
  <2>4. NothingVanishes'
    BY <1>6, <2>1 DEF RecordFailure, NothingVanishes
  <2> QED
    BY <2>2, <2>3, <2>4
<1>7. ASSUME NEW e \in Events, Publish(e) \/ PublishRaises(e) \/ MarkRaises(e) PROVE IInv'
  BY <1>4, <1>5, <1>7 DEF Publish, PublishRaises, MarkRaises, At
<1> QED
  BY <1>2, <1>3, <1>6, <1>7 DEF Outbox

(* The head of the queue is removed by a consumer that has dealt with it, or
   into the dead letters. *)
LEMMA PopInv ==
    ASSUME IInv, queue # <<>>, queue' = Tail(queue),
           job' = NoJob \/ (job' = job /\ (job # NoJob => ~job.fresh)),
           dead' = dead \cup {Head(queue)} \/ (dead' = dead /\ Head(queue) \notin pending),
           UNCHANGED <<written, direct, published, retries, batch, step, pending, ordered>>,
           consuming' \in BOOLEAN, job' # NoJob => consuming'
    PROVE  IInv'
<1> USE DEF IInv, TypeOK, JobCurrent, NoJob, Jobs
<1>1. queue' \in Seq(Events) /\ Queued = {Head(queue)} \cup Queued'
  <2>1. Queued = ElementsOf(queue) /\ Queued' = ElementsOf(queue')
    BY DEF Queued, ElementsOf
  <2> QED
    BY <2>1, TailElements
<1>2. TypeOK'
  BY <1>1
<1>3. JobCurrent'
  OBVIOUS
<1>4. MarkIsSafe' /\ NothingVanishes'
  BY <1>1, KeepsSafe DEF At, Safe
<1> QED
  BY <1>2, <1>3, <1>4

LEMMA ConsumerInv == ASSUME IInv, Consumer \/ TimesOut PROVE IInv'
<1> USE DEF IInv, TypeOK, JobCurrent, handler, worker, broker, consumer, rows, NoJob, Jobs
<1>1. CASE Take
  <2>1. Queued' = Queued /\ Head(queue) \in Queued
    BY <1>1, TailElements DEF Take, Queued, ElementsOf
  <2>2. TypeOK' /\ JobCurrent'
    BY <1>1, <2>1 DEF Take
  <2>3. MarkIsSafe' /\ NothingVanishes'
    BY <1>1, <2>1, KeepsSafe DEF Take, At, Safe
  <2> QED
    BY <2>2, <2>3
<1>2. CASE CreateOrder \/ Confirm \/ CountReserved
  <2>1. Queued' = Queued
    BY <1>2 DEF CreateOrder, Confirm, CountReserved, Queued
  <2>2. TypeOK' /\ JobCurrent'
    BY <1>2, <2>1 DEF CreateOrder, Confirm, CountReserved, Working
  <2>3. MarkIsSafe' /\ NothingVanishes'
    BY <1>2, <2>1, KeepsSafe DEF CreateOrder, Confirm, CountReserved, At, Safe
  <2> QED
    BY <2>2, <2>3
<1>3. CASE Ack
  <2>1. queue # <<>> /\ Head(queue) \notin pending
    BY <1>3 DEF Ack, Working
  <2> QED
    BY <1>3, <2>1, PopInv DEF Ack
<1>4. CASE Raises
  <2>1. CASE job.fresh
    <3>1. queue # <<>> /\ Head(queue) = job.ev
      BY <1>4, <2>1 DEF Raises
    <3> QED
      BY <1>4, <2>1, <3>1, PopInv DEF Raises
  <2>2. CASE ~job.fresh
    <3>1. Queued' = Queued
      BY <1>4, <2>2 DEF Raises, Queued
    <3>2. TypeOK' /\ JobCurrent'
      BY <1>4, <2>2, <3>1 DEF Raises
    <3>3. MarkIsSafe' /\ NothingVanishes'
      BY <1>4, <2>2, <3>1, KeepsSafe DEF Raises, At, Safe
    <3> QED
      BY <3>2, <3>3
  <2> QED
    BY <2>1, <2>2
<1>5. CASE TimesOut
  BY <1>5, PopInv DEF TimesOut
<1> QED
  BY <1>1, <1>2, <1>3, <1>4, <1>5 DEF Consumer

LEMMA NextInv == IInv /\ [Next]_vars => IInv'
<1> SUFFICES ASSUME IInv, [Next]_vars PROVE IInv'
  OBVIOUS
<1>1. CASE Restart \/ ChannelCloses \/ UNCHANGED vars
  <2> USE DEF IInv, TypeOK, JobCurrent, handler, worker, broker, consumer, rows, NoJob, Jobs, vars
  <2>1. Queued' = Queued
    BY <1>1 DEF Restart, ChannelCloses, Queued
  <2>2. TypeOK' /\ JobCurrent'
    BY <1>1, <2>1 DEF Restart, ChannelCloses
  <2>3. MarkIsSafe' /\ NothingVanishes'
    BY <1>1, <2>1, KeepsSafe DEF Restart, ChannelCloses, At, Safe
  <2> QED
    BY <2>2, <2>3
<1> QED
  BY <1>1, HandlerInv, OutboxInv, ConsumerInv DEF Next

-----------------------------------------------------------------------------
(* The four conjuncts together are invariant. *)
THEOREM DeliveryInvariant == Spec => []IInv
  BY InitInv, NextInv, PTL DEF Spec

(* No event that the outbox worker marks within its retries is ever lost. *)
THEOREM EventsNeverVanish == Spec => []NothingVanishes
<1>1. IInv => NothingVanishes
  BY DEF IInv
<1> QED
  BY <1>1, DeliveryInvariant, PTL

(* Type correctness. *)
THEOREM DeliveryTypeOK == Spec => []TypeOK
<1>1. IInv => TypeOK
  BY DEF IInv
<1> QED
  BY <1>1, DeliveryInvariant, PTL

-----------------------------------------------------------------------------
(* Delivery keeps the promise of Handover *)

(* What has happened to an event stays so, or a step of Handover has happened. *)
Permitted(a, b, n) ==
    \/ a = b
    \/ a = "none" /\ b = "stored"
    \/ a \in {"stored", "lost"} /\ b = "queued"
    \/ a = "stored" /\ b = "lost" /\ n = MaxRetry
    \/ a = "queued" /\ b = "dead"
    \/ a \in {"queued", "dead", "left"} /\ b = "ordered"
    \/ a \in {"stored", "lost", "queued", "dead"} /\ b = "left"

LEMMA FatesSame ==
    ASSUME \A e \in Events : Fate(e)' = Fate(e), UNCHANGED retries
    PROVE  UNCHANGED Promise!vars
<1>1. Fates' = Fates
  BY DEF Fates
<1> QED
  BY <1>1 DEF Promise!vars

LEMMA OneFateMoves ==
    ASSUME NEW e \in Events, \A f \in Events \ {e} : Fate(f)' = Fate(f), UNCHANGED retries,
           Permitted(Fate(e), Fate(e)', retries[e])
    PROVE  [Promise!Next]_Promise!vars
<1>1. CASE Fate(e)' = Fate(e)
  BY <1>1, FatesSame
<1>2. CASE Fate(e)' # Fate(e)
  <2>1. Fates' = [Fates EXCEPT ![e] = Fate(e)'] /\ Fates[e] = Fate(e)
    BY DEF Fates
  <2>2. \/ Promise!Store(e) \/ Promise!HandOver(e) \/ Promise!GiveUp(e)
        \/ Promise!Bury(e) \/ Promise!Order(e) \/ Promise!Leave(e)
    BY <1>2, <2>1 DEF Permitted, Promise!Becomes, Promise!Store, Promise!HandOver, Promise!GiveUp,
       Promise!Bury, Promise!Order, Promise!Leave
  <2> QED
    BY <2>2 DEF Promise!Next
<1> QED
  BY <1>1, <1>2

(* A step that touches nothing but the batch, the job or the channel *)
LEMMA NothingMoves ==
    ASSUME UNCHANGED <<written, published, retries, queue, dead, pending, ordered>>
    PROVE  UNCHANGED Promise!vars /\ \A e \in Events : Safe(e)' <=> Safe(e)
<1>1. Queued' = Queued
  BY DEF Queued
<1>2. \A e \in Events : Fate(e)' = Fate(e)
  BY <1>1 DEF Fate
<1>3. \A e \in Events : Safe(e)' <=> Safe(e)
  BY <1>1 DEF Safe
<1> QED
  BY <1>2, <1>3, FatesSame

LEMMA EnqueueMoves ==
    ASSUME TypeOK, NEW e \in Events, Enqueue(e), e \in written,
           UNCHANGED <<written, published, retries, pending, ordered>>
    PROVE  [Promise!Next]_Promise!vars /\ \A f \in Events : Safe(f) => Safe(f)'
<1>1. Queued' = Queued \cup {e} /\ dead' = dead
  BY EnqueueElements DEF Enqueue
<1>2. \A f \in Events \ {e} : Fate(f)' = Fate(f)
  BY <1>1 DEF Fate
<1>3. Permitted(Fate(e), Fate(e)', retries[e])
  BY <1>1 DEF Fate, Permitted
<1>4. \A f \in Events : Safe(f) => Safe(f)'
  BY <1>1 DEF Safe
<1> QED
  BY <1>2, <1>3, <1>4, OneFateMoves

(* The head of the queue is removed: into the dead letters, or dealt with. *)
LEMMA PopMoves ==
    ASSUME TypeOK, NEW e, queue # <<>>, e = Head(queue), queue' = Tail(queue),
           dead' = dead \cup {e} \/ (dead' = dead /\ e \notin pending),
           UNCHANGED <<written, published, retries, pending, ordered>>
    PROVE  [Promise!Next]_Promise!vars /\ \A f \in Events : Safe(f) => Safe(f)'
<1>1. queue \in Seq(Events) /\ Queued = ElementsOf(queue) /\ Queued' = ElementsOf(queue')
  BY DEF TypeOK, Queued, ElementsOf
<1>2. Queued = {e} \cup Queued' /\ e \in Events /\ e \in Queued
  BY <1>1, TailElements
<1>3. e \in written
  BY <1>2 DEF TypeOK
<1>4. \A f \in Events \ {e} : Fate(f)' = Fate(f)
  BY <1>2 DEF Fate
<1>5. Permitted(Fate(e), Fate(e)', retries[e])
  <2>1. CASE e \notin pending
    BY <1>3, <2>1 DEF Fate, Permitted
  <2>2. CASE e \in pending
    <3>1. Fate(e) \in {"dead", "queued"}
      BY <1>2, <1>3, <2>2 DEF Fate
    <3>2. Fate(e)' = "dead"
      BY <1>3, <2>2 DEF Fate
    <3> QED
      BY <3>1, <3>2 DEF Permitted
  <2> QED
    BY <2>1, <2>2
<1>6. \A f \in Events : Safe(f) => Safe(f)'
  BY <1>2 DEF Safe
<1> QED
  BY <1>2, <1>4, <1>5, <1>6, OneFateMoves
(* Every step of a handler, of the worker, of the consumer and of the broker is a
   step of Handover or none, and leaves what is safe safe. *)
Kept == [Promise!Next]_Promise!vars /\ \A e \in written : Safe(e) => Safe(e)'

LEMMA HandlerKeeps ==
    ASSUME PromiseIInv, NEW e \in Events, Write(e) \/ DirectPublish(e) \/ DirectSkipped(e) \/ Leaves(e)
    PROVE  Kept
<1> USE DEF PromiseIInv, IInv
<1>1. CASE Write(e)
  <2>1. Queued' = Queued
    BY <1>1 DEF Write, broker, Queued
  <2>2. \A f \in Events \ {e} : Fate(f)' = Fate(f) /\ (Safe(f) => Safe(f)')
    BY <1>1, <2>1 DEF Write, worker, broker, Fate, Safe
  <2>3. Fate(e) = "none" /\ Fate(e)' = "stored" /\ UNCHANGED retries
    BY <1>1, <2>1 DEF TypeOK, Write, worker, broker, Fate
  <2> QED
    BY <1>1, <2>2, <2>3, OneFateMoves DEF Kept, Permitted, Write, TypeOK
<1>2. CASE DirectPublish(e)
  BY <1>2, EnqueueMoves DEF DirectPublish, TypeOK, worker, rows, Kept
<1>3. CASE DirectSkipped(e)
  BY <1>3, NothingMoves DEF DirectSkipped, TypeOK, worker, broker, rows, Kept
<1>4. CASE Leaves(e)
  <2>1. Queued' = Queued
    BY <1>4 DEF Leaves, broker, Queued
  <2>2. /\ \A f \in Events \ {e} : Fate(f)' = Fate(f)
        /\ \A f \in Events : Safe(f) => Safe(f)'
    BY <1>4, <2>1 DEF Leaves, handler, worker, broker, Fate, Safe
  <2>3. e \in written /\ (e \in ordered => e \in Queued \cup dead) /\ UNCHANGED retries
    BY <1>4 DEF Leaves, TypeOK, OrdersBacked, Safe, worker
  <2>4. Permitted(Fate(e), Fate(e)', retries[e])
    BY <1>4, <2>1, <2>3 DEF Leaves, handler, Fate, Permitted
  <2> QED
    BY <2>2, <2>3, <2>4, OneFateMoves DEF Kept, TypeOK
<1> QED
  BY <1>1, <1>2, <1>3, <1>4

LEMMA OutboxKeeps == ASSUME PromiseIInv, Outbox PROVE Kept
<1> USE DEF PromiseIInv, IInv
<1>1. CASE FetchBatch \/ BatchRaises \/ \E e \in Events : MarkRaises(e)
  BY <1>1, NothingMoves DEF FetchBatch, BatchRaises, MarkRaises, handler, broker, rows, TypeOK, Kept
<1>2. ASSUME NEW e \in Events, GiveUp(e) \/ Mark(e) PROVE Kept
  <2>1. Queued' = Queued
    BY <1>2 DEF GiveUp, Mark, broker, Queued
  <2>2. UNCHANGED <<written, retries, dead, pending, ordered>> /\ published' = published \cup {e}
    BY <1>2 DEF GiveUp, Mark, handler, broker, rows
  <2>3. /\ \A f \in Events \ {e} : Fate(f)' = Fate(f)
        /\ \A f \in Events : Safe(f) => Safe(f)'
    BY <2>1, <2>2 DEF Fate, Safe
  <2>4. Permitted(Fate(e), Fate(e)', retries[e])
    <3>1. CASE GiveUp(e)
      <4>1. retries[e] = MaxRetry
        BY <3>1, DeliveryAssumption DEF GiveUp, RetriesLeft, TypeOK
      <4> QED
        BY <2>1, <2>2, <4>1 DEF Fate, Permitted
    <3>2. CASE Mark(e)
      <4>1. Safe(e)
        BY <3>2 DEF Mark, MarkIsSafe
      <4> QED
        BY <2>1, <2>2, <4>1 DEF Fate, Permitted, Safe
    <3> QED
      BY <1>2, <3>1, <3>2
  <2> QED
    BY <2>2, <2>3, <2>4, OneFateMoves DEF Kept, TypeOK
<1>3. ASSUME NEW e \in Events, Publish(e) \/ PublishRaises(e) PROVE Kept
  <2>1. e \in written
    BY <1>3 DEF Publish, PublishRaises, At, TypeOK
  <2>2. CASE Enqueue(e)
    BY <1>3, <2>1, <2>2, EnqueueMoves DEF Publish, PublishRaises, handler, rows, TypeOK, Kept
  <2>3. CASE UNCHANGED broker
    BY <1>3, <2>3, NothingMoves DEF Publish, PublishRaises, handler, broker, rows, TypeOK, Kept
  <2> QED
    BY <1>3, <2>2, <2>3 DEF Publish, PublishRaises
<1>4. ASSUME NEW e \in Events, RecordFailure(e) PROVE Kept
  <2>1. Queued' = Queued
    BY <1>4 DEF RecordFailure, broker, Queued
  <2>2. \A f \in Events : Fate(f)' = Fate(f) /\ (Safe(f) => Safe(f)')
    BY <1>4, <2>1 DEF RecordFailure, handler, broker, rows, Fate, Safe
  <2>3. Fates' = Fates
    BY <2>2 DEF Fates
  <2>4. Promise!Fail(e)
    BY <1>4, <2>3 DEF RecordFailure, RetriesLeft, Promise!Fail
  <2> QED
    BY <2>2, <2>4 DEF Kept, Promise!Next, TypeOK
<1> QED
  BY <1>1, <1>2, <1>3, <1>4 DEF Outbox

LEMMA ConsumerKeeps == ASSUME PromiseIInv, Consumer \/ TimesOut PROVE Kept
<1> USE DEF PromiseIInv, IInv
<1>1. CASE Take \/ CountReserved
  BY <1>1, NothingMoves DEF Take, CountReserved, handler, worker, broker, rows, TypeOK, Kept
<1>2. CASE CreateOrder \/ Confirm
  <2>1. job # NoJob /\ job.ev \in written /\ job.ev \in Events
    BY <1>2 DEF CreateOrder, Confirm, Working, TypeOK
  <2>2. PICK e \in written : e = job.ev
    BY <2>1
  <2>3. Queued' = Queued /\ UNCHANGED <<written, published, retries, dead>>
    BY <1>2 DEF CreateOrder, Confirm, handler, worker, broker, Queued
  <2>4. /\ \A f \in Events \ {e} : Fate(f)' = Fate(f)
        /\ \A f \in Events : Safe(f) => Safe(f)'
    BY <1>2, <2>2, <2>3 DEF CreateOrder, Confirm, Fate, Safe
  <2>5. Permitted(Fate(e), Fate(e)', retries[e])
    <3>1. CASE CreateOrder
      BY <2>2, <2>3, <3>1 DEF CreateOrder, Fate, Permitted
    <3>2. CASE Confirm
      <4>1. e \in ordered /\ Safe(e) /\ ordered' = ordered
        BY <2>1, <2>2, <3>2 DEF Confirm, Working, JobBacked
      <4> QED
        BY <2>2, <2>3, <3>2, <4>1 DEF Confirm, Fate, Permitted, Safe
    <3> QED
      BY <1>2, <3>1, <3>2
  <2> QED
    BY <2>3, <2>4, <2>5, OneFateMoves DEF Kept, TypeOK
<1>3. CASE Ack
  <2>1. queue # <<>> /\ Head(queue) \notin pending
    BY <1>3 DEF Ack, Working, JobCurrent
  <2> QED
    BY <1>3, <2>1, PopMoves DEF Ack, handler, worker, rows, Kept, TypeOK
<1>4. CASE Raises
  <2>1. CASE job.fresh
    <3>1. queue # <<>> /\ Head(queue) = job.ev
      BY <1>4, <2>1 DEF Raises, JobCurrent
    <3> QED
      BY <1>4, <2>1, <3>1, PopMoves DEF Raises, handler, worker, rows, Kept, TypeOK
  <2>2. CASE ~job.fresh
    BY <1>4, <2>2, NothingMoves DEF Raises, handler, worker, rows, Kept, TypeOK
  <2> QED
    BY <2>1, <2>2
<1>5. CASE TimesOut
  BY <1>5, PopMoves DEF TimesOut, handler, worker, rows, Kept, TypeOK
<1> QED
  BY <1>1, <1>2, <1>3, <1>4, <1>5 DEF Consumer

LEMMA NextKeeps == PromiseIInv /\ [Next]_vars => Kept
<1> SUFFICES ASSUME PromiseIInv, [Next]_vars PROVE Kept
  OBVIOUS
<1>1. CASE Restart \/ ChannelCloses \/ UNCHANGED vars
  BY <1>1, NothingMoves DEF Restart, ChannelCloses, handler, worker, broker, rows, vars, Kept,
     PromiseIInv, IInv, TypeOK
<1> QED
  BY <1>1, HandlerKeeps, OutboxKeeps, ConsumerKeeps DEF Next

LEMMA NextRetries ==
    ASSUME TypeOK, RetriesLeft, [Next]_vars
    PROVE  RetriesLeft'
<1> USE DEF RetriesLeft, At
<1>1. CASE UNCHANGED <<retries, batch, step>>
  BY <1>1
<1>2. CASE UNCHANGED retries /\ step' = "publish"
  BY <1>2
<1>3. ASSUME NEW e \in Events, Publish(e) \/ PublishRaises(e) \/ MarkRaises(e) PROVE RetriesLeft'
  <2>1. UNCHANGED <<retries, batch>> /\ retries[e] < MaxRetry /\ At(e, step)
    BY <1>3 DEF Publish, PublishRaises, MarkRaises
  <2>2. \A f \in Events : f \in batch /\ (\A g \in batch : f <= g) => f = e
    BY <2>1, DeliveryAssumption
  <2> QED
    BY <2>1, <2>2
<1>4. ASSUME NEW e \in Events, RecordFailure(e) PROVE RetriesLeft'
  <2>1. /\ retries[e] < MaxRetry /\ step' = "publish"
        /\ retries' = [retries EXCEPT ![e] = @ + 1]
    BY <1>4 DEF RecordFailure, NextEvent
  <2> QED
    BY <2>1, DeliveryAssumption DEF TypeOK
<1>5. CASE FetchBatch
  <2>1. step = "publish" /\ UNCHANGED <<retries, step>>
    BY <1>5 DEF FetchBatch, TypeOK
  <2> QED
    BY <2>1
<1>6. ASSUME NEW e \in Events, GiveUp(e) \/ Mark(e) PROVE RetriesLeft'
  BY <1>2, <1>6 DEF GiveUp, Mark, NextEvent
<1>7. CASE BatchRaises \/ Restart
  BY <1>2, <1>7 DEF BatchRaises, Restart
<1>8. CASE \/ \E e \in Events : Write(e) \/ DirectPublish(e) \/ DirectSkipped(e) \/ Leaves(e)
           \/ Consumer \/ TimesOut \/ ChannelCloses \/ UNCHANGED vars
  BY <1>1, <1>8 DEF Write, DirectPublish, DirectSkipped, Leaves, Consumer, Take, CreateOrder, Confirm,
     CountReserved, Ack, Raises, TimesOut, ChannelCloses, worker, vars
<1> QED
  BY <1>3, <1>4, <1>5, <1>6, <1>7, <1>8 DEF Next, Outbox

LEMMA NextBacked ==
    ASSUME PromiseIInv, TypeOK', [Next]_vars, Kept
    PROVE  JobBacked' /\ OrdersBacked'
<1> USE DEF PromiseIInv, IInv, TypeOK, NoJob, Jobs
<1>1. CASE UNCHANGED <<job, ordered>>
  BY <1>1 DEF Kept, JobBacked, OrdersBacked, Safe
<1>2. CASE job' = NoJob /\ UNCHANGED ordered
  BY <1>2 DEF Kept, JobBacked, OrdersBacked, Safe
<1>3. CASE Take
  <2>1. Queued' = Queued /\ Head(queue) \in Queued
    BY <1>3, TailElements DEF Take, broker, Queued, ElementsOf
  <2>2. job'.ev \in Queued' /\ job'.at \in {"create", "ack"} /\ UNCHANGED ordered
    BY <1>3, <2>1 DEF Take, rows
  <2> QED
    BY <2>2 DEF Kept, JobBacked, OrdersBacked, Safe
<1>4. CASE CreateOrder \/ Confirm \/ CountReserved \/ ChannelCloses
  <2>1. /\ job # NoJob /\ job'.ev = job.ev
        /\ \/ ordered' = ordered \cup {job.ev} /\ job'.at = "confirm"
           \/ ordered' = ordered /\ job'.at \in {"count", "ack"} /\ job.at \in {"confirm", "count"}
           \/ ordered' = ordered /\ job'.at = job.at
    BY <1>4 DEF CreateOrder, Confirm, CountReserved, ChannelCloses, Working, rows
  <2>2. Safe(job.ev) /\ job.ev \in written /\ ordered \subseteq written
    BY <2>1 DEF JobBacked
  <2> QED
    BY <2>1, <2>2 DEF Kept, JobBacked, OrdersBacked, Safe
<1>5. CASE Ack \/ Raises \/ Restart
  BY <1>2, <1>5 DEF Ack, Raises, Restart, rows
<1>6. CASE \/ \E e \in Events : Write(e) \/ DirectPublish(e) \/ DirectSkipped(e) \/ Leaves(e)
           \/ Outbox \/ TimesOut \/ UNCHANGED vars
  BY <1>1, <1>6 DEF Write, DirectPublish, DirectSkipped, Leaves, Outbox, FetchBatch, BatchRaises,
     GiveUp, Publish, PublishRaises, Mark, MarkRaises, RecordFailure, TimesOut, consumer, rows, vars
<1> QED
  BY <1>3, <1>4, <1>5, <1>6 DEF Next, Consumer

LEMMA InitPromise == Init => PromiseIInv /\ Promise!Init
<1> SUFFICES ASSUME Init PROVE PromiseIInv /\ Promise!Init
  OBVIOUS
<1>1. PromiseIInv
  BY InitInv, DeliveryAssumption DEF Init, PromiseIInv, JobBacked, OrdersBacked, RetriesLeft, At
<1>2. Fates = [e \in Events |-> "none"]
  BY DEF Init, Fates, Fate
<1> QED
  BY <1>1, <1>2 DEF Init, Promise!Init

LEMMA NextPromise == PromiseIInv /\ [Next]_vars => PromiseIInv'
<1> SUFFICES ASSUME PromiseIInv, [Next]_vars PROVE PromiseIInv'
  OBVIOUS
<1>1. IInv /\ IInv' /\ Kept
  BY NextInv, NextKeeps DEF PromiseIInv
<1> QED
  BY <1>1, NextBacked, NextRetries DEF PromiseIInv, IInv

(* Delivery implements Handover: for every set of events and every limit, an event
   that the broker has taken ends settled or in the dead letters, none is given up
   before MaxRetry failures, and an order comes of a message. *)
THEOREM DeliveryKeepsPromise == Spec => KeepsPromise
<1>1. Kept => [Promise!Next]_Promise!vars
  BY DEF Kept
<1> QED
  BY <1>1, InitPromise, NextPromise, NextKeeps, PTL DEF Spec, KeepsPromise, Promise!Spec
-----------------------------------------------------------------------------
(* The circuit breaker *)
BreakerIInv == BreakerTypeOK /\ OpenIsStamped

(* The steps of a call that leave the state and the time of its opening alone, and
   are not about to write that time, lose no opening. *)
LEMMA OtherCallsStamp ==
    ASSUME BreakerIInv, BreakerTypeOK', UNCHANGED <<state, opened_at, unstamped>>, NEW c \in Calls,
           at[c] # "stamp", \A d \in Calls \ {c} : at'[d] = at[d]
    PROVE  BreakerIInv'
  BY DEF BreakerIInv, OpenIsStamped

LEMMA ZeroCounts == 0 \in 0..FailureThreshold /\ 0 \in 0..SuccessThreshold
  BY BreakerAssumption

LEMMA CallTyped == ASSUME BreakerTypeOK, NEW c \in Calls, Call(c) PROVE BreakerTypeOK'
<1> USE BreakerAssumption, ZeroCounts DEF BreakerTypeOK, Steps, Step, keys
<1>1. CASE ReadState(c) \/ ReadOpenedAt(c) \/ SetHalfOpen(c) \/ Attempt(c)
  BY <1>1 DEF ReadState, ReadOpenedAt, SetHalfOpen, Attempt
<1>2. CASE ReadOnSuccess(c)
  BY <1>2 DEF ReadOnSuccess
<1>3. CASE CountSuccess(c)
  BY <1>3 DEF CountSuccess
<1>4. CASE SetClosed(c) \/ ForgetFailures(c) \/ ForgetSuccesses(c) \/ ForgetOpening(c)
  BY <1>4 DEF SetClosed, ForgetFailures, ForgetSuccesses, ForgetOpening
<1>5. CASE ReadOnFailure(c)
  BY <1>5 DEF ReadOnFailure
<1>6. CASE CountFailure(c)
  BY <1>6 DEF CountFailure
<1>7. CASE SetOpen(c) \/ Stamp(c) \/ ResetFailures(c)
  BY <1>7 DEF SetOpen, Stamp, ResetFailures
<1> QED
  BY <1>1, <1>2, <1>3, <1>4, <1>5, <1>6, <1>7 DEF Call

LEMMA CallStamps == ASSUME BreakerIInv, NEW c \in Calls, Call(c) PROVE BreakerIInv'
<1>0. BreakerTypeOK /\ BreakerTypeOK'
  BY CallTyped DEF BreakerIInv
<1>1. \A d \in Calls \ {c} : at'[d] = at[d]
  BY <1>0 DEF BreakerTypeOK, Call, Step, ReadState, ReadOpenedAt, SetHalfOpen, Attempt, ReadOnSuccess,
     CountSuccess, SetClosed, ForgetFailures, ForgetSuccesses, ForgetOpening, ReadOnFailure,
     CountFailure, SetOpen, Stamp, ResetFailures
<1>2. CASE \/ ReadState(c) \/ ReadOpenedAt(c) \/ Attempt(c) \/ ReadOnSuccess(c) \/ CountSuccess(c)
           \/ ForgetFailures(c) \/ ForgetSuccesses(c) \/ ReadOnFailure(c) \/ CountFailure(c)
           \/ ResetFailures(c)
  <2>1. UNCHANGED <<state, opened_at, unstamped>> /\ at[c] # "stamp"
    BY <1>2 DEF Step, keys, ReadState, ReadOpenedAt, Attempt, ReadOnSuccess, CountSuccess,
       ForgetFailures, ForgetSuccesses, ReadOnFailure, CountFailure, ResetFailures
  <2> QED
    BY <1>0, <1>1, <2>1, OtherCallsStamp
<1>3. CASE SetHalfOpen(c) \/ SetClosed(c)
  BY <1>0, <1>3 DEF SetHalfOpen, SetClosed, BreakerIInv, OpenIsStamped
<1>4. CASE SetOpen(c)
  BY <1>0, <1>4 DEF SetOpen, Step, BreakerTypeOK, BreakerIInv, OpenIsStamped
<1>5. CASE Stamp(c)
  <2>1. opened_at' # Nil
    BY <1>5, BreakerAssumption DEF Stamp
  <2> QED
    BY <1>0, <2>1 DEF BreakerIInv, OpenIsStamped
<1>6. CASE ForgetOpening(c)
  <2>1. unstamped' = (unstamped \/ state = "open") /\ state' = state
    BY <1>6 DEF ForgetOpening
  <2>2. OpenIsStamped'
    BY <2>1 DEF OpenIsStamped
  <2> QED
    BY <1>0, <2>2 DEF BreakerIInv
<1> QED
  BY <1>2, <1>3, <1>4, <1>5, <1>6 DEF Call

(* A lost call is recorded if it was about to write the time. *)
LEMMA LossStamps ==
    ASSUME BreakerIInv, NEW c \in Calls, RedisRaises(c) \/ Abandoned(c)
    PROVE  BreakerIInv'
<1>1. /\ UNCHANGED keys /\ \A d \in Calls \ {c} : at'[d] = at[d]
      /\ unstamped' = (unstamped \/ (at[c] = "stamp" /\ opened_at = Nil))
  BY DEF RedisRaises, Abandoned, BreakerIInv, BreakerTypeOK
<1>2. BreakerTypeOK'
  BY <1>1 DEF RedisRaises, Abandoned, BreakerIInv, BreakerTypeOK, Steps, keys
<1>3. OpenIsStamped'
  <2> SUFFICES ASSUME state = "open", opened_at = Nil
               PROVE  unstamped' \/ \E d \in Calls : at'[d] = "stamp"
    BY <1>1 DEF OpenIsStamped, keys
  <2>1. unstamped \/ \E d \in Calls : at[d] = "stamp"
    BY DEF BreakerIInv, OpenIsStamped
  <2>2. CASE unstamped \/ at[c] = "stamp"
    BY <1>1, <2>2
  <2>3. CASE \E d \in Calls \ {c} : at[d] = "stamp"
    BY <1>1, <2>3
  <2> QED
    BY <2>1, <2>2, <2>3
<1> QED
  BY <1>2, <1>3 DEF BreakerIInv

LEMMA NextBreaker == BreakerIInv /\ [BreakerNext]_breakerVars => BreakerIInv'
<1> SUFFICES ASSUME BreakerIInv, [BreakerNext]_breakerVars PROVE BreakerIInv'
  OBVIOUS
<1>1. ASSUME NEW c \in Calls, Call(c) \/ RedisRaises(c) \/ Abandoned(c) PROVE BreakerIInv'
  BY <1>1, CallStamps, LossStamps
<1>2. CASE CounterExpires \/ UNCHANGED breakerVars
  <2>1. BreakerTypeOK'
    BY <1>2, BreakerAssumption DEF CounterExpires, breakerVars, keys, BreakerIInv, BreakerTypeOK
  <2>2. UNCHANGED <<state, opened_at, at, unstamped>>
    BY <1>2 DEF CounterExpires, breakerVars, keys
  <2> QED
    BY <2>1, <2>2 DEF BreakerIInv, OpenIsStamped
<1>3. CASE CooldownPasses
  BY <1>3, BreakerAssumption DEF CooldownPasses, BreakerIInv, BreakerTypeOK, OpenIsStamped
<1>4. CASE RedisRestarts
  BY <1>4, ZeroCounts DEF RedisRestarts, BreakerIInv, BreakerTypeOK, OpenIsStamped
<1> QED
  BY <1>1, <1>2, <1>3, <1>4 DEF BreakerNext

LEMMA InitBreaker == BreakerInit => BreakerIInv
  BY ZeroCounts DEF BreakerInit, BreakerIInv, BreakerTypeOK, OpenIsStamped, Steps

(* The four keys and the calls under way are well formed. *)
THEOREM BreakerTyped == BreakerSpec => []BreakerTypeOK
<1>1. BreakerIInv => BreakerTypeOK
  BY DEF BreakerIInv
<1> QED
  BY <1>1, InitBreaker, NextBreaker, PTL DEF BreakerSpec

(* Nothing but a lost call or a late closing leaves an open circuit without the
   time it was opened. *)
THEOREM OpeningsStamped == BreakerSpec => []OpenIsStamped
<1>1. BreakerIInv => OpenIsStamped
  BY DEF BreakerIInv
<1> QED
  BY <1>1, InitBreaker, NextBreaker, PTL DEF BreakerSpec
=============================================================================
