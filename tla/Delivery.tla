------------------------------ MODULE Delivery ------------------------------
(***************************************************************************)
(* How the event of a reservation gets from its transaction to its order:  *)
(* the direct publish of the reservation handler, the outbox worker        *)
(* (workers/outbox_worker.py), the broker's queue and dead letters, and    *)
(* the order consumer (consumers/order_consumer.py).  The outbox worker    *)
(* and the consumer are tasks of one process (consumers/run_consumer.py).  *)
(*                                                                         *)
(* An event is named by its reservation.  Of the rows only what delivery   *)
(* depends on is kept: pending holds the reservations whose status is      *)
(* 'pending', ordered those that have an order; module Orders has the      *)
(* rest.  The broker is durable: when it fails it closes the channels and  *)
(* loses no message.  While it is down a publish raises and a consumer     *)
(* waits, so an outage is a run of such steps and needs no variable.       *)
(***************************************************************************)
EXTENDS Integers, Sequences, FiniteSets

CONSTANTS Events,     \* natural numbers, in the order of outbox_events.created_at
          MaxRetry,   \* MAX_RETRY_COUNT of the outbox worker
          BatchSize,  \* BATCH_SIZE of the outbox worker
          MaxQueue    \* bound: messages in the broker's queue

ASSUME DeliveryAssumption ==
    /\ Events \subseteq Nat
    /\ MaxRetry \in Nat
    /\ BatchSize \in Nat \ {0}
    /\ MaxQueue \in Nat

VARIABLES
    written,    \* events that have a row in outbox_events
    published,  \* events whose row says published
    retries,    \* outbox_events.retry_count
    direct,     \* events whose handler has yet to publish directly
    batch,      \* the rows the outbox worker has still to work on
    step,       \* where it is with the oldest of them
    queue,      \* fluxkart.orders
    dead,       \* events with a message in fluxkart.orders.dead
    job,        \* the message the consumer is working on, or NoJob
    consuming,  \* start_consumer has not ended
    pending, ordered

vars == <<written, published, retries, direct, batch, step, queue, dead, job,
          consuming, pending, ordered>>

NoJob == [at |-> "none"]

(* fresh: the channel the message came on is still open. *)
Jobs == [at : {"create", "confirm", "count", "ack"}, ev : Events, fresh : BOOLEAN]

Queued == {queue[i] : i \in DOMAIN queue}

TypeOK ==
    /\ written \subseteq Events
    /\ published \subseteq written /\ direct \subseteq written
    /\ retries \in [Events -> Nat]
    /\ batch \subseteq written /\ step \in {"publish", "mark", "fail"}
    /\ step # "publish" => batch # {}
    /\ queue \in Seq(Events) /\ Queued \subseteq written
    /\ dead \subseteq written
    /\ consuming \in BOOLEAN
    /\ job \in Jobs \cup {NoJob}
    /\ job # NoJob => consuming /\ job.ev \in written
    /\ pending \subseteq written /\ ordered \subseteq written

Init ==
    /\ written = {} /\ published = {} /\ direct = {}
    /\ retries = [e \in Events |-> 0]
    /\ batch = {} /\ step = "publish"
    /\ queue = <<>> /\ dead = {}
    /\ job = NoJob /\ consuming = TRUE
    /\ pending = {} /\ ordered = {}

handler == <<written, direct>>
worker == <<published, retries, batch, step>>
broker == <<queue, dead>>
consumer == <<job, consuming>>
rows == <<pending, ordered>>

-----------------------------------------------------------------------------
(* create_reservation: the reservation and its event, in one transaction *)
Write(e) ==
    /\ e \notin written
    /\ written' = written \cup {e}
    /\ direct' = direct \cup {e}
    /\ pending' = pending \cup {e}
    /\ UNCHANGED <<worker, broker, consumer, ordered>>

(* The broker takes a copy of the event. *)
Enqueue(e) ==
    /\ Len(queue) < MaxQueue
    /\ queue' = Append(queue, e)
    /\ UNCHANGED dead

DirectPublish(e) ==
    /\ e \in direct
    /\ direct' = direct \ {e}
    /\ Enqueue(e)
    /\ UNCHANGED <<written, worker, consumer, rows>>

(* The circuit is open, the publish raises, or the process dies. *)
DirectSkipped(e) ==
    /\ e \in direct
    /\ direct' = direct \ {e}
    /\ UNCHANGED <<written, worker, broker, consumer, rows>>

-----------------------------------------------------------------------------
(* process_outbox_batch *)
Unpublished == written \ published

(* SELECT ... WHERE published = FALSE ORDER BY created_at LIMIT BATCH_SIZE *)
FetchBatch ==
    /\ batch = {} /\ Unpublished # {}
    /\ batch' \in SUBSET Unpublished
    /\ \A e \in batch', f \in Unpublished \ batch' : e < f
    /\ Cardinality(batch') <= BatchSize
    /\ Cardinality(batch') < BatchSize => batch' = Unpublished
    /\ UNCHANGED <<handler, published, retries, step, broker, consumer, rows>>

(* The worker is at step s with event e, the oldest of its batch. *)
At(e, s) ==
    /\ e \in batch /\ \A f \in batch : e <= f
    /\ step = s

NextEvent(e) ==
    /\ batch' = batch \ {e}
    /\ step' = "publish"

(* Mutant: the event is skipped without being marked. *)
GiveUp_NotMarked(e) ==
    /\ At(e, "publish") /\ retries[e] >= MaxRetry
    /\ NextEvent(e)
    /\ UNCHANGED <<handler, published, retries, broker, consumer, rows>>

GiveUp(e) ==
    /\ At(e, "publish") /\ retries[e] >= MaxRetry
    /\ published' = published \cup {e}
    /\ NextEvent(e)
    /\ UNCHANGED <<handler, retries, broker, consumer, rows>>

Publish(e) ==
    /\ At(e, "publish") /\ retries[e] < MaxRetry
    /\ Enqueue(e)
    /\ step' = "mark"
    /\ UNCHANGED <<handler, published, retries, batch, consumer, rows>>

(* The publish raises; the broker may have taken the message all the same. *)
PublishRaises(e) ==
    /\ At(e, "publish") /\ retries[e] < MaxRetry
    /\ step' = "fail"
    /\ Enqueue(e) \/ UNCHANGED broker
    /\ UNCHANGED <<handler, published, retries, batch, consumer, rows>>

Mark(e) ==
    /\ At(e, "mark")
    /\ published' = published \cup {e}
    /\ NextEvent(e)
    /\ UNCHANGED <<handler, retries, broker, consumer, rows>>

(* The UPDATE raises inside the try block. *)
MarkRaises(e) ==
    /\ At(e, "mark")
    /\ step' = "fail"
    /\ UNCHANGED <<handler, published, retries, batch, broker, consumer, rows>>

(* Mutant: the worker goes on with the same step. *)
RecordFailure_SameStep(e) ==
    /\ At(e, "fail")
    /\ retries' = [retries EXCEPT ![e] = @ + 1]
    /\ batch' = batch \ {e}
    /\ UNCHANGED <<handler, published, step, broker, consumer, rows>>

RecordFailure(e) ==
    /\ At(e, "fail")
    /\ retries' = [retries EXCEPT ![e] = @ + 1]
    /\ NextEvent(e)
    /\ UNCHANGED <<handler, published, broker, consumer, rows>>

(* A statement outside the try block raises: the batch is abandoned and the
   worker reconnects. *)
BatchRaises ==
    /\ batch # {}
    /\ batch' = {} /\ step' = "publish"
    /\ UNCHANGED <<handler, published, retries, broker, consumer, rows>>

-----------------------------------------------------------------------------
(* process_order_message.  The message stays at the head of the queue until
   it is acknowledged or rejected. *)
Take ==
    LET e == Head(queue) IN
    /\ consuming /\ job = NoJob /\ queue # <<>>
    /\ job' = [at |-> IF e \in pending THEN "create" ELSE "ack", ev |-> e, fresh |-> TRUE]
    /\ UNCHANGED <<handler, worker, broker, consuming, rows>>

Working(s) == job # NoJob /\ job.at = s

CreateOrder ==
    /\ Working("create")
    /\ job.ev \notin ordered
    /\ ordered' = ordered \cup {job.ev}
    /\ job' = [job EXCEPT !.at = "confirm"]
    /\ UNCHANGED <<handler, worker, broker, consuming, pending>>

Confirm ==
    /\ Working("confirm")
    /\ pending' = pending \ {job.ev}
    /\ job' = [job EXCEPT !.at = "count"]
    /\ UNCHANGED <<handler, worker, broker, consuming, ordered>>

CountReserved ==
    /\ Working("count")
    /\ job' = [job EXCEPT !.at = "ack"]
    /\ UNCHANGED <<handler, worker, broker, consuming, rows>>

Ack ==
    /\ Working("ack") /\ job.fresh
    /\ queue' = Tail(queue)
    /\ job' = NoJob
    /\ UNCHANGED <<handler, worker, dead, consuming, rows>>

(* Mutant: the consumer survives a message it cannot process, and leaves it
   at the head of the queue. *)
Raises_Requeues ==
    /\ job # NoJob /\ job.at # "ack"
    /\ job' = NoJob
    /\ UNCHANGED <<handler, worker, broker, consuming, rows>>

(* Mutant: a message that fails is dropped. *)
Raises_Drops ==
    /\ job # NoJob /\ (job.fresh => job.at # "ack")
    /\ queue' = IF job.fresh THEN Tail(queue) ELSE queue
    /\ job' = NoJob /\ consuming' = FALSE
    /\ UNCHANGED <<handler, worker, dead, rows>>

(* A statement raises: a second order of the reservation, a row constraint, a
   lost connection.  The message is rejected into the dead letters and the
   exception ends start_consumer, which main() does not start again.  On a
   channel that has been closed neither acknowledging nor rejecting works:
   the exception is the same, and the broker keeps the message. *)
Raises ==
    /\ job # NoJob /\ (job.fresh => job.at # "ack")
    /\ IF job.fresh
         THEN queue' = Tail(queue) /\ dead' = dead \cup {job.ev}
         ELSE UNCHANGED <<queue, dead>>
    /\ job' = NoJob /\ consuming' = FALSE
    /\ UNCHANGED <<handler, worker, rows>>

(* Mutant: a message that times out goes nowhere. *)
TimesOut_Drops ==
    /\ queue # <<>>
    /\ job # NoJob => ~job.fresh
    /\ queue' = Tail(queue)
    /\ UNCHANGED <<handler, worker, dead, consumer, rows>>

(* x-message-ttl *)
TimesOut ==
    /\ queue # <<>>
    /\ job # NoJob => ~job.fresh
    /\ queue' = Tail(queue)
    /\ dead' = dead \cup {Head(queue)}
    /\ UNCHANGED <<handler, worker, consumer, rows>>

-----------------------------------------------------------------------------
(* The worker process dies and is started again. *)
Restart ==
    /\ batch' = {} /\ step' = "publish"
    /\ job' = NoJob /\ consuming' = TRUE
    /\ UNCHANGED <<handler, published, retries, broker, rows>>

(* The broker fails, or the connection does: the message goes back to the
   queue while the consumer is still working on it. *)
ChannelCloses ==
    /\ job # NoJob /\ job.fresh
    /\ job' = [job EXCEPT !.fresh = FALSE]
    /\ UNCHANGED <<handler, worker, broker, consuming, rows>>

(* The reservation expires or is cancelled. *)
Leaves(e) ==
    /\ e \in pending
    /\ pending' = pending \ {e}
    /\ UNCHANGED <<handler, worker, broker, consumer, ordered>>

-----------------------------------------------------------------------------
Outbox ==
    \/ FetchBatch \/ BatchRaises
    \/ \E e \in Events :
           \/ GiveUp(e) \/ Publish(e) \/ PublishRaises(e)
           \/ Mark(e) \/ MarkRaises(e) \/ RecordFailure(e)

Consumer == Take \/ CreateOrder \/ Confirm \/ CountReserved \/ Ack \/ Raises

Next ==
    \/ \E e \in Events : Write(e) \/ DirectPublish(e) \/ DirectSkipped(e) \/ Leaves(e)
    \/ Outbox
    \/ Consumer
    \/ TimesOut
    \/ Restart \/ ChannelCloses

(* Both tasks are scheduled, neither the database nor the process fails every
   time at the same statement, and the broker does not stay down for ever:
   a consumer that waits for messages gets one in the end. *)
Fairness ==
    /\ WF_vars(FetchBatch)
    /\ SF_vars(\E e \in Events : GiveUp(e) \/ Publish(e) \/ PublishRaises(e))
    /\ SF_vars(\E e \in Events : Mark(e) \/ RecordFailure(e))
    /\ WF_vars(Take)
    /\ SF_vars(job # NoJob /\ job.at \in {"create", "ack"} /\ (CreateOrder \/ Ack \/ Raises))
    /\ WF_vars(Confirm \/ CountReserved)

Spec == Init /\ [][Next]_vars /\ Fairness

-----------------------------------------------------------------------------
(* The event is in the queue or in the dead letters, or its reservation has
   been dealt with. *)
Safe(e) == e \in Queued \cup dead \/ e \notin pending

(* An event marked as published without having used up its retries has not
   vanished, wherever the worker, the consumer or the broker failed. *)
NothingVanishes == \A e \in published : retries[e] < MaxRetry => Safe(e)

(* The outbox is emptied again and again, also behind events that keep
   failing, while the broker flaps and the process keeps dying. *)
OutboxDrains == []<>(written \subseteq published)

(* So is the queue: every event in it is dealt with or dead-lettered, unless a
   message that failed has ended the consumer. *)
QueueMoves == []<>(Queued \cap pending \subseteq dead \/ ~consuming)

(* What has become of an event: its reservation is over, or it is where its
   message is, or it waits in the outbox. *)
Fate(e) ==
    IF e \notin written THEN "none"
    ELSE IF e \notin pending THEN IF e \in ordered THEN "ordered" ELSE "left"
    ELSE IF e \in dead THEN "dead"
    ELSE IF e \in Queued THEN "queued"
    ELSE IF e \in published THEN "lost" ELSE "stored"

Fates == [e \in Events |-> Fate(e)]

Promise == INSTANCE Handover WITH fate <- Fates, tries <- retries

(* Whatever fails, an event that the broker has taken ends as an order, with its
   reservation or in the dead letters; only MaxRetry failures lose one; and an
   order comes of a message. *)
KeepsPromise == Promise!Spec

(* The inductive invariant behind NothingVanishes. *)

(* The message being worked on is the head of the queue unless its channel has
   closed, and past Confirm its reservation is dealt with. *)
JobCurrent ==
    job # NoJob =>
        /\ job.fresh => queue # <<>> /\ Head(queue) = job.ev
        /\ job.at \in {"count", "ack"} => job.ev \notin pending

(* What the worker is about to mark, the broker has taken. *)
MarkIsSafe == \A e \in Events : At(e, "mark") => Safe(e)

IInv == TypeOK /\ JobCurrent /\ MarkIsSafe /\ NothingVanishes

(* What KeepsPromise needs besides *)

(* A message that is worked on has an event that is safe, and past CreateOrder
   an order. *)
JobBacked ==
    job # NoJob =>
        /\ Safe(job.ev)
        /\ job.at \in {"confirm", "count"} => job.ev \in ordered

OrdersBacked == \A e \in ordered : Safe(e)

(* No failure is counted beyond the retries. *)
RetriesLeft ==
    \A e \in Events :
        /\ retries[e] <= MaxRetry
        /\ At(e, "mark") \/ At(e, "fail") => retries[e] < MaxRetry

PromiseIInv == IInv /\ JobBacked /\ OrdersBacked /\ RetriesLeft
=============================================================================
