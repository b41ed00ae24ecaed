# FluxKart: specification and verification

FluxKart sells a fixed stock in a flash sale.  API processes reserve units in a
Redis counter, write reservations to PostgreSQL, and publish an event for each;
one worker process consumes the events into orders, expires what is not paid,
reconciles the counter, publishes the outbox, and keeps the waiting room.  This
directory holds TLA+ modules of that code, the TLC configurations that check
them, and theorems about them that TLAPS proves.  All paths below are under
`src/backend/app/` unless they start with `src/`.

## 1. Inventory

| Part | State | Operations | Interacts with | What makes it correct |
|---|---|---|---|---|
| Reservations, orders, inventory row (`services/reservation_service.py`, `routers/orders.py`, `routers/reservations.py`, `consumers/order_consumer.py`, `workers/expiry_worker.py`) | PostgreSQL rows | reserve, modify, pay, cancel, consume, expire, resize | everything | nothing oversold; one live reservation per user; a confirmed hold has an order; only a payment revives |
| Redis counter (`services/inventory_service.py`, `utils/degradation.py`, `workers/reconciliation_worker.py`) | `inventory:{sale}`, `reservation:{id}` keys | Lua reserve / release / increase / decrease, seed, reconcile | rows, by convention only | never lets more be reserved than the stock; drift is repaired |
| Outbox and broker (`workers/outbox_worker.py`, `db/queries/outbox.py`, `consumers/`) | outbox rows, queue, dead letters | insert, poll, publish, mark, redeliver, dead-letter | rows, breaker | every reservation's event is delivered; a duplicate has no effect |
| Circuit breaker (`utils/circuit_breaker.py`) | four Redis keys shared by all API processes | call, on_success, on_failure, open | the direct publish | opens under failure, always closes again once the broker is back |
| Preregistration and admission (`workers/admission_worker.py`, `db/queries/preregistrations.py`) | preregistrations, admission tokens, worker registry of each API process | register, admit a batch, start and stop workers | lifecycle, the waiting room's gate | first registered, first admitted; nobody is marked without a token; whoever waits gets in |
| Waiting room (`services/queue_service.py`, `workers/heartbeat_worker.py`) | sorted set, heartbeat keys | ask, draw a score, enqueue, ping, list, look, remove | the reservation handler | first come first served, to the millisecond; whoever is heard of stays; a ghost leaves |
| Sale lifecycle (`routers/admin.py`, `routers/sales.py`, `workers/expiry_worker.py`) | sales.status, stock, counter, worker registry | create, activate, pause, resume, complete, PATCH, edit, adjust, delete, auto-activate, auto-complete | counter, reconciliation, admission worker | the counter offers nothing that is booked; an active sale has a counter; its workers end with it |
| Payment idempotency (`utils/idempotency.py`) | `pay_idem:{key}` | check, store | payment | an answer that is remembered is true; a repeated payment books nothing |
| Recovery window (`services/reservation_service.py`, `routers/reservations.py`) | `recovery:{user}:{sale}`, the idempotency key of each row | open, recover, close | reservation, expiry | a key makes one row; a recovery replaces a reservation that is over; one purchase per user |
| Rate limiter (`middleware/rate_limiter.py`) | sorted set per user | one Lua script | reservation, login | at most the limit in any window |
| Trust score (`utils/user_score.py`) | none (a query) | score, TTL, recovery | reservation | what the documentation says the score means |

The hard behaviour: every handler reads, awaits and writes later, with no lock
in between; the consumer's three statements are three transactions; Redis and
PostgreSQL are never written together, and Redis keeps nothing over a restart;
every event is published twice by design (directly and by the outbox), can be
redelivered after a crash, and goes to a dead-letter queue on any error; the
breaker's state machine is read and written by every process without atomicity;
scores and times are drawn by the caller and written by a later command; what
makes a request repeatable (idempotency keys, answers, windows) is looked up
before the work and stored after it.

## 2. Modules

| Module | Models | Used by |
|---|---|---|
| `FlashSale` | the abstract promise: units are bought against a stock, never beyond it | `Orders` implements it |
| `Handover` | the abstract promise about an event: stored, handed over, settled or dead-lettered, lost only after its retries | `Delivery` implements it |
| `Orders` | reservation, order and inventory rows, and every handler and worker that writes them | `OrdersProofs`, `MCOrders`, `Stock` |
| `Stock` | the Redis counter beside the rows; composes `Orders` (`O == INSTANCE Orders`) | `StockProofs`, `MCStock` |
| `Lifecycle` | the status, stock and counter of a sale, and every handler and worker that writes them | `LifecycleProofs`, `MCLifecycle` |
| `Delivery` | outbox, outbox worker, broker queue, dead letters, consumer | `DeliveryProofs`, `MCDelivery` |
| `CircuitBreaker` | the breaker around the direct publish | `DeliveryProofs`, `MCCircuitBreaker` |
| `Payments` | the answers to payments that Redis keeps; EXTENDS `Orders` | `RepeatProofs`, `MCPayments` |
| `Recovery` | idempotency keys and recovery windows; EXTENDS `Orders` | `RepeatProofs`, `MCRecovery` |
| `Admission` | sale status, preregistrations, the admission workers of the API processes | `AdmissionProofs`, `MCAdmission` |
| `WaitingRoom` | the gate of a reservation, the sorted set, heartbeats and their worker | `WaitingRoomProofs`, `MCWaitingRoom` |
| `RateLimiter` | the sliding-window script and the times it is given | `RateLimiterProofs`, `MCRateLimiter` |

A definition whose comment starts with "Mutant:" stands beside the operator it
alters: it is the same operator with a plausible bug, and the property named for
it in `PROJECT.json` fails when it takes the operator's place.  No specification
uses one.

### Orders, and FlashSale above it

One sale.  A row is an entry of `rstatus`/`rqty` (reservations), `ostatus`/`oqty`
(orders; an order is named by its reservation, which `reservation_id UNIQUE`
justifies) and `total`/`reserved`/`sold` (inventory).  Handlers read, await and
commit: `req[h]` holds what a request decided from its read until the
transaction that ends it, so every other step may come in between.  The three
statements of the consumer are three actions (`CreateOrder`, `Confirm`,
`CountReserved`), because they are three transactions; `Reject` and
`ConsumerCrash` can take the place of each.  `IndexAllows` is the partial unique index,
`RowFits` the CHECK constraint, `LessReserved` the `GREATEST(0, ...)`.  Time is
`due[r]`: the window of a reservation depends on a score, so it may pass at
any moment.  Redis appears only as a choice: a grant touches no row.

`FlashSale` is what the seller relies on: `Buy`, `Revoke`, `Resize`.  It allows
a second payment of one order and a revocation that keeps the booking, as the
code does both.  The mapping is
`bought[r] = IF ostatus[r] = "paid" THEN oqty[r] ELSE 0`.

### Stock

Every step on the rows is a step of `Orders`; `Stock` adds what Redis does with it,
before it or after it.  `counter` is `inventory:{sale}`; `keys` the reservation keys.
`create_reservation` keeps its grant under a uuid of its own, while the row
gets another from the database: `GrantKey(h)` and `RowKey(r)` are therefore
different keys, and `calls` holds the releases about to be made under either.  The
counter is an integer that can be missing (`Nil`) and, through DECRBY, negative.
`rec` is the reconciliation worker, which reads the row, reads Redis and sets, in
three steps.  Redis restarts empty at any time.

`admin[m]` is what an administrator's request is doing to the stock, and any number of them
overlap, as nothing in `routers/admin.py` serialises them.  An edit is three steps: the read
(`BeginEdit`), the write of the stock it was asked for (`CommitEdit`) and the INCRBY of the
difference from what it *read* (`AdjustCounter`).  An adjustment is two, because its UPDATE is relative.
`adjust` is a history, the sum of what all of them have still to move.

`clean` is a history too, and ends with the six steps that can leave the counter above what is free:
a fallback grant, a quantity decrease, a commit whose answer is lost, a stock reduction
that is lost on its way to Redis (with the call, or with the negative counter it had left), an edit that overwrites an
increase it has not read, and a reconciling SET.

### Lifecycle

The handlers of `routers/admin.py` and `PATCH /sales/{id}/status` are taken apart into
what they await: the read of the row, the statement that writes it, the command to
Redis.  `req[t]` holds what a request, or the expiry worker, is about to do: a status to
write, a counter to `seed` with the number it has `seen`, a stock change to `shift` into the
counter, a counter to `clear`.  Guards are evaluated when the row is read and not
again, as in the code, so a sale can be deleted while it is being activated.  A step that
raises, or a process that dies, is `Abandon`.

Buyers appear as units: `coming` (granted, and not booked yet), `booked`, and `lapsed`
(booked no more, or never, with a payment that may still come).  Their protocol is
`Stock`'s; here it is what makes a reading of the rows old.  `sure` and `clean` are
histories that nothing reads but the property: `clean` ends when a SET uses a reading that a grant
or a stock change has overtaken, or that did not show units promised already; when an
edit overwrites a stock that another request has changed since it was read; and when
a reduction is forgotten, by an error or with the counter it had taken below zero.
Every one of these is needed: without it the run fails.  `CounterBacked` adds up what the
pending stock changes will add and take away; `ToAdd` and `ToRemove` hold one pair for
each of those units, so that the sums are cardinalities.

### Delivery

`written`/`published`/`retries` are the outbox rows, `batch` and `step` the outbox
worker inside one batch, `queue` and `dead` the broker, `job` the message the
consumer works on.  A delivered message stays at the head of the queue until it is
settled; `job.fresh` is FALSE once its channel has closed, when neither ack nor
reject reaches the broker.  The worker process restarts with both tasks
(`Restart`).  `Raises` is what `message.process()` and `start_consumer` do
together: the message is dead-lettered, the exception leaves the
iterator, and the consumer ends until the process is restarted
(`run_consumer.py` gathers with `return_exceptions=True`).

`Handover` is what the rest of the program relies on, event by event: `Store`, `HandOver`, `Fail`,
`GiveUp`, `Bury`, `Order`, `Leave`.  Its `fate` is computed by `Fate(e)`: the end of the reservation counts
before the dead letters, those before the queue, and the queue before the outbox row.  So an
event that has been dead-lettered counts as such although a copy may still be queued, and an order
that the consumer makes for a reservation that has ended meanwhile turns "left" into "ordered".
`tries` is `retries`.

### CircuitBreaker

Each Redis command of `call`, `_on_success`, `_on_failure` and `_open_circuit` is a
step; `at[c]` is the step a call is about to make.  Commands can raise (inside
`_on_success` that counts as a failed publish, because it runs in the same
`try`), calls can be abandoned, counters expire, Redis restarts.  `unstamped` is a history:
an opening whose call was lost before it wrote `opened_at`, or whose `opened_at` a late closing
has deleted, until a later opening writes it.

### Admission

`rows`/`admitted` are the preregistrations and their status.  A registration is two
steps, `Register` (the INSERT draws `registered_at`) and `Registered` (it commits).
`running` holds the API processes whose own registry has a live worker of the
sale; a handler writes `status` and then starts or stops the worker of its own
process only.  A worker fetches a batch, and for each user of it writes the token and
then marks the row.  `stale` marks workers that still hold the end of the sale
from before an edit: such a worker can take the sale for ended or not.

### Payments

`pay_order` is `Ask`, `ReadOrder`, `Commit`, `Store`: Redis is asked, the order is read,
the rows are committed, the answer is stored, each a step of its own and `Fail` after
each.  The two in the middle are `BeginPay` and `CommitPay` of `Orders`.  `results` are
the `pay_idem` keys; a payment may go on whatever they hold, because an error of Redis
counts as "no answer".  The key is made of user, order and card digits (not of the
amount, as its comment says), so `Cards` is what can tell two payments of one order apart.
`undone` remembers paid orders that a cancellation, begun before the payment, has
overwritten: the one way in which a remembered success can be false.

### Recovery

`create_reservation` is `BeginReserve` (the key is looked up), `CheckBuyer` and `CheckUser` (the user's
purchase, then the user's live reservation), `GrantUnits`,
`Persist` (the INSERT, whose `idempotency_key` column is UNIQUE) and `OpenWindow`; the
recover endpoint is `BeginRecover` (it reads the window), `AskRecovered`, the same
steps, and `CloseWindow`.  The key of a recovery names the reservation it replaces.
`window[u]` is the Redis key; its time-to-live, Redis restarts and lost deletions
are `WindowLost` and `Abandon`.  Whether a user's score grants a window is a free choice.

### WaitingRoom

Step 4 of `create_reservation` is `Ask`, `SendToRoom` or `Skip`, `Draw` (the score is the
caller's clock) and `Add` (ZADD NX).  The heartbeat worker is `List` (ZRANGE), `Look`
(EXISTS, one member after another) and `Remove` (ZREM).  `Ping` is either of the two
places that set the heartbeat.  The histories `seen`, `ahead` and `steady` say who came
before whom and who has been heard of throughout a scan; nothing reads them.

### RateLimiter

One key.  `Draw` takes the caller's time, and `Accept` or `Refuse` is the atomic script
with that time; `Live` is the key's time-to-live, by the clock of Redis.  `Done` without
a script before it is the error that lets a request pass.  `MaxLag` bounds the time
between the two: without a bound the limit cannot hold (section 5).

## 3. What the runs show

| Run | Question | Instance |
|---|---|---|
| `orders` | Do stale reads, races, redelivery, expiry and stock changes oversell, double a hold, confirm without an order, or revive a dead hold other than by payment? Do the rows implement `FlashSale`? No, and yes. | one user, two reservations, two requests in flight, quantities to 2, stock 1 or 2, one queued copy of an event |
| `stock` | Can the counter offer a unit that somebody holds, whatever is lost, changed or corrected? No, until one of the steps that end `clean`. | one reservation, quantities to 2, two stock changes in flight, stock 1 or 2 |
| `stock_units_back` | Does an expiry return its units to the counter? **No.** | one reservation |
| `lifecycle` | Can a sale's counter offer what is booked, whatever administrators, workers and Redis do at once? No, until one of the steps that end `clean`. Does an active sale get its counter back, and do counter and rows settle? Yes, to less than `FixAt` units. | two administrators' requests, the expiry worker, one unit |
| `delivery` | Can an event vanish, can the outbox or the queue stop? No, but for a consumer that ended. Does the pipeline implement `Handover`? Yes. | two events, one retry, batches of one, a queue of two |
| `breaker` | Is an open circuit that knows when it opened always tried again? Yes. Does it always know? Unless a call was lost between opening and noting the time, or a late closing deleted it. | two calls, thresholds of two |
| `admission` | Is admission first come first served with several workers; is nobody marked without a token; does a running worker empty the list, and end with the sale? Yes. | three users, two processes, batches of two |
| `payments` | Is a remembered "Payment successful" true, and does a repeated payment book nothing, whatever is lost or overlaps? Yes, but for a cancellation that had read the order before it was paid. | one order, two cards, two requests, quantities to 2, stock 2 or 4 |
| `payments_charged_once` | Is an order charged once? **No.** | as above |
| `recovery` | Does a key make one row, a recovery replace only what is over, and a buyer buy once, whatever overlaps, is lost or comes late? Yes. | one user, two reservations, two requests, two keys, one unit |
| `waiting_room` | Is anybody overtaken in the room but within one millisecond; does the worker spare whoever is heard of; do ghosts leave? No, and yes. | two users, two requests, scores 0 and 1 |
| `limiter` | Does a window hold at most the limit, by the callers' times; is a request refused only for others that were accepted? Yes. | three requests in flight, five in all, limit 2, window 3, lag 1 |

### Why the bounds are enough

- Orders: every guard relates a reservation to itself, to its user's other
  reservations or to the sums, so two reservations of one user, quantities of one and
  two, and a stock one of them fills reach every combination of guards.  Two
  requests in flight are what a race needs; `MaxCopies` = 1 queued copy can be
  delivered, settled and published again, so redelivery and duplication both occur.
  Handlers and reservations are symmetric (no liveness is checked there).
  The theorems remove all of these bounds.
- Stock: `FixAt` is 2 instead of 10, so that with two units the worker corrects drifts as
  well as missing counters.  `Bound` = 2 lets the counter go negative; `MaxCalls` bounds
  release calls that are on their way together.  Two administrators are what it takes for stock
  changes to overlap; they are symmetric.  The run stops at the steps that end `clean`
  (`WhileClean` in `MCStock`): past them the property says nothing, and every step can be taken before.
  `CounterAlwaysBacks` removes every bound, that of one reservation and of two administrators included.
- Lifecycle: with one unit of stock, every wrong unit is one too many.  The second request
  only edits, which is what it takes for two edits to overlap, or an edit and
  each other operation (`Managers`); activations also overlap with the expiry worker's.  `FixAt` is 2, so
  that a drift of one unit is left and one of two (a counter of -1 while one unit is free) is corrected.  One unit is on its way, or may be paid for late, at a
  time (`MaxComing`).  With one request, two units and a `FixAt` of 2, and as here with a `FixAt` of 1, the same properties held.
- Delivery: one retry lets an event fail, be tried again and be given up; batches of
  one with two events put a failing event in front of another; a queue of two
  holds a duplicate and another event's message.
- CircuitBreaker: both thresholds above one, so that counting, expiry between
  two counts, and late counts all occur; two calls because the races are between two.
- Admission: batches of two among three users leave one user outside a batch and
  make incomplete batches; the run starts with one user registered and the
  next one's INSERT under way, so a younger registration can commit first.
  `MaxStamp` allows one more registration, or one repeated after a failure.
- Payments: a stock of 4 has room for the units of one order booked twice, which a
  stock of 2 refuses; two cards make two keys; two requests overlap.
- Recovery: two rows of one user are the one replaced and its replacement; two
  requests overlap, and each other step comes in between.  Units are few on purpose: only
  `BeginModify` needs a second one, and it fires in `orders`.
- WaitingRoom: order is a matter of pairs, so two users; two clock values make scores
  equal and different.  `Threshold` is 0, because with the code's 10, or any other, the room
  never fills (`RoomStaysEmpty` in `WaitingRoomProofs`): what the run shows is what
  the room does once something else fills it.
- RateLimiter: `Limit` requests and one more in a window, and again a window
  later; a lag of 1 lets two requests reach Redis in the other order.

### Fairness

- Lifecycle: `WF(RecRead)`, `SF(RecGet)`, `SF(RecSet)`: the reconciliation worker loops on a
  timer and swallows errors, and Redis does not fail at each of its calls for ever.
  Nothing is assumed of administrators, buyers or the expiry worker.  `Stock` needs none: it has no liveness.
- Delivery: the outbox worker and the consumer loop for ever, so their steps are
  weakly fair while nothing interrupts them, and strongly fair where an error or
  a restart can interrupt: a database or broker that failed at the same
  statement every time would be down for good.
- CircuitBreaker: calls go on and new reservations arrive (`WF(Call)`), the cooldown
  passes, and it is not every single call that is lost between reading an open
  state and acting on it (`SF`).
- Admission: a running worker's task is scheduled, and neither of its two
  commands raises every time.  Nothing is assumed of administrators, of the
  expiry worker or of users.
- WaitingRoom: the heartbeat worker's task loops, and its commands do not raise for the
  same user every time (an error ends the scan).  Nothing is assumed of users.

## 4. What is proved

All for every value of the constants, checked by TLAPS.

- `OrdersProofs`: `Spec => []IInv`, with `IInv` = well-formed rows and snapshots,
  `reserved + sold <= total`, and the three safety invariants.  The
  invariants are not inductive alone: `ConfirmedHasOrder` needs
  that a consumer past its first statement has an order (`JobCurrent`) and that a
  request that pays or cancels works on one (`RequestsCurrent`); `NoOversell` needs
  that the quantity a payment read is still the order's, which no later step
  changes.  From it: type correctness, `NoOversell`, `OneActivePerUser`,
  `ConfirmedHasOrder`, the action property `OnlyPaymentRevives`, and the refinement
  `Spec => Sale!Spec`.  `NoOversell` counts units as pairs, so that booking a payment
  adds at most its quantity to a finite set: no sum over a function is needed.
- `StockProofs`: `Spec => O!Spec`.  Every step of the composition is a step of `Orders` or
  leaves the rows alone, so the inductive invariant of `Orders` holds of the rows
  whatever Redis does (`StockRowsInvariant`).  On top of it `Spec => []StockIInv`, and from that type
  correctness and `CounterBacksHolds`.  `CounterBacksHolds` is not inductive: a payment
  revives an expired row, and a failed insert hands its units to a release call.
  `CounterCovers` therefore counts every unit the counter was charged for and will not
  get back, those of dead rows and orders and the consumer's copy included (`ChargedUnits`), and
  every unit that a call is about to return (`ReturningUnits`); both are sets of pairs, so
  that a step adds or removes at most the quantity it names.  `adjust` stands for the stock changes of all
  administrators: an edit changes the stock by `t - total` and `adjust` by `t - seen`, so that
  the step keeps the inequality just when the stock it overwrites is not above the one it read.  `NoEarlyRelease` says that the
  key of an attempt being made is named by no call, so that no unit is in both sets;
  `RowsEmpty` that a row gets its units when it is inserted.  TLC checked `StockIInv` on
  the instance of `stock`, and on one with two users, before it was proved.
- `RepeatProofs`: each of `Payments` and `Recovery` implements `Orders`, so the
  theorems of `Orders` hold of it.  The strengthenings say what a request in flight knows that stays true:
  that the order it asked for exists and was paid if it was then (`Payments`); that its
  key names a row that is over, and that a paid order of its user is paid still,
  or was overwritten (`Recovery`).  From them: type correctness, `AnswerStands`,
  `RepeatBooksNothing`; type correctness, `OneRowPerKey`, `RecoversTheDead`,
  `BuyerReservesNothing`.
- `LifecycleProofs`: `Spec => []IInv`, and from it type correctness and `CounterBacked`.
  `CounterBacked` is not inductive: a payment that comes late books units that no row
  held, so `CounterCovers` counts `lapsed` units as used; and a SET may raise the
  counter to anything, so `SureCurrent` says of every reading that nothing has
  overtaken that it leaves room for what is used now, and that no stock change is on
  its way to the counter beside it.  The argument is one inequality,
  used + offered + to be added <= stock + to be removed, and how far each step moves
  each side (`ExcessFalls`): a statement that writes the stock and the command that carries
  it to the counter are different steps, and the unit pairs of `ToAdd` and `ToRemove` are what
  they hand over (`BalanceMoves`).  TLC checked `IInv` on the instance of `lifecycle`, and
  on one with two units and a `FixAt` of 2, before it was proved.
- `DeliveryProofs`: `Spec => []IInv`, and from it type correctness and
  `NothingVanishes`.  The strengthening is `MarkIsSafe` (what the worker is about to
  mark has reached the broker, been dead-lettered or been dealt with) and `JobCurrent`
  (the message worked on is the head of the queue while its channel lives, and past
  `Confirm` its reservation is dealt with).  And `Spec => KeepsPromise`, the refinement: each
  step changes the fate of one event at most (`OneFateMoves`), and what is safe stays safe (`Kept`).  It needs three facts more:
  the event being worked on is safe (`JobBacked`), so is every event with an order
  (`OrdersBacked`), and no failure is counted beyond the retries (`RetriesLeft`); TLC checked
  them on the instance of `delivery`.  Of the breaker: type correctness and
  `OpenIsStamped`.  That one is inductive with the types, and what it takes is to know, for every
  command of every call, which step can leave the circuit open without its time: `SetOpen`, whose
  call stands before `Stamp` from then on or is lost there, and a late `ForgetOpening`.
- `AdmissionProofs`: `Spec => []IInv`, and from it type correctness,
  `AdmittedInOrder` and `TokenBeforeMark`.  The strengthening is that
  `registered_at` respects the order in which registrations followed one another
  (`StampsInOrder`), that a batch, however old, skips nobody ahead of one of its
  users (`BatchesInOrder`), and that the user a worker is about to mark has a token
  (`MarksGiven`).  TLC checked `IInv` on the instance of `admission` before it was proved.
- `WaitingRoomProofs`: type correctness, `OvertakenInOneMillisecond` and `HeardStay`, from
  `ScoresDrawn` (whoever a request found waiting still waits, with a score no higher than
  the one drawn, or written) and `GhostSilent`.  And `RoomStaysEmpty`: with a threshold above zero nobody ever waits.
- `RateLimiterProofs`: type correctness, `AtMostLimit` and `RefusedForCause`, from `Complete`
  (what the sorted set has lost is older than a window) and `InTime` (times are
  not in the future, late by at most `MaxLag`, and the key outlives its members).

Assumptions are those named `...Assumption` in the modules: finite reservations,
an owner for each, natural bounds, distinct names for the members of the waiting room, and that a client's
idempotency key is never one of those that the recover endpoint makes.  The last one is not enforced: the column
takes any text, and a client that sent `recovery-` and a reservation's id (the frontend draws UUIDs) would be
outside what `OneRowPerKey` and `RecoversTheDead` say.

Only model-checked: all liveness (`ActiveIsSeeded`, `Converges`, `OutboxDrains`, `QueueMoves`, `Probes`,
`WaitingListDrains`, `WorkersEnd`, `GhostsLeave`), which is outside the prover.  Every
invariant and every action property of a passing run is stated by a theorem.

## 5. What the code does otherwise than documented

Each of these has a run whose counterexample shows it, and an entry with the quoted
claim in `PROJECT.json`:

1. `routers/orders.py:109`: overlapping payments of one order both book its units.
2. Expiry and cancellation release units under a key that never exists
   (`workers/expiry_worker.py:165`): the counter gets nothing back until the
   reconciliation.

Seen while modelling, without a run of their own:

- `workers/expiry_worker.py:79` expires confirmed and paid reservations too, and
  takes their units off `reserved_quantity` a second time.
- A cancellation that read an order before its payment committed overwrites the paid order
  (`routers/orders.py:272`): the exceptions named `undone` in `Payments` and `revoked` in `Recovery`.
- One purchase per user holds only for requests that do not overlap the purchase.
- `utils/degradation.py:125`: the fallback grants units that reservations on their way hold.
- `workers/outbox_worker.py:94`: an event is marked published after ten failures; a message that
  fails ends the consumer, not only the message.
- `utils/circuit_breaker.py:197`: the circuit can be open without `opened_at`, for ever;
  half-open lets any number of calls through (line 31 says one).
- `workers/reconciliation_worker.py:29` and `:35-37` promise that a drift above `DRIFT_THRESHOLD` = 2 units is
  alerted and corrected, and the repository's `README.md:96` that drift is auto-corrected.  The code (`:50`, `:129`)
  corrects only from `AUTO_FIX_THRESHOLD` = 10 and logs what is smaller, which then stays for ever.
  `Converges` promises what the code does, and no more: less than `FixAt` units.
- The waiting room is never entered (`RoomStaysEmpty`): a user is queued only when ten are
  queued already (`services/queue_service.py:15`), and nothing calls what would admit
  from it.  What could go wrong inside the room is therefore not a hazard of the program as it stands,
  and none is listed; the module says what the room would do if it were entered.
- `services/queue_service.py:8` says that the score in milliseconds "guarantees FIFO order", and `:18`
  "first come first served".  Scores of one millisecond are equal, and Redis orders equal scores by the member's name, so
  that a user who came later can be ahead: `OvertakenInOneMillisecond` leaves exactly that.
- `middleware/rate_limiter.py:58` says that no race conditions are possible: the script is
  atomic, but the times are the callers', so a window holds at most the limit only
  when it is shortened by how late a request can be.
- A sale that is created active, or activated by the worker process at its scheduled start
  (`workers/expiry_worker.py:210`), has no admission worker.  `workers/admission_worker.py:36` ("Started as asyncio
  task when a sale becomes active"), `routers/sales.py:152-154` ("admitted in FIFO order at T=0") and the repository's
  `README.md:273` and `:276` promise otherwise.  Pausing a sale stops only the worker of the process
  that handles the request; a worker does not learn of edited dates.
- `services/inventory_service.py:64` says "we always want accurate value on activation": the
  value is accurate as of a reading that grants, stock changes and other requests overtake.
  An administrator who creates an active sale seeds its counter even if it has been sold from.
- Two edits of a sale lose one of the stock changes in the row and keep both in the counter
  (`routers/admin.py:219`).  An edit or an adjustment of a sale without a counter creates one that
  holds the difference only, so that it is no longer missing, but drifted, to the reconciliation.
- The guards of `delete_sale` and `activate_sale` are not repeated by their statements: an
  active sale can be deleted, and a completed one becomes active.  A sale that completes by itself keeps its counter.
- `utils/user_score.py` joins reservations with orders of a user, so its counts multiply:
  the conversion rate is 1 as soon as there is an order, and an abandonment counts once per order.
- The sale cache is never written, because serialising a UUID raises and the error is
  swallowed (`services/reservation_service.py:95`).

## 6. What is not modelled, and the plan

The expiry worker activates sales in a process that has no admission workers
(`workers/expiry_worker.py:210`); `Admission` has that step, and no property promises anything for it.

Left out for good: the trust score (a read-only calculation; what follows from it is a free
choice in the models), authentication and user accounts (requests and library
cryptography), metrics, tracing and health, deployment, seed scripts, the frontend, and with the accounts
the deletion of a user and that user's rows.  `PROJECT.json` gives the reason for each.
