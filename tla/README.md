# A TLA+ model of the payments service

The service accepts payments over HTTP, stores each one together with an outbox row, publishes the
outbox row to RabbitMQ, and lets a consumer settle the payment through a gateway and notify the
client by webhook. Everything it promises (idempotent creation, no lost payment, one settlement,
truthful webhooks, retries that end) has to hold across three kinds of process that share a
database and a broker, each of which may fail between any two steps. These modules model that
protocol from the source under `src/app`, check it with TLC on small instances, and prove its safety
properties with TLAPS for every instance: for each component, for three abstract specifications that
components implement, and for the composition of all of them.

## 1. The system

| Component | State it keeps | Operations | Talks to |
|---|---|---|---|
| API, `CreatePaymentService` | none of its own; one transaction per request | POST: look up the key, insert payment and outbox row, commit, resolve a race | database |
| API, `GetPaymentService` | none | GET one row | database |
| `payments`, `outbox` tables | rows; unique index on `idempotency_key`; row locks | `FOR UPDATE`, `FOR UPDATE SKIP LOCKED`, whole-row `UPDATE`, commit, rollback | - |
| Outbox relay (`OutboxRelayRunner`, `PublishOutboxBatchService`) | the open batch transaction | poll a batch, publish each row, mark or note the failure, commit | database, broker |
| RabbitMQ topology | `payments.new`, delay queues `payments.new.retry.n`, `payments.dlq` | deliver, expire (TTL to `payments.new`), redeliver what is unacknowledged | - |
| Consumer (`handle_payment_message`) | one activation per delivered message | validate, settle, deliver webhook, route to retry or DLQ, ack | database, broker, gateway, receiver |
| `ProcessPaymentMessageService` | transaction with the row lock | lock row, call gateway, save status, commit | database, gateway |
| `DeliverPaymentWebhookService` | transaction without a lock | read row, POST, save the outcome, commit | database, receiver |
| `RetryPolicy`, `RabbitRetryRouter` | none | next attempt or dead letter | broker |
| Mock gateway, webhook client | none | decide; POST and classify the answer | outside |
| Presentation, schemas, settings, logging, echo service | none | validation, formatting | - |

What is hard here is what happens between the steps:

- two copies of one message handled at once, or one message redelivered while it is being handled;
- a transaction, with its row lock, lost while the gateway or the receiver is awaited;
- a row read before an `await` and written back, in full, after it;
- a crash after the successor of a message was published and before the message is acknowledged;
- a publication that raises inside the handler, with or without having reached the broker;
- a commit whose answer is lost (both for the client of the API and for a handler);
- two relays at the same rows, one of them with a dead transaction;
- two creations racing for one idempotency key;
- processes that declare the same durable broker objects from settings that may differ, while
  messages already flow;
- handlers that hold a pooled connection while they wait for each other;
- one amount in many decimal forms, and limits that each part of the code counts in its own way.

`PROJECT.json` lists each of these under `hazards`, at its line, with the properties that watch it.

## 2. Modules

| Module | Models | Composes |
|---|---|---|
| `RetryPolicy` | `messaging/retry.py`, the attempt arithmetic of `retry_router.py`, the delay queues `topology.py` declares | - |
| `Payment` | a row of `payments` and the transitions of `domain/payment.py`, `classify_webhook_status` | - |
| `PaymentConsumer` | `messaging/consumer.py`, `ProcessPaymentMessageService`, `DeliverPaymentWebhookService`, `retry_router.py`, the broker's queues | `Payment`, `RetryPolicy` |
| `OutboxRelay` | `PublishOutboxBatchService`, `outbox_runner.py`, the outbox queries of `repositories.py` | - |
| `CreatePayment` | `CreatePaymentService` with its two transactions and the answers of the API | - |
| `Settlement` | abstract: what the service promises of a payment | implemented by `PaymentConsumer` |
| `IdempotentStore` | abstract: what POST promises its clients | implemented by `CreatePayment` |
| `Publication` | abstract: what the outbox promises of its events | implemented by `OutboxRelay` |
| `PaymentSystem` | the whole service with its clients, `GetPaymentService` and the answers' contents | `CreatePayment`, `OutboxRelay`, `PaymentConsumer` |
| `Startup` | `build_topology`, `declare_topology`, `outbox_worker.py`, FastStream's start, `.env` | - |
| `ConnectionPool` | the pool of `db/session.py` and who holds a connection when | - |
| `Amount` | the amount in `schemas/payments.py`, `fingerprint.py` and `Numeric(18, 2)` | - |
| `MC...` | values of the constants for TLC, and symmetry | one module each |
| `...Proofs` | theorems: `PaymentConsumerProofs` and `RetryBudgetProofs`, `OutboxRelayProofs`, `CreatePaymentProofs`, `PaymentSystemProofs`, `StartupProofs`, `ConnectionPoolProofs`, `AmountProofs` | one module each |

The definitions marked "Mutant" in comments are deliberately wrong variants of the definition that
follows them. No specification uses them; each shows that a property fails when the code is broken
that way.

### PaymentConsumer

A handler is one activation of `handle_payment_message`, in whichever process. `pc` is the stage it
has reached:

    idle -> lock -> gateway -> save -> read -> post -> record -> ack -> idle
                 \-> read (final already)                 \-> retry / dlq -> ack
                 \-> dlq  (no such payment, malformed body)

- `lock`: before `get_by_id_for_update` returns (services.py:294). It returns one of three ways:
  `LockMissing`, `LockFinal`, `LockPending`. With `LockPending` the transaction stays open, holding
  the row lock, until `Save` (316-323). `inTx` says that the transaction is still alive; a lost
  database connection clears it and releases the lock while the handler goes on.
- `read`, `post`, `record`: the webhook stage (227-273). Its transaction holds no lock; `copy` is
  the row it read. `Record` writes that copy back in full, as `save` does (repositories.py:38-55).
- `retry`, `dlq`: an `except` clause of the handler is about to publish. `Route` publishes, `Ack`
  acknowledges; a crash between them leaves both copies of the message.
- `stuck`: the publication raised. With `AckPolicy.MANUAL` the message is neither acknowledged nor
  rejected; it returns when its channel closes (`Redeliver`).
- `owned` says that the broker still regards the delivery as the handler's. `LoseChannel` returns
  the message to the queue while the handler runs on.

Queues are bags of messages (body, `x-attempt` header); the order of delivery is free, because
redeliveries and delays reorder messages anyway. A missing or unparsable header is the header 0.
The delay queues form one bag, since the header says which queue a message is in; the retry
exchange is direct and drops a message no declared queue is bound for. `accepted`, `posted`,
`recorded` and `charged` are history: the receiver has answered 2xx, the statuses POSTed so far,
whether some commit has set `webhook_delivered_at`, and how often the gateway has decided.

The environment commits payments (`Insert`), publishes events or rubbish (`Publish`) and
republishes dead letters (`Redrive`).

A commit whose answer is lost takes effect and sends the handler to `retry`, as the generic
`except` clause does. `Fail` is every other exception: the transaction is rolled back and the
message retried. Both are free to happen at any time and are not counted as faults.

### OutboxRelay

One iteration is one transaction: `Poll` locks the oldest pending rows no live transaction has
locked, the `Publish...` actions go through them in order, `Commit` makes the marks visible
together. A publication is confirmed, refused (raises or returns `False`), or accepted without the
confirmation being seen. `LoseDatabase` rolls the batch back without the relay's knowledge: the next
UPDATE or the commit raises, and `run_forever` starts the next iteration. The broker never accepts
events of the constant `Poison`. `attempts` and `last_error` of the outbox are left out: the code
writes them and reads them nowhere.

### CreatePayment

One request is one POST; a client's retry is another request with the same key. The INSERT of a
key waits for any open transaction that has inserted it and then succeeds or raises
`IntegrityError`, which leads to the second lookup. A payment is named by the request that inserted
it. `Fail` stands for a database error (a 500), for the death of the API process (no reply) and for
a transaction lost earlier, whose next statement can only raise.

### Settlement, IdempotentStore and Publication

`Settlement` knows a payment's status, what its webhooks have carried, whether the receiver has
answered 2xx and whether that is recorded: no messages, handlers, transactions or retries. The
status is decided once, webhooks carry it, and a delivery is recorded after a 2xx answer only. `Erase`
is allowed, because the code does it (section 6). The refinement mapping reads the statuses and
`webhook_delivered_at` from the committed rows; `PaymentConsumer.SettlementImplemented` is
`Settlement!Spec` under it. Most steps of a handler are stutters; `Save` is `Settle`, `Post` is
`Announce`, and `Record` is `Record`, `Erase` or a stutter, depending on how stale the copy is.

`IdempotentStore` serves each request in one step, in which it binds its key, is answered with what
holds the key, or does nothing. `CreatePayment.StoreImplemented` is linearizability of the API: the
commit is `Bind`, both lookups that find something are `Replay`. A commit whose answer is lost is a
`Bind` that answers with an error.

`Publication` knows the outbox rows, the copies the broker has accepted and the number of faults: no
relays, batches, locks or transactions. An event is sent once its row is committed, marked after it
was sent, and its n-th copy takes n - 1 earlier faults. `OutboxRelay.PublicationImplemented` reads the
rows as committed. A publication is `Send`, unseen ones with a fault of their own; the commit of a
batch is `Mark`; all that a relay remembers and forgets is a stutter.

### PaymentSystem

The three components are instances over disjoint variables; nothing is shared but what the processes
really share. A commit of the API (`CommitPayment`) is at once the `Insert` of the relay and of the
consumer, for both rows become visible together. A publication of the relay (`RelayPublishes`,
`RelayPublishesUnseen`) is the consumer's `Publish` of the same payment. Every other step belongs to
one component. `seen` is what each client was last told of its payment: by the 202 answer (`Tell`) or
by a GET (`Get`). A payment, its outbox row and its message are named by the request that inserted it.

### Startup

Each process makes the declarations of `declare_topology` on every start, one await at a time:
exchanges, `payments.new`, the delay queues in order, the DLQ, and each queue before its binding. The
objects are durable and stay. RabbitMQ refuses to declare a queue that exists with another TTL, or with
a TTL it cannot represent; the call raises, the process ends, and Docker restarts its container
(`restart: unless-stopped`).

`env` is what `.env` says, `setting` what each container says. `.env` is not in the image
(`.dockerignore`); `env_file` of `docker-compose.yml` copies it into a container when that is created,
and a restart (`Start`) keeps the copy. An edit (`ChangeEnv`) reaches a process when somebody recreates
its container (`Recreate`, `docker compose up`), one container before the other or never. A process
that is started by hand in the directory of `.env` reads it at each start; that is a `Recreate` too.

The two kinds of process differ in one thing that matters: the relay
publishes after its last declaration, the consumer is given messages from the moment it starts,
because FastStream starts the subscriber (which declares `payments.new` for itself) before it calls
`after_startup`. A message is reduced to the place where it is, its attempt and its holder.

### ConnectionPool

The stages of a handler seen from the pool: waiting for a connection, for the row lock, for the gateway
or the receiver, and which of them hold a connection. A unit of work takes one with its first query
and gives it back when it ends. What a transaction reads is left open, so the model allows more
branches than the code. `PoolTimeout` is SQLAlchemy's pool timeout.

### Amount

A decimal is a coefficient and an exponent, as in Python. `Valid` is the check that pydantic makes of
`Field(gt=0, max_digits, decimal_places)`: each limit may be met by the number or by its normalized
form. `Normalize` is `Decimal.normalize` in the default context (rounding to 28 digits, half to even,
then dropping zeros), `Units` and `Fits` are PostgreSQL's `numeric(18, 2)`. The behaviour of the three
libraries is external to the repository and was compared with the locked version of pydantic.

## 3. Runs

| Run | Instance | What it shows |
|---|---|---|
| `consumer_safety` | 1 payment and 1 malformed body, 2 handlers, 2 attempts, each sent once, 1 redrive, 1 fault | `TypeOK`, `NoLostWebhook`, `SettlementExclusive`, `WebhookTruthful`, `DeliveryRecordTrue`, `StaleCopyHarmless`, `RetriesBounded`, `FinalStatusStable`, `SettlementImplemented` |
| `consumer_liveness` | 1 payment and 1 malformed body, 2 handlers, 2 attempts, each sent once, 1 fault, fairness | `OutcomeReached`: retries end with a recorded delivery or a dead letter, also for malformed bodies |
| `consumer_resend` | 1 payment, 2 handlers, 2 attempts, the message sent twice, no faults | `RecordedDeliveryNotResent` fails, see section 6 |
| `relay` | 4 rows (created two and two at the same time), the oldest always refused, 2 relays, batches of 2, 1 more refusal, 2 faults, fairness | `PublishedWasSent`, `LocksDisjoint`, `DuplicatesArePaid`, `PublicationImplemented`; `EventuallyPublished`, also for rows younger than the refused one |
| `create` | 3 requests, 2 keys, 2 payloads, fairness | `OutboxMatchesPayments`, `OneAnswerPerKey`, `ConflictIsReal`, `RaceHasWinner`, `StoreImplemented`, `EveryRequestEnds` |
| `system_clients` | 2 requests for 1 key, 1 relay, 1 handler, 2 attempts, 1 refusal, 1 malformed message, fairness | `ObservationsAgree`, `ReadsMonotone`, `EveryPaymentConcluded` |
| `system_faults` | 1 request, 1 relay with 1 fault, 1 handler with 1 fault, 2 attempts, 1 manual redrive | `PaymentNotLost`, `EventFindsPayment`, `WorkIsPaid`, `RecordedDeliveryNotResent` |
| `startup` | 4 settings, 1 edit of `.env`, 1 relay, 1 consumer, 1 event, 2 crashes, fairness | `TypeOK`, `SameEnvDropsNothing`, `DroppedOnlyWhileStarting`, `DelayAsDecided`, `StartsWhenDeclarable`, `EveryEventConcluded` |
| `startup_raise` | as above, 1 crash | `NothingDropped` fails, see section 6 |
| `pool` | 4 handlers, 2 payments, 2 connections, 5 messages, fairness | `TypeOK`, `PoolMoves`, `EveryHandlerEnds` |
| `amount_forms` | all decimals of up to 5 digits, precision 4, `Numeric(3, 2)` | `StoredAsFingerprinted`, `FormDoesNotMatter`, `OrdinaryAmountsFit` |
| `amount_limit` | the same | `AcceptedAmountsFit` fails, see section 6 |

The type invariants of `CreatePayment` and `OutboxRelay` are in no run: `TypeCorrect` proves them.

Why the bounds are enough. Payments do not interact in the consumer: locks, rows and messages are
per payment, so one payment with two handlers shows every interleaving; when it is inserted is free.
Two attempts give a first try, a delay queue and the last try that goes to the DLQ. A lost
channel or a crash gives a second copy of a message, which the other handler takes while the first goes
on; that is also what a duplicate from the relay does, which `consumer_resend` and `system_faults` have.
The redrive starts the attempts of a payment again that is settled, or not. A relay needs two
competitors and a batch that is neither one row nor the whole table; with a row that is always refused
in the first batch, three more keep both relays busy. Three requests let one win, one replay or
conflict, and one use another key or race for the same.

The system runs use small components, because their own runs and theorems cover the larger ones; what
they add is the joints. Two clients of one payment are the least that can disagree. One fault on
each side of the broker gives a duplicate event, a redelivery and a death at every joint. A
handler's exceptions, lost transactions and lost commit answers are no faults and occur in all runs
with a consumer. Its crashes, lost channels and failed publications are, as are lost transactions and
unseen confirmations of a relay; `system_clients` has none of them: `consumer_liveness` and `relay` check
liveness with them, component by component. With several handlers in the system, `ObservationsAgree`
and `ReadsMonotone` are proved, not run.

One relay and one consumer are enough for `startup`, because processes meet only in the broker's
objects, and the two kinds differ as described. The four settings give a larger limit, another delay
for an existing queue, another delay that is the same in whole milliseconds (`Millisecond` is 2: delays
are counted in halves), and a TTL beyond `MaxTtl` (2 in the runs; the broker's is a 32 bit number); a
limit of three makes two delay queues, so that one can exist without the other. One edit is enough for
a container that failed and is recreated with a corrected `.env`, since `.env` may say anything at first.
`TypeOK` includes that the broker holds no TTL it refuses.

Four handlers on two connections can fill the pool with lock waiters, or with one waiter and its lock
holder while others wait for a connection. The amounts keep the order of the real limits, places <
digits < precision < length of the coefficient, and are exhaustive within it.

`MaxSends`, `MaxRedrives`, `MaxFaults`, `MaxRelayFaults`, `MaxRefusals`, `MaxCrashes`, `MaxChanges`,
`MaxMessages`, `MaxLength` and `MaxExponent` are bounds of the models, not of the code. Because of
them the environment stops at some point and a state without successors is normal, so deadlock is
not checked; that nothing waits for ever is the business of the liveness runs and of `PoolMoves`.
Symmetry, of the two handlers, is used in `consumer_safety` only, which has no liveness property.

### Fairness

- `WF(Work(h))` for each handler: the event loop runs the task, or the process is replaced and
  another activation takes the message; calls to the database, gateway and receiver return or raise
  (timeouts), and RabbitMQ closes the channel of a message left unacknowledged too long, so `stuck`
  ends as well. Failing is part of `Work`: fairness does not promise that anything succeeds.
- `WF(Expire)`: the TTL of a delay queue elapses.
- `WF(Iterate(r))` for each relay: `run_forever` loops, and a dead worker is started again.
- `WF(Serve(r))` for each request: as for handlers.

- `PaymentSystem` assumes the fairness of its components and nothing else: each client's request, each
  relay, each handler, and the delay queues.
- `WF(Boot(p))` in `Startup`: Docker restarts a process that has ended, with the settings it had, and
  `declare_topology` goes on to its next await. `WF(Receive)`, `WF(Expire)`, `WF(Publish)`,
  `WF(Handle)`: broker, relay and handlers go on. Nothing is assumed of crashes, of `.env` or of
  `Recreate`: nobody has to run `docker compose up`. So `StartsWhenDeclarable` promises a start only to a
  container whose own settings the broker accepts from some time on, and `EveryEventConcluded` its end
  to an event only if all consumers and some relay have such settings. A container with refused
  settings is restarted with them for ever, also after `.env` has been corrected.
- `WF(Work(h))` in `ConnectionPool`: a handler goes on when it can. Pool timeouts and failures are not
  in it, so `EveryHandlerEnds` does not lean on them. A handler that waits for a connection may lose
  to others as often as there are messages, which `MaxMessages` bounds: with an endless stream of
  messages, and a pool without order, only the timeout ends a wait.

No fairness is assumed of faults, publications from outside, redrives or arrivals.

## 4. Theorems

### The consumer

`PaymentConsumerProofs` proves, for any set of payments and handlers, any `MaxAttempts >= 1` and
any bounds (assumptions `RetryAssumption`, `ConsumerAssumption`):

| Theorem | States |
|---|---|
| `TypeCorrect` | `Spec => []TypeOK` |
| `SettlementIsExclusive` | `Spec => []SettlementExclusive` |
| `StaleCopiesAreHarmless` | `Spec => []StaleCopyHarmless` |
| `WebhooksAreTruthful` | `Spec => []WebhookTruthful` |
| `DeliveryRecordsAreTrue` | `Spec => []DeliveryRecordTrue` |
| `FinalStatusIsStable` | `Spec => FinalStatusStable` |
| `NoWebhookIsLost` | `Spec => []NoLostWebhook` |
| `MessagesWerePublished` | `Spec => []Origin`: every message descends from a publication |
| `ConsumerImplementsSettlement` | `Spec => SettlementImplemented` |
| `OverlapAloneResends` | `Spec /\ []WebhookStageExclusive => RecordedDeliveryNotResent` |
| `OneHandlerNeverResends` | with one handler, `Spec => RecordedDeliveryNotResent` |
| `RetriesAreBounded` (`RetryBudgetProofs`) | `Spec => []RetriesBounded` |

The argument has three layers, each an inductive invariant that relies on the one below:

1. `TypeInv` adds to `TypeOK` that a handler past validation works on a payment (not on a malformed
   body) and that `save` follows a decision of the gateway. The interesting lemma is `RetryHasQueue`:
   an attempt that the policy allows has a declared delay queue and a legal header.
2. `SettlementInv` is the conjunction of the four safety properties with `StageTrue`. None of them
   is inductive alone. That the webhook stage's stale copy has the settled status needs the row to
   be final when it was read; that the row stays final needs the only writer of a status, `Save`, to
   work on a pending row no one else can have settled, which is `SettlementExclusive`; that a
   recorded delivery is real needs that a failed POST never writes back `delivered`, hence that
   the copy was undelivered (`StageTrue`). `QuietStep` handles the eight steps in which a handler
   only leaves the stages at which it works on a row.
3. `NoLostWebhook` is inductive relative to the two: a handler stops carrying its message only when
   the receiver has answered (`StageTrue`, `DeliveryRecordTrue`) or when the broker has a message
   for the payment (`PublishesOne`, `RequeueTyped`). `EvidenceKept` states this once for all steps.

The refinement needs layer 2 only: `Save` is an abstract `Settle` because the row is pending
(`SettlementExclusive`), `Post` announces the settled status because the copy has it
(`StaleCopyHarmless`), and `Record` records nothing that was not accepted (`StageTrue`).

A recorded delivery can be sent again (section 6). `OverlapAloneResends` says that nothing else than
two handlers in the webhook stage of one payment at once can cause it: as long as no two are,
duplicates, redeliveries, redrives and faults are harmless. The step invariant (`DeliveryKept`) is that
a handler which has read an undelivered row finds it undelivered until it writes it back.

`RetriesBounded` needs an account over all copies of a message. `Owed` adds up, for one payment, the
activations that may still come: those left to each message in the queues, by the attempt in its
header, and those left to each handler, its own included until it is spent. What was spent plus what
is owed is at most `MaxAttempts` for every publication, redrive and fault (`Account`): a retry takes
one activation of its message, a duplicate is a new message that something has paid for. It is kept
twice, for calls of the gateway and for the failures counted in the row; the second also bounds the
counts in the copies that handlers may still write back. The sums are no recursion over the
tables, which these provers could not reason about: the sum of a table is the cardinality of its set of
coins, of which each entry of n has n, and `SumChanges` says what a change of one entry does to it.

### The outbox relay

`OutboxRelayProofs` proves, for any finite sets of rows and relays, any batch size, creation times,
poison and bounds (assumption `RelayAssumption`):

| Theorem | States |
|---|---|
| `TypeCorrect` | `Spec => []TypeOK` |
| `PublishedRowsWereSent` | `Spec => []PublishedWasSent` |
| `BatchesAreDisjoint` | `Spec => []LocksDisjoint` |
| `DuplicatesArePaidFor` | `Spec => []DuplicatesArePaid` |
| `RelaysImplementPublication` | `Spec => PublicationImplemented` |

`RelayInv` is the inductive invariant of the first two: with `BatchTrue`, what a relay remembers of
its batch is true (what it has still to publish is in the batch, unmarked and without repetition;
what it has marked was sent). `DuplicatesArePaid` needs an account. A relay whose transaction is
gone, but which does not know, is a zombie for the events it has still to publish: another relay may
publish them as well. `Paid` says that the copies sent, plus those zombies may still send, are at
most the faults so far plus one if a live or committed mark notes the event. Losing a transaction
makes one zombie and costs one fault; a zombie's publication ends its iteration; a live relay's next
event is not noted yet (`NextIsNotNoted`), so its confirmed copy is the one the mark accounts for.

The same account is the guard of `Send` (`NextIsAffordable`): what a live relay is about to publish is
not noted, what a zombie is about to publish is counted already, so one more copy is paid for.
`RowsExist` adds that a batch, of a live transaction or not, is of committed rows.

### The creation of payments

`CreatePaymentProofs` proves, for any sets of requests, keys and fingerprints:

| Theorem | States |
|---|---|
| `TypeCorrect` | `Spec => []TypeOK` |
| `CreationIsIdempotent` | `Spec => []OneAnswerPerKey` |
| `OutboxIsTransactional` | `Spec => []OutboxMatchesPayments` |
| `ConflictsAreReal` | `Spec => []ConflictIsReal` |
| `RacesHaveWinners` | `Spec => []RaceHasWinner` |
| `CreationIsLinearizable` | `Spec => StoreImplemented` |

`KeyInv` says what an open transaction has inserted at each stage and, in `KeyReserved`, what the
unique index guarantees: a key inserted by an open transaction is in no other one and in no
committed row. Only the commit adds a payment, and only for a reserved key, so every answer given
before it stays true.

`CreationIsLinearizable` maps each action to one step of the store or to a stutter (`StepIsAtomic`); that
a commit finds its key unbound is `KeyReserved` again.

### The system

`PaymentSystemProofs` proves, for any requests, relays, handlers and bounds (`SystemAssumption`, which
gives the assumptions of all components):

| Theorem | States |
|---|---|
| `CommittedPaymentsAreNotLost` | `Spec => []PaymentNotLost` |
| `EventsFindTheirPayments` | `Spec => []EventFindsPayment` |
| `ReadsAreMonotone` | `Spec => ReadsMonotone` |
| `ObservationsAlwaysAgree` | `Spec => []ObservationsAgree` |
| `RecordedDeliveriesAreNotResent` | with one handler, `Spec => RecordedDeliveryNotResent` |
| `WorkIsPaidFor` | `Spec => []WorkIsPaid` |
| `SystemKeepsThePromises` | `Spec => API!StoreImplemented /\ Outbox!PublicationImplemented /\ Consumer!SettlementImplemented` |

`PaymentSystem` instantiates the modules with the component theorems. Every step of the system is a
step of each component or leaves it alone (`OutboxStep`, `ConsumerStep`), so what is proved of a
component alone holds in the system and is cited, not proved again. What is new are invariants across
the joints:

- `Linked`: a committed payment has an outbox row, and the consumer was given as many copies as the
  relay has sent. With `PublishedWasSent` on one side and `NoLostWebhook` on the other nothing falls between.
- `Backed`: an outbox row, a batch or a publication is only of a payment in the table. With
  `MessagesWerePublished` every message finds its row.
- `SeenTrue`: a final status told to a client is the status of its payment. `FinalStatusStable` keeps
  it so; `WebhookTruthful` ties it to the webhooks.

`WorkIsPaid` is where two accounts meet: the relay's duplicates are paid for by its faults
(`DuplicatesArePaid`), each copy is one of the publications that the consumer's budget counts
(`RetriesBounded`), and `Linked` says that both count the same. So a payment costs no more calls of the
gateway, and no more failed webhooks, than `MaxAttempts` for its event and for each fault and
redrive anywhere in the system.

### The startup

`StartupProofs` proves, for any processes, events, settings and bounds (`StartupAssumption`):

| Theorem | States |
|---|---|
| `TypeCorrect` | `Spec => []TypeOK`; no queue with a TTL the broker refuses is ever made |
| `DropsAreConfined` | `Spec => DroppedOnlyWhileStarting` |
| `SameSettingsDropNothing` | `Spec => []SameEnvDropsNothing`: nothing is dropped until the first edit of `.env` |
| `DelaysAreTheConsumersOwn` | `Spec => DelayAsDecided`, to the whole millisecond |

The invariant relates a process to the broker: it holds all that the process has declared in this life
(`Progress`, over the ranks of the declarations), and there is no message before some relay has
declared everything, so exchanges, `payments.new` and the DLQ are there (`Base`); a dead process holds
no message (`Held`). A running consumer then has every delay queue its policy can name, with its own
TTL, since it could not have declared it otherwise. As long as `.env` is unchanged, all
containers have the same settings (`Agreed`), and the relay that published has declared for all of them.

### The connection pool

`ConnectionPoolProofs` proves `TypeCorrect` (`TypeOK`, which includes that no more connections are held
than exist) and `PoolAlwaysMoves` (`PoolMoves`) for any finite set of handlers and any pool. `Holders`
says who has a connection: exactly the handlers in a stage inside a unit of work. If the pool is
exhausted, and all holders wait for row locks, each lock belongs to a handler at the gateway, which
holds a connection too and waits for nobody.

### The amount

`AmountProofs` proves, for any precision, column, number of decimal places and length of the
coefficient (`AmountAssumption`):

| Theorem | States |
|---|---|
| `StoredIsFingerprinted` | `Spec => []StoredAsFingerprinted` |
| `FormsAreEqual` | `Spec => []FormDoesNotMatter` |
| `OrdinaryAmountsAreStored` | `Spec => []OrdinaryAmountsFit` |

`Pow10` is a recursive function, not a recursive operator, so that it can be proved about.
`Induction` is the principle for a set of numbers, from the well-foundedness of `<`;
`PowersOfTen` derives the recursion from it, and the rest of the arithmetic (a number has one length and
one number of zeros at its end, powers add, rounding moves a number by half a unit at most) follows.

The invariant of the three (`Judged`) is simple; the arithmetic is not. An amount is rounded twice
by different rules: half to even, to 28 digits, on its way to the fingerprint, and half up, to cents,
on its way to the column. `UnitsUnrounded` is the case in which the first does nothing. In the other
(`UnitsRounded`) the limit on decimals puts the rounded amount on a whole cent, and the limit on the
digits before the point makes what was rounded away at most a twentieth of a cent (with the real limits
far less): too little to move the column's rounding. It takes the context to keep more digits than the
column has, which the proof brought to light: `AmountAssumption` had allowed as many. With three digits
each, 1.005 is 1 in the fingerprint and 1.01 in the column. The code has 28 and 18.

### Only model-checked

- Liveness, out of the prover's reach: `OutcomeReached`, `EventuallyPublished`, `EveryRequestEnds`,
  `EveryPaymentConcluded`, `EveryEventConcluded`, `StartsWhenDeclarable`, `EveryHandlerEnds`.

## 5. What is not modelled

- Currencies, descriptions, metadata, timestamps, log records: no step of the protocol depends on
  them. But for the amount, fingerprints are values that are equal or different.
- The length of delays outside `Startup`: a delayed message returns at some time.
- Delays in floating point: a product such as 0.57 * 1000 may fall just below a whole number before it
  is cut to milliseconds. The delays of `Startup` are exact.
- One attempt limit for all processes is assumed outside `Startup`, so `x-attempt` never exceeds it and
  the cap of `CappedAttempt` never bites.
- `OutboxRelayRunner.stop`: nothing in the repository calls it.
- Authentication, header validation, the OpenAPI document, the health of containers: stateless.
- Settings other than the attempt limit and the delay; logging; the echo service, which answers every
  POST; migrations, but for the unique constraint.
- Several charges by the gateway: the gateway is a mock that keeps nothing; `RetriesBounded` bounds how
  often it is called.
- Bodies that are no JSON object: the messaging framework refuses them before the handler is called,
  in a way this repository does not choose.

## 6. Disagreements

### A recorded delivery is erased

`src/README.md:595` promises that a delivered webhook is not sent again for an ordinary duplicate of
the message. `consumer_resend` shows a run without any fault in which it is:

1. two handlers have the two copies of the message, the payment is settled, and both have read the
   row with `webhook_delivered_at` NULL and POST the webhook;
2. the first is answered 2xx and commits `webhook_delivered_at`;
3. the second is answered 503; `services.py:254-257` saves the row it read before, all columns of
   it, so `webhook_delivered_at` becomes NULL again;
4. its retry finds the payment final and undelivered and POSTs the webhook once more.

The settlement itself is safe in the same situation (`StaleCopyHarmless`), and with one message at a
time the promise holds (`system_faults`).

### A retry meets a queue that is not there yet

`src/README.md:587` says that events are delivered at least once. With one `.env` they are
(`startup`, `SameSettingsDropNothing`). `startup_raise` shows a loss after an edit of it:

1. the topology was declared with `MESSAGE_MAX_ATTEMPTS=1`, and an event waits in `payments.new`;
2. the limit is raised and the consumer's container recreated; its subscriber takes the event while `after_startup`
   (`consumer.py:43`) has not declared `payments.new.retry.2`;
3. the handler fails; the policy allows a second attempt, and the retry is published to a direct
   exchange that drops what no queue is bound for, without an error; the original is acknowledged.

`DropsAreConfined` shows that this window is the only one. It is as long as the declarations take; when
they fail every time, it lasts until the container is recreated with settings the broker accepts.

### An amount that passes validation and not the column

`Field(max_digits=18, decimal_places=2)` (`src/app/schemas/payments.py:11`) mirrors
`Numeric(precision=18, scale=2)` (`src/app/infrastructure/db/models.py:38`). `amount_limit` finds, with
scaled-down limits, an amount that is accepted and overflows the column; with the real ones it is
9999999999999999.9999999999999: 16 whole digits as written, no decimals once normalized to 28 digits
(1E+16), and 17 whole digits as the column rounds it. The client gets a 500 and not a 422. It takes more
digits than the precision (`OrdinaryAmountsFit`).

## 7. Plan

Done: every component that keeps state, three abstract specifications and their refinements, the
composition, and a theorem for every safety property that a passing run checks. What is left:

1. `PaymentSystem` with two handlers and two payments at once, if a reduction makes it small enough.
2. One abstract specification of the whole service, of what a client and a receiver see together, that
   `PaymentSystem` implements; `ObservationsAgree` and `SystemKeepsThePromises` are its parts.
