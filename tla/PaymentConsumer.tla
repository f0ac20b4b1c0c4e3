-------------------------- MODULE PaymentConsumer --------------------------
(***************************************************************************)
(* The payment message consumer: handle_payment_message with the use cases *)
(* it calls (ProcessPaymentMessageService, DeliverPaymentWebhookService)   *)
(* and the retry router, running as concurrent handlers against one        *)
(* database and one broker.                                                *)
(*                                                                         *)
(* A handler is one activation of handle_payment_message: a task of a      *)
(* consumer process, or of another consumer process.  Each database        *)
(* transaction takes effect in one step, its commit; what a transaction    *)
(* read earlier is kept in copy, and the row lock of SELECT ... FOR UPDATE *)
(* is held from the read to the commit.                                    *)
(***************************************************************************)
EXTENDS Integers, Payment, RetryPolicy

CONSTANTS
    PaymentId,      \* payment identifiers
    Handler,        \* concurrent activations of the message handler
    Malformed,      \* a message body that PaymentMessage rejects
    StatusCode,     \* the HTTP status codes a webhook receiver may answer
    MaxSends,       \* bound, per body: publications by the relay or an operator
    MaxRedrives,    \* bound: messages an operator moves out of the DLQ
    MaxFaults       \* bound: crashes, lost channels and failed publications

ASSUME ConsumerAssumption ==
    /\ Malformed \notin PaymentId
    /\ StatusCode \subseteq 100 .. 599
    /\ MaxSends \in [PaymentId \cup {Malformed} -> Nat]
    /\ MaxRedrives \in Nat /\ MaxFaults \in Nat

VARIABLES
    payment,        \* the payments table, as committed
    queue,          \* payments.new: copies of each message that are ready
    retry,          \* the delay queues together; the header names the queue
    dlq,            \* payments.dlq
    pc,             \* the stage each handler has reached
    held,           \* the message each handler was given
    owned,          \* the broker still regards that delivery as unacknowledged
    copy,           \* the row the handler's open transaction has read
    inTx,           \* the handler has an open transaction that is still alive
    result,         \* what the gateway or the webhook receiver answered
    sends, redrives, faults,    \* how much of each bound is used up
    posted,         \* history: statuses POSTed to each payment's webhook
    accepted,       \* history: the receiver has answered 2xx
    recorded,       \* history: some commit has set webhook_delivered_at
    charged         \* history: calls of the payment gateway

brokerVars == <<queue, retry, dlq>>
handlerVars == <<pc, held, owned, copy, inTx, result>>
boundVars == <<sends, redrives, faults>>
historyVars == <<posted, accepted, recorded, charged>>
vars == <<payment, brokerVars, handlerVars, boundVars, historyVars>>

Body == PaymentId \cup {Malformed}
Message == [body : Body, header : Header]
Stage == {"idle", "lock", "gateway", "save", "read", "post", "record",
          "retry", "dlq", "ack", "stuck"}
Result == {"none", "ok", "temporary", "permanent"} \cup Final

\* What a handler's fields hold when they mean nothing.
NoMessage == [body |-> Malformed, header |-> 0]

Put(bag, m) == [bag EXCEPT ![m] = @ + 1]
Take(bag, m) == [bag EXCEPT ![m] = @ - 1]
EmptyBag == [m \in Message |-> 0]

TypeOK ==
    /\ payment \in [PaymentId -> Row]
    /\ queue \in [Message -> Nat] /\ retry \in [Message -> Nat] /\ dlq \in [Message -> Nat]
    /\ pc \in [Handler -> Stage]
    /\ held \in [Handler -> Message]
    /\ owned \in [Handler -> BOOLEAN] /\ inTx \in [Handler -> BOOLEAN]
    /\ copy \in [Handler -> Row]
    /\ result \in [Handler -> Result]
    /\ sends \in [Body -> Nat]
    /\ redrives \in 0 .. MaxRedrives /\ faults \in 0 .. MaxFaults
    /\ posted \in [PaymentId -> SUBSET Status]
    /\ accepted \in [PaymentId -> BOOLEAN] /\ recorded \in [PaymentId -> BOOLEAN]
    /\ charged \in [PaymentId -> Nat]

Init ==
    /\ payment = [p \in PaymentId |-> NoRow]
    /\ queue = EmptyBag /\ retry = EmptyBag /\ dlq = EmptyBag
    /\ pc = [h \in Handler |-> "idle"]
    /\ held = [h \in Handler |-> NoMessage]
    /\ owned = [h \in Handler |-> FALSE] /\ inTx = [h \in Handler |-> FALSE]
    /\ copy = [h \in Handler |-> NoRow]
    /\ result = [h \in Handler |-> "none"]
    /\ sends = [b \in Body |-> 0] /\ redrives = 0 /\ faults = 0
    /\ posted = [p \in PaymentId |-> {}]
    /\ accepted = [p \in PaymentId |-> FALSE] /\ recorded = [p \in PaymentId |-> FALSE]
    /\ charged = [p \in PaymentId |-> 0]
----------------------------------------------------------------------------
(* Steps of one handler.                                                   *)

Pid(h) == held[h].body
Attempt(h) == ParseAttempt(held[h].header)

\* Mutant: the row lock is not held across the gateway call.
LockedToSave(p) == \E h \in Handler : inTx[h] /\ pc[h] = "save" /\ Pid(h) = p

\* Some live transaction holds the row lock of payment p.
Locked(p) ==
    \E h \in Handler : inTx[h] /\ pc[h] \in {"gateway", "save"} /\ Pid(h) = p

Goto(h, stage) == pc' = [pc EXCEPT ![h] = stage]

OpenTx(h) ==
    /\ inTx' = [inTx EXCEPT ![h] = TRUE]
    /\ copy' = [copy EXCEPT ![h] = payment[Pid(h)]]

\* Leaving the unit of work: committed, or rolled back on an exception.
CloseTx(h) ==
    /\ inTx' = [inTx EXCEPT ![h] = FALSE]
    /\ copy' = [copy EXCEPT ![h] = NoRow]
    /\ result' = [result EXCEPT ![h] = "none"]

\* The activation is over; its slot may be used for another delivery.
Leave(h) ==
    /\ Goto(h, "idle")
    /\ held' = [held EXCEPT ![h] = NoMessage]
    /\ owned' = [owned EXCEPT ![h] = FALSE]
    /\ CloseTx(h)

\* Mutant: the message is acknowledged before it is handled.
ReceiveAckFirst(h) ==
    /\ pc[h] = "idle"
    /\ \E m \in Message :
        /\ queue[m] > 0
        /\ queue' = Take(queue, m)
        /\ held' = [held EXCEPT ![h] = m]
        /\ Goto(h, IF m.body = Malformed THEN "dlq" ELSE "lock")
    /\ UNCHANGED <<payment, retry, dlq, owned, copy, inTx, result, boundVars, historyVars>>

\* The broker hands a ready message to a handler, which validates its body.
Receive(h) ==
    /\ pc[h] = "idle"
    /\ \E m \in Message :
        /\ queue[m] > 0
        /\ queue' = Take(queue, m)
        /\ held' = [held EXCEPT ![h] = m]
        /\ Goto(h, IF m.body = Malformed THEN "dlq" ELSE "lock")
    /\ owned' = [owned EXCEPT ![h] = TRUE]
    /\ UNCHANGED <<payment, retry, dlq, copy, inTx, result, boundVars, historyVars>>

\* get_by_id_for_update finds no row: PaymentNotFoundError.
LockMissing(h) ==
    /\ pc[h] = "lock" /\ payment[Pid(h)] = NoRow
    /\ Goto(h, "dlq")
    /\ UNCHANGED <<payment, brokerVars, held, owned, copy, inTx, result, boundVars, historyVars>>

\* should_deliver_webhook decides what follows a payment that is final.
AfterSettlement(row) == IF row.delivered THEN "ack" ELSE "read"

\* The lock is obtained and the payment is final already: nothing to settle.
LockFinal(h) ==
    /\ pc[h] = "lock" /\ ~ Locked(Pid(h)) /\ IsFinal(payment[Pid(h)])
    /\ Goto(h, AfterSettlement(payment[Pid(h)]))
    /\ UNCHANGED <<payment, brokerVars, held, owned, copy, inTx, result, boundVars, historyVars>>

\* Mutant: the row is read without FOR UPDATE.
LockPendingUnlocked(h) ==
    /\ pc[h] = "lock" /\ payment[Pid(h)].status = "pending"
    /\ OpenTx(h)
    /\ Goto(h, "gateway")
    /\ charged' = [charged EXCEPT ![Pid(h)] = @ + 1]
    /\ UNCHANGED <<payment, brokerVars, held, owned, result, boundVars, posted, accepted, recorded>>

\* The lock is obtained and the payment is pending: the gateway is called
\* inside the transaction.
LockPending(h) ==
    /\ pc[h] = "lock" /\ ~ Locked(Pid(h)) /\ payment[Pid(h)].status = "pending"
    /\ OpenTx(h)
    /\ Goto(h, "gateway")
    /\ charged' = [charged EXCEPT ![Pid(h)] = @ + 1]
    /\ UNCHANGED <<payment, brokerVars, held, owned, result, boundVars, posted, accepted, recorded>>

GatewayAnswers(h) ==
    /\ pc[h] = "gateway"
    /\ \E decision \in Final : result' = [result EXCEPT ![h] = decision]
    /\ Goto(h, "save")
    /\ UNCHANGED <<payment, brokerVars, held, owned, copy, inTx, boundVars, historyVars>>

\* Mutant: the unit of work is left without a commit.
SaveUncommitted(h) ==
    /\ pc[h] = "save" /\ inTx[h] /\ CanTransition(copy[h])
    /\ \E stage \in {AfterSettlement(copy[h]), "retry"} : Goto(h, stage)
    /\ CloseTx(h)
    /\ UNCHANGED <<payment, brokerVars, held, owned, boundVars, historyVars>>

\* Mutant: after the loss of its transaction the handler saves in a new one.
SaveReconnected(h) ==
    /\ pc[h] = "save" /\ CanTransition(copy[h])
    /\ payment' = [payment EXCEPT ![Pid(h)] = Transition(copy[h], result[h])]
    /\ \E stage \in {AfterSettlement(copy[h]), "retry"} : Goto(h, stage)
    /\ CloseTx(h)
    /\ UNCHANGED <<brokerVars, held, owned, boundVars, historyVars>>

\* succeed or fail, save of the whole row, commit.  The commit may take effect
\* although its answer is lost; the handler then sees an exception.
Save(h) ==
    /\ pc[h] = "save" /\ inTx[h] /\ CanTransition(copy[h])
    /\ payment' = [payment EXCEPT ![Pid(h)] = Transition(copy[h], result[h])]
    /\ \E stage \in {AfterSettlement(copy[h]), "retry"} : Goto(h, stage)
    /\ CloseTx(h)
    /\ UNCHANGED <<brokerVars, held, owned, boundVars, historyVars>>

\* The webhook stage reads the payment again, without a lock.  (Rows are never
\* deleted, so it is found.)
Read(h) ==
    /\ pc[h] = "read"
    /\ \/ /\ payment[Pid(h)].delivered
          /\ Goto(h, "ack")
          /\ UNCHANGED <<copy, inTx>>
       \/ /\ ~ payment[Pid(h)].delivered
          /\ OpenTx(h)
          /\ Goto(h, "post")
    /\ UNCHANGED <<payment, brokerVars, held, owned, result, boundVars, historyVars>>

\* HttpxWebhookClient.deliver: a status code, or a timeout or network error.
PostResult == {ClassifyWebhookStatus(c) : c \in StatusCode} \cup {"temporary"}

Post(h) ==
    /\ pc[h] = "post"
    /\ \E r \in PostResult :
        /\ result' = [result EXCEPT ![h] = r]
        /\ accepted' = [accepted EXCEPT ![Pid(h)] = @ \/ r = "ok"]
    /\ posted' = [posted EXCEPT ![Pid(h)] = @ \cup {copy[h].status}]
    /\ Goto(h, "record")
    /\ UNCHANGED <<payment, brokerVars, held, owned, copy, inTx, boundVars, recorded, charged>>

\* How handle_payment_message treats what the webhook stage raised.
AfterDelivery(r) ==
    CASE r = "ok" -> "ack" [] r = "permanent" -> "dlq" [] OTHER -> "retry"

\* Mutant: the delivery is recorded whatever the receiver answered.
RecordedRowAlways(h) == MarkDelivered(copy[h])

\* The row to write: every column from the copy read before the POST.
RecordedRow(h) ==
    IF result[h] = "ok" THEN MarkDelivered(copy[h]) ELSE MarkDeliveryFailed(copy[h])

\* The outcome of the POST is saved and committed; the UPDATE waits for the row
\* lock.  A commit whose answer is lost raises a fresh exception.
Record(h) ==
    /\ pc[h] = "record" /\ inTx[h] /\ ~ Locked(Pid(h))
    /\ payment' = [payment EXCEPT ![Pid(h)] = RecordedRow(h)]
    /\ recorded' = [recorded EXCEPT ![Pid(h)] = @ \/ result[h] = "ok"]
    /\ \E stage \in {AfterDelivery(result[h]), "retry"} : Goto(h, stage)
    /\ CloseTx(h)
    /\ UNCHANGED <<brokerVars, held, owned, boundVars, posted, accepted, charged>>

\* Mutant: the webhook stage runs although the settlement has failed.
FailToWebhook(h) ==
    /\ pc[h] \in {"lock", "gateway", "save", "read", "record"}
    /\ Goto(h, IF pc[h] \in {"gateway", "save"} THEN "read" ELSE "retry")
    /\ CloseTx(h)
    /\ UNCHANGED <<payment, brokerVars, held, owned, boundVars, historyVars>>

\* A database or gateway error: the transaction is rolled back and the generic
\* except clause of the message handler routes the message.
Fail(h) ==
    /\ pc[h] \in {"lock", "gateway", "save", "read", "record"}
    /\ Goto(h, "retry")
    /\ CloseTx(h)
    /\ UNCHANGED <<payment, brokerVars, held, owned, boundVars, historyVars>>

\* send_to_dlq.
PublishDlq(h) ==
    /\ dlq' = Put(dlq, [body |-> Pid(h), header |-> CappedAttempt(Attempt(h))])
    /\ UNCHANGED <<queue, retry>>

\* The retry exchange is direct: it drops what no declared queue is bound for.
PublishRetry(h) ==
    LET next == NextAttempt(Attempt(h))
    IN  /\ retry' = IF next \in RetryQueues
                    THEN Put(retry, [body |-> Pid(h), header |-> next])
                    ELSE retry
        /\ UNCHANGED <<queue, dlq>>

\* retry_or_dlq.
RetryOrDlq(h) ==
    \/ MayRetry(Attempt(h)) /\ PublishRetry(h)
    \/ ~ MayRetry(Attempt(h)) /\ PublishDlq(h)

\* What the handler publishes before it may acknowledge its message.
PublishFate(h) ==
    \/ pc[h] = "dlq" /\ PublishDlq(h)
    \/ pc[h] = "retry" /\ RetryOrDlq(h)

Route(h) ==
    /\ PublishFate(h)
    /\ Goto(h, "ack")
    /\ UNCHANGED <<payment, held, owned, copy, inTx, result, boundVars, historyVars>>

\* message.ack(): the broker forgets the message; on a lost channel it has
\* returned it to the queue already.
Ack(h) ==
    /\ pc[h] = "ack"
    /\ Leave(h)
    /\ UNCHANGED <<payment, brokerVars, boundVars, historyVars>>

----------------------------------------------------------------------------
(* Faults.                                                                 *)

\* The broker takes back an unacknowledged message.
Requeue(h) == queue' = IF owned[h] THEN Put(queue, held[h]) ELSE queue

\* The publication raises, whether or not the broker got the message; the
\* exception leaves the handler, and AckPolicy.MANUAL leaves the message unacked.
RouteFails(h) ==
    /\ faults < MaxFaults /\ faults' = faults + 1
    /\ pc[h] \in {"retry", "dlq"}
    /\ PublishFate(h) \/ UNCHANGED brokerVars
    /\ Goto(h, "stuck")
    /\ UNCHANGED <<payment, held, owned, copy, inTx, result, sends, redrives, historyVars>>

\* The channel of an unacknowledged message closes at last.
Redeliver(h) ==
    /\ pc[h] = "stuck"
    /\ Requeue(h)
    /\ Leave(h)
    /\ UNCHANGED <<payment, retry, dlq, boundVars, historyVars>>

\* The consumer process dies: its transaction is rolled back by the database.
Crash(h) ==
    /\ faults < MaxFaults /\ faults' = faults + 1
    /\ pc[h] \notin {"idle", "stuck"}
    /\ Requeue(h)
    /\ Leave(h)
    /\ UNCHANGED <<payment, retry, dlq, sends, redrives, historyVars>>

\* The channel is lost while the handler runs on: the message is redelivered.
LoseChannel(h) ==
    /\ faults < MaxFaults /\ faults' = faults + 1
    /\ pc[h] \notin {"idle", "stuck"} /\ owned[h]
    /\ Requeue(h)
    /\ owned' = [owned EXCEPT ![h] = FALSE]
    /\ UNCHANGED <<payment, retry, dlq, pc, held, copy, inTx, result, sends, redrives, historyVars>>

\* The database drops the handler's transaction, and with it any row lock; the
\* handler learns of it at its next statement.
LoseDatabase(h) ==
    /\ inTx[h]
    /\ inTx' = [inTx EXCEPT ![h] = FALSE]
    /\ UNCHANGED <<payment, brokerVars, pc, held, owned, copy, result, boundVars, historyVars>>

----------------------------------------------------------------------------
(* The broker's delay queues, and the environment of the consumer.         *)

\* x-message-ttl elapses: the message is dead-lettered to payments.new.
Expire ==
    /\ \E m \in Message :
        /\ retry[m] > 0
        /\ retry' = Take(retry, m)
        /\ queue' = Put(queue, m)
    /\ UNCHANGED <<payment, dlq, handlerVars, boundVars, historyVars>>

\* An API transaction commits a new payment.  Its identifier is generated by the
\* database, so nobody can have published it before.
Insert(p) ==
    /\ payment[p] = NoRow /\ sends[p] = 0
    /\ payment' = [payment EXCEPT ![p] = NewRow]
    /\ UNCHANGED <<brokerVars, handlerVars, boundVars, historyVars>>

\* The outbox relay publishes the event of a payment (perhaps repeatedly), with
\* attempt header 1; a body no payment belongs to comes from an operator.
Publish(b) ==
    LET committed == b \in PaymentId /\ payment[b] # NoRow
    IN  /\ sends[b] < MaxSends[b]
        /\ sends' = [sends EXCEPT ![b] = @ + 1]
        /\ queue' = Put(queue, [body |-> b, header |-> IF committed THEN 1 ELSE 0])
        /\ UNCHANGED <<payment, retry, dlq, handlerVars, redrives, faults, historyVars>>

\* An operator republishes the body of a dead letter, without its headers.
Redrive ==
    /\ redrives < MaxRedrives /\ redrives' = redrives + 1
    /\ \E m \in Message :
        /\ dlq[m] > 0
        /\ dlq' = Take(dlq, m)
        /\ queue' = Put(queue, [m EXCEPT !.header = 0])
    /\ UNCHANGED <<payment, retry, handlerVars, sends, faults, historyVars>>

----------------------------------------------------------------------------
Work(h) ==
    \/ Receive(h) \/ LockMissing(h) \/ LockFinal(h) \/ LockPending(h)
    \/ GatewayAnswers(h) \/ Save(h) \/ Read(h) \/ Post(h) \/ Record(h)
    \/ Fail(h) \/ Route(h) \/ Ack(h) \/ Redeliver(h)

Fault(h) == RouteFails(h) \/ Crash(h) \/ LoseChannel(h) \/ LoseDatabase(h)

Next ==
    \/ \E h \in Handler : Work(h) \/ Fault(h)
    \/ Expire
    \/ \E p \in PaymentId : Insert(p)
    \/ \E b \in Body : Publish(b)
    \/ Redrive

Spec == Init /\ [][Next]_vars

\* Every handler keeps running or is replaced, and time passes.
Fairness == (\A h \in Handler : WF_vars(Work(h))) /\ WF_vars(Expire)

FairSpec == Spec /\ Fairness
----------------------------------------------------------------------------
(* Properties.                                                             *)

\* Some copy of a message for p is in a queue, a delay queue or the DLQ.
Parked(p) == \E m \in Message : m.body = p /\ dlq[m] > 0
InBroker(p) ==
    Parked(p) \/ \E m \in Message : m.body = p /\ (queue[m] > 0 \/ retry[m] > 0)

\* A handler that has not yet finished its work owns a message for p.
Carried(p) ==
    \E h \in Handler : owned[h] /\ pc[h] \notin {"idle", "ack"} /\ Pid(h) = p

\* At-least-once delivery.  Once a message for a payment has been published,
\* the receiver has answered its webhook 2xx, or some message that still asks
\* for it exists: waiting, delayed, dead-lettered, or unacknowledged in the
\* hands of a handler.  Every handler publishes the successor of a message
\* before it acknowledges it, so no crash between two steps loses the payment.
NoLostWebhook ==
    \A p \in PaymentId :
        sends[p] > 0 => accepted[p] \/ InBroker(p) \/ Carried(p)

\* The transaction that will settle a payment is alone and works on current
\* data: as long as it lives, no other has the row lock, the row is pending,
\* and it is the very row the handler will write back in full after the
\* gateway has answered.
SettlementExclusive ==
    \A h \in Handler :
        inTx[h] /\ pc[h] \in {"gateway", "save"} =>
            /\ copy[h] = payment[Pid(h)] /\ copy[h].status = "pending"
            /\ \A g \in Handler \ {h} :
                inTx[g] /\ pc[g] \in {"gateway", "save"} => Pid(g) # Pid(h)

\* Every webhook ever sent for a payment, by whichever handler and after
\* whatever failed transactions, carried the status the payment has: never
\* pending, and never a gateway decision that was rolled back.
WebhookTruthful ==
    \A p \in PaymentId :
        posted[p] # {} => IsFinal(payment[p]) /\ posted[p] = {payment[p].status}

\* A recorded delivery is real: webhook_delivered_at is set only for a payment
\* that is final and whose receiver has answered 2xx, and it clears the error.
DeliveryRecordTrue ==
    \A p \in PaymentId :
        payment[p].delivered => IsFinal(payment[p]) /\ accepted[p] /\ ~ payment[p].error

\* The webhook stage writes back all columns of a row it read without a lock;
\* even so it never disturbs the settlement: what it will write is final and
\* has the status of the row.
StaleCopyHarmless ==
    \A h \in Handler :
        pc[h] \in {"post", "record"} =>
            IsFinal(copy[h]) /\ copy[h].status = payment[Pid(h)].status

\* A final status is never changed and a row never disappears, although two
\* transactions and the webhook stage write whole rows.
FinalStatusStable ==
    [][\A p \in PaymentId :
        /\ IsFinal(payment[p]) => payment'[p].status = payment[p].status
        /\ payment[p].status = "pending" => payment'[p].status # "absent"]_vars

\* A delivered webhook is not sent again for a duplicate message: no handler
\* starts a POST once some commit has recorded the delivery, however many
\* copies of the message, retries and redrives follow.
RecordedDeliveryNotResent ==
    [][\A h \in Handler :
        pc[h] = "read" /\ pc'[h] = "post" => ~ recorded[Pid(h)]]_vars

\* What the consumer does to the table and to the receivers is what Settlement
\* promises: the rows it writes and the webhooks it sends, from copies read at
\* different times by handlers that crash and are retried, amount to single
\* decisions announced truthfully.
Promise ==
    INSTANCE Settlement WITH
        status <- [p \in PaymentId |-> payment[p].status],
        announced <- posted,
        delivered <- [p \in PaymentId |-> payment[p].delivered]

SettlementImplemented == Promise!Spec

\* The retry budget counts per publication.  Each publication, redrive or fault
\* that duplicates a message pays for at most MaxAttempts activations: no more
\* failed webhook calls are counted in the row, and, although a decision is lost
\* with every transaction that fails after the gateway has answered, no more
\* calls of the gateway are ever made for the payment.
RetriesBounded ==
    \A p \in PaymentId :
        /\ payment[p].attempts <= MaxAttempts * (sends[p] + redrives + faults)
        /\ charged[p] <= MaxAttempts * (sends[p] + redrives + faults)

\* Retries end: once a payment has been published, its webhook is in the end
\* recorded as delivered or a message for it stays in the dead letter queue;
\* and there stays in the end every message that is malformed or names no
\* payment, whatever the first handlers to receive it went through.
OutcomeReached ==
    <>[](\A b \in Body :
            sends[b] > 0 => Parked(b) \/ (b \in PaymentId /\ payment[b].delivered))
============================================================================
