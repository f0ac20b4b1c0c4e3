--------------------------- MODULE PaymentSystem ---------------------------
(***************************************************************************)
(* The whole service: the API (CreatePayment), the outbox relay            *)
(* (OutboxRelay) and the message consumer (PaymentConsumer) over one       *)
(* database and one broker, with clients that create payments and read     *)
(* them.                                                                   *)
(*                                                                         *)
(* The processes share no memory.  They meet in two places only: a commit  *)
(* of the API inserts the rows the others read, and a publication of the   *)
(* relay puts a message into the consumer's queue.  These are the joint    *)
(* actions below; every other step is one component's own.                 *)
(***************************************************************************)
EXTENDS Integers, FiniteSets, Sequences

CONSTANTS
    Request, Key, Fingerprint,                              \* the API's
    Relay, Limit, Created, Poison, MaxRefusals, MaxRelayFaults,
    Handler, Malformed, StatusCode, MaxAttempts, MaxSends, MaxRedrives, MaxFaults

VARIABLES
    asked, stage, pending, payments, events, reply,         \* CreatePayment
    outbox, sent, batch, todo, marks, relayTx, refusals, relayFaults,
    payment, queue, retry, dlq, pc, held, owned, copy, inTx, result,
    sends, redrives, faults, posted, accepted, recorded, charged,
    seen            \* the status of its payment each client was last told

\* Instances of the modules with the theorems, so that a proof about the system
\* can cite what is proved of each component (API!OutboxIsTransactional).
API ==
    INSTANCE CreatePaymentProofs WITH
        pc <- stage, outbox <- events
Outbox ==
    INSTANCE OutboxRelayProofs WITH
        Event <- Request, inTx <- relayTx, faults <- relayFaults, MaxFaults <- MaxRelayFaults
Consumer ==
    INSTANCE RetryBudgetProofs WITH
        PaymentId <- Request

\* The components' assumptions; and the bound on publications is never reached.
ASSUME SystemAssumption ==
    /\ IsFiniteSet(Request) /\ IsFiniteSet(Relay) /\ Poison \subseteq Request
    /\ Limit \in Nat \ {0} /\ Created \in [Request -> Nat]
    /\ MaxRefusals \in Nat /\ MaxRelayFaults \in Nat
    /\ Malformed \notin Request /\ StatusCode \subseteq 100 .. 599
    /\ MaxAttempts \in Nat \ {0}
    /\ MaxSends \in [Request \cup {Malformed} -> Nat]
    /\ \A q \in Request : MaxSends[q] > MaxRelayFaults
    /\ MaxRedrives \in Nat /\ MaxFaults \in Nat

apiVars == <<asked, stage, pending, payments, events, reply>>
relayVars == <<outbox, sent, batch, todo, marks, relayTx, refusals, relayFaults>>
consumerVars == <<payment, queue, retry, dlq, pc, held, owned, copy, inTx, result,
                  sends, redrives, faults, posted, accepted, recorded, charged>>
vars == <<apiVars, relayVars, consumerVars, seen>>

Init ==
    /\ API!Init /\ Outbox!Init /\ Consumer!Init
    /\ seen = [q \in Request |-> "unknown"]
----------------------------------------------------------------------------
Told(q) == reply[q].status = "accepted"

\* PaymentAccepted.from_domain: a 202 carries the status of the payment, which
\* is new or was found by the transaction that answers.
Tell(q) ==
    seen' = [seen EXCEPT ![q] =
                IF reply'[q].status = "accepted" THEN payment'[reply'[q].id].status ELSE @]

\* The two rows of a payment become visible to the relay and to the consumer.
CommitPayment(q) ==
    /\ API!Commit(q) /\ Outbox!Insert(q) /\ Consumer!Insert(q)
    /\ Tell(q)

Api(q) ==
    \/ CommitPayment(q)
    \/ /\ API!Found(q) \/ API!NotFound(q) \/ API!Insert(q) \/ API!DuplicateKey(q) \/ API!AddEvent(q)
       /\ UNCHANGED <<relayVars, consumerVars>>
       /\ Tell(q)

ApiEnvironment(q) ==
    /\ API!Arrive(q) \/ API!Fail(q)
    /\ UNCHANGED <<relayVars, consumerVars, seen>>

\* RabbitOutboxPublisher.publish, when the broker accepts the event.
RelayPublishes(r) ==
    /\ Outbox!PublishConfirmed(r)
    /\ Consumer!Publish(Head(todo[r]))
    /\ UNCHANGED <<apiVars, seen>>

RelayPublishesUnseen(r) ==
    /\ Outbox!PublishUnseen(r)
    /\ Consumer!Publish(Head(todo[r]))
    /\ UNCHANGED <<apiVars, seen>>

RelayAlone(r) ==
    /\ Outbox!Poll(r) \/ Outbox!PublishRefused(r) \/ Outbox!Commit(r) \/ Outbox!CommitFails(r)
    /\ UNCHANGED <<apiVars, consumerVars, seen>>

RelayFault(r) ==
    /\ Outbox!Crash(r) \/ Outbox!LoseDatabase(r)
    /\ UNCHANGED <<apiVars, consumerVars, seen>>

Work(h) == Consumer!Work(h) /\ UNCHANGED <<apiVars, relayVars, seen>>
Fault(h) == Consumer!Fault(h) /\ UNCHANGED <<apiVars, relayVars, seen>>
Expire == Consumer!Expire /\ UNCHANGED <<apiVars, relayVars, seen>>

\* An operator republishes a dead letter, or publishes rubbish.
Operator ==
    /\ Consumer!Redrive \/ Consumer!Publish(Malformed)
    /\ UNCHANGED <<apiVars, relayVars, seen>>

\* GetPaymentService: the committed row of the payment the client was given.
Get(q) ==
    /\ Told(q)
    /\ seen' = [seen EXCEPT ![q] = payment[reply[q].id].status]
    /\ UNCHANGED <<apiVars, relayVars, consumerVars>>

Iterate(r) == RelayPublishes(r) \/ RelayAlone(r)

Next ==
    \/ \E q \in Request : Api(q) \/ ApiEnvironment(q) \/ Get(q)
    \/ \E r \in Relay : Iterate(r) \/ RelayPublishesUnseen(r) \/ RelayFault(r)
    \/ \E h \in Handler : Work(h) \/ Fault(h)
    \/ Expire \/ Operator

Spec == Init /\ [][Next]_vars

\* The fairness of each component, and nothing more.
Fairness ==
    /\ \A q \in Request : WF_vars(Api(q))
    /\ \A r \in Relay : WF_vars(Iterate(r))
    /\ \A h \in Handler : WF_vars(Work(h))
    /\ WF_vars(Expire)

FairSpec == Spec /\ Fairness
----------------------------------------------------------------------------
\* From the moment a payment is committed, whether or not its client was told,
\* something in the system still works for its webhook until the receiver has
\* answered 2xx: the outbox row, a message in some queue, or a handler with an
\* unacknowledged message.  No crash of any process, and no lost connection or
\* answer, falls between two of them.
PaymentNotLost ==
    \A id \in payments :
        \/ outbox[id] = "pending"
        \/ accepted[id] \/ Consumer!InBroker(id) \/ Consumer!Carried(id)

\* No event runs ahead of its payment: a handler that is given one finds the
\* row, so PaymentNotFoundError, which goes to the DLQ without a retry, never
\* hits a payment whose transaction was merely slow to commit.
EventFindsPayment ==
    \A h \in Handler :
        pc[h] = "lock" /\ held[h].body \in Request => payment[held[h].body].status # "absent"

\* All that is told of a payment agrees: the 202 answers and GETs of all its
\* clients, and its webhooks, speak of one final status.
ObservationsAgree ==
    \A q \in Request : Told(q) /\ seen[q] \in {"succeeded", "failed"} =>
        /\ posted[reply[q].id] \subseteq {seen[q]}
        /\ \A s \in Request :
            Told(s) /\ reply[s] = reply[q] => seen[s] \in {"pending", seen[q]}

\* What a client reads never goes back: once it has been given a payment, the
\* payment is found, and a final status stays what it was.
ReadsMonotone ==
    [][\A q \in Request :
        /\ seen'[q] # "absent"
        /\ seen[q] \in {"succeeded", "failed"} => seen'[q] = seen[q]]_vars

\* As long as messages are handled one at a time (one handler), what README says
\* holds in the whole system: once a delivery is recorded, no duplicate from the
\* relay, no redelivery and no redrive sends the webhook again.
RecordedDeliveryNotResent == Consumer!RecordedDeliveryNotResent

\* What a payment costs is paid for, end to end: one publication, and each fault
\* of the relay, fault of the consumer or redrive, buy at most MaxAttempts calls of
\* the gateway and as many failed webhook calls.  Nothing else multiplies work:
\* not the retries of clients, nor competing relays, nor redelivered duplicates.
WorkIsPaid ==
    \A id \in Request :
        /\ charged[id] <= MaxAttempts * (1 + relayFaults + redrives + faults)
        /\ payment[id].attempts <= MaxAttempts * (1 + relayFaults + redrives + faults)

\* End to end: every payment a client is given is concluded; in the end its
\* webhook is recorded as delivered, or its message waits in the dead letter
\* queue for the operator.
EveryPaymentConcluded ==
    \A id \in Request :
        id \in payments ~> payment[id].delivered \/ Consumer!Parked(id)
============================================================================
