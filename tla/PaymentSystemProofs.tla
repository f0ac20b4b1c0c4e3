------------------------ MODULE PaymentSystemProofs ------------------------
(***************************************************************************)
(* The theorems about the components, put together: every step of the      *)
(* system is a step of each component or leaves it alone, so what is       *)
(* proved of a component alone holds of it in the system.                  *)
(***************************************************************************)
EXTENDS PaymentSystem, TLAPS

\* What is proved of the consumer and of the relay alone.
LEMMA ConsumerAlone == Consumer!Spec => []Consumer!TypeOK /\ []Consumer!NoLostWebhook
<1>1. Consumer!ConsumerAssumption /\ Consumer!RetryAssumption
  BY SystemAssumption DEF Consumer!ConsumerAssumption, Consumer!RetryAssumption
<1>2. Consumer!Spec => []Consumer!TypeOK
  BY <1>1, Consumer!TypeCorrect
<1>3. Consumer!Spec => []Consumer!NoLostWebhook
  BY <1>1, Consumer!NoWebhookIsLost
<1>4. QED
  BY <1>2, <1>3

LEMMA OutboxAlone == Outbox!Spec => []Outbox!TypeOK /\ []Outbox!PublishedWasSent
<1>1. Outbox!RelayAssumption
  BY SystemAssumption DEF Outbox!RelayAssumption, IsFiniteSet, Outbox!IsFiniteSet
<1>2. Outbox!Spec => []Outbox!TypeOK
  BY <1>1, Outbox!TypeCorrect
<1>3. Outbox!Spec => []Outbox!PublishedWasSent
  BY <1>1, Outbox!PublishedRowsWereSent
<1>4. QED
  BY <1>2, <1>3

\* A step of the system is a step of the relay, or the relay stands still.
LEMMA OutboxStep == [Next]_vars => [Outbox!Next]_(Outbox!vars)
<1> SUFFICES ASSUME [Next]_vars PROVE Outbox!Next \/ UNCHANGED relayVars
  BY DEF relayVars, Outbox!vars, Outbox!relayVars
<1>1. ASSUME NEW q \in Request, Api(q) \/ ApiEnvironment(q) \/ Get(q)
      PROVE  Outbox!Insert(q) \/ UNCHANGED relayVars
  BY <1>1 DEF Api, CommitPayment, ApiEnvironment, Get
<1>2. ASSUME NEW r \in Relay, Iterate(r) \/ RelayPublishesUnseen(r) \/ RelayFault(r)
      PROVE  Outbox!Iterate(r) \/ Outbox!PublishUnseen(r) \/ Outbox!Crash(r) \/ Outbox!LoseDatabase(r)
  BY <1>2 DEF Iterate, RelayPublishes, RelayAlone, RelayPublishesUnseen, RelayFault, Outbox!Iterate
<1>3. CASE (\E h \in Handler : Work(h) \/ Fault(h)) \/ Expire \/ Operator
  BY <1>3 DEF Work, Fault, Expire, Operator
<1>4. CASE UNCHANGED vars
  BY <1>4 DEF vars
<1>5. QED
  BY <1>1, <1>2, <1>3, <1>4 DEF Next, Outbox!Next

\* What the relay publishes next is a row of the table.
LEMMA HeadIsRow ==
    ASSUME Outbox!TypeOK, NEW r \in Relay, todo[r] # <<>>
    PROVE  Head(todo[r]) \in Request
  BY DEF Outbox!TypeOK

\* A step of the system is a step of the consumer and of its environment, or the
\* consumer stands still.
LEMMA ConsumerStep == Outbox!TypeOK /\ [Next]_vars => [Consumer!Next]_(Consumer!vars)
<1> SUFFICES ASSUME Outbox!TypeOK, [Next]_vars PROVE Consumer!Next \/ UNCHANGED consumerVars
  BY DEF consumerVars, Consumer!vars, Consumer!brokerVars, Consumer!handlerVars,
         Consumer!boundVars, Consumer!historyVars
<1>1. ASSUME NEW q \in Request, Api(q) \/ ApiEnvironment(q) \/ Get(q)
      PROVE  Consumer!Insert(q) \/ UNCHANGED consumerVars
  BY <1>1 DEF Api, CommitPayment, ApiEnvironment, Get
<1>2. ASSUME NEW r \in Relay, Iterate(r) \/ RelayPublishesUnseen(r) \/ RelayFault(r)
      PROVE  (\E b \in Consumer!Body : Consumer!Publish(b)) \/ UNCHANGED consumerVars
  <2>1. CASE RelayPublishes(r) \/ RelayPublishesUnseen(r)
    <3>1. todo[r] # <<>> /\ Consumer!Publish(Head(todo[r]))
      BY <2>1 DEF RelayPublishes, RelayPublishesUnseen, Outbox!PublishConfirmed, Outbox!PublishUnseen
    <3>2. QED
      BY <3>1, HeadIsRow DEF Consumer!Body
  <2>2. CASE RelayAlone(r) \/ RelayFault(r)
    BY <2>2 DEF RelayAlone, RelayFault
  <2>3. QED
    BY <1>2, <2>1, <2>2 DEF Iterate
<1>3. CASE \E h \in Handler : Work(h) \/ Fault(h)
  BY <1>3 DEF Work, Fault, Consumer!Next
<1>4. CASE Expire \/ Operator
  BY <1>4 DEF Expire, Operator, Consumer!Next, Consumer!Body
<1>5. CASE UNCHANGED vars
  BY <1>5 DEF vars
<1>6. QED
  BY <1>1, <1>2, <1>3, <1>4, <1>5 DEF Next, Consumer!Next

\* Hence each component behaves in the system as it does alone.
LEMMA ComponentsInSystem ==
    Spec => /\ []Outbox!TypeOK /\ []Outbox!PublishedWasSent
            /\ []Consumer!TypeOK /\ []Consumer!NoLostWebhook
<1>1. Init => Outbox!Init /\ Consumer!Init
  BY DEF Init
<1>2. Spec => Outbox!Spec
  BY <1>1, OutboxStep, PTL DEF Spec, Outbox!Spec
<1>3. Spec => []Outbox!TypeOK
  BY <1>2, OutboxAlone, PTL
<1>4. Spec => Consumer!Spec
  BY <1>1, <1>3, ConsumerStep, PTL DEF Spec, Consumer!Spec
<1>5. QED
  BY <1>2, <1>4, OutboxAlone, ConsumerAlone, PTL
----------------------------------------------------------------------------
\* Only a publication counts as one.
LEMMA SendsKept ==
    ASSUME \/ \E h \in Handler : Consumer!Work(h) \/ Consumer!Fault(h)
           \/ Consumer!Expire \/ Consumer!Redrive
    PROVE  sends' = sends
<1> USE DEF Consumer!boundVars
<1>1. ASSUME NEW h \in Handler, Consumer!Work(h) PROVE sends' = sends
  BY <1>1 DEF Consumer!Work, Consumer!Receive, Consumer!LockMissing, Consumer!LockFinal,
     Consumer!LockPending, Consumer!GatewayAnswers, Consumer!Save, Consumer!Read, Consumer!Post,
     Consumer!Record, Consumer!Fail, Consumer!Route, Consumer!Ack, Consumer!Redeliver
<1>2. ASSUME NEW h \in Handler, Consumer!Fault(h) PROVE sends' = sends
  BY <1>2 DEF Consumer!Fault, Consumer!RouteFails, Consumer!Crash, Consumer!LoseChannel,
     Consumer!LoseDatabase
<1>3. CASE Consumer!Expire \/ Consumer!Redrive
  BY <1>3 DEF Consumer!Expire, Consumer!Redrive
<1>4. QED
  BY <1>1, <1>2, <1>3

\* How the three views of a payment hang together: the table of payments, the
\* outbox and what the broker was given.
Linked ==
    /\ payments \subseteq Request
    /\ \A id \in payments : outbox[id] # "absent"
    /\ \A id \in Request : sends[id] = sent[id]

LEMMA LinkedInit == Init => Linked
  BY DEF Init, API!Init, Outbox!Init, Consumer!Init, Consumer!Body, Linked

\* A publication counts on both sides of the broker.
LEMMA PublicationCounts ==
    ASSUME Outbox!TypeOK, Consumer!TypeOK, Linked, NEW r \in Relay,
           RelayPublishes(r) \/ RelayPublishesUnseen(r)
    PROVE  Linked'
<1>1. todo[r] # <<>> /\ outbox' = outbox /\ sent' = [sent EXCEPT ![Head(todo[r])] = @ + 1]
  BY DEF RelayPublishes, RelayPublishesUnseen, Outbox!PublishConfirmed, Outbox!PublishUnseen
<1>2. sends' = [sends EXCEPT ![Head(todo[r])] = @ + 1] /\ payments' = payments
  BY DEF RelayPublishes, RelayPublishesUnseen, Consumer!Publish, apiVars
<1>3. Head(todo[r]) \in Request
  BY <1>1, HeadIsRow
<1>4. sent \in [Request -> Nat] /\ sends \in [Request \cup {Malformed} -> Nat]
  BY DEF Outbox!TypeOK, Consumer!TypeOK, Consumer!Body
<1>5. ASSUME NEW id \in Request PROVE sends'[id] = sent'[id]
  BY <1>1, <1>2, <1>3, <1>4, <1>5 DEF Linked
<1>6. QED
  BY <1>1, <1>2, <1>5 DEF Linked

LEMMA LinkedStep == Outbox!TypeOK /\ Consumer!TypeOK /\ Linked /\ [Next]_vars => Linked'
<1> SUFFICES ASSUME Outbox!TypeOK, Consumer!TypeOK, Linked, [Next]_vars PROVE Linked'
  OBVIOUS
<1>1. ASSUME NEW q \in Request, CommitPayment(q) PROVE Linked'
  <2>1. payments' \subseteq payments \cup {q}
    BY <1>1 DEF CommitPayment, API!Commit
  <2>2. outbox' = [outbox EXCEPT ![q] = "pending"] /\ sent' = sent /\ sends' = sends
    BY <1>1 DEF CommitPayment, Outbox!Insert, Consumer!Insert, Consumer!boundVars
  <2>3. outbox \in [Request -> Outbox!OutboxStatus]
    BY DEF Outbox!TypeOK
  <2>4. QED
    BY <2>1, <2>2, <2>3 DEF Linked
<1>2. ASSUME NEW q \in Request, Api(q) \/ ApiEnvironment(q) \/ Get(q), ~ CommitPayment(q)
      PROVE  payments' = payments /\ outbox' = outbox /\ sent' = sent /\ sends' = sends
  BY <1>2 DEF Api, ApiEnvironment, Get, apiVars, relayVars, consumerVars, API!Found, API!NotFound,
     API!Insert, API!DuplicateKey, API!AddEvent, API!Arrive, API!Fail
<1>3. ASSUME NEW r \in Relay, RelayAlone(r) \/ RelayFault(r) PROVE Linked'
  <2>1. payments' = payments /\ sent' = sent /\ sends' = sends
    BY <1>3 DEF RelayAlone, RelayFault, apiVars, consumerVars, Outbox!Poll, Outbox!PublishRefused,
       Outbox!Commit, Outbox!CommitFails, Outbox!Crash, Outbox!LoseDatabase
  <2>2. \/ outbox' = outbox
        \/ outbox' = [e \in Request |-> IF e \in marks[r] THEN "published" ELSE outbox[e]]
    BY <1>3 DEF RelayAlone, RelayFault, Outbox!Poll, Outbox!PublishRefused,
       Outbox!Commit, Outbox!CommitFails, Outbox!Crash, Outbox!LoseDatabase
  <2>3. QED
    BY <2>1, <2>2 DEF Linked
<1>4. CASE (\E h \in Handler : Work(h) \/ Fault(h)) \/ Expire \/ Operator
  <2>1. payments' = payments /\ outbox' = outbox /\ sent' = sent
    BY <1>4 DEF Work, Fault, Expire, Operator, apiVars, relayVars
  <2>2. \A id \in Request : sends'[id] = sends[id]
    BY <1>4, SendsKept, SystemAssumption DEF Work, Fault, Expire, Operator, Consumer!Publish,
       Consumer!TypeOK, Consumer!Body
  <2>3. QED
    BY <2>1, <2>2 DEF Linked
<1>5. CASE UNCHANGED vars
  BY <1>5 DEF vars, apiVars, relayVars, consumerVars, Linked
<1>6. QED
  BY <1>1, <1>2, <1>3, <1>4, <1>5, PublicationCounts DEF Next, Iterate, Linked

LEMMA LinkedAlways == Spec => []Linked
  BY LinkedInit, LinkedStep, ComponentsInSystem, PTL DEF Spec

\* End to end, for any requests, relays, handlers and faults: what a client has
\* committed is pending in the outbox, or was published, and then the consumer
\* does not lose it.
THEOREM CommittedPaymentsAreNotLost == Spec => []PaymentNotLost
<1>1. Spec => []Linked
  BY LinkedAlways
<1>2. ASSUME Outbox!TypeOK, Outbox!PublishedWasSent, Consumer!NoLostWebhook, Linked
      PROVE  PaymentNotLost
  <2> SUFFICES ASSUME NEW id \in payments, outbox[id] # "pending"
               PROVE  accepted[id] \/ Consumer!InBroker(id) \/ Consumer!Carried(id)
    BY DEF PaymentNotLost
  <2>1. id \in Request /\ outbox[id] = "published"
    BY <1>2 DEF Linked, Outbox!TypeOK, Outbox!OutboxStatus
  <2>2. sends[id] > 0
    BY <1>2, <2>1 DEF Linked, Outbox!TypeOK, Outbox!PublishedWasSent
  <2>3. QED
    BY <1>2, <2>1, <2>2 DEF Consumer!NoLostWebhook
<1>3. QED
  BY <1>1, <1>2, ComponentsInSystem, PTL
----------------------------------------------------------------------------
\* What the proofs about the components know beyond their properties.
LEMMA ConsumerInside ==
    Spec => /\ [](Consumer!TypeInv /\ Consumer!SettlementInv) /\ []Consumer!Origin
<1>1. Consumer!ConsumerAssumption /\ Consumer!RetryAssumption
  BY SystemAssumption DEF Consumer!ConsumerAssumption, Consumer!RetryAssumption
<1>2. Consumer!Spec => [](Consumer!TypeInv /\ Consumer!SettlementInv)
  BY <1>1, Consumer!SettlementAlways
<1>3. Consumer!Spec => []Consumer!Origin
  BY <1>1, Consumer!MessagesWerePublished
<1>4. Init => Consumer!Init
  BY DEF Init
<1>5. Spec => Consumer!Spec
  BY <1>4, ConsumerStep, ComponentsInSystem, PTL DEF Spec, Consumer!Spec
<1>6. QED
  BY <1>2, <1>3, <1>5, PTL

LEMMA OutboxInside == Spec => []Outbox!RelayInv
<1>1. Outbox!RelayAssumption
  BY SystemAssumption DEF Outbox!RelayAssumption, IsFiniteSet, Outbox!IsFiniteSet
<1>2. Outbox!Spec => []Outbox!RelayInv
  BY <1>1, Outbox!RelayInvariant
<1>3. Init => Outbox!Init
  BY DEF Init
<1>4. QED
  BY <1>2, <1>3, OutboxStep, PTL DEF Spec, Outbox!Spec

\* Whatever is pending, selected or published stands for a committed payment.
InTable(id) == payment[id].status # "absent"

Backed ==
    /\ \A id \in payments : id \in Request /\ InTable(id)
    /\ \A id \in Request : outbox[id] = "pending" => InTable(id)
    /\ \A r \in Relay : \A id \in batch[r] : InTable(id)
    /\ \A id \in Request : sends[id] > 0 => InTable(id)

Known == Consumer!TypeInv /\ Consumer!SettlementInv /\ Outbox!RelayInv

\* A payment stays in its table.
LEMMA InTableKept ==
    ASSUME Known, [Next]_vars, NEW id \in Request, InTable(id)
    PROVE  InTable(id)'
<1>1. Consumer!ConsumerAssumption /\ Consumer!RetryAssumption
  BY SystemAssumption DEF Consumer!ConsumerAssumption, Consumer!RetryAssumption
<1>2. [Consumer!Next]_(Consumer!vars)
  BY ConsumerStep DEF Known, Outbox!RelayInv
<1>3. \/ payment'[id].status = payment[id].status
      \/ payment[id].status = "pending" /\ payment'[id].status \in Consumer!Final
      \/ payment[id].status = "absent" /\ payment'[id].status = "pending"
  BY <1>1, <1>2, Consumer!StatusStep DEF Known
<1>4. QED
  BY <1>3 DEF InTable, Consumer!Final

\* A relay selects pending rows only.
LEMMA BatchFromPending ==
    ASSUME Known, NEW r \in Relay, NEW e,
           Outbox!Iterate(r) \/ Outbox!PublishUnseen(r) \/ Outbox!Crash(r) \/ Outbox!LoseDatabase(r)
    PROVE  \A s \in Relay : e \in batch'[s] => e \in batch[s] \/ (e \in Request /\ outbox[e] = "pending")
<1> batch \in [Relay -> SUBSET Request]
  BY DEF Known, Outbox!RelayInv, Outbox!TypeOK
<1>1. CASE Outbox!Poll(r)
  <2>1. PICK b \in Outbox!Batches(Outbox!Selectable) :
          batch' = [batch EXCEPT ![r] = {b[i] : i \in DOMAIN b}]
    BY <1>1 DEF Outbox!Poll
  <2>2. \A i \in DOMAIN b : b[i] \in Outbox!Selectable
    BY <2>1 DEF Outbox!Batches
  <2>3. QED
    BY <2>1, <2>2 DEF Outbox!Selectable
<1>2. ASSUME Outbox!PublishConfirmed(r) \/ Outbox!PublishRefused(r) \/ Outbox!PublishUnseen(r)
             \/ Outbox!Commit(r) \/ Outbox!CommitFails(r) \/ Outbox!Crash(r) \/ Outbox!LoseDatabase(r)
      PROVE  batch' = batch \/ batch' = [batch EXCEPT ![r] = {}]
  BY <1>2 DEF Outbox!PublishConfirmed, Outbox!PublishRefused, Outbox!PublishUnseen, Outbox!Note,
     Outbox!EndIteration, Outbox!Commit, Outbox!CommitFails, Outbox!Crash, Outbox!LoseDatabase
<1>3. QED
  BY <1>1, <1>2 DEF Outbox!Iterate

LEMMA BackedStep == Known /\ Backed /\ [Next]_vars => Backed'
<1> SUFFICES ASSUME Known, Backed, [Next]_vars PROVE Backed'
  OBVIOUS
<1>1. \A id \in Request : InTable(id) => InTable(id)'
  BY InTableKept
<1>2. batch \in [Relay -> SUBSET Request] /\ outbox \in [Request -> Outbox!OutboxStatus]
      /\ sends \in [Request \cup {Malformed} -> Nat] /\ payment \in [Request -> Consumer!Row]
  BY DEF Known, Outbox!RelayInv, Outbox!TypeOK, Consumer!TypeInv, Consumer!TypeOK, Consumer!Body
<1>3. ASSUME NEW q \in Request, CommitPayment(q) PROVE Backed'
  <2>1. outbox' = [outbox EXCEPT ![q] = "pending"] /\ batch' = batch /\ sends' = sends
        /\ payments' \subseteq payments \cup {q}
        /\ payment' = [payment EXCEPT ![q] = Consumer!NewRow]
    BY <1>3 DEF CommitPayment, API!Commit, Outbox!Insert, Outbox!relayVars, Consumer!Insert, Consumer!boundVars
  <2>2. InTable(q)'
    BY <1>2, <2>1 DEF InTable, Consumer!NewRow, Consumer!NoRow
  <2>3. QED
    BY <1>1, <1>2, <2>1, <2>2 DEF Backed
<1>4. ASSUME NEW r \in Relay, Iterate(r) \/ RelayPublishesUnseen(r) \/ RelayFault(r) PROVE Backed'
  <2>1. Outbox!Iterate(r) \/ Outbox!PublishUnseen(r) \/ Outbox!Crash(r) \/ Outbox!LoseDatabase(r)
    BY <1>4 DEF Iterate, RelayPublishes, RelayAlone, RelayPublishesUnseen, RelayFault, Outbox!Iterate
  <2>2. \A s \in Relay : \A id \in batch'[s] : InTable(id)'
    BY <1>1, <1>2, <2>1, BatchFromPending DEF Backed
  <2>3. \A id \in Request : outbox'[id] = "pending" => outbox[id] = "pending"
    BY <2>1, <1>2 DEF Outbox!Iterate, Outbox!Poll, Outbox!PublishConfirmed, Outbox!PublishRefused,
       Outbox!PublishUnseen, Outbox!Commit, Outbox!CommitFails, Outbox!Crash, Outbox!LoseDatabase
  <2>4. \/ sends' = sends
        \/ todo[r] # <<>> /\ sends' = [sends EXCEPT ![Head(todo[r])] = @ + 1]
    BY <1>4 DEF Iterate, RelayPublishes, RelayAlone, RelayPublishesUnseen, RelayFault, consumerVars,
       Consumer!Publish, Outbox!PublishConfirmed, Outbox!PublishUnseen
  <2>5. todo[r] # <<>> => Head(todo[r]) \in batch[r]
    BY DEF Known, Outbox!RelayInv, Outbox!TypeOK, Outbox!BatchTrue
  <2>6. \A id \in Request : sends'[id] > 0 => sends[id] > 0 \/ id \in batch[r]
    BY <1>2, <2>4, <2>5
  <2>7. payments' = payments
    BY <1>4 DEF Iterate, RelayPublishes, RelayAlone, RelayPublishesUnseen, RelayFault, apiVars
  <2>8. QED
    BY <1>1, <2>2, <2>3, <2>6, <2>7 DEF Backed
<1>5. CASE \/ \E h \in Handler : Work(h) \/ Fault(h)
           \/ Expire \/ Operator
  <2>1. outbox' = outbox /\ batch' = batch /\ payments' = payments
    BY <1>5 DEF Work, Fault, Expire, Operator, relayVars, apiVars
  <2>2. \A id \in Request : sends'[id] = sends[id]
    BY <1>2, <1>5, SendsKept, SystemAssumption DEF Work, Fault, Expire, Operator, Consumer!Publish
  <2>3. QED
    BY <1>1, <1>2, <2>1, <2>2 DEF Backed
<1>6. ASSUME outbox' = outbox, batch' = batch, sends' = sends, payments' = payments PROVE Backed'
  BY <1>1, <1>2, <1>6 DEF Backed
<1>7. ASSUME NEW q \in Request, Api(q) \/ ApiEnvironment(q) \/ Get(q), ~ CommitPayment(q)
      PROVE  outbox' = outbox /\ batch' = batch /\ sends' = sends /\ payments' = payments
  BY <1>7 DEF Api, ApiEnvironment, Get, apiVars, relayVars, consumerVars, API!Found, API!NotFound,
     API!Insert, API!DuplicateKey, API!AddEvent, API!Arrive, API!Fail
<1>8. CASE UNCHANGED vars
  BY <1>6, <1>8 DEF vars, apiVars, relayVars, consumerVars
<1>9. QED
  BY <1>3, <1>4, <1>5, <1>6, <1>7, <1>8 DEF Next

\* What is known of the components, and Backed, in every reachable state.
LEMMA BackedAlways == Spec => []Known /\ []Backed
<1>1. Init => Backed
  BY DEF Init, API!Init, Outbox!Init, Consumer!Init, Consumer!Body, Backed
<1>2. Spec => []Known
  BY ConsumerInside, OutboxInside, PTL DEF Known
<1>3. QED
  BY <1>1, <1>2, BackedStep, PTL DEF Spec

\* For any requests, relays, handlers and faults, a handler that is given the
\* event of a payment finds the payment.
THEOREM EventsFindTheirPayments == Spec => []EventFindsPayment
<1>1. Backed /\ Consumer!Origin => EventFindsPayment
  BY DEF Backed, Consumer!Origin, Consumer!Pid, EventFindsPayment, InTable
<1>2. QED
  BY <1>1, BackedAlways, ConsumerInside, PTL
----------------------------------------------------------------------------
\* A step of the system is a step of the API, or the API stands still.
LEMMA ApiStep == [Next]_vars => [API!Next]_(API!vars)
<1> SUFFICES ASSUME [Next]_vars PROVE API!Next \/ UNCHANGED apiVars
  BY DEF apiVars, API!vars
<1>1. ASSUME NEW q \in Request, Api(q) \/ ApiEnvironment(q)
      PROVE  API!Arrive(q) \/ API!Serve(q) \/ API!Fail(q)
  BY <1>1 DEF Api, CommitPayment, ApiEnvironment, API!Serve
<1>2. ASSUME NEW r \in Relay, Iterate(r) \/ RelayPublishesUnseen(r) \/ RelayFault(r)
      PROVE  UNCHANGED apiVars
  BY <1>2 DEF Iterate, RelayPublishes, RelayAlone, RelayPublishesUnseen, RelayFault
<1>3. CASE \/ \E q \in Request : Get(q)
           \/ \E h \in Handler : Work(h) \/ Fault(h)
           \/ Expire \/ Operator
  BY <1>3 DEF Get, Work, Fault, Expire, Operator
<1>4. CASE UNCHANGED vars
  BY <1>4 DEF vars
<1>5. QED
  BY <1>1, <1>2, <1>3, <1>4 DEF Next, API!Next

LEMMA ApiInside == Spec => []API!IdempotencyInv
<1>1. Init => API!Init
  BY DEF Init
<1>2. API!Spec => []API!IdempotencyInv
  BY API!IdempotencyAlways
<1>3. QED
  BY <1>1, <1>2, ApiStep, PTL DEF Spec, API!Spec

Concluded == {"succeeded", "failed"}

\* A client that was given a payment was given a committed one, its request is
\* over, and a final status it was told is the one of the payment.
View(q) ==
    /\ Told(q) => stage[q] = "done" /\ reply[q].id \in payments /\ seen[q] # "unknown"
    /\ ~ Told(q) => seen[q] = "unknown"
    /\ seen[q] \in Concluded => payment[reply[q].id].status = seen[q]

SeenTyped == seen \in [Request -> {"unknown", "pending"} \cup Concluded]
SeenTrue == SeenTyped /\ \A q \in Request : View(q)

ReadsKept(q) ==
    /\ seen'[q] # "absent"
    /\ seen[q] \in Concluded => seen'[q] = seen[q]

\* A client's view after a step that leaves its answer alone, and in which it
\* learns nothing or the status of its payment.
LEMMA ViewStep ==
    ASSUME Known, Backed, SeenTrue, [Next]_vars, NEW q \in Request,
           reply'[q] = reply[q], payments \subseteq payments', stage[q] = "done" => stage'[q] = "done",
           seen'[q] = seen[q] \/ (Told(q) /\ seen'[q] = payment'[reply[q].id].status)
    PROVE  View(q)' /\ ReadsKept(q) /\ seen'[q] \in {"unknown", "pending"} \cup Concluded
<1>1. Told(q)' <=> Told(q)
  BY DEF Told
<1>2. CASE ~ Told(q)
  BY <1>1, <1>2 DEF SeenTrue, SeenTyped, View, Concluded, ReadsKept
<1>3. CASE Told(q)
  <2>1. reply[q].id \in payments /\ reply[q].id \in Request /\ InTable(reply[q].id)
    BY <1>3 DEF SeenTrue, View, Backed
  <2>2. PICK id \in Request : id = reply[q].id
    BY <2>1
  <2>3. Consumer!ConsumerAssumption /\ Consumer!RetryAssumption
    BY SystemAssumption DEF Consumer!ConsumerAssumption, Consumer!RetryAssumption
  <2>4. [Consumer!Next]_(Consumer!vars)
    BY ConsumerStep DEF Known, Outbox!RelayInv
  <2>5. \/ payment'[id].status = payment[id].status
        \/ payment[id].status = "pending" /\ payment'[id].status \in Consumer!Final
        \/ payment[id].status = "absent" /\ payment'[id].status = "pending"
    BY <2>3, <2>4, Consumer!StatusStep DEF Known
  <2>6. payment[id].status \in {"pending"} \cup Concluded
    BY <2>1, <2>2 DEF Known, Consumer!TypeInv, Consumer!TypeOK, Consumer!Row, Consumer!Status,
       Consumer!Final, InTable, Concluded
  <2>7. payment'[id].status \in {"pending"} \cup Concluded
        /\ (payment[id].status \in Concluded => payment'[id].status = payment[id].status)
    BY <2>5, <2>6 DEF Consumer!Final, Concluded
  <2>8. QED
    BY <1>1, <1>3, <2>1, <2>2, <2>7 DEF SeenTrue, SeenTyped, View, Concluded, ReadsKept
<1>4. QED
  BY <1>2, <1>3

\* The client is answered now: it was told nothing before.
LEMMA AnswerStep ==
    ASSUME Known, Backed, SeenTrue, API!IdempotencyInv, [Next]_vars,
           NEW q \in Request, CommitPayment(q) \/ (API!Found(q) /\ UNCHANGED consumerVars /\ Tell(q))
    PROVE  View(q)' /\ ReadsKept(q) /\ seen'[q] \in {"unknown", "pending"} \cup Concluded
<1>1. ~ Told(q) /\ seen[q] = "unknown" /\ stage'[q] = "done"
  BY DEF CommitPayment, API!Commit, API!Found, API!Answer, API!Goto, SeenTrue, View,
     API!IdempotencyInv, API!KeyInv, API!TypeOK
<1>2. seen'[q] = IF reply'[q].status = "accepted" THEN payment'[reply'[q].id].status ELSE seen[q]
  BY DEF CommitPayment, Tell, SeenTrue, SeenTyped
<1>3. reply \in [Request -> API!Reply]
  BY DEF API!IdempotencyInv, API!KeyInv, API!TypeOK
<1>4. ASSUME reply'[q].status = "accepted"
      PROVE  /\ reply'[q].id \in payments'
             /\ payment'[reply'[q].id].status \in {"pending"} \cup Concluded
  <2>1. CASE CommitPayment(q)
    <3>1. reply'[q] = API!Accepted(q) \/ reply'[q] = API!Failed
      BY <1>3, <2>1 DEF CommitPayment, API!Commit, API!Answer
    <3>2. reply'[q].id = q
      BY <1>4, <3>1 DEF API!Accepted, API!Failed
    <3>3. q \in payments'
      BY <2>1 DEF CommitPayment, API!Commit, API!IdempotencyInv, API!KeyInv, API!PendingByStage
    <3>4. payment' = [payment EXCEPT ![q] = Consumer!NewRow] /\ payment \in [Request -> Consumer!Row]
      BY <2>1 DEF CommitPayment, Consumer!Insert, Known, Consumer!TypeInv, Consumer!TypeOK
    <3>5. QED
      BY <3>2, <3>3, <3>4 DEF Consumer!NewRow, Consumer!NoRow
  <2>2. CASE API!Found(q) /\ UNCHANGED consumerVars
    <3>1. PICK id \in payments : asked[id].key = asked[q].key /\ API!Answer(q, API!Resolve(q, id))
      BY <2>2 DEF API!Found, API!Existing
    <3>2. reply'[q] = API!Accepted(id) \/ reply'[q] = API!Conflict
      BY <1>3, <3>1 DEF API!Answer, API!Resolve
    <3>3. reply'[q].id = id
      BY <1>4, <3>2 DEF API!Accepted, API!Conflict
    <3>4. payments' = payments /\ payment' = payment
      BY <2>2 DEF API!Found, consumerVars
    <3>5. id \in Request /\ InTable(id)
      BY <3>1 DEF Backed
    <3>6. payment[id].status \in {"pending"} \cup Concluded
      BY <3>5 DEF Known, Consumer!TypeInv, Consumer!TypeOK, Consumer!Row, Consumer!Status,
         Consumer!Final, InTable, Concluded
    <3>7. QED
      BY <3>3, <3>4, <3>6
  <2>3. QED
    BY <2>1, <2>2
<1>5. QED
  BY <1>1, <1>2, <1>4 DEF SeenTrue, SeenTyped, View, ReadsKept, Told, Concluded

\* Every step leaves what the clients were told true, and takes nothing back.
LEMMA SeenStep ==
    Known /\ Backed /\ SeenTrue /\ API!IdempotencyInv /\ [Next]_vars =>
        SeenTrue' /\ \A q \in Request : ReadsKept(q)
<1> SUFFICES ASSUME Known, Backed, SeenTrue, API!IdempotencyInv, [Next]_vars
             PROVE  SeenTrue' /\ \A q \in Request : ReadsKept(q)
  OBVIOUS
<1> DEFINE Views == {"unknown", "pending"} \cup Concluded
           Good(q) == View(q)' /\ ReadsKept(q) /\ seen'[q] \in Views
           Same(q) == /\ reply'[q] = reply[q] /\ (stage[q] = "done" => stage'[q] = "done")
                      /\ seen'[q] = seen[q] \/ (Told(q) /\ seen'[q] = payment'[reply[q].id].status)
<1>1. reply \in [Request -> API!Reply] /\ stage \in [Request -> API!Stage] /\ seen \in [Request -> Views]
      /\ payments \subseteq payments'
  <2>1. [API!Next]_(API!vars)
    BY ApiStep
  <2>2. payments \subseteq payments'
    BY <2>1 DEF API!Next, API!Serve, API!vars, API!Found, API!NotFound, API!Insert, API!DuplicateKey,
       API!AddEvent, API!Commit, API!Arrive, API!Fail
  <2>3. QED
    BY <2>2 DEF API!IdempotencyInv, API!KeyInv, API!TypeOK, SeenTrue, SeenTyped
<1>2. ASSUME NEW s \in Request, Same(s) PROVE Good(s)
  BY <1>1, <1>2, ViewStep
<1>3. ASSUME NEW q \in Request, NEW x, seen' = [seen EXCEPT ![q] = x],
             \A s \in Request \ {q} : Same(s), Same(q) \/ Good(q)
      PROVE  SeenTrue' /\ \A s \in Request : ReadsKept(s)
  <2>1. \A s \in Request : Good(s)
    BY <1>2, <1>3
  <2>2. SeenTyped'
    BY <1>1, <1>3, <2>1 DEF SeenTyped
  <2>3. QED
    BY <2>1, <2>2 DEF SeenTrue
<1>4. ASSUME NEW q \in Request, CommitPayment(q) \/ (API!Found(q) /\ UNCHANGED consumerVars /\ Tell(q))
      PROVE  SeenTrue' /\ \A s \in Request : ReadsKept(s)
  <2>1. Good(q)
    BY <1>4, AnswerStep
  <2>2. PICK x : seen' = [seen EXCEPT ![q] = x]
    BY <1>4 DEF CommitPayment, Tell
  <2>3. \A s \in Request \ {q} : reply'[s] = reply[s] /\ stage'[s] = stage[s]
    BY <1>1, <1>4 DEF CommitPayment, API!Commit, API!Found, API!Answer, API!Goto
  <2>4. \A s \in Request \ {q} : Same(s)
    BY <1>1, <2>2, <2>3
  <2>5. QED
    BY <1>3, <2>1, <2>2, <2>4
<1>5. ASSUME NEW q \in Request, Tell(q),
             API!NotFound(q) \/ API!Insert(q) \/ API!DuplicateKey(q) \/ API!AddEvent(q)
      PROVE  SeenTrue' /\ \A s \in Request : ReadsKept(s)
  <2>1. PICK x : seen' = [seen EXCEPT ![q] = x]
    BY <1>5 DEF Tell
  <2>2. \A s \in Request : reply'[s] = reply[s] /\ (stage[s] = "done" => stage'[s] = "done")
    BY <1>1, <1>5 DEF API!NotFound, API!Insert, API!DuplicateKey, API!AddEvent, API!Goto
  <2>3. \A s \in Request : Same(s)
    BY <1>1, <1>5, <2>1, <2>2 DEF Tell, Told
  <2>4. QED
    BY <1>3, <2>1, <2>3
<1>6. ASSUME NEW q \in Request, API!Fail(q), seen' = seen
      PROVE  SeenTrue' /\ \A s \in Request : ReadsKept(s)
  <2>1. seen' = [seen EXCEPT ![q] = seen[q]]
    BY <1>1, <1>6
  <2>2. \A s \in Request \ {q} : Same(s)
    BY <1>1, <1>6 DEF API!Fail, API!Answer, API!Goto
  <2>3. ~ Told(q) /\ seen[q] = "unknown"
    BY <1>1, <1>6 DEF API!Fail, SeenTrue, View
  <2>4. reply'[q].status # "accepted"
    BY <1>1, <1>6 DEF API!Fail, API!Answer, API!Failed, API!NoReply
  <2>5. Good(q)
    BY <1>6, <2>3, <2>4 DEF View, ReadsKept, Told, Concluded
  <2>6. QED
    BY <1>3, <2>1, <2>2, <2>5
<1>7. ASSUME NEW q \in Request, Get(q)
      PROVE  SeenTrue' /\ \A s \in Request : ReadsKept(s)
  <2>1. PICK x : seen' = [seen EXCEPT ![q] = x]
    BY <1>7 DEF Get
  <2>2. \A s \in Request : Same(s)
    BY <1>1, <1>7 DEF Get, apiVars, consumerVars
  <2>3. QED
    BY <1>3, <2>1, <2>2
<1>8. ASSUME reply' = reply, \A s \in Request : stage[s] = "done" => stage'[s] = "done", seen' = seen
      PROVE  SeenTrue' /\ \A s \in Request : ReadsKept(s)
  <2>1. \A s \in Request : Good(s)
    BY <1>2, <1>8
  <2>2. SeenTyped'
    BY <1>1, <1>8 DEF SeenTyped
  <2>3. QED
    BY <2>1, <2>2 DEF SeenTrue
<1>9. ASSUME NEW q \in Request, Api(q) \/ ApiEnvironment(q)
      PROVE  SeenTrue' /\ \A s \in Request : ReadsKept(s)
  <2>1. CASE API!Arrive(q) /\ UNCHANGED seen
    <3>1. \A s \in Request : stage[s] = "done" => stage'[s] = "done"
      BY <1>1, <2>1 DEF API!Arrive, API!Goto
    <3>2. QED
      BY <1>8, <2>1, <3>1 DEF API!Arrive
  <2>2. QED
    BY <1>4, <1>5, <1>6, <1>9, <2>1 DEF Api, ApiEnvironment
<1>10. ASSUME UNCHANGED apiVars, UNCHANGED seen
      PROVE  SeenTrue' /\ \A s \in Request : ReadsKept(s)
  BY <1>8, <1>10 DEF apiVars
<1>11. ASSUME NEW r \in Relay, Iterate(r) \/ RelayPublishesUnseen(r) \/ RelayFault(r)
      PROVE  UNCHANGED apiVars /\ UNCHANGED seen
  BY <1>11 DEF Iterate, RelayPublishes, RelayAlone, RelayPublishesUnseen, RelayFault
<1>12. CASE (\E h \in Handler : Work(h) \/ Fault(h)) \/ Expire \/ Operator
  BY <1>10, <1>12 DEF Work, Fault, Expire, Operator
<1>13. CASE UNCHANGED vars
  BY <1>10, <1>13 DEF vars
<1>14. QED
  BY <1>7, <1>9, <1>10, <1>11, <1>12, <1>13 DEF Next

LEMMA SeenAlways == Spec => []SeenTrue
<1>1. Init => SeenTrue
  BY DEF Init, API!Init, API!NoReply, SeenTrue, SeenTyped, View, Told, Concluded
<1>2. QED
  BY <1>1, SeenStep, BackedAlways, ApiInside, PTL DEF Spec

\* What clients read never goes back, for any number of clients that share a
\* payment, relays, handlers and faults.
THEOREM ReadsAreMonotone == Spec => ReadsMonotone
<1>1. Known /\ Backed /\ SeenTrue /\ API!IdempotencyInv /\ [Next]_vars =>
        [\A q \in Request :
            /\ seen'[q] # "absent"
            /\ seen[q] \in {"succeeded", "failed"} => seen'[q] = seen[q]]_vars
  BY SeenStep DEF ReadsKept, Concluded
<1>2. QED
  BY <1>1, SeenAlways, BackedAlways, ApiInside, PTL DEF Spec, ReadsMonotone

\* All clients of a payment and its webhook receiver are told one final status.
THEOREM ObservationsAlwaysAgree == Spec => []ObservationsAgree
<1>1. Spec => []Consumer!WebhookTruthful
  BY ConsumerInside, PTL DEF Consumer!SettlementInv
<1>2. ASSUME Backed, SeenTrue, Consumer!WebhookTruthful, NEW q \in Request, Told(q), seen[q] \in Concluded
      PROVE  /\ posted[reply[q].id] \subseteq {seen[q]}
             /\ \A s \in Request : Told(s) /\ reply[s] = reply[q] => seen[s] \in {"pending", seen[q]}
  <2>1. reply[q].id \in Request /\ payment[reply[q].id].status = seen[q]
    BY <1>2 DEF SeenTrue, View, Backed
  <2>2. posted[reply[q].id] \subseteq {seen[q]}
    BY <1>2, <2>1 DEF Consumer!WebhookTruthful
  <2>3. ASSUME NEW s \in Request, Told(s), reply[s] = reply[q]
        PROVE  seen[s] \in {"pending", seen[q]}
    BY <1>2, <2>1, <2>3 DEF SeenTrue, SeenTyped, View
  <2>4. QED
    BY <2>2, <2>3
<1>3. Backed /\ SeenTrue /\ Consumer!WebhookTruthful => ObservationsAgree
  BY <1>2 DEF ObservationsAgree, Concluded
<1>4. QED
  BY <1>1, <1>3, SeenAlways, BackedAlways, PTL
----------------------------------------------------------------------------
\* What is proved of the consumer alone holds in the system.
LEMMA ConsumerInSystem == Spec => Consumer!Spec
<1>1. Init => Consumer!Init
  BY DEF Init
<1>2. QED
  BY <1>1, ConsumerStep, ComponentsInSystem, PTL DEF Spec, Consumer!Spec

\* Where messages are handled one at a time, no duplicate of the relay, no
\* redelivery and no redrive makes a recorded delivery be sent again.
THEOREM RecordedDeliveriesAreNotResent ==
    ASSUME \A g, h \in Handler : g = h
    PROVE  Spec => RecordedDeliveryNotResent
<1>1. Consumer!ConsumerAssumption /\ Consumer!RetryAssumption
  BY SystemAssumption DEF Consumer!ConsumerAssumption, Consumer!RetryAssumption
<1>2. Consumer!Spec => Consumer!RecordedDeliveryNotResent
  BY <1>1, Consumer!OneHandlerNeverResends
<1>3. QED
  BY <1>2, ConsumerInSystem DEF RecordedDeliveryNotResent

\* The system keeps what each component promises: to its clients it is one store
\* of keys, to the broker one publisher, to the receivers one settlement per
\* payment, whatever its processes do to each other.
THEOREM SystemKeepsThePromises ==
    Spec => /\ API!StoreImplemented
            /\ Outbox!PublicationImplemented
            /\ Consumer!SettlementImplemented
<1>1. Consumer!ConsumerAssumption /\ Consumer!RetryAssumption
  BY SystemAssumption DEF Consumer!ConsumerAssumption, Consumer!RetryAssumption
<1>2. Outbox!RelayAssumption
  BY SystemAssumption DEF Outbox!RelayAssumption, IsFiniteSet, Outbox!IsFiniteSet
<1>3. Init => API!Init /\ Outbox!Init
  BY DEF Init
<1>4. Spec => API!StoreImplemented
  <2>1. API!Spec => API!StoreImplemented
    BY API!CreationIsLinearizable
  <2>2. QED
    BY <1>3, <2>1, ApiStep, PTL DEF Spec, API!Spec
<1>5. Spec => Outbox!PublicationImplemented
  <2>1. Outbox!Spec => Outbox!PublicationImplemented
    BY <1>2, Outbox!RelaysImplementPublication
  <2>2. QED
    BY <1>3, <2>1, OutboxStep, PTL DEF Spec, Outbox!Spec
<1>6. Spec => Consumer!SettlementImplemented
  <2>1. Consumer!Spec => Consumer!SettlementImplemented
    BY <1>1, Consumer!ConsumerImplementsSettlement
  <2>2. QED
    BY <2>1, ConsumerInSystem
<1>7. QED
  BY <1>4, <1>5, <1>6

LEMMA MoreBuysMore ==
    ASSUME NEW m \in Nat, NEW a \in Nat, NEW b \in Nat, a <= b
    PROVE  m * a <= m * b
<1>1. PICK d \in Nat : b = a + d
  <2>1. b - a \in Nat /\ b = a + (b - a)
    OBVIOUS
  <2>2. QED
    BY <2>1
<1>2. m * (a + d) = m * a + m * d
  OBVIOUS
<1>3. m * a \in Nat /\ m * d \in Nat
  OBVIOUS
<1>4. QED
  BY <1>1, <1>2, <1>3

\* The relay's duplicates and the consumer's retries together: what any payment
\* costs in calls of the gateway and failed webhooks, for any numbers of clients,
\* relays, handlers and faults.
THEOREM WorkIsPaidFor == Spec => []WorkIsPaid
<1>1. Consumer!ConsumerAssumption /\ Consumer!RetryAssumption
  BY SystemAssumption DEF Consumer!ConsumerAssumption, Consumer!RetryAssumption
<1>2. Outbox!RelayAssumption
  BY SystemAssumption DEF Outbox!RelayAssumption, IsFiniteSet, Outbox!IsFiniteSet
<1>3. Spec => []Consumer!RetriesBounded
  <2>1. Consumer!Spec => []Consumer!RetriesBounded
    BY <1>1, Consumer!RetriesAreBounded
  <2>2. QED
    BY <2>1, ConsumerInSystem
<1>4. Spec => []Outbox!DuplicatesArePaid
  <2>1. Outbox!Spec => []Outbox!DuplicatesArePaid
    BY <1>2, Outbox!DuplicatesArePaidFor
  <2>2. Init => Outbox!Init
    BY DEF Init
  <2>3. QED
    BY <2>1, <2>2, OutboxStep, PTL DEF Spec, Outbox!Spec
<1>5. ASSUME Outbox!TypeOK, Consumer!TypeOK, Linked, Consumer!RetriesBounded, Outbox!DuplicatesArePaid
      PROVE  WorkIsPaid
  <2> SUFFICES ASSUME NEW id \in Request
               PROVE  /\ charged[id] <= MaxAttempts * (1 + relayFaults + redrives + faults)
                      /\ payment[id].attempts <= MaxAttempts * (1 + relayFaults + redrives + faults)
    BY DEF WorkIsPaid
  <2> DEFINE spent == sends[id] + redrives + faults
             granted == 1 + relayFaults + redrives + faults
  <2>1. spent \in Nat /\ granted \in Nat /\ spent <= granted
    <3>1. sends[id] \in Nat /\ redrives \in Nat /\ faults \in Nat /\ relayFaults \in Nat
      BY <1>5, SystemAssumption DEF Consumer!TypeOK, Consumer!Body, Outbox!TypeOK
    <3>2. sends[id] <= 1 + relayFaults
      BY <1>5 DEF Linked, Outbox!DuplicatesArePaid
    <3>3. QED
      BY <3>1, <3>2
  <2>2. charged[id] <= MaxAttempts * spent /\ payment[id].attempts <= MaxAttempts * spent
    BY <1>5 DEF Consumer!RetriesBounded
  <2>3. charged[id] \in Nat /\ payment[id].attempts \in Nat /\ MaxAttempts \in Nat
    BY <1>5, SystemAssumption DEF Consumer!TypeOK, Consumer!Row
  <2> HIDE DEF spent, granted
  <2>4. MaxAttempts * spent <= MaxAttempts * granted
    BY <2>1, <2>3, MoreBuysMore
  <2>5. MaxAttempts * spent \in Nat /\ MaxAttempts * granted \in Nat
    BY <2>1, <2>3
  <2>6. charged[id] <= MaxAttempts * granted /\ payment[id].attempts <= MaxAttempts * granted
    BY <2>2, <2>3, <2>4, <2>5
  <2>7. QED
    BY <2>6 DEF granted
<1>6. QED
  BY <1>3, <1>4, <1>5, LinkedAlways, ComponentsInSystem, PTL
============================================================================
