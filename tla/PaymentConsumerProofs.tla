----------------------- MODULE PaymentConsumerProofs -----------------------
(***************************************************************************)
(* Theorems about PaymentConsumer, for every set of payments, handlers and *)
(* status codes, every MaxAttempts and every bound.                        *)
(***************************************************************************)
EXTENDS PaymentConsumer, TLAPS

\* What a handler's fields hold at each stage, as far as the types need it.
StageTyped ==
    \A h \in Handler :
        /\ pc[h] \in {"lock", "gateway", "save", "read", "post", "record"} => Pid(h) \in PaymentId
        /\ pc[h] = "save" => result[h] \in Final

TypeInv == TypeOK /\ StageTyped
----------------------------------------------------------------------------
(* The helpers the model is built from.                                    *)

\* Putting a message into a queue adds it and removes nothing.
LEMMA PutAdds ==
    ASSUME NEW bag \in [Message -> Nat], NEW m \in Message
    PROVE  /\ Put(bag, m) \in [Message -> Nat]
           /\ Put(bag, m)[m] > 0
           /\ \A n \in Message : bag[n] > 0 => Put(bag, m)[n] > 0
  BY DEF Put

\* Taking a copy of a message leaves all other messages where they are.
LEMMA TakeRemovesOne ==
    ASSUME NEW bag \in [Message -> Nat], NEW m \in Message, bag[m] > 0
    PROVE  /\ Take(bag, m) \in [Message -> Nat]
           /\ \A n \in Message \ {m} : Take(bag, m)[n] = bag[n]
  BY DEF Take

\* The policy and the topology agree: an attempt the policy allows has a
\* declared delay queue, and its number is a header the broker may carry.
LEMMA RetryHasQueue ==
    ASSUME NEW header \in Header, MayRetry(ParseAttempt(header))
    PROVE  /\ NextAttempt(ParseAttempt(header)) \in RetryQueues
           /\ NextAttempt(ParseAttempt(header)) \in Header
  BY RetryAssumption DEF Header, MayRetry, ParseAttempt, AtLeastOne, NextAttempt, RetryQueues

\* The attempt number of a dead letter is in range.
LEMMA CapInRange ==
    ASSUME NEW header \in Header
    PROVE  CappedAttempt(ParseAttempt(header)) \in 1 .. MaxAttempts
  BY RetryAssumption DEF Header, ParseAttempt, AtLeastOne, CappedAttempt

\* A row the model writes is a row.
LEMMA RowsTyped ==
    /\ NoRow \in Row /\ NewRow \in Row
    /\ \A row \in Row, s \in Final : Transition(row, s) \in Row
    /\ \A row \in Row : MarkDelivered(row) \in Row /\ MarkDeliveryFailed(row) \in Row
<1>1. NoRow \in Row /\ NewRow \in Row
  BY DEF Row, Status, NoRow, NewRow
<1>2. ASSUME NEW row \in Row, NEW s \in Final
      PROVE  Transition(row, s) \in Row
  BY DEF Row, Status, Transition
<1>3. ASSUME NEW row \in Row
      PROVE  MarkDelivered(row) \in Row /\ MarkDeliveryFailed(row) \in Row
  <2>1. row.attempts + 1 \in Nat
    BY DEF Row
  <2>2. MarkDelivered(row) \in Row
    BY Zenon DEF Row, MarkDelivered
  <2>3. MarkDeliveryFailed(row) \in Row
    BY <2>1, Zenon DEF Row, MarkDeliveryFailed
  <2>4. QED
    BY <2>2, <2>3
<1>4. QED
  BY <1>1, <1>2, <1>3

\* The placeholder of an idle handler is a message.
LEMMA NoMessageTyped == NoMessage \in Message
  BY RetryAssumption DEF NoMessage, Message, Body, Header

\* What a handler publishes is a message of the broker, put into one queue.
LEMMA PublishesOne ==
    ASSUME TypeInv, NEW h \in Handler, PublishFate(h)
    PROVE  \E m \in Message :
             /\ m.body = Pid(h)
             /\ queue' = queue
             /\ retry' \in [Message -> Nat] /\ dlq' \in [Message -> Nat]
             /\ \/ retry' = Put(retry, m) /\ dlq' = dlq
                \/ retry' = retry /\ dlq' = Put(dlq, m)
<1> DEFINE header == held[h].header
           next == [body |-> Pid(h), header |-> NextAttempt(Attempt(h))]
           dead == [body |-> Pid(h), header |-> CappedAttempt(Attempt(h))]
<1>1. header \in Header /\ Pid(h) \in Body
  BY DEF TypeInv, TypeOK, Message, Pid
<1>2. dead \in Message
  BY <1>1, CapInRange DEF Message, Attempt, Header
<1>3. ASSUME PublishDlq(h)
      PROVE  queue' = queue /\ retry' = retry /\ dlq' = Put(dlq, dead)
  BY <1>3 DEF PublishDlq
<1>4. ASSUME MayRetry(Attempt(h)), PublishRetry(h)
      PROVE  next \in Message /\ queue' = queue /\ retry' = Put(retry, next) /\ dlq' = dlq
  <2>1. NextAttempt(Attempt(h)) \in RetryQueues /\ NextAttempt(Attempt(h)) \in Header
    BY <1>1, <1>4, RetryHasQueue DEF Attempt
  <2>2. QED
    BY <2>1, <1>1, <1>4 DEF PublishRetry, Message
<1> retry \in [Message -> Nat] /\ dlq \in [Message -> Nat]
  BY DEF TypeInv, TypeOK
<1>5. CASE PublishDlq(h)
  BY <1>2, <1>3, <1>5, PutAdds
<1>6. CASE MayRetry(Attempt(h)) /\ PublishRetry(h)
  BY <1>4, <1>6, PutAdds
<1>7. QED
  BY <1>5, <1>6 DEF PublishFate, RetryOrDlq

\* Taking back an unacknowledged message keeps the queue a queue.
LEMMA RequeueTyped ==
    ASSUME TypeInv, NEW h \in Handler, Requeue(h)
    PROVE  /\ queue' \in [Message -> Nat]
           /\ \A m \in Message : queue[m] > 0 => queue'[m] > 0
           /\ owned[h] => queue'[held[h]] > 0
  BY PutAdds DEF TypeInv, TypeOK, Requeue
----------------------------------------------------------------------------
(* Types.                                                                  *)

\* The first layer: types, in the initial states.
LEMMA TypeInit == Init => TypeInv
<1> SUFFICES ASSUME Init PROVE TypeInv
  OBVIOUS
<1>1. payment \in [PaymentId -> Row] /\ copy \in [Handler -> Row]
  BY RowsTyped DEF Init
<1>2. EmptyBag \in [Message -> Nat]
  BY DEF EmptyBag
<1>3. pc \in [Handler -> Stage] /\ held \in [Handler -> Message] /\ result \in [Handler -> Result]
  BY NoMessageTyped DEF Init, Stage, Result
<1>4. posted \in [PaymentId -> SUBSET Status]
  BY DEF Init
<1>5. /\ owned \in [Handler -> BOOLEAN] /\ inTx \in [Handler -> BOOLEAN]
      /\ accepted \in [PaymentId -> BOOLEAN] /\ recorded \in [PaymentId -> BOOLEAN]
      /\ charged \in [PaymentId -> Nat]
  BY DEF Init
<1>6. /\ sends \in [Body -> Nat]
      /\ redrives \in 0 .. MaxRedrives /\ faults \in 0 .. MaxFaults
  BY ConsumerAssumption DEF Init
<1>7. TypeOK
  BY <1>1, <1>2, <1>3, <1>4, <1>5, <1>6 DEF Init, TypeOK
<1>8. QED
  BY <1>7 DEF TypeInv, StageTyped, Init

\* The steps of a handler keep the types.
LEMMA TypeWork ==
    ASSUME TypeInv, NEW h \in Handler, Work(h) \/ Fault(h)
    PROVE  TypeInv'
<1> USE DEF TypeInv, TypeOK, StageTyped, Stage, Goto, Pid
<1>1. CASE Receive(h)
  <2>1. PICK m \in Message :
          /\ queue[m] > 0 /\ queue' = Take(queue, m)
          /\ held' = [held EXCEPT ![h] = m]
          /\ pc' = [pc EXCEPT ![h] = IF m.body = Malformed THEN "dlq" ELSE "lock"]
    BY <1>1 DEF Receive
  <2>2. m.body \in PaymentId \cup {Malformed}
    BY DEF Message, Body
  <2>3. queue' \in [Message -> Nat]
    BY <2>1, TakeRemovesOne
  <2>4. QED
    BY <1>1, <2>1, <2>2, <2>3 DEF Receive, boundVars, historyVars
<1>2. CASE LockMissing(h)
  BY <1>2 DEF LockMissing, brokerVars, boundVars, historyVars
<1>3. CASE LockFinal(h)
  BY <1>3 DEF LockFinal, AfterSettlement, brokerVars, boundVars, historyVars
<1>4. CASE LockPending(h)
  BY <1>4 DEF LockPending, OpenTx, brokerVars, boundVars, historyVars
<1>5. CASE GatewayAnswers(h)
  BY <1>5 DEF GatewayAnswers, Result, brokerVars, boundVars, historyVars
<1>6. CASE Save(h)
  <2>1. Transition(copy[h], result[h]) \in Row
    BY <1>6, RowsTyped DEF Save
  <2>2. QED
    BY <1>6, <2>1, RowsTyped
       DEF Save, AfterSettlement, CloseTx, Result, brokerVars, boundVars, historyVars
<1>7. CASE Read(h)
  <2>1. /\ pc' = [pc EXCEPT ![h] = "ack"] \/ pc' = [pc EXCEPT ![h] = "post"]
        /\ \/ copy' = copy /\ inTx' = inTx
           \/ /\ copy' = [copy EXCEPT ![h] = payment[Pid(h)]]
              /\ inTx' = [inTx EXCEPT ![h] = TRUE]
        /\ Pid(h) \in PaymentId
        /\ UNCHANGED <<payment, brokerVars, held, owned, result, boundVars, historyVars>>
    BY <1>7 DEF Read, OpenTx
  <2>2. copy' \in [Handler -> Row] /\ inTx' \in [Handler -> BOOLEAN]
    BY <2>1
  <2>3. QED
    BY <1>7, <2>1, <2>2 DEF Read, brokerVars, boundVars, historyVars
<1>8. CASE Post(h)
  BY <1>8 DEF Post, PostResult, ClassifyWebhookStatus, Result, Row, brokerVars, boundVars
<1>9. CASE Record(h)
  <2>1. RecordedRow(h) \in Row
    BY RowsTyped DEF RecordedRow
  <2>2. QED
    BY <1>9, <2>1, RowsTyped
       DEF Record, AfterDelivery, CloseTx, Result, brokerVars, boundVars
<1>10. CASE Fail(h)
  BY <1>10, RowsTyped DEF Fail, CloseTx, Result, brokerVars, boundVars, historyVars
<1>11. CASE Route(h)
  <2>1. queue' = queue /\ retry' \in [Message -> Nat] /\ dlq' \in [Message -> Nat]
    BY <1>11, PublishesOne DEF Route
  <2>2. QED
    BY <1>11, <2>1 DEF Route, boundVars, historyVars
<1>12. CASE Ack(h)
  BY <1>12, RowsTyped, NoMessageTyped
     DEF Ack, Leave, CloseTx, Result, brokerVars, boundVars, historyVars
<1>13. CASE Redeliver(h)
  <2>1. queue' \in [Message -> Nat]
    BY <1>13, RequeueTyped DEF Redeliver
  <2>2. QED
    BY <1>13, <2>1, RowsTyped, NoMessageTyped
       DEF Redeliver, Leave, CloseTx, Result, boundVars, historyVars
<1>14. CASE RouteFails(h)
  <2>1. queue' = queue /\ retry' \in [Message -> Nat] /\ dlq' \in [Message -> Nat]
    BY <1>14, PublishesOne DEF RouteFails, brokerVars
  <2>2. QED
    BY <1>14, <2>1, ConsumerAssumption DEF RouteFails, historyVars
<1>15. CASE Crash(h)
  <2>1. queue' \in [Message -> Nat]
    BY <1>15, RequeueTyped DEF Crash
  <2>2. QED
    BY <1>15, <2>1, RowsTyped, NoMessageTyped, ConsumerAssumption
       DEF Crash, Leave, CloseTx, Result, historyVars
<1>16. CASE LoseChannel(h)
  BY <1>16, RequeueTyped, ConsumerAssumption DEF LoseChannel, historyVars
<1>17. CASE LoseDatabase(h)
  BY <1>17 DEF LoseDatabase, brokerVars, boundVars, historyVars
<1>18. QED
  BY <1>1, <1>2, <1>3, <1>4, <1>5, <1>6, <1>7, <1>8, <1>9, <1>10, <1>11, <1>12, <1>13,
     <1>14, <1>15, <1>16, <1>17 DEF Work, Fault

\* The steps of the broker and of the environment keep the types.
LEMMA TypeEnvironment ==
    ASSUME TypeInv,
           \/ Expire \/ Redrive
           \/ \E b \in Body : Publish(b)
           \/ \E p \in PaymentId : Insert(p)
    PROVE  TypeInv'
<1> USE DEF TypeInv, TypeOK, StageTyped, Pid
<1>1. CASE Expire
  <2>1. PICK m \in Message :
          retry[m] > 0 /\ retry' = Take(retry, m) /\ queue' = Put(queue, m)
    BY <1>1 DEF Expire
  <2>2. retry' \in [Message -> Nat] /\ queue' \in [Message -> Nat]
    BY <2>1, PutAdds, TakeRemovesOne
  <2>3. QED
    BY <1>1, <2>2 DEF Expire, handlerVars, boundVars, historyVars
<1>2. ASSUME NEW b \in Body, Publish(b)
      PROVE  TypeInv'
  <2>1. PICK n \in {0, 1} : queue' = Put(queue, [body |-> b, header |-> n])
    BY <1>2 DEF Publish
  <2>2. [body |-> b, header |-> n] \in Message
    <3>1. n \in Header
      BY RetryAssumption DEF Header
    <3>2. QED
      BY <3>1 DEF Message
  <2>3. queue' \in [Message -> Nat]
    BY <2>1, <2>2, PutAdds
  <2>4. sends' \in [Body -> Nat]
    BY <1>2 DEF Publish
  <2>5. QED
    BY <1>2, <2>3, <2>4 DEF Publish, handlerVars, historyVars
<1>3. CASE Redrive
  <2>1. PICK m \in Message :
          dlq[m] > 0 /\ dlq' = Take(dlq, m) /\ queue' = Put(queue, [m EXCEPT !.header = 0])
    BY <1>3 DEF Redrive
  <2>2. [m EXCEPT !.header = 0] \in Message
    <3>1. 0 \in Header
      BY RetryAssumption DEF Header
    <3>2. QED
      BY <3>1 DEF Message
  <2>3. dlq' \in [Message -> Nat] /\ queue' \in [Message -> Nat]
    BY <2>1, <2>2, PutAdds, TakeRemovesOne
  <2>4. QED
    BY SMTT(30), <1>3, <2>3, ConsumerAssumption DEF Redrive, handlerVars, historyVars
<1>4. ASSUME NEW p \in PaymentId, Insert(p)
      PROVE  TypeInv'
  BY <1>4, RowsTyped DEF Insert, brokerVars, handlerVars, boundVars, historyVars
<1>5. QED
  BY <1>1, <1>2, <1>3, <1>4

\* Every step keeps the types.
LEMMA TypeStep == TypeInv /\ [Next]_vars => TypeInv'
<1>1. ASSUME TypeInv, UNCHANGED vars
      PROVE  TypeInv'
  BY <1>1 DEF vars, brokerVars, handlerVars, boundVars, historyVars,
     TypeInv, TypeOK, StageTyped, Pid
<1>2. QED
  BY <1>1, TypeWork, TypeEnvironment DEF Next

\* Every reachable state has the types.  The case that needs the arithmetic of
\* the retry policy: no handler writes an x-attempt header out of range.
THEOREM TypeCorrect == Spec => []TypeOK
<1>1. Spec => []TypeInv
  BY TypeInit, TypeStep, PTL DEF Spec
<1>2. TypeInv => TypeOK
  BY DEF TypeInv
<1>3. QED
  BY <1>1, <1>2, PTL
----------------------------------------------------------------------------
(* Settlement and webhook.  Nothing else must be known of a handler than   *)
(* what its stage says about the row it works on.                          *)

StageTrue ==
    \A h \in Handler :
        /\ pc[h] = "read" => IsFinal(payment[Pid(h)])
        /\ pc[h] \in {"post", "record"} => ~ copy[h].delivered
        /\ pc[h] = "record" /\ result[h] = "ok" => accepted[Pid(h)]

SettlementInv ==
    /\ SettlementExclusive
    /\ StaleCopyHarmless
    /\ WebhookTruthful
    /\ DeliveryRecordTrue
    /\ StageTrue

\* No other handler than h moves.
OthersStay(h) ==
    \A g \in Handler \ {h} :
        /\ pc'[g] = pc[g] /\ held'[g] = held[g] /\ copy'[g] = copy[g]
        /\ result'[g] = result[g] /\ inTx'[g] = inTx[g]

\* A handler that leaves the stages at which it works on a row disturbs nothing.
LEMMA QuietStep ==
    ASSUME TypeInv, SettlementInv, NEW h \in Handler, OthersStay(h),
           UNCHANGED <<payment, posted, accepted>>,
           pc'[h] \notin {"gateway", "save", "read", "post", "record"}
    PROVE  SettlementInv'
<1>1. SettlementExclusive'
  BY DEF SettlementInv, SettlementExclusive, OthersStay, Pid
<1>2. StaleCopyHarmless'
  BY DEF SettlementInv, StaleCopyHarmless, OthersStay, Pid, IsFinal
<1>3. WebhookTruthful' /\ DeliveryRecordTrue'
  BY DEF SettlementInv, WebhookTruthful, DeliveryRecordTrue, IsFinal
<1>4. StageTrue'
  BY DEF SettlementInv, StageTrue, OthersStay, Pid, IsFinal
<1>5. QED
  BY <1>1, <1>2, <1>3, <1>4 DEF SettlementInv

\* The second layer: every step of a handler that keeps the types keeps it.
LEMMA SettlementWork ==
    ASSUME TypeInv, SettlementInv, NEW h \in Handler, Work(h) \/ Fault(h)
    PROVE  SettlementInv'
<1> USE DEF TypeInv, TypeOK, StageTyped, Goto, brokerVars, boundVars, historyVars
<1>1. CASE Receive(h)
  <2>1. OthersStay(h)
    BY <1>1 DEF Receive, OthersStay
  <2>2. QED
    BY <1>1, <2>1, QuietStep DEF Receive
<1>2. CASE LockMissing(h)
  <2>1. OthersStay(h)
    BY <1>2 DEF LockMissing, OthersStay
  <2>2. QED
    BY <1>2, <2>1, QuietStep DEF LockMissing
<1>3. CASE LockFinal(h)
  <2>1. SettlementExclusive' /\ StaleCopyHarmless'
    BY <1>3 DEF LockFinal, AfterSettlement, SettlementInv, SettlementExclusive,
       StaleCopyHarmless, Pid, IsFinal
  <2>2. WebhookTruthful' /\ DeliveryRecordTrue'
    BY <1>3 DEF LockFinal, SettlementInv, WebhookTruthful, DeliveryRecordTrue, IsFinal
  <2>3. StageTrue'
    BY <1>3 DEF LockFinal, AfterSettlement, SettlementInv, StageTrue, Pid, IsFinal
  <2>4. QED
    BY <2>1, <2>2, <2>3 DEF SettlementInv
<1>4. CASE LockPending(h)
  <2>1. SettlementExclusive'
    BY <1>4 DEF LockPending, OpenTx, Locked, SettlementInv, SettlementExclusive, Pid
  <2>2. StaleCopyHarmless' /\ StageTrue'
    BY <1>4 DEF LockPending, OpenTx, SettlementInv, StaleCopyHarmless, StageTrue, Pid, IsFinal
  <2>3. WebhookTruthful' /\ DeliveryRecordTrue'
    BY <1>4 DEF LockPending, SettlementInv, WebhookTruthful, DeliveryRecordTrue, IsFinal
  <2>4. QED
    BY <2>1, <2>2, <2>3 DEF SettlementInv
<1>5. CASE GatewayAnswers(h)
  <2>1. SettlementExclusive'
    BY <1>5 DEF GatewayAnswers, SettlementInv, SettlementExclusive, Pid
  <2>2. StaleCopyHarmless' /\ StageTrue'
    BY <1>5 DEF GatewayAnswers, SettlementInv, StaleCopyHarmless, StageTrue, Pid, IsFinal
  <2>3. WebhookTruthful' /\ DeliveryRecordTrue'
    BY <1>5 DEF GatewayAnswers, SettlementInv, WebhookTruthful, DeliveryRecordTrue, IsFinal
  <2>4. QED
    BY <2>1, <2>2, <2>3 DEF SettlementInv
<1>6. CASE Save(h)
  <2> DEFINE P == Pid(h)
  <2>1. P \in PaymentId /\ copy[h] = payment[P] /\ payment[P].status = "pending"
    BY <1>6 DEF Save, SettlementInv, SettlementExclusive
  <2>2. /\ payment'[P].status \in Final
        /\ payment'[P].delivered = payment[P].delivered
        /\ \A p \in PaymentId \ {P} : payment'[p] = payment[p]
    BY <1>6, <2>1 DEF Save, Transition, Row
  <2>3. ~ payment[P].delivered /\ posted[P] = {}
    BY <2>1 DEF SettlementInv, DeliveryRecordTrue, WebhookTruthful, IsFinal, Final
  <2>4. /\ pc'[h] \in {"ack", "read", "retry"} /\ OthersStay(h)
        /\ held' = held /\ UNCHANGED <<posted, accepted>>
    BY <1>6 DEF Save, AfterSettlement, CloseTx, OthersStay
  <2>5. ASSUME NEW g \in Handler, inTx'[g], pc'[g] \in {"gateway", "save"}
        PROVE  /\ g # h /\ Pid(g)' = Pid(g) /\ inTx[g] /\ pc[g] = pc'[g]
               /\ copy'[g] = payment'[Pid(g)] /\ copy'[g].status = "pending"
    <3>1. g # h /\ inTx[g] /\ pc[g] = pc'[g] /\ copy'[g] = copy[g]
      BY <2>4, <2>5 DEF OthersStay
    <3>2. Pid(g) \in PaymentId /\ Pid(g) # P
      BY <3>1, <2>5, <1>6 DEF Save, SettlementInv, SettlementExclusive
    <3>3. QED
      BY <3>1, <3>2, <2>2, <2>4, <2>5 DEF SettlementInv, SettlementExclusive, Pid
  <2>6. SettlementExclusive'
    BY <2>5 DEF SettlementInv, SettlementExclusive
  <2>7. StaleCopyHarmless'
    BY <2>1, <2>2, <2>4 DEF SettlementInv, StaleCopyHarmless, OthersStay, Pid, IsFinal, Final
  <2>8. WebhookTruthful' /\ DeliveryRecordTrue'
    BY <2>2, <2>3, <2>4 DEF SettlementInv, WebhookTruthful, DeliveryRecordTrue, IsFinal
  <2>9. StageTrue'
    BY <2>2, <2>4 DEF SettlementInv, StageTrue, OthersStay, Pid, IsFinal
  <2>10. QED
    BY <2>6, <2>7, <2>8, <2>9 DEF SettlementInv
<1>7. CASE Read(h)
  <2>1. SettlementExclusive' /\ StaleCopyHarmless'
    BY <1>7 DEF Read, OpenTx, SettlementInv, SettlementExclusive, StaleCopyHarmless,
       StageTrue, Pid, IsFinal
  <2>2. WebhookTruthful' /\ DeliveryRecordTrue'
    BY <1>7 DEF Read, SettlementInv, WebhookTruthful, DeliveryRecordTrue, IsFinal
  <2>3. StageTrue'
    BY <1>7 DEF Read, OpenTx, SettlementInv, StageTrue, Pid, IsFinal
  <2>4. QED
    BY <2>1, <2>2, <2>3 DEF SettlementInv
<1>8. CASE Post(h)
  <2> DEFINE P == Pid(h)
  <2>1. /\ P \in PaymentId /\ copy[h].status = payment[P].status /\ payment[P].status \in Final
        /\ pc' = [pc EXCEPT ![h] = "record"]
    BY <1>8 DEF Post, SettlementInv, StaleCopyHarmless, IsFinal
  <2>2. /\ \A p \in PaymentId : accepted[p] => accepted'[p]
        /\ result'[h] = "ok" => accepted'[P]
    BY <1>8 DEF Post
  <2>3. SettlementExclusive' /\ StaleCopyHarmless'
    BY <1>8 DEF Post, SettlementInv, SettlementExclusive, StaleCopyHarmless, Pid, IsFinal
  <2>4. WebhookTruthful'
    BY <1>8, <2>1 DEF Post, SettlementInv, WebhookTruthful, IsFinal
  <2>5. DeliveryRecordTrue'
    BY <1>8, <2>2 DEF Post, SettlementInv, DeliveryRecordTrue, IsFinal
  <2>6. StageTrue'
    BY <1>8, <2>2 DEF Post, SettlementInv, StageTrue, Pid, IsFinal
  <2>7. QED
    BY <2>3, <2>4, <2>5, <2>6 DEF SettlementInv
<1>9. CASE Record(h)
  <2> DEFINE P == Pid(h)
  <2>1. /\ P \in PaymentId /\ copy[h].status = payment[P].status /\ payment[P].status \in Final
        /\ ~ copy[h].delivered /\ copy[h] \in Row
    BY <1>9 DEF Record, SettlementInv, StaleCopyHarmless, StageTrue, IsFinal
  <2>2. /\ payment'[P].status = payment[P].status
        /\ payment'[P].delivered => result[h] = "ok" /\ ~ payment'[P].error
        /\ \A p \in PaymentId \ {P} : payment'[p] = payment[p]
    BY <1>9, <2>1 DEF Record, RecordedRow, MarkDelivered, MarkDeliveryFailed, Row
  <2>3. /\ pc'[h] \in {"ack", "dlq", "retry"} /\ OthersStay(h)
        /\ held' = held /\ UNCHANGED <<posted, accepted>>
    BY <1>9 DEF Record, AfterDelivery, CloseTx, OthersStay
  <2>4. SettlementExclusive'
    BY <2>1, <2>2, <2>3 DEF SettlementInv, SettlementExclusive, OthersStay, Pid, Final
  <2>5. StaleCopyHarmless'
    BY SMTT(30), <2>1, <2>2, <2>3 DEF SettlementInv, StaleCopyHarmless, OthersStay, Pid, IsFinal
  <2>6. WebhookTruthful'
    BY <2>1, <2>2, <2>3 DEF SettlementInv, WebhookTruthful, IsFinal
  <2>7. DeliveryRecordTrue'
    BY <1>9, <2>1, <2>2, <2>3 DEF Record, SettlementInv, DeliveryRecordTrue, StageTrue, IsFinal
  <2>8. StageTrue'
    BY <2>1, <2>2, <2>3 DEF SettlementInv, StageTrue, OthersStay, Pid, IsFinal
  <2>9. QED
    BY <2>4, <2>5, <2>6, <2>7, <2>8 DEF SettlementInv
<1>10. CASE Fail(h)
  <2>1. OthersStay(h)
    BY <1>10 DEF Fail, CloseTx, OthersStay
  <2>2. QED
    BY <1>10, <2>1, QuietStep DEF Fail
<1>11. CASE Route(h)
  <2>1. OthersStay(h)
    BY <1>11 DEF Route, OthersStay
  <2>2. QED
    BY <1>11, <2>1, QuietStep DEF Route
<1>12. CASE Ack(h)
  <2>1. OthersStay(h)
    BY <1>12 DEF Ack, Leave, CloseTx, OthersStay
  <2>2. QED
    BY <1>12, <2>1, QuietStep DEF Ack, Leave
<1>13. CASE Redeliver(h)
  <2>1. OthersStay(h)
    BY <1>13 DEF Redeliver, Leave, CloseTx, OthersStay
  <2>2. QED
    BY <1>13, <2>1, QuietStep DEF Redeliver, Leave
<1>14. CASE RouteFails(h)
  <2>1. OthersStay(h)
    BY <1>14 DEF RouteFails, OthersStay
  <2>2. QED
    BY <1>14, <2>1, QuietStep DEF RouteFails
<1>15. CASE Crash(h)
  <2>1. OthersStay(h)
    BY <1>15 DEF Crash, Leave, CloseTx, OthersStay
  <2>2. QED
    BY <1>15, <2>1, QuietStep DEF Crash, Leave
<1>16. CASE LoseChannel(h)
  BY <1>16 DEF LoseChannel, SettlementInv, SettlementExclusive, StaleCopyHarmless,
     WebhookTruthful, DeliveryRecordTrue, StageTrue, Pid, IsFinal
<1>17. CASE LoseDatabase(h)
  <2>1. SettlementExclusive'
    BY <1>17 DEF LoseDatabase, SettlementInv, SettlementExclusive, Pid
  <2>2. QED
    BY <1>17, <2>1 DEF LoseDatabase, SettlementInv, StaleCopyHarmless,
       WebhookTruthful, DeliveryRecordTrue, StageTrue, Pid, IsFinal
<1>18. QED
  BY <1>1, <1>2, <1>3, <1>4, <1>5, <1>6, <1>7, <1>8, <1>9, <1>10, <1>11, <1>12, <1>13,
     <1>14, <1>15, <1>16, <1>17 DEF Work, Fault

\* No handler has read or written anything at the start.
LEMMA SettlementInit == Init => SettlementInv
<1> SUFFICES ASSUME Init PROVE SettlementInv
  OBVIOUS
<1>1. SettlementExclusive /\ StaleCopyHarmless /\ StageTrue
  BY DEF Init, SettlementExclusive, StaleCopyHarmless, StageTrue
<1>2. WebhookTruthful /\ DeliveryRecordTrue
  BY DEF Init, WebhookTruthful, DeliveryRecordTrue, NoRow, NewRow
<1>3. QED
  BY <1>1, <1>2 DEF SettlementInv

\* Handlers and environment keep the second layer.
LEMMA SettlementStep == TypeInv /\ SettlementInv /\ [Next]_vars => SettlementInv'
<1> SUFFICES ASSUME TypeInv, SettlementInv, [Next]_vars
             PROVE  SettlementInv'
  OBVIOUS
<1>1. CASE \E h \in Handler : Work(h) \/ Fault(h)
  BY <1>1, SettlementWork
<1>2. CASE UNCHANGED <<payment, pc, held, copy, inTx, result, posted, accepted>>
  BY <1>2 DEF SettlementInv, SettlementExclusive, StaleCopyHarmless,
     WebhookTruthful, DeliveryRecordTrue, StageTrue, Pid, IsFinal
<1>3. ASSUME NEW p \in PaymentId, Insert(p)
      PROVE  SettlementInv'
  <2>1. /\ payment[p].status = "absent" /\ ~ payment[p].delivered
        /\ payment'[p].status = "pending" /\ ~ payment'[p].delivered
        /\ \A q \in PaymentId \ {p} : payment'[q] = payment[q]
        /\ UNCHANGED <<pc, held, copy, inTx, result, posted, accepted>>
    BY <1>3 DEF Insert, NoRow, NewRow, TypeInv, TypeOK, handlerVars, historyVars
  <2>2. \A h \in Handler :
          /\ pc[h] \in {"read", "post", "record"} => Pid(h) # p
          /\ inTx[h] /\ pc[h] \in {"gateway", "save"} => Pid(h) # p
    BY <2>1 DEF SettlementInv, SettlementExclusive, StaleCopyHarmless, StageTrue, IsFinal, Final
  <2>3. \A h \in Handler :
          pc[h] \in {"gateway", "save", "read", "post", "record"} => Pid(h) \in PaymentId
    BY DEF TypeInv, StageTyped
  <2>4. SettlementExclusive'
    BY <2>1, <2>2, <2>3 DEF SettlementInv, SettlementExclusive, Pid
  <2>5. StaleCopyHarmless' /\ StageTrue'
    BY <2>1, <2>2, <2>3 DEF SettlementInv, StaleCopyHarmless, StageTrue, Pid, IsFinal
  <2>6. WebhookTruthful' /\ DeliveryRecordTrue'
    BY <2>1 DEF SettlementInv, WebhookTruthful, DeliveryRecordTrue, IsFinal, Final
  <2>7. QED
    BY <2>4, <2>5, <2>6 DEF SettlementInv
<1>4. QED
  BY <1>1, <1>2, <1>3 DEF Next, Expire, Publish, Redrive, vars, handlerVars, historyVars

\* The two layers together hold in every reachable state.
LEMMA SettlementAlways == Spec => [](TypeInv /\ SettlementInv)
<1>1. Spec => []TypeInv
  BY TypeInit, TypeStep, PTL DEF Spec
<1>2. QED
  BY <1>1, SettlementInit, SettlementStep, PTL DEF Spec

\* At most one live transaction settles a payment, and it works on current data.
THEOREM SettlementIsExclusive == Spec => []SettlementExclusive
<1>1. SettlementInv => SettlementExclusive
  BY DEF SettlementInv
<1>2. QED
  BY <1>1, SettlementAlways, PTL

\* No webhook ever carries a status other than the one the payment ends with.
THEOREM WebhooksAreTruthful == Spec => []WebhookTruthful
<1>1. SettlementInv => WebhookTruthful
  BY DEF SettlementInv
<1>2. QED
  BY <1>1, SettlementAlways, PTL

\* A recorded delivery was answered 2xx, in spite of rows written back stale.
THEOREM DeliveryRecordsAreTrue == Spec => []DeliveryRecordTrue
<1>1. SettlementInv => DeliveryRecordTrue
  BY DEF SettlementInv
<1>2. QED
  BY <1>1, SettlementAlways, PTL

\* The row the webhook stage writes back has the settled status.
THEOREM StaleCopiesAreHarmless == Spec => []StaleCopyHarmless
<1>1. SettlementInv => StaleCopyHarmless
  BY DEF SettlementInv
<1>2. QED
  BY <1>1, SettlementAlways, PTL

\* A step writes a payments row only to insert it, to settle a pending payment,
\* or to note a webhook outcome under the same status.
LEMMA StatusStep ==
    ASSUME TypeInv, SettlementInv, [Next]_vars, NEW p \in PaymentId
    PROVE  \/ payment'[p].status = payment[p].status
           \/ payment[p].status = "pending" /\ payment'[p].status \in Final
           \/ payment[p].status = "absent" /\ payment'[p].status = "pending"
<1> USE DEF TypeInv, TypeOK, StageTyped
<1>1. ASSUME NEW h \in Handler, Save(h)
      PROVE  \/ payment'[p].status = payment[p].status
             \/ payment[p].status = "pending" /\ payment'[p].status \in Final
  <2>1. copy[h] = payment[Pid(h)] /\ payment[Pid(h)].status = "pending"
    BY <1>1 DEF Save, SettlementInv, SettlementExclusive
  <2>2. QED
    BY <1>1, <2>1 DEF Save, Transition, Row
<1>2. ASSUME NEW h \in Handler, Record(h)
      PROVE  payment'[p].status = payment[p].status
  <2>1. copy[h].status = payment[Pid(h)].status
    BY <1>2 DEF Record, SettlementInv, StaleCopyHarmless
  <2>2. RecordedRow(h).status = copy[h].status
    BY DEF RecordedRow, MarkDelivered, MarkDeliveryFailed, Row
  <2>3. QED
    BY <1>2, <2>1, <2>2 DEF Record
<1>3. CASE payment' = payment
  BY <1>3
<1>4. ASSUME NEW q \in PaymentId, Insert(q), payment'[p] # payment[p]
      PROVE  payment[p].status = "absent" /\ payment'[p].status = "pending"
  BY <1>4 DEF Insert, NoRow, NewRow
<1>5. QED
  BY <1>1, <1>2, <1>3, <1>4 DEF Next, Work, Fault, Receive, LockMissing, LockFinal, LockPending,
     GatewayAnswers, Read, Post, Fail, Route, Ack, Redeliver, RouteFails, Crash,
     LoseChannel, LoseDatabase, Expire, Publish, Redrive, vars

\* A final status is never changed and a row never disappears.
THEOREM FinalStatusIsStable == Spec => FinalStatusStable
<1> DEFINE Stable ==
      \A p \in PaymentId :
        /\ IsFinal(payment[p]) => payment'[p].status = payment[p].status
        /\ payment[p].status = "pending" => payment'[p].status # "absent"
<1>1. TypeInv /\ SettlementInv /\ [Next]_vars => Stable
  BY StatusStep DEF IsFinal, Final
<1>2. TypeInv /\ SettlementInv /\ [Next]_vars => [Stable]_vars
  BY <1>1
<1>3. Spec => [][Stable]_vars
  BY <1>2, SettlementAlways, PTL DEF Spec
<1>4. QED
  BY <1>3 DEF FinalStatusStable
----------------------------------------------------------------------------
(* Recorded deliveries.  The webhook stage reads the row without a lock and *)
(* writes all of it back, so a handler may undo what another has recorded.  *)
(* It takes two of them in that stage at the same time.                     *)

\* No two handlers are in the webhook stage of one payment.
WebhookStageExclusive ==
    \A g, h \in Handler :
        pc[g] \in {"post", "record"} /\ pc[h] \in {"post", "record"} /\ Pid(g) = Pid(h) => g = h

DeliveryKept ==
    /\ \A p \in PaymentId : recorded[p] => payment[p].delivered
    /\ \A h \in Handler : pc[h] \in {"post", "record"} => copy[h] = payment[Pid(h)]

\* The steps that write the row, or the copy that will be written.
LEMMA DeliveryStep ==
    TypeInv /\ SettlementInv /\ WebhookStageExclusive /\ DeliveryKept /\ [Next]_vars => DeliveryKept'
<1> SUFFICES ASSUME TypeInv, SettlementInv, WebhookStageExclusive, DeliveryKept, [Next]_vars
             PROVE  DeliveryKept'
  OBVIOUS
<1> USE DEF TypeInv, TypeOK, StageTyped, Goto, brokerVars, handlerVars, boundVars, historyVars
<1>1. ASSUME NEW h \in Handler, OthersStay(h), UNCHANGED <<payment, recorded>>,
             pc'[h] \notin {"post", "record"}
      PROVE  DeliveryKept'
  BY <1>1 DEF DeliveryKept, OthersStay, Pid
<1>2. ASSUME NEW h \in Handler, Save(h) PROVE DeliveryKept'
  <2>1. /\ copy[h] = payment[Pid(h)] /\ copy[h].status = "pending" /\ Pid(h) \in PaymentId
    BY <1>2 DEF Save, SettlementInv, SettlementExclusive
  <2>2. /\ payment' = [payment EXCEPT ![Pid(h)] = Transition(copy[h], result[h])]
        /\ pc'[h] \notin {"post", "record"} /\ OthersStay(h)
        /\ recorded' = recorded /\ held' = held
    BY <1>2 DEF Save, AfterSettlement, CloseTx, OthersStay
  <2>3. \A p \in PaymentId : recorded'[p] => payment'[p].delivered
    BY <2>1, <2>2 DEF DeliveryKept, Transition, Row
  <2>4. ASSUME NEW g \in Handler, pc'[g] \in {"post", "record"}
        PROVE  copy'[g] = payment'[Pid(g)']
    <3>1. /\ g # h /\ pc[g] \in {"post", "record"} /\ copy'[g] = copy[g] /\ Pid(g)' = Pid(g)
          /\ Pid(g) \in PaymentId
      BY <2>2, <2>4 DEF OthersStay, Pid
    <3>2. IsFinal(copy[g]) /\ copy[g] = payment[Pid(g)]
      BY <3>1 DEF SettlementInv, StaleCopyHarmless, DeliveryKept
    <3>3. Pid(g) # Pid(h)
      BY <2>1, <3>2 DEF IsFinal, Final
    <3>4. QED
      BY <2>2, <3>1, <3>2, <3>3
  <2>5. QED
    BY <2>3, <2>4 DEF DeliveryKept
<1>3. ASSUME NEW h \in Handler, Record(h) PROVE DeliveryKept'
  <2>1. /\ Pid(h) \in PaymentId /\ copy[h] = payment[Pid(h)] /\ ~ copy[h].delivered
    BY <1>3 DEF Record, DeliveryKept, SettlementInv, StageTrue
  <2>2. /\ payment' = [payment EXCEPT ![Pid(h)] = RecordedRow(h)]
        /\ recorded' = [recorded EXCEPT ![Pid(h)] = @ \/ result[h] = "ok"]
        /\ pc'[h] \notin {"post", "record"} /\ OthersStay(h) /\ held' = held
    BY <1>3 DEF Record, AfterDelivery, CloseTx, OthersStay
  <2>3. ~ recorded[Pid(h)]
    BY <2>1 DEF DeliveryKept
  <2>4. result[h] = "ok" => RecordedRow(h).delivered
    BY DEF RecordedRow, MarkDelivered, Row
  <2>5. \A p \in PaymentId : recorded'[p] => payment'[p].delivered
    BY <2>1, <2>2, <2>3, <2>4 DEF DeliveryKept
  <2>6. ASSUME NEW g \in Handler, pc'[g] \in {"post", "record"}
        PROVE  copy'[g] = payment'[Pid(g)']
    <3>1. /\ g # h /\ pc[g] \in {"post", "record"} /\ copy'[g] = copy[g] /\ Pid(g)' = Pid(g)
          /\ Pid(g) \in PaymentId
      BY <2>2, <2>6 DEF OthersStay, Pid
    <3>2. Pid(g) # Pid(h)
      BY <1>3, <3>1 DEF Record, WebhookStageExclusive
    <3>3. QED
      BY <2>2, <3>1, <3>2 DEF DeliveryKept
  <2>7. QED
    BY <2>5, <2>6 DEF DeliveryKept
<1>4. ASSUME NEW h \in Handler, Read(h) PROVE DeliveryKept'
  <2>1. OthersStay(h) /\ UNCHANGED <<payment, recorded, held>>
    BY <1>4 DEF Read, OpenTx, OthersStay
  <2>2. pc'[h] \in {"post", "record"} => copy'[h] = payment[Pid(h)]
    BY <1>4 DEF Read, OpenTx
  <2>3. QED
    BY <2>1, <2>2 DEF DeliveryKept, OthersStay, Pid
<1>5. ASSUME NEW h \in Handler, Post(h) \/ LoseDatabase(h) \/ LoseChannel(h) PROVE DeliveryKept'
  <2>1. /\ OthersStay(h) /\ UNCHANGED <<payment, recorded, held, copy>>
        /\ pc'[h] \in {"post", "record"} => pc[h] \in {"post", "record"}
    BY <1>5 DEF Post, LoseDatabase, LoseChannel, OthersStay
  <2>2. QED
    BY <2>1 DEF DeliveryKept, OthersStay, Pid
<1>6. ASSUME NEW q \in PaymentId, Insert(q) PROVE DeliveryKept'
  <2>1. /\ payment[q] = NoRow /\ payment' = [payment EXCEPT ![q] = NewRow]
        /\ UNCHANGED <<handlerVars, recorded>>
    BY <1>6 DEF Insert
  <2>2. ~ recorded[q]
    BY <2>1 DEF DeliveryKept, NoRow
  <2>3. ASSUME NEW g \in Handler, pc[g] \in {"post", "record"}
        PROVE  Pid(g) # q
    <3>1. IsFinal(copy[g]) /\ copy[g].status = payment[Pid(g)].status
      BY <2>3 DEF SettlementInv, StaleCopyHarmless
    <3>2. QED
      BY <2>1, <3>1 DEF IsFinal, Final, NoRow
  <2>4. QED
    BY <2>1, <2>2, <2>3 DEF DeliveryKept, Pid
<1>7. CASE Expire \/ (\E b \in Body : Publish(b)) \/ Redrive \/ UNCHANGED vars
  BY <1>7 DEF Expire, Publish, Redrive, vars, DeliveryKept, Pid
<1>8. ASSUME NEW h \in Handler,
             \/ Receive(h) \/ LockMissing(h) \/ LockFinal(h) \/ LockPending(h) \/ GatewayAnswers(h)
             \/ Fail(h) \/ Route(h) \/ Ack(h) \/ Redeliver(h) \/ RouteFails(h) \/ Crash(h)
      PROVE  DeliveryKept'
  BY <1>1, <1>8 DEF Receive, LockMissing, LockFinal, AfterSettlement, LockPending, OpenTx,
     GatewayAnswers, Fail, Route, Ack, Leave, CloseTx, Redeliver, RouteFails, Crash, OthersStay
<1>9. QED
  BY <1>2, <1>3, <1>4, <1>5, <1>6, <1>7, <1>8 DEF Next, Work, Fault

\* A handler's stage changes by its own steps only.
LEMMA StepOfOne ==
    ASSUME TypeInv, NEW h \in Handler
    PROVE  /\ \A g \in Handler \ {h} : Work(g) \/ Fault(g) => pc'[h] = pc[h]
           /\ Expire \/ (\E b \in Body : Publish(b)) \/ (\E p \in PaymentId : Insert(p)) \/ Redrive
                => pc' = pc
<1>1. ASSUME NEW g \in Handler \ {h}, Work(g) \/ Fault(g)
      PROVE  pc'[h] = pc[h]
  BY <1>1 DEF TypeInv, TypeOK, Work, Fault, Goto, Leave, Receive, LockMissing, LockFinal,
     LockPending, GatewayAnswers, Save, Read, Post, Record, Fail, Route, Ack, Redeliver,
     RouteFails, Crash, LoseChannel, LoseDatabase
<1>2. Expire \/ (\E b \in Body : Publish(b)) \/ (\E p \in PaymentId : Insert(p)) \/ Redrive
        => pc' = pc
  BY DEF Expire, Publish, Insert, Redrive, handlerVars
<1>3. QED
  BY <1>1, <1>2

\* As long as no two handlers are in the webhook stage of one payment, a recorded
\* delivery is never sent again, whatever is duplicated, retried or lost.
THEOREM OverlapAloneResends == Spec /\ []WebhookStageExclusive => RecordedDeliveryNotResent
<1> DEFINE NotResent == \A h \in Handler : pc[h] = "read" /\ pc'[h] = "post" => ~ recorded[Pid(h)]
<1>1. Init => DeliveryKept
  BY DEF Init, DeliveryKept
<1>2. TypeInv /\ DeliveryKept /\ [Next]_vars => [NotResent]_vars
  <2> SUFFICES ASSUME TypeInv, DeliveryKept, Next,
                      NEW h \in Handler, pc[h] = "read", pc'[h] = "post"
               PROVE  ~ recorded[Pid(h)]
    OBVIOUS
  <2>1. Read(h) /\ ~ payment[Pid(h)].delivered
    <3>1. /\ \A g \in Handler \ {h} : Work(g) \/ Fault(g) => pc'[h] = pc[h]
          /\ Expire \/ (\E b \in Body : Publish(b)) \/ (\E p \in PaymentId : Insert(p)) \/ Redrive => pc' = pc
      BY StepOfOne
    <3>2. Work(h) \/ Fault(h)
      BY <3>1 DEF Next
    <3>3. QED
      BY <3>2 DEF TypeInv, TypeOK, Work, Fault, Goto, Leave, Receive, LockMissing, LockFinal,
         LockPending, GatewayAnswers, Save, Read, Post, Record, Fail, Route, Ack, Redeliver,
         RouteFails, Crash, LoseChannel, LoseDatabase
  <2>2. Pid(h) \in PaymentId
    BY DEF TypeInv, StageTyped
  <2>3. QED
    BY <2>1, <2>2 DEF DeliveryKept
<1> HIDE DEF NotResent
<1>3. Spec /\ []WebhookStageExclusive => [][NotResent]_vars
  BY <1>1, <1>2, DeliveryStep, SettlementAlways, PTL DEF Spec
<1>4. QED
  BY <1>3 DEF RecordedDeliveryNotResent, NotResent

\* In particular, where messages are handled one at a time no recorded delivery is
\* sent again.
THEOREM OneHandlerNeverResends ==
    ASSUME \A g, h \in Handler : g = h
    PROVE  Spec => RecordedDeliveryNotResent
<1>1. WebhookStageExclusive
  BY DEF WebhookStageExclusive
<1>2. QED
  BY <1>1, OverlapAloneResends, PTL
----------------------------------------------------------------------------
(* At-least-once delivery.                                                 *)

\* The queues lose nothing in this step.
BrokerKeeps ==
    \A m \in Message :
        /\ queue[m] > 0 => queue'[m] > 0
        /\ retry[m] > 0 => retry'[m] > 0
        /\ dlq[m] > 0 => dlq'[m] > 0

\* A handler may stop carrying its message when the webhook has been answered
\* or the broker has the message.
LEMMA EvidenceKept ==
    ASSUME TypeInv, NoLostWebhook, NEW h \in Handler, BrokerKeeps, sends' = sends,
           \A p \in PaymentId : accepted[p] => accepted'[p],
           \A g \in Handler \ {h} : pc'[g] = pc[g] /\ held'[g] = held[g] /\ owned'[g] = owned[g],
           \A p \in PaymentId :
              owned[h] /\ pc[h] \notin {"idle", "ack"} /\ Pid(h) = p =>
                \/ accepted'[p]
                \/ InBroker(p)'
                \/ owned'[h] /\ pc'[h] \notin {"idle", "ack"} /\ held'[h] = held[h]
    PROVE  NoLostWebhook'
<1> SUFFICES ASSUME NEW p \in PaymentId, sends[p] > 0
             PROVE  accepted'[p] \/ InBroker(p)' \/ Carried(p)'
  BY DEF NoLostWebhook
<1>1. CASE accepted[p]
  BY <1>1
<1>2. CASE InBroker(p)
  BY <1>2 DEF InBroker, Parked, BrokerKeeps
<1>3. CASE Carried(p)
  <2>1. PICK g \in Handler : owned[g] /\ pc[g] \notin {"idle", "ack"} /\ Pid(g) = p
    BY <1>3 DEF Carried
  <2>2. CASE g # h
    BY <2>1, <2>2 DEF Carried, Pid
  <2>3. CASE g = h
    <3>1. \/ accepted'[p]
          \/ InBroker(p)'
          \/ owned'[h] /\ pc'[h] \notin {"idle", "ack"} /\ held'[h] = held[h]
      BY <2>1, <2>3
    <3>2. QED
      BY <3>1, <2>1, <2>3 DEF Carried, Pid
  <2>4. QED
    BY <2>2, <2>3
<1>4. QED
  BY <1>1, <1>2, <1>3 DEF NoLostWebhook

\* A message in a queue is evidence for its payment.
LEMMA ReadyIsEvidence ==
    ASSUME NEW m \in Message, queue'[m] > 0 \/ retry'[m] > 0 \/ dlq'[m] > 0
    PROVE  InBroker(m.body)'
  BY DEF InBroker, Parked

\* The third layer: no step of a handler loses the webhook of a payment.
LEMMA NoLossWork ==
    ASSUME TypeInv, SettlementInv, NoLostWebhook, NEW h \in Handler, Work(h) \/ Fault(h)
    PROVE  NoLostWebhook'
<1> USE DEF TypeInv, TypeOK, StageTyped, Goto, brokerVars, boundVars, historyVars
<1>1. CASE Receive(h)
  <2>1. PICK m \in Message :
          /\ queue[m] > 0 /\ queue' = Take(queue, m)
          /\ held' = [held EXCEPT ![h] = m]
          /\ pc' = [pc EXCEPT ![h] = IF m.body = Malformed THEN "dlq" ELSE "lock"]
    BY <1>1 DEF Receive
  <2>2. \A n \in Message \ {m} : queue'[n] = queue[n]
    BY <2>1, TakeRemovesOne
  <2>3. retry' = retry /\ dlq' = dlq /\ accepted' = accepted /\ sends' = sends
    BY <1>1 DEF Receive
  <2> SUFFICES ASSUME NEW p \in PaymentId, sends[p] > 0
               PROVE  accepted[p] \/ InBroker(p)' \/ Carried(p)'
    BY <2>3 DEF NoLostWebhook
  <2>4. CASE m.body = p
    BY <1>1, <2>1, <2>4 DEF Receive, Carried, Pid
  <2>5. CASE InBroker(p) /\ m.body # p
    BY <2>2, <2>3, <2>5 DEF InBroker, Parked
  <2>6. CASE Carried(p)
    BY <1>1, <2>1, <2>6 DEF Receive, Carried, Pid
  <2>7. QED
    BY <2>4, <2>5, <2>6 DEF NoLostWebhook
<1>2. CASE LockMissing(h)
  BY <1>2, EvidenceKept DEF LockMissing, BrokerKeeps
<1>3. CASE LockFinal(h)
  <2>1. payment[Pid(h)].delivered => accepted[Pid(h)]
    BY <1>3 DEF LockFinal, SettlementInv, DeliveryRecordTrue
  <2>2. QED
    BY <1>3, <2>1, EvidenceKept DEF LockFinal, AfterSettlement, BrokerKeeps
<1>4. CASE LockPending(h)
  BY <1>4, EvidenceKept DEF LockPending, BrokerKeeps
<1>5. CASE GatewayAnswers(h)
  BY <1>5, EvidenceKept DEF GatewayAnswers, BrokerKeeps
<1>6. CASE Save(h)
  <2>1. ~ copy[h].delivered
    BY <1>6 DEF Save, SettlementInv, SettlementExclusive, DeliveryRecordTrue, IsFinal, Final
  <2>2. pc' = [pc EXCEPT ![h] = "read"] \/ pc' = [pc EXCEPT ![h] = "retry"]
    BY <1>6, <2>1 DEF Save, AfterSettlement
  <2>3. QED
    BY <1>6, <2>2, EvidenceKept DEF Save, BrokerKeeps
<1>7. CASE Read(h)
  <2>1. payment[Pid(h)].delivered => accepted[Pid(h)]
    BY <1>7 DEF Read, SettlementInv, DeliveryRecordTrue
  <2>2. QED
    BY <1>7, <2>1, EvidenceKept DEF Read, BrokerKeeps
<1>8. CASE Post(h)
  <2>1. \A p \in PaymentId : accepted[p] => accepted'[p]
    BY <1>8 DEF Post
  <2>2. QED
    BY <1>8, <2>1, EvidenceKept DEF Post, BrokerKeeps
<1>9. CASE Record(h)
  <2>1. result[h] = "ok" => accepted[Pid(h)]
    BY <1>9 DEF Record, SettlementInv, StageTrue
  <2>2. result[h] # "ok" => AfterDelivery(result[h]) \in {"dlq", "retry"}
    BY DEF AfterDelivery
  <2>3. QED
    BY <1>9, <2>1, <2>2, EvidenceKept DEF Record, BrokerKeeps
<1>10. CASE Fail(h)
  BY <1>10, EvidenceKept DEF Fail, BrokerKeeps
<1>11. CASE Route(h)
  <2>1. BrokerKeeps /\ (\A p \in PaymentId : Pid(h) = p => InBroker(p)')
    BY <1>11, PublishesOne, PutAdds, ReadyIsEvidence DEF Route, BrokerKeeps
  <2>2. QED
    BY <1>11, <2>1, EvidenceKept DEF Route
<1>12. CASE Ack(h)
  BY <1>12, EvidenceKept DEF Ack, Leave, BrokerKeeps
<1>13. CASE Redeliver(h)
  <2>1. BrokerKeeps /\ (\A p \in PaymentId : owned[h] /\ Pid(h) = p => InBroker(p)')
    BY <1>13, RequeueTyped, ReadyIsEvidence DEF Redeliver, BrokerKeeps, Pid
  <2>2. QED
    BY <1>13, <2>1, EvidenceKept DEF Redeliver, Leave
<1>14. CASE RouteFails(h)
  <2>1. BrokerKeeps
    BY <1>14, PublishesOne, PutAdds DEF RouteFails, BrokerKeeps
  <2>2. QED
    BY <1>14, <2>1, EvidenceKept DEF RouteFails
<1>15. CASE Crash(h)
  <2>1. BrokerKeeps /\ (\A p \in PaymentId : owned[h] /\ Pid(h) = p => InBroker(p)')
    BY <1>15, RequeueTyped, ReadyIsEvidence DEF Crash, BrokerKeeps, Pid
  <2>2. QED
    BY <1>15, <2>1, EvidenceKept DEF Crash, Leave
<1>16. CASE LoseChannel(h)
  <2>1. BrokerKeeps /\ (\A p \in PaymentId : owned[h] /\ Pid(h) = p => InBroker(p)')
    BY <1>16, RequeueTyped, ReadyIsEvidence DEF LoseChannel, BrokerKeeps, Pid
  <2>2. QED
    BY <1>16, <2>1, EvidenceKept DEF LoseChannel
<1>17. CASE LoseDatabase(h)
  BY <1>17, EvidenceKept DEF LoseDatabase, BrokerKeeps
<1>18. QED
  BY <1>1, <1>2, <1>3, <1>4, <1>5, <1>6, <1>7, <1>8, <1>9, <1>10, <1>11, <1>12, <1>13,
     <1>14, <1>15, <1>16, <1>17 DEF Work, Fault

\* Neither does the broker, a crash or a lost connection.
LEMMA NoLossEnvironment ==
    ASSUME TypeInv, NoLostWebhook,
           \/ Expire \/ Redrive
           \/ \E b \in Body : Publish(b)
           \/ \E p \in PaymentId : Insert(p)
    PROVE  NoLostWebhook'
<1> USE DEF TypeInv, TypeOK, handlerVars, boundVars, historyVars
<1>1. ASSUME NEW m \in Message, NEW n \in Message, n.body = m.body, queue' = Put(queue, n),
             accepted' = accepted, pc' = pc, held' = held, owned' = owned, sends' = sends,
             \/ retry[m] > 0 /\ retry' = Take(retry, m) /\ dlq' = dlq
             \/ dlq[m] > 0 /\ dlq' = Take(dlq, m) /\ retry' = retry
      PROVE  NoLostWebhook'
  <2>1. queue'[n] > 0 /\ \A k \in Message : queue[k] > 0 => queue'[k] > 0
    BY <1>1, PutAdds
  <2>2. \A k \in Message \ {m} : retry'[k] = retry[k] /\ dlq'[k] = dlq[k]
    BY <1>1, TakeRemovesOne
  <2> SUFFICES ASSUME NEW p \in PaymentId, sends[p] > 0
               PROVE  accepted[p] \/ InBroker(p)' \/ Carried(p)'
    BY <1>1 DEF NoLostWebhook
  <2>3. CASE m.body = p
    BY <1>1, <2>1, <2>3 DEF InBroker
  <2>4. CASE InBroker(p) /\ m.body # p
    BY <2>1, <2>2, <2>4 DEF InBroker, Parked
  <2>5. CASE Carried(p)
    BY <1>1, <2>5 DEF Carried, Pid
  <2>6. QED
    BY <2>3, <2>4, <2>5 DEF NoLostWebhook
<1>2. CASE Expire
  BY <1>1, <1>2 DEF Expire
<1>3. ASSUME NEW b \in Body, Publish(b)
      PROVE  NoLostWebhook'
  <2>1. PICK n \in {0, 1} : queue' = Put(queue, [body |-> b, header |-> n])
    BY <1>3 DEF Publish
  <2>2. [body |-> b, header |-> n] \in Message
    <3>1. n \in Header
      BY RetryAssumption DEF Header
    <3>2. QED
      BY <3>1 DEF Message
  <2>3. queue'[[body |-> b, header |-> n]] > 0 /\ \A k \in Message : queue[k] > 0 => queue'[k] > 0
    BY <2>1, <2>2, PutAdds
  <2>4. InBroker(b)'
    BY <2>2, <2>3 DEF InBroker
  <2> SUFFICES ASSUME NEW p \in PaymentId, p # b, sends[p] > 0
               PROVE  accepted[p] \/ InBroker(p)' \/ Carried(p)'
    BY <1>3, <2>4 DEF Publish, NoLostWebhook, Body
  <2>5. CASE InBroker(p)
    BY <1>3, <2>3, <2>5 DEF Publish, InBroker, Parked
  <2>6. CASE Carried(p)
    BY <1>3, <2>6 DEF Publish, Carried, Pid
  <2>7. QED
    BY <2>5, <2>6 DEF NoLostWebhook
<1>4. CASE Redrive
  <2>1. PICK m \in Message :
          dlq[m] > 0 /\ dlq' = Take(dlq, m) /\ queue' = Put(queue, [m EXCEPT !.header = 0])
    BY <1>4 DEF Redrive
  <2>2. [m EXCEPT !.header = 0] \in Message /\ [m EXCEPT !.header = 0].body = m.body
    <3>1. 0 \in Header
      BY RetryAssumption DEF Header
    <3>2. QED
      BY <3>1 DEF Message
  <2>3. QED
    BY <1>1, <1>4, <2>1, <2>2 DEF Redrive
<1>5. ASSUME NEW p \in PaymentId, Insert(p)
      PROVE  NoLostWebhook'
  BY <1>5 DEF Insert, brokerVars, NoLostWebhook, InBroker, Parked, Carried, Pid
<1>6. QED
  BY <1>2, <1>3, <1>4, <1>5

\* No published payment is lost: whatever crashes and however the publications
\* of its message end, its webhook was answered or a message still asks for it.
THEOREM NoWebhookIsLost == Spec => []NoLostWebhook
<1>1. Init => NoLostWebhook
  BY DEF Init, NoLostWebhook, Body
<1>2. ASSUME TypeInv, SettlementInv, NoLostWebhook, UNCHANGED vars
      PROVE  NoLostWebhook'
  BY <1>2 DEF vars, brokerVars, handlerVars, boundVars, historyVars,
     NoLostWebhook, InBroker, Parked, Carried, Pid
<1>3. TypeInv /\ SettlementInv /\ NoLostWebhook /\ [Next]_vars => NoLostWebhook'
  BY <1>2, NoLossWork, NoLossEnvironment DEF Next
<1>4. QED
  BY <1>1, <1>3, SettlementAlways, PTL DEF Spec
----------------------------------------------------------------------------
(* Where messages come from.                                               *)

\* Every message, wherever it is, descends from a publication of its body.
Origin ==
    /\ \A m \in Message : queue[m] > 0 \/ retry[m] > 0 \/ dlq[m] > 0 => sends[m.body] > 0
    /\ \A h \in Handler : pc[h] # "idle" => sends[Pid(h)] > 0

\* Putting a message adds no other.
LEMMA PutAddsOnly ==
    ASSUME NEW bag \in [Message -> Nat], NEW m \in Message, NEW n \in Message,
           Put(bag, m)[n] > 0
    PROVE  bag[n] > 0 \/ n = m
  BY DEF Put

\* A busy handler brings only messages with the body of its own into the queues.
LEMMA OriginKept ==
    ASSUME TypeInv, Origin, NEW h \in Handler, pc[h] # "idle", sends' = sends,
           \A g \in Handler \ {h} : pc'[g] = pc[g] /\ held'[g] = held[g],
           pc'[h] = "idle" \/ held'[h] = held[h],
           \A m \in Message :
              queue'[m] > 0 \/ retry'[m] > 0 \/ dlq'[m] > 0 =>
                queue[m] > 0 \/ retry[m] > 0 \/ dlq[m] > 0 \/ m.body = Pid(h)
    PROVE  Origin'
<1>1. \A m \in Message : queue'[m] > 0 \/ retry'[m] > 0 \/ dlq'[m] > 0 => sends'[m.body] > 0
  BY DEF Origin
<1>2. \A g \in Handler : pc'[g] # "idle" => sends'[Pid(g)'] > 0
  BY DEF Origin, Pid
<1>3. QED
  BY <1>1, <1>2 DEF Origin

LEMMA OriginWork ==
    ASSUME TypeInv, Origin, NEW h \in Handler, Work(h) \/ Fault(h)
    PROVE  Origin'
<1> USE DEF TypeInv, TypeOK, Goto, brokerVars, boundVars
<1>1. CASE Receive(h)
  <2>1. PICK m \in Message : queue[m] > 0 /\ queue' = Take(queue, m) /\ held' = [held EXCEPT ![h] = m]
    BY <1>1 DEF Receive
  <2>2. \A n \in Message : queue'[n] > 0 => queue[n] > 0
    BY <2>1, TakeRemovesOne
  <2>3. retry' = retry /\ dlq' = dlq /\ sends' = sends
    BY <1>1 DEF Receive
  <2>4. \A g \in Handler : g # h => pc'[g] = pc[g] /\ held'[g] = held[g]
    BY <1>1, <2>1 DEF Receive
  <2>5. sends[Pid(h)'] > 0
    BY <2>1 DEF Origin, Pid
  <2>6. \A g \in Handler : pc'[g] # "idle" => sends'[Pid(g)'] > 0
    BY <2>3, <2>4, <2>5 DEF Origin, Pid
  <2>7. QED
    BY <2>2, <2>3, <2>6 DEF Origin
<1>2. CASE LockMissing(h) \/ LockFinal(h) \/ LockPending(h) \/ GatewayAnswers(h)
  BY <1>2, OriginKept DEF LockMissing, LockFinal, LockPending, GatewayAnswers
<1>3. CASE Save(h) \/ Read(h) \/ Post(h) \/ Record(h) \/ Fail(h)
  BY <1>3, OriginKept DEF Save, Read, Post, Record, Fail
<1>4. CASE Ack(h)
  BY <1>4, OriginKept DEF Ack, Leave
<1>5. CASE LoseDatabase(h)
  <2>1. inTx[h] /\ pc' = pc /\ held' = held /\ sends' = sends
        /\ queue' = queue /\ retry' = retry /\ dlq' = dlq
    BY <1>5 DEF LoseDatabase
  <2>2. QED
    BY <2>1 DEF Origin, Pid
<1>6. ASSUME PublishFate(h)
      PROVE  \A n \in Message :
               queue'[n] > 0 \/ retry'[n] > 0 \/ dlq'[n] > 0 =>
                 queue[n] > 0 \/ retry[n] > 0 \/ dlq[n] > 0 \/ n.body = Pid(h)
  BY <1>6, PublishesOne, PutAddsOnly
<1>7. CASE Route(h)
  BY <1>6, <1>7, OriginKept DEF Route, PublishFate
<1>8. CASE RouteFails(h)
  BY <1>6, <1>8, OriginKept DEF RouteFails
<1>9. ASSUME Requeue(h)
      PROVE  \A n \in Message : queue'[n] > 0 => queue[n] > 0 \/ n.body = Pid(h)
  BY <1>9, PutAddsOnly DEF Requeue, Pid
<1>10. CASE Redeliver(h) \/ Crash(h)
  BY <1>9, <1>10, OriginKept DEF Redeliver, Crash, Leave
<1>11. CASE LoseChannel(h)
  BY <1>9, <1>11, OriginKept DEF LoseChannel
<1>12. QED
  BY <1>1, <1>2, <1>3, <1>4, <1>7, <1>8, <1>10, <1>11, <1>5 DEF Work, Fault

LEMMA OriginEnvironment ==
    ASSUME TypeInv, Origin,
           \/ Expire \/ Redrive
           \/ \E b \in Body : Publish(b)
           \/ \E p \in PaymentId : Insert(p)
    PROVE  Origin'
<1> USE DEF TypeInv, TypeOK, handlerVars, boundVars
<1>1. CASE Expire
  <2>1. PICK m \in Message : retry[m] > 0 /\ retry' = Take(retry, m) /\ queue' = Put(queue, m)
    BY <1>1 DEF Expire
  <2>2. \A n \in Message : (queue'[n] > 0 => queue[n] > 0 \/ n = m) /\ (retry'[n] > 0 => retry[n] > 0)
    BY <2>1, PutAddsOnly, TakeRemovesOne
  <2>3. QED
    BY <1>1, <2>1, <2>2 DEF Expire, Origin, Pid
<1>2. CASE Redrive
  <2>1. PICK m \in Message :
          dlq[m] > 0 /\ dlq' = Take(dlq, m) /\ queue' = Put(queue, [m EXCEPT !.header = 0])
    BY <1>2 DEF Redrive
  <2>2. [m EXCEPT !.header = 0] \in Message /\ [m EXCEPT !.header = 0].body = m.body
    <3>1. 0 \in Header
      BY RetryAssumption DEF Header
    <3>2. QED
      BY <3>1 DEF Message
  <2>3. PICK k \in Message : k.body = m.body /\ queue' = Put(queue, k)
    BY <2>1, <2>2
  <2>4. \A n \in Message : queue'[n] > 0 => queue[n] > 0 \/ n = k
    BY <2>3, PutAddsOnly
  <2>5. \A n \in Message : dlq'[n] > 0 => dlq[n] > 0
    BY <2>1, TakeRemovesOne
  <2>6. QED
    BY <1>2, <2>1, <2>3, <2>4, <2>5 DEF Redrive, Origin, Pid
<1>3. ASSUME NEW b \in Body, Publish(b)
      PROVE  Origin'
  <2>1. PICK n \in {0, 1} : queue' = Put(queue, [body |-> b, header |-> n])
    BY <1>3 DEF Publish
  <2>2. [body |-> b, header |-> n] \in Message
    <3>1. n \in Header
      BY RetryAssumption DEF Header
    <3>2. QED
      BY <3>1 DEF Message
  <2>3. \A k \in Message : queue'[k] > 0 => queue[k] > 0 \/ k.body = b
    BY <2>1, <2>2, PutAddsOnly
  <2>4. sends'[b] > 0 /\ \A c \in Body : sends[c] > 0 => sends'[c] > 0
    BY <1>3 DEF Publish
  <2>5. \A k \in Message : k.body \in Body
    BY DEF Message
  <2>6. \A h \in Handler : Pid(h)' = Pid(h) /\ Pid(h) \in Body /\ pc'[h] = pc[h]
    BY <1>3, <2>5 DEF Publish, Pid
  <2>7. \A k \in Message : queue'[k] > 0 \/ retry'[k] > 0 \/ dlq'[k] > 0 => sends'[k.body] > 0
    <3>1. retry' = retry /\ dlq' = dlq
      BY <1>3 DEF Publish
    <3>2. QED
      BY <3>1, <2>3, <2>4, <2>5 DEF Origin
  <2>8. \A h \in Handler : pc'[h] # "idle" => sends'[Pid(h)'] > 0
    BY <2>4, <2>6 DEF Origin
  <2>9. QED
    BY <2>7, <2>8 DEF Origin
<1>4. ASSUME NEW p \in PaymentId, Insert(p)
      PROVE  Origin'
  BY <1>4 DEF Insert, brokerVars, Origin, Pid
<1>5. QED
  BY <1>1, <1>2, <1>3, <1>4

\* No retry, redelivery or redrive invents a message: every message a handler is
\* given, and every one in a queue, has a body that was published.
THEOREM MessagesWerePublished == Spec => []Origin
<1>1. Init => Origin
  BY DEF Init, EmptyBag, Origin
<1>2. ASSUME TypeInv, Origin, UNCHANGED vars
      PROVE  Origin'
  BY <1>2 DEF vars, brokerVars, handlerVars, boundVars, Origin, Pid
<1>3. TypeInv /\ Origin /\ [Next]_vars => Origin'
  BY <1>2, OriginWork, OriginEnvironment DEF Next
<1>4. QED
  BY <1>1, <1>3, TypeInit, TypeStep, PTL DEF Spec
----------------------------------------------------------------------------
(* The consumer implements Settlement.                                     *)

\* A handler's steps, seen from outside, are steps of Settlement.
LEMMA WorkIsPromised ==
    ASSUME TypeInv, SettlementInv, NEW h \in Handler, Work(h) \/ Fault(h)
    PROVE  [Promise!Next]_(Promise!vars)
<1> USE DEF TypeInv, TypeOK, StageTyped
<1> DEFINE P == Pid(h)
<1>1. CASE Save(h)
  <2>1. /\ P \in PaymentId /\ copy[h] = payment[P] /\ payment[P].status = "pending"
        /\ result[h] \in Final
    BY <1>1 DEF Save, SettlementInv, SettlementExclusive
  <2>2. payment' = [payment EXCEPT ![P] = [payment[P] EXCEPT !.status = result[h]]]
    BY <1>1, <2>1 DEF Save, Transition
  <2>3. /\ [p \in PaymentId |-> payment[p].status]'
             = [[p \in PaymentId |-> payment[p].status] EXCEPT ![P] = result[h]]
        /\ [p \in PaymentId |-> payment[p].delivered]' = [p \in PaymentId |-> payment[p].delivered]
    BY <2>1, <2>2 DEF Row
  <2>4. Promise!Settle(P)
    BY <1>1, <2>1, <2>3 DEF Save, historyVars, Promise!Settle, Promise!Final, Final
  <2>5. Promise!Next
    BY <2>1, <2>4 DEF Promise!Next, Promise!Settle
  <2>6. QED
    BY <2>5
<1>2. CASE Post(h)
  <2>1. P \in PaymentId /\ copy[h].status = payment[P].status /\ payment[P].status \in Final
    BY <1>2 DEF Post, SettlementInv, StaleCopyHarmless, IsFinal
  <2>2. /\ posted' = [posted EXCEPT ![P] = @ \cup {payment[P].status}]
        /\ \E ok \in BOOLEAN : accepted' = [accepted EXCEPT ![P] = @ \/ ok]
        /\ payment' = payment
    BY <1>2, <2>1 DEF Post
  <2>3. Promise!Announce(P)
    BY <2>1, <2>2 DEF Promise!Announce, Promise!Final, Final
  <2>4. Promise!Next
    BY <2>1, <2>3, Zenon DEF Promise!Next
  <2>5. QED
    BY <2>4
<1>3. CASE Record(h)
  <2>1. /\ P \in PaymentId /\ copy[h].status = payment[P].status /\ ~ copy[h].delivered
        /\ copy[h] \in Row /\ (result[h] = "ok" => accepted[P])
    BY <1>3 DEF Record, SettlementInv, StaleCopyHarmless, StageTrue
  <2>2. /\ RecordedRow(h).status = payment[P].status
        /\ RecordedRow(h).delivered \in BOOLEAN
        /\ RecordedRow(h).delivered => accepted[P]
    BY <2>1 DEF RecordedRow, MarkDelivered, MarkDeliveryFailed, Row
  <2>3. /\ payment' = [payment EXCEPT ![P] = RecordedRow(h)]
        /\ posted' = posted /\ accepted' = accepted
    BY <1>3 DEF Record
  <2>4. /\ [p \in PaymentId |-> payment[p].status]' = [p \in PaymentId |-> payment[p].status]
        /\ [p \in PaymentId |-> payment[p].delivered]'
             = [[p \in PaymentId |-> payment[p].delivered] EXCEPT ![P] = RecordedRow(h).delivered]
    BY <2>1, <2>2, <2>3
  <2>5. payment[P].delivered \in BOOLEAN
    BY <2>1 DEF Row
  <2>6. CASE RecordedRow(h).delivered = payment[P].delivered
    BY <2>3, <2>4, <2>6 DEF Promise!vars
  <2>7. CASE RecordedRow(h).delivered /\ ~ payment[P].delivered
    <3>1. Promise!Record(P)
      BY <2>1, <2>2, <2>3, <2>4, <2>7 DEF Promise!Record
    <3>2. Promise!Next
      BY <2>1, <3>1 DEF Promise!Next, Promise!Record
    <3>3. QED
      BY <3>2
  <2>8. CASE ~ RecordedRow(h).delivered /\ payment[P].delivered
    <3>1. Promise!Erase(P)
      BY <2>1, <2>2, <2>3, <2>4, <2>8 DEF Promise!Erase
    <3>2. Promise!Next
      BY <2>1, <3>1 DEF Promise!Next, Promise!Erase
    <3>3. QED
      BY <3>2
  <2>9. QED
    BY <2>2, <2>5, <2>6, <2>7, <2>8
<1>4. CASE UNCHANGED <<payment, posted, accepted>>
  BY <1>4 DEF Promise!vars
<1>5. QED
  BY <1>1, <1>2, <1>3, <1>4 DEF Work, Fault, Receive, LockMissing, LockFinal, LockPending,
     GatewayAnswers, Read, Fail, Route, Ack, Redeliver, RouteFails, Crash, LoseChannel,
     LoseDatabase, historyVars

\* Every step of the consumer is a step of Settlement or leaves it as it is.
LEMMA StepIsPromised ==
    ASSUME TypeInv, SettlementInv, [Next]_vars
    PROVE  [Promise!Next]_(Promise!vars)
<1>1. ASSUME NEW p \in PaymentId, Insert(p)
      PROVE  Promise!Next
  <2>1. /\ payment \in [PaymentId -> Row] /\ payment[p] = NoRow
        /\ payment' = [payment EXCEPT ![p] = NewRow]
        /\ posted' = posted /\ accepted' = accepted
    BY <1>1 DEF Insert, historyVars, TypeInv, TypeOK
  <2>2. /\ [q \in PaymentId |-> payment[q].status]'
             = [[q \in PaymentId |-> payment[q].status] EXCEPT ![p] = "pending"]
        /\ [q \in PaymentId |-> payment[q].delivered]' = [q \in PaymentId |-> payment[q].delivered]
    <3>1. /\ payment'[p].status = "pending" /\ payment'[p].delivered = payment[p].delivered
          /\ \A q \in PaymentId \ {p} : payment'[q] = payment[q]
      BY <2>1 DEF NoRow, NewRow
    <3>2. QED
      BY <3>1
  <2>3. Promise!Create(p)
    BY <2>1, <2>2 DEF Promise!Create, NoRow
  <2>4. QED
    BY <2>3 DEF Promise!Next
<1>2. CASE UNCHANGED <<payment, posted, accepted>>
  BY <1>2 DEF Promise!vars
<1>3. QED
  BY <1>1, <1>2, WorkIsPromised DEF Next, Expire, Publish, Redrive, vars, historyVars

\* The consumer implements Settlement: whatever its handlers, retries and
\* failures do to rows and receivers is one decision per payment, announced
\* truthfully, and a delivery recorded only when it was accepted.
THEOREM ConsumerImplementsSettlement == Spec => SettlementImplemented
<1>1. Init => Promise!Init
  BY DEF Init, Promise!Init, NoRow
<1>2. TypeInv /\ SettlementInv /\ [Next]_vars => [Promise!Next]_(Promise!vars)
  BY StepIsPromised
<1>3. Spec => Promise!Spec
  BY <1>1, <1>2, SettlementAlways, PTL DEF Spec, Promise!Spec
<1>4. QED
  BY <1>3 DEF SettlementImplemented
============================================================================
