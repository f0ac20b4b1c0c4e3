------------------------ MODULE CreatePaymentProofs ------------------------
(***************************************************************************)
(* Theorems about CreatePayment, for every set of requests, keys and       *)
(* fingerprints.                                                           *)
(***************************************************************************)
EXTENDS CreatePayment, TLAPS

\* What an open transaction has inserted follows from the stage of its request.
PendingByStage ==
    \A r \in Request :
        /\ pc[r] = "event" => pending[r] = {"payments"}
        /\ pc[r] = "commit" => pending[r] = {"payments", "outbox"}
        /\ pc[r] \notin {"event", "commit"} => pending[r] = {}

\* The unique index: a key that a transaction has inserted is in no other open
\* transaction and in no committed row.
KeyReserved ==
    \A r \in Request : "payments" \in pending[r] =>
        /\ Existing(r) = {}
        /\ \A s \in Inserting(r) : s = r

KeyInv == TypeOK /\ PendingByStage /\ KeyReserved

IdempotencyInv ==
    KeyInv /\ OutboxMatchesPayments /\ OneAnswerPerKey /\ ConflictIsReal /\ RaceHasWinner
----------------------------------------------------------------------------
\* Nothing is asked, stored or answered at the start.
LEMMA IdempotencyInit == Init => IdempotencyInv
<1> SUFFICES ASSUME Init PROVE IdempotencyInv
  OBVIOUS
<1>1. TypeOK
  BY DEF Init, TypeOK, Stage, Reply
<1>2. PendingByStage /\ KeyReserved /\ OutboxMatchesPayments /\ RaceHasWinner
  BY DEF Init, PendingByStage, KeyReserved, OutboxMatchesPayments, RaceHasWinner
<1>3. OneAnswerPerKey /\ ConflictIsReal
  BY DEF Init, OneAnswerPerKey, ConflictIsReal, NoReply, Accepted, Conflict
<1>4. QED
  BY <1>1, <1>2, <1>3 DEF IdempotencyInv, KeyInv

\* Types, transactions and the unique index.
LEMMA KeyStep == KeyInv /\ [Next]_vars => KeyInv'
<1> SUFFICES ASSUME KeyInv, [Next]_vars PROVE KeyInv'
  OBVIOUS
<1> USE DEF KeyInv, TypeOK, PendingByStage, Goto, Stage
<1>1. ASSUME NEW r \in Request, NEW answer \in Reply, Answer(r, answer),
             UNCHANGED <<asked, payments, outbox>>
      PROVE  KeyInv'
  <2>1. TypeOK' /\ PendingByStage'
    BY <1>1 DEF Answer
  <2>2. KeyReserved'
    BY <1>1 DEF Answer, KeyReserved, Existing, Inserting
  <2>3. QED
    BY <2>1, <2>2
<1>2. ASSUME NEW r \in Request, Arrive(r) \/ NotFound(r) \/ DuplicateKey(r)
      PROVE  KeyInv'
  <2>1. TypeOK' /\ PendingByStage'
    BY <1>2 DEF Arrive, NotFound, DuplicateKey
  <2>2. KeyReserved'
    BY <1>2 DEF Arrive, NotFound, DuplicateKey, KeyReserved, Existing, Inserting
  <2>3. QED
    BY <2>1, <2>2
<1>3. ASSUME NEW r \in Request, Found(r)
      PROVE  KeyInv'
  <2>1. \A id \in Request : Resolve(r, id) \in Reply
    BY DEF Resolve, Reply
  <2>2. QED
    BY <1>1, <1>3, <2>1 DEF Found, Existing
<1>4. ASSUME NEW r \in Request, Insert(r)
      PROVE  KeyInv'
  <2>1. TypeOK' /\ PendingByStage'
    BY <1>4 DEF Insert
  <2>2. KeyReserved'
    BY <1>4 DEF Insert, KeyReserved, Existing, Inserting
  <2>3. QED
    BY <2>1, <2>2
<1>5. ASSUME NEW r \in Request, AddEvent(r)
      PROVE  KeyInv'
  <2>1. TypeOK' /\ PendingByStage'
    BY <1>5 DEF AddEvent
  <2>2. KeyReserved'
    BY <1>5 DEF AddEvent, KeyReserved, Existing, Inserting
  <2>3. QED
    BY <2>1, <2>2
<1>6. ASSUME NEW r \in Request, Commit(r)
      PROVE  KeyInv'
  <2>1. TypeOK' /\ PendingByStage'
    BY <1>6 DEF Commit, Answer, Reply
  <2>2. KeyReserved'
    BY <1>6 DEF Commit, Answer, KeyReserved, Existing, Inserting
  <2>3. QED
    BY <2>1, <2>2
<1>7. ASSUME NEW r \in Request, Fail(r)
      PROVE  KeyInv'
  BY <1>1, <1>7 DEF Fail, Reply
<1>8. CASE UNCHANGED vars
  BY <1>8 DEF vars, KeyReserved, Existing, Inserting
<1>9. QED
  BY <1>2, <1>3, <1>4, <1>5, <1>6, <1>7, <1>8 DEF Next, Serve

\* Answers.  Only a commit adds a payment, and only for a reserved key.
LEMMA IdempotencyStep == IdempotencyInv /\ [Next]_vars => IdempotencyInv'
<1> SUFFICES ASSUME IdempotencyInv, [Next]_vars
             PROVE  (OutboxMatchesPayments /\ OneAnswerPerKey /\ ConflictIsReal /\ RaceHasWinner)'
  BY KeyStep DEF IdempotencyInv
<1> USE DEF IdempotencyInv, KeyInv, TypeOK, Goto
<1>1. ASSUME NEW r \in Request, NEW answer \in {Failed, NoReply}, Answer(r, answer),
             UNCHANGED <<asked, payments, outbox>>
      PROVE  (OutboxMatchesPayments /\ OneAnswerPerKey /\ ConflictIsReal /\ RaceHasWinner)'
  <2>1. answer # Conflict /\ \A id : answer # Accepted(id)
    BY DEF Failed, NoReply, Conflict, Accepted
  <2>2. OutboxMatchesPayments' /\ RaceHasWinner'
    BY <1>1 DEF Answer, OutboxMatchesPayments, RaceHasWinner, Existing
  <2>3. OneAnswerPerKey' /\ ConflictIsReal'
    BY <1>1, <2>1 DEF Answer, OneAnswerPerKey, ConflictIsReal
  <2>4. QED
    BY <2>2, <2>3
<1>2. ASSUME NEW r \in Request, UNCHANGED <<asked, payments, outbox, reply>>,
             Arrive(r) \/ NotFound(r) \/ Insert(r) \/ DuplicateKey(r) \/ AddEvent(r)
      PROVE  (OutboxMatchesPayments /\ OneAnswerPerKey /\ ConflictIsReal /\ RaceHasWinner)'
  <2>1. OutboxMatchesPayments' /\ OneAnswerPerKey' /\ ConflictIsReal'
    BY <1>2 DEF OutboxMatchesPayments, OneAnswerPerKey, ConflictIsReal
  <2>2. RaceHasWinner'
    BY <1>2 DEF Arrive, NotFound, Insert, DuplicateKey, AddEvent, RaceHasWinner, Existing
  <2>3. QED
    BY <2>1, <2>2
<1>3. ASSUME NEW r \in Request, Found(r)
      PROVE  (OutboxMatchesPayments /\ OneAnswerPerKey /\ ConflictIsReal /\ RaceHasWinner)'
  <2>1. PICK id \in payments : asked[id].key = asked[r].key /\ Answer(r, Resolve(r, id))
    BY <1>3 DEF Found, Existing
  <2>2. CASE asked[id].fingerprint = asked[r].fingerprint
    <3>1. reply' = [reply EXCEPT ![r] = Accepted(id)] /\ asked[id] = asked[r]
      BY <2>1, <2>2 DEF Resolve, Answer
    <3>2. Accepted(id) # Conflict /\ \A other : Accepted(id) = Accepted(other) => other = id
      BY DEF Accepted, Conflict
    <3>3. OneAnswerPerKey' /\ ConflictIsReal'
      BY <1>3, <3>1, <3>2 DEF Found, OneAnswerPerKey, ConflictIsReal
    <3>4. QED
      BY <1>3, <2>1, <3>3 DEF Found, Answer, OutboxMatchesPayments, RaceHasWinner, Existing
  <2>3. CASE asked[id].fingerprint # asked[r].fingerprint
    <3>1. reply' = [reply EXCEPT ![r] = Conflict]
      BY <2>1, <2>3 DEF Resolve, Answer
    <3>2. \A other : Conflict # Accepted(other)
      BY DEF Accepted, Conflict
    <3>3. OneAnswerPerKey' /\ ConflictIsReal'
      BY <1>3, <2>1, <2>3, <3>1, <3>2 DEF Found, OneAnswerPerKey, ConflictIsReal
    <3>4. QED
      BY <1>3, <2>1, <3>3 DEF Found, Answer, OutboxMatchesPayments, RaceHasWinner, Existing
  <2>4. QED
    BY <2>2, <2>3
<1>4. ASSUME NEW r \in Request, Commit(r)
      PROVE  (OutboxMatchesPayments /\ OneAnswerPerKey /\ ConflictIsReal /\ RaceHasWinner)'
  <2>1. pending[r] = {"payments", "outbox"} /\ Existing(r) = {}
    BY <1>4 DEF Commit, PendingByStage, KeyReserved
  <2>2. payments' = payments \cup {r} /\ outbox' = outbox \cup {r} /\ asked' = asked
    BY <1>4, <2>1 DEF Commit
  <2>3. PICK answer \in {Accepted(r), Failed} : Answer(r, answer)
    BY <1>4 DEF Commit
  <2>4. answer # Conflict /\ \A id : answer = Accepted(id) => id = r
    BY DEF Failed, Conflict, Accepted
  <2>5. OutboxMatchesPayments' /\ RaceHasWinner'
    BY <2>2, <2>3 DEF Answer, OutboxMatchesPayments, RaceHasWinner, Existing
  <2>6. OneAnswerPerKey' /\ ConflictIsReal'
    BY <2>1, <2>2, <2>3, <2>4 DEF Answer, OneAnswerPerKey, ConflictIsReal, Existing
  <2>7. QED
    BY <2>5, <2>6
<1>5. ASSUME NEW r \in Request, Fail(r)
      PROVE  (OutboxMatchesPayments /\ OneAnswerPerKey /\ ConflictIsReal /\ RaceHasWinner)'
  BY <1>1, <1>5 DEF Fail
<1>6. CASE UNCHANGED vars
  BY <1>6 DEF vars, OutboxMatchesPayments, OneAnswerPerKey, ConflictIsReal, RaceHasWinner, Existing
<1>7. QED
  BY <1>2, <1>3, <1>4, <1>5, <1>6
     DEF Next, Serve, Arrive, NotFound, Insert, DuplicateKey, AddEvent

\* The invariant holds in every reachable state.
LEMMA IdempotencyAlways == Spec => []IdempotencyInv
  BY IdempotencyInit, IdempotencyStep, PTL DEF Spec

\* Every reachable state is well typed.
THEOREM TypeCorrect == Spec => []TypeOK
<1>1. IdempotencyInv => TypeOK
  BY DEF IdempotencyInv, KeyInv
<1>2. QED
  BY <1>1, IdempotencyAlways, PTL

\* However requests interleave and fail: one payment per key, and every client
\* that is given a payment is given that one.
THEOREM CreationIsIdempotent == Spec => []OneAnswerPerKey
<1>1. IdempotencyInv => OneAnswerPerKey
  BY DEF IdempotencyInv
<1>2. QED
  BY <1>1, IdempotencyAlways, PTL

\* Committed payments and committed outbox rows match one to one.
THEOREM OutboxIsTransactional == Spec => []OutboxMatchesPayments
<1>1. IdempotencyInv => OutboxMatchesPayments
  BY DEF IdempotencyInv
<1>2. QED
  BY <1>1, IdempotencyAlways, PTL

\* A conflict is only ever reported against a payment with another payload.
THEOREM ConflictsAreReal == Spec => []ConflictIsReal
<1>1. IdempotencyInv => ConflictIsReal
  BY DEF IdempotencyInv
<1>2. QED
  BY <1>1, IdempotencyAlways, PTL

\* The second lookup of a lost race always finds the winner.
THEOREM RacesHaveWinners == Spec => []RaceHasWinner
<1>1. IdempotencyInv => RaceHasWinner
  BY DEF IdempotencyInv
<1>2. QED
  BY <1>1, IdempotencyAlways, PTL
----------------------------------------------------------------------------
(* Linearizability.                                                        *)

\* The phases and the keys that CreatePayment shows to its clients.
PhaseOf == [r \in Request |-> IF pc[r] \in {"new", "done"} THEN pc[r] ELSE "open"]
BoundOf == [k \in Key |-> {id \in payments : asked[id].key = k}]

\* An answer ends the request in the store as well.
LEMMA AnswerIsStored ==
    ASSUME IdempotencyInv, NEW r \in Request, NEW answer, Answer(r, answer), asked' = asked,
           pc[r] \notin {"new", "done"}
    PROVE  Store!Answer(r, answer)
<1>1. PhaseOf[r] = "open" /\ PhaseOf' = [PhaseOf EXCEPT ![r] = "done"]
  BY DEF PhaseOf, Answer, Goto, IdempotencyInv, KeyInv, TypeOK
<1>2. QED
  BY <1>1 DEF PhaseOf, Answer, Store!Answer

\* A stage change of an open request is invisible.
LEMMA StepInsideIsHidden ==
    ASSUME IdempotencyInv, NEW r \in Request, NEW stage, pc' = [pc EXCEPT ![r] = stage],
           pc[r] \notin {"new", "done"}, stage \notin {"new", "done"},
           UNCHANGED <<asked, payments, reply>>
    PROVE  UNCHANGED Store!vars
<1>1. PhaseOf' = PhaseOf
  BY DEF PhaseOf, IdempotencyInv, KeyInv, TypeOK
<1>2. BoundOf' = BoundOf
  BY DEF BoundOf
<1>3. QED
  BY <1>1, <1>2 DEF PhaseOf, BoundOf, Store!vars

\* Every step of a request is one step of the store, or none.
LEMMA StepIsAtomic ==
    ASSUME IdempotencyInv, [Next]_vars
    PROVE  [Store!Next]_(Store!vars)
<1>1. ASSUME NEW r \in Request, Arrive(r)
      PROVE  Store!Next
  <2>1. PhaseOf[r] = "new" /\ PhaseOf' = [PhaseOf EXCEPT ![r] = "open"]
    BY <1>1 DEF PhaseOf, Arrive, Goto, IdempotencyInv, KeyInv, TypeOK
  <2>2. BoundOf' = BoundOf
    BY <1>1 DEF BoundOf, Arrive
  <2>3. Store!Arrive(r)
    BY <1>1, <2>1, <2>2 DEF Arrive, PhaseOf, BoundOf, Store!Arrive
  <2>4. QED
    BY <2>3 DEF Store!Next, Store!Arrive
<1>2. ASSUME NEW r \in Request, Found(r)
      PROVE  Store!Next
  <2>1. PICK id \in payments :
          /\ asked[id].key = asked[r].key /\ Answer(r, Resolve(r, id))
          /\ asked' = asked /\ payments' = payments /\ pc[r] \notin {"new", "done"}
    BY <1>2 DEF Found, Existing
  <2>2. PICK answer : answer = Resolve(r, id)
    OBVIOUS
  <2>3. Store!Answer(r, answer)
    BY <2>1, <2>2, AnswerIsStored
  <2>4. BoundOf' = BoundOf /\ asked[r].key \in Key /\ id \in BoundOf[asked[r].key]
    BY <2>1 DEF BoundOf, IdempotencyInv, KeyInv, TypeOK
  <2>5. Store!Replay(r)
    BY <2>2, <2>3, <2>4 DEF BoundOf, Resolve, Accepted, Conflict, Store!Replay, Store!Answer
  <2>6. QED
    BY <2>5 DEF Store!Next, Store!Replay
<1>3. ASSUME NEW r \in Request, Commit(r)
      PROVE  Store!Next
  <2>1. pending[r] = {"payments", "outbox"} /\ Existing(r) = {}
    BY <1>3 DEF Commit, IdempotencyInv, KeyInv, PendingByStage, KeyReserved
  <2>2. payments' = payments \cup {r} /\ asked' = asked /\ pc[r] = "commit"
    BY <1>3, <2>1 DEF Commit
  <2>3. /\ asked[r].key \in Key /\ BoundOf[asked[r].key] = {}
        /\ BoundOf' = [BoundOf EXCEPT ![asked[r].key] = {r}]
    BY <2>1, <2>2 DEF BoundOf, Existing, IdempotencyInv, KeyInv, TypeOK
  <2>4. PICK answer \in {Accepted(r), Failed} : Answer(r, answer)
    BY <1>3 DEF Commit
  <2>5. Store!Answer(r, answer)
    BY <2>2, <2>4, AnswerIsStored
  <2>6. Store!Bind(r)
    BY <2>3, <2>5 DEF BoundOf, Accepted, Failed, Store!Bind
  <2>7. QED
    BY <2>6 DEF Store!Next, Store!Bind
<1>4. ASSUME NEW r \in Request, Fail(r)
      PROVE  Store!Next
  <2>1. PICK answer \in {Failed, NoReply} : Answer(r, answer)
    BY <1>4 DEF Fail
  <2>2. Store!Answer(r, answer) /\ BoundOf' = BoundOf
    BY <1>4, <2>1, AnswerIsStored DEF Fail, BoundOf
  <2>3. Store!Abort(r)
    BY <2>2 DEF BoundOf, Failed, NoReply, Store!Abort
  <2>4. QED
    BY <2>3 DEF Store!Next, Store!Abort
<1>5. ASSUME NEW r \in Request, NotFound(r) \/ Insert(r) \/ DuplicateKey(r) \/ AddEvent(r)
      PROVE  UNCHANGED Store!vars
  BY <1>5, StepInsideIsHidden DEF NotFound, Insert, DuplicateKey, AddEvent, Goto
<1>6. CASE UNCHANGED vars
  BY <1>6 DEF vars, Store!vars
<1>7. QED
  BY <1>1, <1>2, <1>3, <1>4, <1>5, <1>6 DEF Next, Serve

\* CreatePayment implements the atomic store.
THEOREM CreationIsLinearizable == Spec => StoreImplemented
<1>1. Init => Store!Init
  BY DEF Init, NoReply, Store!Init
<1>2. IdempotencyInv /\ [Next]_vars => [Store!Next]_(Store!vars)
  BY StepIsAtomic
<1>3. Spec => Store!Spec
  BY <1>1, <1>2, IdempotencyAlways, PTL DEF Spec, Store!Spec
<1>4. QED
  BY <1>3 DEF StoreImplemented
============================================================================
