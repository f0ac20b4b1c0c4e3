--------------------------- MODULE CreatePayment ---------------------------
(***************************************************************************)
(* Creating a payment: CreatePaymentService as concurrent requests of API  *)
(* processes against one database, with the unique index on the            *)
(* idempotency key, the transactional outbox row, and the second lookup    *)
(* that resolves a race.                                                   *)
(*                                                                         *)
(* A request is one POST /api/v1/payments; a client that retries sends     *)
(* another one with the same key.  A payment is named by the request that  *)
(* inserted it.  The effect of a transaction is its commit; a transaction  *)
(* whose connection the database has dropped can only end in Fail.         *)
(***************************************************************************)
EXTENDS Integers, FiniteSets

CONSTANTS
    Request,        \* POST requests
    Key,            \* idempotency keys
    Fingerprint     \* request fingerprints: what the payloads are told apart by

VARIABLES
    asked,          \* the key and the fingerprint of each request
    pc,             \* the stage each request has reached
    pending,        \* tables the request's open transaction has inserted into
    payments,       \* committed payments: the request that inserted each
    outbox,         \* committed outbox rows: the payment each announces
    reply           \* what the client has been told

vars == <<asked, pc, pending, payments, outbox, reply>>

Stage == {"new", "lookup", "insert", "event", "commit", "race", "done"}

\* The client's answers: none, an error, 409, or 202 with a payment.
NoReply == [status |-> "none"]
Failed == [status |-> "error"]
Conflict == [status |-> "conflict"]
Accepted(id) == [status |-> "accepted", id |-> id]
Reply == {NoReply, Failed, Conflict} \cup {Accepted(id) : id \in Request}

TypeOK ==
    /\ asked \in [Request -> [key : Key, fingerprint : Fingerprint]]
    /\ pc \in [Request -> Stage]
    /\ pending \in [Request -> SUBSET {"payments", "outbox"}]
    /\ payments \subseteq Request /\ outbox \subseteq Request
    /\ reply \in [Request -> Reply]

Init ==
    /\ asked \in [Request -> [key : Key, fingerprint : Fingerprint]]
    /\ pc = [r \in Request |-> "new"]
    /\ pending = [r \in Request |-> {}]
    /\ payments = {} /\ outbox = {}
    /\ reply = [r \in Request |-> NoReply]
----------------------------------------------------------------------------
Goto(r, stage) == pc' = [pc EXCEPT ![r] = stage]

\* The request is over, its transaction committed or rolled back.
Answer(r, answer) ==
    /\ Goto(r, "done")
    /\ reply' = [reply EXCEPT ![r] = answer]
    /\ pending' = [pending EXCEPT ![r] = {}]

\* Committed payments with the request's idempotency key.
Existing(r) == {id \in payments : asked[id].key = asked[r].key}

\* Mutant: a payment that was found is always taken for a conflict.
ResolveConflict(r, id) == Conflict

\* _resolve_existing.
Resolve(r, id) ==
    IF asked[id].fingerprint = asked[r].fingerprint THEN Accepted(id) ELSE Conflict

Arrive(r) ==
    /\ pc[r] = "new"
    /\ Goto(r, "lookup")
    /\ UNCHANGED <<asked, pending, payments, outbox, reply>>

\* get_by_idempotency_key, at the start of the first or of the second
\* transaction, finds a payment.
Found(r) ==
    /\ pc[r] \in {"lookup", "race"}
    /\ \E id \in Existing(r) : Answer(r, Resolve(r, id))
    /\ UNCHANGED <<asked, payments, outbox>>

\* The first lookup finds nothing.
NotFound(r) ==
    /\ pc[r] = "lookup" /\ Existing(r) = {}
    /\ Goto(r, "insert")
    /\ UNCHANGED <<asked, pending, payments, outbox, reply>>

\* Requests whose open transactions have inserted this request's key.
Inserting(r) == {s \in Request : asked[s].key = asked[r].key /\ "payments" \in pending[s]}

\* Mutants: the unique index is missing; a second insertion of a key does not
\* wait for the first to commit.
InsertNotUnique(r) ==
    /\ pc[r] = "insert"
    /\ pending' = [pending EXCEPT ![r] = @ \cup {"payments"}]
    /\ Goto(r, "event")
    /\ UNCHANGED <<asked, payments, outbox, reply>>
DuplicateKeyAtOnce(r) ==
    /\ pc[r] = "insert" /\ (Inserting(r) # {} \/ Existing(r) # {})
    /\ Goto(r, "race")
    /\ UNCHANGED <<asked, pending, payments, outbox, reply>>

\* payments.add: the INSERT waits for every open transaction that has inserted
\* the same key, and succeeds if none has committed it.
Insert(r) ==
    /\ pc[r] = "insert" /\ Inserting(r) = {} /\ Existing(r) = {}
    /\ pending' = [pending EXCEPT ![r] = @ \cup {"payments"}]
    /\ Goto(r, "event")
    /\ UNCHANGED <<asked, payments, outbox, reply>>

\* IntegrityError, turned into PersistenceConflictError; the rolled back
\* transaction gives way to the one of _resolve_idempotency_race.
DuplicateKey(r) ==
    /\ pc[r] = "insert" /\ Inserting(r) = {} /\ Existing(r) # {}
    /\ Goto(r, "race")
    /\ UNCHANGED <<asked, pending, payments, outbox, reply>>

\* Mutant: the payment is committed before its outbox row is inserted.
AddEventLate(r) ==
    /\ pc[r] = "event"
    /\ payments' = payments \cup {r}
    /\ pending' = [pending EXCEPT ![r] = {"outbox"}]
    /\ Goto(r, "commit")
    /\ UNCHANGED <<asked, outbox, reply>>

\* outbox.add.
AddEvent(r) ==
    /\ pc[r] = "event"
    /\ pending' = [pending EXCEPT ![r] = @ \cup {"outbox"}]
    /\ Goto(r, "commit")
    /\ UNCHANGED <<asked, payments, outbox, reply>>

\* The commit makes both rows visible.  Its answer may be lost: then the client
\* is told of an error although the payment exists.
Commit(r) ==
    /\ pc[r] = "commit"
    /\ payments' = IF "payments" \in pending[r] THEN payments \cup {r} ELSE payments
    /\ outbox' = IF "outbox" \in pending[r] THEN outbox \cup {r} ELSE outbox
    /\ \E answer \in {Accepted(r), Failed} : Answer(r, answer)
    /\ UNCHANGED asked

\* Mutant: the inserted rows are not rolled back.
FailWithoutRollback(r) ==
    /\ pc[r] \notin {"new", "done"}
    /\ Goto(r, "done")
    /\ reply' = [reply EXCEPT ![r] = Failed]
    /\ UNCHANGED <<asked, pending, payments, outbox>>

\* Mutant: the client is answered although the commit has failed.
FailUnnoticed(r) ==
    /\ pc[r] \notin {"new", "done"}
    /\ \E answer \in {Accepted(r), NoReply} : Answer(r, answer)
    /\ UNCHANGED <<asked, payments, outbox>>

\* An exception of the database, or the death of the API process, which the
\* client sees as an error or not at all: the database rolls back.
Fail(r) ==
    /\ pc[r] \notin {"new", "done"}
    /\ \E answer \in {Failed, NoReply} : Answer(r, answer)
    /\ UNCHANGED <<asked, payments, outbox>>

Serve(r) ==
    \/ Found(r) \/ NotFound(r) \/ Insert(r) \/ DuplicateKey(r) \/ AddEvent(r) \/ Commit(r)

Next == \E r \in Request : Arrive(r) \/ Serve(r) \/ Fail(r)

Spec == Init /\ [][Next]_vars

\* A request that has arrived is served as long as nothing makes it fail.
FairSpec == Spec /\ \A r \in Request : WF_vars(Serve(r))
----------------------------------------------------------------------------
\* The transactional outbox: a committed payment has exactly one outbox row and
\* an outbox row a committed payment, although the rows are inserted one after
\* the other and the request may fail anywhere between.
OutboxMatchesPayments == outbox = payments

\* Idempotency.  However requests with one key interleave, fail and are
\* retried, at most one payment is ever committed for the key, every client
\* that is given a payment is given that one, it is really committed, and it
\* is the payment the client has asked for.
OneAnswerPerKey ==
    /\ \A id, other \in payments : asked[id].key = asked[other].key => id = other
    /\ \A r \in Request : \A id \in Request : reply[r] = Accepted(id) =>
        id \in payments /\ asked[id] = asked[r]

\* A client is told of a conflict only when another payload really holds its
\* key: no retry of a request with the same payload ever sees 409.
ConflictIsReal ==
    \A r \in Request : reply[r] = Conflict =>
        \E id \in payments :
            asked[id].key = asked[r].key /\ asked[id].fingerprint # asked[r].fingerprint

\* Whoever loses the race for a key finds the winner's payment in its second
\* lookup; the original error, a 500 for the client, is never raised again.
RaceHasWinner ==
    \A r \in Request : pc[r] = "race" => Existing(r) # {}

\* Linearizability.  With its two transactions, the index that makes one insert
\* wait for another, and the second lookup, every request still takes effect in
\* one step between its arrival and its answer, in which it binds its key, is
\* answered with what holds it, or does nothing.
Store ==
    INSTANCE IdempotentStore WITH
        phase <- [r \in Request |-> IF pc[r] \in {"new", "done"} THEN pc[r] ELSE "open"],
        bound <- [k \in Key |-> {id \in payments : asked[id].key = k}]

StoreImplemented == Store!Spec

\* Every request that arrives is finished: no insertion waits for ever for
\* another request's transaction.
EveryRequestEnds == \A r \in Request : pc[r] # "new" ~> pc[r] = "done"
============================================================================
