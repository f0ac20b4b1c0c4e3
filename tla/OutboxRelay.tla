---------------------------- MODULE OutboxRelay ----------------------------
(***************************************************************************)
(* The outbox relay: OutboxRelayRunner calling PublishOutboxBatchService   *)
(* over the outbox table, in several worker processes at once.             *)
(*                                                                         *)
(* One iteration is one database transaction: it locks a batch of pending  *)
(* rows (FOR UPDATE SKIP LOCKED), publishes them one by one, and commits   *)
(* the marks of all of them together.  The columns attempts and last_error *)
(* are written by the code and read by no part of it; they are left out.   *)
(***************************************************************************)
EXTENDS Integers, FiniteSets, Sequences

CONSTANTS
    Event,          \* outbox rows
    Relay,          \* relay processes
    Limit,          \* settings.outbox_batch_size
    Created,        \* created_at of each row: its transaction's start time
    Poison,         \* events that the broker never accepts
    MaxRefusals,    \* bound: publications of other events that are refused
    MaxFaults       \* bound: crashes, lost transactions and unseen confirmations

ASSUME RelayAssumption ==
    /\ IsFiniteSet(Event) /\ IsFiniteSet(Relay) /\ Poison \subseteq Event
    /\ Limit \in Nat \ {0}
    /\ Created \in [Event -> Nat]
    /\ MaxRefusals \in Nat /\ MaxFaults \in Nat

VARIABLES
    outbox,         \* status of each row, as committed
    sent,           \* copies of each event the broker has accepted
    batch,          \* rows the relay's transaction has selected and locked
    todo,           \* those it has not yet tried to publish, in order
    marks,          \* rows the transaction has marked published
    inTx,           \* the relay's transaction is alive, and its locks with it
    refusals, faults

relayVars == <<batch, todo, marks, inTx>>
vars == <<outbox, sent, relayVars, refusals, faults>>

OutboxStatus == {"absent", "pending", "published"}

TypeOK ==
    /\ outbox \in [Event -> OutboxStatus]
    /\ sent \in [Event -> Nat]
    /\ batch \in [Relay -> SUBSET Event] /\ marks \in [Relay -> SUBSET Event]
    /\ todo \in [Relay -> Seq(Event)]
    /\ inTx \in [Relay -> BOOLEAN]
    /\ refusals \in 0 .. MaxRefusals /\ faults \in 0 .. MaxFaults

Init ==
    /\ outbox = [e \in Event |-> "absent"]
    /\ sent = [e \in Event |-> 0]
    /\ batch = [r \in Relay |-> {}] /\ marks = [r \in Relay |-> {}]
    /\ todo = [r \in Relay |-> <<>>]
    /\ inTx = [r \in Relay |-> FALSE]
    /\ refusals = 0 /\ faults = 0
----------------------------------------------------------------------------
Idle(r) == batch[r] = {}

\* The iteration is over: committed, rolled back, or lost with its process.
EndIteration(r) ==
    /\ batch' = [batch EXCEPT ![r] = {}]
    /\ todo' = [todo EXCEPT ![r] = <<>>]
    /\ marks' = [marks EXCEPT ![r] = {}]
    /\ inTx' = [inTx EXCEPT ![r] = FALSE]

\* An API transaction commits the event; created_at says when it had begun.
Insert(e) ==
    /\ outbox[e] = "absent"
    /\ outbox' = [outbox EXCEPT ![e] = "pending"]
    /\ UNCHANGED <<sent, relayVars, refusals, faults>>

Locked == UNION {batch[r] : r \in {s \in Relay : inTx[s]}}

\* Mutants: rows locked by another relay are read all the same; published
\* rows are selected again; rows are read before their insertion is committed.
SelectableLocked == {e \in Event : outbox[e] = "pending"}
SelectableUncommitted == {e \in Event : outbox[e] # "published"} \ Locked
SelectableAny == {e \in Event : outbox[e] # "absent"} \ Locked

Selectable == {e \in Event : outbox[e] = "pending"} \ Locked

\* The orders in which ORDER BY created_at LIMIT may return rows of a set.
Batches(rows) ==
    LET size == IF Cardinality(rows) < Limit THEN Cardinality(rows) ELSE Limit
    IN  {b \in [1 .. size -> rows] :
            /\ \A i, j \in 1 .. size :
                i < j => b[i] # b[j] /\ Created[b[i]] <= Created[b[j]]
            /\ \A e \in rows \ {b[i] : i \in 1 .. size}, i \in 1 .. size :
                Created[b[i]] <= Created[e]}

\* get_pending_batch.  An empty batch is committed at once and changes nothing.
Poll(r) ==
    /\ Idle(r) /\ Selectable # {}
    /\ \E b \in Batches(Selectable) :
        /\ todo' = [todo EXCEPT ![r] = b]
        /\ batch' = [batch EXCEPT ![r] = {b[i] : i \in DOMAIN b}]
    /\ inTx' = [inTx EXCEPT ![r] = TRUE]
    /\ UNCHANGED <<outbox, sent, marks, refusals, faults>>

\* What follows a publication: the row is marked, or on a dead connection the
\* UPDATE raises and the iteration ends.
Note(r, marked) ==
    \/ /\ inTx[r]
       /\ marks' = [marks EXCEPT ![r] = @ \cup marked]
       /\ todo' = [todo EXCEPT ![r] = Tail(@)]
       /\ UNCHANGED <<batch, inTx>>
    \/ ~ inTx[r] /\ EndIteration(r)

\* The broker confirms the next event of the batch.
PublishConfirmed(r) ==
    /\ todo[r] # <<>> /\ Head(todo[r]) \notin Poison
    /\ sent' = [sent EXCEPT ![Head(todo[r])] = @ + 1]
    /\ Note(r, {Head(todo[r])})
    /\ UNCHANGED <<outbox, refusals, faults>>

Refuse(e) ==
    \/ e \in Poison /\ UNCHANGED refusals
    \/ e \notin Poison /\ refusals < MaxRefusals /\ refusals' = refusals + 1

\* Mutants: a publication that was not confirmed is marked all the same; the
\* first failure ends the iteration, with a rollback.
PublishRefusedMarked(r) ==
    /\ todo[r] # <<>> /\ Refuse(Head(todo[r]))
    /\ Note(r, {Head(todo[r])})
    /\ UNCHANGED <<outbox, sent, faults>>
PublishRefusedAborts(r) ==
    /\ todo[r] # <<>> /\ Refuse(Head(todo[r]))
    /\ EndIteration(r)
    /\ UNCHANGED <<outbox, sent, faults>>

\* The publication raises, or returns False: record_publish_failure, and on
\* with the next event.
PublishRefused(r) ==
    /\ todo[r] # <<>> /\ Refuse(Head(todo[r]))
    /\ Note(r, {})
    /\ UNCHANGED <<outbox, sent, faults>>

\* The broker accepts the event but the confirmation never arrives.
PublishUnseen(r) ==
    /\ faults < MaxFaults /\ faults' = faults + 1
    /\ todo[r] # <<>> /\ Head(todo[r]) \notin Poison
    /\ sent' = [sent EXCEPT ![Head(todo[r])] = @ + 1]
    /\ Note(r, {})
    /\ UNCHANGED <<outbox, refusals>>

\* The marks take effect together.  Whether the relay sees the commit succeed
\* makes no difference to what it does next.
Commit(r) ==
    /\ ~ Idle(r) /\ todo[r] = <<>> /\ inTx[r]
    /\ outbox' = [e \in Event |-> IF e \in marks[r] THEN "published" ELSE outbox[e]]
    /\ EndIteration(r)
    /\ UNCHANGED <<sent, refusals, faults>>

\* The commit fails on a dead connection; run_forever logs and goes on.
CommitFails(r) ==
    /\ ~ Idle(r) /\ todo[r] = <<>> /\ ~ inTx[r]
    /\ EndIteration(r)
    /\ UNCHANGED <<outbox, sent, refusals, faults>>

\* The worker process dies and is started again.
Crash(r) ==
    /\ faults < MaxFaults /\ faults' = faults + 1
    /\ ~ Idle(r)
    /\ EndIteration(r)
    /\ UNCHANGED <<outbox, sent, refusals>>

\* The database rolls the transaction back; the relay does not know yet.
LoseDatabase(r) ==
    /\ faults < MaxFaults /\ faults' = faults + 1
    /\ inTx[r]
    /\ inTx' = [inTx EXCEPT ![r] = FALSE]
    /\ UNCHANGED <<outbox, sent, batch, todo, marks, refusals>>

Iterate(r) ==
    \/ Poll(r) \/ PublishConfirmed(r) \/ PublishRefused(r) \/ Commit(r) \/ CommitFails(r)

Next ==
    \/ \E e \in Event : Insert(e)
    \/ \E r \in Relay : Iterate(r) \/ PublishUnseen(r) \/ Crash(r) \/ LoseDatabase(r)

Spec == Init /\ [][Next]_vars

\* run_forever never stops iterating; a worker that dies is started again.
FairSpec == Spec /\ \A r \in Relay : WF_vars(Iterate(r))
----------------------------------------------------------------------------
\* A row is published only after the broker has accepted its event, although
\* the marks of a whole batch are committed long after the publications.
PublishedWasSent ==
    \A e \in Event : outbox[e] = "published" => sent[e] > 0

\* Two live relays never work on the same row, and every row a live relay has
\* locked is still pending: it cannot publish what another has finished.
LocksDisjoint ==
    \A r \in Relay : inTx[r] =>
        /\ \A e \in batch[r] : outbox[e] = "pending"
        /\ \A s \in Relay \ {r} : inTx[s] => batch[r] \cap batch[s] = {}

\* Duplicates are the price of faults only: each crash, lost transaction or
\* unseen confirmation makes at most one more copy of any event, and without
\* faults concurrent relays publish every event at most once.
DuplicatesArePaid ==
    \A e \in Event : sent[e] <= 1 + faults

\* The relays together are one Publication: what they remember of their
\* batches, and lose with a process or a connection, never shows in the table or
\* at the broker, but for the copies that faults pay for.
Promise == INSTANCE Publication WITH status <- outbox, copies <- sent
PublicationImplemented == Promise!Spec

\* Every committed event is published in the end, in whatever order the
\* transactions that created them have committed, even while an older event
\* that the broker always refuses stays at the head of the batch.
EventuallyPublished ==
    \A e \in Event \ Poison : outbox[e] = "pending" ~> outbox[e] = "published"
============================================================================
