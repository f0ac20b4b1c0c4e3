--------------------------- MODULE ConnectionPool ---------------------------
(***************************************************************************)
(* The database connections of one consumer process: its handlers share    *)
(* the pool of the engine that create_engine builds, and nothing limits    *)
(* how many run at a time.  A handler uses two units of work, one after    *)
(* the other (ProcessPaymentMessageService, DeliverPaymentWebhookService); *)
(* each takes a connection with its first query and returns it when it     *)
(* ends.  Meanwhile the handler waits for row locks, for the gateway or    *)
(* for the webhook receiver.                                               *)
(*                                                                         *)
(* What a transaction reads decides its branch; here it is any.            *)
(* PaymentConsumer models the data, and PoolTimeout as its Fail.           *)
(***************************************************************************)
EXTENDS Integers, FiniteSets

CONSTANTS
    Handler,        \* activations of handle_payment_message
    PaymentId,
    PoolSize,       \* connections of the pool, overflow included
    MaxMessages     \* bound: deliveries

ASSUME PoolAssumption ==
    IsFiniteSet(Handler) /\ PoolSize \in Nat \ {0} /\ MaxMessages \in Nat

VARIABLES
    pc,             \* the stage of each handler
    pid,            \* the payment of its message
    holding,        \* handlers that hold a connection
    messages        \* deliveries so far

vars == <<pc, pid, holding, messages>>

\* "connect" and "reconnect" wait for a connection, for the first and for the
\* second unit of work; "lock" and "record" wait for the row lock.
Stage == {"idle", "connect", "lock", "gateway", "reconnect", "post", "record"}

TypeOK ==
    /\ pc \in [Handler -> Stage]
    /\ pid \in [Handler -> PaymentId]
    /\ holding \subseteq Handler
    /\ Cardinality(holding) <= PoolSize
    /\ messages \in 0 .. MaxMessages

Init ==
    /\ pc = [h \in Handler |-> "idle"]
    /\ pid \in [Handler -> PaymentId]
    /\ holding = {}
    /\ messages = 0
----------------------------------------------------------------------------
Exhausted == Cardinality(holding) >= PoolSize

\* A transaction has the row of payment p locked.
Locked(p) == \E h \in Handler : pc[h] = "gateway" /\ pid[h] = p

Goto(h, stage) == pc' = [pc EXCEPT ![h] = stage]

Keep == UNCHANGED holding
Release(h) == holding' = holding \ {h}

Receive(h) ==
    /\ messages < MaxMessages /\ messages' = messages + 1
    /\ pc[h] = "idle"
    /\ \E p \in PaymentId : pid' = [pid EXCEPT ![h] = p]
    /\ Goto(h, "connect")
    /\ Keep

\* Mutant: a connection more than the pool has.
ConnectAnyway(h) ==
    /\ pc[h] \in {"connect", "reconnect"}
    /\ holding' = holding \cup {h}
    /\ Goto(h, IF pc[h] = "connect" THEN "lock" ELSE "post")
    /\ UNCHANGED <<pid, messages>>

\* The first query of a unit of work.  The pool serves waiters in any order.
Connect(h) ==
    /\ pc[h] \in {"connect", "reconnect"} /\ ~ Exhausted
    /\ holding' = holding \cup {h}
    /\ Goto(h, IF pc[h] = "connect" THEN "lock" ELSE "post")
    /\ UNCHANGED <<pid, messages>>

\* get_by_id_for_update: a pending payment goes to the gateway; a final one on
\* to the webhook, or nothing is left to do.
Lock(h) ==
    /\ pc[h] = "lock" /\ ~ Locked(pid[h])
    /\ \/ Goto(h, "gateway") /\ Keep
       \/ \E stage \in {"reconnect", "idle"} : Goto(h, stage) /\ Release(h)
    /\ UNCHANGED <<pid, messages>>

\* Mutant: the webhook stage runs inside the first unit of work.
SettleNested(h) ==
    /\ pc[h] = "gateway"
    /\ Goto(h, "reconnect")
    /\ Keep
    /\ UNCHANGED <<pid, messages>>

\* The gateway has answered: save, commit, and the unit of work is left.
Settle(h) ==
    /\ pc[h] = "gateway"
    /\ Goto(h, "reconnect")
    /\ Release(h)
    /\ UNCHANGED <<pid, messages>>

\* The payment is read; it is delivered already, or its webhook is POSTed.
Post(h) ==
    /\ pc[h] = "post"
    /\ \/ Goto(h, "record") /\ Keep
       \/ Goto(h, "idle") /\ Release(h)
    /\ UNCHANGED <<pid, messages>>

\* The outcome is saved and committed; the UPDATE needs the row lock.
Record(h) ==
    /\ pc[h] = "record" /\ ~ Locked(pid[h])
    /\ Goto(h, "idle")
    /\ Release(h)
    /\ UNCHANGED <<pid, messages>>

\* No connection became free in time: the generic except clause of the message
\* handler routes the message.
PoolTimeout(h) ==
    /\ pc[h] \in {"connect", "reconnect"} /\ Exhausted
    /\ Goto(h, "idle")
    /\ Keep
    /\ UNCHANGED <<pid, messages>>

\* Any error inside a unit of work: __aexit__ rolls back and closes the session.
Fail(h) ==
    /\ h \in holding
    /\ Goto(h, "idle")
    /\ Release(h)
    /\ UNCHANGED <<pid, messages>>

Work(h) == Connect(h) \/ Lock(h) \/ Settle(h) \/ Post(h) \/ Record(h)

Next == \E h \in Handler : Receive(h) \/ Work(h) \/ PoolTimeout(h) \/ Fail(h)

Spec == Init /\ [][Next]_vars

\* Handlers go on when they can; nothing is assumed of timeouts and failures.
FairSpec == Spec /\ \A h \in Handler : WF_vars(Work(h))
----------------------------------------------------------------------------
\* When all connections are in use and handlers wait for one, some handler that
\* has one can go on without waiting for anybody: not all of them wait for row
\* locks, and none for another connection.
PoolMoves ==
    Exhausted => \E h \in holding :
        \/ pc[h] \in {"gateway", "post"}
        \/ pc[h] \in {"lock", "record"} /\ ~ Locked(pid[h])

\* Every handler ends, although no wait for a connection ever times out.
EveryHandlerEnds == \A h \in Handler : pc[h] # "idle" ~> pc[h] = "idle"
=============================================================================
