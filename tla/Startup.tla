------------------------------ MODULE Startup ------------------------------
(***************************************************************************)
(* How the relay and the consumer come up: each declares the RabbitMQ      *)
(* topology (build_topology, declare_topology) object by object, on every  *)
(* start.  The relay publishes only afterwards.  The consumer already      *)
(* consumes: FastStream starts the subscriber, which declares payments.new *)
(* for itself, and then runs after_startup.                                *)
(*                                                                         *)
(* A process runs in a container.  .env is no part of the image: what it   *)
(* says is copied into the container when that is created, and Docker's    *)
(* restarts keep the copy.  Only a new container has the edited settings.  *)
(*                                                                         *)
(* The broker's objects are durable, so processes meet what earlier ones,  *)
(* with earlier settings, have declared.  Handling of a message is reduced *)
(* to where it is published next; PaymentConsumer models the rest.         *)
(***************************************************************************)
EXTENDS Integers

CONSTANTS
    Relay, Consumer,    \* processes
    Message,            \* events to be published
    Settings,           \* what .env may say: message_max_attempts as limit and
                        \* retry_base_delay_seconds, in fractions of a
                        \* millisecond, as delay
    Millisecond,        \* how many of these fractions make a millisecond
    MaxTtl,             \* the largest x-message-ttl the broker accepts
    MaxCrashes,         \* bound: processes that die
    MaxChanges          \* bound: changes of .env

\* The settings class requires both to be positive, and no more than that.
Setting == [limit : Nat \ {0}, delay : Nat \ {0}]

ASSUME StartupAssumption ==
    /\ Relay \cap Consumer = {} /\ Consumer # {}
    /\ Settings \subseteq Setting /\ Millisecond \in Nat \ {0}
    /\ MaxTtl \in Nat /\ MaxCrashes \in Nat /\ MaxChanges \in Nat

VARIABLES
    env,        \* what .env says
    pc,         \* "down", "starting" (it declares the topology) or "running"
    setting,    \* the settings in each process's container
    done,       \* how many declarations of declare_topology each has made
    made,       \* the broker's exchanges, queues and bindings
    place,      \* where each event is
    attempt,    \* its x-attempt header
    holder,     \* the consumer that was given it last
    crashes, changes

processVars == <<pc, setting, done>>
messageVars == <<place, attempt, holder>>
boundVars == <<crashes, changes>>
vars == <<env, processVars, made, messageVars, boundVars>>

Process == Relay \cup Consumer
Place == {"outbox", "queue", "held", "delayed", "dlq", "done", "dropped"}

\* Queues are numbered: payments.new is that of attempt 1, payments.new.retry.n
\* that of attempt n, and payments.dlq has the number 0.
Payments == 1
Dlq == 0
Queues(s) == 0 .. s.limit

\* The exchanges are payments.events, payments.retry and payments.dlx.
ExchangeOf(q) == CASE q = Payments -> 1 [] q = Dlq -> 3 [] OTHER -> 2

\* Mutant: the exponent of build_topology is that of RetryPolicy.decide.
TtlDoubled(s, q) ==
    IF q \in {Payments, Dlq} THEN 0 ELSE (s.delay * 2 ^ (q - 1)) \div Millisecond

\* x-message-ttl of a retry queue, in whole milliseconds; the other queues have
\* none.
Ttl(s, q) ==
    IF q \in {Payments, Dlq} THEN 0 ELSE (s.delay * 2 ^ (q - 2)) \div Millisecond

Thing == [kind : {"exchange", "queue", "binding"}, no : Nat, ttl : 0 .. MaxTtl]
Exchange(n) == [kind |-> "exchange", no |-> n, ttl |-> 0]
Queue(s, q) == [kind |-> "queue", no |-> q, ttl |-> Ttl(s, q)]
Binding(q) == [kind |-> "binding", no |-> q, ttl |-> 0]

\* build_topology.
Things(s) ==
    {Exchange(n) : n \in 1 .. 3} \cup {Queue(s, q) : q \in Queues(s)}
        \cup {Binding(q) : q \in Queues(s)}

\* The order of declare_topology: exchanges, payments.new, the retry queues, the
\* DLQ, and each queue before its binding.
Position(s, q) == IF q = Dlq THEN s.limit + 1 ELSE q
Rank(s, t) ==
    CASE t.kind = "exchange" -> t.no
      [] t.kind = "queue" -> 2 + 2 * Position(s, t.no)
      [] t.kind = "binding" -> 3 + 2 * Position(s, t.no)
LastRank(s) == 5 + 2 * s.limit

TypeOK ==
    /\ env \in Settings
    /\ pc \in [Process -> {"down", "starting", "running"}]
    /\ setting \in [Process -> Settings]
    /\ done \in [Process -> Nat]
    /\ made \subseteq Thing
    /\ place \in [Message -> Place]
    /\ attempt \in [Message -> Nat \ {0}]
    /\ holder \in [Message -> Consumer]
    /\ crashes \in 0 .. MaxCrashes /\ changes \in 0 .. MaxChanges

Init ==
    /\ env \in Settings
    /\ pc = [p \in Process |-> "down"]
    /\ setting = [p \in Process |-> env]
    /\ done = [p \in Process |-> 0]
    /\ made = {}
    /\ place = [m \in Message |-> "outbox"]
    /\ attempt = [m \in Message |-> 1]
    /\ holder = [m \in Message |-> CHOOSE c \in Consumer : TRUE]
    /\ crashes = 0 /\ changes = 0
----------------------------------------------------------------------------
(* Processes.                                                              *)

\* FastStream's subscriber declares what it consumes from.
Subscribed(p) ==
    IF p \in Consumer
    THEN made \cup {Exchange(1), Queue(setting[p], Payments), Binding(Payments)} ELSE made

\* Mutant: the relay publishes as soon as it is connected.
StartRunning(p) ==
    /\ pc[p] = "down"
    /\ pc' = [pc EXCEPT ![p] = IF p \in Relay THEN "running" ELSE "starting"]
    /\ made' = Subscribed(p)
    /\ UNCHANGED <<env, setting, done, messageVars, boundVars>>

\* get_settings, create_broker and connect, in a new container or in one that
\* Docker starts again: the settings are those of the container.
Start(p) ==
    /\ pc[p] = "down"
    /\ pc' = [pc EXCEPT ![p] = "starting"]
    /\ made' = Subscribed(p)
    /\ UNCHANGED <<env, setting, done, messageVars, boundVars>>

\* The broker declares nothing that it holds with other arguments, and no queue
\* whose TTL it cannot represent.
Declarable(t) ==
    t.kind = "queue" =>
        t.ttl \in 0 .. MaxTtl /\ \A x \in made : x.kind = "queue" /\ x.no = t.no => x = t

IsNext(p, t) == pc[p] = "starting" /\ Rank(setting[p], t) = done[p] + 1

\* One await of declare_topology.  After the last one the process is up.
Declare(p) ==
    /\ \E t \in Things(setting[p]) :
        IsNext(p, t) /\ Declarable(t) /\ made' = made \cup {t}
    /\ done' = [done EXCEPT ![p] = @ + 1]
    /\ pc' = IF done[p] + 1 = LastRank(setting[p]) THEN [pc EXCEPT ![p] = "running"] ELSE pc
    /\ UNCHANGED <<env, setting, messageVars, boundVars>>

\* Mutant: a process that ends hangs, so that Docker does not start it again.
ExitHangs(p) ==
    /\ pc' = [pc EXCEPT ![p] = "starting"]
    /\ done' = [done EXCEPT ![p] = LastRank(setting[p])]
    /\ place' = [m \in Message |->
                    IF place[m] = "held" /\ holder[m] = p THEN "queue" ELSE place[m]]
    /\ UNCHANGED <<made, attempt, holder>>

\* The process ends; the broker takes back what it had not acknowledged.
Exit(p) ==
    /\ pc' = [pc EXCEPT ![p] = "down"]
    /\ done' = [done EXCEPT ![p] = 0]
    /\ place' = [m \in Message |->
                    IF place[m] = "held" /\ holder[m] = p THEN "queue" ELSE place[m]]
    /\ UNCHANGED <<made, attempt, holder>>

\* The declaration raises: out of main, or out of after_startup.
DeclareFails(p) ==
    /\ \E t \in Things(setting[p]) : IsNext(p, t) /\ ~ Declarable(t)
    /\ Exit(p)
    /\ UNCHANGED <<env, setting, boundVars>>

Crash(p) ==
    /\ crashes < MaxCrashes /\ crashes' = crashes + 1
    /\ pc[p] # "down"
    /\ Exit(p)
    /\ UNCHANGED <<env, setting, changes>>

\* Somebody edits .env.  The containers keep what they have.
ChangeEnv ==
    /\ changes < MaxChanges /\ changes' = changes + 1
    /\ env' \in Settings \ {env}
    /\ UNCHANGED <<processVars, made, messageVars, crashes>>

\* Somebody runs docker compose up: a container that was created with other
\* settings is replaced by a new one.
Recreate(p) ==
    /\ setting[p] # env /\ setting' = [setting EXCEPT ![p] = env]
    /\ Exit(p)
    /\ UNCHANGED <<env, boundVars>>
----------------------------------------------------------------------------
(* Messages.                                                               *)

\* What becomes of a publication for queue q: a direct exchange drops, without
\* an error, what no queue is bound for; without the exchange the call raises.
Published(q, there, raised) ==
    IF Binding(q) \in made THEN there
    ELSE IF Exchange(ExchangeOf(q)) \in made THEN "dropped" ELSE raised

Move(m, to) == place' = [place EXCEPT ![m] = to]

\* RabbitOutboxPublisher.publish.  When it raises the row stays pending.
Publish(r, m) ==
    /\ pc[r] = "running" /\ place[m] = "outbox"
    /\ Move(m, Published(Payments, "queue", "outbox"))
    /\ UNCHANGED <<env, processVars, made, attempt, holder, boundVars>>

\* A consumer that is not ready yet is given messages all the same.
Receive(m) ==
    /\ place[m] = "queue"
    /\ \E c \in Consumer : pc[c] # "down" /\ holder' = [holder EXCEPT ![m] = c]
    /\ Move(m, "held")
    /\ UNCHANGED <<env, processVars, made, attempt, boundVars>>

HeldBy(c, m) == pc[c] # "down" /\ place[m] = "held" /\ holder[m] = c

\* Handled, or to the DLQ at once.  A publication that raises leaves the message
\* unacknowledged, and it comes back.
Conclude(c, m) ==
    /\ HeldBy(c, m)
    /\ Move(m, "done") \/ Move(m, Published(Dlq, "dlq", "queue"))
    /\ UNCHANGED <<env, processVars, made, attempt, holder, boundVars>>

\* Mutant: x-attempt counts the attempts that are left.
RetryCountsDown(c, m) ==
    /\ HeldBy(c, m) /\ attempt[m] < setting[c].limit
    /\ Move(m, Published(attempt[m] + 1, "delayed", "queue"))
    /\ attempt' = [attempt EXCEPT ![m] = @ - 1]
    /\ UNCHANGED <<env, processVars, made, holder, boundVars>>

\* retry_or_dlq with the consumer's own limit.
Retry(c, m) ==
    /\ HeldBy(c, m)
    /\ IF attempt[m] < setting[c].limit
       THEN /\ Move(m, Published(attempt[m] + 1, "delayed", "queue"))
            /\ attempt' = IF Binding(attempt[m] + 1) \in made
                          THEN [attempt EXCEPT ![m] = @ + 1] ELSE attempt
       ELSE /\ Move(m, Published(Dlq, "dlq", "queue"))
            /\ UNCHANGED attempt
    /\ UNCHANGED <<env, processVars, made, holder, boundVars>>

\* The TTL of the retry queue ends and dead-letters the message to
\* payments.events.
Expire(m) ==
    /\ place[m] = "delayed"
    /\ Move(m, Published(Payments, "queue", "dropped"))
    /\ UNCHANGED <<env, processVars, made, attempt, holder, boundVars>>

Boot(p) == Start(p) \/ Declare(p) \/ DeclareFails(p)
Handle(c, m) == Conclude(c, m) \/ Retry(c, m)

Next ==
    \/ \E p \in Process : Boot(p) \/ Crash(p) \/ Recreate(p)
    \/ ChangeEnv
    \/ \E m \in Message :
        \/ Receive(m) \/ Expire(m)
        \/ \E r \in Relay : Publish(r, m)
        \/ \E c \in Consumer : Handle(c, m)

Spec == Init /\ [][Next]_vars

\* Docker restarts processes with the settings they had, processes make progress,
\* handlers end, and the broker delivers and expires.  Nobody has to recreate a
\* container.
FairSpec ==
    /\ Spec
    /\ \A p \in Process : WF_vars(Boot(p))
    /\ \A m \in Message :
        /\ WF_vars(Receive(m)) /\ WF_vars(Expire(m))
        /\ \A r \in Relay : WF_vars(Publish(r, m))
        /\ \A c \in Consumer : WF_vars(Handle(c, m))
----------------------------------------------------------------------------
\* Delivery is at least once: no publication, of an event, a retry or a dead
\* letter, meets an exchange without the queue it is meant for, whatever processes
\* die and wherever in their declarations.  (It takes one .env for all of them.)
NothingDropped == \A m \in Message : place[m] # "dropped"

\* As long as .env has not been edited this is so, whichever settings it holds.
SameEnvDropsNothing == changes = 0 => NothingDropped

\* When containers are recreated with another .env, an event can be lost in one place only: a
\* consumer that has been given a larger limit, is consuming, and has not yet
\* declared (or cannot declare) the new retry queue, retries the event.
DroppedOnlyWhileStarting ==
    [][\A m \in Message : place'[m] = "dropped" /\ place[m] # "dropped" =>
        /\ place[m] = "held" /\ pc[holder[m]] = "starting"
        /\ attempt[m] < setting[holder[m]].limit]_vars

\* RetryPolicy.decide: the delay before the next attempt.
Delay(s, a) == s.delay * 2 ^ (a - 1)

\* A consumer that is up delays a retry for as long as its policy has decided, to
\* the whole millisecond, although the queue may have been declared by another
\* process, with other settings, long ago.
DelayAsDecided ==
    [][\A c \in Consumer, m \in Message :
        HeldBy(c, m) /\ pc[c] = "running" /\ place'[m] = "delayed" =>
            \E t \in made :
                /\ t.kind = "queue" /\ t.no = attempt'[m]
                /\ t.ttl = Delay(setting[c], attempt[m]) \div Millisecond]_vars

\* The broker accepts the topology of p's container.
Acceptable(p) == \A t \in Things(setting[p]) : Declarable(t)

\* Neither a death between two declarations nor a declaration that was refused,
\* of this container's predecessor or of another process, does lasting harm: a
\* process comes up for good if the broker accepts what its container says.  (A
\* container with refused settings is restarted with them for ever, also after
\* .env has been corrected, until somebody recreates it.)
StartsWhenDeclarable ==
    \A p \in Process : <>[]Acceptable(p) => <>[](pc[p] = "running")

\* Every event is handled or parked in the end, whatever dies during startup and
\* however often declarations were refused before, unless it falls into that one
\* place; if, that is, some relay and all consumers have acceptable settings.
EveryEventConcluded ==
    <>[](\A c \in Consumer : Acceptable(c)) /\ (\E r \in Relay : <>[]Acceptable(r)) =>
        \A m \in Message : place[m] = "outbox" ~> place[m] \in {"done", "dlq", "dropped"}
============================================================================
