--------------------------- MODULE StartupProofs ---------------------------
(***************************************************************************)
(* Proofs about Startup, for any processes, events and settings.           *)
(*                                                                         *)
(* The invariant relates a process to what the broker holds: all that the  *)
(* process has declared in this life is there (Progress), and there is no  *)
(* message before some relay has finished declaring, so that exchanges,    *)
(* payments.new and the DLQ exist wherever there is a message (Base).      *)
(***************************************************************************)
EXTENDS Startup, TLAPS

\* The broker holds everything a process has declared; a running process has
\* declared everything, and one that is down begins anew.
Progress ==
    \A p \in Process :
        /\ pc[p] # "down" =>
            \A t \in Things(setting[p]) : Rank(setting[p], t) <= done[p] => t \in made
        /\ pc[p] = "running" => done[p] = LastRank(setting[p])
        /\ pc[p] = "down" => done[p] = 0

\* What every topology has in common.
Common == {Exchange(n) : n \in 1 .. 3} \cup {Binding(Payments), Binding(Dlq)}

Base == \A m \in Message : place[m] # "outbox" => Common \subseteq made

\* A dead process holds no message.
Held == \A m \in Message : place[m] = "held" => pc[holder[m]] # "down"

IInv == TypeOK /\ Progress /\ Base /\ Held
----------------------------------------------------------------------------
(* The order of declarations.                                              *)

LEMMA ConstantsTyped ==
    /\ Relay \cap Consumer = {} /\ Consumer # {}
    /\ Settings \subseteq [limit : Nat \ {0}, delay : Nat \ {0}]
    /\ MaxTtl \in Nat /\ MaxCrashes \in Nat /\ MaxChanges \in Nat
BY StartupAssumption DEF Setting

\* The declarations of a topology have the ranks from 1 to LastRank.
LEMMA RankRange ==
    ASSUME NEW s \in Settings, NEW t \in Things(s)
    PROVE  Rank(s, t) \in 1 .. LastRank(s)
<1>1. s.limit \in Nat /\ s.limit >= 1
  BY ConstantsTyped
<1>2. CASE \E n \in 1 .. 3 : t = Exchange(n)
  BY <1>1, <1>2 DEF Rank, LastRank, Exchange
<1>3. CASE \E q \in Queues(s) : t = Queue(s, q)
  BY <1>1, <1>3 DEF Rank, LastRank, Queue, Queues, Position, Dlq
<1>4. CASE \E q \in Queues(s) : t = Binding(q)
  BY <1>1, <1>4 DEF Rank, LastRank, Binding, Queues, Position, Dlq
<1>. QED
  BY <1>2, <1>3, <1>4 DEF Things

\* They are made one at a time.
LEMMA RankInjective ==
    ASSUME NEW s \in Settings, NEW t \in Things(s), NEW u \in Things(s),
           Rank(s, t) = Rank(s, u)
    PROVE  t = u
<1>1. s.limit \in Nat /\ s.limit >= 1
  BY ConstantsTyped
<1>2. \A q \in Queues(s) : Position(s, q) \in 1 .. s.limit + 1
  BY <1>1 DEF Queues, Position, Dlq
<1>3. \A q, r \in Queues(s) : Position(s, q) = Position(s, r) => q = r
  BY <1>1 DEF Queues, Position, Dlq
<1>4. \A n \in 1 .. 3 : Rank(s, Exchange(n)) = n
  BY DEF Rank, Exchange
<1>5. \A q \in Queues(s) : Rank(s, Queue(s, q)) = 2 + 2 * Position(s, q)
  BY DEF Rank, Queue
<1>6. \A q \in Queues(s) : Rank(s, Binding(q)) = 3 + 2 * Position(s, q)
  BY DEF Rank, Binding
<1>7. CASE \E n \in 1 .. 3 : t = Exchange(n)
  <2>1. \E n \in 1 .. 3 : u = Exchange(n)
    BY <1>2, <1>4, <1>5, <1>6, <1>7 DEF Things
  <2>. QED  BY <1>4, <1>7, <2>1
<1>8. CASE \E q \in Queues(s) : t = Queue(s, q)
  <2>1. \E q \in Queues(s) : u = Queue(s, q)
    BY <1>2, <1>4, <1>5, <1>6, <1>8 DEF Things
  <2>. QED  BY <1>2, <1>3, <1>5, <1>8, <2>1
<1>9. CASE \E q \in Queues(s) : t = Binding(q)
  <2>1. \E q \in Queues(s) : u = Binding(q)
    BY <1>2, <1>4, <1>5, <1>6, <1>9 DEF Things
  <2>. QED  BY <1>2, <1>3, <1>6, <1>9, <2>1
<1>. QED
  BY <1>7, <1>8, <1>9 DEF Things

\* A running process finds its whole topology in the broker.
LEMMA RunningComplete ==
    ASSUME IInv, NEW p \in Process, pc[p] = "running"
    PROVE  Things(setting[p]) \subseteq made
<1>1. setting[p] \in Settings /\ done[p] = LastRank(setting[p])
  BY DEF IInv, TypeOK, Progress
<1>2. \A t \in Things(setting[p]) : Rank(setting[p], t) <= done[p]
  BY <1>1, RankRange, ConstantsTyped DEF LastRank
<1>. QED
  BY <1>2 DEF IInv, Progress

\* Every topology contains the common part.
LEMMA CommonInTopology ==
    ASSUME NEW s \in Settings
    PROVE  Common \subseteq Things(s)
<1>1. Payments \in Queues(s) /\ Dlq \in Queues(s)
  BY ConstantsTyped DEF Queues, Payments, Dlq
<1>. QED
  BY <1>1 DEF Common, Things
----------------------------------------------------------------------------
(* The invariant.                                                          *)

LEMMA InitInvariant == Init => IInv
<1>. SUFFICES ASSUME Init PROVE IInv
  OBVIOUS
<1>1. TypeOK
  <2>1. (CHOOSE c \in Consumer : TRUE) \in Consumer
    BY ConstantsTyped
  <2>. QED  BY <2>1, ConstantsTyped DEF Init, TypeOK, Place, Process
<1>2. Progress /\ Base /\ Held
  BY DEF Init, Progress, Base, Held
<1>. QED
  BY <1>1, <1>2 DEF IInv

\* The broker forgets nothing.
LEMMA BrokerKeeps == Next => made \subseteq made'
BY DEF Next, Boot, Start, Subscribed, Declare, DeclareFails, Crash, Recreate, Exit, ChangeEnv,
       Receive, Expire, Publish, Handle, Conclude, Retry

\* What a publication comes to.
LEMMA PublishedType ==
    ASSUME NEW q, NEW there \in Place, NEW raised \in Place
    PROVE  Published(q, there, raised) \in Place
BY DEF Published, Place

LEMMA TypeStart ==
    ASSUME TypeOK, NEW p \in Process, Start(p)
    PROVE  TypeOK'
<1>1. \A s : Exchange(1) \in Thing /\ Queue(s, Payments) \in Thing /\ Binding(Payments) \in Thing
  BY ConstantsTyped DEF Exchange, Queue, Binding, Thing, Ttl, Payments
<1>2. made' \subseteq Thing
  BY <1>1 DEF TypeOK, Start, Subscribed
<1>3. pc' \in [Process -> {"down", "starting", "running"}] /\ done' \in [Process -> Nat]
  BY DEF TypeOK, Start
<1>4. setting' \in [Process -> Settings]
  BY DEF TypeOK, Start
<1>. QED
  BY <1>2, <1>3, <1>4 DEF TypeOK, Start, messageVars, boundVars

LEMMA TypeDeclare ==
    ASSUME TypeOK, NEW p \in Process, Declare(p)
    PROVE  TypeOK'
<1>1. PICK t \in Things(setting[p]) : Declarable(t) /\ made' = made \cup {t}
  BY DEF Declare
<1>2. setting[p] \in Settings /\ setting[p].limit \in Nat
  BY ConstantsTyped DEF TypeOK
<1>3. t \in Thing
  <2>1. CASE \E n \in 1 .. 3 : t = Exchange(n)
    BY <2>1, ConstantsTyped DEF Exchange, Thing
  <2>2. CASE \E q \in Queues(setting[p]) : t = Queue(setting[p], q)
    <3>1. t.kind = "queue" /\ t.no \in Nat
      BY <1>2, <2>2 DEF Queue, Queues
    <3>2. t.ttl \in 0 .. MaxTtl
      BY <1>1, <3>1 DEF Declarable
    <3>3. t = [kind |-> t.kind, no |-> t.no, ttl |-> t.ttl]
      BY <2>2 DEF Queue
    <3>. QED  BY <3>1, <3>2, <3>3 DEF Thing
  <2>3. CASE \E q \in Queues(setting[p]) : t = Binding(q)
    BY <1>2, <2>3, ConstantsTyped DEF Binding, Queues, Thing
  <2>. QED  BY <2>1, <2>2, <2>3 DEF Things
<1>4. made' \subseteq Thing
  BY <1>1, <1>3 DEF TypeOK
<1>5. done' \in [Process -> Nat] /\ pc' \in [Process -> {"down", "starting", "running"}]
  BY DEF TypeOK, Declare
<1>. QED
  BY <1>4, <1>5 DEF TypeOK, Declare, messageVars, boundVars

LEMMA TypeExit ==
    ASSUME TypeOK, NEW p \in Process, DeclareFails(p) \/ Crash(p) \/ Recreate(p)
    PROVE  TypeOK'
<1>1. Exit(p)
  BY DEF DeclareFails, Crash, Recreate
<1>2. /\ pc' \in [Process -> {"down", "starting", "running"}] /\ place' \in [Message -> Place]
      /\ done' \in [Process -> Nat]
  BY <1>1 DEF TypeOK, Exit, Place
<1>3. crashes' \in 0 .. MaxCrashes
  BY ConstantsTyped DEF TypeOK, DeclareFails, Crash, Recreate, boundVars
<1>4. setting' \in [Process -> Settings]
  BY DEF TypeOK, DeclareFails, Crash, Recreate
<1>. QED
  BY <1>1, <1>2, <1>3, <1>4 DEF TypeOK, DeclareFails, Crash, Recreate, Exit, boundVars

\* The type invariant is kept by every step.
LEMMA TypeStep ==
    ASSUME TypeOK, Next
    PROVE  TypeOK'
<1>1. CASE ChangeEnv
  <2>1. env' \in Settings /\ changes' \in 0 .. MaxChanges
    BY <1>1, ConstantsTyped DEF TypeOK, ChangeEnv
  <2>. QED  BY <1>1, <2>1 DEF TypeOK, ChangeEnv, processVars, messageVars
<1>2. ASSUME NEW m \in Message, Receive(m) PROVE TypeOK'
  <2>1. place' \in [Message -> Place] /\ holder' \in [Message -> Consumer]
    BY <1>2 DEF TypeOK, Receive, Move, Place
  <2>. QED  BY <1>2, <2>1 DEF TypeOK, Receive, processVars, boundVars
<1>3. ASSUME NEW m \in Message, Expire(m) PROVE TypeOK'
  <2>1. place' \in [Message -> Place]
    BY <1>3, PublishedType DEF TypeOK, Expire, Move, Place
  <2>. QED  BY <1>3, <2>1 DEF TypeOK, Expire, processVars, boundVars
<1>4. ASSUME NEW m \in Message, NEW r \in Relay, Publish(r, m) PROVE TypeOK'
  <2>1. place' \in [Message -> Place]
    BY <1>4, PublishedType DEF TypeOK, Publish, Move, Place
  <2>. QED  BY <1>4, <2>1 DEF TypeOK, Publish, processVars, boundVars
<1>5. ASSUME NEW m \in Message, NEW c \in Consumer, Conclude(c, m) PROVE TypeOK'
  <2>1. place' \in [Message -> Place]
    BY <1>5, PublishedType DEF TypeOK, Conclude, Move, Place
  <2>. QED  BY <1>5, <2>1 DEF TypeOK, Conclude, processVars, boundVars
<1>6. ASSUME NEW m \in Message, NEW c \in Consumer, Retry(c, m) PROVE TypeOK'
  <2>1. place' \in [Message -> Place]
    BY <1>6, PublishedType DEF TypeOK, Retry, Move, Place
  <2>2. attempt' \in [Message -> Nat \ {0}]
    BY <1>6 DEF TypeOK, Retry
  <2>. QED  BY <1>6, <2>1, <2>2 DEF TypeOK, Retry, processVars, boundVars
<1>. QED
  BY <1>1, <1>2, <1>3, <1>4, <1>5, <1>6, TypeStart, TypeDeclare, TypeExit
     DEF Next, Boot, Handle

\* What a start, a declaration or an exit leaves behind.
LEMMA ProgressStart ==
    ASSUME IInv, NEW p \in Process, Start(p)
    PROVE  Progress'
<1>1. \A t \in Things(setting'[p]) : ~ Rank(setting'[p], t) <= done'[p]
  <2>1. setting'[p] \in Settings /\ done'[p] = 0
    BY DEF IInv, TypeOK, Progress, Start
  <2>. QED  BY <2>1, RankRange, ConstantsTyped DEF LastRank
<1>2. made \subseteq made'
  BY DEF Start, Subscribed
<1>3. pc'[p] = "starting"
  BY DEF IInv, TypeOK, Start
<1>4. ASSUME NEW o \in Process, o # p
      PROVE  pc'[o] = pc[o] /\ setting'[o] = setting[o] /\ done'[o] = done[o]
  BY <1>4 DEF IInv, TypeOK, Start
<1>. QED
  BY <1>1, <1>2, <1>3, <1>4 DEF IInv, Progress

LEMMA ProgressDeclare ==
    ASSUME IInv, NEW p \in Process, Declare(p)
    PROVE  Progress'
<1>1. PICK t \in Things(setting[p]) : IsNext(p, t) /\ made' = made \cup {t}
  BY DEF Declare
<1>2. setting[p] \in Settings /\ done[p] \in Nat /\ setting' = setting
  BY DEF IInv, TypeOK, Declare
<1>3. done'[p] = done[p] + 1
  BY DEF IInv, TypeOK, Declare
<1>4. ASSUME NEW u \in Things(setting[p]), Rank(setting[p], u) <= done'[p]
      PROVE  u \in made'
  <2>1. Rank(setting[p], u) \in Nat
    BY <1>2, RankRange, ConstantsTyped DEF LastRank
  <2>2. CASE Rank(setting[p], u) <= done[p]
    BY <1>1, <2>2 DEF IInv, Progress, IsNext
  <2>3. CASE Rank(setting[p], u) = done[p] + 1
    BY <1>1, <1>2, <2>3, RankInjective DEF IsNext
  <2>. QED  BY <1>2, <1>3, <1>4, <2>1, <2>2, <2>3
<1>5. pc'[p] # "down" /\ (pc'[p] = "running" => done'[p] = LastRank(setting'[p]))
  BY <1>1, <1>2, <1>3 DEF IInv, TypeOK, Declare, IsNext
<1>6. ASSUME NEW o \in Process, o # p
      PROVE  pc'[o] = pc[o] /\ done'[o] = done[o]
  BY <1>6 DEF IInv, TypeOK, Declare
<1>. QED
  BY <1>1, <1>2, <1>4, <1>5, <1>6 DEF IInv, Progress

LEMMA ProgressExit ==
    ASSUME IInv, NEW p \in Process, Exit(p),
           \A o \in Process : o # p => setting'[o] = setting[o]
    PROVE  Progress'
<1>1. /\ pc'[p] = "down" /\ done'[p] = 0
      /\ \A o \in Process : o # p => pc'[o] = pc[o] /\ done'[o] = done[o]
  BY DEF IInv, TypeOK, Exit
<1>. QED
  BY <1>1 DEF IInv, Progress, Exit

LEMMA ProgressStep ==
    ASSUME IInv, Next
    PROVE  Progress'
<1>1. CASE \E p \in Process : Boot(p) \/ Crash(p) \/ Recreate(p)
  <2>1. ASSUME NEW p \in Process, DeclareFails(p) \/ Crash(p) \/ Recreate(p) PROVE Progress'
    <3>1. Exit(p) /\ \A o \in Process : o # p => setting'[o] = setting[o]
      BY <2>1 DEF IInv, TypeOK, DeclareFails, Crash, Recreate
    <3>. QED  BY <2>1, <3>1, ProgressExit
  <2>. QED  BY <1>1, <2>1, ProgressStart, ProgressDeclare DEF Boot
<1>2. CASE UNCHANGED <<processVars, made>>
  BY <1>2 DEF IInv, Progress, processVars
<1>. QED
  BY <1>1, <1>2 DEF Next, ChangeEnv, Receive, Expire, Publish, Handle, Conclude, Retry

\* The first message is published by a relay that is running.
LEMMA BaseStep ==
    ASSUME IInv, Next
    PROVE  Base'
<1>1. made \subseteq made'
  BY BrokerKeeps
<1>2. ASSUME NEW m \in Message, NEW r \in Relay, Publish(r, m) PROVE Base'
  <2>1. setting[r] \in Settings /\ pc[r] = "running" /\ r \in Process
    BY <1>2 DEF IInv, TypeOK, Publish, Process
  <2>2. Common \subseteq made
    BY <2>1, RunningComplete, CommonInTopology
  <2>. QED  BY <1>1, <2>2 DEF Base
<1>3. CASE \A m \in Message : place[m] = "outbox" => place'[m] = "outbox"
  BY <1>1, <1>3 DEF IInv, Base
<1>4. ASSUME NEW n \in Message, NEW to, Move(n, to), place[n] # "outbox"
      PROVE  Base'
  BY <1>3, <1>4 DEF IInv, TypeOK, Move
<1>5. CASE \E p \in Process : Boot(p) \/ Crash(p) \/ Recreate(p)
  BY <1>3, <1>5 DEF Boot, Start, Declare, DeclareFails, Crash, Recreate, Exit, messageVars
<1>6. CASE ChangeEnv
  BY <1>3, <1>6 DEF ChangeEnv, messageVars
<1>. QED
  BY <1>2, <1>4, <1>5, <1>6
     DEF Next, Receive, Expire, Handle, Conclude, Retry, HeldBy

LEMMA HeldStep ==
    ASSUME IInv, Next
    PROVE  Held'
<1>1. CASE \E p \in Process : Start(p) \/ Declare(p)
  <2>1. PICK p \in Process : Start(p) \/ Declare(p)
    BY <1>1
  <2>2. \A o \in Process : pc[o] # "down" => pc'[o] # "down"
    BY <2>1 DEF IInv, TypeOK, Start, Declare
  <2>3. \A m \in Message : holder[m] \in Process
    BY DEF IInv, TypeOK, Process
  <2>. QED  BY <2>1, <2>2, <2>3 DEF IInv, Held, Start, Subscribed, Declare, messageVars
<1>2. CASE \E p \in Process : DeclareFails(p) \/ Crash(p) \/ Recreate(p)
  <2>1. PICK p \in Process : Exit(p)
    BY <1>2 DEF DeclareFails, Crash, Recreate
  <2>2. \A o \in Process : o # p => pc'[o] = pc[o]
    BY <2>1 DEF IInv, TypeOK, Exit
  <2>3. \A m \in Message : holder[m] \in Process
    BY DEF IInv, TypeOK, Process
  <2>4. \A m \in Message : place'[m] = "held" => place[m] = "held" /\ holder[m] # p
    BY <2>1 DEF Exit
  <2>. QED  BY <2>1, <2>2, <2>3, <2>4 DEF IInv, Held, Exit
<1>3. CASE ChangeEnv
  BY <1>3 DEF IInv, Held, ChangeEnv, processVars, messageVars
<1>4. ASSUME NEW m \in Message, Receive(m) PROVE Held'
  <2>1. pc'[holder'[m]] # "down" /\ pc' = pc
    BY <1>4 DEF IInv, TypeOK, Receive, processVars
  <2>2. \A n \in Message : n # m => holder'[n] = holder[n] /\ place'[n] = place[n]
    BY <1>4 DEF IInv, TypeOK, Receive, Move
  <2>. QED  BY <2>1, <2>2 DEF IInv, Held
<1>5. ASSUME NEW m \in Message, NEW to, to # "held", Move(m, to), UNCHANGED <<pc, holder>>
      PROVE  Held'
  BY <1>5 DEF IInv, TypeOK, Held, Move
<1>6. \A q : /\ Published(q, "queue", "outbox") # "held" /\ Published(q, "dlq", "queue") # "held"
             /\ Published(q, "delayed", "queue") # "held" /\ Published(q, "queue", "dropped") # "held"
  BY DEF Published
<1>. QED
  BY <1>1, <1>2, <1>3, <1>4, <1>5, <1>6
     DEF Next, Boot, Expire, Publish, Handle, Conclude, Retry, processVars

LEMMA Invariance == Spec => []IInv
<1>1. IInv /\ [Next]_vars => IInv'
  <2>. SUFFICES ASSUME IInv, [Next]_vars PROVE IInv'
    OBVIOUS
  <2>1. CASE Next
    BY <2>1, TypeStep, ProgressStep, BaseStep, HeldStep DEF IInv
  <2>2. CASE UNCHANGED vars
    BY <2>2 DEF vars, processVars, messageVars, boundVars, IInv, TypeOK, Progress, Base, Held
  <2>. QED  BY <2>1, <2>2
<1>. QED
  BY InitInvariant, <1>1, PTL DEF Spec
----------------------------------------------------------------------------
(* What follows.                                                           *)

\* The state of the start-up protocol is well typed; in particular the broker
\* holds no TTL that it cannot represent.
THEOREM TypeCorrect == Spec => []TypeOK
BY Invariance, PTL DEF IInv

\* What a publication for a bound queue comes to.
LEMMA BoundIsDelivered ==
    ASSUME NEW q, NEW there, NEW raised, Binding(q) \in made
    PROVE  Published(q, there, raised) = there
BY DEF Published

\* A running consumer finds the queue of every attempt it may retry with.
LEMMA RetryQueueBound ==
    ASSUME IInv, NEW c \in Consumer, pc[c] = "running",
           NEW m \in Message, attempt[m] < setting[c].limit
    PROVE  Binding(attempt[m] + 1) \in made /\ Queue(setting[c], attempt[m] + 1) \in made
<1>1. c \in Process /\ setting[c] \in Settings /\ attempt[m] \in Nat
  BY DEF IInv, TypeOK, Process
<1>2. attempt[m] + 1 \in Queues(setting[c])
  BY <1>1, ConstantsTyped DEF Queues
<1>3. Things(setting[c]) \subseteq made
  BY <1>1, RunningComplete
<1>. QED
  BY <1>2, <1>3 DEF Things

LEMMA DropStep ==
    ASSUME IInv, [Next]_vars, NEW m \in Message, place'[m] = "dropped", place[m] # "dropped"
    PROVE  /\ place[m] = "held" /\ pc[holder[m]] = "starting"
           /\ attempt[m] < setting[holder[m]].limit
           /\ Binding(attempt[m] + 1) \notin made
<1>1. place'[m] # place[m]
  OBVIOUS
<1>2. Next
  BY <1>1 DEF vars, messageVars
<1>3. ASSUME NEW n \in Message, NEW to, Move(n, to) PROVE n = m /\ to = "dropped"
  BY <1>1, <1>3 DEF IInv, TypeOK, Move
<1>4. place[m] # "outbox" => Binding(Payments) \in made /\ Binding(Dlq) \in made
  BY DEF IInv, Base, Common
<1>5. ASSUME NEW n \in Message, NEW r \in Relay, Publish(r, n) PROVE FALSE
  <2>1. Published(Payments, "queue", "outbox") = "dropped"
    BY <1>3, <1>5 DEF Publish
  <2>2. r \in Process /\ pc[r] = "running" /\ setting[r] \in Settings
    BY <1>5 DEF IInv, TypeOK, Publish, Process
  <2>3. Binding(Payments) \in made
    BY <2>2, RunningComplete, CommonInTopology DEF Common
  <2>. QED  BY <2>1, <2>3 DEF Published
<1>6. ASSUME NEW n \in Message, Expire(n) PROVE FALSE
  BY <1>3, <1>4, <1>6 DEF Expire, Published
<1>7. ASSUME NEW n \in Message, Receive(n) PROVE FALSE
  BY <1>3, <1>7 DEF Receive
<1>8. ASSUME NEW n \in Message, NEW c \in Consumer, Conclude(c, n) PROVE FALSE
  BY <1>3, <1>4, <1>8 DEF Conclude, HeldBy, Published
<1>9. ASSUME NEW n \in Message, NEW c \in Consumer, Retry(c, n)
      PROVE  /\ place[m] = "held" /\ pc[holder[m]] = "starting"
             /\ attempt[m] < setting[holder[m]].limit
             /\ Binding(attempt[m] + 1) \notin made
  <2>1. n = m
    <3>1. PICK to : Move(n, to)
      BY <1>9 DEF Retry
    <3>. QED  BY <1>3, <3>1
  <2>2. place[m] = "held" /\ holder[m] = c /\ pc[c] # "down"
    BY <1>9, <2>1 DEF Retry, HeldBy
  <2>3. Published(Dlq, "dlq", "queue") # "dropped"
    BY <1>4, <2>2, BoundIsDelivered
  <2>4. attempt[m] < setting[c].limit
    BY <1>3, <1>9, <2>1, <2>3 DEF Retry
  <2>5. Published(attempt[m] + 1, "delayed", "queue") = "dropped"
    BY <1>3, <1>9, <2>1, <2>4 DEF Retry
  <2>6. Binding(attempt[m] + 1) \notin made
    BY <2>5, BoundIsDelivered
  <2>7. pc[c] # "running"
    BY <2>4, <2>6, RetryQueueBound
  <2>8. pc[c] = "starting"
    BY <2>2, <2>7 DEF IInv, TypeOK, Process
  <2>. QED  BY <2>2, <2>4, <2>6, <2>8
<1>10. CASE \E p \in Process : Boot(p) \/ Crash(p) \/ Recreate(p)
  BY <1>1, <1>10 DEF Boot, Start, Declare, DeclareFails, Crash, Recreate, Exit, messageVars
<1>11. CASE ChangeEnv
  BY <1>1, <1>11 DEF ChangeEnv, messageVars
<1>. QED
  BY <1>2, <1>5, <1>6, <1>7, <1>8, <1>9, <1>10, <1>11 DEF Next, Handle

\* Whatever the settings and however often they change, only a consumer that
\* is not up yet and was given a larger limit can lose an event.
THEOREM DropsAreConfined == Spec => DroppedOnlyWhileStarting
<1>1. IInv /\ [Next]_vars =>
        [\A m \in Message : place'[m] = "dropped" /\ place[m] # "dropped" =>
            /\ place[m] = "held" /\ pc[holder[m]] = "starting"
            /\ attempt[m] < setting[holder[m]].limit]_vars
  BY DropStep
<1>. QED
  BY Invariance, <1>1, PTL DEF Spec, DroppedOnlyWhileStarting

\* While .env is as it was at first, all containers have the same settings,
\* and an event is only where the topology of these settings is.
Agreed ==
    changes = 0 =>
        /\ \A p \in Process : setting[p] = env
        /\ \A m \in Message : place[m] # "outbox" => Things(env) \subseteq made

\* .env is unchanged as long as the count of changes is zero.
LEMMA UnchangedSoFar ==
    ASSUME TypeOK, [Next]_vars, changes' = 0
    PROVE  changes = 0 /\ env' = env
<1>1. changes \in Nat
  BY ConstantsTyped DEF TypeOK
<1>2. ~ ChangeEnv
  BY <1>1 DEF ChangeEnv
<1>3. UNCHANGED <<env, changes>>
  BY <1>2 DEF Next, Boot, Start, Declare, DeclareFails, Crash, Recreate, Exit, Receive,
              Expire, Publish, Handle, Conclude, Retry, boundVars, vars
<1>. QED
  BY <1>3

LEMMA AgreedStep ==
    ASSUME IInv, Agreed, [Next]_vars
    PROVE  Agreed'
<1>. SUFFICES ASSUME changes' = 0
              PROVE  /\ \A p \in Process : setting'[p] = env'
                     /\ \A m \in Message : place'[m] # "outbox" => Things(env)' \subseteq made'
  BY DEF Agreed
<1>1. changes = 0 /\ env' = env
  BY UnchangedSoFar DEF IInv
<1>2. Things(env)' = Things(env) /\ made \subseteq made'
  BY <1>1, BrokerKeeps DEF vars, Things, Exchange, Queue, Binding, Queues, Ttl
<1>3. \A p \in Process : setting[p] = env
  BY <1>1 DEF Agreed
<1>4. \A p \in Process : setting'[p] = env'
  BY <1>1, <1>3 DEF IInv, TypeOK, Next, Boot, Start, Declare, DeclareFails, Crash, Recreate, Exit,
                    Receive, Expire, Publish, Handle, Conclude, Retry, ChangeEnv, processVars, vars
<1>5. CASE \E m \in Message, r \in Relay : Publish(r, m)
  <2>1. \E p \in Process : pc[p] = "running"
    BY <1>5 DEF Publish, Process
  <2>2. Things(env) \subseteq made
    BY <1>3, <2>1, RunningComplete
  <2>. QED  BY <1>2, <1>4, <2>2
<1>6. CASE \A m \in Message : place[m] = "outbox" => place'[m] = "outbox"
  BY <1>1, <1>2, <1>4, <1>6 DEF Agreed
<1>7. ASSUME NEW n \in Message, NEW to, Move(n, to), place[n] # "outbox"
      PROVE  \A m \in Message : place[m] = "outbox" => place'[m] = "outbox"
  BY <1>7 DEF IInv, TypeOK, Move
<1>8. CASE \E p \in Process : Boot(p) \/ Crash(p) \/ Recreate(p)
  BY <1>6, <1>8 DEF Boot, Start, Declare, DeclareFails, Crash, Recreate, Exit, messageVars
<1>9. CASE ChangeEnv \/ UNCHANGED vars
  BY <1>6, <1>9 DEF ChangeEnv, vars, messageVars
<1>. QED
  BY <1>5, <1>6, <1>7, <1>8, <1>9 DEF Next, Receive, Expire, Handle, Conclude, Retry, HeldBy

\* While .env stays as it is nothing is ever dropped: the relay that published
\* the first event had declared all that any consumer will publish to.
THEOREM SameSettingsDropNothing == Spec => []SameEnvDropsNothing
<1>1. Init => Agreed /\ SameEnvDropsNothing
  BY DEF Init, Agreed, SameEnvDropsNothing, NothingDropped
<1>2. IInv /\ Agreed /\ SameEnvDropsNothing /\ [Next]_vars => SameEnvDropsNothing'
  <2>. SUFFICES ASSUME IInv, Agreed, SameEnvDropsNothing, [Next]_vars, changes' = 0,
                       NEW m \in Message, place'[m] = "dropped"
                PROVE  FALSE
    BY DEF SameEnvDropsNothing, NothingDropped
  <2>1. changes = 0 /\ place[m] # "dropped"
    BY UnchangedSoFar DEF IInv, SameEnvDropsNothing, NothingDropped
  <2>2. /\ place[m] = "held" /\ attempt[m] < setting[holder[m]].limit
        /\ Binding(attempt[m] + 1) \notin made
    BY <2>1, DropStep
  <2>3. holder[m] \in Process /\ attempt[m] \in Nat
    BY DEF IInv, TypeOK, Process
  <2>4. setting[holder[m]] = env /\ env \in Settings
    BY <2>1, <2>3 DEF Agreed, IInv, TypeOK
  <2>5. attempt[m] + 1 \in Queues(env)
    BY <2>2, <2>3, <2>4, ConstantsTyped DEF Queues
  <2>6. Things(env) \subseteq made
    BY <2>1, <2>2 DEF Agreed
  <2>. QED  BY <2>2, <2>5, <2>6 DEF Things
<1>3. IInv /\ Agreed /\ [Next]_vars => Agreed'
  BY AgreedStep
<1>. QED
  BY Invariance, <1>1, <1>2, <1>3, PTL DEF Spec

\* Topology and policy count differently, and mean the same delay.
LEMMA DelayOfQueue ==
    ASSUME NEW s, NEW a \in Nat \ {0}
    PROVE  Ttl(s, a + 1) = Delay(s, a) \div Millisecond
<1>1. PICK q : q = a + 1
  OBVIOUS
<1>2. q \notin {Payments, Dlq} /\ q - 2 = a - 1
  BY <1>1 DEF Payments, Dlq
<1>3. Ttl(s, q) = (s.delay * 2 ^ (q - 2)) \div Millisecond
  BY <1>2, Zenon DEF Ttl
<1>4. Ttl(s, q) = Delay(s, a) \div Millisecond
  BY <1>2, <1>3, Zenon DEF Delay
<1>. QED
  BY <1>1, <1>4, Zenon

\* A running consumer's retries wait as long as its own policy decides: the
\* queue in the broker is the one its settings describe.
THEOREM DelaysAreTheConsumersOwn == Spec => DelayAsDecided
<1>1. ASSUME IInv, NEW c \in Consumer, NEW m \in Message, [Next]_vars,
             HeldBy(c, m), pc[c] = "running", place'[m] = "delayed"
      PROVE  \E t \in made : /\ t.kind = "queue" /\ t.no = attempt'[m]
                             /\ t.ttl = Delay(setting[c], attempt[m]) \div Millisecond
  <2>1. Next /\ place'[m] # place[m]
    BY <1>1 DEF HeldBy, vars, messageVars
  <2>2. ASSUME NEW n \in Message, NEW to, Move(n, to) PROVE n = m /\ to = "delayed"
    BY <1>1, <2>1, <2>2 DEF IInv, TypeOK, Move
  <2>3. \A q : /\ Published(q, "queue", "outbox") # "delayed" /\ Published(q, "dlq", "queue") # "delayed"
               /\ Published(q, "queue", "dropped") # "delayed"
    BY DEF Published
  <2>4. \E d \in Consumer : Retry(d, m)
    <3>1. CASE \E p \in Process : Boot(p) \/ Crash(p) \/ Recreate(p)
      BY <1>1, <2>1, <3>1 DEF Boot, Start, Declare, DeclareFails, Crash, Recreate, Exit,
                                 messageVars, HeldBy
    <3>2. CASE ChangeEnv
      BY <2>1, <3>2 DEF ChangeEnv, messageVars
    <3>3. ASSUME NEW n \in Message, NEW d \in Consumer, Retry(d, n) PROVE n = m
      <4>1. PICK to : Move(n, to)
        BY <3>3 DEF Retry
      <4>. QED  BY <2>2, <4>1
    <3>. QED
      BY <2>1, <2>2, <2>3, <3>1, <3>2, <3>3
         DEF Next, Receive, Expire, Publish, Handle, Conclude
  <2>5. Retry(c, m)
    BY <1>1, <2>4 DEF Retry, HeldBy
  <2>6. attempt[m] < setting[c].limit
    BY <2>2, <2>3, <2>5 DEF Retry
  <2>7. Binding(attempt[m] + 1) \in made /\ Queue(setting[c], attempt[m] + 1) \in made
    BY <1>1, <2>6, RetryQueueBound
  <2>8. attempt'[m] = attempt[m] + 1 /\ attempt[m] \in Nat \ {0}
    BY <1>1, <2>5, <2>6, <2>7 DEF IInv, TypeOK, Retry
  <2>9. Ttl(setting[c], attempt[m] + 1) = Delay(setting[c], attempt[m]) \div Millisecond
    BY <2>8, DelayOfQueue
  <2>. QED  BY <2>7, <2>8, <2>9 DEF Queue
<1>2. IInv /\ [Next]_vars =>
        [\A c \in Consumer, m \in Message :
            HeldBy(c, m) /\ pc[c] = "running" /\ place'[m] = "delayed" =>
                \E t \in made : /\ t.kind = "queue" /\ t.no = attempt'[m]
                                /\ t.ttl = Delay(setting[c], attempt[m]) \div Millisecond]_vars
  BY <1>1
<1>. QED
  BY Invariance, <1>2, PTL DEF Spec, DelayAsDecided
============================================================================
