------------------------- MODULE RetryBudgetProofs -------------------------
(***************************************************************************)
(* The retry budget of PaymentConsumer, for all constants.  The activations *)
(* of a payment that the broker and the handlers may still bring are added  *)
(* up; publications, redrives and faults pay for what is added.             *)
(***************************************************************************)
EXTENDS PaymentConsumerProofs, FiniteSetTheorems

\* A table of numbers, coin by coin; its sum is the number of coins.
Coins(table) == UNION {{x} \X (1 .. table[x]) : x \in DOMAIN table}
Sum(table) == Cardinality(Coins(table))
Summable(table) == IsFiniteSet(Coins(table))

\* The activations a message may still bring, the one it is given to included.
Remaining(header) == MaxAttempts - ParseAttempt(header) + 1

\* The activations of p still to come from a queue, attempt by attempt.
InBag(bag, p) == [n \in Header |-> bag[[body |-> p, header |-> n]] * Remaining(n)]

\* The activations of p still to come from what a handler was given.  Its own is
\* among them for as long as its stage is in the set.
Share(h, p, stages) ==
    IF pc[h] \in {"idle", "ack", "dlq"} \/ Pid(h) # p THEN 0
    ELSE IF pc[h] \in stages \cup {"stuck"} THEN Remaining(held[h].header)
    ELSE Remaining(held[h].header) - 1
InHands(p, stages) == [h \in Handler |-> Share(h, p, stages)]

Owed(p, stages) == Sum(InBag(queue, p)) + Sum(InBag(retry, p)) + Sum(InHands(p, stages))
Budget(p) == MaxAttempts * (sends[p] + redrives + faults)

\* An activation is spent on the gateway when the lock is obtained, and on the
\* webhook when its outcome is saved.
BeforeCharge == {"lock"}
BeforeRecord == {"lock", "gateway", "save", "read", "post", "record"}

\* The numbers of failed deliveries a step may write: the row's own, and those
\* of the copies of the row that handlers may still write back.
Counts(p) ==
    {payment[p].attempts} \cup
    {copy[h].attempts : h \in {g \in Handler :
        pc[g] \in {"gateway", "save", "post", "record"} /\ Pid(g) = p}}

AllSummable(p) ==
    /\ Summable(InBag(queue, p)) /\ Summable(InBag(retry, p))
    /\ Summable(InHands(p, BeforeCharge)) /\ Summable(InHands(p, BeforeRecord))

\* The account of payment p: what was spent and what may still be is paid for.
Account(p) ==
    /\ AllSummable(p)
    /\ charged[p] + Owed(p, BeforeCharge) <= Budget(p)
    /\ \A n \in Counts(p) : n + Owed(p, BeforeRecord) <= Budget(p)
----------------------------------------------------------------------------
(* Sums of tables.                                                         *)

\* A pair is a coin if its number is among those of its entry.
LEMMA CoinsAre ==
    ASSUME NEW D, NEW table \in [D -> Nat], NEW c
    PROVE  c \in Coins(table) <=> \E x \in D : \E k \in 1 .. table[x] : c = <<x, k>>
<1>1. c \in Coins(table) <=> \E x \in D : c \in {x} \X (1 .. table[x])
  BY Zenon DEF Coins
<1>2. QED
  BY <1>1

\* A table with one entry changed: the sum changes by as much.
LEMMA SumChanges ==
    ASSUME NEW D, NEW old \in [D -> Nat], NEW new \in [D -> Nat], NEW x \in D,
           \A y \in D \ {x} : new[y] = old[y], Summable(old)
    PROVE  Summable(new) /\ Sum(new) = Sum(old) - old[x] + new[x] /\ Sum(old) \in Nat /\ Sum(new) \in Nat
<1> DEFINE column(n) == {x} \X (1 .. n)
           rest == Coins(old) \ column(old[x])
<1>1. ASSUME NEW n \in Nat
      PROVE  IsFiniteSet(column(n)) /\ Cardinality(column(n)) = n
  <2>1. IsFiniteSet({x}) /\ Cardinality({x}) = 1
    BY FS_Singleton
  <2>2. IsFiniteSet(1 .. n) /\ Cardinality(1 .. n) = n
    <3>1. /\ IsFiniteSet(1 .. n)
          /\ Cardinality(1 .. n) = IF 1 > n THEN 0 ELSE n - 1 + 1
      BY 1 \in Int, n \in Int, FS_Interval, Zenon
    <3>2. QED
      BY <3>1
  <2>3. /\ IsFiniteSet({x} \X (1 .. n))
        /\ Cardinality({x} \X (1 .. n)) = Cardinality({x}) * Cardinality(1 .. n)
    BY <2>1, <2>2, FS_Product, Zenon
  <2>4. Cardinality({x}) * Cardinality(1 .. n) = n
    BY <2>1, <2>2
  <2>5. QED
    BY <2>3, <2>4, Zenon
<1>2. column(old[x]) \subseteq Coins(old)
  BY CoinsAre
<1>3. Coins(new) = rest \cup column(new[x])
  <2>1. ASSUME NEW c \in Coins(new)
        PROVE  c \in rest \cup column(new[x])
    BY <2>1, CoinsAre
  <2>2. ASSUME NEW c \in rest \cup column(new[x])
        PROVE  c \in Coins(new)
    BY <2>2, CoinsAre
  <2>3. QED
    BY <2>1, <2>2
<1>4. rest \cap column(new[x]) = {}
  <2> SUFFICES ASSUME NEW c \in rest, c \in column(new[x])
               PROVE  FALSE
    OBVIOUS
  <2>1. PICK y \in D : \E k \in 1 .. old[y] : c = <<y, k>>
    BY CoinsAre
  <2>2. QED
    BY <2>1
<1>5. IsFiniteSet(rest) /\ Cardinality(rest) = Cardinality(Coins(old)) - old[x]
  <2>1. Coins(old) \cap column(old[x]) = column(old[x])
    BY <1>2
  <2>2. old[x] \in Nat /\ IsFiniteSet(Coins(old))
    BY DEF Summable
  <2>3. /\ IsFiniteSet(rest)
        /\ Cardinality(rest) = Cardinality(Coins(old)) - Cardinality(Coins(old) \cap column(old[x]))
    BY <2>2, FS_Difference, Zenon
  <2>4. QED
    BY <1>1, <2>1, <2>2, <2>3
<1> HIDE DEF rest, column
<1>6. IsFiniteSet(Coins(new)) /\ Cardinality(Coins(new)) = Cardinality(rest) + new[x]
  <2>1. IsFiniteSet(column(new[x])) /\ Cardinality(column(new[x])) = new[x] /\ new[x] \in Nat
    BY <1>1
  <2>2. /\ IsFiniteSet(rest \cup column(new[x]))
        /\ Cardinality(rest \cup column(new[x]))
             = Cardinality(rest) + Cardinality(column(new[x])) - Cardinality(rest \cap column(new[x]))
    BY <1>5, <2>1, FS_Union, Zenon
  <2>3. Cardinality(rest) \in Nat
    BY <1>5, FS_CardinalityType
  <2>4. QED
    BY <1>3, <1>4, <2>1, <2>2, <2>3, FS_EmptySet
<1>7. Cardinality(Coins(old)) \in Nat /\ Cardinality(Coins(new)) \in Nat
  BY <1>6, FS_CardinalityType DEF Summable
<1>8. QED
  BY <1>5, <1>6, <1>7 DEF Sum, Summable
----------------------------------------------------------------------------
(* What a message, a queue and a handler add to the account.               *)

\* No message may bring more than MaxAttempts activations, and a new one as many.
LEMMA RemainingInRange ==
    /\ \A n \in Header : Remaining(n) \in 1 .. MaxAttempts
    /\ {0, 1} \subseteq Header /\ Remaining(0) = MaxAttempts /\ Remaining(1) = MaxAttempts
  BY RetryAssumption DEF Header, Remaining, ParseAttempt, AtLeastOne

\* A retry continues the budget of the message it succeeds.
LEMMA RetryRemaining ==
    ASSUME NEW n \in Header
    PROVE  Remaining(NextAttempt(ParseAttempt(n))) = Remaining(n) - 1
  BY RetryAssumption DEF Header, Remaining, ParseAttempt, AtLeastOne, NextAttempt

LEMMA InBagTyped ==
    ASSUME NEW bag \in [Message -> Nat], NEW p \in PaymentId
    PROVE  InBag(bag, p) \in [Header -> Nat]
<1>1. ASSUME NEW n \in Header
      PROVE  bag[[body |-> p, header |-> n]] * Remaining(n) \in Nat
  <2>1. bag[[body |-> p, header |-> n]] \in Nat
    BY DEF Message, Body
  <2>2. Remaining(n) \in Nat
    BY RemainingInRange, RetryAssumption
  <2>3. QED
    BY <2>1, <2>2
<1>2. QED
  BY <1>1 DEF InBag

\* A queue with one copy of m more, or less.
LEMMA BagChanges ==
    ASSUME NEW bag \in [Message -> Nat], NEW m \in Message, NEW p \in PaymentId,
           NEW new \in [Message -> Nat], NEW k \in Int, new[m] = bag[m] + k,
           \A n \in Message \ {m} : new[n] = bag[n], Summable(InBag(bag, p))
    PROVE  /\ Summable(InBag(new, p))
           /\ Sum(InBag(new, p))
                = Sum(InBag(bag, p)) + (IF m.body = p THEN k * Remaining(m.header) ELSE 0)
<1>2. m = [body |-> m.body, header |-> m.header] /\ m.header \in Header
  BY DEF Message
<1>3. CASE m.body = p
  <2> DEFINE n == m.header
  <2>1. InBag(bag, p) \in [Header -> Nat] /\ InBag(new, p) \in [Header -> Nat]
    BY InBagTyped
  <2>2. \A i \in Header \ {n} : InBag(new, p)[i] = InBag(bag, p)[i]
    <3> SUFFICES ASSUME NEW i \in Header \ {n}
                 PROVE  new[[body |-> p, header |-> i]] = bag[[body |-> p, header |-> i]]
      BY DEF InBag
    <3>1. [body |-> p, header |-> i] \in Message /\ [body |-> p, header |-> i] # m
      BY DEF Message, Body
    <3>2. QED
      BY <3>1
  <2>3. InBag(new, p)[n] = InBag(bag, p)[n] + k * Remaining(n)
    <3>1. bag[m] \in Nat /\ Remaining(n) \in Nat /\ new[m] = bag[m] + k
      BY <1>2, RemainingInRange, RetryAssumption
    <3>2. InBag(new, p)[n] = new[m] * Remaining(n) /\ InBag(bag, p)[n] = bag[m] * Remaining(n)
      BY <1>2, <1>3 DEF InBag
    <3>3. (bag[m] + k) * Remaining(n) = bag[m] * Remaining(n) + k * Remaining(n)
      BY <3>1
    <3>4. QED
      BY <3>1, <3>2, <3>3
  <2>4. InBag(bag, p)[n] \in Nat /\ k * Remaining(n) \in Int
    BY <1>2, <2>1, RemainingInRange, RetryAssumption
  <2> DEFINE old == InBag(bag, p)
             changed == InBag(new, p)
  <2>5. /\ Summable(changed) /\ Sum(old) \in Nat
        /\ Sum(changed) = Sum(old) - old[n] + changed[n]
    <3>1. /\ old \in [Header -> Nat] /\ changed \in [Header -> Nat] /\ n \in Header
          /\ \A i \in Header \ {n} : changed[i] = old[i]
          /\ Summable(old)
      BY <1>2, <2>1, <2>2
    <3> HIDE DEF old, changed
    <3>2. QED
      BY <3>1, SumChanges
  <2>6. QED
    BY <1>3, <2>3, <2>4, <2>5
<1>4. CASE m.body # p
  <2>1. \A n \in Header : new[[body |-> p, header |-> n]] = bag[[body |-> p, header |-> n]]
    <3> SUFFICES ASSUME NEW n \in Header
                 PROVE  new[[body |-> p, header |-> n]] = bag[[body |-> p, header |-> n]]
      OBVIOUS
    <3>1. [body |-> p, header |-> n] \in Message /\ [body |-> p, header |-> n] # m
      BY <1>4 DEF Message, Body
    <3>2. QED
      BY <3>1
  <2>2. InBag(new, p) = InBag(bag, p)
    BY <2>1 DEF InBag
  <2>3. Sum(InBag(bag, p)) \in Nat
    BY FS_CardinalityType DEF Summable, Sum
  <2>4. QED
    BY <1>4, <2>2, <2>3
<1>5. QED
  BY <1>3, <1>4

LEMMA PutCounts ==
    ASSUME NEW bag \in [Message -> Nat], NEW m \in Message, NEW p \in PaymentId,
           Summable(InBag(bag, p))
    PROVE  /\ Summable(InBag(Put(bag, m), p))
           /\ Sum(InBag(Put(bag, m), p))
                = Sum(InBag(bag, p)) + (IF m.body = p THEN Remaining(m.header) ELSE 0)
<1> DEFINE new == Put(bag, m)
<1>1. /\ new \in [Message -> Nat] /\ new[m] = bag[m] + 1
      /\ \A n \in Message \ {m} : new[n] = bag[n]
  BY DEF Put
<1>2. Remaining(m.header) \in Int
  BY RemainingInRange, RetryAssumption DEF Message
<1> HIDE DEF new
<1>3. /\ Summable(InBag(new, p))
      /\ Sum(InBag(new, p))
           = Sum(InBag(bag, p)) + (IF m.body = p THEN 1 * Remaining(m.header) ELSE 0)
  BY <1>1, 1 \in Int, BagChanges
<1>4. QED
  BY <1>2, <1>3 DEF new

LEMMA TakeCounts ==
    ASSUME NEW bag \in [Message -> Nat], NEW m \in Message, NEW p \in PaymentId,
           bag[m] > 0, Summable(InBag(bag, p))
    PROVE  /\ Summable(InBag(Take(bag, m), p))
           /\ Sum(InBag(Take(bag, m), p))
                = Sum(InBag(bag, p)) - (IF m.body = p THEN Remaining(m.header) ELSE 0)
<1> DEFINE new == Take(bag, m)
<1>1. /\ new \in [Message -> Nat] /\ new[m] = bag[m] + (-1)
      /\ \A n \in Message \ {m} : new[n] = bag[n]
  BY DEF Take
<1>2. Remaining(m.header) \in Int
  BY RemainingInRange, RetryAssumption DEF Message
<1> HIDE DEF new
<1>3. /\ Summable(InBag(new, p))
      /\ Sum(InBag(new, p))
           = Sum(InBag(bag, p)) + (IF m.body = p THEN (-1) * Remaining(m.header) ELSE 0)
  BY <1>1, (-1) \in Int, BagChanges
<1>4. Sum(InBag(bag, p)) \in Nat
  BY FS_CardinalityType DEF Summable, Sum
<1>5. QED
  BY <1>2, <1>3, <1>4 DEF new

\* What a queue owes is a number.
LEMMA SumTyped ==
    ASSUME NEW table, Summable(table)
    PROVE  Sum(table) \in Nat
  BY FS_CardinalityType DEF Summable, Sum

\* A handler owes no more than a new message.
LEMMA ShareInRange ==
    ASSUME TypeInv, NEW h \in Handler, NEW p \in PaymentId, NEW stages
    PROVE  Share(h, p, stages) \in 0 .. MaxAttempts
<1>1. Remaining(held[h].header) \in 1 .. MaxAttempts
  BY RemainingInRange DEF TypeInv, TypeOK, Message
<1>2. QED
  BY <1>1, RetryAssumption DEF Share

\* The handlers' part of the account, when one handler moves.
LEMMA HandsChange ==
    ASSUME TypeInv, TypeInv', NEW h \in Handler, NEW p \in PaymentId, NEW stages,
           \A g \in Handler \ {h} : pc'[g] = pc[g] /\ held'[g] = held[g],
           Summable(InHands(p, stages))
    PROVE  /\ Summable(InHands(p, stages))'
           /\ Sum(InHands(p, stages))'
                = Sum(InHands(p, stages)) - Share(h, p, stages) + Share(h, p, stages)'
<1> DEFINE old == InHands(p, stages)
           new == InHands(p, stages)'
<1>1. \A g \in Handler : Share(g, p, stages) \in Nat /\ Share(g, p, stages)' \in Nat
  <2>1. \A g \in Handler : Share(g, p, stages) \in 0 .. MaxAttempts
    BY ShareInRange
  <2>2. ASSUME NEW g \in Handler
        PROVE  Share(g, p, stages)' \in 0 .. MaxAttempts
    <3>1. Remaining(held'[g].header) \in 1 .. MaxAttempts
      BY RemainingInRange DEF TypeInv, TypeOK, Message
    <3>2. QED
      BY <3>1, RetryAssumption DEF Share
  <2>3. QED
    BY <2>1, <2>2, RetryAssumption
<1>2. old \in [Handler -> Nat] /\ new \in [Handler -> Nat]
  BY <1>1 DEF InHands
<1>3. \A g \in Handler \ {h} : new[g] = old[g]
  BY DEF InHands, Share, Pid
<1>4. old[h] = Share(h, p, stages) /\ new[h] = Share(h, p, stages)' /\ Summable(old)
  BY DEF InHands
<1> HIDE DEF old, new
<1>5. Summable(new) /\ Sum(new) = Sum(old) - old[h] + new[h]
  BY <1>2, <1>3, <1>4, SumChanges
<1>6. QED
  BY <1>4, <1>5 DEF old, new, Summable, Sum, Coins
----------------------------------------------------------------------------
(* Steps.                                                                  *)

\* What is spent and owed grows by no more than the budget: the account holds.
LEMMA Balance ==
    ASSUME TypeInv, NEW p \in PaymentId, Account(p), AllSummable(p)', NEW grant \in Nat,
           charged'[p] \in Nat, Budget(p)' = Budget(p) + grant,
           charged'[p] + Owed(p, BeforeCharge)' <= charged[p] + Owed(p, BeforeCharge) + grant,
           \A n \in Counts(p)' :
              n \in Nat /\ \E k \in Counts(p) :
                n + Owed(p, BeforeRecord)' <= k + Owed(p, BeforeRecord) + grant
    PROVE  Account(p)'
<1>1. Budget(p) \in Nat
  BY RetryAssumption DEF Budget, TypeInv, TypeOK, Body
<1>2. /\ Owed(p, BeforeCharge) \in Nat /\ Owed(p, BeforeRecord) \in Nat
      /\ Owed(p, BeforeCharge)' \in Nat /\ Owed(p, BeforeRecord)' \in Nat
  <2>1. AllSummable(p)
    BY DEF Account
  <2>2. Owed(p, BeforeCharge) \in Nat /\ Owed(p, BeforeRecord) \in Nat
    BY <2>1, SumTyped DEF AllSummable, Owed
  <2>3. Owed(p, BeforeCharge)' \in Nat /\ Owed(p, BeforeRecord)' \in Nat
    BY SumTyped DEF AllSummable, Owed
  <2>4. QED
    BY <2>2, <2>3
<1>3. charged[p] \in Nat /\ \A k \in Counts(p) : k \in Nat
  BY DEF TypeInv, TypeOK, Counts, Row
<1>4. charged'[p] + Owed(p, BeforeCharge)' <= Budget(p)'
  BY <1>1, <1>2, <1>3 DEF Account
<1>5. ASSUME NEW n \in Counts(p)'
      PROVE  n + Owed(p, BeforeRecord)' <= Budget(p)'
  <2>1. PICK k \in Counts(p) : n \in Nat /\ n + Owed(p, BeforeRecord)' <= k + Owed(p, BeforeRecord) + grant
    OBVIOUS
  <2>2. k \in Nat /\ k + Owed(p, BeforeRecord) <= Budget(p)
    BY <1>3 DEF Account
  <2>3. QED
    BY <1>1, <1>2, <2>1, <2>2
<1>6. QED
  BY <1>4, <1>5 DEF Account

\* A step of handler h: its share changes, and perhaps the queues.
LEMMA HandlerBalance ==
    ASSUME TypeInv, TypeInv', NEW h \in Handler, NEW p \in PaymentId, Account(p),
           \A g \in Handler \ {h} : pc'[g] = pc[g] /\ held'[g] = held[g],
           NEW grant \in Nat, Budget(p)' = Budget(p) + grant,
           NEW ready \in Int, NEW delayed \in Int,
           Summable(InBag(queue', p)), Sum(InBag(queue', p)) = Sum(InBag(queue, p)) + ready,
           Summable(InBag(retry', p)), Sum(InBag(retry', p)) = Sum(InBag(retry, p)) + delayed,
           charged'[p] + Share(h, p, BeforeCharge)' + ready + delayed
             <= charged[p] + Share(h, p, BeforeCharge) + grant,
           \A n \in Counts(p)' : \E k \in Counts(p) :
              n + Share(h, p, BeforeRecord)' + ready + delayed
                <= k + Share(h, p, BeforeRecord) + grant
    PROVE  Account(p)'
<1>1. AllSummable(p)
  BY DEF Account
<1>2. AllSummable(p)'
  <2>1. Summable(InHands(p, BeforeCharge))' /\ Summable(InHands(p, BeforeRecord))'
    BY <1>1, HandsChange DEF AllSummable
  <2>2. Summable(InBag(queue, p))' /\ Summable(InBag(retry, p))'
    BY DEF InBag, Summable, Coins
  <2>3. QED
    BY <2>1, <2>2 DEF AllSummable
<1>3. ASSUME NEW stages \in {BeforeCharge, BeforeRecord}
      PROVE  /\ Owed(p, stages) \in Nat /\ Share(h, p, stages) \in Nat
             /\ Share(h, p, stages)' \in Int
             /\ Owed(p, stages)'
                  = Owed(p, stages) - Share(h, p, stages) + Share(h, p, stages)' + ready + delayed
  <2>1. /\ Sum(InBag(queue, p)) \in Nat /\ Sum(InBag(retry, p)) \in Nat
        /\ Sum(InHands(p, stages)) \in Nat
    BY <1>1, SumTyped DEF AllSummable
  <2>2. Sum(InHands(p, stages))'
          = Sum(InHands(p, stages)) - Share(h, p, stages) + Share(h, p, stages)'
    BY <1>1, HandsChange DEF AllSummable
  <2>3. Share(h, p, stages) \in Nat
    BY ShareInRange, RetryAssumption
  <2>4. Share(h, p, stages)' \in Int
    <3>1. Remaining(held'[h].header) \in 1 .. MaxAttempts
      BY RemainingInRange DEF TypeInv, TypeOK, Message
    <3>2. QED
      BY <3>1, RetryAssumption DEF Share
  <2>5. Sum(InBag(queue, p))' = Sum(InBag(queue', p)) /\ Sum(InBag(retry, p))' = Sum(InBag(retry', p))
    BY DEF Sum, Coins, InBag
  <2>6. QED
    BY <2>1, <2>2, <2>3, <2>4, <2>5 DEF Owed
<1>4. /\ charged[p] \in Nat /\ charged'[p] \in Nat
      /\ \A k \in Counts(p) : k \in Nat
      /\ \A n \in Counts(p)' : n \in Nat
  BY DEF TypeInv, TypeOK, Counts, Row
<1>5. charged'[p] + Owed(p, BeforeCharge)' <= charged[p] + Owed(p, BeforeCharge) + grant
  BY <1>3, <1>4
<1>6. ASSUME NEW n \in Counts(p)'
      PROVE  \E k \in Counts(p) :
                n + Owed(p, BeforeRecord)' <= k + Owed(p, BeforeRecord) + grant
  <2>1. PICK k \in Counts(p) :
          n + Share(h, p, BeforeRecord)' + ready + delayed <= k + Share(h, p, BeforeRecord) + grant
    OBVIOUS
  <2>2. n + Owed(p, BeforeRecord)' <= k + Owed(p, BeforeRecord) + grant
    BY <1>3, <1>4, <2>1
  <2>3. QED
    BY <2>2
<1>7. QED
  BY <1>2, <1>4, <1>5, <1>6, Balance

\* A handler that goes on to a later stage owes no more.
LEMMA AdvanceOwesLess ==
    ASSUME TypeInv, NEW h \in Handler, NEW p \in PaymentId, NEW stages,
           held'[h] = held[h], pc[h] \notin {"idle", "ack", "dlq"}, pc'[h] # "stuck",
           pc'[h] \in stages => pc[h] \in stages
    PROVE  Share(h, p, stages)' <= Share(h, p, stages)
<1>1. Remaining(held[h].header) \in 1 .. MaxAttempts
  BY RemainingInRange DEF TypeInv, TypeOK, Message
<1>2. QED
  BY <1>1, RetryAssumption DEF Share, Pid

\* No new count appears, unless handler h reads or writes one.
LEMMA CountsKept ==
    ASSUME NEW h \in Handler, NEW p \in PaymentId, OthersStay(h), NEW allowed,
           Counts(p) \subseteq allowed, payment'[p].attempts \in allowed,
           pc'[h] \in {"gateway", "save", "post", "record"} /\ held'[h].body = p =>
              copy'[h].attempts \in allowed
    PROVE  Counts(p)' \subseteq allowed
  BY DEF Counts, OthersStay, Pid

\* A step that touches no queue, spends nothing and counts nothing.
LEMMA QuietAccount ==
    ASSUME TypeInv, TypeInv', NEW h \in Handler, NEW p \in PaymentId, Account(p), OthersStay(h),
           UNCHANGED <<queue, retry, sends, redrives, faults, charged>>,
           payment'[p].attempts \in Counts(p),
           pc'[h] \in {"gateway", "save", "post", "record"} /\ held'[h].body = p =>
              copy'[h].attempts \in Counts(p),
           Share(h, p, BeforeCharge)' <= Share(h, p, BeforeCharge),
           Share(h, p, BeforeRecord)' <= Share(h, p, BeforeRecord)
    PROVE  Account(p)'
<1>1. Counts(p)' \subseteq Counts(p)
  BY CountsKept
<1>2. /\ charged[p] \in Nat /\ \A n \in Counts(p) : n \in Nat
      /\ Share(h, p, BeforeCharge) \in Nat /\ Share(h, p, BeforeRecord) \in Nat
  BY ShareInRange, RetryAssumption DEF TypeInv, TypeOK, Counts, Row
<1>3. Share(h, p, BeforeCharge)' \in Int /\ Share(h, p, BeforeRecord)' \in Int
  <2>1. Remaining(held'[h].header) \in 1 .. MaxAttempts
    BY RemainingInRange DEF TypeInv, TypeOK, Message
  <2>2. QED
    BY <2>1, RetryAssumption DEF Share
<1>4. Budget(p)' = Budget(p) + 0
  <2>1. Budget(p) \in Nat
    BY RetryAssumption DEF Budget, TypeInv, TypeOK, Body
  <2>2. QED
    BY <2>1 DEF Budget
<1>5. /\ Summable(InBag(queue', p)) /\ Sum(InBag(queue', p)) = Sum(InBag(queue, p)) + 0
      /\ Summable(InBag(retry', p)) /\ Sum(InBag(retry', p)) = Sum(InBag(retry, p)) + 0
  BY SumTyped DEF Account, AllSummable
<1>6. \A n \in Counts(p)' : \E k \in Counts(p) :
        n + Share(h, p, BeforeRecord)' + 0 + 0 <= k + Share(h, p, BeforeRecord) + 0
  BY <1>1, <1>2, <1>3
<1>7. charged'[p] + Share(h, p, BeforeCharge)' + 0 + 0 <= charged[p] + Share(h, p, BeforeCharge) + 0
  BY <1>2, <1>3
<1>8. \A g \in Handler \ {h} : pc'[g] = pc[g] /\ held'[g] = held[g]
  BY DEF OthersStay
<1>9. 0 \in Nat /\ 0 \in Int
  OBVIOUS
<1>10. QED
  BY <1>4, <1>5, <1>6, <1>7, <1>8, <1>9, HandlerBalance

\* The steps of a handler before its message is acknowledged that spend nothing:
\* it reads, asks the gateway, saves a decision, posts, fails or goes on.
LEMMA AccountQuiet ==
    ASSUME TypeInv, TypeInv', NEW h \in Handler, NEW p \in PaymentId, Account(p),
           \/ LockMissing(h) \/ LockFinal(h) \/ GatewayAnswers(h) \/ Save(h) \/ Read(h)
           \/ Post(h) \/ Fail(h) \/ Ack(h) \/ LoseDatabase(h)
    PROVE  Account(p)'
<1> USE DEF TypeInv, TypeOK, Goto, brokerVars, boundVars, historyVars
<1>1. /\ OthersStay(h)
      /\ UNCHANGED <<queue, retry, sends, redrives, faults, charged>>
  BY DEF OthersStay, LockMissing, LockFinal, GatewayAnswers, Save, Read, OpenTx, CloseTx, Post,
     Fail, Ack, Leave, LoseDatabase
<1>2. payment'[p].attempts \in Counts(p)
  <2>1. CASE Save(h)
    <3>1. payment'[p] = payment[p] \/ (Pid(h) = p /\ payment'[p].attempts = copy[h].attempts)
      BY <2>1 DEF Save, Transition, Row
    <3>2. QED
      BY <2>1, <3>1 DEF Save, Counts
  <2>2. CASE ~ Save(h)
    BY <2>2 DEF LockMissing, LockFinal, GatewayAnswers, Read, Post, Fail, Ack, LoseDatabase, Counts
  <2>3. QED
    BY <2>1, <2>2
<1>3. ASSUME pc'[h] \in {"gateway", "save", "post", "record"}, held'[h].body = p
      PROVE  copy'[h].attempts \in Counts(p)
  <2>1. CASE GatewayAnswers(h) \/ Post(h) \/ LoseDatabase(h)
    BY <1>3, <2>1 DEF GatewayAnswers, Post, LoseDatabase, Counts, Pid
  <2>2. CASE Read(h)
    BY <1>3, <2>2 DEF Read, OpenTx, Counts, Pid
  <2>3. CASE LockMissing(h) \/ LockFinal(h) \/ Save(h) \/ Fail(h) \/ Ack(h)
    BY <1>3, <2>3 DEF LockMissing, LockFinal, AfterSettlement, Save, Fail, Ack, Leave
  <2>4. QED
    BY <2>1, <2>2, <2>3
<1>4. ASSUME NEW stages \in {BeforeCharge, BeforeRecord}
      PROVE  Share(h, p, stages)' <= Share(h, p, stages)
  <2>1. CASE Ack(h)
    <3>1. Share(h, p, stages)' = 0 /\ Share(h, p, stages) = 0
      BY <2>1 DEF Ack, Leave, Share
    <3>2. QED
      BY <3>1
  <2>2. CASE LoseDatabase(h)
    <3>1. Share(h, p, stages)' = Share(h, p, stages) /\ Share(h, p, stages) \in 0 .. MaxAttempts
      BY <2>2, ShareInRange DEF LoseDatabase, Share, Pid
    <3>2. QED
      BY <3>1, RetryAssumption
  <2>3. CASE ~ Ack(h) /\ ~ LoseDatabase(h)
    <3>1. held'[h] = held[h] /\ pc[h] \notin {"idle", "ack", "dlq"} /\ pc'[h] # "stuck"
      BY <2>3 DEF LockMissing, LockFinal, AfterSettlement, GatewayAnswers, Save, Read, Post, Fail
    <3>2. pc'[h] \in stages => pc[h] \in stages
      BY <2>3 DEF LockMissing, LockFinal, AfterSettlement, GatewayAnswers, Save, Read, Post, Fail,
         BeforeCharge, BeforeRecord
    <3>3. QED
      BY <3>1, <3>2, AdvanceOwesLess
  <2>4. QED
    BY <2>1, <2>2, <2>3
<1>5. QED
  BY <1>1, <1>2, <1>3, <1>4, QuietAccount

\* The steps that spend: the call of the gateway, and the count of a webhook call.
LEMMA AccountSpends ==
    ASSUME TypeInv, TypeInv', NEW h \in Handler, NEW p \in PaymentId, Account(p),
           LockPending(h) \/ Record(h)
    PROVE  Account(p)'
<1> USE DEF TypeInv, TypeOK, Goto, brokerVars, boundVars, historyVars
<1>1. /\ OthersStay(h) /\ held' = held
      /\ UNCHANGED <<queue, retry, sends, redrives, faults>>
  BY DEF OthersStay, LockPending, OpenTx, Record, CloseTx
<1>2. /\ \A g \in Handler \ {h} : pc'[g] = pc[g] /\ held'[g] = held[g]
      /\ Budget(p)' = Budget(p) + 0
      /\ Summable(InBag(queue', p)) /\ Sum(InBag(queue', p)) = Sum(InBag(queue, p)) + 0
      /\ Summable(InBag(retry', p)) /\ Sum(InBag(retry', p)) = Sum(InBag(retry, p)) + 0
      /\ 0 \in Nat /\ 0 \in Int
  <2>1. Budget(p) \in Nat
    BY RetryAssumption DEF Budget, Body
  <2>2. Budget(p)' = Budget(p)
    BY <1>1 DEF Budget
  <2>3. /\ Summable(InBag(queue, p)) /\ Sum(InBag(queue, p)) \in Nat
        /\ Summable(InBag(retry, p)) /\ Sum(InBag(retry, p)) \in Nat
    BY SumTyped DEF Account, AllSummable
  <2>4. QED
    BY <1>1, <2>1, <2>2, <2>3 DEF OthersStay
<1>3. Remaining(held[h].header) \in 1 .. MaxAttempts
  BY RemainingInRange DEF Message
<1>4. /\ charged[p] \in Nat /\ \A n \in Counts(p) : n \in Nat
  BY DEF Counts, Row
<1>5. CASE LockPending(h)
  <2>1. pc[h] = "lock" /\ pc'[h] = "gateway" /\ Pid(h) \in PaymentId
    BY <1>5 DEF LockPending, StageTyped
  <2>2. /\ Share(h, p, BeforeCharge) = (IF Pid(h) = p THEN Remaining(held[h].header) ELSE 0)
        /\ Share(h, p, BeforeCharge)' = (IF Pid(h) = p THEN Remaining(held[h].header) - 1 ELSE 0)
    BY <1>1, <2>1 DEF Share, BeforeCharge, Pid
  <2>3. Share(h, p, BeforeRecord)' = Share(h, p, BeforeRecord) /\ Share(h, p, BeforeRecord) \in Int
    BY <1>1, <1>3, <2>1 DEF Share, BeforeRecord, Pid
  <2>4. charged'[p] = IF Pid(h) = p THEN charged[p] + 1 ELSE charged[p]
    BY <1>5, <2>1 DEF LockPending
  <2>5. Counts(p)' \subseteq Counts(p)
    BY <1>1, <1>5, <2>1, CountsKept DEF LockPending, OpenTx, Pid, Counts
  <2>6. charged'[p] + Share(h, p, BeforeCharge)' + 0 + 0 <= charged[p] + Share(h, p, BeforeCharge) + 0
    BY <1>3, <1>4, <2>2, <2>4
  <2>7. \A n \in Counts(p)' : \E k \in Counts(p) :
          n + Share(h, p, BeforeRecord)' + 0 + 0 <= k + Share(h, p, BeforeRecord) + 0
    BY <1>4, <2>3, <2>5
  <2>8. QED
    BY <1>2, <2>6, <2>7, HandlerBalance
<1>6. CASE Record(h)
  <2>1. pc[h] = "record" /\ pc'[h] \in {"ack", "dlq", "retry"} /\ Pid(h) \in PaymentId
    BY <1>6 DEF Record, AfterDelivery, StageTyped
  <2>2. /\ Share(h, p, BeforeRecord) = (IF Pid(h) = p THEN Remaining(held[h].header) ELSE 0)
        /\ Share(h, p, BeforeRecord)' \in 0 .. (IF Pid(h) = p THEN Remaining(held[h].header) - 1 ELSE 0)
    BY <1>1, <1>3, <2>1, RetryAssumption DEF Share, BeforeRecord, Pid
  <2>3. /\ Share(h, p, BeforeCharge)' <= Share(h, p, BeforeCharge)
        /\ Share(h, p, BeforeCharge)' \in Int /\ Share(h, p, BeforeCharge) \in Int
    BY <1>1, <1>3, <2>1, RetryAssumption DEF Share, BeforeCharge, Pid
  <2>4. charged'[p] = charged[p]
    BY <1>6 DEF Record
  <2>5. ASSUME NEW n \in Counts(p)'
        PROVE  \E k \in Counts(p) : n = k \/ (Pid(h) = p /\ n = k + 1)
    <3> DEFINE next == {k \in Int : k - 1 \in Counts(p) /\ Pid(h) = p}
    <3>1. payment'[p].attempts \in Counts(p) \cup next
      <4>1. CASE Pid(h) = p
        <5>1. payment'[p] = RecordedRow(h) /\ copy[h].attempts \in Counts(p) /\ copy[h].attempts \in Nat
          BY <1>6, <2>1, <4>1 DEF Record, Counts, Row
        <5>2. RecordedRow(h).attempts \in {copy[h].attempts, copy[h].attempts + 1}
          BY DEF RecordedRow, MarkDelivered, MarkDeliveryFailed, Row
        <5>3. QED
          BY <4>1, <5>1, <5>2
      <4>2. CASE Pid(h) # p
        <5>1. payment'[p] = payment[p]
          BY <1>6, <4>2 DEF Record
        <5>2. QED
          BY <5>1 DEF Counts
      <4>3. QED
        BY <4>1, <4>2
    <3>2. pc'[h] \notin {"gateway", "save", "post", "record"}
      BY <2>1
    <3> HIDE DEF next
    <3>3. Counts(p)' \subseteq Counts(p) \cup next
      BY <1>1, <3>1, <3>2, CountsKept
    <3>4. n \in Counts(p) \/ n \in next
      BY <2>5, <3>3
    <3>5. QED
      BY <1>4, <3>4 DEF next
  <2>6. ASSUME NEW n \in Counts(p)'
        PROVE  \E k \in Counts(p) :
                 n + Share(h, p, BeforeRecord)' + 0 + 0 <= k + Share(h, p, BeforeRecord) + 0
    <3>1. PICK k \in Counts(p) : n = k \/ (Pid(h) = p /\ n = k + 1)
      BY <2>5
    <3>2. k \in Nat
      BY <1>4
    <3>3. n + Share(h, p, BeforeRecord)' + 0 + 0 <= k + Share(h, p, BeforeRecord) + 0
      BY <1>3, <2>2, <3>1, <3>2
    <3>4. QED
      BY <3>3
  <2>7. charged'[p] + Share(h, p, BeforeCharge)' + 0 + 0 <= charged[p] + Share(h, p, BeforeCharge) + 0
    BY <1>4, <2>3, <2>4
  <2>8. QED
    BY <1>2, <2>6, <2>7, HandlerBalance
<1>7. QED
  BY <1>5, <1>6

LEMMA OneMore ==
    \A m, n \in Nat : m * (n + 1) = m * n + m
  OBVIOUS

\* A step that moves a message: the handler owes what the queues do not, up to
\* what a fault grants.
LEMMA MessageMoves ==
    ASSUME TypeInv, TypeInv', NEW h \in Handler, NEW p \in PaymentId, Account(p), OthersStay(h),
           UNCHANGED <<payment, charged, sends, redrives>>,
           NEW fault \in {0, 1}, faults' = faults + fault,
           pc'[h] \in {"gateway", "save", "post", "record"} =>
              pc'[h] = pc[h] /\ held'[h] = held[h] /\ copy'[h] = copy[h],
           NEW ready \in Int, NEW delayed \in Int,
           Summable(InBag(queue', p)), Sum(InBag(queue', p)) = Sum(InBag(queue, p)) + ready,
           Summable(InBag(retry', p)), Sum(InBag(retry', p)) = Sum(InBag(retry, p)) + delayed,
           \A stages \in {BeforeCharge, BeforeRecord} :
              Share(h, p, stages)' + ready + delayed
                <= Share(h, p, stages) + (IF fault = 1 THEN MaxAttempts ELSE 0)
    PROVE  Account(p)'
<1> DEFINE grant == IF fault = 1 THEN MaxAttempts ELSE 0
<1>1. Budget(p)' = Budget(p) + grant
  <2>1. sends[p] \in Nat /\ redrives \in Nat /\ faults \in Nat
    BY DEF TypeInv, TypeOK, Body
  <2>2. Budget(p)' = MaxAttempts * (sends[p] + redrives + (faults + fault))
    BY DEF Budget
  <2>3. MaxAttempts * (sends[p] + redrives + (faults + 1))
          = MaxAttempts * (sends[p] + redrives + faults) + MaxAttempts
    <3>1. sends[p] + redrives + (faults + 1) = (sends[p] + redrives + faults) + 1
      BY <2>1
    <3>2. sends[p] + redrives + faults \in Nat
      BY <2>1
    <3>3. QED
      BY <3>1, <3>2, OneMore, RetryAssumption
  <2>4. MaxAttempts * (sends[p] + redrives + faults) \in Nat
    BY <2>1, RetryAssumption
  <2>5. CASE fault = 1
    BY <2>2, <2>3, <2>5 DEF Budget
  <2>6. CASE fault = 0
    BY <2>1, <2>2, <2>4, <2>6 DEF Budget
  <2>7. QED
    BY <2>5, <2>6
<1>2. Counts(p)' \subseteq Counts(p)
  <2>1. payment'[p].attempts \in Counts(p)
    BY DEF Counts
  <2>2. ASSUME pc'[h] \in {"gateway", "save", "post", "record"}, held'[h].body = p
        PROVE  copy'[h].attempts \in Counts(p)
    BY <2>2 DEF Counts, Pid
  <2>3. QED
    BY <2>1, <2>2, CountsKept
<1>3. /\ charged[p] \in Nat /\ \A n \in Counts(p) : n \in Nat
      /\ grant \in Nat
  BY RetryAssumption DEF TypeInv, TypeOK, Counts, Row
<1>4. \A stages \in {BeforeCharge, BeforeRecord} :
        Share(h, p, stages) \in Nat /\ Share(h, p, stages)' \in Int
  <2>1. Remaining(held'[h].header) \in 1 .. MaxAttempts
    BY RemainingInRange DEF TypeInv, TypeOK, Message
  <2>2. \A stages : Share(h, p, stages)' \in Int
    BY <2>1, RetryAssumption DEF Share
  <2>3. \A stages : Share(h, p, stages) \in Nat
    BY ShareInRange, RetryAssumption
  <2>4. QED
    BY <2>2, <2>3
<1> HIDE DEF grant
<1>5. ASSUME NEW n \in Nat, NEW stages \in {BeforeCharge, BeforeRecord}
      PROVE  n + Share(h, p, stages)' + ready + delayed <= n + Share(h, p, stages) + grant
  <2>1. Share(h, p, stages)' + ready + delayed <= Share(h, p, stages) + grant
    BY DEF grant
  <2>2. QED
    BY <1>3, <1>4, <2>1
<1>6. charged'[p] + Share(h, p, BeforeCharge)' + ready + delayed
        <= charged[p] + Share(h, p, BeforeCharge) + grant
  BY <1>3, <1>5
<1>7. \A n \in Counts(p)' : \E k \in Counts(p) :
        n + Share(h, p, BeforeRecord)' + ready + delayed <= k + Share(h, p, BeforeRecord) + grant
  BY <1>2, <1>3, <1>5
<1>8. \A g \in Handler \ {h} : pc'[g] = pc[g] /\ held'[g] = held[g]
  BY DEF OthersStay
<1>9. QED
  BY <1>1, <1>3, <1>6, <1>7, <1>8, HandlerBalance

\* What the broker takes back is due again.
LEMMA RequeueCounts ==
    ASSUME TypeInv, NEW h \in Handler, NEW p \in PaymentId, AllSummable(p), Requeue(h)
    PROVE  /\ Summable(InBag(queue', p))
           /\ Sum(InBag(queue', p))
                = Sum(InBag(queue, p))
                    + (IF owned[h] /\ Pid(h) = p THEN Remaining(held[h].header) ELSE 0)
<1>1. queue \in [Message -> Nat] /\ held[h] \in Message
  BY DEF TypeInv, TypeOK
<1>2. Summable(InBag(queue, p)) /\ Sum(InBag(queue, p)) \in Nat
  BY SumTyped DEF AllSummable
<1>3. CASE owned[h]
  BY <1>1, <1>2, <1>3, PutCounts DEF Requeue, Pid
<1>4. CASE ~ owned[h]
  BY <1>2, <1>4 DEF Requeue
<1>5. QED
  BY <1>3, <1>4

\* A retry is due once less than the message it succeeds; a dead letter is not.
LEMMA PublishCounts ==
    ASSUME TypeInv, NEW h \in Handler, NEW p \in PaymentId, AllSummable(p), PublishFate(h)
    PROVE  /\ queue' = queue /\ Summable(InBag(retry', p))
           /\ \E delayed \in Nat :
                /\ Sum(InBag(retry', p)) = Sum(InBag(retry, p)) + delayed
                /\ delayed > 0 => /\ pc[h] = "retry" /\ Pid(h) = p
                                  /\ delayed = Remaining(held[h].header) - 1
<1> DEFINE next == [body |-> Pid(h), header |-> NextAttempt(Attempt(h))]
<1>1. /\ retry \in [Message -> Nat] /\ held[h].header \in Header /\ Pid(h) \in Body
      /\ Summable(InBag(retry, p)) /\ Sum(InBag(retry, p)) \in Nat
  BY SumTyped DEF TypeInv, TypeOK, Message, Pid, AllSummable
<1>2. CASE PublishDlq(h)
  <2>1. queue' = queue /\ retry' = retry
    BY <1>2 DEF PublishDlq
  <2>2. Sum(InBag(retry', p)) = Sum(InBag(retry, p)) + 0
    BY <1>1, <2>1
  <2>3. QED
    BY <1>1, <2>1, <2>2
<1>3. CASE pc[h] = "retry" /\ MayRetry(Attempt(h)) /\ PublishRetry(h)
  <2>1. NextAttempt(Attempt(h)) \in RetryQueues /\ NextAttempt(Attempt(h)) \in Header
    BY <1>1, <1>3, RetryHasQueue DEF Attempt
  <2>2. queue' = queue /\ retry' = Put(retry, next) /\ next \in Message
    BY <1>1, <1>3, <2>1 DEF PublishRetry, Message
  <2>3. Remaining(next.header) = Remaining(held[h].header) - 1
    BY <1>1, RetryRemaining DEF Attempt
  <2>4. Remaining(held[h].header) \in 1 .. MaxAttempts
    BY <1>1, RemainingInRange
  <2>5. /\ Summable(InBag(retry', p))
        /\ Sum(InBag(retry', p))
             = Sum(InBag(retry, p)) + (IF Pid(h) = p THEN Remaining(next.header) ELSE 0)
    BY <1>1, <2>2, PutCounts
  <2> HIDE DEF next
  <2>6. CASE Pid(h) = p
    <3>1. Remaining(held[h].header) - 1 \in Nat
      BY <2>4, RetryAssumption
    <3>2. QED
      BY <1>3, <2>2, <2>3, <2>5, <2>6, <3>1
  <2>7. CASE Pid(h) # p
    <3>1. Sum(InBag(retry', p)) = Sum(InBag(retry, p)) + 0
      BY <2>5, <2>7
    <3>2. QED
      BY <2>2, <2>5, <3>1
  <2>8. QED
    BY <2>6, <2>7
<1>4. QED
  BY <1>2, <1>3 DEF PublishFate, RetryOrDlq

\* The steps that move a message between the broker and a handler.
LEMMA AccountMoves ==
    ASSUME TypeInv, TypeInv', NEW h \in Handler, NEW p \in PaymentId, Account(p),
           \/ Receive(h) \/ Route(h) \/ Redeliver(h)
           \/ RouteFails(h) \/ Crash(h) \/ LoseChannel(h)
    PROVE  Account(p)'
<1> USE DEF TypeInv, TypeOK, Goto, brokerVars, boundVars, historyVars
<1>1. Remaining(held[h].header) \in 1 .. MaxAttempts
  BY RemainingInRange DEF Message
<1>2. /\ Summable(InBag(queue, p)) /\ Sum(InBag(queue, p)) \in Nat
      /\ Summable(InBag(retry, p)) /\ Sum(InBag(retry, p)) \in Nat
      /\ AllSummable(p)
  BY SumTyped DEF Account, AllSummable
<1>3. /\ 0 \in Int /\ 0 \in {0, 1} /\ 1 \in {0, 1}
      /\ Sum(InBag(queue, p)) = Sum(InBag(queue, p)) + 0
      /\ Sum(InBag(retry, p)) = Sum(InBag(retry, p)) + 0
  BY <1>2
<1>4. \A stages : Share(h, p, stages) \in 0 .. MaxAttempts
  BY ShareInRange
<1>5. CASE Receive(h)
  <2>1. PICK m \in Message :
          /\ queue[m] > 0 /\ queue' = Take(queue, m)
          /\ held' = [held EXCEPT ![h] = m]
          /\ pc' = [pc EXCEPT ![h] = IF m.body = Malformed THEN "dlq" ELSE "lock"]
    BY <1>5 DEF Receive
  <2> DEFINE due == IF m.body = p THEN Remaining(m.header) ELSE 0
             taken == 0 - due
  <2>2. due \in Nat /\ taken \in Int
    BY RemainingInRange, RetryAssumption DEF Message
  <2>3. /\ Summable(InBag(queue', p))
        /\ Sum(InBag(queue', p)) = Sum(InBag(queue, p)) - due
    BY <1>2, <2>1, TakeCounts
  <2>4. Sum(InBag(queue', p)) = Sum(InBag(queue, p)) + taken
    BY <1>2, <2>2, <2>3
  <2>5. ASSUME NEW stages \in {BeforeCharge, BeforeRecord}
        PROVE  Share(h, p, stages)' = due
    <3>1. pc'[h] \notin {"idle", "ack", "dlq"} \/ Pid(h)' # p
      BY <2>1, ConsumerAssumption DEF Pid
    <3>2. pc'[h] \in stages \/ Pid(h)' # p
      BY <2>1, ConsumerAssumption DEF Pid, BeforeCharge, BeforeRecord
    <3>3. held'[h] = m
      BY <2>1
    <3>4. pc'[h] \in {"idle", "ack", "dlq"} => due = 0
      BY <3>1, <3>3 DEF Pid
    <3>5. QED
      BY <3>2, <3>3, <3>4 DEF Share, Pid
  <2>6. /\ OthersStay(h) /\ UNCHANGED <<payment, charged, sends, redrives, retry>>
        /\ pc'[h] \notin {"gateway", "save", "post", "record"}
        /\ faults' = faults + 0
    BY <1>5, <2>1 DEF Receive, OthersStay
  <2> HIDE DEF due
  <2>7. \A stages \in {BeforeCharge, BeforeRecord} :
          Share(h, p, stages)' + taken + 0
            <= Share(h, p, stages) + (IF 0 = 1 THEN MaxAttempts ELSE 0)
    BY <1>4, <2>2, <2>5, RetryAssumption
  <2> HIDE DEF taken
  <2>8. QED
    BY <1>2, <1>3, <2>2, <2>3, <2>4, <2>6, <2>7, MessageMoves
<1>6. CASE Route(h) \/ RouteFails(h)
  <2>1. PICK delayed \in Nat :
          /\ queue' = queue /\ Summable(InBag(retry', p))
          /\ Sum(InBag(retry', p)) = Sum(InBag(retry, p)) + delayed
          /\ delayed > 0 => /\ pc[h] = "retry" /\ Pid(h) = p
                            /\ delayed = Remaining(held[h].header) - 1
    <3>1. CASE PublishFate(h)
      BY <1>2, <3>1, PublishCounts
    <3>2. CASE UNCHANGED brokerVars
      BY <1>2, <1>3, <3>2
    <3>3. QED
      BY <1>6, <3>1, <3>2 DEF Route, RouteFails
  <2>2. /\ OthersStay(h) /\ UNCHANGED <<payment, charged, sends, redrives>>
        /\ pc'[h] \notin {"gateway", "save", "post", "record"}
        /\ delayed \in Int
    BY <1>6 DEF Route, RouteFails, OthersStay
  <2>3. CASE Route(h)
    <3>1. \A stages \in {BeforeCharge, BeforeRecord} :
            Share(h, p, stages)' + 0 + delayed
              <= Share(h, p, stages) + (IF 0 = 1 THEN MaxAttempts ELSE 0)
      <4> SUFFICES ASSUME NEW stages \in {BeforeCharge, BeforeRecord}
                   PROVE  Share(h, p, stages)' + 0 + delayed <= Share(h, p, stages)
        BY <1>4, <1>1, <2>1, <2>3, RetryAssumption DEF Share
      <4>1. Share(h, p, stages)' = 0
        BY <2>3 DEF Route, Share
      <4>2. delayed > 0 => Share(h, p, stages) = Remaining(held[h].header) - 1
        BY <2>1 DEF Share, BeforeCharge, BeforeRecord
      <4>3. QED
        BY <1>1, <1>4, <2>1, <4>1, <4>2, RetryAssumption
    <3>2. faults' = faults + 0
      BY <2>3 DEF Route
    <3>3. QED
      BY <1>2, <1>3, <2>1, <2>2, <3>1, <3>2, MessageMoves
  <2>4. CASE RouteFails(h)
    <3>1. \A stages \in {BeforeCharge, BeforeRecord} :
            Share(h, p, stages)' + 0 + delayed
              <= Share(h, p, stages) + (IF 1 = 1 THEN MaxAttempts ELSE 0)
      <4> SUFFICES ASSUME NEW stages \in {BeforeCharge, BeforeRecord}
                   PROVE  Share(h, p, stages)' + 0 + delayed <= Share(h, p, stages) + MaxAttempts
        OBVIOUS
      <4>1. Share(h, p, stages)' = IF Pid(h) = p THEN Remaining(held[h].header) ELSE 0
        BY <2>4 DEF RouteFails, Share, Pid
      <4>2. delayed > 0 => Share(h, p, stages) = Remaining(held[h].header) - 1
        BY <2>1 DEF Share, BeforeCharge, BeforeRecord
      <4>3. QED
        BY <1>1, <1>4, <2>1, <4>1, <4>2, RetryAssumption
    <3>2. faults' = faults + 1
      BY <2>4 DEF RouteFails
    <3>3. QED
      BY <1>2, <1>3, <2>1, <2>2, <3>1, <3>2, MessageMoves
  <2>5. QED
    BY <1>6, <2>3, <2>4
<1>7. CASE Redeliver(h) \/ Crash(h) \/ LoseChannel(h)
  <2> DEFINE due == IF owned[h] /\ Pid(h) = p THEN Remaining(held[h].header) ELSE 0
  <2>1. /\ Summable(InBag(queue', p))
        /\ Sum(InBag(queue', p)) = Sum(InBag(queue, p)) + due
    BY <1>2, <1>7, RequeueCounts DEF Redeliver, Crash, LoseChannel
  <2>2. due \in 0 .. MaxAttempts /\ due \in Int
    BY <1>1, RetryAssumption
  <2>3. /\ OthersStay(h) /\ UNCHANGED <<payment, charged, sends, redrives, retry>>
        /\ pc'[h] \in {"gateway", "save", "post", "record"} =>
             pc'[h] = pc[h] /\ held'[h] = held[h] /\ copy'[h] = copy[h]
    BY <1>7 DEF Redeliver, Crash, LoseChannel, Leave, CloseTx, OthersStay
  <2>4. CASE Redeliver(h)
    <3>1. ASSUME NEW stages
          PROVE  Share(h, p, stages)' = 0 /\ Share(h, p, stages) >= due
      <4>1. Share(h, p, stages)' = 0
        BY <2>4 DEF Redeliver, Leave, Share
      <4>2. Share(h, p, stages) = IF Pid(h) = p THEN Remaining(held[h].header) ELSE 0
        BY <2>4 DEF Redeliver, Share
      <4>3. QED
        BY <1>1, <4>1, <4>2, RetryAssumption
    <3> HIDE DEF due
    <3>2. \A stages \in {BeforeCharge, BeforeRecord} :
            Share(h, p, stages)' + due + 0
              <= Share(h, p, stages) + (IF 0 = 1 THEN MaxAttempts ELSE 0)
      BY <1>4, <2>2, <3>1, RetryAssumption
    <3>3. faults' = faults + 0
      BY <2>4 DEF Redeliver
    <3>4. QED
      BY <1>2, <1>3, <2>1, <2>2, <2>3, <3>2, <3>3, MessageMoves
  <2>5. CASE Crash(h) \/ LoseChannel(h)
    <3>1. ASSUME NEW stages
          PROVE  /\ Share(h, p, stages)' \in Int
                 /\ Share(h, p, stages)' <= Share(h, p, stages)
      <4>1. CASE Crash(h)
        <5>1. Share(h, p, stages)' = 0
          BY <4>1 DEF Crash, Leave, Share
        <5>2. QED
          BY <1>4, <5>1, RetryAssumption
      <4>2. CASE LoseChannel(h)
        <5>1. Share(h, p, stages)' = Share(h, p, stages)
          BY <4>2 DEF LoseChannel, Share, Pid
        <5>2. QED
          BY <1>4, <5>1, RetryAssumption
      <4>3. QED
        BY <2>5, <4>1, <4>2
    <3> HIDE DEF due
    <3>2. \A stages \in {BeforeCharge, BeforeRecord} :
            Share(h, p, stages)' + due + 0
              <= Share(h, p, stages) + (IF 1 = 1 THEN MaxAttempts ELSE 0)
      BY <1>4, <2>2, <3>1, RetryAssumption
    <3>3. faults' = faults + 1
      BY <2>5 DEF Crash, LoseChannel
    <3>4. QED
      BY <1>2, <1>3, <2>1, <2>2, <2>3, <3>2, <3>3, MessageMoves
  <2>6. QED
    BY <1>7, <2>4, <2>5
<1>8. QED
  BY <1>5, <1>6, <1>7

\* A step of the broker or of the environment: the queues owe what is granted.
LEMMA EnvironmentBalance ==
    ASSUME TypeInv, TypeInv', NEW p \in PaymentId, Account(p),
           UNCHANGED <<charged, handlerVars>>, payment'[p].attempts = payment[p].attempts,
           NEW copies \in {0, 1}, sends'[p] + redrives' + faults' = sends[p] + redrives + faults + copies,
           NEW ready \in Int, NEW delayed \in Int,
           Summable(InBag(queue', p)), Sum(InBag(queue', p)) = Sum(InBag(queue, p)) + ready,
           Summable(InBag(retry', p)), Sum(InBag(retry', p)) = Sum(InBag(retry, p)) + delayed,
           ready + delayed <= (IF copies = 1 THEN MaxAttempts ELSE 0)
    PROVE  Account(p)'
<1> DEFINE grant == IF copies = 1 THEN MaxAttempts ELSE 0
<1>1. Budget(p)' = Budget(p) + grant
  <2>1. sends[p] + redrives + faults \in Nat
    BY DEF TypeInv, TypeOK, Body
  <2>2. Budget(p)' = MaxAttempts * (sends[p] + redrives + faults + copies)
    BY DEF Budget
  <2>3. CASE copies = 1
    BY <2>1, <2>2, <2>3, OneMore, RetryAssumption DEF Budget
  <2>4. CASE copies = 0
    <3>1. sends[p] + redrives + faults + 0 = sends[p] + redrives + faults
      BY <2>1
    <3>2. MaxAttempts * (sends[p] + redrives + faults) \in Nat
      BY <2>1, RetryAssumption
    <3>3. QED
      BY <2>2, <2>4, <3>1, <3>2 DEF Budget
  <2>5. QED
    BY <2>3, <2>4
<1>2. Counts(p)' = Counts(p)
  BY DEF Counts, handlerVars, Pid
<1>3. ASSUME NEW stages
      PROVE  Coins(InHands(p, stages))' = Coins(InHands(p, stages))
  BY DEF Coins, InHands, Share, handlerVars, Pid
<1>4. AllSummable(p) /\ AllSummable(p)'
  <2>1. Summable(InBag(queue, p))' /\ Summable(InBag(retry, p))'
    BY DEF InBag, Summable, Coins
  <2>2. ASSUME NEW stages, Summable(InHands(p, stages))
        PROVE  Summable(InHands(p, stages))'
    BY <1>3, <2>2 DEF Summable
  <2>3. QED
    BY <2>1, <2>2 DEF Account, AllSummable
<1>5. ASSUME NEW stages \in {BeforeCharge, BeforeRecord}
      PROVE  Owed(p, stages) \in Nat /\ Owed(p, stages)' = Owed(p, stages) + ready + delayed
  <2>1. /\ Sum(InBag(queue, p)) \in Nat /\ Sum(InBag(retry, p)) \in Nat
        /\ Sum(InHands(p, stages)) \in Nat
    BY <1>4, SumTyped DEF AllSummable
  <2>2. /\ Sum(InBag(queue, p))' = Sum(InBag(queue', p)) /\ Sum(InBag(retry, p))' = Sum(InBag(retry', p))
        /\ Sum(InHands(p, stages))' = Sum(InHands(p, stages))
    <3>1. Sum(InHands(p, stages))' = Sum(InHands(p, stages))
      BY <1>3 DEF Sum
    <3>2. QED
      BY <3>1 DEF Sum, Coins, InBag
  <2>3. QED
    BY <2>1, <2>2 DEF Owed
<1>6. /\ charged[p] \in Nat /\ charged' = charged /\ grant \in Nat
      /\ \A n \in Counts(p) : n \in Nat
  BY RetryAssumption DEF TypeInv, TypeOK, Counts, Row
<1> HIDE DEF grant
<1>7. ASSUME NEW n \in Nat, NEW stages \in {BeforeCharge, BeforeRecord}
      PROVE  n + Owed(p, stages)' <= n + Owed(p, stages) + grant
  <2>1. ready + delayed <= grant
    BY DEF grant
  <2>2. QED
    BY <1>5, <1>6, <2>1
<1>8. charged'[p] + Owed(p, BeforeCharge)' <= charged[p] + Owed(p, BeforeCharge) + grant
  BY <1>6, <1>7
<1>9. \A n \in Counts(p)' :
        n \in Nat /\ \E k \in Counts(p) :
          n + Owed(p, BeforeRecord)' <= k + Owed(p, BeforeRecord) + grant
  BY <1>2, <1>6, <1>7
<1>10. charged'[p] \in Nat
  BY <1>6
<1>11. QED
  BY <1>1, <1>4, <1>6, <1>8, <1>9, <1>10, Balance

LEMMA AccountEnvironment ==
    ASSUME TypeInv, TypeInv', NEW p \in PaymentId, Account(p),
           \/ Expire \/ Redrive
           \/ \E b \in Body : Publish(b)
           \/ \E i \in PaymentId : Insert(i)
    PROVE  Account(p)'
<1> USE DEF TypeInv, TypeOK
<1>1. /\ Summable(InBag(queue, p)) /\ Sum(InBag(queue, p)) \in Nat
      /\ Summable(InBag(retry, p)) /\ Sum(InBag(retry, p)) \in Nat
  BY SumTyped DEF Account, AllSummable
<1>2. /\ 0 \in Int /\ 0 \in {0, 1} /\ 1 \in {0, 1}
      /\ Sum(InBag(queue, p)) = Sum(InBag(queue, p)) + 0
      /\ Sum(InBag(retry, p)) = Sum(InBag(retry, p)) + 0
  BY <1>1
<1>3. /\ sends[p] \in Nat /\ redrives \in Nat /\ faults \in Nat
      /\ sends[p] + redrives + faults = sends[p] + redrives + faults + 0
  BY DEF Body
<1>4. CASE Expire
  <2>1. PICK m \in Message :
          retry[m] > 0 /\ retry' = Take(retry, m) /\ queue' = Put(queue, m)
    BY <1>4 DEF Expire
  <2> DEFINE ready == IF m.body = p THEN Remaining(m.header) ELSE 0
             delayed == 0 - ready
  <2>2. ready \in Nat /\ ready \in Int /\ delayed \in Int /\ ready + delayed <= 0
    BY RemainingInRange, RetryAssumption DEF Message
  <2>3. /\ Summable(InBag(queue', p)) /\ Sum(InBag(queue', p)) = Sum(InBag(queue, p)) + ready
        /\ Summable(InBag(retry', p)) /\ Sum(InBag(retry', p)) = Sum(InBag(retry, p)) - ready
    BY <1>1, <2>1, PutCounts, TakeCounts
  <2> HIDE DEF ready
  <2>4. Sum(InBag(retry', p)) = Sum(InBag(retry, p)) + delayed
    BY <1>1, <2>2, <2>3
  <2>5. /\ UNCHANGED <<charged, handlerVars>> /\ payment'[p].attempts = payment[p].attempts
        /\ sends'[p] + redrives' + faults' = sends[p] + redrives + faults + 0
    BY <1>3, <1>4 DEF Expire, boundVars, historyVars
  <2> HIDE DEF delayed
  <2>6. ready + delayed <= (IF 0 = 1 THEN MaxAttempts ELSE 0)
    BY <2>2
  <2>7. QED
    BY <1>2, <2>2, <2>3, <2>4, <2>5, <2>6, EnvironmentBalance
<1>5. CASE Redrive
  <2>1. PICK m \in Message : queue' = Put(queue, [m EXCEPT !.header = 0])
    BY <1>5 DEF Redrive
  <2> DEFINE again == [m EXCEPT !.header = 0]
             ready == IF again.body = p THEN MaxAttempts ELSE 0
  <2>2. again \in Message /\ again.header = 0
    <3>1. 0 \in Header
      BY RetryAssumption DEF Header
    <3>2. QED
      BY <3>1 DEF Message
  <2>3. /\ ready \in Int
        /\ ready + 0 <= (IF 1 = 1 THEN MaxAttempts ELSE 0)
    BY RetryAssumption
  <2>4. /\ UNCHANGED <<charged, handlerVars, retry>> /\ payment'[p].attempts = payment[p].attempts
        /\ sends'[p] + redrives' + faults' = sends[p] + redrives + faults + 1
    BY <1>3, <1>5 DEF Redrive, historyVars
  <2>5. queue' = Put(queue, again)
    BY <2>1
  <2> HIDE DEF again
  <2>6. Summable(InBag(queue', p)) /\ Sum(InBag(queue', p)) = Sum(InBag(queue, p)) + ready
    BY <1>1, <2>2, <2>5, PutCounts, RemainingInRange
  <2> HIDE DEF ready
  <2>7. QED
    BY <1>1, <1>2, <2>3, <2>4, <2>6, EnvironmentBalance
<1>6. ASSUME NEW b \in Body, Publish(b)
      PROVE  Account(p)'
  <2>1. PICK n \in {0, 1} : queue' = Put(queue, [body |-> b, header |-> n])
    BY <1>6 DEF Publish
  <2> DEFINE ready == IF b = p THEN MaxAttempts ELSE 0
  <2>2. /\ [body |-> b, header |-> n] \in Message /\ Remaining(n) = MaxAttempts
        /\ ready \in Int
    BY RemainingInRange, RetryAssumption DEF Message
  <2>3. Summable(InBag(queue', p)) /\ Sum(InBag(queue', p)) = Sum(InBag(queue, p)) + ready
    BY <1>1, <2>1, <2>2, PutCounts
  <2>4. UNCHANGED <<charged, handlerVars, retry>> /\ payment'[p].attempts = payment[p].attempts
    BY <1>6 DEF Publish, historyVars
  <2>5. CASE b = p
    <3>1. sends'[p] + redrives' + faults' = sends[p] + redrives + faults + 1
      BY <1>3, <1>6, <2>5 DEF Publish
    <3>2. ready + 0 <= (IF 1 = 1 THEN MaxAttempts ELSE 0)
      BY <2>5, RetryAssumption
    <3> HIDE DEF ready
    <3>3. QED
      BY <1>1, <1>2, <2>2, <2>3, <2>4, <3>1, <3>2, EnvironmentBalance
  <2>6. CASE b # p
    <3>1. sends'[p] + redrives' + faults' = sends[p] + redrives + faults + 0
      BY <1>3, <1>6, <2>6 DEF Publish, Body
    <3>2. ready + 0 <= (IF 0 = 1 THEN MaxAttempts ELSE 0)
      BY <2>6
    <3> HIDE DEF ready
    <3>3. QED
      BY <1>1, <1>2, <2>2, <2>3, <2>4, <3>1, <3>2, EnvironmentBalance
  <2>7. QED
    BY <2>5, <2>6
<1>7. ASSUME NEW i \in PaymentId, Insert(i)
      PROVE  Account(p)'
  <2>1. payment'[p].attempts = payment[p].attempts
    BY <1>7 DEF Insert, NewRow, NoRow
  <2>2. /\ UNCHANGED <<charged, handlerVars, queue, retry>>
        /\ sends'[p] + redrives' + faults' = sends[p] + redrives + faults + 0
    BY <1>3, <1>7 DEF Insert, brokerVars, boundVars, historyVars
  <2>3. 0 + 0 <= (IF 0 = 1 THEN MaxAttempts ELSE 0)
    OBVIOUS
  <2>4. QED
    BY <1>1, <1>2, <2>1, <2>2, <2>3, EnvironmentBalance
<1>8. QED
  BY <1>4, <1>5, <1>6, <1>7
----------------------------------------------------------------------------
\* At first nothing is spent and nothing is owed.
LEMMA AccountInit == Init => \A p \in PaymentId : Account(p)
<1> SUFFICES ASSUME Init, NEW p \in PaymentId
             PROVE  Account(p)
  OBVIOUS
<1>1. ASSUME NEW D, NEW table \in [D -> {0}]
      PROVE  Summable(table) /\ Sum(table) = 0
  <2>1. Coins(table) = {}
    <3>1. \A x \in D : 1 .. table[x] = {}
      BY <1>1
    <3>2. DOMAIN table = D
      BY <1>1
    <3>3. QED
      BY <3>1, <3>2 DEF Coins
  <2>2. QED
    BY <2>1, FS_EmptySet DEF Summable, Sum
<1>2. /\ InBag(queue, p) \in [Header -> {0}] /\ InBag(retry, p) \in [Header -> {0}]
  <2>1. \A n \in Header : 0 * Remaining(n) = 0
    BY RemainingInRange, RetryAssumption
  <2>2. \A n \in Header : [body |-> p, header |-> n] \in Message
    BY DEF Message, Body
  <2>3. QED
    BY <2>1, <2>2 DEF Init, InBag, EmptyBag
<1>3. \A stages : InHands(p, stages) \in [Handler -> {0}]
  BY DEF Init, InHands, Share
<1>4. /\ AllSummable(p)
      /\ Owed(p, BeforeCharge) = 0 /\ Owed(p, BeforeRecord) = 0
  BY <1>1, <1>2, <1>3 DEF AllSummable, Owed
<1>5. Budget(p) \in Nat
  BY RetryAssumption, ConsumerAssumption DEF Init, Budget, Body
<1>6. charged[p] = 0 /\ Counts(p) = {0}
  BY DEF Init, Counts, NoRow
<1>7. QED
  BY <1>4, <1>5, <1>6 DEF Account

\* Every step keeps the account of every payment.
LEMMA AccountStep ==
    TypeInv /\ (\A p \in PaymentId : Account(p)) /\ [Next]_vars => \A p \in PaymentId : Account(p)'
<1> SUFFICES ASSUME TypeInv, \A i \in PaymentId : Account(i), [Next]_vars, NEW p \in PaymentId
             PROVE  Account(p)'
  OBVIOUS
<1>1. TypeInv'
  BY TypeStep
<1>2. ASSUME NEW h \in Handler, Work(h) \/ Fault(h)
      PROVE  Account(p)'
  BY <1>1, <1>2, AccountQuiet, AccountSpends, AccountMoves DEF Work, Fault
<1>3. CASE UNCHANGED vars
  <2>1. /\ UNCHANGED <<charged, handlerVars, queue, retry>>
        /\ payment'[p].attempts = payment[p].attempts
        /\ sends'[p] + redrives' + faults' = sends[p] + redrives + faults + 0
    BY <1>3 DEF vars, brokerVars, boundVars, historyVars, TypeInv, TypeOK, Body
  <2>2. /\ Summable(InBag(queue, p)) /\ Sum(InBag(queue, p)) = Sum(InBag(queue, p)) + 0
        /\ Summable(InBag(retry, p)) /\ Sum(InBag(retry, p)) = Sum(InBag(retry, p)) + 0
    BY SumTyped DEF Account, AllSummable
  <2>3. 0 \in Int /\ 0 \in {0, 1} /\ 0 + 0 <= (IF 0 = 1 THEN MaxAttempts ELSE 0)
    OBVIOUS
  <2>4. QED
    BY <1>1, <2>1, <2>2, <2>3, EnvironmentBalance
<1>4. QED
  BY <1>1, <1>2, <1>3, AccountEnvironment DEF Next

\* The retry budget of PaymentConsumer holds in every reachable state: however
\* messages are duplicated, delayed and dead-lettered and however handlers crash,
\* neither the failed webhook calls counted in a row nor the gateway calls made
\* for it exceed MaxAttempts for each publication, redrive and fault.
THEOREM RetriesAreBounded == Spec => []RetriesBounded
<1> DEFINE Inv == TypeInv /\ \A p \in PaymentId : Account(p)
<1>1. Init => Inv
  BY TypeInit, AccountInit
<1>2. Inv /\ [Next]_vars => Inv'
  BY TypeStep, AccountStep
<1>3. Inv => RetriesBounded
  <2> SUFFICES ASSUME TypeInv, NEW p \in PaymentId, Account(p)
               PROVE  /\ payment[p].attempts <= Budget(p)
                      /\ charged[p] <= Budget(p)
    BY DEF RetriesBounded, Budget
  <2>1. Owed(p, BeforeCharge) \in Nat /\ Owed(p, BeforeRecord) \in Nat
    BY SumTyped DEF Account, AllSummable, Owed
  <2>2. /\ charged[p] \in Nat /\ payment[p].attempts \in Nat
        /\ payment[p].attempts \in Counts(p) /\ Budget(p) \in Int
    BY RetryAssumption DEF TypeInv, TypeOK, Row, Counts, Budget, Body
  <2>3. QED
    BY <2>1, <2>2 DEF Account
<1> HIDE DEF Inv
<1>4. QED
  BY <1>1, <1>2, <1>3, PTL DEF Spec
============================================================================
