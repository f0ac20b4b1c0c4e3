------------------------- MODULE OutboxRelayProofs -------------------------
(***************************************************************************)
(* Theorems about OutboxRelay, for every finite set of rows and relays,    *)
(* every batch size and every bound on the faults.                         *)
(***************************************************************************)
EXTENDS OutboxRelay, FiniteSetTheorems, SequenceTheorems, TLAPS

\* What a relay remembers of its batch is true of it, whether or not its
\* transaction is still alive.
BatchTrue ==
    \A r \in Relay :
        /\ \A i \in 1 .. Len(todo[r]) : todo[r][i] \in batch[r] \ marks[r]
        /\ \A i, j \in 1 .. Len(todo[r]) : i # j => todo[r][i] # todo[r][j]
        /\ marks[r] \subseteq batch[r]
        /\ \A e \in marks[r] : sent[e] > 0

RelayInv == TypeOK /\ BatchTrue /\ LocksDisjoint /\ PublishedWasSent

\* Relays about to publish the event although their transaction is gone, and
\* whether a publication of the event is committed or can still be.
Zombies(e) == {r \in Relay : ~ inTx[r] /\ \E i \in 1 .. Len(todo[r]) : todo[r][i] = e}
Noted(e) == outbox[e] = "published" \/ \E r \in Relay : inTx[r] /\ e \in marks[r]
Credit(e) == IF Noted(e) THEN 1 ELSE 0

\* Every copy sent, and every copy a zombie may still send, but for the one
\* that is noted, was paid for by a fault.
Paid == \A e \in Event : sent[e] + Cardinality(Zombies(e)) <= faults + Credit(e)
----------------------------------------------------------------------------
\* What is left of a batch after its first row.
LEMMA TailElements ==
    ASSUME NEW s \in Seq(Event), s # <<>>
    PROVE  /\ Len(s) \in Nat \ {0} /\ Head(s) = s[1] /\ s[1] \in Event
           /\ Tail(s) \in Seq(Event) /\ Len(Tail(s)) = Len(s) - 1
           /\ \A i \in 1 .. Len(Tail(s)) : i + 1 \in 1 .. Len(s) /\ Tail(s)[i] = s[i + 1]
  OBVIOUS

\* A batch lists different rows among those it was chosen from.
LEMMA BatchType ==
    ASSUME NEW rows \in SUBSET Event, NEW b \in Batches(rows)
    PROVE  /\ b \in Seq(Event) /\ DOMAIN b = 1 .. Len(b)
           /\ \A i \in 1 .. Len(b) : b[i] \in rows
           /\ \A i, j \in 1 .. Len(b) : i # j => b[i] # b[j]
<1> DEFINE size == IF Cardinality(rows) < Limit THEN Cardinality(rows) ELSE Limit
<1>1. size \in Nat
  BY RelayAssumption, FS_Subset, FS_CardinalityType
<1>2. b \in [1 .. size -> rows] /\ \A i, j \in 1 .. size : i < j => b[i] # b[j]
  BY DEF Batches
<1> HIDE DEF size
<1>3. b \in Seq(rows) /\ Len(b) = size /\ DOMAIN b = 1 .. size
  BY <1>1, <1>2, SeqDef
<1>4. ASSUME NEW i \in 1 .. Len(b), NEW j \in 1 .. Len(b), i # j PROVE b[i] # b[j]
  <2>1. i < j \/ j < i
    BY <1>4, <1>1, <1>3
  <2>2. QED
    BY <2>1, <1>2, <1>3
<1>5. b \in Seq(Event)
  BY <1>3, SeqDef
<1>6. QED
  BY <1>2, <1>3, <1>4, <1>5

\* No batch is open at the start.
LEMMA RelayInit == Init => RelayInv
BY RelayAssumption DEF Init, RelayInv, TypeOK, OutboxStatus, BatchTrue, LocksDisjoint, PublishedWasSent

\* The end of an iteration that commits nothing.
LEMMA EndStep ==
    ASSUME RelayInv, NEW r \in Relay, EndIteration(r),
           outbox' = outbox, sent' \in [Event -> Nat],
           \A e \in Event : sent'[e] >= sent[e],
           refusals' \in 0 .. MaxRefusals, faults' \in 0 .. MaxFaults
    PROVE  RelayInv'
<1> USE DEF RelayInv
<1>1. TypeOK'
  BY DEF TypeOK, EndIteration
<1>2. BatchTrue'
  BY DEF TypeOK, EndIteration, BatchTrue
<1>3. LocksDisjoint'
  BY DEF TypeOK, EndIteration, LocksDisjoint
<1>4. PublishedWasSent'
  BY DEF TypeOK, PublishedWasSent
<1>5. QED
  BY <1>1, <1>2, <1>3, <1>4

\* A publication, confirmed or not, and what the relay notes of it.
LEMMA NoteStep ==
    ASSUME RelayInv, NEW r \in Relay, todo[r] # <<>>,
           NEW marked \in SUBSET {Head(todo[r])}, Note(r, marked),
           outbox' = outbox, sent' \in [Event -> Nat],
           \A e \in Event : sent'[e] >= sent[e],
           \A e \in marked : sent'[e] > 0,
           refusals' \in 0 .. MaxRefusals, faults' \in 0 .. MaxFaults
    PROVE  RelayInv'
<1>1. CASE ~ inTx[r]
  BY <1>1, EndStep DEF Note
<1>2. CASE inTx[r]
  <2> USE DEF RelayInv
  <2>1. /\ marks' = [marks EXCEPT ![r] = @ \cup marked]
        /\ todo' = [todo EXCEPT ![r] = Tail(@)]
        /\ batch' = batch /\ inTx' = inTx
    BY <1>2 DEF Note
  <2>2. todo[r] \in Seq(Event)
    BY DEF TypeOK
  <2> DEFINE rest == Tail(todo[r])
  <2>3. /\ rest \in Seq(Event) /\ Head(todo[r]) = todo[r][1] /\ 1 \in 1 .. Len(todo[r])
        /\ Head(todo[r]) \in Event
        /\ \A i \in 1 .. Len(rest) :
              i + 1 \in 1 .. Len(todo[r]) /\ rest[i] = todo[r][i + 1] /\ i # 0 /\ i \in Nat
    BY <2>2, TailElements
  <2>4. todo'[r] = rest /\ marks'[r] = marks[r] \cup marked
    BY <2>1 DEF TypeOK
  <2>5. TypeOK'
    BY SMTT(30), <2>1, <2>3 DEF TypeOK
  <2>6. BatchTrue'
    <3> SUFFICES ASSUME NEW s \in Relay
                 PROVE  /\ \A i \in 1 .. Len(todo'[s]) : todo'[s][i] \in batch'[s] \ marks'[s]
                        /\ \A i, j \in 1 .. Len(todo'[s]) : i # j => todo'[s][i] # todo'[s][j]
                        /\ marks'[s] \subseteq batch'[s]
                        /\ \A e \in marks'[s] : sent'[e] > 0
      BY DEF BatchTrue
    <3>1. CASE s # r
      BY SMTT(30), <3>1, <2>1 DEF TypeOK, BatchTrue
    <3>2. CASE s = r
      <4> HIDE DEF rest
      <4>1. /\ \A i \in 1 .. Len(todo[r]) : todo[r][i] \in batch[r] \ marks[r]
            /\ \A i, j \in 1 .. Len(todo[r]) : i # j => todo[r][i] # todo[r][j]
            /\ marks[r] \subseteq batch[r]
            /\ \A e \in marks[r] : sent[e] > 0
        BY DEF BatchTrue
      <4>2. ASSUME NEW i \in 1 .. Len(rest) PROVE rest[i] \in batch[r] \ marks'[r]
        <5>1. rest[i] = todo[r][i + 1] /\ i + 1 \in 1 .. Len(todo[r]) /\ i + 1 # 1
          BY <2>3
        <5>2. todo[r][i + 1] \in batch[r] \ marks[r]
          BY <5>1, <4>1
        <5>3. todo[r][i + 1] # todo[r][1]
          BY <5>1, <4>1, <2>3
        <5>4. rest[i] # Head(todo[r])
          BY <5>1, <5>3, <2>3
        <5>5. QED
          BY <5>1, <5>2, <5>4, <2>4
      <4>3. ASSUME NEW i \in 1 .. Len(rest), NEW j \in 1 .. Len(rest), i # j
            PROVE  rest[i] # rest[j]
        BY SMTT(30), <4>3, <4>1, <2>3
      <4>4. marks'[r] \subseteq batch[r]
        BY <4>1, <2>3, <2>4
      <4>5. \A e \in marks'[r] : sent'[e] > 0
        BY <4>1, <2>4 DEF TypeOK
      <4>6. todo'[s] = rest /\ batch'[s] = batch[r] /\ marks'[s] = marks'[r]
        <5>1. batch' = batch
          BY <2>1
        <5>2. QED
          BY <3>2, <5>1, <2>4
      <4>7. QED
        BY <4>6, <4>2, <4>3, <4>4, <4>5
    <3>3. QED
      BY <3>1, <3>2
  <2>7. LocksDisjoint' /\ PublishedWasSent'
    BY SMTT(30), <2>1 DEF TypeOK, LocksDisjoint, PublishedWasSent
  <2>8. QED
    BY <2>5, <2>6, <2>7
<1>3. QED
  BY <1>1, <1>2

\* A new batch: pending rows that no live transaction has locked.
LEMMA PollStep == ASSUME RelayInv, NEW r \in Relay, Poll(r) PROVE RelayInv'
<1> USE DEF RelayInv
<1>1. PICK b \in Batches(Selectable) :
        /\ todo' = [todo EXCEPT ![r] = b]
        /\ batch' = [batch EXCEPT ![r] = {b[i] : i \in DOMAIN b}]
  BY DEF Poll
<1>2. /\ b \in Seq(Event) /\ DOMAIN b = 1 .. Len(b)
      /\ \A i \in 1 .. Len(b) : b[i] \in Selectable
      /\ \A i, j \in 1 .. Len(b) : i # j => b[i] # b[j]
  BY BatchType DEF Selectable
<1>3. /\ inTx' = [inTx EXCEPT ![r] = TRUE]
      /\ UNCHANGED <<outbox, sent, marks, refusals, faults>>
      /\ marks[r] = {}
  BY DEF Poll, Idle, BatchTrue
<1> DEFINE new == {b[i] : i \in DOMAIN b}
<1>4. /\ new \subseteq Selectable /\ new \subseteq Event
      /\ \A i \in 1 .. Len(b) : b[i] \in new
  BY <1>2 DEF Selectable
<1> HIDE DEF new
<1>5. /\ todo'[r] = b /\ batch'[r] = new /\ inTx'[r]
      /\ \A s \in Relay \ {r} :
            todo'[s] = todo[s] /\ batch'[s] = batch[s] /\ inTx'[s] = inTx[s]
  BY <1>1, <1>3 DEF TypeOK, new
<1>6. TypeOK'
  <2>1. batch' = [batch EXCEPT ![r] = new]
    BY <1>1 DEF new
  <2>2. QED
    BY <2>1, <1>1, <1>2, <1>3, <1>4 DEF TypeOK
<1>7. BatchTrue'
  <2> SUFFICES ASSUME NEW s \in Relay
               PROVE  /\ \A i \in 1 .. Len(todo'[s]) : todo'[s][i] \in batch'[s] \ marks'[s]
                      /\ \A i, j \in 1 .. Len(todo'[s]) : i # j => todo'[s][i] # todo'[s][j]
                      /\ marks'[s] \subseteq batch'[s]
                      /\ \A e \in marks'[s] : sent'[e] > 0
    BY DEF BatchTrue
  <2>1. CASE s = r
    BY <2>1, <1>2, <1>3, <1>4, <1>5
  <2>2. CASE s # r
    BY <2>2, <1>3, <1>5 DEF BatchTrue
  <2>3. QED
    BY <2>1, <2>2
<1>8. LocksDisjoint'
  <2>1. \A e \in new : outbox[e] = "pending" /\ \A s \in Relay : inTx[s] => e \notin batch[s]
    BY <1>4 DEF Selectable, Locked
  <2>2. QED
    BY <2>1, <1>3, <1>5 DEF LocksDisjoint
<1>9. PublishedWasSent'
  BY <1>3 DEF PublishedWasSent
<1>10. QED
  BY <1>6, <1>7, <1>8, <1>9

\* The marks of a live transaction are of rows it alone has locked.
LEMMA CommitStep == ASSUME RelayInv, NEW r \in Relay, Commit(r) PROVE RelayInv'
<1> USE DEF RelayInv
<1>1. /\ inTx[r] /\ EndIteration(r) /\ UNCHANGED <<sent, refusals, faults>>
      /\ outbox' = [e \in Event |-> IF e \in marks[r] THEN "published" ELSE outbox[e]]
  BY DEF Commit
<1>2. TypeOK'
  BY <1>1 DEF TypeOK, OutboxStatus, EndIteration
<1>3. BatchTrue'
  BY <1>1 DEF TypeOK, EndIteration, BatchTrue
<1>4. LocksDisjoint'
  <2> SUFFICES ASSUME NEW s \in Relay, inTx'[s]
               PROVE  /\ \A e \in batch'[s] : outbox'[e] = "pending"
                      /\ \A t \in Relay \ {s} : inTx'[t] => batch'[s] \cap batch'[t] = {}
    BY DEF LocksDisjoint
  <2>1. s # r /\ inTx[s] /\ batch'[s] = batch[s] /\ batch[s] \subseteq Event
    BY <1>1 DEF TypeOK, EndIteration
  <2>2. \A e \in batch[s] : outbox[e] = "pending" /\ e \notin marks[r]
    BY <1>1, <2>1 DEF LocksDisjoint, BatchTrue
  <2>3. ASSUME NEW t \in Relay \ {s}, inTx'[t] PROVE batch[s] \cap batch'[t] = {}
    BY <2>1, <2>3, <1>1 DEF TypeOK, EndIteration, LocksDisjoint
  <2>4. QED
    BY <2>1, <2>2, <2>3, <1>1
<1>5. PublishedWasSent'
  BY <1>1 DEF TypeOK, BatchTrue, PublishedWasSent
<1>6. QED
  BY <1>2, <1>3, <1>4, <1>5

\* Every step of the relays and of their environment keeps the invariant.
LEMMA RelayStep == RelayInv /\ [Next]_vars => RelayInv'
<1> SUFFICES ASSUME RelayInv, [Next]_vars PROVE RelayInv'
  OBVIOUS
<1>1. ASSUME NEW e \in Event, Insert(e) PROVE RelayInv'
  <2> USE <1>1 DEF RelayInv, Insert, relayVars, TypeOK
  <2>1. TypeOK'
    BY DEF OutboxStatus
  <2>2. BatchTrue' /\ LocksDisjoint' /\ PublishedWasSent'
    BY DEF BatchTrue, LocksDisjoint, PublishedWasSent
  <2>3. QED
    BY <2>1, <2>2
<1>2. ASSUME NEW r \in Relay, Poll(r) \/ Commit(r) PROVE RelayInv'
  BY <1>2, PollStep, CommitStep
<1>3. ASSUME NEW r \in Relay, CommitFails(r) \/ Crash(r) PROVE RelayInv'
  <2>1. /\ EndIteration(r) /\ UNCHANGED <<outbox, sent, refusals>>
        /\ faults' \in 0 .. MaxFaults /\ refusals' \in 0 .. MaxRefusals
        /\ sent' \in [Event -> Nat] /\ \A e \in Event : sent'[e] >= sent[e]
    BY <1>3, RelayAssumption DEF CommitFails, Crash, RelayInv, TypeOK
  <2>2. QED
    BY <2>1, EndStep
<1>4. ASSUME NEW r \in Relay, PublishConfirmed(r) \/ PublishUnseen(r) PROVE RelayInv'
  <2>1. Head(todo[r]) \in Event
    BY <1>4, TailElements DEF PublishConfirmed, PublishUnseen, RelayInv, TypeOK
  <2>2. /\ todo[r] # <<>> /\ outbox' = outbox
        /\ faults' \in 0 .. MaxFaults /\ refusals' \in 0 .. MaxRefusals
        /\ sent' = [sent EXCEPT ![Head(todo[r])] = @ + 1]
        /\ Note(r, {Head(todo[r])}) \/ Note(r, {})
    BY SMTT(30), <1>4, RelayAssumption DEF PublishConfirmed, PublishUnseen, RelayInv, TypeOK
  <2>3. /\ sent' \in [Event -> Nat] /\ \A e \in Event : sent'[e] >= sent[e]
        /\ sent'[Head(todo[r])] > 0
    BY <2>1, <2>2 DEF RelayInv, TypeOK
  <2>4. QED
    BY <2>2, <2>3, NoteStep
<1>5. ASSUME NEW r \in Relay, PublishRefused(r) PROVE RelayInv'
  <2>1. /\ todo[r] # <<>> /\ outbox' = outbox /\ sent' = sent /\ Note(r, {})
        /\ faults' \in 0 .. MaxFaults /\ refusals' \in 0 .. MaxRefusals
    BY <1>5, RelayAssumption DEF PublishRefused, Refuse, RelayInv, TypeOK
  <2>2. sent' \in [Event -> Nat] /\ \A e \in Event : sent'[e] >= sent[e]
    BY <2>1 DEF RelayInv, TypeOK
  <2>3. QED
    BY <2>1, <2>2, NoteStep
<1>6. ASSUME NEW r \in Relay, LoseDatabase(r) PROVE RelayInv'
  <2> USE <1>6 DEF RelayInv, LoseDatabase, TypeOK
  <2>1. TypeOK'
    BY RelayAssumption
  <2>2. BatchTrue' /\ LocksDisjoint' /\ PublishedWasSent'
    BY DEF BatchTrue, LocksDisjoint, PublishedWasSent
  <2>3. QED
    BY <2>1, <2>2
<1>7. CASE UNCHANGED vars
  BY <1>7 DEF RelayInv, vars, relayVars, TypeOK, BatchTrue, LocksDisjoint, PublishedWasSent
<1>8. QED
  BY <1>1, <1>2, <1>3, <1>4, <1>5, <1>6, <1>7 DEF Next, Iterate

\* RelayInv is inductive, hence true in every reachable state.
LEMMA RelayInvariant == Spec => []RelayInv
<1>1. QED
  BY RelayInit, RelayStep, PTL DEF Spec

\* Every reachable state is well typed.
THEOREM TypeCorrect == Spec => []TypeOK
<1>1. RelayInv => TypeOK
  BY DEF RelayInv
<1>2. QED
  BY <1>1, RelayInvariant, PTL

\* A row is published only after the broker has accepted its event: the marks
\* of a batch, committed at its end, are true of every row.
THEOREM PublishedRowsWereSent == Spec => []PublishedWasSent
<1>1. RelayInv => PublishedWasSent
  BY DEF RelayInv
<1>2. QED
  BY RelayInvariant, <1>1, PTL

\* FOR UPDATE SKIP LOCKED keeps the batches of live transactions apart, and
\* their rows pending until they commit.
THEOREM BatchesAreDisjoint == Spec => []LocksDisjoint
<1>1. RelayInv => LocksDisjoint
  BY DEF RelayInv
<1>2. QED
  BY RelayInvariant, <1>1, PTL
----------------------------------------------------------------------------
\* Zombies are relays, of which there are finitely many.
LEMMA ZombiesFinite ==
    \A e : IsFiniteSet(Zombies(e)) /\ Cardinality(Zombies(e)) \in Nat
<1> SUFFICES ASSUME NEW e
             PROVE  IsFiniteSet(Zombies(e)) /\ Cardinality(Zombies(e)) \in Nat
  OBVIOUS
<1>1. Zombies(e) \in SUBSET Relay
  BY DEF Zombies
<1>2. QED
  BY <1>1, RelayAssumption, FS_Subset, FS_CardinalityType

\* A step that sends nothing, adds no zombie and takes back no mark unless it
\* is a fault.
LEMMA QuietStep ==
    ASSUME RelayInv, RelayInv', Paid, sent' = sent,
           NEW e \in Event, Zombies(e)' \subseteq Zombies(e),
           \/ faults' = faults /\ (Noted(e) => Noted(e)')
           \/ faults' = faults + 1
    PROVE  sent'[e] + Cardinality(Zombies(e)') <= faults' + Credit(e)'
<1>1. sent[e] \in Nat /\ faults \in Nat /\ sent'[e] = sent[e]
  BY RelayAssumption DEF RelayInv, TypeOK
<1>2. /\ Cardinality(Zombies(e)) \in Nat /\ Cardinality(Zombies(e)') \in Nat
      /\ Cardinality(Zombies(e)') <= Cardinality(Zombies(e))
  BY ZombiesFinite, FS_Subset, FS_CardinalityType
<1>3. sent[e] + Cardinality(Zombies(e)) <= faults + Credit(e)
  BY DEF Paid
<1>4. Credit(e) \in 0 .. 1 /\ Credit(e)' \in 0 .. 1 /\ (Noted(e)' => Credit(e)' = 1)
      /\ (~ Noted(e) => Credit(e) = 0)
  BY DEF Credit
<1>5. QED
  BY <1>1, <1>2, <1>3, <1>4

\* After a publication the relay is no zombie of that event any more.
LEMMA NoteShrinksZombies ==
    ASSUME RelayInv, NEW r \in Relay, todo[r] # <<>>,
           NEW marked, Note(r, marked), NEW e
    PROVE  /\ Zombies(e)' \subseteq Zombies(e)
           /\ ~ inTx[r] => Zombies(e)' \subseteq Zombies(e) \ {r}
<1>1. CASE inTx[r]
  BY <1>1 DEF RelayInv, TypeOK, Note, Zombies
<1>2. CASE ~ inTx[r]
  <2>1. todo'[r] = <<>> /\ \A s \in Relay \ {r} : todo'[s] = todo[s] /\ inTx'[s] = inTx[s]
    BY <1>2 DEF RelayInv, TypeOK, Note, EndIteration
  <2>2. QED
    BY <2>1 DEF Zombies
<1>3. QED
  BY <1>1, <1>2

\* No relay takes back the mark of another, or one of its own while it lives.
LEMMA NoteKeepsNoted ==
    ASSUME RelayInv, NEW r \in Relay, NEW marked, Note(r, marked),
           outbox' = outbox, NEW e, Noted(e)
    PROVE  Noted(e)'
<1>1. CASE outbox[e] = "published"
  BY <1>1 DEF Noted
<1>2. ASSUME NEW s \in Relay, inTx[s], e \in marks[s] PROVE Noted(e)'
  <2>1. inTx'[s] /\ e \in marks'[s]
    BY ZenonT(30), <1>2 DEF RelayInv, TypeOK, Note, EndIteration
  <2>2. QED
    BY <2>1 DEF Noted
<1>3. QED
  BY <1>1, <1>2 DEF Noted

\* The next event of a live relay is not noted yet.
LEMMA NextIsNotNoted ==
    ASSUME RelayInv, NEW r \in Relay, inTx[r], todo[r] # <<>>
    PROVE  ~ Noted(Head(todo[r]))
<1> DEFINE e == Head(todo[r])
<1>1. todo[r] \in Seq(Event) /\ 1 \in 1 .. Len(todo[r]) /\ e = todo[r][1]
  BY TailElements DEF RelayInv, TypeOK
<1>2. e \in batch[r] /\ e \notin marks[r]
  BY <1>1 DEF RelayInv, BatchTrue
<1>3. outbox[e] # "published"
  BY <1>2 DEF RelayInv, LocksDisjoint
<1>4. ASSUME NEW s \in Relay, inTx[s], s # r PROVE e \notin marks[s]
  BY <1>2, <1>4 DEF RelayInv, LocksDisjoint, BatchTrue
<1>5. QED
  BY <1>2, <1>3, <1>4 DEF Noted

\* A publication the broker accepts: confirmed, it is noted or was a zombie's;
\* unseen, it is itself a fault.
LEMMA CopyStep ==
    ASSUME RelayInv, Paid, NEW r \in Relay, todo[r] # <<>>,
           NEW marked, Note(r, marked), outbox' = outbox,
           sent' = [sent EXCEPT ![Head(todo[r])] = @ + 1],
           \/ marked = {Head(todo[r])} /\ faults' = faults
           \/ faults' = faults + 1,
           NEW e \in Event
    PROVE  sent'[e] + Cardinality(Zombies(e)') <= faults' + Credit(e)'
<1>1. sent[e] \in Nat /\ faults \in Nat
  BY RelayAssumption DEF RelayInv, TypeOK
<1>2. /\ sent[e] + Cardinality(Zombies(e)) <= faults + Credit(e)
      /\ Cardinality(Zombies(e)) \in Nat
  BY ZombiesFinite DEF Paid
<1>3. Zombies(e)' \subseteq Zombies(e) /\ (~ inTx[r] => Zombies(e)' \subseteq Zombies(e) \ {r})
  BY NoteShrinksZombies
<1>4. /\ Cardinality(Zombies(e)') \in Nat
      /\ Cardinality(Zombies(e)') <= Cardinality(Zombies(e))
  BY <1>3, ZombiesFinite, FS_Subset, FS_CardinalityType
<1>5. /\ Credit(e) \in 0 .. 1 /\ Credit(e)' \in 0 .. 1 /\ Credit(e) <= Credit(e)'
      /\ (Noted(e)' => Credit(e)' = 1) /\ (~ Noted(e) => Credit(e) = 0)
  <2>1. Noted(e) => Noted(e)'
    BY NoteKeepsNoted
  <2>2. QED
    BY <2>1 DEF Credit
<1>6. CASE e # Head(todo[r])
  <2>1. sent'[e] = sent[e]
    BY <1>6 DEF RelayInv, TypeOK
  <2>2. QED
    BY <2>1, <1>1, <1>2, <1>4, <1>5
<1>7. CASE e = Head(todo[r])
  <2>1. sent'[e] = sent[e] + 1
    BY <1>7 DEF RelayInv, TypeOK
  <2>2. CASE faults' = faults + 1
    BY <2>1, <2>2, <1>1, <1>2, <1>4, <1>5
  <2>3. CASE marked = {e} /\ faults' = faults /\ inTx[r]
    <3>1. ~ Noted(e)
      BY <2>3, <1>7, NextIsNotNoted
    <3>2. inTx'[r] /\ e \in marks'[r]
      BY <2>3 DEF RelayInv, TypeOK, Note
    <3>3. Noted(e)'
      BY <3>2 DEF Noted
    <3>4. Credit(e) = 0 /\ Credit(e)' = 1 /\ faults' = faults
      BY <3>1, <3>3, <2>3, <1>5
    <3>5. QED
      BY <3>4, <2>1, <1>1, <1>2, <1>4, <1>5
  <2>4. CASE faults' = faults /\ ~ inTx[r]
    <3>1. r \in Zombies(e)
      <4>1. todo[r] \in Seq(Event) /\ 1 \in 1 .. Len(todo[r]) /\ Head(todo[r]) = todo[r][1]
        BY TailElements DEF RelayInv, TypeOK
      <4>2. QED
        BY <4>1, <2>4, <1>7 DEF Zombies
    <3>2. /\ IsFiniteSet(Zombies(e) \ {r})
          /\ Cardinality(Zombies(e) \ {r}) = Cardinality(Zombies(e)) - 1
      BY <3>1, ZombiesFinite, FS_RemoveElement
    <3>3. Cardinality(Zombies(e)') <= Cardinality(Zombies(e)) - 1
      BY <3>2, <2>4, <1>3, FS_Subset
    <3>4. faults' = faults
      BY <2>4
    <3>5. QED
      BY <3>3, <3>4, <2>1, <1>1, <1>2, <1>4, <1>5
  <2>5. QED
    BY <1>7, <2>2, <2>3, <2>4
<1>8. QED
  BY <1>6, <1>7

\* A lost transaction makes a zombie of the relay for what it has still to
\* publish, and takes back the marks of other rows.
LEMMA LossStep ==
    ASSUME RelayInv, Paid, NEW r \in Relay, LoseDatabase(r), NEW e \in Event
    PROVE  sent'[e] + Cardinality(Zombies(e)') <= faults' + Credit(e)'
<1>1. sent[e] \in Nat /\ faults \in Nat /\ sent' = sent /\ faults' = faults + 1
  BY RelayAssumption DEF RelayInv, TypeOK, LoseDatabase
<1>2. /\ sent[e] + Cardinality(Zombies(e)) <= faults + Credit(e)
      /\ IsFiniteSet(Zombies(e)) /\ Cardinality(Zombies(e)) \in Nat
  BY ZombiesFinite DEF Paid
<1>3. /\ Credit(e) \in 0 .. 1 /\ Credit(e)' \in 0 .. 1
      /\ IsFiniteSet(Zombies(e)') /\ Cardinality(Zombies(e)') \in Nat
  <2>1. Zombies(e)' \in SUBSET Relay
    BY DEF Zombies
  <2>2. QED
    BY <2>1, RelayAssumption, FS_Subset, FS_CardinalityType DEF Credit
<1>4. CASE \E i \in 1 .. Len(todo[r]) : todo[r][i] = e
  <2>1. Zombies(e)' \subseteq Zombies(e) \cup {r}
    BY DEF RelayInv, TypeOK, LoseDatabase, Zombies
  <2>2. /\ IsFiniteSet(Zombies(e) \cup {r})
        /\ Cardinality(Zombies(e) \cup {r}) <= Cardinality(Zombies(e)) + 1
    <3>1. Cardinality(Zombies(e) \cup {r}) =
            IF r \in Zombies(e) THEN Cardinality(Zombies(e)) ELSE Cardinality(Zombies(e)) + 1
      BY <1>2, FS_AddElement
    <3>2. QED
      BY <1>2, <3>1, FS_AddElement
  <2>3. Cardinality(Zombies(e)') <= Cardinality(Zombies(e)) + 1
    BY <2>1, <2>2, <1>2, FS_Subset, FS_CardinalityType
  <2>4. e \notin marks[r]
    BY <1>4 DEF RelayInv, BatchTrue
  <2>5. Noted(e) => Noted(e)'
    BY <2>4 DEF RelayInv, TypeOK, LoseDatabase, Noted
  <2>6. Credit(e) <= Credit(e)'
    BY <2>5 DEF Credit
  <2>7. QED
    BY <2>3, <2>6, <1>1, <1>2, <1>3
<1>5. CASE ~ \E i \in 1 .. Len(todo[r]) : todo[r][i] = e
  <2>1. Zombies(e)' \subseteq Zombies(e)
    BY <1>5 DEF RelayInv, TypeOK, LoseDatabase, Zombies
  <2>2. Cardinality(Zombies(e)') <= Cardinality(Zombies(e))
    BY <2>1, <1>2, FS_Subset
  <2>3. QED
    BY <2>2, <1>1, <1>2, <1>3
<1>6. QED
  BY <1>4, <1>5

\* Every step keeps the account of copies.
LEMMA PaidStep == RelayInv /\ RelayInv' /\ Paid /\ [Next]_vars => Paid'
<1> SUFFICES ASSUME RelayInv, RelayInv', Paid, [Next]_vars, NEW e \in Event
             PROVE  sent'[e] + Cardinality(Zombies(e)') <= faults' + Credit(e)'
  BY DEF Paid
<1>1. ASSUME NEW f \in Event, Insert(f)
      PROVE  sent'[e] + Cardinality(Zombies(e)') <= faults' + Credit(e)'
  <2>1. sent' = sent /\ faults' = faults /\ Zombies(e)' \subseteq Zombies(e)
    BY <1>1 DEF Insert, relayVars, Zombies
  <2>2. Noted(e) => Noted(e)'
    BY <1>1 DEF RelayInv, TypeOK, Insert, relayVars, Noted
  <2>3. QED
    BY <2>1, <2>2, QuietStep
<1>2. ASSUME NEW r \in Relay, Poll(r)
      PROVE  sent'[e] + Cardinality(Zombies(e)') <= faults' + Credit(e)'
  <2>1. /\ sent' = sent /\ faults' = faults /\ outbox' = outbox /\ marks' = marks
        /\ inTx'[r] /\ marks[r] = {}
        /\ \A s \in Relay \ {r} : todo'[s] = todo[s] /\ inTx'[s] = inTx[s]
    BY <1>2 DEF RelayInv, TypeOK, BatchTrue, Poll, Idle
  <2>2. Zombies(e)' \subseteq Zombies(e)
    BY <2>1 DEF Zombies
  <2>3. Noted(e) => Noted(e)'
    BY <2>1 DEF Noted
  <2>4. QED
    BY <2>1, <2>2, <2>3, QuietStep
<1>3. ASSUME NEW r \in Relay, PublishConfirmed(r) \/ PublishUnseen(r)
      PROVE  sent'[e] + Cardinality(Zombies(e)') <= faults' + Credit(e)'
  BY <1>3, CopyStep DEF PublishConfirmed, PublishUnseen
<1>4. ASSUME NEW r \in Relay, PublishRefused(r)
      PROVE  sent'[e] + Cardinality(Zombies(e)') <= faults' + Credit(e)'
  <2>1. /\ todo[r] # <<>> /\ Note(r, {}) /\ sent' = sent /\ faults' = faults
        /\ outbox' = outbox
    BY <1>4 DEF PublishRefused
  <2>2. QED
    BY <2>1, NoteShrinksZombies, NoteKeepsNoted, QuietStep
<1>5. ASSUME NEW r \in Relay, Commit(r) \/ CommitFails(r) \/ Crash(r)
      PROVE  sent'[e] + Cardinality(Zombies(e)') <= faults' + Credit(e)'
  <2>1. /\ sent' = sent /\ EndIteration(r)
        /\ todo'[r] = <<>>
        /\ \A s \in Relay \ {r} :
              todo'[s] = todo[s] /\ inTx'[s] = inTx[s] /\ marks'[s] = marks[s]
    BY <1>5 DEF RelayInv, TypeOK, Commit, CommitFails, Crash, EndIteration
  <2>2. Zombies(e)' \subseteq Zombies(e)
    BY <2>1 DEF Zombies
  <2>3. CASE Commit(r)
    <3>1. Noted(e) => Noted(e)'
      BY <2>1, <2>3 DEF Commit, Noted
    <3>2. faults' = faults
      BY <2>3 DEF Commit
    <3>3. QED
      BY <3>1, <3>2, <2>1, <2>2, QuietStep
  <2>4. CASE CommitFails(r)
    <3>1. Noted(e) => Noted(e)'
      BY <2>1, <2>4 DEF CommitFails, Noted
    <3>2. faults' = faults
      BY <2>4 DEF CommitFails
    <3>3. QED
      BY <3>1, <3>2, <2>1, <2>2, QuietStep
  <2>5. CASE Crash(r)
    <3>1. faults' = faults + 1
      BY <2>5 DEF Crash
    <3>2. QED
      BY <3>1, <2>1, <2>2, QuietStep
  <2>6. QED
    BY <1>5, <2>3, <2>4, <2>5
<1>6. ASSUME NEW r \in Relay, LoseDatabase(r)
      PROVE  sent'[e] + Cardinality(Zombies(e)') <= faults' + Credit(e)'
  BY <1>6, LossStep
<1>7. CASE UNCHANGED vars
  <2>1. sent' = sent /\ faults' = faults /\ Zombies(e)' \subseteq Zombies(e)
    BY <1>7 DEF vars, relayVars, Zombies
  <2>2. Noted(e) => Noted(e)'
    BY <1>7 DEF vars, relayVars, Noted
  <2>3. QED
    BY <2>1, <2>2, QuietStep
<1>8. QED
  BY <1>1, <1>2, <1>3, <1>4, <1>5, <1>6, <1>7 DEF Next, Iterate

LEMMA PaidAlways == Spec => []Paid
<1>1. Init => Paid
  <2> SUFFICES ASSUME Init, NEW e \in Event
               PROVE  sent[e] + Cardinality(Zombies(e)) <= faults + Credit(e)
    BY DEF Paid
  <2>1. Zombies(e) = {}
    BY DEF Init, Zombies
  <2>2. Cardinality(Zombies(e)) = 0
    BY <2>1, FS_EmptySet
  <2>3. QED
    BY <2>2 DEF Init, Credit
<1>2. QED
  BY RelayInvariant, PaidStep, <1>1, PTL DEF Spec

\* Each crash, lost transaction or unseen confirmation makes at most one more
\* copy of an event, however many relays compete for it.
THEOREM DuplicatesArePaidFor == Spec => []DuplicatesArePaid
<1>1. RelayInv /\ Paid => DuplicatesArePaid
  <2> SUFFICES ASSUME RelayInv, Paid, NEW e \in Event PROVE sent[e] <= 1 + faults
    BY DEF DuplicatesArePaid
  <2>1. sent[e] \in Nat /\ faults \in Nat /\ Cardinality(Zombies(e)) \in Nat
    BY RelayAssumption, ZombiesFinite DEF RelayInv, TypeOK
  <2>2. sent[e] + Cardinality(Zombies(e)) <= faults + Credit(e)
    BY DEF Paid
  <2>3. Credit(e) \in 0 .. 1
    BY DEF Credit
  <2>4. QED
    BY <2>1, <2>2, <2>3
<1>2. QED
  BY RelayInvariant, PaidAlways, <1>1, PTL
----------------------------------------------------------------------------
(* The relays implement Publication.                                       *)

\* A batch is of committed rows, also when its transaction is gone.
RowsExist == \A r \in Relay : \A e \in batch[r] : outbox[e] # "absent"

LEMMA RowsExistStep == RelayInv /\ RelayInv' /\ RowsExist /\ [Next]_vars => RowsExist'
<1> SUFFICES ASSUME RelayInv, RelayInv', RowsExist, [Next]_vars PROVE RowsExist'
  OBVIOUS
<1>1. \A e \in Event : outbox[e] # "absent" => outbox'[e] # "absent"
  <2>1. ASSUME NEW e \in Event, Insert(e) PROVE \A f \in Event : outbox[f] # "absent" => outbox'[f] # "absent"
    BY <2>1 DEF RelayInv, TypeOK, Insert
  <2>2. ASSUME NEW r \in Relay, Commit(r) PROVE \A f \in Event : outbox[f] # "absent" => outbox'[f] # "absent"
    BY <2>2 DEF Commit
  <2>3. CASE UNCHANGED vars
    BY <2>3 DEF vars
  <2>4. QED
    BY <2>1, <2>2, <2>3
       DEF Next, Iterate, Poll, PublishConfirmed, PublishRefused, PublishUnseen, CommitFails,
           Crash, LoseDatabase
<1>2. \A r \in Relay : batch'[r] \subseteq batch[r] \/ \A e \in batch'[r] : outbox[e] = "pending"
  <2>1. ASSUME NEW r \in Relay, EndIteration(r) PROVE \A s \in Relay : batch'[s] \subseteq batch[s]
    BY <2>1 DEF RelayInv, TypeOK, EndIteration
  <2>2. ASSUME NEW r \in Relay, Poll(r)
        PROVE  \A s \in Relay : batch'[s] \subseteq batch[s] \/ \A e \in batch'[s] : outbox[e] = "pending"
    <3>1. PICK b \in Batches(Selectable) : batch' = [batch EXCEPT ![r] = {b[i] : i \in DOMAIN b}]
      BY <2>2 DEF Poll
    <3>2. Selectable \in SUBSET Event /\ \A e \in Selectable : outbox[e] = "pending"
      BY DEF Selectable
    <3>3. \A i \in DOMAIN b : b[i] \in Selectable
      BY DEF Batches
    <3>4. QED
      BY <3>1, <3>2, <3>3 DEF RelayInv, TypeOK
  <2>3. ASSUME NEW r \in Relay, NEW marked, Note(r, marked) PROVE \A s \in Relay : batch'[s] \subseteq batch[s]
    BY <2>1, <2>3 DEF Note
  <2>4. CASE UNCHANGED vars
    BY <2>4 DEF vars, relayVars
  <2>5. ASSUME NEW e \in Event, Insert(e) PROVE batch' = batch
    BY <2>5 DEF Insert, relayVars
  <2>6. ASSUME NEW r \in Relay, LoseDatabase(r) PROVE batch' = batch
    BY <2>6 DEF LoseDatabase
  <2>7. QED
    BY <2>1, <2>2, <2>3, <2>4, <2>5, <2>6
       DEF Next, Iterate, PublishConfirmed, PublishRefused, PublishUnseen, Commit, CommitFails, Crash
<1>3. QED
  <2> SUFFICES ASSUME NEW r \in Relay, NEW e \in batch'[r] PROVE outbox'[e] # "absent"
    BY DEF RowsExist
  <2>1. e \in Event
    BY DEF RelayInv, TypeOK
  <2>2. outbox[e] # "absent"
    BY <1>2 DEF RowsExist
  <2>3. QED
    BY <1>1, <2>1, <2>2

\* What a relay is about to publish is committed, and another copy is paid for:
\* a live relay's next event is not noted, and a zombie is counted already.
LEMMA NextIsAffordable ==
    ASSUME RelayInv, Paid, RowsExist, NEW r \in Relay, todo[r] # <<>>
    PROVE  /\ Head(todo[r]) \in Event
           /\ outbox[Head(todo[r])] # "absent"
           /\ sent[Head(todo[r])] <= faults
<1> DEFINE e == Head(todo[r])
<1>1. todo[r] \in Seq(Event) /\ 1 \in 1 .. Len(todo[r]) /\ e = todo[r][1] /\ e \in Event
  BY TailElements DEF RelayInv, TypeOK
<1>2. outbox[e] # "absent"
  BY <1>1 DEF RelayInv, BatchTrue, RowsExist
<1>3. /\ sent[e] \in Nat /\ faults \in Nat /\ Cardinality(Zombies(e)) \in Nat
      /\ sent[e] + Cardinality(Zombies(e)) <= faults + Credit(e)
      /\ Credit(e) \in 0 .. 1
  BY <1>1, RelayAssumption, ZombiesFinite DEF RelayInv, TypeOK, Paid, Credit
<1>4. CASE inTx[r]
  <2>1. Credit(e) = 0
    BY <1>4, NextIsNotNoted DEF Credit
  <2>2. QED
    BY <1>1, <1>2, <1>3, <2>1
<1>5. CASE ~ inTx[r]
  <2>1. r \in Zombies(e)
    BY <1>1, <1>5 DEF Zombies
  <2>2. Cardinality(Zombies(e)) # 0
    BY <2>1, ZombiesFinite, FS_EmptySet
  <2>3. QED
    BY <1>1, <1>2, <1>3, <2>2
<1>6. QED
  BY <1>4, <1>5

\* A copy the broker accepts is a Send, and the marks of a batch are a Mark.
LEMMA SendStep ==
    ASSUME RelayInv, Paid, RowsExist, NEW r \in Relay, PublishConfirmed(r) \/ PublishUnseen(r)
    PROVE  \E e \in Event : Promise!Send(e)
<1>1. todo[r] # <<>> /\ outbox' = outbox /\ sent' = [sent EXCEPT ![Head(todo[r])] = @ + 1]
      /\ faults' \in {faults, faults + 1}
  BY DEF PublishConfirmed, PublishUnseen
<1>2. /\ Head(todo[r]) \in Event /\ outbox[Head(todo[r])] # "absent"
      /\ sent[Head(todo[r])] <= faults
  BY <1>1, NextIsAffordable
<1>3. QED
  BY <1>1, <1>2 DEF Promise!Send

LEMMA MarkStep == ASSUME RelayInv, NEW r \in Relay, Commit(r) PROVE Promise!Mark
<1>1. /\ inTx[r] /\ sent' = sent /\ faults' = faults
      /\ outbox' = [e \in Event |-> IF e \in marks[r] THEN "published" ELSE outbox[e]]
  BY DEF Commit
<1>2. marks[r] \in SUBSET {e \in Event : outbox[e] = "pending" /\ sent[e] > 0}
  BY <1>1 DEF RelayInv, TypeOK, BatchTrue, LocksDisjoint
<1>3. QED
  BY <1>1, <1>2 DEF Promise!Mark

LEMMA StepIsPromised == RelayInv /\ Paid /\ RowsExist /\ [Next]_vars => [Promise!Next]_(Promise!vars)
<1> SUFFICES ASSUME RelayInv, Paid, RowsExist, [Next]_vars PROVE [Promise!Next]_(Promise!vars)
  OBVIOUS
<1>1. ASSUME NEW e \in Event, Insert(e) PROVE Promise!Commit(e)
  BY <1>1 DEF Insert, Promise!Commit
<1>2. ASSUME NEW r \in Relay, Poll(r) \/ PublishRefused(r) \/ CommitFails(r)
      PROVE  UNCHANGED Promise!vars
  BY <1>2 DEF Poll, PublishRefused, CommitFails, Promise!vars
<1>3. ASSUME NEW r \in Relay, Crash(r) \/ LoseDatabase(r) PROVE Promise!Fault
  BY <1>3 DEF Crash, LoseDatabase, Promise!Fault
<1>4. CASE UNCHANGED vars
  BY <1>4 DEF vars, Promise!vars
<1>5. QED
  BY <1>1, <1>2, <1>3, <1>4, SendStep, MarkStep DEF Next, Iterate, Promise!Next

\* However many relays there are and however they fail, the table and the broker
\* show one sender that marks what it has sent, and repeats itself at the price
\* of a fault.
THEOREM RelaysImplementPublication == Spec => PublicationImplemented
<1>1. Init => Promise!Init
  BY DEF Init, Promise!Init
<1>2. Init => RowsExist
  BY DEF Init, RowsExist
<1>3. Spec => []RowsExist
  BY RelayInvariant, RowsExistStep, <1>2, PTL DEF Spec
<1>4. Spec => Promise!Spec
  BY RelayInvariant, PaidAlways, StepIsPromised, <1>1, <1>3, PTL DEF Spec, Promise!Spec
<1>5. QED
  BY <1>4 DEF PublicationImplemented
============================================================================
