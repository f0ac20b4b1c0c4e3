------------------------ MODULE ConnectionPoolProofs ------------------------
(***************************************************************************)
(* Proofs about ConnectionPool, for any number of handlers and any pool.   *)
(* Everything rests on Holders: a handler holds a connection in exactly    *)
(* those stages where it does not wait for one.                            *)
(***************************************************************************)
EXTENDS ConnectionPool, FiniteSetTheorems, TLAPS

Holders ==
    \A h \in Handler : h \in holding <=> pc[h] \in {"lock", "gateway", "post", "record"}

IInv == TypeOK /\ Holders

\* Connections are taken one at a time, and only from a pool that has one.
LEMMA TakeConnection ==
    ASSUME TypeOK, NEW h \in Handler, ~ Exhausted, holding' = holding \cup {h}
    PROVE  holding' \subseteq Handler /\ Cardinality(holding') <= PoolSize
<1>1. IsFiniteSet(holding)
  BY PoolAssumption, FS_Subset DEF TypeOK
<1>2. Cardinality(holding) \in Nat
  BY <1>1, FS_CardinalityType
<1>3. Cardinality(holding') \in {Cardinality(holding), Cardinality(holding) + 1}
  BY <1>1, FS_AddElement
<1>. QED
  BY <1>2, <1>3, PoolAssumption DEF TypeOK, Exhausted

LEMMA ReturnConnection ==
    ASSUME TypeOK, NEW h \in Handler, Release(h)
    PROVE  holding' \subseteq Handler /\ Cardinality(holding') <= PoolSize
<1>1. IsFiniteSet(holding)
  BY PoolAssumption, FS_Subset DEF TypeOK
<1>2. holding' \subseteq holding
  BY DEF Release
<1>3. /\ Cardinality(holding) \in Nat /\ Cardinality(holding') \in Nat
      /\ Cardinality(holding') <= Cardinality(holding)
  BY <1>1, <1>2, FS_Subset, FS_CardinalityType
<1>. QED
  BY <1>2, <1>3, PoolAssumption DEF TypeOK

LEMMA TypeStep ==
    ASSUME TypeOK, Next
    PROVE  TypeOK'
<1>1. PICK h \in Handler : Receive(h) \/ Work(h) \/ PoolTimeout(h) \/ Fail(h)
  BY DEF Next
<1>2. pc' \in [Handler -> Stage]
  BY <1>1 DEF TypeOK, Receive, Work, Connect, Lock, Settle, Post, Record, PoolTimeout, Fail,
              Goto, Stage
<1>3. pid' \in [Handler -> PaymentId] /\ messages' \in 0 .. MaxMessages
  BY <1>1, PoolAssumption
     DEF TypeOK, Receive, Work, Connect, Lock, Settle, Post, Record, PoolTimeout, Fail
<1>4. \/ UNCHANGED holding \/ Release(h)
      \/ ~ Exhausted /\ holding' = holding \cup {h}
  BY <1>1 DEF Receive, Work, Connect, Lock, Settle, Post, Record, PoolTimeout, Fail, Keep
<1>5. holding' \subseteq Handler /\ Cardinality(holding') <= PoolSize
  BY <1>4, TakeConnection, ReturnConnection DEF TypeOK
<1>. QED
  BY <1>2, <1>3, <1>5 DEF TypeOK

\* Only the acting handler changes its stage, and its connection with it.
LEMMA HoldersStep ==
    ASSUME IInv, Next
    PROVE  Holders'
<1>1. PICK h \in Handler : Receive(h) \/ Work(h) \/ PoolTimeout(h) \/ Fail(h)
  BY DEF Next
<1>2. h \in holding' <=> pc'[h] \in {"lock", "gateway", "post", "record"}
  <2>1. CASE Receive(h) \/ PoolTimeout(h)
    BY <2>1 DEF IInv, TypeOK, Holders, Receive, PoolTimeout, Goto, Keep
  <2>2. CASE Connect(h)
    BY <2>2 DEF IInv, TypeOK, Connect, Goto
  <2>3. CASE Lock(h)
    BY <2>3 DEF IInv, TypeOK, Holders, Lock, Goto, Keep, Release
  <2>4. CASE Settle(h) \/ Post(h) \/ Record(h) \/ Fail(h)
    BY <2>4 DEF IInv, TypeOK, Holders, Settle, Post, Record, Fail, Goto, Keep, Release
  <2>. QED  BY <1>1, <2>1, <2>2, <2>3, <2>4 DEF Work
<1>3. ASSUME NEW g \in Handler, g # h
      PROVE  pc'[g] = pc[g] /\ (g \in holding' <=> g \in holding)
  BY <1>1, <1>3
     DEF IInv, TypeOK, Receive, Work, Connect, Lock, Settle, Post, Record, PoolTimeout, Fail,
         Goto, Keep, Release
<1>. QED
  BY <1>2, <1>3 DEF IInv, Holders

LEMMA Invariance == Spec => []IInv
<1>1. Init => IInv
  <2>. SUFFICES ASSUME Init PROVE IInv
    OBVIOUS
  <2>1. Cardinality({}) = 0
    BY FS_EmptySet
  <2>. QED  BY <2>1, PoolAssumption DEF Init, IInv, TypeOK, Holders, Stage
<1>2. IInv /\ [Next]_vars => IInv'
  BY TypeStep, HoldersStep DEF IInv, TypeOK, Holders, vars
<1>. QED
  BY <1>1, <1>2, PTL DEF Spec

\* Stages, and no more connections in use than the pool has.
THEOREM TypeCorrect == Spec => []TypeOK
BY Invariance, PTL DEF IInv

\* A pool of any size, even of one connection, never locks up: the holder of a
\* row lock has its connection already.
THEOREM PoolAlwaysMoves == Spec => []PoolMoves
<1>1. IInv => PoolMoves
  <2>. SUFFICES ASSUME IInv, Exhausted
                PROVE  \E h \in holding :
                          \/ pc[h] \in {"gateway", "post"}
                          \/ pc[h] \in {"lock", "record"} /\ ~ Locked(pid[h])
    BY DEF PoolMoves
  <2>1. holding # {}
    BY FS_EmptySet, PoolAssumption DEF Exhausted
  <2>2. PICK g \in holding : TRUE
    BY <2>1
  <2>3. g \in Handler /\ pc[g] \in {"lock", "gateway", "post", "record"}
    BY DEF IInv, TypeOK, Holders
  <2>4. ASSUME Locked(pid[g]) PROVE \E h \in holding : pc[h] = "gateway"
    BY <2>4 DEF IInv, Holders, Locked
  <2>. QED  BY <2>2, <2>3, <2>4
<1>. QED
  BY Invariance, <1>1, PTL
=============================================================================
