------------------------------ MODULE KvdbProofs ------------------------------
(***************************************************************************)
(* The proof that kvdb-memorydb implements the KeyValueDB trait, for every *)
(* alphabet, number of columns and threads, transaction and query.  It     *)
(* rests on PrefixRangeExact, and on a transaction being its operations    *)
(* one after another (AfterStep).                                          *)
(***************************************************************************)
EXTENDS KvdbMemory, DbTransactionsProofs

(* The trait's transactions are those of DbTransactions. *)
LEMMA TraitAfter ==
    ASSUME NEW c, NEW ops, NEW n
    PROVE  Trait!After(c, ops, n) = After(c, ops, n)
  <1>1. \A col, key : Trait!LastTouch(ops, n, col, key) = LastTouch(ops, n, col, key)
    BY DEF Trait!LastTouch, LastTouch, Trait!Touches, Touches, Trait!StartsWith, StartsWith
  <1>2. \A m, col : Trait!KeysAfter(m, ops, n, col) = KeysAfter(m, ops, n, col)
    BY <1>1 DEF Trait!KeysAfter, KeysAfter
  <1>3. \A m, col, key : Trait!ValueAfter(m, ops, n, col, key) = ValueAfter(m, ops, n, col, key)
    <2>1. \A S : Trait!TheOnly(S) = TheOnly(S)
      BY DEF Trait!TheOnly, TheOnly
    <2> QED  BY <1>1, <2>1 DEF Trait!ValueAfter, ValueAfter
  <1> QED  BY <1>2, <1>3 DEF Trait!After, After

(***************************************************************************)
(* One round of write's loop does to the columns what the trait says one   *)
(* more operation of the transaction does.                                 *)
(***************************************************************************)
LEMMA ApplyOpStep ==
    ASSUME NEW c, AreColumns(c), NEW ops \in Seq(DBOp), NEW n \in Nat, n < Len(ops),
           AreColumns(After(c, ops, n))
    PROVE  ApplyOp(After(c, ops, n), ops[n + 1]) = After(c, ops, n + 1)
  <1> DEFINE op == ops[n + 1]
             A == After(c, ops, n)
             B == After(c, ops, n + 1)
             R == ApplyOp(A, op)
  <1>1. op \in DBOp
    OBVIOUS
  <1>2. DOMAIN A = DOMAIN c /\ DOMAIN B = DOMAIN c
    BY DEF After
  <1>3. R = [col \in DOMAIN c |-> R[col]]
    BY <1>2 DEF ApplyOp, AreColumns
  <1>4. B = [col \in DOMAIN c |-> B[col]]
    BY DEF After
  <1>5. ASSUME NEW col \in DOMAIN c PROVE R[col] = B[col]
    <2> DEFINE gone == {k \in DOMAIN A[col] : Touches(op, col, k)}
    <2>1. B[col] = IF op.col # col THEN A[col]
                   ELSE IF op.type = "Insert" THEN WithKey(A[col], op.key, op.value)
                   ELSE Without(A[col], gone)
      <3>1. B[col] = Changed(A[col], op, col)
        BY AfterStep
      <3> HIDE DEF A, B
      <3> QED  BY <3>1 DEF Changed
    <2>2. IsMap(A[col]) /\ DOMAIN A[col] \subseteq DBKey
      BY <1>2 DEF AreColumns, IsMap
    <2> HIDE DEF A, B
    <2>3. CASE op.col # col \/ op.type = "Insert"
      BY <1>2, <2>1, <2>3 DEF ApplyOp, AreColumns
    <2>4. CASE op.col = col /\ op.type = "Delete"
      <3>1. R[col] = Without(A[col], {op.key})
        BY <1>2, <2>4 DEF ApplyOp, AreColumns
      <3>2. DOMAIN A[col] \ {op.key} = DOMAIN A[col] \ gone
        BY <2>4 DEF Touches
      <3> QED  BY <2>1, <2>4, <3>1, <3>2 DEF Without
    <2>5. CASE op.col = col /\ op.type = "DeletePrefix"
      <3>1. \A k : Touches(op, col, k) <=> StartsWith(k, op.key)
        BY <2>5 DEF Touches
      <3>2. op.key \in DBKey
        BY <1>1 DEF DBOp
      <3>3. CASE op.key = <<>>
        <4>1. R[col] = EmptyMap
          BY <1>2, <2>5, <3>3 DEF ApplyOp, AreColumns
        <4>2. DOMAIN A[col] \ gone = {}
          BY <2>2, <3>1, <3>3 DEF StartsWith, DBKey
        <4> QED  BY <2>1, <2>5, <4>1, <4>2 DEF Without, EmptyMap
      <3>4. CASE op.key # <<>>
        <4>1. R[col] = Without(A[col], {k \in DOMAIN A[col] :
                                          InRange(k, op.key, EndPrefix(op.key))})
          BY <1>2, <2>5, <3>4 DEF ApplyOp, AreColumns
        <4>2. \A k \in DOMAIN A[col] :
                 InRange(k, op.key, EndPrefix(op.key)) <=> Touches(op, col, k)
          BY <2>2, <3>1, <3>2, PrefixRangeExact
        <4> QED  BY <2>1, <2>5, <4>1, <4>2
      <3> QED  BY <3>3, <3>4
    <2> QED
      BY <1>1, <2>3, <2>4, <2>5 DEF DBOp
  <1> HIDE DEF R, B
  <1> QED
    BY <1>3, <1>4, <1>5 DEF R, B, A, op
------------------------------------------------------------------------------
(***************************************************************************)
(* The invariant: while write runs, the columns are what the transaction's *)
(* first operations make of those it started from; otherwise they are the  *)
(* ones to start from.                                                     *)
(***************************************************************************)
IInv ==
    /\ TypeOK
    /\ AreColumns(before)
    /\ DOMAIN before = Columns
    /\ writer = {} => columns = before /\ txn = <<>> /\ done = 0
    /\ PartWayExact

(* create makes columns that satisfy the invariant. *)
LEMMA InitHolds == Init => IInv
  <1> SUFFICES ASSUME Init PROVE IInv
    OBVIOUS
  <1>1. IsMap(EmptyMap)
    BY DEF IsMap, EmptyMap
  <1>2. AreColumns(columns) /\ DOMAIN columns = Columns
    BY <1>1 DEF Init, AreColumns
  <1>3. PartWayExact
    BY <1>2, AfterNone, TraitAfter DEF Init, PartWayExact
  <1>4. TypeOK
    BY <1>1 DEF Init, TypeOK
  <1> QED
    BY <1>2, <1>3, <1>4 DEF Init, IInv

(* Every step of every thread preserves it. *)
LEMMA NextHolds == IInv /\ [Next]_vars => IInv'
  <1> SUFFICES ASSUME IInv, [Next]_vars PROVE IInv'
    OBVIOUS
  <1>1. /\ AreColumns(columns) /\ AreColumns(before) /\ DOMAIN before = Columns
        /\ DOMAIN columns = Columns
    BY DEF IInv, TypeOK, AreColumns
  <1>2. txn \in Seq(DBOp)
    <2>1. <<>> \in Seq(DBOp)
      OBVIOUS
    <2>2. txn \in Transactions \/ txn = <<>>
      BY DEF IInv, TypeOK
    <2> QED
      BY <2>1, <2>2, TransactionsAssumption
  <1>3. ASSUME NEW t \in Threads, NEW ops \in Transactions, StartWrite(t, ops) PROVE IInv'
    <2>1. PartWayExact'
      BY <1>1, <1>3, AfterNone, TraitAfter DEF StartWrite, PartWayExact
    <2>2. Len(ops) \in Nat
      BY TransactionsAssumption
    <2> QED
      BY <1>1, <1>3, <2>1, <2>2 DEF StartWrite, IInv, TypeOK, AreColumns
  <1>4. ASSUME NEW t \in Threads, WriteOp(t) PROVE IInv'
    <2>1. done \in Nat /\ done < Len(txn) /\ Len(txn) \in Nat
      BY <1>2, <1>4 DEF WriteOp, IInv, TypeOK
    <2>2. columns' = After(before, txn, done + 1)
      <3>1. columns' = ApplyOp(After(before, txn, done), txn[done + 1])
        BY <1>4, TraitAfter DEF WriteOp, IInv, PartWayExact
      <3>2. AreColumns(After(before, txn, done))
        BY <1>1, <1>2, <2>1, AfterAreColumns
      <3> QED
        BY <1>1, <1>2, <2>1, <3>1, <3>2, ApplyOpStep
    <2>3. AreColumns(columns') /\ DOMAIN columns' = Columns
      BY <1>1, <1>2, <2>1, <2>2, AfterAreColumns
    <2>4. TypeOK'
      BY <1>4, <2>1, <2>3 DEF WriteOp, IInv, TypeOK, AreColumns
    <2>5. PartWayExact'
      BY <1>4, <2>2, TraitAfter DEF WriteOp, PartWayExact
    <2>6. writer' # {}
      BY <1>4 DEF WriteOp
    <2> QED
      BY <1>1, <1>4, <2>4, <2>5, <2>6 DEF WriteOp, IInv
  <1>5. ASSUME NEW t \in Threads, EndWrite(t) PROVE IInv'
    <2>1. PartWayExact'
      BY <1>1, <1>5, AfterNone, TraitAfter DEF EndWrite, PartWayExact
    <2> QED
      BY <1>1, <1>5, <2>1 DEF EndWrite, IInv, TypeOK
  <1>6. ASSUME NEW q \in Queries, Read(q) PROVE IInv'
    BY <1>6 DEF Read, IInv, TypeOK, PartWayExact
  <1>7. ASSUME UNCHANGED vars PROVE IInv'
    BY <1>7 DEF vars, IInv, TypeOK, PartWayExact
  <1> QED
    BY <1>3, <1>4, <1>5, <1>6, <1>7 DEF Next

(* The columns stay well formed in every step of every thread. *)
THEOREM MemoryTypeCorrect == Spec => []TypeOK
  <1>1. Spec => []IInv
    BY InitHolds, NextHolds, PTL DEF Spec
  <1>2. IInv => TypeOK
    BY DEF IInv
  <1> QED
    BY <1>1, <1>2, PTL

(* Half way through a transaction the columns are exactly what its operations so far leave. *)
THEOREM MemoryPartWayExact == Spec => []PartWayExact
  <1>1. Spec => []IInv
    BY InitHolds, NextHolds, PTL DEF Spec
  <1>2. IInv => PartWayExact
    BY DEF IInv
  <1> QED
    BY <1>1, <1>2, PTL

(* Answers to a query are those of the trait on the same columns. *)
LEMMA AnswerAsPromised ==
    ASSUME NEW q, q.call \in {"get", "get_by_prefix", "iter", "iter_with_prefix"}
    PROVE  Answer(q) = Trait!Result(columns, q)
  BY DEF Answer, Get, GetByPrefix, Iter, IterWithPrefix, Pair, Trait!Result, Trait!Pairs,
         Trait!WithPrefix, Trait!FirstOf, Trait!StartsWith, StartsWith, Trait!LexLess, LexLess

(* A new database is one the trait allows. *)
LEMMA InitImplements == Init => Trait!Init
  <1> SUFFICES ASSUME Init PROVE Trait!Init
    OBVIOUS
  <1> QED
    BY DEF Init, Trait!Init, Visible, EmptyMap, Trait!EmptyMap

(* Every step is a step of the trait or invisible to it: write is visible when it unlocks. *)
LEMMA NextImplements == IInv /\ [Next]_vars => [Trait!Next]_(Trait!vars)
  <1> SUFFICES ASSUME IInv, [Next]_vars PROVE [Trait!Next]_(Trait!vars)
    OBVIOUS
  <1>1. ASSUME NEW t \in Threads, NEW ops \in Transactions, StartWrite(t, ops)
        PROVE  UNCHANGED Trait!vars
    BY <1>1 DEF StartWrite, Trait!vars, Visible
  <1>2. ASSUME NEW t \in Threads, WriteOp(t) PROVE UNCHANGED Trait!vars
    BY <1>2 DEF WriteOp, Trait!vars, Visible
  <1>3. ASSUME NEW t \in Threads, EndWrite(t) PROVE Trait!Next \/ UNCHANGED Trait!vars
    <2>1. Visible = before /\ Visible' = Trait!After(before, txn, Len(txn))
      BY <1>3 DEF EndWrite, Visible, IInv, PartWayExact
    <2>2. answer' = [call |-> "write", ops |-> txn]
      BY <1>3 DEF EndWrite
    <2>3. Trait!Write(txn)
      BY <2>1, <2>2 DEF Trait!Write
    <2>4. txn \in Transactions
      BY <1>3 DEF EndWrite, IInv, TypeOK
    <2> QED
      BY <2>3, <2>4 DEF Trait!Next
  <1>4. ASSUME NEW q \in Queries, Read(q) PROVE Trait!Next
    <2>1. Visible = columns /\ Visible' = Visible
      BY <1>4 DEF Read, Visible
    <2>2. Answer(q) = Trait!Result(columns, q)
      BY AnswerAsPromised, QueriesAssumption
    <2>3. Trait!Read(q)
      BY <1>4, <2>1, <2>2 DEF Read, Trait!Read
    <2> QED
      BY <2>3 DEF Trait!Next
  <1>5. ASSUME UNCHANGED vars PROVE UNCHANGED Trait!vars
    BY <1>5 DEF vars, Trait!vars, Visible
  <1> QED
    BY <1>1, <1>2, <1>3, <1>4, <1>5 DEF Next

(***************************************************************************)
(* The in-memory database implements the trait: write, which changes the   *)
(* columns in place one operation at a time and deletes a prefix through a *)
(* range of keys, is an atomic transaction to every reader, and leaves to  *)
(* each key what the last operation that touches it says.                  *)
(***************************************************************************)
THEOREM MemoryImplementsTrait == Spec => ImplementsKeyValueDB
  <1>1. Spec => []IInv
    BY InitHolds, NextHolds, PTL DEF Spec
  <1> QED
    BY <1>1, InitImplements, NextImplements, PTL DEF Spec, ImplementsKeyValueDB, Trait!Spec
==============================================================================
