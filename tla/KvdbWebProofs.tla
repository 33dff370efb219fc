---------------------------- MODULE KvdbWebProofs ----------------------------
(***************************************************************************)
(* kvdb-web: what IndexedDB stores and what an open Database answers from, *)
(* for any number of columns, opens and transactions.                      *)
(***************************************************************************)
EXTENDS KvdbWeb, DbTransactionsProofs, FiniteSetTheorems, SequenceTheorems

(* One more transaction either decides the key or leaves the decision as it was. *)
LEMMA LastWriterStep ==
    ASSUME NEW txns, NEW n \in Nat, NEW col, NEW key
    PROVE  LastWriter(txns, n + 1, col, key) =
              IF TouchedBy(txns[n + 1], col, key)
              THEN {n + 1}
              ELSE LastWriter(txns, n, col, key)
  <1>1. CASE TouchedBy(txns[n + 1], col, key)
    <2>1. n + 1 \in LastWriter(txns, n + 1, col, key)
      BY <1>1 DEF LastWriter
    <2>2. ASSUME NEW i \in LastWriter(txns, n + 1, col, key) PROVE i = n + 1
      BY <1>1 DEF LastWriter
    <2> QED  BY <1>1, <2>1, <2>2
  <1>2. CASE ~TouchedBy(txns[n + 1], col, key)
    <2>1. ASSUME NEW i
          PROVE  i \in LastWriter(txns, n + 1, col, key)
                    <=> i \in LastWriter(txns, n, col, key)
      <3>1. ASSUME i \in LastWriter(txns, n + 1, col, key)
            PROVE  i \in LastWriter(txns, n, col, key)
        BY <1>2, <3>1 DEF LastWriter
      <3>2. ASSUME i \in LastWriter(txns, n, col, key)
            PROVE  i \in LastWriter(txns, n + 1, col, key)
        <4>1. i \in 1..n /\ TouchedBy(txns[i], col, key)
              /\ \A j \in (i + 1)..n : ~TouchedBy(txns[j], col, key)
          BY <3>2 DEF LastWriter
        <4>2. \A j \in (i + 1)..(n + 1) : j \in (i + 1)..n \/ j = n + 1
          BY <4>1
        <4> QED  BY <1>2, <4>1, <4>2 DEF LastWriter
      <3> QED  BY <3>1, <3>2
    <2> QED  BY <1>2, <2>1
  <1> QED  BY <1>1, <1>2

(* At most one transaction is the last to touch a key. *)
LEMMA LastWriterUnique ==
    ASSUME NEW txns, NEW n \in Nat, NEW col, NEW key, NEW i \in LastWriter(txns, n, col, key)
    PROVE  /\ i \in 1..n
           /\ LastWriter(txns, n, col, key) = {i}
           /\ TheOnly(LastWriter(txns, n, col, key)) = i
  <1>1. ASSUME NEW j \in LastWriter(txns, n, col, key) PROVE j = i
    <2>1. i \in 1..n /\ j \in 1..n /\ j \notin (i + 1)..n /\ i \notin (j + 1)..n
      BY DEF LastWriter
    <2> QED  BY <2>1
  <1>2. LastWriter(txns, n, col, key) = {i}
    BY <1>1
  <1> QED  BY <1>2 DEF LastWriter, TheOnly

(* Which keys a transaction leaves in an empty column, and that a touched key's value is its own. *)
LEMMA AloneMember ==
    ASSUME NEW cols, NEW col \in cols, NEW ops \in Seq(DBOp), NEW key
    PROVE  key \in DOMAIN Alone(cols, ops)[col]
              <=> \E i \in LastTouch(ops, Len(ops), col, key) : ops[i].type = "Insert"
  <1>1. DOMAIN Alone(cols, ops)[col] = KeysAfter(Emptied(cols)[col], ops, Len(ops), col)
    BY DEF Alone, After, Emptied
  <1>2. DOMAIN Emptied(cols)[col] = {}
    BY DEF Emptied, EmptyMap
  <1>3. Len(ops) \in Nat
    OBVIOUS
  <1> QED  BY <1>1, <1>2, <1>3, KeysAfterMember

(* A key is left by the last of the transactions that touches it, if that one leaves it. *)
LEMMA LeavesMember ==
    ASSUME NEW cols, NEW col \in cols, NEW txns, NEW n \in Nat, NEW key
    PROVE  key \in DOMAIN Leaves(cols, txns, n)[col]
              <=> \E i \in LastWriter(txns, n, col, key) : key \in DOMAIN Alone(cols, txns[i])[col]
  <1>1. LastWriter(txns, n, col, key) \subseteq 1..n
    BY DEF LastWriter
  <1> QED  BY <1>1 DEF Leaves

LEMMA LeavesValue ==
    ASSUME NEW cols, NEW col \in cols, NEW txns, NEW n \in Nat,
           NEW key \in DOMAIN Leaves(cols, txns, n)[col], NEW i \in LastWriter(txns, n, col, key)
    PROVE  Leaves(cols, txns, n)[col][key] = Alone(cols, txns[i])[col][key]
  <1>1. TheOnly(LastWriter(txns, n, col, key)) = i
    BY LastWriterUnique
  <1>2. Leaves(cols, txns, n)[col][key]
          = Alone(cols, txns[TheOnly(LastWriter(txns, n, col, key))])[col][key]
    BY DEF Leaves
  <1> QED  BY <1>1, <1>2

(* No transaction leaves nothing. *)
LEMMA LeavesNone ==
    ASSUME NEW cols, NEW txns
    PROVE  Leaves(cols, txns, 0) = Emptied(cols)
  <1>1. ASSUME NEW col \in cols PROVE Leaves(cols, txns, 0)[col] = EmptyMap
    <2>1. DOMAIN Leaves(cols, txns, 0)[col] = {}
      BY DEF Leaves
    <2>2. Leaves(cols, txns, 0)[col]
            = [k \in DOMAIN Leaves(cols, txns, 0)[col] |-> Leaves(cols, txns, 0)[col][k]]
      BY DEF Leaves
    <2> QED  BY <2>1, <2>2 DEF EmptyMap
  <1>2. Leaves(cols, txns, 0) = [col \in cols |-> Leaves(cols, txns, 0)[col]]
    BY DEF Leaves
  <1> QED  BY <1>1, <1>2 DEF Emptied

(***************************************************************************)
(* One more transaction does to what those before it leave what the trait  *)
(* says of a transaction: Leaves is their effect one after another.        *)
(***************************************************************************)
LEMMA LeavesStep ==
    ASSUME NEW cols, NEW txns, NEW n \in Nat, txns[n + 1] \in Seq(DBOp)
    PROVE  Leaves(cols, txns, n + 1)
              = After(Leaves(cols, txns, n), txns[n + 1], Len(txns[n + 1]))
  <1> DEFINE ops == txns[n + 1]
             A == Leaves(cols, txns, n)
             B == Leaves(cols, txns, n + 1)
             C == After(A, ops, Len(ops))
  <1>1. ops \in Seq(DBOp) /\ Len(ops) \in Nat /\ n + 1 \in Nat
    OBVIOUS
  <1>2. /\ A = [col \in cols |-> A[col]] /\ DOMAIN A = cols
        /\ B = [col \in cols |-> B[col]]
        /\ C = [col \in cols |-> C[col]]
    BY DEF Leaves, After
  <1>3. ASSUME NEW col \in cols PROVE B[col] = C[col]
    <2>1. B[col] = [k \in DOMAIN B[col] |-> B[col][k]]
      BY DEF Leaves
    <2>2. /\ C[col] = [k \in KeysAfter(A[col], ops, Len(ops), col) |->
                          ValueAfter(A[col], ops, Len(ops), col, k)]
      BY <1>2 DEF After
    <2>3. ASSUME NEW k
          PROVE  /\ k \in DOMAIN B[col] <=> k \in KeysAfter(A[col], ops, Len(ops), col)
                 /\ k \in DOMAIN B[col] => B[col][k] = ValueAfter(A[col], ops, Len(ops), col, k)
      <3>1. k \in KeysAfter(A[col], ops, Len(ops), col) <=>
              \/ k \in DOMAIN A[col] /\ LastTouch(ops, Len(ops), col, k) = {}
              \/ \E i \in LastTouch(ops, Len(ops), col, k) : ops[i].type = "Insert"
        <4> HIDE DEF A, ops
        <4> QED  BY <1>1, KeysAfterMember
      <3>2. k \in DOMAIN B[col] <=>
              \E i \in LastWriter(txns, n + 1, col, k) : k \in DOMAIN Alone(cols, txns[i])[col]
        BY <1>1, LeavesMember
      <3>3. CASE TouchedBy(ops, col, k)
        <4>1. LastWriter(txns, n + 1, col, k) = {n + 1}
          BY <3>3, LastWriterStep
        <4>2. k \in DOMAIN B[col] <=> k \in DOMAIN Alone(cols, ops)[col]
          BY <3>2, <4>1
        <4>3. LastTouch(ops, Len(ops), col, k) # {}
          BY <3>3 DEF TouchedBy
        <4>4. k \in DOMAIN Alone(cols, ops)[col]
                <=> \E i \in LastTouch(ops, Len(ops), col, k) : ops[i].type = "Insert"
          BY <1>1, AloneMember
        <4>5. k \in DOMAIN B[col] => B[col][k] = Alone(cols, ops)[col][k]
          BY <1>1, <4>1, LeavesValue
        <4>6. k \in DOMAIN Alone(cols, ops)[col] =>
                Alone(cols, ops)[col][k] = ValueAfter(Emptied(cols)[col], ops, Len(ops), col, k)
          BY DEF Alone, After, Emptied
        <4>7. ValueAfter(Emptied(cols)[col], ops, Len(ops), col, k)
                = ValueAfter(A[col], ops, Len(ops), col, k)
          BY <4>3 DEF ValueAfter
        <4> HIDE DEF A, B, ops
        <4> QED  BY <3>1, <4>2, <4>3, <4>4, <4>5, <4>6, <4>7
      <3>4. CASE ~TouchedBy(ops, col, k)
        <4>1. LastWriter(txns, n + 1, col, k) = LastWriter(txns, n, col, k)
          BY <3>4, LastWriterStep
        <4>2. LastTouch(ops, Len(ops), col, k) = {}
          BY <3>4 DEF TouchedBy
        <4>3. k \in DOMAIN A[col] <=>
                \E i \in LastWriter(txns, n, col, k) : k \in DOMAIN Alone(cols, txns[i])[col]
          BY LeavesMember
        <4>4. ASSUME k \in DOMAIN B[col] PROVE B[col][k] = A[col][k]
          <5>1. PICK i \in LastWriter(txns, n, col, k) : TRUE
            BY <3>2, <4>1, <4>4
          <5>2. k \in DOMAIN A[col]
            BY <3>2, <4>1, <4>3, <4>4
          <5>3. A[col][k] = Alone(cols, txns[i])[col][k]
            BY <5>2, LeavesValue
          <5>4. B[col][k] = Alone(cols, txns[i])[col][k]
            BY <1>1, <4>1, <4>4, LeavesValue
          <5> QED  BY <5>3, <5>4
        <4>5. ValueAfter(A[col], ops, Len(ops), col, k) = A[col][k]
          BY <4>2 DEF ValueAfter
        <4> HIDE DEF A, B, ops
        <4> QED  BY <3>1, <3>2, <4>1, <4>2, <4>3, <4>4, <4>5
      <3> QED  BY <3>3, <3>4
    <2> HIDE DEF A, B, C, ops
    <2>4. DOMAIN B[col] = KeysAfter(A[col], ops, Len(ops), col)
      BY <2>3
    <2> QED  BY <2>1, <2>2, <2>3, <2>4
  <1> HIDE DEF A, B, C, ops
  <1>4. B = C
    BY <1>2, <1>3
  <1> QED  BY <1>4 DEF A, B, C, ops

(* Only the transactions counted matter. *)
LEMMA LeavesSame ==
    ASSUME NEW cols, NEW a, NEW b, NEW n \in Nat, \A i \in 1..n : a[i] = b[i]
    PROVE  Leaves(cols, a, n) = Leaves(cols, b, n)
  <1> DEFINE A == Leaves(cols, a, n)
             B == Leaves(cols, b, n)
  <1>1. ASSUME NEW col, NEW k PROVE LastWriter(a, n, col, k) = LastWriter(b, n, col, k)
    <2>1. ASSUME NEW i \in 1..n
          PROVE  i \in LastWriter(a, n, col, k) <=> i \in LastWriter(b, n, col, k)
      <3>1. \A j \in (i + 1)..n : j \in 1..n
        OBVIOUS
      <3> QED  BY <3>1 DEF LastWriter
    <2>2. LastWriter(a, n, col, k) \subseteq 1..n /\ LastWriter(b, n, col, k) \subseteq 1..n
      BY DEF LastWriter
    <2> QED  BY <2>1, <2>2
  <1>2. ASSUME NEW col \in cols PROVE A[col] = B[col]
    <2>1. /\ A[col] = [k \in DOMAIN A[col] |-> A[col][k]]
          /\ B[col] = [k \in DOMAIN B[col] |-> B[col][k]]
      BY DEF Leaves
    <2>2. ASSUME NEW k PROVE k \in DOMAIN A[col] <=> k \in DOMAIN B[col]
      <3>1. k \in DOMAIN A[col]
              <=> \E i \in LastWriter(a, n, col, k) : k \in DOMAIN Alone(cols, a[i])[col]
        BY LeavesMember
      <3>2. k \in DOMAIN B[col]
              <=> \E i \in LastWriter(b, n, col, k) : k \in DOMAIN Alone(cols, b[i])[col]
        BY LeavesMember
      <3>3. \A i \in LastWriter(a, n, col, k) : a[i] = b[i]
        BY DEF LastWriter
      <3> HIDE DEF A, B
      <3> QED  BY <1>1, <3>1, <3>2, <3>3
    <2>3. ASSUME NEW k \in DOMAIN A[col] PROVE A[col][k] = B[col][k]
      <3>1. PICK i \in LastWriter(a, n, col, k) : TRUE
        BY LeavesMember
      <3>2. i \in 1..n /\ i \in LastWriter(b, n, col, k) /\ k \in DOMAIN B[col]
        BY <1>1, <2>2, <3>1, LastWriterUnique
      <3>3. A[col][k] = Alone(cols, a[i])[col][k]
        BY LeavesValue
      <3>4. B[col][k] = Alone(cols, b[i])[col][k]
        BY <3>2, LeavesValue
      <3> QED  BY <3>2, <3>3, <3>4
    <2> HIDE DEF A, B
    <2>4. DOMAIN A[col] = DOMAIN B[col]
      BY <2>2
    <2> QED  BY <2>1, <2>3, <2>4
  <1>3. A = [col \in cols |-> A[col]] /\ B = [col \in cols |-> B[col]]
    BY DEF Leaves
  <1> HIDE DEF A, B
  <1>4. A = B
    BY <1>2, <1>3
  <1> QED  BY <1>4 DEF A, B

(* What a transaction leaves in a column does not depend on the other columns. *)
LEMMA AfterLocal ==
    ASSUME NEW c, NEW d, NEW col, col \in DOMAIN c, col \in DOMAIN d, c[col] = d[col],
           NEW ops, NEW n
    PROVE  After(c, ops, n)[col] = After(d, ops, n)[col]
  BY DEF After

(* The columns m with empty ones added. *)
Widened(m, cols, wide) == [c \in wide |-> IF c \in cols THEN m[c] ELSE EmptyMap]

(* Columns that no transaction touches stay empty, and the others do not depend on them. *)
LEMMA LeavesWider ==
    ASSUME NEW cols, NEW wide, cols \subseteq wide, NEW txns, NEW n \in Nat,
           \A i \in 1..n : \A j \in 1..Len(txns[i]) : txns[i][j].col \in cols
    PROVE  Leaves(wide, txns, n) = Widened(Leaves(cols, txns, n), cols, wide)
  <1> DEFINE W == Leaves(wide, txns, n)
             L == Leaves(cols, txns, n)
  <1>1. W = [col \in wide |-> W[col]]
    BY DEF Leaves
  <1>2. ASSUME NEW col \in cols PROVE W[col] = L[col]
    <2>1. /\ W[col] = [k \in DOMAIN W[col] |-> W[col][k]]
          /\ L[col] = [k \in DOMAIN L[col] |-> L[col][k]]
      BY DEF Leaves
    <2>2. \A ops : Alone(wide, ops)[col] = Alone(cols, ops)[col]
      BY AfterLocal DEF Alone, Emptied
    <2>3. ASSUME NEW k PROVE k \in DOMAIN W[col] <=> k \in DOMAIN L[col]
      <3>1. k \in DOMAIN W[col]
              <=> \E i \in LastWriter(txns, n, col, k) : k \in DOMAIN Alone(wide, txns[i])[col]
        BY LeavesMember
      <3>2. k \in DOMAIN L[col]
              <=> \E i \in LastWriter(txns, n, col, k) : k \in DOMAIN Alone(cols, txns[i])[col]
        BY LeavesMember
      <3> HIDE DEF W, L
      <3> QED  BY <2>2, <3>1, <3>2
    <2>4. ASSUME NEW k \in DOMAIN W[col] PROVE W[col][k] = L[col][k]
      <3>1. PICK i \in LastWriter(txns, n, col, k) : TRUE
        BY LeavesMember
      <3>2. k \in DOMAIN L[col]
        BY <2>3
      <3>3. W[col][k] = Alone(wide, txns[i])[col][k]
        BY LeavesValue
      <3>4. L[col][k] = Alone(cols, txns[i])[col][k]
        BY <3>2, LeavesValue
      <3> QED  BY <2>2, <3>3, <3>4
    <2> HIDE DEF W, L
    <2>5. DOMAIN W[col] = DOMAIN L[col]
      BY <2>3
    <2> QED  BY <2>1, <2>4, <2>5
  <1>3. ASSUME NEW col \in wide, col \notin cols PROVE W[col] = EmptyMap
    <2>1. ASSUME NEW k PROVE LastWriter(txns, n, col, k) = {}
      <3>1. ASSUME NEW i \in 1..n PROVE LastTouch(txns[i], Len(txns[i]), col, k) = {}
        BY <1>3 DEF LastTouch, Touches
      <3> QED  BY <3>1 DEF LastWriter, TouchedBy
    <2>2. \A k : k \notin DOMAIN W[col]
      BY <2>1, LeavesMember
    <2>3. W[col] = [k \in DOMAIN W[col] |-> W[col][k]]
      BY DEF Leaves
    <2> HIDE DEF W
    <2>4. DOMAIN W[col] = {}
      BY <2>2
    <2> QED  BY <2>3, <2>4 DEF EmptyMap
  <1> HIDE DEF W, L
  <1>4. W = [c \in wide |-> IF c \in cols THEN L[c] ELSE EmptyMap]
    BY <1>1, <1>2, <1>3
  <1> QED  BY <1>4 DEF W, L, Widened

(* A request does to the store what the operation says, if it deletes no prefix. *)
LEMMA RequestStep ==
    ASSUME NEW c, NEW ops \in Seq(DBOp), NEW n \in Nat, n < Len(ops),
           ops[n + 1].col \in DOMAIN c, ops[n + 1].type # "DeletePrefix"
    PROVE  Request(After(c, ops, n), ops[n + 1]) = After(c, ops, n + 1)
  <1> DEFINE op == ops[n + 1]
             A == After(c, ops, n)
             B == After(c, ops, n + 1)
             R == Request(A, op)
  <1>1. /\ A = [col \in DOMAIN c |-> A[col]]
        /\ B = [col \in DOMAIN c |-> B[col]]
    BY DEF After
  <1>2. R = [col \in DOMAIN c |-> R[col]]
    BY <1>1 DEF Request
  <1>3. ASSUME NEW col \in DOMAIN c PROVE R[col] = B[col]
    <2>1. B[col] = Changed(A[col], op, col)
      BY AfterStep
    <2>2. CASE op.col # col
      BY <1>1, <2>1, <2>2 DEF Request, Changed
    <2>3. CASE op.col = col /\ op.type = "Insert"
      BY <1>1, <2>1, <2>3 DEF Request, Changed
    <2>4. CASE op.col = col /\ op.type # "Insert"
      <3>1. R[col] = Without(A[col], {op.key})
        BY <1>1, <2>4 DEF Request
      <3>2. B[col] = Without(A[col], {k \in DOMAIN A[col] : Touches(op, col, k)})
        BY <2>1, <2>4 DEF Changed
      <3>3. \A k : Touches(op, col, k) <=> k = op.key
        BY <2>4 DEF Touches
      <3> HIDE DEF A, B, op, R
      <3>4. DOMAIN A[col] \ {op.key}
              = DOMAIN A[col] \ {k \in DOMAIN A[col] : Touches(op, col, k)}
        BY <3>3
      <3> QED  BY <3>1, <3>2, <3>4 DEF Without
    <2> QED  BY <2>2, <2>3, <2>4
  <1> HIDE DEF A, B, op, R
  <1>4. R = B
    BY <1>1, <1>2, <1>3
  <1> QED  BY <1>4 DEF A, B, op, R
------------------------------------------------------------------------------
(* The transactions the application writes delete no prefix. *)
NoPrefixes == \A ops \in Transactions : \A i \in DOMAIN ops : ops[i].type # "DeletePrefix"

(* The queue is the end of the log, whose operations are on stores that exist. *)
LogInv ==
    /\ log \in Seq(Seq(DBOp))
    /\ queue \in Seq(Seq(DBOp))
    /\ Len(queue) <= Len(log)
    /\ \A i \in 1..Len(queue) : queue[i] = log[Applied + i]
    /\ \A i \in 1..Len(log) : \A j \in 1..Len(log[i]) :
          log[i][j].col \in DOMAIN stores /\ log[i][j].type # "DeletePrefix"

(* The stores are as many as the widest open asked for, and an open that wants more knows. *)
WidthInv ==
    /\ version \in Nat
    /\ widest \in Nat
    /\ grown = version
    /\ phase \in {"closed", "opening", "reopening", "loading", "unanswered", "open"}
    /\ phase # "closed" => columns \in Nat \ {0}
    /\ version = 0 => DOMAIN stores = {} /\ log = <<>> /\ phase \in {"closed", "opening", "unanswered"}
    /\ version > 0 => DOMAIN stores = 0..widest
    /\ phase = "reopening" => columns > widest
    /\ phase \in {"loading", "open"} => columns <= widest

(* The first transaction sees its own requests; the others see whole transactions. *)
RunInv ==
    /\ AreColumns(stores)
    /\ ran \in Nat
    /\ queue = <<>> => ran = 0
    /\ queue # <<>> => ran <= Len(queue[1])
    /\ ran > 0 => staged = After(stores, queue[1], ran)

(* The columns read so far hold all that was written, as nothing was pending. *)
LoadInv ==
    /\ phase \in {"opening", "reopening"} => loaded = 0
    /\ phase \in {"reopening", "loading"} => in_memory = [c \in 0..(columns - 1) |-> in_memory[c]]
    /\ phase = "loading" =>
          /\ loaded \in 0..columns
          /\ loaded > 0 => queue = <<>>
          /\ \A c \in 0..(loaded - 1) : in_memory[c] = Replay(Len(log))[c]

MemoryInv ==
    phase = "open" /\ ~diverged => in_memory = [c \in 0..(columns - 1) |-> Replay(Len(log))[c]]

WebInv == LogInv /\ WidthInv /\ RunInv /\ StoredWhole /\ LoadInv /\ MemoryInv

LEMMA WebInvInitially ==
    Init => WebInv
  <1> SUFFICES ASSUME Init PROVE WebInv
    OBVIOUS
  <1> USE DEF Init
  <1>1. LogInv /\ Applied = 0
    BY DEF LogInv, Applied
  <1>2. WidthInv
    BY DEF WidthInv
  <1>3. RunInv
    BY DEF RunInv, AreColumns
  <1>4. StoredWhole
    <2>1. Replay(0) = Emptied(DOMAIN stores)
      BY LeavesNone DEF Replay
    <2> QED  BY <1>1, <2>1 DEF StoredWhole, Emptied
  <1>5. LoadInv /\ MemoryInv
    BY DEF LoadInv, MemoryInv
  <1> QED  BY <1>1, <1>2, <1>3, <1>4, <1>5 DEF WebInv

(* What the transactions leave is the same as long as they and the stores there are stay. *)
LEMMA SameStores ==
    ASSUME WebInv, UNCHANGED <<log, queue, stores, ran, staged>>
    PROVE  LogInv' /\ RunInv' /\ StoredWhole' /\ \A n : Replay(n)' = Replay(n)
  <1>1. LogInv'
    BY DEF WebInv, LogInv, Applied
  <1>2. RunInv'
    BY DEF WebInv, RunInv
  <1>3. \A n : Replay(n)' = Replay(n)
    BY DEF Replay
  <1>4. StoredWhole'
    BY DEF WebInv, StoredWhole, Applied, Replay
  <1> QED  BY <1>1, <1>2, <1>3, <1>4

(* Steps of open and Drop that touch neither the stores nor the queue. *)
LEMMA QuietSteps ==
    ASSUME WebInv,
           \/ \E n \in ColumnCounts : Open(n)
           \/ CollectGarbage
           \/ RequestFails
           \/ OpenReturns
           \/ Drop
           \/ UNCHANGED vars
    PROVE  WebInv'
  <1>1. UNCHANGED <<log, queue, stores, ran, staged>>
    BY DEF Open, CollectGarbage, RequestFails, OpenReturns, Drop, vars, dbVars, running, history
  <1>2. LogInv' /\ RunInv' /\ StoredWhole' /\ \A n : Replay(n)' = Replay(n)
    BY <1>1, SameStores
  <1>3. WidthInv' /\ LoadInv' /\ MemoryInv'
    <2> USE DEF WebInv
    <2>1. CASE \E n \in ColumnCounts : Open(n)
      <3>1. PICK n \in Nat \ {0} : Open(n)
        BY <2>1, ColumnCountsAssumption
      <3> QED
        BY <3>1 DEF Open, dbVars, WidthInv, LoadInv, MemoryInv
    <2>2. CASE CollectGarbage
      BY <1>2, <2>2 DEF CollectGarbage, dbVars, history, WidthInv, LoadInv, MemoryInv
    <2>3. CASE OpenReturns
      <3>1. WidthInv' /\ LoadInv'
        BY <2>3 DEF OpenReturns, dbVars, history, WidthInv, LoadInv
      <3>2. /\ phase = "loading" /\ loaded = columns /\ columns \in Nat
            /\ UNCHANGED <<in_memory, columns, log>>
        BY <2>3 DEF OpenReturns, history, WidthInv
      <3>3. Replay(Len(log))' = Replay(Len(log))
        BY <1>1, <3>2 DEF Replay
      <3>4. in_memory = [c \in 0..(columns - 1) |-> Replay(Len(log))[c]]
        BY <3>2 DEF LoadInv
      <3> QED
        BY <3>1, <3>2, <3>3, <3>4 DEF MemoryInv
    <2>4. CASE Drop
      BY <2>4 DEF Drop, dbVars, history, WidthInv, LoadInv, MemoryInv
    <2>5. CASE RequestFails
      BY <2>5 DEF RequestFails, dbVars, history, WidthInv, LoadInv, MemoryInv
    <2>6. CASE UNCHANGED vars
      BY <1>2, <2>6 DEF vars, WidthInv, LoadInv, MemoryInv
    <2> QED
      BY <2>1, <2>2, <2>3, <2>4, <2>5, <2>6
  <1> QED
    BY <1>2, <1>3 DEF WebInv

(* Creating the missing stores leaves those there are, and the new ones are empty. *)
LEMMA StoresCreated ==
    ASSUME WebInv, NEW wide, DOMAIN stores \subseteq wide,
           stores' = Widened(stores, DOMAIN stores, wide),
           UNCHANGED <<log, queue, ran, staged>>, queue = <<>>
    PROVE  LogInv' /\ RunInv' /\ StoredWhole'
  <1> USE DEF WebInv
  <1>1. DOMAIN stores' = wide
    BY DEF Widened
  <1>2. LogInv'
    BY <1>1 DEF LogInv, Applied
  <1>3. RunInv'
    <2>1. IsMap(EmptyMap)
      BY DEF IsMap, EmptyMap
    <2>2. AreColumns(stores)
      BY DEF RunInv
    <2>3. AreColumns(stores)'
      BY <2>1, <2>2 DEF AreColumns, Widened
    <2> QED
      BY <2>3 DEF RunInv
  <1>4. StoredWhole'
    <2>1. Applied = Len(log) /\ Len(log) \in Nat /\ Applied' = Applied
      BY DEF Applied, LogInv
    <2>2. \A i \in 1..Applied : \A j \in 1..Len(log[i]) : log[i][j].col \in DOMAIN stores
      BY <2>1 DEF LogInv
    <2>3. Leaves(wide, log, Applied)
            = Widened(Leaves(DOMAIN stores, log, Applied), DOMAIN stores, wide)
      BY <2>1, <2>2, LeavesWider
    <2>4. stores = Leaves(DOMAIN stores, log, Applied)
      BY DEF StoredWhole, Replay
    <2>5. stores' = Leaves(wide, log, Applied)
      BY <2>3, <2>4
    <2> QED
      BY <1>1, <2>1, <2>5 DEF StoredWhole, Replay
  <1> QED
    BY <1>2, <1>3, <1>4

(* The stores there are are counted right, so those created are the ones missing. *)
LEMMA MissingStores ==
    ASSUME WidthInv, NEW n \in Nat
    PROVE  /\ version = 0 => /\ Cardinality(DOMAIN stores) = 0
                             /\ DOMAIN CreateMissingStores(n) = 0..n
           /\ version > 0 => /\ Cardinality(DOMAIN stores) = widest + 1
                             /\ n > widest => DOMAIN CreateMissingStores(n) = 0..n
  <1> USE DEF WidthInv
  <1>1. ASSUME version = 0
        PROVE  Cardinality(DOMAIN stores) = 0 /\ DOMAIN CreateMissingStores(n) = 0..n
    <2>1. DOMAIN stores = {}
      BY <1>1
    <2>2. Cardinality(DOMAIN stores) = 0
      BY <2>1, FS_EmptySet
    <2> QED  BY <2>1, <2>2 DEF CreateMissingStores
  <1>2. ASSUME version > 0
        PROVE  Cardinality(DOMAIN stores) = widest + 1
    <2>1. DOMAIN stores = 0..widest /\ widest \in Nat
      BY <1>2
    <2>2. Cardinality(0..widest) = widest - 0 + 1
      BY <2>1, FS_Interval
    <2> QED  BY <2>1, <2>2
  <1>3. ASSUME version > 0, n > widest
        PROVE  DOMAIN CreateMissingStores(n) = 0..n
    <2>1. DOMAIN CreateMissingStores(n) = (0..widest) \cup ((widest + 1)..n)
      BY <1>2, <1>3 DEF CreateMissingStores
    <2> QED  BY <1>3, <2>1
  <1> QED  BY <1>1, <1>2, <1>3

LEMMA OnOpenedKeeps ==
    ASSUME WebInv, OnOpened
    PROVE  WebInv'
  <1> USE DEF WebInv
  <1>1. /\ phase = "opening" /\ columns \in Nat \ {0} /\ loaded = 0
        /\ UNCHANGED <<columns, loaded, queue, ran, staged, log, diverged>>
        /\ in_memory' = [c \in 0..(columns - 1) |-> EmptyMap]
        /\ version \in Nat /\ widest \in Nat
    BY DEF OnOpened, running, WidthInv, LoadInv
  <1>2. in_memory' = [c \in 0..(columns' - 1) |-> in_memory'[c]]
    BY <1>1
  <1>3. CASE version = 0
    <2>1. /\ version' = 1 /\ stores' = CreateMissingStores(columns)
          /\ widest' = columns /\ grown' = grown + 1 /\ grown = 0
      BY <1>3 DEF OnOpened, NoteWidth, WidthInv
    <2>2. DOMAIN stores = {} /\ Cardinality(DOMAIN stores) = 0 /\ DOMAIN stores' = 0..columns
      BY <1>1, <1>3, <2>1, MissingStores DEF WidthInv
    <2>3. log = <<>> /\ queue = <<>>
      BY <1>3 DEF WidthInv, LogInv
    <2>4. stores' = Widened(stores, DOMAIN stores, 0..columns)
      BY <2>1, <2>2 DEF CreateMissingStores, Widened
    <2>5. LogInv' /\ RunInv' /\ StoredWhole'
      BY <1>1, <2>2, <2>3, <2>4, StoresCreated
    <2>6. phase' = "loading"
      <3>1. Cardinality(0..columns) = columns - 0 + 1
        BY <1>1, FS_Interval
      <3> QED  BY <1>1, <2>2, <3>1 DEF OnOpened
    <2>7. WidthInv'
      BY <1>1, <2>1, <2>2, <2>6 DEF WidthInv
    <2>8. LoadInv' /\ MemoryInv'
      BY <1>1, <1>2, <2>6 DEF LoadInv, MemoryInv
    <2> QED  BY <2>5, <2>7, <2>8
  <1>4. CASE version > 0
    <2>1. version' = version /\ stores' = stores /\ widest' = widest /\ grown' = grown
      BY <1>4 DEF OnOpened, NoteWidth
    <2>2. Cardinality(DOMAIN stores) = widest + 1
      BY <1>1, <1>4, MissingStores
    <2>3. phase' = IF columns > widest THEN "reopening" ELSE "loading"
      BY <1>1, <2>1, <2>2 DEF OnOpened
    <2>4. LogInv' /\ RunInv' /\ StoredWhole'
      BY <1>1, <2>1, SameStores
    <2>5. WidthInv'
      BY <1>1, <1>4, <2>1, <2>3 DEF WidthInv
    <2>6. LoadInv' /\ MemoryInv'
      BY <1>1, <1>2, <2>3 DEF LoadInv, MemoryInv
    <2> QED  BY <2>4, <2>5, <2>6
  <1> QED  BY <1>1, <1>3, <1>4

LEMMA OnUpgradedKeeps ==
    ASSUME WebInv, OnUpgraded
    PROVE  WebInv'
  <1> USE DEF WebInv
  <1>1. /\ phase = "reopening" /\ phase' = "loading" /\ queue = <<>>
        /\ columns \in Nat \ {0} /\ loaded = 0 /\ columns > widest
        /\ UNCHANGED <<columns, in_memory, loaded, queue, ran, staged, log, diverged>>
        /\ version \in Nat /\ version > 0 /\ version' = version + 1
        /\ grown = version /\ widest \in Nat /\ DOMAIN stores = 0..widest
        /\ stores' = CreateMissingStores(columns)
    BY DEF OnUpgraded, running, WidthInv, LoadInv
  <1>2. widest' = columns /\ grown' = grown + 1
    BY <1>1 DEF OnUpgraded, NoteWidth
  <1>3. DOMAIN stores' = 0..columns
    BY <1>1, MissingStores
  <1>4. stores' = Widened(stores, DOMAIN stores, 0..columns)
    BY <1>1, <1>3 DEF CreateMissingStores, Widened
  <1>5. LogInv' /\ RunInv' /\ StoredWhole'
    <2>1. DOMAIN stores \subseteq 0..columns
      BY <1>1
    <2> QED  BY <1>1, <1>4, <2>1, StoresCreated
  <1>6. WidthInv'
    BY <1>1, <1>2, <1>3 DEF WidthInv
  <1>7. in_memory' = [c \in 0..(columns' - 1) |-> in_memory'[c]]
    BY <1>1 DEF LoadInv
  <1>8. LoadInv' /\ MemoryInv'
    BY <1>1, <1>7 DEF LoadInv, MemoryInv
  <1> QED  BY <1>5, <1>6, <1>8

(* A column is read when nothing is pending: it holds all that was written to it. *)
LEMMA LoadColumnKeeps ==
    ASSUME WebInv, LoadColumn
    PROVE  WebInv'
  <1> USE DEF WebInv
  <1>1. /\ phase = "loading" /\ loaded < columns /\ queue = <<>>
        /\ in_memory' = [in_memory EXCEPT ![loaded] = stores[loaded]]
        /\ loaded' = loaded + 1
        /\ UNCHANGED <<phase, columns, version, stores, queue, ran, staged, log, widest, grown, diverged>>
        /\ loaded \in 0..columns /\ columns \in Nat
    BY DEF LoadColumn, dbVars, running, history, WidthInv, LoadInv
  <1>2. LogInv' /\ RunInv' /\ StoredWhole' /\ \A n : Replay(n)' = Replay(n)
    BY <1>1, SameStores
  <1>3. WidthInv'
    BY <1>1 DEF WidthInv
  <1>4. stores = Replay(Len(log))
    BY <1>1 DEF StoredWhole, Applied, LogInv
  <1>5. in_memory = [c \in 0..(columns - 1) |-> in_memory[c]]
    BY <1>1 DEF LoadInv
  <1>6. \A c \in 0..(columns - 1) : in_memory'[c] = IF c = loaded THEN stores[c] ELSE in_memory[c]
    BY <1>1, <1>5
  <1>7. in_memory' = [c \in 0..(columns' - 1) |-> in_memory'[c]]
    BY <1>1, <1>5
  <1>8. Replay(Len(log))' = Replay(Len(log))
    BY <1>1 DEF Replay
  <1>9. ASSUME NEW c \in 0..(loaded' - 1) PROVE in_memory'[c] = Replay(Len(log))'[c]
    <2>1. c \in 0..(columns - 1) /\ (c = loaded \/ c \in 0..(loaded - 1))
      BY <1>1
    <2> QED  BY <1>1, <1>4, <1>6, <1>8, <2>1 DEF LoadInv
  <1>10. LoadInv' /\ MemoryInv'
    BY <1>1, <1>7, <1>9 DEF LoadInv, MemoryInv
  <1> QED  BY <1>2, <1>3, <1>10

(* A transaction joins the queue and the log; memory has it at once. *)
LEMMA WriteKeeps ==
    ASSUME WebInv, NoPrefixes, NEW ops \in Transactions, Write(ops)
    PROVE  WebInv'
  <1> USE DEF WebInv
  <1>1. /\ phase = "open" /\ columns \in Nat \ {0} /\ version > 0 /\ columns <= widest
        /\ queue' = Append(queue, ops) /\ log' = Append(log, ops)
        /\ in_memory' = After(in_memory, ops, Len(ops))
        /\ UNCHANGED <<phase, columns, loaded, version, stores, ran, staged, widest, grown, diverged>>
        /\ widest \in Nat /\ DOMAIN stores = 0..widest
    BY DEF Write, dbVars, running, WidthInv
  <1>2. /\ ops \in Seq(DBOp) /\ log \in Seq(Seq(DBOp)) /\ queue \in Seq(Seq(DBOp))
        /\ Len(queue) <= Len(log)
    BY TransactionsAssumption DEF LogInv
  <1>3. /\ Len(log) \in Nat /\ Len(queue) \in Nat
        /\ log' \in Seq(Seq(DBOp)) /\ queue' \in Seq(Seq(DBOp))
        /\ Len(log') = Len(log) + 1 /\ Len(queue') = Len(queue) + 1
        /\ \A i \in 1..Len(log) : log'[i] = log[i]
        /\ log'[Len(log) + 1] = ops
        /\ \A i \in 1..Len(queue) : queue'[i] = queue[i]
        /\ queue'[Len(queue) + 1] = ops
    BY <1>1, <1>2
  <1>4. Applied' = Applied /\ Applied \in Nat /\ Applied <= Len(log)
    BY <1>2, <1>3 DEF Applied
  <1>5. LogInv'
    <2>1. ASSUME NEW i \in 1..Len(queue') PROVE queue'[i] = log'[Applied' + i]
      <3>1. CASE i \in 1..Len(queue)
        <4>1. queue[i] = log[Applied + i] /\ Applied + i \in 1..Len(log)
          <5>1. queue[i] = log[Applied + i]
            BY <3>1 DEF LogInv
          <5>2. Applied + i \in 1..Len(log)
            BY ONLY <1>2, <1>3, <3>1 DEF Applied
          <5> QED  BY <5>1, <5>2
        <4> QED  BY <1>3, <1>4, <3>1, <4>1
      <3>2. CASE i = Len(queue) + 1
        BY <1>2, <1>3, <1>4, <3>2 DEF Applied
      <3> QED  BY <1>3, <3>1, <3>2
    <2>2. ASSUME NEW i \in 1..Len(log'), NEW j \in 1..Len(log'[i])
          PROVE  log'[i][j].col \in DOMAIN stores' /\ log'[i][j].type # "DeletePrefix"
      <3>1. CASE i \in 1..Len(log)
        BY <1>1, <1>3, <3>1 DEF LogInv
      <3>2. CASE i = Len(log) + 1
        <4>1. log'[i] = ops /\ j \in 1..Len(ops)
          BY <1>3, <3>2
        <4>2. j \in DOMAIN ops /\ ops[j] \in DBOp
          BY <1>2, <4>1
        <4>3. ops[j].col < columns /\ ops[j].col \in Nat /\ ops[j].type # "DeletePrefix"
          BY <4>2 DEF Write, NoPrefixes, DBOp
        <4> QED  BY <1>1, <4>1, <4>3
      <3> QED  BY <1>3, <3>1, <3>2
    <2> QED  BY <1>2, <1>3, <2>1, <2>2 DEF LogInv
  <1>6. WidthInv'
    BY <1>1 DEF WidthInv
  <1>7. RunInv'
    <2>1. queue # <<>> => queue'[1] = queue[1]
      BY <1>2, <1>3
    <2>2. queue' # <<>>
      BY <1>3
    <2>3. Len(queue'[1]) \in Nat
      BY <1>3
    <2> QED  BY <1>1, <1>3, <2>1, <2>2, <2>3 DEF RunInv
  <1>8. StoredWhole'
    <2>1. ASSUME NEW i \in 1..Applied PROVE log'[i] = log[i]
      <3>1. i \in 1..Len(log)
        BY ONLY <1>3, <1>4, i \in 1..Applied
      <3> QED  BY ONLY <1>3, <3>1
    <2>2. Leaves(DOMAIN stores, log', Applied) = Leaves(DOMAIN stores, log, Applied)
      BY ONLY <1>4, <2>1, LeavesSame
    <2> QED  BY <1>1, <1>4, <2>2 DEF StoredWhole, Replay
  <1>9. MemoryInv'
    <2> SUFFICES ASSUME ~diverged
                 PROVE  in_memory' = [c \in 0..(columns - 1) |-> Replay(Len(log))'[c]]
      BY <1>1 DEF MemoryInv
    <2>1. in_memory = [c \in 0..(columns - 1) |-> Replay(Len(log))[c]]
      BY <1>1 DEF MemoryInv
    <2>2. Leaves(DOMAIN stores, log', Len(log)) = Replay(Len(log))
      BY ONLY <1>3, LeavesSame DEF Replay
    <2>3. Leaves(DOMAIN stores, log', Len(log) + 1) = After(Replay(Len(log)), ops, Len(ops))
      <3>1. log'[Len(log) + 1] \in Seq(DBOp)
        BY <1>2, <1>3
      <3>2. Leaves(DOMAIN stores, log', Len(log) + 1)
              = After(Leaves(DOMAIN stores, log', Len(log)),
                      log'[Len(log) + 1], Len(log'[Len(log) + 1]))
        BY ONLY <1>3, <3>1, LeavesStep
      <3> QED  BY ONLY <1>3, <2>2, <3>2
    <2>4. Replay(Len(log))' = After(Replay(Len(log)), ops, Len(ops))
      BY <1>1, <1>3, <2>3 DEF Replay
    <2>5. ASSUME NEW c \in 0..(columns - 1) PROVE in_memory'[c] = Replay(Len(log))'[c]
      <3>1. c \in DOMAIN in_memory /\ in_memory[c] = Replay(Len(log))[c]
        BY <2>1
      <3>2. c \in DOMAIN Replay(Len(log))
        BY <1>1 DEF Replay, Leaves
      <3> QED  BY <1>1, <2>4, <3>1, <3>2, AfterLocal
    <2>6. DOMAIN in_memory' = 0..(columns - 1) /\ in_memory' = [c \in DOMAIN in_memory' |-> in_memory'[c]]
      BY <1>1, <2>1 DEF After
    <2> QED  BY <2>5, <2>6
  <1>10. LoadInv'
    BY <1>1 DEF LoadInv
  <1> QED  BY <1>5, <1>6, <1>7, <1>8, <1>9, <1>10

(* The first of the queue is the first of the log that has not completed. *)
LEMMA FirstOfQueue ==
    ASSUME WebInv, queue # <<>>
    PROVE  /\ Head(queue) = queue[1] /\ queue[1] = log[Applied + 1] /\ queue[1] \in Seq(DBOp)
           /\ Applied \in Nat /\ Applied + 1 \in 1..Len(log) /\ Len(log) \in Nat
           /\ \A j \in 1..Len(queue[1]) :
                 queue[1][j].col \in DOMAIN stores /\ queue[1][j].type # "DeletePrefix"
           /\ Tail(queue) \in Seq(Seq(DBOp)) /\ Len(Tail(queue)) = Len(queue) - 1
           /\ \A i \in 1..(Len(queue) - 1) : Tail(queue)[i] = queue[i + 1]
  <1>1. log \in Seq(Seq(DBOp)) /\ queue \in Seq(Seq(DBOp)) /\ Len(queue) <= Len(log)
    BY DEF WebInv, LogInv
  <1>2. Len(queue) \in Nat /\ Len(queue) > 0 /\ Len(log) \in Nat
    BY <1>1
  <1>3. Applied \in Nat /\ Applied + 1 \in 1..Len(log)
    BY <1>1, <1>2 DEF Applied
  <1>4. Head(queue) = queue[1] /\ queue[1] = log[Applied + 1] /\ queue[1] \in Seq(DBOp)
    BY <1>1, <1>2 DEF WebInv, LogInv
  <1>5. \A j \in 1..Len(queue[1]) :
           queue[1][j].col \in DOMAIN stores /\ queue[1][j].type # "DeletePrefix"
    BY <1>3, <1>4 DEF WebInv, LogInv
  <1>6. /\ Tail(queue) \in Seq(Seq(DBOp)) /\ Len(Tail(queue)) = Len(queue) - 1
        /\ \A i \in 1..(Len(queue) - 1) : Tail(queue)[i] = queue[i + 1]
    BY <1>1, <1>2
  <1> QED  BY <1>2, <1>3, <1>4, <1>5, <1>6

LEMMA RunRequestKeeps ==
    ASSUME WebInv, RunRequest
    PROVE  WebInv'
  <1> USE DEF WebInv
  <1> DEFINE first == queue[1]
  <1>1. /\ queue # <<>> /\ ran < Len(first) /\ ran' = ran + 1 /\ ran \in Nat
        /\ staged' = Request(IF ran = 0 THEN stores ELSE staged, first[ran + 1])
        /\ UNCHANGED <<phase, columns, in_memory, loaded, version, stores, queue,
                       log, widest, grown, diverged>>
        /\ AreColumns(stores)
    BY FirstOfQueue DEF RunRequest, dbVars, history, RunInv
  <1>2. first \in Seq(DBOp) /\ Len(first) \in Nat
        /\ first[ran + 1].col \in DOMAIN stores /\ first[ran + 1].type # "DeletePrefix"
    BY <1>1, FirstOfQueue
  <1>3. (IF ran = 0 THEN stores ELSE staged) = After(stores, first, ran)
    BY <1>1, AfterNone DEF RunInv
  <1>4. staged' = After(stores, first, ran + 1)
    <2> HIDE DEF first
    <2> QED  BY <1>1, <1>2, <1>3, RequestStep
  <1>5. LogInv' /\ WidthInv'
    BY <1>1 DEF LogInv, WidthInv, Applied
  <1>6. RunInv'
    BY <1>1, <1>2, <1>4 DEF RunInv
  <1>7. StoredWhole' /\ LoadInv' /\ MemoryInv'
    BY <1>1 DEF StoredWhole, LoadInv, MemoryInv, Replay, Applied
  <1> QED  BY <1>5, <1>6, <1>7

(* The queue moves on by one. *)
LEMMA LeaveKeeps ==
    ASSUME WebInv, Leave, UNCHANGED log
    PROVE  /\ Applied' = Applied + 1
           /\ queue' \in Seq(Seq(DBOp)) /\ Len(queue') <= Len(log')
           /\ \A i \in 1..Len(queue') : queue'[i] = log'[Applied' + i]
  <1>1. queue # <<>> /\ queue' = Tail(queue)
    BY DEF Leave
  <1>2. log \in Seq(Seq(DBOp)) /\ queue \in Seq(Seq(DBOp)) /\ Len(queue) <= Len(log)
        /\ \A i \in 1..Len(queue) : queue[i] = log[Applied + i]
    BY DEF WebInv, LogInv
  <1>3. /\ queue' \in Seq(Seq(DBOp)) /\ Len(queue') = Len(queue) - 1
        /\ \A i \in 1..(Len(queue) - 1) : queue'[i] = queue[i + 1]
        /\ Len(queue) \in Nat /\ Len(log) \in Nat /\ Applied \in Nat
    BY <1>1, <1>2, FirstOfQueue
  <1>4. Applied' = Applied + 1
    BY <1>3 DEF Applied
  <1>5. ASSUME NEW i \in 1..Len(queue') PROVE queue'[i] = log'[Applied' + i]
    <2>1. i + 1 \in 1..Len(queue) /\ queue'[i] = queue[i + 1] /\ Applied + (i + 1) = Applied' + i
      BY <1>3, <1>4
    <2> QED  BY <1>2, <2>1
  <1> QED  BY <1>2, <1>3, <1>4, <1>5

LEMMA RunTransactionKeeps ==
    ASSUME WebInv, RunTransaction
    PROVE  WebInv'
  <1> USE DEF WebInv
  <1> DEFINE first == queue[1]
  <1>1. /\ queue # <<>> /\ ran = Len(first) /\ ran' = 0 /\ ran \in Nat
        /\ stores' = IF ran = 0 THEN stores ELSE staged
        /\ UNCHANGED <<phase, columns, in_memory, loaded, version, log, widest, grown, diverged>>
        /\ AreColumns(stores)
    BY FirstOfQueue DEF RunTransaction, Leave, history, RunInv
  <1>2. first = log[Applied + 1] /\ first \in Seq(DBOp) /\ Applied \in Nat
    BY <1>1, FirstOfQueue
  <1>3. stores' = After(stores, first, Len(first))
    BY <1>1, AfterNone DEF RunInv
  <1>4. AreColumns(stores)' /\ DOMAIN stores' = DOMAIN stores
    <2> HIDE DEF first
    <2>1. Len(first) \in 0..Len(first)
      BY <1>1
    <2>2. /\ AreColumns(After(stores, first, Len(first)))
          /\ DOMAIN After(stores, first, Len(first)) = DOMAIN stores
      BY <1>1, <1>2, <2>1, AfterAreColumns
    <2> QED  BY <1>3, <2>2 DEF AreColumns
  <1>5. /\ Applied' = Applied + 1
        /\ queue' \in Seq(Seq(DBOp)) /\ Len(queue') <= Len(log')
        /\ \A i \in 1..Len(queue') : queue'[i] = log'[Applied' + i]
    BY <1>1, LeaveKeeps DEF RunTransaction
  <1>6. LogInv'
    BY <1>1, <1>4, <1>5 DEF LogInv
  <1>7. WidthInv'
    BY <1>1, <1>4 DEF WidthInv
  <1>8. RunInv'
    <2>1. queue' # <<>> => Len(queue'[1]) \in Nat
      BY <1>5
    <2> QED  BY <1>1, <1>4, <2>1 DEF RunInv
  <1>9. StoredWhole'
    <2>1. Leaves(DOMAIN stores, log, Applied + 1)
            = After(Leaves(DOMAIN stores, log, Applied), log[Applied + 1], Len(log[Applied + 1]))
      BY <1>2, LeavesStep
    <2>2. stores = Leaves(DOMAIN stores, log, Applied)
      BY DEF StoredWhole, Replay
    <2>3. stores' = Leaves(DOMAIN stores, log, Applied + 1)
      BY ONLY <1>2, <1>3, <2>1, <2>2
    <2> QED  BY <1>1, <1>4, <1>5, <2>3 DEF StoredWhole, Replay
  <1>10. LoadInv' /\ MemoryInv'
    BY <1>1, <1>4 DEF LoadInv, MemoryInv, Replay
  <1> QED  BY <1>6, <1>7, <1>8, <1>9, <1>10

(* A sequence without its element n + 1. *)
LeftOut(s, n) == SubSeq(s, 1, n) \o SubSeq(s, n + 2, Len(s))

LEMMA OneLeftOut ==
    ASSUME NEW S, NEW s \in Seq(S), NEW n \in Nat, n + 1 \in 1..Len(s)
    PROVE  /\ LeftOut(s, n) \in Seq(S) /\ Len(LeftOut(s, n)) = Len(s) - 1
           /\ \A i \in 1..n : LeftOut(s, n)[i] = s[i]
           /\ \A i \in (n + 1)..(Len(s) - 1) : LeftOut(s, n)[i] = s[i + 1]
  <1> DEFINE t == LeftOut(s, n)
             before == SubSeq(s, 1, n)
             after == SubSeq(s, n + 2, Len(s))
  <1>1. Len(s) \in Nat /\ n < Len(s) /\ \A i \in 1..Len(s) : s[i] \in S
    OBVIOUS
  <1>2. /\ before \in Seq(S) /\ Len(before) = n
        /\ \A i \in 1..n : before[i] = s[i]
    BY <1>1
  <1>3. /\ after \in Seq(S) /\ Len(after) = Len(s) - (n + 1)
        /\ \A i \in 1..(Len(s) - (n + 1)) : after[i] = s[(n + 2) + i - 1]
    <2>1. n + 2 \in Int /\ Len(s) \in Int /\ \A i \in (n + 2)..Len(s) : s[i] \in S
      BY <1>1
    <2>2. /\ after \in Seq(S)
          /\ Len(after) = IF n + 2 <= Len(s) THEN Len(s) - (n + 2) + 1 ELSE 0
          /\ \A i \in 1..(Len(s) - (n + 2) + 1) : after[i] = s[(n + 2) + i - 1]
      BY <2>1, SubSeqProperties
    <2>3. Len(s) - (n + 2) + 1 = Len(s) - (n + 1)
          /\ (~(n + 2 <= Len(s)) => Len(s) - (n + 1) = 0)
      BY <1>1
    <2> HIDE DEF after
    <2> QED  BY <2>2, <2>3
  <1> HIDE DEF before, after, t
  <1>4. /\ t \in Seq(S) /\ Len(t) = n + (Len(s) - (n + 1))
        /\ \A i \in 1..(n + (Len(s) - (n + 1))) :
              t[i] = IF i <= n THEN before[i] ELSE after[i - n]
    <2>1. t = before \o after
      BY DEF before, after, t, LeftOut
    <2>2. /\ before \o after \in Seq(S)
          /\ Len(before \o after) = Len(before) + Len(after)
          /\ \A i \in 1..(Len(before) + Len(after)) :
                (before \o after)[i] = IF i <= Len(before) THEN before[i] ELSE after[i - Len(before)]
      BY ONLY <1>2, <1>3, ConcatProperties
    <2> QED  BY ONLY <1>2, <1>3, <2>1, <2>2
  <1>5. n + (Len(s) - (n + 1)) = Len(s) - 1
    BY <1>1
  <1>6. ASSUME NEW i \in 1..n PROVE t[i] = s[i]
    <2>1. i \in 1..(Len(s) - 1) /\ i <= n
      BY ONLY <1>1, n \in Nat, i \in 1..n
    <2> QED  BY ONLY <1>2, <1>4, <1>5, <2>1, i \in 1..n
  <1>7. ASSUME NEW i \in (n + 1)..(Len(s) - 1) PROVE t[i] = s[i + 1]
    <2>1. i \in 1..(Len(s) - 1) /\ ~(i <= n)
          /\ i - n \in 1..(Len(s) - (n + 1)) /\ (n + 2) + (i - n) - 1 = i + 1
      BY <1>1
    <2> QED  BY ONLY <1>3, <1>4, <1>5, <2>1
  <1> QED  BY <1>4, <1>5, <1>6, <1>7 DEF t

(* Nothing is stored of an aborted transaction; the others keep their order. *)
LEMMA AbortTransactionKeeps ==
    ASSUME WebInv, AbortTransaction
    PROVE  WebInv'
  <1> USE DEF WebInv
  <1>1. /\ queue # <<>> /\ queue' = Tail(queue) /\ ran' = 0
        /\ log' = SubSeq(log, 1, Applied) \o SubSeq(log, Applied + 2, Len(log))
        /\ diverged' = (phase = "open" \/ diverged)
        /\ UNCHANGED <<phase, columns, in_memory, loaded, version, stores, widest, grown>>
    BY DEF AbortTransaction, Leave, dbVars
  <1>2. /\ log \in Seq(Seq(DBOp)) /\ Len(log) \in Nat /\ Len(queue) \in Nat
        /\ Applied \in Nat /\ Applied + 1 \in 1..Len(log) /\ Applied = Len(log) - Len(queue)
        /\ queue' \in Seq(Seq(DBOp)) /\ Len(queue') = Len(queue) - 1
        /\ \A i \in 1..(Len(queue) - 1) : queue'[i] = queue[i + 1]
    BY <1>1, FirstOfQueue DEF LogInv, Applied
  <1>5. /\ log' \in Seq(Seq(DBOp)) /\ Len(log') = Len(log) - 1
        /\ \A i \in 1..Applied : log'[i] = log[i]
        /\ \A i \in (Applied + 1)..(Len(log) - 1) : log'[i] = log[i + 1]
    <2> DEFINE t == LeftOut(log, Applied)
    <2>1. /\ t \in Seq(Seq(DBOp)) /\ Len(t) = Len(log) - 1
          /\ \A i \in 1..Applied : t[i] = log[i]
          /\ \A i \in (Applied + 1)..(Len(log) - 1) : t[i] = log[i + 1]
      BY ONLY <1>2, OneLeftOut
    <2>2. log' = t
      BY <1>1 DEF LeftOut
    <2> HIDE DEF t
    <2> QED  BY ONLY <2>1, <2>2
  <1>6. Applied' = Applied
    BY ONLY <1>2, <1>5 DEF Applied
  <1>7. LogInv'
    <2>1. ASSUME NEW i \in 1..Len(queue') PROVE queue'[i] = log'[Applied' + i]
      <3>1. /\ i + 1 \in 1..Len(queue) /\ queue'[i] = queue[i + 1]
            /\ Applied + i \in (Applied + 1)..(Len(log) - 1)
            /\ Applied + (i + 1) = (Applied + i) + 1
        BY ONLY <1>2, i \in 1..Len(queue')
      <3>2. queue[i + 1] = log[Applied + (i + 1)]
        BY <3>1 DEF LogInv
      <3> QED  BY <1>5, <1>6, <3>1, <3>2
    <2>2. ASSUME NEW i \in 1..Len(log')
          PROVE  \E h \in 1..Len(log) : log'[i] = log[h]
      <3>1. i \in 1..Applied \/ i \in (Applied + 1)..(Len(log) - 1)
        BY ONLY <1>2, <1>5, i \in 1..Len(log')
      <3>2. \A h \in 1..Applied : h \in 1..Len(log)
        BY ONLY <1>2
      <3>3. \A h \in (Applied + 1)..(Len(log) - 1) : h + 1 \in 1..Len(log)
        <4>1. Applied \in Nat /\ Len(log) \in Nat
          BY <1>2
        <4> QED  BY ONLY <4>1
      <3> QED  BY ONLY <1>5, <3>1, <3>2, <3>3
    <2>3. ASSUME NEW i \in 1..Len(log'), NEW j \in 1..Len(log'[i])
          PROVE  log'[i][j].col \in DOMAIN stores' /\ log'[i][j].type # "DeletePrefix"
      <3>1. PICK h \in 1..Len(log) : log'[i] = log[h]
        BY <2>2
      <3>2. j \in 1..Len(log[h])
        BY <3>1
      <3> QED  BY <1>1, <3>1, <3>2 DEF LogInv
    <2>4. Len(queue') <= Len(log')
      BY ONLY <1>2, <1>5
    <2> QED  BY <1>2, <1>5, <2>1, <2>3, <2>4 DEF LogInv
  <1>8. log' = <<>> \/ version > 0
    BY <1>1, <1>2 DEF WidthInv
  <1>9. WidthInv'
    BY <1>1, <1>8 DEF WidthInv
  <1>10. RunInv'
    <2>1. queue' # <<>> => Len(queue'[1]) \in Nat
      BY <1>2
    <2> QED  BY <1>1, <2>1 DEF RunInv
  <1>11. StoredWhole'
    <2>1. Leaves(DOMAIN stores, log', Applied) = Leaves(DOMAIN stores, log, Applied)
      BY ONLY <1>2, <1>5, LeavesSame
    <2> QED  BY <1>1, <1>6, <2>1 DEF StoredWhole, Replay
  <1>12. MemoryInv'
    BY <1>1 DEF MemoryInv
  <1>13. LoadInv'
    BY <1>1 DEF LoadInv
  <1> QED  BY <1>7, <1>9, <1>10, <1>11, <1>12, <1>13

(* When the page goes away, what has completed is all there is. *)
LEMMA CrashKeeps ==
    ASSUME WebInv, Crash
    PROVE  WebInv'
  <1> USE DEF WebInv
  <1>1. /\ phase' = "closed" /\ queue' = <<>> /\ ran' = 0
        /\ log' = SubSeq(log, 1, Applied)
        /\ UNCHANGED <<columns, loaded, version, stores, widest, grown, diverged>>
    BY DEF Crash, dbVars
  <1>2. /\ log \in Seq(Seq(DBOp)) /\ Len(log) \in Nat /\ Len(queue) \in Nat
        /\ Applied \in Nat /\ Applied <= Len(log)
    BY DEF LogInv, Applied
  <1>3. /\ log' \in Seq(Seq(DBOp)) /\ Len(log') = Applied
        /\ \A i \in 1..Applied : log'[i] = log[i]
    BY <1>1, <1>2
  <1>4. Applied' = Applied
    BY <1>1, <1>2, <1>3 DEF Applied
  <1>5. LogInv'
    <2>1. ASSUME NEW i \in 1..Len(log'), NEW j \in 1..Len(log'[i])
          PROVE  log'[i][j].col \in DOMAIN stores' /\ log'[i][j].type # "DeletePrefix"
      <3>1. i \in 1..Len(log) /\ log'[i] = log[i] /\ j \in 1..Len(log[i])
        BY ONLY <1>2, <1>3, i \in 1..Len(log'), j \in 1..Len(log'[i])
      <3> QED  BY <1>1, <3>1 DEF LogInv
    <2>2. queue' \in Seq(Seq(DBOp)) /\ Len(queue') = 0
      BY <1>1
    <2> QED  BY <1>2, <1>3, <2>1, <2>2 DEF LogInv
  <1>6. log' = <<>> \/ version > 0
    BY <1>1, <1>2 DEF WidthInv
  <1>7. WidthInv' /\ RunInv' /\ LoadInv' /\ MemoryInv'
    BY <1>1, <1>6 DEF WidthInv, RunInv, LoadInv, MemoryInv
  <1>8. StoredWhole'
    <2>1. Leaves(DOMAIN stores, log', Applied) = Leaves(DOMAIN stores, log, Applied)
      BY ONLY <1>2, <1>3, LeavesSame
    <2> QED  BY <1>1, <1>4, <2>1 DEF StoredWhole, Replay
  <1> QED  BY <1>5, <1>7, <1>8

LEMMA WebInvHolds ==
    ASSUME NoPrefixes
    PROVE  Spec => []WebInv
  <1>1. WebInv /\ [Next]_vars => WebInv'
    <2> SUFFICES ASSUME WebInv, [Next]_vars PROVE WebInv'
      OBVIOUS
    <2>1. ASSUME NEW ops \in Transactions, Write(ops) PROVE WebInv'
      BY <2>1, WriteKeeps
    <2> QED
      BY <2>1, QuietSteps, OnOpenedKeeps, OnUpgradedKeeps, LoadColumnKeeps, RunRequestKeeps,
         RunTransactionKeeps, AbortTransactionKeeps, CrashKeeps DEF Next
  <1> QED  BY <1>1, WebInvInitially, PTL DEF Spec

(***************************************************************************)
(* As long as no prefix is deleted, IndexedDB holds what the transactions  *)
(* that completed leave, each of them whole and in their order, for any    *)
(* number of opens, columns and transactions: an abort (on_error only      *)
(* logs), a crash or an upgrade (try_create_missing_stores) loses what had *)
(* not completed and nothing else.                                         *)
(***************************************************************************)
THEOREM IndexedDBStaysWhole ==
    ASSUME NoPrefixes
    PROVE  Spec => []StoredWhole
  <1>1. WebInv => StoredWhole
    BY DEF WebInv
  <1> QED  BY <1>1, WebInvHolds, PTL

(***************************************************************************)
(* As long as no prefix is deleted, what Database::open returns has every  *)
(* transaction written before it and not lost, whatever was pending when   *)
(* it was called; its stores exist, as idb_cursor and                      *)
(* idb_commit_transaction expect; and its version counts the opens that    *)
(* needed more columns.                                                    *)
(***************************************************************************)
THEOREM OpenDatabaseComplete ==
    ASSUME NoPrefixes
    PROVE  Spec => []OpenComplete
  <1>1. WebInv => OpenComplete
    <2> SUFFICES ASSUME WebInv PROVE OpenComplete
      OBVIOUS
    <2>1. phase \in {"loading", "open"} => 0..(columns - 1) \subseteq DOMAIN stores
      BY DEF WebInv, WidthInv
    <2>2. grown = version
      BY DEF WebInv, WidthInv
    <2> QED  BY <2>1, <2>2 DEF WebInv, MemoryInv, OpenComplete
  <1> QED  BY <1>1, WebInvHolds, PTL
==============================================================================
