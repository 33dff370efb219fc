------------------------------ MODULE KvdbMemory ------------------------------
(***************************************************************************)
(* kvdb-memorydb: the columns are B-tree maps behind one RwLock.  write    *)
(* changes them in place, operation by operation, while it holds the lock  *)
(* exclusively; every read takes the lock shared for as long as it needs   *)
(* the maps (iter and iter_with_prefix clone the map they iterate over).   *)
(***************************************************************************)
EXTENDS DbKeys

CONSTANTS
    num_cols,           \* argument of create
    Threads,
    Transactions,       \* the transactions clients write: sequences of DBOp
    Queries             \* the reads clients make: [call, col, key]

ASSUME NumColsAssumption == num_cols \in Nat
ASSUME TransactionsAssumption == Transactions \subseteq Seq(DBOp)
ASSUME QueriesAssumption ==
    \A q \in Queries : q.call \in {"get", "get_by_prefix", "iter", "iter_with_prefix"}

VARIABLES
    columns,            \* InMemory.columns
    writer,             \* {the thread that holds the write lock}, or {}
    txn,                \* the transaction it is writing
    done,               \* how many operations of it are applied
    before,             \* the columns when it took the lock (for the refinement)
    answer              \* the call that returned last, and its result

vars == <<columns, writer, txn, done, before, answer>>

Columns == 0..(num_cols - 1)

Init ==
    /\ columns = [c \in Columns |-> EmptyMap]
    /\ writer = {}
    /\ txn = <<>>
    /\ done = 0
    /\ before = columns
    /\ answer = [call |-> "none"]
------------------------------------------------------------------------------
(* One round of write's loop.  An operation on a column that does not exist is dropped. *)
ApplyOp(c, op) ==
    IF op.col \notin DOMAIN c
    THEN c
    ELSE [c EXCEPT ![op.col] =
            IF op.type = "Insert" THEN WithKey(@, op.key, op.value)
            ELSE IF op.type = "Delete" THEN Without(@, {op.key})
            ELSE IF op.key = <<>> THEN EmptyMap
            ELSE Without(@, {k \in DOMAIN @ : InRange(k, op.key, EndPrefix(op.key))})]

StartWrite(t, ops) ==
    /\ writer = {}
    /\ writer' = {t}
    /\ txn' = ops
    /\ done' = 0
    /\ before' = columns
    /\ UNCHANGED <<columns, answer>>

WriteOp(t) ==
    /\ t \in writer
    /\ done < Len(txn)
    /\ columns' = ApplyOp(columns, txn[done + 1])
    /\ done' = done + 1
    /\ UNCHANGED <<writer, txn, before, answer>>

EndWrite(t) ==
    /\ t \in writer
    /\ done = Len(txn)
    /\ writer' = {}
    /\ txn' = <<>>
    /\ done' = 0
    /\ before' = columns
    /\ answer' = [call |-> "write", ops |-> txn]
    /\ UNCHANGED columns
------------------------------------------------------------------------------
Pair(m, keys) == {<<k, m[k]>> : k \in keys}

(* get *)
Get(col, key) ==
    IF col \notin DOMAIN columns
    THEN [ok |-> FALSE, found |-> {}]
    ELSE [ok |-> TRUE, found |-> Pair(columns[col], {key} \cap DOMAIN columns[col])]

(* get_by_prefix: the first key, in the map's order, that starts with the prefix. *)
GetByPrefix(col, prefix) ==
    [ok |-> TRUE,
     found |-> IF col \notin DOMAIN columns
               THEN {}
               ELSE LET matching == {k \in DOMAIN columns[col] : StartsWith(k, prefix)}
                    IN  Pair(columns[col],
                             {k \in matching : \A other \in matching : ~LexLess(other, k)})]

(* iter: the whole column *)
Iter(col) ==
    [ok |-> TRUE,
     found |-> IF col \notin DOMAIN columns
               THEN {}
               ELSE Pair(columns[col], DOMAIN columns[col])]

IterWithPrefix(col, prefix) ==
    [ok |-> TRUE,
     found |-> IF col \notin DOMAIN columns
               THEN {}
               ELSE Pair(columns[col], {k \in DOMAIN columns[col] : StartsWith(k, prefix)})]

Answer(q) ==
    CASE q.call = "get" -> Get(q.col, q.key)
      [] q.call = "get_by_prefix" -> GetByPrefix(q.col, q.key)
      [] q.call = "iter" -> Iter(q.col)
      [] q.call = "iter_with_prefix" -> IterWithPrefix(q.col, q.key)

(* Faulty variant of Read: the lock is not taken. *)
ReadUnlocked(q) ==
    /\ answer' = [call |-> q.call, query |-> q, result |-> Answer(q)]
    /\ UNCHANGED <<columns, writer, txn, done, before>>

Read(q) ==
    /\ writer = {}
    /\ answer' = [call |-> q.call, query |-> q, result |-> Answer(q)]
    /\ UNCHANGED <<columns, writer, txn, done, before>>

Next ==
    \/ \E t \in Threads :
          \/ \E ops \in Transactions : StartWrite(t, ops)
          \/ WriteOp(t)
          \/ EndWrite(t)
    \/ \E q \in Queries : Read(q)

(* A thread that is in write returns from it. *)
Spec == Init /\ [][Next]_vars
------------------------------------------------------------------------------
TypeOK ==
    /\ DOMAIN columns = Columns
    /\ columns = [c \in Columns |-> columns[c]]
    /\ \A c \in Columns : IsMap(columns[c])
    /\ writer = {} \/ \E t \in Threads : writer = {t}
    /\ txn \in IF writer = {} THEN {<<>>} ELSE Transactions
    /\ done \in 0..Len(txn)

(* Nobody sees the columns while write is half way through them. *)
Visible == IF writer = {} THEN columns ELSE before

Trait == INSTANCE KeyValueDB WITH content <- Visible

(***************************************************************************)
(* The database keeps the trait's promise: a transaction, although write   *)
(* applies it one operation at a time and turns a prefix into a range of   *)
(* keys, becomes visible at once and leaves what the last operation on     *)
(* each key says; reads never see it half done.                            *)
(***************************************************************************)
ImplementsKeyValueDB == Trait!Spec

(***************************************************************************)
(* Half way through a transaction the columns are those the operations so  *)
(* far leave: nothing an earlier operation did is lost and nothing a later *)
(* one does is anticipated.                                                *)
(***************************************************************************)
PartWayExact ==
    columns = Trait!After(before, txn, done)
==============================================================================
