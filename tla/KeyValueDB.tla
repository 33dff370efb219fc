------------------------------ MODULE KeyValueDB ------------------------------
(***************************************************************************)
(* What the KeyValueDB trait promises: a transaction takes effect at once, *)
(* as if its operations were applied in order, and every read answers from *)
(* what has been committed.                                                *)
(***************************************************************************)
EXTENDS DbTransactions

CONSTANTS
    Columns,            \* the columns the database was created with
    Transactions,       \* the transactions clients write
    Queries             \* the reads clients make: [call, col, key]

VARIABLES
    content,            \* column -> key -> value
    answer              \* the call that returned last, and its result

vars == <<content, answer>>
------------------------------------------------------------------------------
Init ==
    /\ content = [c \in Columns |-> EmptyMap]
    /\ answer = [call |-> "none"]

Write(ops) ==
    /\ content' = After(content, ops, Len(ops))
    /\ answer' = [call |-> "write", ops |-> ops]

Read(q) ==
    /\ answer' = [call |-> q.call, query |-> q, result |-> Result(content, q)]
    /\ UNCHANGED content

Next ==
    \/ \E ops \in Transactions : Write(ops)
    \/ \E q \in Queries : Read(q)

Spec == Init /\ [][Next]_vars
==============================================================================
