---------------------------- MODULE DbTransactions ----------------------------
(***************************************************************************)
(* What a DBTransaction does to the columns of a database and what a read  *)
(* finds in them, as kvdb documents it.  The effect is stated without      *)
(* executing the transaction: the last operation that touches a key        *)
(* decides it.                                                             *)
(***************************************************************************)
EXTENDS DbKeys

Touches(op, col, key) ==
    /\ op.col = col
    /\ IF op.type = "DeletePrefix" THEN StartsWith(key, op.key) ELSE op.key = key

(* The last of the first n operations that touches the key, if there is one. *)
LastTouch(ops, n, col, key) ==
    {i \in 1..n : /\ Touches(ops[i], col, key)
                  /\ \A j \in (i + 1)..n : ~Touches(ops[j], col, key)}

(* The keys of a column after the first n operations, and what they hold. *)
KeysAfter(m, ops, n, col) ==
    {k \in DOMAIN m : LastTouch(ops, n, col, k) = {}}
        \cup {ops[i].key : i \in {i \in 1..n : /\ ops[i].type = "Insert"
                                               /\ i \in LastTouch(ops, n, col, ops[i].key)}}

TheOnly(S) == CHOOSE i \in S : TRUE

ValueAfter(m, ops, n, col, key) ==
    IF LastTouch(ops, n, col, key) = {}
    THEN m[key]
    ELSE ops[TheOnly(LastTouch(ops, n, col, key))].value

After(c, ops, n) ==
    [col \in DOMAIN c |->
        [k \in KeysAfter(c[col], ops, n, col) |-> ValueAfter(c[col], ops, n, col, k)]]
------------------------------------------------------------------------------
(* The keys that start with the prefix, and the first of them. *)
WithPrefix(m, prefix) == {k \in DOMAIN m : StartsWith(k, prefix)}

FirstOf(keys) == {k \in keys : \A other \in keys : ~LexLess(other, k)}

Pairs(m, keys) == {<<k, m[k]>> : k \in keys}

(* A column that does not exist is an error to get and is empty to the others. *)
Result(c, q) ==
    IF q.col \notin DOMAIN c
    THEN [ok |-> q.call # "get", found |-> {}]
    ELSE LET m == c[q.col]
         IN  [ok |-> TRUE,
              found |-> CASE q.call = "get" -> Pairs(m, {q.key} \cap DOMAIN m)
                          [] q.call = "get_by_prefix" -> Pairs(m, FirstOf(WithPrefix(m, q.key)))
                          [] q.call = "iter" -> Pairs(m, DOMAIN m)
                          [] q.call = "iter_with_prefix" -> Pairs(m, WithPrefix(m, q.key))]
==============================================================================
