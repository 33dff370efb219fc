-------------------------------- MODULE DbKeys --------------------------------
(***************************************************************************)
(* The kvdb crate: byte-string keys in lexicographic order, prefixes, and  *)
(* the operations of a DBTransaction.                                      *)
(***************************************************************************)
EXTENDS Integers, Sequences

CONSTANTS
    MaxByte,            \* 0xff
    DBValue             \* database values

ASSUME MaxByteAssumption == MaxByte \in Nat
ASSUME DBValueAssumption == <<>> \in DBValue

Byte == 0..MaxByte

DBKey == Seq(Byte)

StartsWith(key, prefix) ==
    /\ Len(prefix) <= Len(key)
    /\ \A i \in 1..Len(prefix) : key[i] = prefix[i]

(* a comes before b: they differ first at i, or a ends there. *)
LexLess(a, b) ==
    \E i \in 1..Len(b) :
        /\ i <= Len(a) + 1
        /\ \A j \in 1..(i - 1) : a[j] = b[j]
        /\ i <= Len(a) => a[i] < b[i]

(* Faulty variant of EndPrefix: the last byte is incremented, 0xff or not. *)
EndPrefixNoCarry(prefix) ==
    IF prefix = <<>>
    THEN {}
    ELSE {[prefix EXCEPT ![Len(prefix)] = (@ + 1) % (MaxByte + 1)]}

(***************************************************************************)
(* The key that bounds a prefix from above: trailing 0xff bytes are popped *)
(* and the byte that is then last is incremented.  None ({}) if the prefix *)
(* has nothing but 0xff bytes.                                             *)
(***************************************************************************)
EndPrefix(prefix) ==
    {[j \in 1..i |-> IF j = i THEN prefix[i] + 1 ELSE prefix[j]] :
        i \in {i \in 1..Len(prefix) :
                  /\ prefix[i] # MaxByte
                  /\ \A j \in (i + 1)..Len(prefix) : prefix[j] = MaxByte}}

(* Keys from start (included) to the end, if there is one (excluded). *)
InRange(key, start, end) ==
    /\ ~LexLess(key, start)
    /\ \A e \in end : LexLess(key, e)
------------------------------------------------------------------------------
(* DBOp: key() is the prefix of a DeletePrefix; only an Insert's value means anything. *)
DBOp == [type: {"Insert", "Delete", "DeletePrefix"}, col: Nat, key: DBKey, value: DBValue]

Insert(col, key, value) == [type |-> "Insert", col |-> col, key |-> key, value |-> value]

Delete(col, key) == [type |-> "Delete", col |-> col, key |-> key, value |-> <<>>]

DeletePrefix(col, prefix) ==
    [type |-> "DeletePrefix", col |-> col, key |-> prefix, value |-> <<>>]
------------------------------------------------------------------------------
(* A column: a finite map from keys to values. *)
IsMap(m) ==
    /\ m = [k \in DOMAIN m |-> m[k]]
    /\ DOMAIN m \subseteq DBKey
    /\ \A k \in DOMAIN m : m[k] \in DBValue

EmptyMap == [k \in {} |-> <<>>]

WithKey(m, key, value) == [k \in DOMAIN m \cup {key} |-> IF k = key THEN value ELSE m[k]]

Without(m, keys) == [k \in DOMAIN m \ keys |-> m[k]]
==============================================================================
