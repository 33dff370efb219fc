------------------------- MODULE DbTransactionsProofs -------------------------
(***************************************************************************)
(* What the proofs about the databases share: end_prefix gives exactly the *)
(* keys that start with the prefix, and a transaction does what the trait  *)
(* says one operation after another.                                       *)
(***************************************************************************)
EXTENDS DbTransactions, WellFoundedInduction, TLAPS

(* A non-empty set of naturals has a least element. *)
LEMMA LeastNat ==
    ASSUME NEW S \in SUBSET Nat, S # {}
    PROVE  \E x \in S : \A y \in S : x <= y
  <1> DEFINE Less == {ss \in Nat \X Nat : ss[1] < ss[2]}
  <1>1. IsWellFoundedOn(Less, Nat)
    BY ONLY NatLessThanWellFounded, Zenon DEF OpToRel
  <1>2. \A x, y \in Nat : y < x => <<y, x>> \in Less
    OBVIOUS
  <1> HIDE DEF Less
  <1>3. PICK x \in S : \A y \in S : ~(<<y, x>> \in Less)
    BY <1>1, WFMin
  <1>4. \A y \in S : ~(y < x)
    BY <1>2, <1>3
  <1> QED
    BY <1>4

(* A non-empty set of naturals up to n has a greatest element. *)
LEMMA GreatestBelow ==
    ASSUME NEW n \in Nat, NEW S \in SUBSET (1..n), S # {}
    PROVE  \E x \in S : \A y \in S : y <= x
  <1> DEFINE M == {n - x : x \in S}
  <1>1. \A x \in S : n - x \in M
    OBVIOUS
  <1>2. M \in SUBSET Nat /\ M # {}
    <2>1. M \in SUBSET Nat
      OBVIOUS
    <2>2. PICK x \in S : TRUE
      OBVIOUS
    <2>3. n - x \in M
      BY <1>1
    <2> HIDE DEF M
    <2> QED
      BY <2>1, <2>3
  <1> HIDE DEF M
  <1>3. PICK m \in M : \A y \in M : m <= y
    BY <1>2, LeastNat
  <1>4. PICK x \in S : m = n - x
    BY DEF M
  <1> QED
    BY <1>1, <1>3, <1>4

(* A key that does not start with the prefix leaves it at a first position. *)
LEMMA FirstDifference ==
    ASSUME NEW key \in DBKey, NEW prefix \in DBKey, ~StartsWith(key, prefix)
    PROVE  \E d \in 1..Len(prefix) :
              /\ d <= Len(key) + 1
              /\ \A j \in 1..(d - 1) : key[j] = prefix[j]
              /\ d <= Len(key) => key[d] # prefix[d]
  <1> DEFINE D == {d \in 1..Len(prefix) : d > Len(key) \/ key[d] # prefix[d]}
  <1>1. Len(prefix) \in Nat /\ Len(key) \in Nat
    BY DEF DBKey
  <1>2. D \in SUBSET Nat /\ D # {}
    <2>1. D \in SUBSET Nat
      OBVIOUS
    <2>2. CASE Len(key) < Len(prefix)
      <3>1. Len(key) + 1 \in D
        BY <1>1, <2>2
      <3> QED
        BY <2>1, <3>1
    <2>3. CASE Len(prefix) <= Len(key)
      <3>1. PICK i \in 1..Len(prefix) : key[i] # prefix[i]
        BY <2>3 DEF StartsWith
      <3>2. i \in D
        BY <3>1
      <3> QED
        BY <2>1, <3>2
    <2> QED
      BY <1>1, <2>2, <2>3
  <1>3. PICK d \in D : \A y \in D : d <= y
    <2> HIDE DEF D
    <2> QED BY <1>2, LeastNat
  <1> QED
    BY <1>1, <1>3

(***************************************************************************)
(* end_prefix is right: the keys from a prefix up to its end, or to the    *)
(* end of the column when it has none, are exactly the keys that start     *)
(* with it, trailing 0xff bytes included.                                  *)
(***************************************************************************)
THEOREM PrefixRangeExact ==
    ASSUME NEW key \in DBKey, NEW prefix \in DBKey
    PROVE  InRange(key, prefix, EndPrefix(prefix)) <=> StartsWith(key, prefix)
  <1>1. /\ Len(prefix) \in Nat /\ Len(key) \in Nat
        /\ \A i \in 1..Len(prefix) : prefix[i] \in 0..MaxByte
        /\ \A i \in 1..Len(key) : key[i] \in 0..MaxByte
        /\ MaxByte \in Nat
    BY MaxByteAssumption DEF DBKey, Byte
  <1>2. ASSUME StartsWith(key, prefix)
        PROVE  InRange(key, prefix, EndPrefix(prefix))
    <2>1. ~LexLess(key, prefix)
      BY <1>1, <1>2 DEF StartsWith, LexLess
    <2>2. ASSUME NEW e \in EndPrefix(prefix) PROVE LexLess(key, e)
      <3>1. PICK i \in 1..Len(prefix) :
               /\ prefix[i] # MaxByte
               /\ e = [j \in 1..i |-> IF j = i THEN prefix[i] + 1 ELSE prefix[j]]
        BY <2>2 DEF EndPrefix
      <3>2. Len(e) = i /\ e[i] = prefix[i] + 1 /\ \A j \in 1..(i - 1) : e[j] = prefix[j]
        BY <1>1, <3>1
      <3> QED
        BY <1>1, <1>2, <3>2 DEF StartsWith, LexLess
    <2> QED
      BY <2>1, <2>2 DEF InRange
  <1>3. ASSUME ~StartsWith(key, prefix)
        PROVE  ~InRange(key, prefix, EndPrefix(prefix))
    <2>1. PICK d \in 1..Len(prefix) :
             /\ d <= Len(key) + 1
             /\ \A j \in 1..(d - 1) : key[j] = prefix[j]
             /\ d <= Len(key) => key[d] # prefix[d]
      BY <1>3, FirstDifference
    <2>2. CASE d > Len(key) \/ key[d] < prefix[d]
      <3>1. LexLess(key, prefix)
        BY <1>1, <2>1, <2>2 DEF LexLess
      <3> QED
        BY <3>1 DEF InRange
    <2>3. CASE d <= Len(key) /\ key[d] > prefix[d]
      <3> DEFINE S == {i \in 1..Len(prefix) : prefix[i] # MaxByte}
      <3>1. d \in S
        BY <1>1, <2>1, <2>3
      <3>2. PICK i \in S : \A y \in S : y <= i
        <4>1. S \in SUBSET (1..Len(prefix)) /\ S # {}
          BY <3>1
        <4> HIDE DEF S
        <4> QED
          BY <1>1, <4>1, GreatestBelow
      <3>3. i \in 1..Len(prefix) /\ d <= i /\ \A j \in (i + 1)..Len(prefix) : prefix[j] = MaxByte
        BY <1>1, <3>1, <3>2
      <3> DEFINE e == [j \in 1..i |-> IF j = i THEN prefix[i] + 1 ELSE prefix[j]]
      <3>4. e \in EndPrefix(prefix)
        BY <3>2, <3>3 DEF EndPrefix
      <3>5. Len(e) = i /\ e[i] = prefix[i] + 1 /\ \A j \in 1..(i - 1) : e[j] = prefix[j]
        BY <1>1, <3>3
      <3> HIDE DEF e
      <3>6. ~LexLess(key, e)
        <4>1. SUFFICES ASSUME NEW w \in 1..i, w <= Len(key) + 1,
                              \A j \in 1..(w - 1) : key[j] = e[j],
                              w <= Len(key) => key[w] < e[w]
                       PROVE  FALSE
          BY <3>5 DEF LexLess
        <4>2. CASE w < d
          BY <1>1, <2>1, <2>3, <3>3, <3>5, <4>1, <4>2
        <4>3. CASE w = d
          BY <1>1, <2>1, <2>3, <3>3, <3>5, <4>1, <4>3
        <4>4. CASE w > d
          BY <1>1, <2>1, <2>3, <3>3, <3>5, <4>1, <4>4
        <4> QED
          BY <1>1, <4>2, <4>3, <4>4
      <3> QED
        BY <3>4, <3>6 DEF InRange
    <2> QED
      BY <1>1, <2>1, <2>2, <2>3
  <1> QED
    BY <1>2, <1>3

(* A prefix without an end has nothing but 0xff bytes. *)
LEMMA NoEndAllMax ==
    ASSUME NEW prefix \in DBKey, EndPrefix(prefix) = {}
    PROVE  \A i \in 1..Len(prefix) : prefix[i] = MaxByte
  <1> DEFINE S == {i \in 1..Len(prefix) : prefix[i] # MaxByte}
  <1>1. SUFFICES ASSUME S # {} PROVE FALSE
    OBVIOUS
  <1>2. Len(prefix) \in Nat /\ S \in SUBSET (1..Len(prefix))
    BY DEF DBKey
  <1> HIDE DEF S
  <1>3. PICK i \in S : \A y \in S : y <= i
    BY <1>1, <1>2, GreatestBelow
  <1>4. /\ i \in 1..Len(prefix) /\ prefix[i] # MaxByte
        /\ \A j \in (i + 1)..Len(prefix) : prefix[j] = MaxByte
    BY <1>2, <1>3 DEF S
  <1> DEFINE e == [j \in 1..i |-> IF j = i THEN prefix[i] + 1 ELSE prefix[j]]
  <1>5. e \in EndPrefix(prefix)
    BY <1>4 DEF EndPrefix
  <1> QED  BY <1>5

------------------------------------------------------------------------------
(* One more operation either decides the key or leaves the decision as it was. *)
LEMMA LastTouchStep ==
    ASSUME NEW ops, NEW n \in Nat, NEW col, NEW key
    PROVE  LastTouch(ops, n + 1, col, key) =
              IF Touches(ops[n + 1], col, key)
              THEN {n + 1}
              ELSE LastTouch(ops, n, col, key)
  <1>1. CASE Touches(ops[n + 1], col, key)
    <2>1. n + 1 \in LastTouch(ops, n + 1, col, key)
      BY <1>1 DEF LastTouch
    <2>2. ASSUME NEW i \in LastTouch(ops, n + 1, col, key) PROVE i = n + 1
      BY <1>1 DEF LastTouch
    <2> QED
      BY <1>1, <2>1, <2>2
  <1>2. CASE ~Touches(ops[n + 1], col, key)
    <2>1. ASSUME NEW i
          PROVE  i \in LastTouch(ops, n + 1, col, key)
                    <=> i \in LastTouch(ops, n, col, key)
      <3>1. ASSUME i \in LastTouch(ops, n + 1, col, key)
            PROVE  i \in LastTouch(ops, n, col, key)
        BY <1>2, <3>1 DEF LastTouch
      <3>2. ASSUME i \in LastTouch(ops, n, col, key)
            PROVE  i \in LastTouch(ops, n + 1, col, key)
        <4>1. i \in 1..n /\ Touches(ops[i], col, key)
              /\ \A j \in (i + 1)..n : ~Touches(ops[j], col, key)
          BY <3>2 DEF LastTouch
        <4>2. \A j \in (i + 1)..(n + 1) : j \in (i + 1)..n \/ j = n + 1
          BY <4>1
        <4> QED
          BY <1>2, <4>1, <4>2 DEF LastTouch
      <3> QED
        BY <3>1, <3>2
    <2> QED
      BY <1>2, <2>1
  <1> QED
    BY <1>1, <1>2

(* Nothing has touched a key before the first operation. *)
LEMMA LastTouchNone ==
    ASSUME NEW ops, NEW col, NEW key
    PROVE  LastTouch(ops, 0, col, key) = {}
  BY DEF LastTouch

(* At most one operation is the last to touch a key. *)
LEMMA LastTouchUnique ==
    ASSUME NEW ops, NEW n \in Nat, NEW col, NEW key, NEW i \in LastTouch(ops, n, col, key)
    PROVE  /\ i \in 1..n /\ Touches(ops[i], col, key)
           /\ \A j \in (i + 1)..n : ~Touches(ops[j], col, key)
           /\ LastTouch(ops, n, col, key) = {i}
           /\ TheOnly(LastTouch(ops, n, col, key)) = i
  <1>1. ASSUME NEW j \in LastTouch(ops, n, col, key) PROVE j = i
    <2>1. i \in 1..n /\ j \in 1..n /\ j \notin (i + 1)..n /\ i \notin (j + 1)..n
      BY DEF LastTouch
    <2> QED  BY <2>1
  <1>2. LastTouch(ops, n, col, key) = {i}
    BY <1>1
  <1> QED  BY <1>2 DEF LastTouch, TheOnly

(* If none is the last to touch a key, none touches it. *)
LEMMA LastTouchEmpty ==
    ASSUME NEW ops, NEW n \in Nat, NEW col, NEW key, LastTouch(ops, n, col, key) = {}
    PROVE  \A i \in 1..n : ~Touches(ops[i], col, key)
  <1> DEFINE T == {i \in 1..n : Touches(ops[i], col, key)}
  <1>1. SUFFICES ASSUME T # {} PROVE FALSE
    OBVIOUS
  <1>2. T \in SUBSET (1..n)
    OBVIOUS
  <1> HIDE DEF T
  <1>3. PICK x \in T : \A y \in T : y <= x
    BY <1>1, <1>2, GreatestBelow
  <1>4. x \in 1..n /\ Touches(ops[x], col, key) /\ \A j \in (x + 1)..n : ~Touches(ops[j], col, key)
    BY <1>3 DEF T
  <1> QED  BY <1>4 DEF LastTouch

(* A key is there if nothing touched it and it was there, or an insertion came last. *)
LEMMA KeysAfterMember ==
    ASSUME NEW m, NEW ops, NEW n \in Nat, NEW col, NEW key
    PROVE  key \in KeysAfter(m, ops, n, col) <=>
              \/ key \in DOMAIN m /\ LastTouch(ops, n, col, key) = {}
              \/ \E i \in LastTouch(ops, n, col, key) : ops[i].type = "Insert"
  <1>1. ASSUME NEW i \in 1..n, ops[i].type = "Insert",
               i \in LastTouch(ops, n, col, key)
        PROVE  ops[i].key = key
    BY <1>1 DEF LastTouch, Touches
  <1>2. LastTouch(ops, n, col, key) \subseteq 1..n
    BY DEF LastTouch
  <1> QED
    BY <1>1, <1>2 DEF KeysAfter

(* A database's columns are maps from keys to values. *)
AreColumns(c) ==
    /\ c = [col \in DOMAIN c |-> c[col]]
    /\ \A col \in DOMAIN c : IsMap(c[col])

(* What one operation does to a column. *)
Changed(m, op, col) ==
    IF op.col # col THEN m
    ELSE IF op.type = "Insert" THEN WithKey(m, op.key, op.value)
    ELSE Without(m, {k \in DOMAIN m : Touches(op, col, k)})

(***************************************************************************)
(* One more operation of a transaction does to a column what it says: an   *)
(* insertion puts its key, a deletion takes the keys it touches, and the   *)
(* other columns stay as they are.                                         *)
(***************************************************************************)
LEMMA AfterStep ==
    ASSUME NEW c, NEW ops, NEW n \in Nat, NEW col \in DOMAIN c
    PROVE  After(c, ops, n + 1)[col] = Changed(After(c, ops, n)[col], ops[n + 1], col)
  <1> DEFINE op == ops[n + 1]
             m == After(c, ops, n)[col]
             b == After(c, ops, n + 1)[col]
             Ka == KeysAfter(c[col], ops, n, col)
             Kb == KeysAfter(c[col], ops, n + 1, col)
             Va(k) == ValueAfter(c[col], ops, n, col, k)
             Vb(k) == ValueAfter(c[col], ops, n + 1, col, k)
  <1>1. m = [k \in Ka |-> Va(k)] /\ b = [k \in Kb |-> Vb(k)] /\ DOMAIN m = Ka
    BY DEF After
  <1>2. ASSUME NEW k, ~Touches(op, col, k)
        PROVE  (k \in Kb <=> k \in Ka) /\ Vb(k) = Va(k)
    <2>1. LastTouch(ops, n + 1, col, k) = LastTouch(ops, n, col, k)
      BY <1>2, LastTouchStep
    <2>2. k \in Kb <=> \/ k \in DOMAIN c[col] /\ LastTouch(ops, n + 1, col, k) = {}
                      \/ \E i \in LastTouch(ops, n + 1, col, k) : ops[i].type = "Insert"
      BY n + 1 \in Nat, KeysAfterMember
    <2>3. k \in Ka <=> \/ k \in DOMAIN c[col] /\ LastTouch(ops, n, col, k) = {}
                      \/ \E i \in LastTouch(ops, n, col, k) : ops[i].type = "Insert"
      BY KeysAfterMember
    <2>4. Vb(k) = Va(k)
      BY <2>1 DEF ValueAfter
    <2> HIDE DEF Ka, Kb, Va, Vb
    <2> QED  BY <2>1, <2>2, <2>3, <2>4
  <1>3. ASSUME NEW k, Touches(op, col, k)
        PROVE  (k \in Kb <=> op.type = "Insert") /\ Vb(k) = op.value
    <2>1. LastTouch(ops, n + 1, col, k) = {n + 1}
      BY <1>3, LastTouchStep
    <2>2. k \in Kb <=> \/ k \in DOMAIN c[col] /\ LastTouch(ops, n + 1, col, k) = {}
                      \/ \E i \in LastTouch(ops, n + 1, col, k) : ops[i].type = "Insert"
      BY n + 1 \in Nat, KeysAfterMember
    <2>3. Vb(k) = ops[TheOnly({n + 1})].value
      BY <2>1 DEF ValueAfter
    <2>4. TheOnly({n + 1}) = n + 1
      BY DEF TheOnly
    <2> HIDE DEF Kb, Vb
    <2> QED  BY <2>1, <2>2, <2>3, <2>4
  <1> HIDE DEF Ka, Kb, Va, Vb, m, b, op
  <1>4. CASE op.col # col
    <2>1. \A k : ~Touches(op, col, k)
      BY <1>4 DEF Touches
    <2>2. Ka = Kb /\ \A k \in Ka : Va(k) = Vb(k)
      BY <1>2, <2>1
    <2>3. b = m
      BY <1>1, <2>2
    <2> QED  BY <1>4, <2>3 DEF b, m, op, Changed
  <1>5. CASE op.col = col /\ op.type = "Insert"
    <2>1. \A k : Touches(op, col, k) <=> k = op.key
      BY <1>5 DEF Touches
    <2>2. Kb = Ka \cup {op.key}
      BY <1>2, <1>3, <1>5, <2>1
    <2>3. \A k \in Kb : Vb(k) = IF k = op.key THEN op.value ELSE Va(k)
      BY <1>2, <1>3, <2>1
    <2>4. WithKey(m, op.key, op.value) = [k \in Kb |-> IF k = op.key THEN op.value ELSE m[k]]
      BY <1>1, <2>2 DEF WithKey
    <2>5. \A k \in Ka : m[k] = Va(k)
      BY <1>1
    <2>6. b = WithKey(m, op.key, op.value)
      BY <1>1, <2>2, <2>3, <2>4, <2>5
    <2> QED  BY <1>5, <2>6 DEF b, m, op, Changed
  <1>6. CASE op.col = col /\ op.type # "Insert"
    <2> DEFINE gone == {k \in DOMAIN m : Touches(op, col, k)}
    <2>1. Kb = Ka \ gone
      BY <1>1, <1>2, <1>3, <1>6
    <2>2. \A k \in Kb : Vb(k) = Va(k) /\ m[k] = Va(k)
      BY <1>1, <1>2, <2>1
    <2>3. Without(m, gone) = [k \in Kb |-> m[k]]
      BY <1>1, <2>1 DEF Without
    <2>4. b = Without(m, gone)
      BY <1>1, <2>2, <2>3
    <2> QED  BY <1>6, <2>4 DEF b, m, op, Changed
  <1> QED  BY <1>4, <1>5, <1>6

(* After a transaction's operations, the columns are columns again. *)
LEMMA AfterAreColumns ==
    ASSUME NEW c, AreColumns(c), NEW ops \in Seq(DBOp), NEW n \in 0..Len(ops)
    PROVE  AreColumns(After(c, ops, n)) /\ DOMAIN After(c, ops, n) = DOMAIN c
  <1> DEFINE A == After(c, ops, n)
  <1>1. DOMAIN A = DOMAIN c /\ A = [col \in DOMAIN A |-> A[col]]
    BY DEF After
  <1>2. ASSUME NEW col \in DOMAIN c PROVE IsMap(A[col])
    <2> DEFINE K == KeysAfter(c[col], ops, n, col)
               V(k) == ValueAfter(c[col], ops, n, col, k)
    <2>1. A[col] = [k \in K |-> V(k)]
      BY DEF After
    <2>2. IsMap(c[col])
      BY DEF AreColumns
    <2>3. \A i \in 1..n : ops[i] \in DBOp
      OBVIOUS
    <2>4. ASSUME NEW k \in K PROVE k \in DBKey /\ V(k) \in DBValue
      <3>1. CASE LastTouch(ops, n, col, k) = {}
        <4>1. k \in DOMAIN c[col]
          BY <3>1, KeysAfterMember
        <4> QED
          BY <2>2, <3>1, <4>1 DEF IsMap, ValueAfter
      <3>2. CASE LastTouch(ops, n, col, k) # {}
        <4> DEFINE last == TheOnly(LastTouch(ops, n, col, k))
        <4>1. last \in 1..n
          <5>1. last \in LastTouch(ops, n, col, k)
            BY <3>2 DEF TheOnly
          <5> QED
            BY <5>1 DEF LastTouch
        <4>2. V(k) = ops[last].value
          BY <3>2 DEF ValueAfter
        <4>3. PICK i \in LastTouch(ops, n, col, k) : ops[i].type = "Insert"
          <5>1. \/ k \in DOMAIN c[col] /\ LastTouch(ops, n, col, k) = {}
                \/ \E i \in LastTouch(ops, n, col, k) : ops[i].type = "Insert"
            BY n \in Nat, KeysAfterMember
          <5> QED
            BY <3>2, <5>1
        <4>4. i \in 1..n /\ ops[i].key = k
          BY <4>3 DEF LastTouch, Touches
        <4> HIDE DEF last
        <4> QED
          BY <2>3, <4>1, <4>2, <4>4 DEF DBOp
      <3> QED
        BY <3>1, <3>2
    <2> HIDE DEF K, V
    <2> QED
      BY <2>1, <2>4 DEF IsMap
  <1> HIDE DEF A
  <1>3. AreColumns(A) /\ DOMAIN A = DOMAIN c
    BY <1>1, <1>2 DEF AreColumns
  <1> QED
    BY <1>3 DEF A

(* Before its first operation a transaction has changed nothing. *)
LEMMA AfterNone ==
    ASSUME NEW c, AreColumns(c), NEW ops
    PROVE  After(c, ops, 0) = c
  <1>1. ASSUME NEW col \in DOMAIN c
        PROVE  After(c, ops, 0)[col] = c[col]
    <2>1. c[col] = [k \in DOMAIN c[col] |-> c[col][k]]
      BY DEF AreColumns, IsMap
    <2>2. \A k : LastTouch(ops, 0, col, k) = {}
      BY LastTouchNone
    <2>3. \A k : k \in KeysAfter(c[col], ops, 0, col) <=> k \in DOMAIN c[col]
      BY <2>2 DEF KeysAfter
    <2>4. KeysAfter(c[col], ops, 0, col) = DOMAIN c[col]
      BY <2>3
    <2>5. \A k : ValueAfter(c[col], ops, 0, col, k) = c[col][k]
      BY <2>2 DEF ValueAfter
    <2>6. After(c, ops, 0)[col]
             = [k \in KeysAfter(c[col], ops, 0, col) |->
                   ValueAfter(c[col], ops, 0, col, k)]
      BY DEF After
    <2> QED
      BY <2>1, <2>4, <2>5, <2>6
  <1>2. After(c, ops, 0) = [col \in DOMAIN c |-> After(c, ops, 0)[col]]
    BY DEF After
  <1> QED
    BY <1>1, <1>2 DEF AreColumns
==============================================================================
