------------------------------ MODULE KeyProofs ------------------------------
(***************************************************************************)
(* Theorems about parity-crypto's keys, for every curve of prime order.    *)
(***************************************************************************)
EXTENDS KeyCalls, WellFoundedInduction, SequenceTheorems, TLAPS, Integers

(* A product grows with its factor. *)
LEMMA MoreTimes ==
    ASSUME NEW N \in Nat, NEW p \in Int, NEW q \in Int, p < q
    PROVE  p * N + N <= q * N
  <1>1. q - p - 1 \in Nat
    OBVIOUS
  <1>2. (q - p - 1) * N >= 0
    BY <1>1
  <1>3. (q - p - 1) * N = q * N - p * N - N
    OBVIOUS
  <1> QED  BY <1>2, <1>3

LEMMA DivMod ==
    ASSUME NEW N \in Nat \ {0}, NEW a \in Int
    PROVE  /\ a % N \in 0..(N - 1)
           /\ a \div N \in Int
           /\ a = ((a \div N) * N) + (a % N)
  OBVIOUS

(* Quotient and remainder are unique. *)
LEMMA ModUnique ==
    ASSUME NEW N \in Nat \ {0}, NEW a \in Int, NEW q \in Int, NEW r \in 0..(N - 1), a = q * N + r
    PROVE  a % N = r
  <1> DEFINE p == a \div N
             m == a % N
  <1>1. p \in Int /\ m \in 0..(N - 1) /\ a = p * N + m
    BY DivMod
  <1> HIDE DEF p, m
  <1>2. ~(p < q)
    <2>1. ASSUME p < q PROVE FALSE
      <3>1. p * N + N <= q * N
        BY <1>1, <2>1, MoreTimes
      <3>2. p * N \in Int /\ q * N \in Int
        BY <1>1
      <3> QED  BY ONLY <1>1, <3>1, <3>2, a = q * N + r, r \in 0..(N - 1), N \in Nat \ {0}
    <2> QED  BY <2>1
  <1>3. ~(q < p)
    <2>1. ASSUME q < p PROVE FALSE
      <3>1. q * N + N <= p * N
        BY <1>1, <2>1, MoreTimes
      <3>2. p * N \in Int /\ q * N \in Int
        BY <1>1
      <3> QED  BY ONLY <1>1, <3>1, <3>2, a = q * N + r, r \in 0..(N - 1), N \in Nat \ {0}
    <2> QED  BY <2>1
  <1>4. p = q
    BY <1>1, <1>2, <1>3
  <1> QED  BY <1>1, <1>4 DEF m

(* Equal remainders are a difference that is a multiple. *)
LEMMA ModShift ==
    ASSUME NEW N \in Nat \ {0}, NEW a \in Int, NEW b \in Int, NEW k \in Int, a = b + k * N
    PROVE  a % N = b % N
  <1>1. b % N \in 0..(N - 1) /\ b \div N \in Int /\ b = ((b \div N) * N) + (b % N)
    BY DivMod
  <1> DEFINE q == b \div N
             r == b % N
  <1>2. q \in Int /\ r \in 0..(N - 1) /\ b = q * N + r
    BY <1>1
  <1> HIDE DEF q, r
  <1>3. a = (q + k) * N + r /\ q + k \in Int
    BY <1>2
  <1>4. a % N = r
    BY ONLY <1>2, <1>3, N \in Nat \ {0}, a \in Int, ModUnique
  <1> QED  BY <1>4 DEF r

LEMMA ModDiff ==
    ASSUME NEW N \in Nat \ {0}, NEW a \in Int, NEW b \in Int, a % N = b % N
    PROVE  \E k \in Int : a = b + k * N
  <1> DEFINE p == a \div N
             q == b \div N
             r == b % N
  <1>1. p \in Int /\ q \in Int /\ r \in 0..(N - 1) /\ a = p * N + r /\ b = q * N + r
    BY DivMod
  <1> HIDE DEF p, q, r
  <1>2. p - q \in Int /\ a = b + (p - q) * N
    BY <1>1
  <1> QED  BY <1>2

LEMMA ModPlus ==
    ASSUME NEW N \in Nat \ {0}, NEW a \in Int, NEW b \in Int, NEW c \in Int, a % N = b % N
    PROVE  (a + c) % N = (b + c) % N
  <1>1. PICK k \in Int : a = b + k * N
    BY ModDiff
  <1>2. a + c = (b + c) + k * N /\ a + c \in Int /\ b + c \in Int
    BY <1>1
  <1> QED  BY ONLY <1>2, k \in Int, N \in Nat \ {0}, ModShift

LEMMA ModTimes ==
    ASSUME NEW N \in Nat \ {0}, NEW a \in Int, NEW b \in Int, NEW c \in Int, a % N = b % N
    PROVE  (a * c) % N = (b * c) % N
  <1>1. PICK k \in Int : a = b + k * N
    BY ModDiff
  <1>2. a * c = b * c + (k * c) * N
    BY ONLY <1>1, a \in Int, b \in Int, c \in Int, k \in Int, N \in Nat \ {0}
  <1>3. a * c \in Int /\ b * c \in Int /\ k * c \in Int
    OBVIOUS
  <1> QED  BY ONLY <1>2, <1>3, N \in Nat \ {0}, ModShift

LEMMA ModSmall ==
    ASSUME NEW N \in Nat \ {0}, NEW a \in 0..(N - 1)
    PROVE  a % N = a
  <1>1. a = 0 * N + a /\ a \in Int
    OBVIOUS
  <1> QED  BY ONLY <1>1, 0 \in Int, a \in 0..(N - 1), N \in Nat \ {0}, ModUnique

LEMMA ModMod ==
    ASSUME NEW N \in Nat \ {0}, NEW a \in Int
    PROVE  (a % N) % N = a % N
  BY DivMod, ModSmall
------------------------------------------------------------------------------
Keys == 1..(Order - 1)

LEMMA OrderFacts == Order \in Nat \ {0} /\ Order > 2 /\ Keys \subseteq Nat
  BY CurveAssumption DEF Keys

LEMMA KeysAreInts == \A k \in Keys : k \in Int
  BY OrderFacts

(* A point is the multiple of one number. *)
LEMMA OnePoint ==
    ASSUME NEW j \in Keys, NEW k \in Keys, Affine[j] = Affine[k]
    PROVE  j = k
  <1>1. j = k \/ j = Order - k
    BY CurveAssumption DEF Keys
  <1>2. Affine[k][2] % 2 # Affine[Order - k][2] % 2
    BY CurveAssumption DEF Keys
  <1> QED  BY <1>1, <1>2

LEMMA LogOf ==
    ASSUME NEW k \in Keys
    PROVE  PointOk(Affine[k]) /\ Log(Affine[k]) = k
  <1>1. \E j \in 1..(Order - 1) : Affine[j] = Affine[k]
    BY DEF Keys
  <1>2. Log(Affine[k]) \in Keys /\ Affine[Log(Affine[k])] = Affine[k]
    BY <1>1 DEF Log, Keys
  <1> QED  BY <1>1, <1>2, OnePoint DEF PointOk

LEMMA MultipleFacts ==
    ASSUME NEW n \in Int
    PROVE  /\ n % Order = 0 => Multiple(n) = {}
           /\ n % Order # 0 => n % Order \in Keys /\ Multiple(n) = {Affine[n % Order]}
  <1>1. n % Order \in 0..(Order - 1)
    BY OrderFacts, DivMod
  <1> QED  BY <1>1, OrderFacts DEF Multiple, Keys
------------------------------------------------------------------------------
(* What HMAC-SHA512 gives for a key is a number, whatever it is of. *)
HmacIsNumber == \A code, data : Hmac(code, data).key \in Nat

(* The keys that go with each other, as long as the watcher has been told of no error. *)
DeriveInv ==
    watcher.status = "ok" =>
        /\ owner.status = "ok" /\ owner.key \in Keys
        /\ watcher.key = Affine[owner.key]
        /\ watcher.code = owner.code

(* A sum of points is the multiple of the sum. *)
LEMMA CombineOf ==
    ASSUME NEW j \in Keys, NEW k \in Keys
    PROVE  Combine(Affine[j], Affine[k]) = Multiple(j + k)
  BY LogOf DEF Combine

(* Where the public derivation gives a key it is that of the private one. *)
LEMMA DerivedKeysMatch ==
    ASSUME HmacIsNumber, NEW x, NEW y, NEW index, x.key \in Keys,
           y.key = Affine[x.key], y.code = x.code, DerivePublic(y, index).status = "ok"
    PROVE  /\ DeriveSecret(x, index).status = "ok"
           /\ DeriveSecret(x, index).key \in Keys
           /\ DerivePublic(y, index).key = Affine[DeriveSecret(x, index).key]
           /\ DerivePublic(y, index).code = DeriveSecret(x, index).code
  <1> DEFINE i == Hmac(y.code, Compressed(y.key) \o <<index>>)
             sum == UNION {Combine(p, y.key) : p \in Multiple(i.key)}
             d == DerivePublic(y, index)
  <1>1. i.key \in Nat /\ x.key \in Nat
    BY OrderFacts DEF HmacIsNumber
  <1>2. PointOk(y.key)
    BY LogOf
  <1>3. Soft(index) /\ i.key < Order /\ sum # {} /\ d = Ok([key |-> CHOOSE p \in sum : TRUE, code |-> i.code])
    <2>1. Soft(index)
      <3>1. CASE ~Soft(index)
        <4>1. d = Error("InvalidHardenedUse")
          BY <3>1 DEF DerivePublic
        <4> QED  BY <4>1 DEF Error
      <3> QED  BY <3>1
    <2>2. ~(i.key >= Order)
      <3>1. CASE i.key >= Order
        <4>1. ~(i.key < Order)
          BY <1>1, <3>1, OrderFacts
        <4>2. d = Error("MissingIndex")
          BY <1>2, <2>1, <3>1, <4>1 DEF DerivePublic
        <4> QED  BY <4>2 DEF Error
      <3> QED  BY <3>1
    <2>3. i.key < Order
      BY <1>1, <2>2, OrderFacts
    <2>4. d = IF sum = {} THEN Error("panic") ELSE Ok([key |-> CHOOSE p \in sum : TRUE, code |-> i.code])
      BY <1>2, <2>1, <2>2, <2>3 DEF DerivePublic
    <2>5. sum # {}
      BY <2>4 DEF Error
    <2> QED  BY <2>1, <2>3, <2>4, <2>5
  <1>4. i.key % Order = i.key
    BY <1>1, <1>3, OrderFacts, ModSmall
  <1>5. i.key \in Keys /\ Multiple(i.key) = {Affine[i.key]}
    <2>1. i.key \in Int
      BY <1>1
    <2>2. i.key # 0
      <3>1. CASE i.key = 0
        <4>1. Multiple(i.key) = {}
          BY <1>4, <2>1, <3>1, MultipleFacts
        <4> QED  BY <1>3, <4>1
      <3> QED  BY <3>1
    <2> QED  BY <1>4, <2>1, <2>2, MultipleFacts
  <1>6. sum = Multiple(i.key + x.key)
    BY <1>5, CombineOf
  <1> DEFINE t == (i.key + x.key) % Order
  <1>7. i.key + x.key \in Int
    BY <1>1
  <1>8. t # 0 /\ t \in Keys /\ sum = {Affine[t]}
    BY <1>3, <1>6, <1>7, MultipleFacts
  <1>9. d.key = Affine[t] /\ d.code = i.code
    BY <1>3, <1>8 DEF Ok
  <1>10. DeriveSecret(x, index) = Ok([key |-> t, code |-> i.code])
    <2>1. KeyOk(x.key)
      BY DEF KeyOk, Keys
    <2> QED  BY <1>3, <2>1 DEF DeriveSecret, PrivateSoft, HmacPair, PrivateAdd
  <1>11. /\ DeriveSecret(x, index).status = "ok" /\ DeriveSecret(x, index).key = t
         /\ DeriveSecret(x, index).code = i.code
    BY <1>10 DEF Ok
  <1> QED  BY <1>8, <1>9, <1>11

(* The public key made of a secret one. *)
LEMMA PublicOfMatches ==
    ASSUME NEW x, PublicOf(x).status = "ok"
    PROVE  x.key \in Keys /\ PublicOf(x).key = Affine[x.key] /\ PublicOf(x).code = x.code
  <1>1. KeyOk(x.key)
    BY DEF PublicOf, Error
  <1> QED  BY <1>1 DEF PublicOf, Ok, KeyOk, Keys

LEMMA DeriveInitially == Init => DeriveInv
  BY DEF Init, DeriveInv, Error

LEMMA DeriveKeeps == HmacIsNumber /\ DeriveInv /\ [Next]_vars => DeriveInv'
  <1> SUFFICES ASSUME HmacIsNumber, DeriveInv, [Next]_vars, watcher'.status = "ok"
               PROVE  /\ owner'.status = "ok" /\ owner'.key \in Keys
                      /\ watcher'.key = Affine[owner'.key]
                      /\ watcher'.code = owner'.code
    BY DEF DeriveInv
  <1>1. ASSUME UNCHANGED <<owner, watcher>>
        PROVE  /\ owner'.status = "ok" /\ owner'.key \in Keys
               /\ watcher'.key = Affine[owner'.key]
               /\ watcher'.code = owner'.code
    BY <1>1 DEF DeriveInv
  <1>2. CASE Use \/ UNCHANGED vars
    <2>1. UNCHANGED <<owner, watcher>>
      BY <1>2 DEF Use, Calculate, CalculatePow, AgreeOn, SignMessage, SealMessage, vars
    <2> QED  BY <1>1, <2>1
  <1>3. ASSUME owner'.status = "ok", watcher' = PublicOf(owner')
        PROVE  /\ owner'.status = "ok" /\ owner'.key \in Keys
               /\ watcher'.key = Affine[owner'.key]
               /\ watcher'.code = owner'.code
    BY <1>3, PublicOfMatches
  <1>4. ASSUME NEW s \in Secrets, NewPair(s)
        PROVE  owner'.status = "ok" /\ watcher' = PublicOf(owner')
    BY <1>4 DEF NewPair, NewExtended, Ok
  <1>5. ASSUME NEW seed \in Seeds, WithSeed(seed)
        PROVE  owner'.status = "ok" /\ watcher' = PublicOf(owner')
    <2>1. owner'.status = "ok"
      <3>1. CASE owner'.status # "ok"
        <4>1. watcher' = Error("none")
          BY <1>5, <3>1 DEF WithSeed
        <4> QED  BY <4>1 DEF Error
      <3> QED  BY <3>1
    <2> QED  BY <1>5, <2>1 DEF WithSeed
  <1>6. ASSUME NEW index \in Indices, DerivePair(index)
        PROVE  owner'.status = "ok" /\ watcher' = PublicOf(owner')
    <2>1. watcher' = IF owner'.status = "ok" THEN PublicOf(owner') ELSE owner'
      BY <1>6 DEF DerivePair
    <2> QED  BY <2>1
  <1>7. ASSUME NEW index \in Indices, DeriveBoth(index)
        PROVE  /\ owner'.status = "ok" /\ owner'.key \in Keys
               /\ watcher'.key = Affine[owner'.key]
               /\ watcher'.code = owner'.code
    <2>1. /\ owner' = DeriveSecret(owner, index)
          /\ watcher' = IF watcher.status = "ok" THEN DerivePublic(watcher, index) ELSE watcher
      BY <1>7 DEF DeriveBoth
    <2>2. watcher.status = "ok" /\ watcher' = DerivePublic(watcher, index)
      BY <2>1
    <2>3. owner.key \in Keys /\ watcher.key = Affine[owner.key] /\ watcher.code = owner.code
      BY <2>2 DEF DeriveInv
    <2>4. DerivePublic(watcher, index).status = "ok"
      BY <2>2
    <2> QED  BY ONLY HmacIsNumber, <2>1, <2>2, <2>3, <2>4, DerivedKeysMatch
  <1> QED  BY <1>2, <1>3, <1>4, <1>5, <1>6, <1>7 DEF Next, Derive

(* For every curve, every HMAC and every path of indices: as long as the    *)
(* watcher of ExtendedPublic::derive has been told of no error, its key and *)
(* chain code are those of the owner's ExtendedSecret::derive.              *)
THEOREM DerivationStaysCommuting ==
    ASSUME HmacIsNumber
    PROVE  Spec => []DerivationCommutes
  <1>1. DeriveInv => DerivationCommutes
    <2> SUFFICES ASSUME DeriveInv, watcher.status = "ok" PROVE FromSecret(owner.key) = {watcher.key}
      BY DEF DeriveInv, DerivationCommutes
    <2>1. owner.key \in Keys /\ watcher.key = Affine[owner.key] /\ owner.key % Order = owner.key
      BY OrderFacts, ModSmall DEF DeriveInv, Keys
    <2>2. owner.key # 0 /\ owner.key \in Int
      BY <2>1 DEF Keys
    <2> QED  BY <2>1, <2>2, MultipleFacts DEF FromSecret, KeyOk, Keys
  <1> QED  BY <1>1, DeriveInitially, DeriveKeeps, PTL DEF Spec
------------------------------------------------------------------------------
(* The same for the order. *)
LEMMA OrderMod ==
    ASSUME NEW a \in Int
    PROVE  a % Order \in Nat /\ (a % Order # 0 => a % Order \in Keys)
  <1>1. a % Order \in 0..(Order - 1)
    BY OrderFacts, DivMod
  <1> QED  BY <1>1, OrderFacts DEF Keys

LEMMA OrderPlus ==
    ASSUME NEW a \in Int, NEW b \in Int, NEW c \in Int, a % Order = b % Order
    PROVE  (a + c) % Order = (b + c) % Order
  <1>1. Order \in Nat \ {0}
    BY OrderFacts
  <1> QED  BY ONLY <1>1, a \in Int, b \in Int, c \in Int, a % Order = b % Order, ModPlus, ZenonT(60)

LEMMA OrderTimes ==
    ASSUME NEW a \in Int, NEW b \in Int, NEW c \in Int, a % Order = b % Order
    PROVE  (a * c) % Order = (b * c) % Order
  <1>1. Order \in Nat \ {0}
    BY OrderFacts
  <1> QED  BY ONLY <1>1, a \in Int, b \in Int, c \in Int, a % Order = b % Order, ModTimes, ZenonT(60)

(* The field: inverses cancel, so a product of valid keys is one. *)
LEMMA Cancels1 ==
    ASSUME NEW k \in Keys, NEW a \in Int, NEW b \in Int, (k * a) % Order = (k * b) % Order
    PROVE  a % Order = b % Order
  <1>1. PICK i \in Keys : (i * k) % Order = 1
    BY FieldAssumption DEF Keys
  <1>2. i \in Int /\ k \in Int /\ 1 \in Int /\ Order \in Nat \ {0} /\ 1 \in 0..(Order - 1)
    BY OrderFacts
  <1> DEFINE u == k * a
             v == k * b
             w == i * k
  <1>3. u \in Int /\ v \in Int /\ w \in Int /\ u % Order = v % Order /\ w % Order = 1 % Order
    BY <1>1, <1>2, ModSmall
  <1>4. u * i = w * a /\ v * i = w * b /\ 1 * a = a /\ 1 * b = b
    BY ONLY <1>2, a \in Int, b \in Int
  <1> HIDE DEF u, v, w
  <1>5. (u * i) % Order = (v * i) % Order
    BY ONLY <1>2, <1>3, OrderTimes, ZenonT(60)
  <1>6. (w * a) % Order = (1 * a) % Order /\ (w * b) % Order = (1 * b) % Order
    BY ONLY <1>2, <1>3, a \in Int, b \in Int, OrderTimes, ZenonT(60)
  <1> QED  BY <1>4, <1>5, <1>6

LEMMA ProductIsKey ==
    ASSUME NEW j \in Keys, NEW k \in Keys
    PROVE  (j * k) % Order \in Keys /\ (j * k) \in Int
  <1>1. j \in Int /\ k \in Int /\ j * k \in Int /\ Order \in Nat \ {0}
    BY OrderFacts
  <1>2. (j * k) % Order \in 0..(Order - 1)
    BY <1>1, DivMod
  <1>3. ASSUME (j * k) % Order = 0 PROVE FALSE
    <2>1. (j * 0) % Order = 0
      <3>1. j * 0 = 0 /\ 0 \in 0..(Order - 1)
        BY <1>1
      <3> QED  BY <1>1, <3>1, ModSmall
    <2>2. k % Order = 0 % Order
      BY ONLY <1>1, <1>3, <2>1, Cancels1, j \in Keys, k \in Int, 0 \in Int
    <2>3. k % Order = k /\ 0 % Order = 0
      BY <1>1, ModSmall DEF Keys
    <2> QED  BY <2>2, <2>3 DEF Keys
  <1> QED  BY <1>1, <1>2, <1>3 DEF Keys

(* The negation of a product. *)
LEMMA NegatedProduct ==
    ASSUME NEW j \in Keys, NEW k \in Keys
    PROVE  Order - k \in Keys /\ (j * (Order - k)) % Order = Order - ((j * k) % Order)
  <1>1. j \in Int /\ k \in Int /\ j * k \in Int /\ Order \in Nat \ {0} /\ Order \in Int
    BY OrderFacts
  <1> DEFINE q == (j * k) \div Order
             r == (j * k) % Order
  <1>2. q \in Int /\ r \in Keys /\ j * k = q * Order + r
    BY <1>1, DivMod, ProductIsKey
  <1> HIDE DEF q, r
  <1>3. j * (Order - k) = (j - q - 1) * Order + (Order - r)
    <2>1. j * (Order - k) = j * Order - j * k
      BY <1>1
    <2>2. (j - q - 1) * Order = j * Order - q * Order - Order
      BY <1>1, <1>2
    <2> DEFINE x == j * Order
               y == q * Order
               z == j * k
    <2>3. x \in Int /\ y \in Int /\ z \in Int /\ r \in Int
      BY <1>1, <1>2, OrderFacts
    <2>4. z = y + r
      BY <1>2
    <2> HIDE DEF x, y, z
    <2>5. x - z = (x - y - Order) + (Order - r)
      BY <1>1, <2>3, <2>4
    <2> QED  BY <2>1, <2>2, <2>5 DEF x, y, z
  <1>4. Order - r \in 0..(Order - 1) /\ j - q - 1 \in Int /\ j * (Order - k) \in Int
    BY <1>1, <1>2 DEF Keys
  <1>5. (j * (Order - k)) % Order = Order - r
    BY ONLY <1>1, <1>3, <1>4, ModUnique
  <1>6. Order - k \in Keys
    BY <1>1 DEF Keys
  <1> QED  BY <1>5, <1>6 DEF r

(* Whose x coordinates are the same. *)
LEMMA SameX ==
    ASSUME NEW j \in Keys, NEW k \in Keys
    PROVE  Affine[j][1] = Affine[k][1] <=> j \in {k, Order - k}
  BY CurveAssumption DEF Keys

(* ecdh::agree of a secret with the public key of another. *)
LEMMA AgreeOf ==
    ASSUME NEW k \in Keys, NEW j \in Keys
    PROVE  Agree(k, Affine[j]) = {z \in {Affine[(j * k) % Order][1]} : KeyOk(z)}
  <1>1. PointOk(Affine[j]) /\ KeyOk(k) /\ Log(Affine[j]) = j
    BY LogOf DEF KeyOk, Keys
  <1>2. PointMul(Affine[j], k) = {Affine[(j * k) % Order]}
    <2>1. (j * k) % Order # 0 /\ j * k \in Int
      BY ProductIsKey DEF Keys
    <2> QED  BY <1>1, <2>1, MultipleFacts DEF PointMul
  <1> DEFINE q0 == Affine[(j * k) % Order]
  <1>3. Agree(k, Affine[j]) = {q[1] : q \in {q \in {q0} : KeyOk(q[1])}}
    BY <1>1, <1>2 DEF Agree
  <1> QED  BY <1>3

LEMMA AgreeBoth ==
    ASSUME NEW k \in Keys, NEW j \in Keys
    PROVE  Agree(k, Affine[j]) = Agree(j, Affine[k])
  <1>1. j * k = k * j
    BY OrderFacts
  <1>2. Agree(j, Affine[k]) = {z \in {Affine[(j * k) % Order][1]} : KeyOk(z)}
    BY <1>1, AgreeOf
  <1> QED  BY <1>2, AgreeOf

(* Whose secret agrees on the same x coordinate with an ephemeral key. *)
LEMMA SameAgreement ==
    ASSUME NEW e \in Keys, NEW j \in Keys, NEW k \in Keys
    PROVE  Affine[(e * j) % Order][1] = Affine[(e * k) % Order][1] <=> j \in {k, Order - k}
  <1>1. (e * j) % Order \in Keys /\ (e * k) % Order \in Keys
    BY ProductIsKey
  <1>2. Affine[(e * j) % Order][1] = Affine[(e * k) % Order][1]
           <=> (e * j) % Order \in {(e * k) % Order, Order - ((e * k) % Order)}
    BY <1>1, SameX
  <1>3. Order - k \in Keys /\ (e * (Order - k)) % Order = Order - ((e * k) % Order)
    BY NegatedProduct
  <1>4. ASSUME NEW i \in Keys, (e * j) % Order = (e * i) % Order PROVE j = i
    <2>1. i \in Int /\ j \in Int /\ i \in 0..(Order - 1) /\ j \in 0..(Order - 1) /\ Order \in Nat \ {0}
      BY OrderFacts DEF Keys
    <2>2. j % Order = i % Order
      BY ONLY <1>4, <2>1, e \in Keys, Cancels1, Zenon
    <2> QED  BY <2>1, <2>2, ModSmall
  <1>5. (e * j) % Order = (e * k) % Order <=> j = k
    BY <1>4
  <1>6. (e * j) % Order = (e * (Order - k)) % Order <=> j = Order - k
    BY <1>3, <1>4
  <1> QED  BY <1>2, <1>3, <1>5, <1>6

(* A sealed message opens for the owner of s, and for that of its negation. *)
OpensOnlyFor(s, auth, plain, sealed) ==
    \A t \in Secrets, other \in Auths :
        Decrypt(t, other, sealed) = IF t \in {s, Order - s} /\ other = auth THEN {plain} ELSE {}

(* The second use of a key stream undoes the first. *)
LEMMA StreamsCancel ==
    ASSUME NEW text \in Seq(TextByte), NEW ekey, NEW iv
    PROVE  /\ Ctr128(ekey, iv, text) \in Seq([value : 0..255, under : SUBSET {<<ekey, iv, i>> : i \in Nat}])
           /\ Ctr128(ekey, iv, Ctr128(ekey, iv, text)) = text
  <1> DEFINE B == [value : 0..255, under : SUBSET {<<ekey, iv, i>> : i \in Nat}]
             c == Ctr128(ekey, iv, text)
             n == Len(text)
             d(i) == [value |-> text[i].value, under |-> {<<ekey, iv, i>>}]
  <1>1. n \in Nat /\ DOMAIN text = 1..n /\ \A i \in 1..n : text[i] \in TextByte
    OBVIOUS
  <1>2. \A i \in 1..n : text[i] = [value |-> text[i].value, under |-> {}] /\ text[i].value \in 0..255
    BY <1>1 DEF TextByte
  <1>3. \A i \in 1..n : [text[i] EXCEPT !.under = SymDiff(@, {<<ekey, iv, i>>})] = d(i)
    <2> SUFFICES ASSUME NEW i \in 1..n
                 PROVE  [text[i] EXCEPT !.under = SymDiff(@, {<<ekey, iv, i>>})] = d(i)
      OBVIOUS
    <2> DEFINE x == <<ekey, iv, i>>
               b == text[i]
               v == b.value
    <2>1. b = [value |-> v, under |-> {}]
      BY <1>2
    <2> HIDE DEF x, b, v
    <2>2. SymDiff({}, {x}) = {x}
      BY DEF SymDiff
    <2>3. [[value |-> v, under |-> {}] EXCEPT !.under = SymDiff(@, {x})] = [value |-> v, under |-> SymDiff({}, {x})]
      OBVIOUS
    <2>4. [b EXCEPT !.under = SymDiff(@, {x})] = [value |-> v, under |-> {x}]
      BY <2>1, <2>2, <2>3
    <2> QED  BY <2>4 DEF x, b, v
  <1>4. c = [i \in 1..n |-> d(i)]
    BY <1>1, <1>3 DEF Ctr128
  <1>5. \A i \in 1..n : d(i) \in B
    BY <1>1, <1>2
  <1>6. c \in Seq(B)
    <2> HIDE DEF d, B
    <2> QED  BY <1>1, <1>4, <1>5
  <1>7. \A i \in 1..n : [d(i) EXCEPT !.under = SymDiff(@, {<<ekey, iv, i>>})] = text[i]
    BY <1>2 DEF SymDiff
  <1>8. Ctr128(ekey, iv, c) = text
    <2>1. DOMAIN c = 1..n /\ \A i \in 1..n : c[i] = d(i)
      BY <1>4
    <2>2. Ctr128(ekey, iv, c) = [i \in 1..n |-> [c[i] EXCEPT !.under = SymDiff(@, {<<ekey, iv, i>>})]]
      BY <2>1 DEF Ctr128
    <2> HIDE DEF c, d
    <2>3. Ctr128(ekey, iv, c) = [i \in 1..n |-> text[i]]
      BY <1>7, <2>1, <2>2
    <2>4. text = [i \in 1..n |-> text[i]]
      BY <1>1
    <2> QED  BY <2>3, <2>4
  <1> QED  BY <1>6, <1>8

(* The bytes of a tag tell the authenticated data, if the text in front of it is the same. *)
LEMMA TagTells ==
    ASSUME NEW B, NEW c \in Seq(B), NEW x \in Seq(TextByte), NEW y \in Seq(TextByte), c \o x = c \o y
    PROVE  x = y
  <1> DEFINE S == B \cup TextByte
  <1>1. c \in Seq(S) /\ x \in Seq(S) /\ y \in Seq(S)
    OBVIOUS
  <1> HIDE DEF S
  <1> QED  BY <1>1, ConcatSimplifications

(* ecies::decrypt of what ecies::encrypt made. *)
LEMMA OpensForOwner ==
    ASSUME NEW s \in Keys, NEW e \in Keys, NEW auth \in Seq(TextByte), NEW plain \in Seq(TextByte),
           NEW sealed \in Encrypt(Affine[s], auth, plain, e, 0)
    PROVE  OpensOnlyFor(s, auth, plain, sealed)
  <1> SUFFICES ASSUME NEW t \in Secrets, NEW other \in Auths
               PROVE  Decrypt(t, other, sealed) =
                         IF t \in {s, Order - s} /\ other = auth THEN {plain} ELSE {}
    BY DEF OpensOnlyFor
  <1> DEFINE z == Affine[(s * e) % Order][1]
             y == Affine[(e * t) % Order][1]
             cipher(x) == Ctr128(<<"enc", x>>, 0, plain)
             B == [value : 0..255, under : SUBSET {<< <<"enc", z>>, 0, i >> : i \in Nat}]
  <1>1. Agree(e, Affine[s]) = {x \in {z} : KeyOk(x)}
    BY AgreeOf
  <1>2. KeyOk(z) /\ sealed = [len |-> MetaLen + Len(plain), version |-> 4, public |-> Affine[e],
                              iv |-> 0, cipher |-> cipher(z),
                              mac |-> Mac(Kdf(z).mkey, 0, cipher(z), auth)]
    BY <1>1 DEF Encrypt, Kdf
  <1>a. cipher(z) \in Seq(B) /\ Ctr128(<<"enc", z>>, 0, cipher(z)) = plain
    BY StreamsCancel
  <1>b. Len(plain) \in Nat /\ other \in Seq(TextByte)
    BY CallsAssumption
  <1> HIDE DEF cipher
  <1>3. ~(sealed.len < MetaLen \/ sealed.version < 2 \/ sealed.version > 4)
    BY <1>2, <1>b DEF MetaLen
  <1>4. /\ sealed.public = Affine[e] /\ sealed.iv = 0 /\ sealed.cipher = cipher(z)
        /\ sealed.mac = << <<"mac", z>>, 0, cipher(z) \o auth >>
    BY <1>2 DEF Kdf, Mac
  <1> DEFINE opens(x) == Mac(Kdf(x).mkey, sealed.iv, sealed.cipher, other) = sealed.mac
             text(x) == Ctr128(Kdf(x).ekey, sealed.iv, sealed.cipher)
  <1>c. Decrypt(t, other, sealed) =
            UNION {IF opens(x) THEN {text(x)} ELSE {} : x \in Agree(t, Affine[e])}
    BY <1>3, <1>4 DEF Decrypt
  <1>6. ASSUME NEW x PROVE opens(x) <=> x = z /\ other = auth
    <2>1. Mac(Kdf(x).mkey, sealed.iv, sealed.cipher, other) = << <<"mac", x>>, 0, cipher(z) \o other >>
      BY <1>4 DEF Mac, Kdf
    <2>2. cipher(z) \o other = cipher(z) \o auth => other = auth
      <3> DEFINE c == cipher(z)
      <3> HIDE DEF c, B
      <3>1. c \in Seq(B)
        BY <1>a DEF c
      <3>2. c \o other = c \o auth => other = auth
        BY ONLY <3>1, <1>b, auth \in Seq(TextByte), TagTells
      <3> QED  BY <3>2 DEF c
    <2> HIDE DEF z
    <2>3. opens(x) <=> << <<"mac", x>>, 0, cipher(z) \o other >> = << <<"mac", z>>, 0, cipher(z) \o auth >>
      BY <1>4, <2>1
    <2>4. << <<"mac", x>>, 0, cipher(z) \o other >> = << <<"mac", z>>, 0, cipher(z) \o auth >>
             <=> x = z /\ cipher(z) \o other = cipher(z) \o auth
      OBVIOUS
    <2> QED  BY <2>2, <2>3, <2>4
  <1>d. text(z) = plain
    BY <1>4, <1>a DEF Kdf
  <1> HIDE DEF opens, text
  <1>5. Decrypt(t, other, sealed) =
            UNION {IF opens(x) THEN {plain} ELSE {} : x \in Agree(t, Affine[e])}
    <2>1. \A x : opens(x) => text(x) = plain
      BY <1>6, <1>d
    <2>2. \A x : (IF opens(x) THEN {text(x)} ELSE {}) = (IF opens(x) THEN {plain} ELSE {})
      BY <2>1
    <2> HIDE DEF z, y
    <2> QED  BY <1>c, <2>2, Zenon
  <1>7. CASE t \in Keys
    <2>1. Agree(t, Affine[e]) = {x \in {y} : KeyOk(x)}
      BY <1>7, AgreeOf
    <2>2. y = z <=> t \in {s, Order - s}
      <3>1. s * e = e * s
        BY OrderFacts
      <3>2. Affine[(e * t) % Order][1] = Affine[(e * s) % Order][1] <=> t \in {s, Order - s}
        BY <1>7, SameAgreement
      <3> QED  BY <3>1, <3>2
    <2> HIDE DEF y, z
    <2>3. CASE KeyOk(y)
      <3>1. Decrypt(t, other, sealed) = IF opens(y) THEN {plain} ELSE {}
        BY <1>5, <2>1, <2>3
      <3> QED  BY <1>6, <2>2, <3>1
    <2>4. CASE ~KeyOk(y)
      <3>1. Decrypt(t, other, sealed) = {}
        BY <1>5, <2>1, <2>4
      <3> QED  BY <1>2, <2>2, <2>4, <3>1
    <2> QED  BY <2>3, <2>4
  <1>8. CASE t \notin Keys
    <2>1. Agree(t, Affine[e]) = {}
      BY <1>8 DEF Agree, KeyOk, Keys
    <2>2. t \notin {s, Order - s}
      BY <1>8, NegatedProduct
    <2> QED  BY <1>5, <2>1, <2>2
  <1> QED  BY <1>7, <1>8

(* Every step but a use forgets the call. *)
LEMMA DeriveForgets == Derive => call' = NoCall
  BY DEF Derive, NewPair, WithSeed, DeriveBoth, DerivePair

LEMMA KeysAreSecrets == Keys \subseteq Secrets
  BY CurveAssumption DEF Keys, Secrets

(* For every curve of prime order and all messages: ecies::decrypt gives    *)
(* what was given to ecies::encrypt, for the owner of the key, or of its    *)
(* negation, with the same authenticated data, and nothing to anyone else;  *)
(* and ecdh::agree gives both sides the same.                               *)
THEOREM SealedStaysForOwner == Spec => []SealedOpensForOwner
  <1>1. Init => SealedOpensForOwner
    BY DEF Init, SealedOpensForOwner, NoCall
  <1>2. SealedOpensForOwner /\ [Next]_vars => SealedOpensForOwner'
    <2> SUFFICES ASSUME SealedOpensForOwner, [Next]_vars PROVE SealedOpensForOwner'
      OBVIOUS
    <2>1. CASE UNCHANGED call
      BY <2>1 DEF SealedOpensForOwner
    <2>2. CASE call'.op \notin {"seal", "agree"}
      BY <2>2 DEF SealedOpensForOwner
    <2>3. ASSUME NEW s \in Keys, NEW e \in Keys, NEW auth \in Auths, NEW plain \in Plains,
                 SealMessage(s, e, auth, plain)
          PROVE  SealedOpensForOwner'
      <3>1. PICK sealed \in Encrypt(Affine[s], auth, plain, e, 0) :
               call' = [op |-> "seal", s |-> s, auth |-> auth, plain |-> plain, sealed |-> sealed]
        BY <2>3 DEF SealMessage
      <3>2. auth \in Seq(TextByte) /\ plain \in Seq(TextByte)
        BY CallsAssumption
      <3>3. OpensOnlyFor(s, auth, plain, sealed)
        BY <3>2, OpensForOwner
      <3> QED  BY <3>1, <3>3 DEF SealedOpensForOwner, OpensOnlyFor
    <2>4. ASSUME NEW s \in Secrets, NEW o \in Secrets, AgreeOn(s, o) PROVE SealedOpensForOwner'
      <3>1. o \in Keys /\ call' = [op |-> "agree", s |-> s, o |-> o, out |-> Agree(s, Affine[o])]
        BY <2>4 DEF AgreeOn, KeyOk, Keys
      <3>2. KeyOk(s) => Agree(s, Affine[o]) = Agree(o, Affine[s])
        BY <3>1, AgreeBoth DEF KeyOk, Keys
      <3> QED  BY <3>1, <3>2 DEF SealedOpensForOwner
    <2>5. CASE Derive
      BY <2>2, <2>5, DeriveForgets DEF NoCall
    <2>6. ASSUME NEW op \in {"add", "sub", "mul", "neg", "dec"}, NEW s, NEW o, Calculate(op, s, o)
          PROVE  call'.op \notin {"seal", "agree"}
      BY <2>6 DEF Calculate
    <2>7. ASSUME NEW s, NEW e, CalculatePow(s, e) PROVE call'.op \notin {"seal", "agree"}
      BY <2>7 DEF CalculatePow
    <2>8. ASSUME NEW s, NEW message, NEW nonce, SignMessage(s, message, nonce)
          PROVE  call'.op \notin {"seal", "agree"}
      BY <2>8 DEF SignMessage
    <2>9. CASE Use
      BY <2>2, <2>3, <2>4, <2>6, <2>7, <2>8, <2>9 DEF Use, Keys
    <2> QED  BY <2>1, <2>5, <2>9 DEF Next, vars
  <1> QED  BY <1>1, <1>2, PTL DEF Spec
------------------------------------------------------------------------------
(* The inverse that the library calculates undoes a multiplication. *)
LEMMA InverseFacts ==
    ASSUME NEW k \in Keys
    PROVE  InverseOf(k) \in Keys /\ (InverseOf(k) * k) % Order = 1
  <1>1. \E i \in 1..(Order - 1) : (i * k) % Order = 1
    BY FieldAssumption DEF Keys
  <1> QED  BY <1>1 DEF InverseOf, Keys

LEMMA InverseIsKey ==
    ASSUME NEW k \in Keys
    PROVE  InverseOf(k) \in Keys /\ InverseOf(k) \in Int
  <1>1. InverseOf(k) \in Keys
    BY InverseFacts, Zenon
  <1> QED  BY <1>1, KeysAreInts, Zenon

LEMMA InverseUndoes ==
    ASSUME NEW k \in Keys, NEW a \in Int, NEW x \in Int, x % Order = (k * a) % Order
    PROVE  (InverseOf(k) * x) % Order = a % Order
  <1> DEFINE i == InverseOf(k)
             w == i * k
             y == k * a
  <1>0. i \in Int /\ k \in Int
    <2>1. k \in Int
      BY OrderFacts
    <2> QED  BY <2>1, InverseIsKey, Zenon
  <1>1. i \in Int /\ k \in Int /\ w \in Int /\ y \in Int /\ 1 \in Int /\ Order \in Nat \ {0}
    <2> HIDE DEF i
    <2> QED  BY <1>0, OrderFacts
  <1>2. w % Order = 1 % Order
    <2>1. 1 \in 0..(Order - 1)
      BY OrderFacts
    <2> QED  BY <1>1, <2>1, InverseFacts, ModSmall
  <1>3. y * i = w * a /\ 1 * a = a /\ i * x = x * i
    BY ONLY <1>1, a \in Int, x \in Int
  <1>4. x % Order = y % Order
    OBVIOUS
  <1> HIDE DEF i, w, y
  <1>5. (x * i) % Order = (y * i) % Order
    BY ONLY <1>1, <1>4, x \in Int, OrderTimes, Zenon
  <1>6. (w * a) % Order = (1 * a) % Order
    BY ONLY <1>1, <1>2, a \in Int, OrderTimes, Zenon
  <1>7. (i * x) % Order = a % Order
    BY <1>3, <1>5, <1>6
  <1> QED  BY <1>7 DEF i

(* Turning both factors over leaves the product. *)
LEMMA TurnedProduct ==
    ASSUME NEW j \in Keys, NEW k \in Keys
    PROVE  ((Order - j) * (Order - k)) % Order = (j * k) % Order
  <1>1. j \in Int /\ k \in Int /\ Order \in Int /\ Order \in Nat \ {0}
    BY OrderFacts
  <1>2. (Order - j) * (Order - k) = j * k + (Order - j - k) * Order
    BY ONLY <1>1
  <1> DEFINE x == (Order - j) * (Order - k)
             y == j * k
             z == Order - j - k
  <1>3. x \in Int /\ y \in Int /\ z \in Int /\ x = y + z * Order
    BY <1>1, <1>2
  <1> HIDE DEF x, y, z
  <1>4. x % Order = y % Order
    BY ONLY <1>1, <1>3, ModShift
  <1> QED  BY <1>4 DEF x, y

(* The order is odd, so one half of the numbers below it is the negation of the other. *)
LEMMA LowHalfFacts ==
    ASSUME NEW s \in Keys
    PROVE  s > LowHalf => Order - s <= LowHalf
  <1>1. Order % 2 = 1
    <2> SUFFICES ASSUME Order % 2 = 0 PROVE FALSE
      BY OrderFacts
    <2> DEFINE h == Order \div 2
    <2>1. h \in Nat /\ Order = h + h
      BY OrderFacts
    <2>2. h \in 1..(Order - 1) /\ Order - h = h
      <3> HIDE DEF h
      <3> QED  BY <2>1, OrderFacts
    <2> QED  BY <2>2, CurveAssumption
  <1> QED  BY <1>1, OrderFacts DEF LowHalf, Keys

(* What sign returns: x is the nonce's point, j the nonce or its negation, as s is low. *)
Signed(k, message, nonce, sig, j) ==
    /\ sig.r = Affine[nonce][1] % Order /\ sig.r \in Keys
    /\ sig.s \in Keys /\ sig.s <= LowHalf
    /\ j \in {nonce, Order - nonce} /\ j \in Keys
    /\ (sig.s * j) % Order = (message + sig.r * k) % Order
    /\ sig.v \in 0..3
    /\ sig.v % 2 = Affine[j][2] % 2
    /\ sig.v \div 2 = IF Affine[nonce][1] >= Order THEN 1 ELSE 0
    /\ sig = [r |-> sig.r, s |-> sig.s, v |-> sig.v]

LEMMA SignFacts ==
    ASSUME NEW k \in Secrets, NEW message \in Nat, NEW nonce \in Keys,
           NEW sig \in Sign(k, message, nonce)
    PROVE  k \in Keys /\ \E j : Signed(k, message, nonce, sig, j)
  <1> DEFINE p == Affine[nonce]
             r == p[1] % Order
             x == message + r * k
             s == (InverseOf(nonce) * x) % Order
             odd == IF s > LowHalf THEN 1 - (p[2] % 2) ELSE p[2] % 2
             high == IF p[1] >= Order THEN 2 ELSE 0
             low == IF s > LowHalf THEN Order - s ELSE s
             j == IF s > LowHalf THEN Order - nonce ELSE nonce
  <1>1. k \in Keys
    BY DEF Sign, KeyOk, Keys
  <1>2. r # 0 /\ s # 0 /\ sig = [r |-> r, s |-> low, v |-> odd + high]
    BY <1>1 DEF Sign, SignRecoverable, KeyOk, Keys
  <1>3. p[1] \in Nat /\ p[2] \in Nat /\ p[1] < 2 * Order /\ Order \in Nat \ {0} /\ nonce \in Nat /\ k \in Nat
    BY <1>1, CurveAssumption DEF Keys
  <1>4. r \in Keys /\ r \in Nat
    <2>1. p[1] \in Int
      BY <1>3
    <2> HIDE DEF p
    <2> QED  BY <1>2, <2>1, OrderMod
  <1>5. x \in Int /\ InverseOf(nonce) \in Int
    <2>1. InverseOf(nonce) \in Int
      BY InverseIsKey, OrderFacts, Zenon
    <2> HIDE DEF r
    <2> QED  BY <1>3, <1>4, <2>1
  <1>6. s \in Keys
    <2>1. InverseOf(nonce) * x \in Int
      BY <1>5
    <2> HIDE DEF x
    <2> QED  BY <1>2, <2>1, OrderMod
  <1>7. (s * nonce) % Order = x % Order
    <2> DEFINE i == InverseOf(nonce)
               w == i * nonce
               y == i * x
    <2>1. i \in Int /\ nonce \in Int /\ w \in Int /\ y \in Int /\ s \in Int /\ 1 \in 0..(Order - 1)
      BY <1>3, <1>5, <1>6, OrderFacts
    <2>2. y * nonce = w * x /\ 1 * x = x
      BY ONLY <1>5, <2>1
    <2>3. w % Order = 1 % Order
      BY <1>3, <2>1, InverseFacts, ModSmall
    <2>4. s % Order = y % Order
      BY <1>3, <2>1, ModMod
    <2> HIDE DEF i, w, y, s, x
    <2>5. (s * nonce) % Order = (y * nonce) % Order
      BY ONLY <2>1, <2>4, OrderTimes, Zenon
    <2>6. (w * x) % Order = (1 * x) % Order
      BY ONLY <1>5, <2>1, <2>3, 1 \in Int, OrderTimes, ZenonT(30)
    <2> QED  BY <2>2, <2>5, <2>6
  <1> HIDE DEF s, x
  <1>8. j \in Keys /\ low \in Keys /\ low <= LowHalf
    BY <1>6, LowHalfFacts, OrderFacts DEF Keys, LowHalf
  <1>9. (low * j) % Order = x % Order
    <2>1. ((Order - s) * (Order - nonce)) % Order = (s * nonce) % Order
      BY <1>6, TurnedProduct
    <2> QED  BY <1>7, <2>1
  <1>10. odd \in 0..1 /\ odd = Affine[j][2] % 2
    <2>1. Affine[nonce][2] % 2 # Affine[Order - nonce][2] % 2 /\ Affine[Order - nonce][2] \in Nat
      BY CurveAssumption DEF Keys
    <2> QED  BY <1>3, <2>1
  <1>11. Signed(k, message, nonce, sig, j)
    <2>1. sig.r = r /\ sig.s = low /\ sig.v = odd + high
      BY <1>2
    <2>2. odd + high \in 0..3 /\ (odd + high) % 2 = odd /\ (odd + high) \div 2 = IF p[1] >= Order THEN 1 ELSE 0
      BY <1>10
    <2>3. (low * j) % Order = (message + r * k) % Order
      BY <1>9 DEF x
    <2>4. j \in {nonce, Order - nonce}
      OBVIOUS
    <2> HIDE DEF j, low, odd, high, r
    <2>5. (sig.s * j) % Order = (message + sig.r * k) % Order
      BY <2>1, <2>3
    <2>6. sig.r = Affine[nonce][1] % Order
      BY <2>1 DEF r
    <2> QED  BY <1>2, <1>4, <1>8, <1>10, <2>1, <2>2, <2>4, <2>5, <2>6 DEF Signed
  <1> QED  BY <1>1, <1>11

(* The number whose point recovery finds is the one that was signed with. *)
LEMMA RecoveredPoint ==
    ASSUME NEW k \in Keys, NEW message \in Nat, NEW nonce \in Keys, NEW sig, NEW j,
           Signed(k, message, nonce, sig, j)
    PROVE  {i \in Keys : /\ Affine[i][1] = sig.r + (IF sig.v \div 2 = 1 THEN Order ELSE 0)
                         /\ Affine[i][2] % 2 = sig.v % 2} = {j}
  <1> DEFINE x == Affine[nonce][1]
  <1>1. x \in Nat /\ x < 2 * Order /\ Order \in Nat \ {0}
    BY CurveAssumption DEF Keys
  <1>2. sig.r + (IF sig.v \div 2 = 1 THEN Order ELSE 0) = x
    <2>1. CASE x >= Order
      <3>1. sig.v \div 2 = 1 /\ sig.r = x % Order
        BY <2>1 DEF Signed
      <3>2. x - Order \in 0..(Order - 1) /\ x = 1 * Order + (x - Order) /\ x \in Int /\ 1 \in Int
        BY <1>1, <2>1
      <3>3. x % Order = x - Order
        BY ONLY <1>1, <3>2, ModUnique
      <3> QED  BY <1>1, <3>1, <3>3
    <2>2. CASE ~(x >= Order)
      <3>1. sig.v \div 2 = 0 /\ sig.r = x % Order
        BY <2>2 DEF Signed
      <3>2. x \in 0..(Order - 1)
        BY <1>1, <2>2
      <3>3. x % Order = x
        BY <1>1, <3>2, ModSmall
      <3> QED  BY <1>1, <3>1, <3>3
    <2> QED  BY <2>1, <2>2
  <1>3. j \in Keys /\ j \in {nonce, Order - nonce} /\ sig.v % 2 = Affine[j][2] % 2
    BY DEF Signed
  <1>4. ASSUME NEW i \in Keys PROVE Affine[i][1] = x <=> i \in {nonce, Order - nonce}
    BY SameX
  <1>5. Affine[nonce][2] % 2 # Affine[Order - nonce][2] % 2
    BY CurveAssumption DEF Keys
  <1> QED  BY <1>2, <1>3, <1>4, <1>5

(* recover of what sign returned gives the signer's public key. *)
LEMMA RecoversSigner ==
    ASSUME NEW k \in Keys, NEW message \in Nat, NEW nonce \in Keys, NEW sig, NEW j,
           Signed(k, message, nonce, sig, j)
    PROVE  Recover(sig, message) = {Affine[k]}
  <1>0. sig.r \in Keys /\ sig.s \in Keys /\ j \in Keys
    BY DEF Signed
  <1>1. /\ sig.r \in Keys /\ sig.s \in Keys /\ sig.v \in 0..3 /\ j \in Keys
        /\ (sig.s * j) % Order = (message + sig.r * k) % Order
    BY DEF Signed
  <1>2. Parsed(sig) /\ sig.r # 0 /\ sig.s # 0
    BY <1>1, OrderFacts DEF Parsed, Keys
  <1> DEFINE y == sig.s * j + (Order - (message % Order))
             m == message % Order
             q == message \div Order
             b == sig.s * j
             c == sig.r * k
  <1>3. /\ sig.r \in Int /\ sig.s \in Int /\ j \in Int /\ k \in Int /\ message \in Int
        /\ Order \in Nat \ {0} /\ Order \in Int
    <2>1. sig.r \in Int /\ sig.s \in Int /\ j \in Int /\ k \in Int
      BY ONLY <1>0, k \in Keys, KeysAreInts, Zenon
    <2> QED  BY <2>1, OrderFacts
  <1>4. m \in Int /\ q \in Int /\ b \in Int /\ c \in Int /\ message = q * Order + m
    BY <1>3, DivMod
  <1>5. y % Order = c % Order
    <2>1. b % Order = (message + c) % Order
      BY <1>1
    <2>2. y = b + (Order - m)
      OBVIOUS
    <2> HIDE DEF m, q, b, c, y
    <2> DEFINE d == message + c
               e == Order - m
    <2>3. d \in Int /\ e \in Int
      BY <1>3, <1>4
    <2>4. d + e = c + (q + 1) * Order
      <3>1. (q + 1) * Order = q * Order + Order
        BY <1>3, <1>4
      <3> DEFINE t == q * Order
      <3>2. t \in Int /\ message = t + m
        BY <1>3, <1>4
      <3> HIDE DEF t
      <3>3. d + e = c + (t + Order)
        BY <1>3, <1>4, <3>2
      <3> QED  BY <3>1, <3>3 DEF t
    <2>5. b % Order = d % Order
      BY <2>1
    <2> HIDE DEF d, e
    <2>6. (b + e) % Order = (d + e) % Order
      BY ONLY <1>4, <2>3, <2>5, OrderPlus, Zenon
    <2>7. q + 1 \in Int /\ d + e \in Int
      BY <1>4, <2>3
    <2>8. (d + e) % Order = c % Order
      BY ONLY <1>3, <1>4, <2>4, <2>7, ModShift
    <2> QED  BY <2>2, <2>6, <2>8 DEF e
  <1>6. y \in Int
    <2> HIDE DEF b, m
    <2>1. b + (Order - m) \in Int
      BY <1>3, <1>4
    <2> QED  BY <2>1 DEF b, m
  <1> HIDE DEF y
  <1>7. (InverseOf(sig.r) * y) % Order = k % Order
    BY ONLY <1>1, <1>3, <1>5, <1>6, InverseUndoes DEF c
  <1>8. k % Order = k /\ k # 0
    BY <1>3, ModSmall DEF Keys
  <1>9. InverseOf(sig.r) * y \in Int
    <2>1. InverseOf(sig.r) \in Int
      BY <1>0, InverseIsKey, Zenon
    <2> QED  BY <1>6, <2>1
  <1>10. Multiple(InverseOf(sig.r) * y) = {Affine[k]}
    <2> DEFINE n == InverseOf(sig.r) * y
    <2>1. n \in Int /\ n % Order = k /\ n % Order # 0
      BY <1>7, <1>8, <1>9
    <2> HIDE DEF n
    <2>2. Multiple(n) = {Affine[k]}
      BY <2>1, MultipleFacts
    <2> QED  BY <2>2 DEF n
  <1>11. {i \in 1..(Order - 1) : /\ Affine[i][1] = sig.r + (IF sig.v \div 2 = 1 THEN Order ELSE 0)
                                /\ Affine[i][2] % 2 = sig.v % 2} = {j}
    BY RecoveredPoint DEF Keys
  <1>12. LibraryRecover(sig, message) =
            UNION {Multiple(InverseOf(sig.r) * (sig.s * i + (Order - (message % Order)))) : i \in {j}}
    BY <1>2, <1>11 DEF LibraryRecover
  <1>13. LibraryRecover(sig, message) = Multiple(InverseOf(sig.r) * y)
    BY <1>12 DEF y
  <1> QED  BY <1>2, <1>10, <1>13 DEF Recover

(* verify_public accepts it for the signer's public key. *)
LEMMA VerifiesSigner ==
    ASSUME NEW k \in Keys, NEW message \in Nat, NEW nonce \in Keys, NEW sig, NEW j,
           Signed(k, message, nonce, sig, j)
    PROVE  VerifyPublic(Affine[k], sig, message) = {TRUE}
  <1>0. sig.r \in Keys /\ sig.s \in Keys /\ j \in Keys
    BY DEF Signed
  <1>1. /\ sig.r \in Keys /\ sig.s \in Keys /\ sig.v \in 0..3 /\ j \in Keys /\ sig.s <= LowHalf
        /\ (sig.s * j) % Order = (message + sig.r * k) % Order
        /\ j \in {nonce, Order - nonce} /\ sig.r = Affine[nonce][1] % Order
    BY DEF Signed
  <1>2. Parsed(sig) /\ sig.r # 0 /\ sig.s # 0
    BY <1>1, OrderFacts DEF Parsed, Keys
  <1>3. PointOk(Affine[k]) /\ Log(Affine[k]) = k
    BY LogOf
  <1> DEFINE x == message + sig.r * k
             n == InverseOf(sig.s) * x
  <1>4. j \in Int /\ x \in Int /\ n \in Int /\ Order \in Nat \ {0}
    <2>1. sig.r \in Int /\ k \in Int /\ j \in Int /\ message \in Int /\ Order \in Nat \ {0}
      <3>1. sig.r \in Int /\ j \in Int /\ k \in Int
        BY ONLY <1>0, k \in Keys, KeysAreInts, Zenon
      <3> QED  BY <3>1, OrderFacts
    <2>2. InverseOf(sig.s) \in Int
      BY <1>0, InverseIsKey, Zenon
    <2>3. x \in Int
      BY <2>1
    <2> HIDE DEF x
    <2> QED  BY <2>1, <2>2, <2>3
  <1>5. n % Order = j % Order
    <2>1. x % Order = (sig.s * j) % Order
      BY <1>1
    <2> DEFINE k2 == sig.s
    <2> HIDE DEF x, k2
    <2>2. k2 \in Keys /\ x % Order = (k2 * j) % Order
      BY <1>0, <2>1 DEF k2
    <2>3. (InverseOf(k2) * x) % Order = j % Order
      BY ONLY <1>4, <2>2, InverseUndoes, ZenonT(60)
    <2> QED  BY <2>3 DEF k2
  <1>6. j % Order = j /\ j # 0
    BY <1>1, <1>4, ModSmall DEF Keys
  <1>7. Multiple(n) = {Affine[j]}
    <2> HIDE DEF n
    <2> QED  BY <1>4, <1>5, <1>6, MultipleFacts
  <1>8. Affine[j][1] = Affine[nonce][1]
    BY <1>1, SameX
  <1>9. \E q \in Multiple(InverseOf(sig.s) * (message + sig.r * Log(Affine[k]))) : q[1] % Order = sig.r
    BY <1>1, <1>3, <1>7, <1>8
  <1> QED  BY <1>1, <1>2, <1>3, <1>9 DEF VerifyPublic, LibraryVerify

(* For every curve of prime order, all messages and all nonces: what sign   *)
(* returns is low, survives Electrum's notation, recovers to the signer's   *)
(* public key and is accepted by verify_public and verify_address, and      *)
(* is_valid rejects it only for the recovery ids from 2 on.                 *)
THEOREM SignaturesStayAccepted == Spec => []SignaturesAccepted
  <1>1. Init => SignaturesAccepted
    BY DEF Init, SignaturesAccepted, NoCall
  <1>2. SignaturesAccepted /\ [Next]_vars => SignaturesAccepted'
    <2> SUFFICES ASSUME SignaturesAccepted, [Next]_vars PROVE SignaturesAccepted'
      OBVIOUS
    <2>1. CASE UNCHANGED call
      BY <2>1 DEF SignaturesAccepted
    <2>2. CASE call'.op # "sign"
      BY <2>2 DEF SignaturesAccepted
    <2>3. ASSUME NEW k \in Secrets, NEW message \in Messages, NEW nonce \in Keys,
                 SignMessage(k, message, nonce)
          PROVE  SignaturesAccepted'
      <3>1. PICK sig \in Sign(k, message, nonce) :
               call' = [op |-> "sign", s |-> k, message |-> message, sig |-> sig]
        BY <2>3 DEF SignMessage
      <3>2. message \in Nat
        BY CallsAssumption
      <3>3. PICK j : k \in Keys /\ Signed(k, message, nonce, sig, j)
        BY <3>2, SignFacts
      <3>4. /\ sig = [r |-> sig.r, s |-> sig.s, v |-> sig.v] /\ sig.v \in 0..3
            /\ sig.r \in Keys /\ sig.s \in Keys /\ sig.s <= LowHalf
        BY <3>3 DEF Signed
      <3>5. FromElectrum(IntoElectrum(sig)) = sig
        <4>1. IntoElectrum(sig) = [len |-> 65, r |-> sig.r, s |-> sig.s, v |-> sig.v + 27]
          BY <3>4 DEF IntoElectrum
        <4>2. ~(sig.v + 27 < 27) /\ (sig.v + 27) - 27 = sig.v
          BY <3>4
        <4> QED  BY <3>4, <4>1, <4>2 DEF FromElectrum
      <3>6. IsValid(sig) <=> sig.v < 2
        BY <3>4, OrderFacts DEF IsValid, Keys
      <3>7. Recover(sig, message) = {Affine[k]} /\ VerifyPublic(Affine[k], sig, message) = {TRUE}
        BY <3>2, <3>3, RecoversSigner, VerifiesSigner
      <3>8. \A i \in 1..(Order - 1) :
               VerifyAddress(AddressOf(Affine[i]), sig, message)
                 = {AddressOf(Affine[i]) = AddressOf(Affine[k])}
        BY <3>7 DEF VerifyAddress
      <3> QED  BY <3>1, <3>4, <3>5, <3>6, <3>7, <3>8 DEF SignaturesAccepted, FromRsv, IsLowS
    <2>4. CASE Derive
      BY <2>2, <2>4, DeriveForgets DEF NoCall
    <2>5. ASSUME NEW op \in {"add", "sub", "mul", "neg", "dec"}, NEW s, NEW o, Calculate(op, s, o)
          PROVE  call'.op # "sign"
      BY <2>5 DEF Calculate
    <2>6. ASSUME NEW s, NEW e, CalculatePow(s, e) PROVE call'.op # "sign"
      BY <2>6 DEF CalculatePow
    <2>7. ASSUME NEW s, NEW o, AgreeOn(s, o) PROVE call'.op # "sign"
      BY <2>7 DEF AgreeOn
    <2>8. ASSUME NEW s, NEW e, NEW auth, NEW plain, SealMessage(s, e, auth, plain)
          PROVE  call'.op # "sign"
      BY <2>8 DEF SealMessage
    <2>9. CASE Use
      BY <2>2, <2>3, <2>5, <2>6, <2>7, <2>8, <2>9 DEF Use, Keys
    <2> QED  BY <2>1, <2>4, <2>9 DEF Next, vars
  <1> QED  BY <1>1, <1>2, PTL DEF Spec
------------------------------------------------------------------------------
(* What an operation in place leaves, when the library's answer is n modulo the order. *)
Reduced(v, n) == IF n % Order = 0 THEN Failed(v) ELSE Done(n % Order)
ReducedPoint(p, n) == IF n % Order = 0 THEN Failed(p) ELSE Done(Affine[n % Order])

LEMMA InPlaceReduced ==
    ASSUME NEW v, NEW n
    PROVE  InPlace(v, {n % Order} \ {0}) = Reduced(v, n)
  <1>1. CASE n % Order = 0
    BY <1>1 DEF InPlace, Reduced
  <1>2. CASE n % Order # 0
    <2>1. {n % Order} \ {0} = {n % Order}
      BY <1>2
    <2> QED  BY <1>2, <2>1 DEF InPlace, Reduced
  <1> QED  BY <1>1, <1>2

LEMMA InPlacePoint ==
    ASSUME NEW p, NEW n \in Int
    PROVE  InPlace(p, Multiple(n)) = ReducedPoint(p, n)
  <1>1. CASE n % Order = 0
    BY <1>1, MultipleFacts DEF InPlace, ReducedPoint
  <1>2. CASE n % Order # 0
    BY <1>2, MultipleFacts DEF InPlace, ReducedPoint
  <1> QED  BY <1>1, <1>2

(* The public key of what an operation on secrets leaves. *)
PublicMatches(out, pub) ==
    /\ pub.ok <=> out.ok
    /\ pub.ok => {pub.self} = FromSecret(out.self)

LEMMA ReducedMatches ==
    ASSUME NEW v, NEW p, NEW n \in Int
    PROVE  PublicMatches(Reduced(v, n), ReducedPoint(p, n))
  <1>1. CASE n % Order = 0
    BY <1>1 DEF Reduced, ReducedPoint, Failed, PublicMatches
  <1>2. CASE n % Order # 0
    <2> DEFINE t == n % Order
    <2>1. t \in Keys
      BY <1>2, OrderMod
    <2> HIDE DEF t
    <2>2. t % Order = t /\ t \in Int /\ t # 0
      BY <2>1, OrderFacts, ModSmall DEF Keys
    <2>3. FromSecret(t) = {Affine[t]}
      BY <2>1, <2>2, MultipleFacts DEF FromSecret, KeyOk, Keys
    <2>4. Reduced(v, n) = Done(t) /\ ReducedPoint(p, n) = Done(Affine[t])
      BY <1>2 DEF Reduced, ReducedPoint, t
    <2> QED  BY <2>3, <2>4 DEF Done, PublicMatches
  <1> QED  BY <1>1, <1>2

(* The negation of a key, and of its point. *)
LEMMA NegatedKey ==
    ASSUME NEW k \in Keys
    PROVE  /\ MulAssign(k, MinusOneKey) = {Order - k} /\ Order - k \in Keys
           /\ PointMul(Affine[k], MinusOneKey) = {Affine[Order - k]}
           /\ (k * MinusOneKey) % Order = Order - k
  <1>1. 1 \in Keys /\ k \in Int /\ Order \in Nat \ {0} /\ k * 1 = k
    BY OrderFacts DEF Keys
  <1>2. (k * (Order - 1)) % Order = Order - ((k * 1) % Order) /\ Order - k \in Keys
    BY <1>1, NegatedProduct
  <1>3. k % Order = k
    BY <1>1, ModSmall DEF Keys
  <1> DEFINE n == k * MinusOneKey
  <1>4. n % Order = Order - k
    BY <1>1, <1>2, <1>3 DEF MinusOneKey
  <1>5. n \in Int
    BY <1>1 DEF MinusOneKey
  <1>6. Order - k # 0
    BY <1>2 DEF Keys
  <1>7. MulAssign(k, MinusOneKey) = {n % Order} \ {0}
    BY DEF MulAssign
  <1>8. PointMul(Affine[k], MinusOneKey) = Multiple(n)
    BY LogOf DEF PointMul
  <1> HIDE DEF n
  <1>9. Multiple(n) = {Affine[Order - k]}
    BY <1>4, <1>5, <1>6, MultipleFacts
  <1>10. {n % Order} \ {0} = {Order - k}
    BY <1>4, <1>6
  <1> QED  BY <1>2, <1>4, <1>7, <1>8, <1>9, <1>10 DEF n

(* What SecretMathExact says of one calculation. *)
MathOk(op, s, o, out, pub) ==
    /\ (s = 0 \/ KeyOk(s)) /\ (Unary(op) \/ o = 0 \/ KeyOk(o)) =>
          IF Cancels(op, s, o) THEN out = Failed(s) ELSE out = Done(Expected(op, s, o))
    /\ ~out.ok => out.self = s \/ (op = "sub" /\ s = 0 /\ ~KeyOk(o))
    /\ \A p \in pub : PublicMatches(out, p)

(* Two valid keys, whose answer is n modulo the order. *)
LEMMA ValidMath ==
    ASSUME NEW op, NEW s, NEW o, NEW out, NEW pub, NEW n \in Int, NEW p,
           out = Reduced(s, n), Expected(op, s, o) = n % Order,
           s # 0, o # 0 \/ op \in {"neg", "dec"},
           op \in {"add", "sub", "dec"} \/ n % Order # 0,
           pub = {} \/ pub = {ReducedPoint(p, n)}
    PROVE  MathOk(op, s, o, out, pub)
  <1>1. \A q \in pub : PublicMatches(out, q)
    BY ReducedMatches
  <1>2. CASE n % Order = 0
    <2>1. Cancels(op, s, o) /\ out = Failed(s)
      BY <1>2 DEF Cancels, Reduced
    <2>2. out.self = s
      BY <2>1 DEF Failed
    <2> QED  BY ONLY <1>1, <2>1, <2>2 DEF MathOk
  <1>3. CASE n % Order # 0
    <2>1. ~Cancels(op, s, o) /\ out = Done(n % Order)
      BY <1>3 DEF Cancels, Reduced
    <2>2. out.ok /\ out = Done(Expected(op, s, o))
      BY <2>1 DEF Done
    <2> QED  BY ONLY <1>1, <2>1, <2>2 DEF MathOk
  <1> QED  BY <1>2, <1>3

(* With a zero, or an invalid key, there are no public keys to compare. *)
LEMMA ZeroMath ==
    ASSUME NEW op, NEW s, NEW o, NEW out, ~Cancels(op, s, o), out = Done(Expected(op, s, o))
    PROVE  MathOk(op, s, o, out, {})
  <1>1. out.ok
    BY DEF Done
  <1> QED  BY ONLY <1>1, ~Cancels(op, s, o), out = Done(Expected(op, s, o)) DEF MathOk

LEMMA InvalidMath ==
    ASSUME NEW op, NEW s, NEW o, NEW out, out.self = s \/ out.ok \/ (op = "sub" /\ s = 0 /\ ~KeyOk(o)),
           ~(s = 0 \/ KeyOk(s)) \/ ~(Unary(op) \/ o = 0 \/ KeyOk(o))
    PROVE  MathOk(op, s, o, out, {})
  BY DEF MathOk

(* The public keys that are compared. *)
PublicsOf(op, s, o) == IF KeyOk(s) /\ KeyOk(o) THEN {BinaryPublic(op, s, o)} ELSE {}

LEMMA SecretFacts ==
    ASSUME NEW s \in Secrets
    PROVE  /\ s \in Nat /\ s \in Int /\ Order \in Int /\ Order \in Nat \ {0}
           /\ KeyOk(s) <=> s \in Keys
           /\ s \in Keys => s # 0 /\ s % Order = s /\ PointOk(Affine[s])
           /\ 0 % Order = 0 /\ ~KeyOk(0)
  <1>1. 0 \in 0..(Order - 1) /\ Order \in Nat \ {0}
    BY OrderFacts
  <1>2. 0 % Order = 0
    BY <1>1, ModSmall
  <1>3. s \in Keys => s # 0 /\ s % Order = s
    BY <1>1, ModSmall DEF Keys
  <1>4. s \in Nat
    BY CurveAssumption DEF Secrets
  <1> QED  BY <1>1, <1>2, <1>3, <1>4, LogOf DEF KeyOk, Keys

LEMMA AddExact ==
    ASSUME NEW s \in Secrets, NEW o \in Secrets
    PROVE  MathOk("add", s, o, SecretAdd(s, o), PublicsOf("add", s, o))
  <1> DEFINE out == SecretAdd(s, o)
  <1>0. Expected("add", s, o) = (s + o) % Order
    BY DEF Expected
  <1>1. CASE s \in Keys /\ o \in Keys
    <2>1. s # 0 /\ o # 0 /\ KeyOk(s) /\ KeyOk(o) /\ s + o \in Int /\ PointOk(Affine[s]) /\ PointOk(Affine[o])
      BY <1>1, SecretFacts
    <2>2. out = Reduced(s, s + o)
      BY <2>1, InPlaceReduced DEF SecretAdd, AddAssign
    <2>3. PublicsOf("add", s, o) = {ReducedPoint(Affine[s], s + o)}
      <3>1. BinaryPublic("add", s, o) = PublicAdd(Affine[s], Affine[o])
        BY DEF BinaryPublic
      <3>2. PublicAdd(Affine[s], Affine[o]) = InPlace(Affine[s], Multiple(s + o))
        BY <1>1, <2>1, CombineOf DEF PublicAdd
      <3> QED  BY <2>1, <3>1, <3>2, InPlacePoint DEF PublicsOf
    <2> QED  BY <1>0, <2>1, <2>2, <2>3, ValidMath
  <1>2. CASE s = 0 \/ o = 0
    <2>1. PublicsOf("add", s, o) = {} /\ ~Cancels("add", s, o)
      BY <1>2, SecretFacts DEF PublicsOf, Cancels
    <2>2. CASE (s = 0 \/ s \in Keys) /\ (o = 0 \/ o \in Keys)
      <3>1. out = Done((s + o) % Order)
        <4>1. (s + o) % Order = s + o
          BY <1>2, <2>2, SecretFacts
        <4>2. out = Done(s + o)
          <5>1. CASE o = 0
            BY <5>1, SecretFacts DEF SecretAdd
          <5>2. CASE o # 0 /\ s = 0
            BY <5>2, SecretFacts DEF SecretAdd
          <5> QED  BY <1>2, <5>1, <5>2
        <4> QED  BY <4>1, <4>2
      <3> QED  BY <1>0, <2>1, <3>1, ZeroMath
    <2>3. CASE ~((s = 0 \/ s \in Keys) /\ (o = 0 \/ o \in Keys))
      <3>1. out.ok
        <4>1. CASE o = 0
          BY <4>1 DEF SecretAdd, Done
        <4>2. CASE o # 0 /\ s = 0
          BY <4>2 DEF SecretAdd, Done
        <4> QED  BY <1>2, <4>1, <4>2
      <3>2. ~(s = 0 \/ KeyOk(s)) \/ ~(Unary("add") \/ o = 0 \/ KeyOk(o))
        BY <2>3, SecretFacts DEF Unary
      <3> QED  BY <2>1, <3>1, <3>2, InvalidMath
    <2> QED  BY <2>2, <2>3
  <1>3. CASE s # 0 /\ o # 0 /\ ~(s \in Keys /\ o \in Keys)
    <2>1. PublicsOf("add", s, o) = {} /\ out = Failed(s)
      BY <1>3, SecretFacts DEF PublicsOf, SecretAdd
    <2>2. ~(s = 0 \/ KeyOk(s)) \/ ~(Unary("add") \/ o = 0 \/ KeyOk(o))
      BY <1>3, SecretFacts DEF Unary
    <2>3. out.self = s
      BY <2>1 DEF Failed
    <2> QED  BY <2>1, <2>2, <2>3, InvalidMath
  <1> QED  BY <1>1, <1>2, <1>3

(* What stays where a secret is not a key, for the operations of two secrets. *)
LEMMA InvalidBinary ==
    ASSUME NEW op, op \in {"add", "sub", "mul"}, NEW s \in Secrets, NEW o \in Secrets, NEW out,
           s # 0, o # 0, ~(s \in Keys /\ o \in Keys), out = Failed(s)
    PROVE  MathOk(op, s, o, out, PublicsOf(op, s, o))
  <1>1. PublicsOf(op, s, o) = {}
    BY SecretFacts DEF PublicsOf
  <1>2. ~(s = 0 \/ KeyOk(s)) \/ ~(Unary(op) \/ o = 0 \/ KeyOk(o))
    BY SecretFacts DEF Unary
  <1>3. out.self = s
    BY DEF Failed
  <1> QED  BY <1>1, <1>2, <1>3, InvalidMath

LEMMA SubExact ==
    ASSUME NEW s \in Secrets, NEW o \in Secrets
    PROVE  MathOk("sub", s, o, SecretSub(s, o), PublicsOf("sub", s, o))
  <1> DEFINE out == SecretSub(s, o)
  <1>0. Expected("sub", s, o) = (s + Order - o) % Order
    BY DEF Expected
  <1>1. CASE s \in Keys /\ o \in Keys
    <2>1. s # 0 /\ o # 0 /\ KeyOk(s) /\ KeyOk(o) /\ PointOk(Affine[s]) /\ PointOk(Affine[o])
      BY <1>1, SecretFacts
    <2> DEFINE m == Order - o
               n == s + m
    <2>2. m \in Keys /\ n \in Int /\ n = s + Order - o
      BY <1>1, SecretFacts, NegatedKey
    <2>3. MulAssign(o, MinusOneKey) = {m} /\ PointMul(Affine[o], MinusOneKey) = {Affine[m]}
      BY <1>1, NegatedKey
    <2>4. out = Reduced(s, n)
      <3>1. UNION {AddAssign(s, i) : i \in {m}} = AddAssign(s, m)
        OBVIOUS
      <3>2. out = InPlace(s, AddAssign(s, m))
        BY <2>1, <2>3, <3>1 DEF SecretSub
      <3> QED  BY <3>2, InPlaceReduced DEF AddAssign
    <2>5. PublicsOf("sub", s, o) = {ReducedPoint(Affine[s], n)}
      <3>1. BinaryPublic("sub", s, o) = PublicSub(Affine[s], Affine[o])
        BY DEF BinaryPublic
      <3>2. UNION {Combine(Affine[s], i) : i \in {Affine[m]}} = Combine(Affine[s], Affine[m])
        OBVIOUS
      <3>3. PublicSub(Affine[s], Affine[o]) = InPlace(Affine[s], Combine(Affine[s], Affine[m]))
        BY <2>1, <2>3, <3>2 DEF PublicSub
      <3>4. Combine(Affine[s], Affine[m]) = Multiple(n)
        BY <1>1, <2>2, CombineOf
      <3> QED  BY <2>1, <2>2, <3>1, <3>3, <3>4, InPlacePoint DEF PublicsOf
    <2>6. Expected("sub", s, o) = n % Order
      BY <1>0, <2>2
    <2> HIDE DEF n, m
    <2> QED  BY <2>1, <2>2, <2>4, <2>5, <2>6, ValidMath
  <1>2. CASE s = 0 \/ o = 0
    <2>1. PublicsOf("sub", s, o) = {} /\ ~Cancels("sub", s, o)
      BY <1>2, SecretFacts DEF PublicsOf, Cancels
    <2>2. CASE o = 0 /\ (s = 0 \/ s \in Keys)
      <3>1. out = Done(s)
        BY <2>2 DEF SecretSub
      <3>2. s \in 0..(Order - 1)
        BY <2>2, OrderFacts DEF Keys
      <3>3. s + Order - o = s + 1 * Order /\ s + Order - o \in Int /\ 1 \in Int
        BY <2>2, SecretFacts
      <3>4. s \in Int /\ Order \in Nat \ {0}
        BY SecretFacts
      <3>5. (s + Order - o) % Order = s % Order
        BY ONLY <3>3, <3>4, ModShift, Zenon
      <3>6. s % Order = s
        BY <3>2, SecretFacts, ModSmall
      <3> QED  BY <1>0, <2>1, <3>1, <3>5, <3>6, ZeroMath
    <2>3. CASE s = 0 /\ o \in Keys
      <3>1. out = SecretNeg(o) /\ o # 0 /\ KeyOk(o)
        BY <2>3, SecretFacts DEF SecretSub
      <3>2. SecretNeg(o) = InPlace(o, {Order - o})
        BY <2>3, <3>1, NegatedKey DEF SecretNeg
      <3>3. out = Done(Order - o)
        BY <3>1, <3>2 DEF InPlace
      <3>4. Order - o \in Keys
        BY <2>3, NegatedKey
      <3>5. (Order - o) % Order = Order - o
        BY <3>4, SecretFacts, ModSmall DEF Keys
      <3>6. s + Order - o = Order - o
        BY <2>3, SecretFacts
      <3> QED  BY <1>0, <2>1, <3>3, <3>5, <3>6, ZeroMath
    <2>4. CASE o = 0 /\ ~(s = 0 \/ s \in Keys)
      <3>1. out.ok
        BY <2>4 DEF SecretSub, Done
      <3>2. ~(s = 0 \/ KeyOk(s))
        BY <2>4, SecretFacts
      <3> QED  BY <2>1, <3>1, <3>2, InvalidMath
    <2>5. CASE s = 0 /\ o # 0 /\ o \notin Keys
      <3>1. ~(Unary("sub") \/ o = 0 \/ KeyOk(o)) /\ ~KeyOk(o)
        BY <2>5, SecretFacts DEF Unary
      <3> QED  BY <2>1, <2>5, <3>1, InvalidMath
    <2> QED  BY <1>2, <2>2, <2>3, <2>4, <2>5
  <1>3. CASE s # 0 /\ o # 0 /\ ~(s \in Keys /\ o \in Keys)
    <2>1. out = Failed(s)
      BY <1>3, SecretFacts DEF SecretSub
    <2> QED  BY <1>3, <2>1, InvalidBinary
  <1> QED  BY <1>1, <1>2, <1>3

LEMMA MulExact ==
    ASSUME NEW s \in Secrets, NEW o \in Secrets
    PROVE  MathOk("mul", s, o, SecretMul(s, o), PublicsOf("mul", s, o))
  <1> DEFINE out == SecretMul(s, o)
             n == s * o
  <1>0. Expected("mul", s, o) = n % Order
    BY DEF Expected
  <1>1. CASE s \in Keys /\ o \in Keys
    <2>1. s # 0 /\ o # 0 /\ KeyOk(s) /\ KeyOk(o) /\ PointOk(Affine[s]) /\ PointOk(Affine[o])
      BY <1>1, SecretFacts
    <2>2. n \in Int /\ n % Order \in Keys
      BY <1>1, ProductIsKey
    <2>3. out = InPlace(s, {n % Order} \ {0})
      BY <2>1 DEF SecretMul, MulAssign
    <2>4. BinaryPublic("mul", s, o) = PublicMulSecret(Affine[s], o)
      BY DEF BinaryPublic
    <2>5. PublicMulSecret(Affine[s], o) = InPlace(Affine[s], Multiple(n))
      BY <1>1, <2>1, LogOf DEF PublicMulSecret, PointMul
    <2> HIDE DEF n
    <2>6. out = Reduced(s, n)
      BY <2>3, InPlaceReduced
    <2>7. PublicsOf("mul", s, o) = {ReducedPoint(Affine[s], n)}
      BY <2>1, <2>2, <2>4, <2>5, InPlacePoint DEF PublicsOf
    <2>8. n % Order # 0
      BY <2>2, OrderFacts DEF Keys
    <2> QED  BY <1>0, <2>1, <2>2, <2>6, <2>7, <2>8, ValidMath
  <1>2. CASE s = 0 \/ o = 0
    <2>1. PublicsOf("mul", s, o) = {} /\ ~Cancels("mul", s, o)
      BY <1>2, SecretFacts DEF PublicsOf, Cancels
    <2>2. out = Done(0)
      BY <1>2 DEF SecretMul
    <2>3. n = 0
      BY <1>2, SecretFacts
    <2>4. n % Order = 0
      BY <2>3, SecretFacts
    <2> QED  BY <1>0, <2>1, <2>2, <2>4, ZeroMath
  <1>3. CASE s # 0 /\ o # 0 /\ ~(s \in Keys /\ o \in Keys)
    <2>1. out = Failed(s)
      BY <1>3, SecretFacts DEF SecretMul
    <2> QED  BY <1>3, <2>1, InvalidBinary
  <1> QED  BY <1>1, <1>2, <1>3

LEMMA NegExact ==
    ASSUME NEW s \in Secrets, NEW o \in Secrets
    PROVE  MathOk("neg", s, o, SecretNeg(s), PublicsOf("neg", s, o))
  <1> DEFINE out == SecretNeg(s)
  <1>0. Expected("neg", s, o) = (Order - s) % Order
    BY DEF Expected
  <1>1. CASE s \in Keys
    <2>1. s # 0 /\ KeyOk(s) /\ PointOk(Affine[s])
      BY <1>1, SecretFacts
    <2> DEFINE n == Order - s
    <2>2. n \in Keys /\ n \in Int /\ n # 0
      BY <1>1, NegatedKey, OrderFacts DEF Keys
    <2>3. out = InPlace(s, {n})
      BY <1>1, <2>1, NegatedKey DEF SecretNeg
    <2>4. BinaryPublic("neg", s, o) = PublicNegate(Affine[s])
      BY DEF BinaryPublic
    <2>5. PublicNegate(Affine[s]) = InPlace(Affine[s], {Affine[n]})
      BY <1>1, <2>1, NegatedKey DEF PublicNegate
    <2> HIDE DEF n
    <2>6. n % Order = n
      BY <2>2, SecretFacts, ModSmall DEF Keys
    <2>7. out = Reduced(s, n)
      BY <2>2, <2>3, <2>6 DEF Reduced, InPlace
    <2>8. PublicNegate(Affine[s]) = ReducedPoint(Affine[s], n)
      BY <2>2, <2>5, <2>6 DEF ReducedPoint, InPlace
    <2>9. PublicsOf("neg", s, o) \in {{}, {ReducedPoint(Affine[s], n)}}
      BY <2>4, <2>8 DEF PublicsOf
    <2>10. Expected("neg", s, o) = n % Order
      BY <1>0 DEF n
    <2> QED  BY <2>1, <2>2, <2>6, <2>7, <2>9, <2>10, ValidMath
  <1>2. CASE s = 0
    <2>1. PublicsOf("neg", s, o) = {} /\ ~Cancels("neg", s, o)
      BY <1>2, SecretFacts DEF PublicsOf, Cancels
    <2>2. out = Done(0)
      BY <1>2 DEF SecretNeg
    <2>3. Order - s = 0 + 1 * Order /\ Order - s \in Int
      BY <1>2, SecretFacts
    <2>4. (Order - s) % Order = 0
      BY <2>3, SecretFacts, ModShift
    <2> QED  BY <1>0, <2>1, <2>2, <2>4, ZeroMath
  <1>3. CASE s # 0 /\ s \notin Keys
    <2>1. PublicsOf("neg", s, o) = {} /\ ~KeyOk(s)
      BY <1>3, SecretFacts DEF PublicsOf
    <2>2. out = Failed(s)
      BY <1>3, <2>1 DEF SecretNeg
    <2>3. out.self = s
      BY <2>2 DEF Failed
    <2> QED  BY <1>3, <2>1, <2>3, InvalidMath
  <1> QED  BY <1>1, <1>2, <1>3

LEMMA DecExact ==
    ASSUME NEW s \in Secrets, NEW o \in Secrets
    PROVE  MathOk("dec", s, o, SecretDec(s), PublicsOf("dec", s, o))
  <1> DEFINE out == SecretDec(s)
  <1>0. Expected("dec", s, o) = (s + Order - 1) % Order
    BY DEF Expected
  <1>1. CASE s \in Keys
    <2>1. s # 0 /\ KeyOk(s) /\ PointOk(Affine[s]) /\ 1 \in Keys /\ PointOk(Affine[1])
      BY <1>1, SecretFacts, LogOf, OrderFacts DEF Keys
    <2> DEFINE m == Order - 1
               n == s + m
    <2>2. m \in Keys /\ n \in Int /\ n = s + Order - 1
      BY <2>1, SecretFacts, NegatedKey
    <2>3. PointMul(Affine[1], MinusOneKey) = {Affine[m]}
      BY <2>1, NegatedKey
    <2>4. out = Reduced(s, n)
      <3>1. out = InPlace(s, AddAssign(s, m))
        BY <2>1 DEF SecretDec, MinusOneKey
      <3> QED  BY <3>1, InPlaceReduced DEF AddAssign
    <2>5. PublicsOf("dec", s, o) \in {{}, {ReducedPoint(Affine[s], n)}}
      <3>1. BinaryPublic("dec", s, o) = PublicSub(Affine[s], Affine[1])
        BY DEF BinaryPublic, GenerationPoint
      <3>2. UNION {Combine(Affine[s], i) : i \in {Affine[m]}} = Combine(Affine[s], Affine[m])
        OBVIOUS
      <3>3. PublicSub(Affine[s], Affine[1]) = InPlace(Affine[s], Combine(Affine[s], Affine[m]))
        BY <2>1, <2>3, <3>2 DEF PublicSub
      <3>4. Combine(Affine[s], Affine[m]) = Multiple(n)
        BY <1>1, <2>2, CombineOf
      <3> QED  BY <2>2, <3>1, <3>3, <3>4, InPlacePoint DEF PublicsOf
    <2>6. Expected("dec", s, o) = n % Order
      BY <1>0, <2>2
    <2> HIDE DEF n, m
    <2> QED  BY <2>1, <2>2, <2>4, <2>5, <2>6, ValidMath
  <1>2. CASE s = 0
    <2>1. PublicsOf("dec", s, o) = {} /\ ~Cancels("dec", s, o)
      BY <1>2, SecretFacts DEF PublicsOf, Cancels
    <2>2. out = Done(Order - 1)
      BY <1>2 DEF SecretDec, MinusOneKey
    <2>3. s + Order - 1 = Order - 1 /\ Order - 1 \in 0..(Order - 1)
      BY <1>2, OrderFacts
    <2>4. (Order - 1) % Order = Order - 1
      BY <2>3, SecretFacts, ModSmall
    <2> QED  BY <1>0, <2>1, <2>2, <2>3, <2>4, ZeroMath
  <1>3. CASE s # 0 /\ s \notin Keys
    <2>1. PublicsOf("dec", s, o) = {} /\ ~KeyOk(s)
      BY <1>3, SecretFacts DEF PublicsOf
    <2>2. out = Failed(s)
      BY <1>3, <2>1 DEF SecretDec
    <2>3. out.self = s
      BY <2>2 DEF Failed
    <2> QED  BY <1>3, <2>1, <2>3, InvalidMath
  <1> QED  BY <1>1, <1>2, <1>3

(* Induction over the naturals, for a set of them. *)
LEMMA AllNaturals ==
    ASSUME NEW S \in SUBSET Nat, 0 \in S, \A n \in S : n + 1 \in S
    PROVE  S = Nat
  <1> DEFINE Less == {ss \in Nat \X Nat : ss[1] < ss[2]}
             Bad == Nat \ S
  <1>1. IsWellFoundedOn(Less, Nat)
    BY ONLY NatLessThanWellFounded, Zenon DEF OpToRel
  <1>2. \A x, y \in Nat : y < x => <<y, x>> \in Less
    OBVIOUS
  <1>3. SUFFICES ASSUME Bad # {} PROVE FALSE
    OBVIOUS
  <1> HIDE DEF Less
  <1>4. Bad \in SUBSET Nat
    OBVIOUS
  <1> HIDE DEF Bad
  <1>5. PICK x \in Bad : \A y \in Bad : ~(<<y, x>> \in Less)
    BY <1>1, <1>3, <1>4, WFMin
  <1>6. x \in Nat /\ x # 0 /\ x - 1 \in Nat /\ x - 1 < x /\ (x - 1) + 1 = x
    BY <1>5 DEF Bad
  <1>7. x - 1 \in S
    BY <1>2, <1>5, <1>6 DEF Bad
  <1> QED  BY <1>5, <1>6, <1>7 DEF Bad

(* The powers of s up to the n-th, each from the one before. *)
ArePowers(f, s, n) == f = [i \in 0..n |-> IF i = 0 THEN 1 ELSE f[i - 1] * s]

Powers(s, n) == CHOOSE f : ArePowers(f, s, n)

LEMMA PowersExist ==
    ASSUME NEW s \in Int, NEW n \in Nat
    PROVE  ArePowers(Powers(s, n), s, n)
  <1> DEFINE Good == {m \in Nat : \E f : ArePowers(f, s, m)}
  <1>1. 0 \in Good
    <2> DEFINE f == [i \in 0..0 |-> 1]
    <2>1. ArePowers(f, s, 0)
      BY DEF ArePowers
    <2> QED  BY <2>1
  <1>2. ASSUME NEW m \in Good PROVE m + 1 \in Good
    <2>1. PICK f : ArePowers(f, s, m)
      BY <1>2
    <2>2. m \in Nat
      OBVIOUS
    <2> DEFINE g == [i \in 0..(m + 1) |-> IF i = 0 THEN 1 ELSE f[i - 1] * s]
    <2>3. ASSUME NEW i \in 0..m PROVE g[i] = f[i]
      BY <2>1, <2>2 DEF ArePowers
    <2>4. ASSUME NEW i \in 0..(m + 1), i # 0 PROVE g[i - 1] = f[i - 1]
      <3>1. i - 1 \in 0..m
        BY <2>2, <2>4
      <3> HIDE DEF g
      <3> QED  BY <2>3, <3>1
    <2>5. g = [i \in 0..(m + 1) |-> IF i = 0 THEN 1 ELSE g[i - 1] * s]
      BY <2>4
    <2>6. ArePowers(g, s, m + 1)
      BY <2>5 DEF ArePowers
    <2> QED  BY <2>2, <2>6
  <1>3. Good \in SUBSET Nat
    OBVIOUS
  <1> HIDE DEF Good
  <1>4. Good = Nat
    BY <1>1, <1>2, <1>3, AllNaturals
  <1>5. \E f : ArePowers(f, s, n)
    BY <1>4 DEF Good
  <1> QED  BY <1>5 DEF Powers

(* A key's powers are keys, each the one before times the key. *)
LEMMA KeyPowers ==
    ASSUME NEW s \in Keys, NEW n \in Nat, NEW i \in 0..n
    PROVE  /\ Powers(s, n)[i] \in Int
           /\ (Powers(s, n)[i] * s) % Order \in Keys
           /\ i = 0 => Powers(s, n)[i] = 1
           /\ i # 0 => /\ Powers(s, n)[i] = Powers(s, n)[i - 1] * s
                       /\ (Powers(s, n)[i] * s) % Order =
                            (((Powers(s, n)[i - 1] * s) % Order) * s) % Order
  <1> DEFINE p == Powers(s, n)
  <1>1. s \in Int /\ s % Order = s /\ 1 * s = s /\ Order \in Nat \ {0}
    BY OrderFacts, ModSmall DEF Keys
  <1>2. ArePowers(p, s, n)
    BY <1>1, PowersExist
  <1> HIDE DEF p
  <1>3. ASSUME NEW j \in 0..n PROVE p[j] = IF j = 0 THEN 1 ELSE p[j - 1] * s
    BY <1>2 DEF ArePowers
  <1> DEFINE Good == {j \in Nat : j \in 0..n => p[j] \in Int /\ (p[j] * s) % Order \in Keys}
  <1>4. 0 \in Good
    BY <1>1, <1>3
  <1>5. ASSUME NEW j \in Nat, j + 1 \in 0..n, p[j] \in Int, (p[j] * s) % Order \in Keys
        PROVE  /\ p[j + 1] \in Int /\ p[j + 1] = p[j] * s
               /\ (p[j + 1] * s) % Order = (((p[j] * s) % Order) * s) % Order
               /\ (p[j + 1] * s) % Order \in Keys
    <2>1. p[j + 1] = p[j] * s
      <3>1. j + 1 # 0 /\ (j + 1) - 1 = j
        OBVIOUS
      <3> QED  BY <1>3, <1>5, <3>1
    <2> DEFINE a == p[j] * s
               t == a % Order
    <2>2. a \in Int
      BY <1>1, <1>5
    <2>3. t \in Keys
      BY <1>5
    <2> HIDE DEF a
    <2>4. t \in Int
      BY <2>3, KeysAreInts, Zenon
    <2>5. t % Order = a % Order
      BY <1>1, <2>2, ModMod
    <2>6. (t * s) % Order = (a * s) % Order
      BY ONLY <1>1, <2>2, <2>4, <2>5, OrderTimes, Zenon
    <2>7. (t * s) % Order \in Keys
      BY <2>3, ProductIsKey, Zenon
    <2>8. p[j + 1] = a
      BY <2>1 DEF a
    <2>9. p[j + 1] \in Int /\ (p[j + 1] * s) % Order = (t * s) % Order /\ (p[j + 1] * s) % Order \in Keys
      BY <2>2, <2>6, <2>7, <2>8
    <2> QED  BY <2>1, <2>9 DEF a
  <1>6. ASSUME NEW j \in Good PROVE j + 1 \in Good
    <2>1. j \in Nat /\ (j \in 0..n => p[j] \in Int /\ (p[j] * s) % Order \in Keys)
      OBVIOUS
    <2> HIDE DEF Good
    <2>2. SUFFICES ASSUME j + 1 \in 0..n PROVE p[j + 1] \in Int /\ (p[j + 1] * s) % Order \in Keys
      BY <2>1 DEF Good
    <2>3. j \in 0..n
      BY <2>1, <2>2
    <2> QED  BY <1>5, <2>1, <2>2, <2>3
  <1>7. Good \in SUBSET Nat
    OBVIOUS
  <1> HIDE DEF Good
  <1>8. Good = Nat
    BY <1>4, <1>6, <1>7, AllNaturals
  <1>9. ASSUME NEW j \in 0..n PROVE p[j] \in Int /\ (p[j] * s) % Order \in Keys
    BY <1>8 DEF Good
  <1>10. CASE i = 0
    BY <1>3, <1>9, <1>10 DEF p
  <1>11. CASE i # 0
    <2> DEFINE j == i - 1
    <2>1. j \in 0..n /\ j \in Nat /\ j + 1 = i
      BY <1>11
    <2> HIDE DEF j
    <2>2. p[i] = p[j] * s /\ (p[i] * s) % Order = (((p[j] * s) % Order) * s) % Order
      BY <1>5, <1>9, <2>1
    <2> QED  BY <1>9, <1>11, <2>2 DEF p, j
  <1> QED  BY <1>10, <1>11

(* What the multiplications of pow leave, one after another. *)
AreProducts(f, s, n) ==
    f = [i \in 0..n |->
            IF i = 0 THEN Done(s)
            ELSE IF f[i - 1].ok THEN SecretMul(f[i - 1].self, s) ELSE f[i - 1]]

Products(s, n) == CHOOSE f : AreProducts(f, s, n)

(* Only one function is built that way: each value follows from the one before. *)
LEMMA ProductsUnique ==
    ASSUME NEW s, NEW n \in Nat, NEW w, AreProducts(w, s, n), NEW i \in 0..n
    PROVE  Products(s, n)[i] = w[i]
  <1> DEFINE f == Products(s, n)
  <1>1. AreProducts(f, s, n)
    BY DEF Products
  <1> HIDE DEF f
  <1> DEFINE From(r) == IF r.ok THEN SecretMul(r.self, s) ELSE r
  <1>2. ASSUME NEW j \in 0..n
        PROVE  /\ f[j] = IF j = 0 THEN Done(s) ELSE From(f[j - 1])
               /\ w[j] = IF j = 0 THEN Done(s) ELSE From(w[j - 1])
    BY <1>1 DEF AreProducts
  <1> HIDE DEF From
  <1> DEFINE Good == {j \in Nat : j \in 0..n => f[j] = w[j]}
  <1>3. 0 \in Good
    BY <1>2
  <1>4. ASSUME NEW j \in Good PROVE j + 1 \in Good
    <2>1. j \in Nat /\ (j \in 0..n => f[j] = w[j])
      OBVIOUS
    <2> HIDE DEF Good
    <2>2. SUFFICES ASSUME j + 1 \in 0..n PROVE f[j + 1] = w[j + 1]
      BY <2>1 DEF Good
    <2>3. j \in 0..n /\ j + 1 # 0 /\ (j + 1) - 1 = j
      BY <2>1, <2>2
    <2> QED  BY <1>2, <2>1, <2>2, <2>3
  <1>5. Good \in SUBSET Nat
    OBVIOUS
  <1> HIDE DEF Good
  <1>6. Good = Nat
    BY <1>3, <1>4, <1>5, AllNaturals
  <1> QED  BY <1>6 DEF Good, f

(* A key times a key. *)
LEMMA MulKeys ==
    ASSUME NEW j \in Keys, NEW k \in Keys
    PROVE  SecretMul(j, k) = Done((j * k) % Order)
  <1> DEFINE n == j * k
  <1>1. j # 0 /\ k # 0 /\ KeyOk(j) /\ KeyOk(k)
    BY OrderFacts DEF Keys, KeyOk
  <1>2. SecretMul(j, k) = InPlace(j, {n % Order} \ {0})
    BY <1>1 DEF SecretMul, MulAssign
  <1>3. n % Order \in Keys
    BY ProductIsKey
  <1> HIDE DEF n
  <1>4. n % Order # 0
    BY <1>3 DEF Keys
  <1>5. SecretMul(j, k) = Done(n % Order)
    BY <1>2, <1>4, InPlaceReduced DEF Reduced
  <1> QED  BY <1>5 DEF n

LEMMA KeyProducts ==
    ASSUME NEW s \in Keys, NEW n \in Nat, NEW i \in 0..n
    PROVE  Products(s, n)[i] = Done((Powers(s, n)[i] * s) % Order)
  <1> DEFINE At(j) == (Powers(s, n)[j] * s) % Order
             w == [j \in 0..n |-> Done(At(j))]
  <1>1. ASSUME NEW j \in 0..n PROVE At(j) \in Keys
    BY KeyPowers
  <1>2. At(0) = s
    <2>1. 0 \in 0..n
      OBVIOUS
    <2>2. Powers(s, n)[0] = 1
      BY <2>1, KeyPowers
    <2>3. 1 * s = s /\ s % Order = s
      BY OrderFacts, ModSmall DEF Keys
    <2> QED  BY <2>2, <2>3
  <1>3. ASSUME NEW j \in 0..n, j # 0 PROVE At(j) = (At(j - 1) * s) % Order
    BY <1>3, KeyPowers
  <1> HIDE DEF At
  <1>4. ASSUME NEW j \in 0..n, j # 0
        PROVE  w[j] = IF w[j - 1].ok THEN SecretMul(w[j - 1].self, s) ELSE w[j - 1]
    <2>1. j - 1 \in 0..n
      BY <1>4
    <2>2. w[j - 1] = Done(At(j - 1)) /\ w[j] = Done(At(j))
      BY <2>1
    <2>3. w[j - 1].ok /\ w[j - 1].self = At(j - 1)
      BY <2>2 DEF Done
    <2>4. SecretMul(At(j - 1), s) = Done((At(j - 1) * s) % Order)
      BY <1>1, <2>1, MulKeys
    <2> HIDE DEF w
    <2> QED  BY <1>3, <1>4, <2>2, <2>3, <2>4
  <1>5. w[0] = Done(s)
    BY <1>2
  <1>6. w = [j \in 0..n |-> w[j]]
    OBVIOUS
  <1> HIDE DEF w
  <1>7. AreProducts(w, s, n)
    BY <1>4, <1>5, <1>6 DEF AreProducts
  <1>8. Products(s, n)[i] = w[i]
    BY <1>7, ProductsUnique
  <1> QED  BY <1>8 DEF w, At

(* The first multiplication of an invalid key fails, and leaves it. *)
LEMMA InvalidProducts ==
    ASSUME NEW s, s # 0, ~KeyOk(s), NEW n \in Nat, NEW i \in 0..n
    PROVE  Products(s, n)[i].self = s
  <1> DEFINE w == [j \in 0..n |-> IF j = 0 THEN Done(s) ELSE Failed(s)]
  <1>1. SecretMul(s, s) = Failed(s)
    BY DEF SecretMul
  <1>2. ASSUME NEW j \in 0..n, j # 0
        PROVE  w[j] = IF w[j - 1].ok THEN SecretMul(w[j - 1].self, s) ELSE w[j - 1]
    <2>1. j - 1 \in 0..n
      BY <1>2
    <2>2. w[j - 1] \in {Done(s), Failed(s)} /\ w[j] = Failed(s)
      BY <1>2, <2>1
    <2> HIDE DEF w
    <2>3. CASE w[j - 1] = Done(s)
      BY <1>1, <2>2, <2>3 DEF Done
    <2>4. CASE w[j - 1] = Failed(s)
      BY <2>2, <2>4 DEF Failed
    <2> QED  BY <2>2, <2>3, <2>4
  <1>3. w[0] = Done(s) /\ w = [j \in 0..n |-> w[j]] /\ w[i] \in {Done(s), Failed(s)}
    OBVIOUS
  <1> HIDE DEF w
  <1>4. AreProducts(w, s, n)
    BY <1>2, <1>3 DEF AreProducts
  <1>5. Products(s, n)[i] = w[i]
    BY <1>4, ProductsUnique
  <1> QED  BY <1>3, <1>5 DEF Done, Failed

LEMMA PowExact ==
    ASSUME NEW s \in Secrets, NEW e \in Nat
    PROVE  MathOk("pow", s, e, SecretPow(s, e), {})
  <1> DEFINE out == SecretPow(s, e)
  <1>0. /\ Expected("pow", s, e) = IF s = 0 THEN 0 ELSE Power(s, e) % Order
        /\ ~Cancels("pow", s, e)
    BY DEF Expected, Cancels
  <1>1. Power(s, e) = Powers(s, e)[e]
    BY DEF Power, Powers, ArePowers
  <1>2. CASE s = 0
    <2>1. out = Done(s)
      BY <1>2 DEF SecretPow
    <2> QED  BY <1>0, <1>2, <2>1, ZeroMath
  <1>3. CASE s # 0 /\ e = 0
    <2>1. out = Done(1)
      BY <1>3 DEF SecretPow
    <2>2. CASE s \in Keys
      <3>1. e \in 0..e
        OBVIOUS
      <3>2. Powers(s, e)[e] = 1
        BY <1>3, <2>2, <3>1, KeyPowers
      <3>3. 1 % Order = 1
        <4>1. 1 \in 0..(Order - 1) /\ Order \in Nat \ {0}
          BY OrderFacts
        <4> QED  BY <4>1, ModSmall
      <3> QED  BY <1>0, <1>1, <1>3, <2>1, <3>2, <3>3, ZeroMath
    <2>3. CASE s \notin Keys
      <3>1. ~(s = 0 \/ KeyOk(s)) /\ out.ok
        BY <1>3, <2>1, <2>3, SecretFacts DEF Done
      <3> QED  BY <3>1, InvalidMath
    <2> QED  BY <2>2, <2>3
  <1>4. CASE s # 0 /\ e # 0
    <2>1. out = Products(s, e)[e - 1]
      BY <1>4 DEF SecretPow, Products, AreProducts
    <2>2. e - 1 \in 0..e /\ e \in 0..e
      BY <1>4
    <2>3. CASE s \in Keys
      <3>1. out = Done((Powers(s, e)[e - 1] * s) % Order)
        BY <2>1, <2>2, <2>3, KeyProducts
      <3>2. Powers(s, e)[e] = Powers(s, e)[e - 1] * s
        BY <1>4, <2>2, <2>3, KeyPowers
      <3>3. Expected("pow", s, e) = Powers(s, e)[e] % Order
        BY <1>0, <1>1, <1>4
      <3>4. out = Done(Expected("pow", s, e))
        BY ONLY <3>1, <3>2, <3>3
      <3> QED  BY <1>0, <3>4, ZeroMath
    <2>4. CASE s \notin Keys
      <3>1. ~(s = 0 \/ KeyOk(s)) /\ ~KeyOk(s)
        BY <1>4, <2>4, SecretFacts
      <3>2. out.self = s
        BY <1>4, <2>1, <2>2, <3>1, InvalidProducts
      <3> QED  BY <3>1, <3>2, InvalidMath
    <2> QED  BY <2>3, <2>4
  <1> QED  BY <1>2, <1>3, <1>4

(***************************************************************************)
(* Every operation on secrets is that of the field, fails only where the   *)
(* result is zero or a secret is no key, and matches the operation on the  *)
(* public keys.                                                            *)
(***************************************************************************)
THEOREM SecretMathStaysExact == Spec => []SecretMathExact
  <1>1. Init => SecretMathExact
    BY DEF Init, SecretMathExact, NoCall
  <1>2. ASSUME NEW op, NEW s, NEW o, NEW out, NEW pub, MathOk(op, s, o, out, pub),
               call' = [op |-> op, s |-> s, o |-> o, out |-> out, pub |-> pub]
        PROVE  SecretMathExact'
    <2>1. /\ call'.op = op /\ call'.s = s /\ call'.o = o /\ call'.out = out /\ call'.pub = pub
      BY <1>2
    <2>2. MathOk(call'.op, call'.s, call'.o, call'.out, call'.pub)
      BY <1>2, <2>1
    <2> QED  BY ONLY <2>2 DEF SecretMathExact, MathOk, PublicMatches
  <1>3. ASSUME NEW op \in {"add", "sub", "mul", "neg", "dec"}, NEW s \in Secrets, NEW o \in Secrets
        PROVE  MathOk(op, s, o, Binary(op, s, o), PublicsOf(op, s, o))
    <2>1. CASE op = "add"
      BY <2>1, AddExact DEF Binary
    <2>2. CASE op = "sub"
      BY <2>2, SubExact DEF Binary
    <2>3. CASE op = "mul"
      BY <2>3, MulExact DEF Binary
    <2>4. CASE op = "neg"
      BY <2>4, NegExact DEF Binary
    <2>5. CASE op = "dec"
      BY <2>5, DecExact DEF Binary
    <2> QED  BY <2>1, <2>2, <2>3, <2>4, <2>5
  <1>4. SecretMathExact /\ [Next]_vars => SecretMathExact'
    <2> SUFFICES ASSUME SecretMathExact, [Next]_vars PROVE SecretMathExact'
      OBVIOUS
    <2>1. CASE UNCHANGED call
      BY <2>1 DEF SecretMathExact
    <2>2. CASE call'.op \in {"none", "agree", "sign", "seal"}
      BY <2>2 DEF SecretMathExact
    <2>3. ASSUME NEW op \in {"add", "sub", "mul", "neg", "dec"}, NEW s \in Secrets, NEW o \in Secrets,
                 Calculate(op, s, o)
          PROVE  SecretMathExact'
      <3>1. call' = [op |-> op, s |-> s, o |-> o, out |-> Binary(op, s, o), pub |-> PublicsOf(op, s, o)]
        BY <2>3 DEF Calculate, PublicsOf
      <3> QED  BY <1>2, <1>3, <3>1
    <2>4. ASSUME NEW s \in Secrets, NEW e \in Exponents, CalculatePow(s, e) PROVE SecretMathExact'
      <3>1. call' = [op |-> "pow", s |-> s, o |-> e, out |-> SecretPow(s, e), pub |-> {}]
        BY <2>4 DEF CalculatePow
      <3>2. e \in Nat
        BY CallsAssumption
      <3>3. MathOk("pow", s, e, SecretPow(s, e), {})
        BY <3>2, PowExact
      <3> QED  BY <1>2, <3>1, <3>3
    <2>5. CASE Derive
      BY <2>2, <2>5, DeriveForgets DEF NoCall
    <2>6. ASSUME NEW s, NEW o, AgreeOn(s, o) PROVE call'.op = "agree"
      BY <2>6 DEF AgreeOn
    <2>7. ASSUME NEW s, NEW message, NEW nonce, SignMessage(s, message, nonce) PROVE call'.op = "sign"
      BY <2>7 DEF SignMessage
    <2>8. ASSUME NEW s, NEW e, NEW auth, NEW plain, SealMessage(s, e, auth, plain)
          PROVE  call'.op = "seal"
      BY <2>8 DEF SealMessage
    <2>9. CASE Use
      BY <2>2, <2>3, <2>4, <2>6, <2>7, <2>8, <2>9 DEF Use
    <2> QED  BY <2>1, <2>5, <2>9 DEF Next, vars
  <1> QED  BY <1>1, <1>4, PTL DEF Spec
==============================================================================
