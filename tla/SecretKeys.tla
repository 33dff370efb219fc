----------------------------- MODULE SecretKeys ------------------------------
(***************************************************************************)
(* parity-crypto's publickey: secrets, public keys and the arithmetic on   *)
(* both.  The secp256k1 library is external; its curve is a parameter, the *)
(* list of the multiples of the base point with their coordinates, so that *)
(* a small curve can take its place.                                       *)
(*                                                                         *)
(* A Secret is any 256-bit number, valid or not.  A Public is a pair of    *)
(* coordinates, on the curve or not.  An operation that works in place is  *)
(* the record of whether it succeeded and of what it leaves.               *)
(***************************************************************************)
EXTENDS Naturals, Sequences

CONSTANTS
    Order,              \* CURVE_ORDER, a prime
    Size,               \* how many numbers an H256 holds
    Affine              \* 1..(Order - 1) -> <<x, y>>, the multiples of the base point

(***************************************************************************)
(* The numbers fit an H256 and the order is more than half of those.  Two  *)
(* points with the same x coordinate are a point and its negation, whose y *)
(* coordinates are of different parity.                                    *)
(***************************************************************************)
ASSUME CurveAssumption ==
    /\ Order \in Nat /\ Order > 2
    /\ Size \in Nat /\ Order < Size /\ Size <= 2 * Order
    /\ \A k \in 1..(Order - 1) :
          /\ Affine[k][1] \in 0..(Size - 1) /\ Affine[k][2] \in 0..(Size - 1)
          /\ Affine[k][1] = Affine[Order - k][1]
          /\ Affine[k][2] % 2 # Affine[Order - k][2] % 2
          /\ \A j \in 1..(Order - 1) : Affine[j][1] = Affine[k][1] => j \in {k, Order - k}

(* The order is a prime: every number below it but zero has an inverse. *)
ASSUME FieldAssumption ==
    \A k \in 1..(Order - 1) : \E i \in 1..(Order - 1) : (i * k) % Order = 1

Secrets == 0..(Size - 1)
KeyOk(s) == s \in 1..(Order - 1)
MinusOneKey == Order - 1
------------------------------------------------------------------------------
(* The library.  An error, and the point at infinity, is the empty set. *)
PointOk(p) == \E k \in 1..(Order - 1) : Affine[k] = p

Log(p) == CHOOSE k \in 1..(Order - 1) : Affine[k] = p

Multiple(k) == {Affine[i] : i \in {k % Order} \ {0}}

AddAssign(k, tweak) == {(k + tweak) % Order} \ {0}

MulAssign(k, tweak) == {(k * tweak) % Order} \ {0}

PointMul(p, k) == Multiple(Log(p) * k)

Combine(p, q) == Multiple(Log(p) + Log(q))
------------------------------------------------------------------------------
Done(v) == [ok |-> TRUE, self |-> v]
Failed(v) == [ok |-> FALSE, self |-> v]

(* What a library call that may fail leaves in place. *)
InPlace(v, results) == IF results = {} THEN Failed(v) ELSE Done(CHOOSE r \in results : TRUE)

SecretNeg(s) ==
    CASE s = 0 -> Done(s)
      [] s # 0 /\ KeyOk(s) -> InPlace(s, MulAssign(s, MinusOneKey))
      [] s # 0 /\ ~KeyOk(s) -> Failed(s)

SecretAdd(s, other) ==
    CASE other = 0 -> Done(s)
      [] s = 0 /\ other # 0 -> Done(other)
      [] s # 0 /\ other # 0 ->
            IF KeyOk(s) /\ KeyOk(other) THEN InPlace(s, AddAssign(s, other)) ELSE Failed(s)

(* Faulty variant of SecretSub: what is subtracted from zero is not negated. *)
SecretSubUnnegated(s, other) ==
    CASE other = 0 -> Done(s)
      [] s = 0 /\ other # 0 -> Done(other)
      [] s # 0 /\ other # 0 ->
            IF KeyOk(s) /\ KeyOk(other)
            THEN InPlace(s, UNION {AddAssign(s, n) : n \in MulAssign(other, MinusOneKey)})
            ELSE Failed(s)

(* From zero it is assigned first and negated then: an invalid key stays there. *)
SecretSub(s, other) ==
    CASE other = 0 -> Done(s)
      [] s = 0 /\ other # 0 -> SecretNeg(other)
      [] s # 0 /\ other # 0 ->
            IF KeyOk(s) /\ KeyOk(other)
            THEN InPlace(s, UNION {AddAssign(s, n) : n \in MulAssign(other, MinusOneKey)})
            ELSE Failed(s)

SecretDec(s) ==
    CASE s = 0 -> Done(MinusOneKey)
      [] s # 0 /\ KeyOk(s) -> InPlace(s, AddAssign(s, MinusOneKey))
      [] s # 0 /\ ~KeyOk(s) -> Failed(s)

SecretMul(s, other) ==
    CASE s = 0 -> Done(s)
      [] s # 0 /\ other = 0 -> Done(0)
      [] s # 0 /\ other # 0 ->
            IF KeyOk(s) /\ KeyOk(other) THEN InPlace(s, MulAssign(s, other)) ELSE Failed(s)

(* One multiplication less than the exponent, until one fails. *)
SecretPow(s, pow) ==
    LET after[i \in 0..pow] ==
            IF i = 0 THEN Done(s)
            ELSE IF after[i - 1].ok THEN SecretMul(after[i - 1].self, s) ELSE after[i - 1]
    IN  CASE s = 0 -> Done(s)
          [] s # 0 /\ pow = 0 -> Done(1)
          [] s # 0 /\ pow # 0 -> after[pow - 1]
------------------------------------------------------------------------------
(* ec_math_utils, in place as well. *)
PublicMulSecret(p, s) == IF KeyOk(s) /\ PointOk(p) THEN InPlace(p, PointMul(p, s)) ELSE Failed(p)

PublicAdd(p, other) ==
    IF PointOk(p) /\ PointOk(other) THEN InPlace(p, Combine(p, other)) ELSE Failed(p)

PublicNegate(p) == IF PointOk(p) THEN InPlace(p, PointMul(p, MinusOneKey)) ELSE Failed(p)

PublicSub(p, other) ==
    IF PointOk(p) /\ PointOk(other)
    THEN InPlace(p, UNION {Combine(p, n) : n \in PointMul(other, MinusOneKey)})
    ELSE Failed(p)

GenerationPoint == Affine[1]

(* KeyPair::from_secret, which also stands for generate and from_secret_slice. *)
FromSecret(s) == IF KeyOk(s) THEN Multiple(s) ELSE {}

(* ecdh::agree: the x coordinate, if that is a valid key. *)
Agree(s, p) ==
    IF PointOk(p) /\ KeyOk(s)
    THEN {q[1] : q \in {q \in PointMul(p, s) : KeyOk(q[1])}}
    ELSE {}
==============================================================================
