------------------------------ MODULE UintCalls ------------------------------
(***************************************************************************)
(* A client of the integers: it holds two of them and calls one operation, *)
(* whose answer is out.  The properties compare the answer with the        *)
(* arithmetic of the numbers that the words stand for.                     *)
(***************************************************************************)
EXTENDS Uint

VARIABLES
    a,
    b,
    out     \* the call made and its answer

vars == <<a, b, out>>

Shifts == 0..(n_words * WORD_BITS + WORD_BITS)

NoCall == [op |-> "none"]

Init ==
    /\ a \in Operands
    /\ b \in Operands
    /\ out = NoCall

(* One operation on the operands. *)
Answers(answer) ==
    /\ out = NoCall
    /\ out' = answer
    /\ UNCHANGED <<a, b>>

CallAdd == Answers([op |-> "add", overflowing |-> OverflowingAdd(a, b),
                    saturating |-> SaturatingAdd(a, b)])
CallSub == Answers([op |-> "sub", overflowing |-> OverflowingSub(a, b),
                    saturating |-> SaturatingSub(a, b)])
CallMul == Answers([op |-> "mul", overflowing |-> OverflowingMul(a, b),
                    saturating |-> SaturatingMul(a, b)])
CallFullMul == Answers([op |-> "full_mul", answer |-> FullMul(a, b)])
CallMulU64 == Answers([op |-> "mul_u64", answer |-> FullMulU64(a, b[0])])
CallDivMod == ~IsZero(b) /\ Answers([op |-> "div_mod", answer |-> DivMod(a, b)])
CallShl == \E shift \in Shifts : Answers([op |-> "shl", shift |-> shift, answer |-> Shl(a, shift)])
CallShr == \E shift \in Shifts : Answers([op |-> "shr", shift |-> shift, answer |-> Shr(a, shift)])
CallSqrt == Answers([op |-> "integer_sqrt", answer |-> IntegerSqrt(a)])
CallOverflowingPow ==
    Answers([op |-> "overflowing_pow", overflowing |-> OverflowingPow(a, b)])
CallPow == Answers([op |-> "pow", returned |-> Pow(a, b)])
CallDisplay == Answers([op |-> "display", digits |-> Display(a)])

Amended(digits, dropped, byte) == Append(SubSeq(digits, 1, Len(digits) - dropped), byte)

(* The digits of a, or all but the last of them, and behind them any byte, a digit or not. *)
CallFromDecStr ==
    \E byte \in 0..10, dropped \in 0..1 :
        Answers([op |-> "from_dec_str", byte |-> byte, dropped |-> dropped,
                 parsed |-> FromDecStr(Amended(Display(a), dropped, byte))])

(* A slice of len bytes: the last of the big-endian form, the first of the little-endian one. *)
CallFromEndian ==
    \E len \in 0..BytesLen :
        Answers([op |-> "from_endian", len |-> len,
                 big |-> FromBigEndian(SubSeq(ToBigEndian(a), BytesLen - len + 1, BytesLen)),
                 little |-> FromLittleEndian(SubSeq(ToLittleEndian(a), 1, len))])

(* The calls on two operands, and those on one, which b plays no part in. *)
Next ==
    \/ CallAdd \/ CallSub \/ CallMul \/ CallFullMul \/ CallMulU64 \/ CallDivMod
    \/ CallOverflowingPow \/ CallPow
    \/ /\ b = a
       /\ \/ CallShl \/ CallShr \/ CallSqrt
          \/ CallDisplay \/ CallFromDecStr \/ CallFromEndian

Spec == Init /\ [][Next]_vars
------------------------------------------------------------------------------
A == Number(a)
C == Number(b)

(* What a binary operation whose exact result is n must answer. *)
Reports(n, bound) ==
    /\ out.overflowing.value \in Uints
    /\ Number(out.overflowing.value) = n % Limit
    /\ out.overflowing.overflow <=> n \notin 0..(Limit - 1)
    /\ out.saturating = IF out.overflowing.overflow THEN bound ELSE out.overflowing.value

(* Addition, subtraction and multiplication wrap at the width of the        *)
(* integer, say whether they did, and saturate exactly then: the carry of   *)
(* either of two word operations, and those of the partial products, reach  *)
(* the next word.  A shift multiplies or divides by a power of two, by      *)
(* whole words, across words and past the width.                            *)
ArithmeticExact ==
    /\ out.op = "add" => Reports(A + C, MaxValue)
    /\ out.op = "sub" => Reports(A - C, Zero)
    /\ out.op = "mul" => Reports(A * C, MaxValue)
    /\ out.op = "full_mul" => NumberOf(out.answer, 2 * n_words) = A * C
    /\ out.op = "mul_u64" => NumberOf(out.answer, n_words + 1) = A * b[0]
    /\ out.op = "shl" =>
        Number(out.answer) = IF out.shift >= n_words * WORD_BITS THEN 0
                             ELSE (A % 2^(n_words * WORD_BITS - out.shift)) * 2^out.shift
    /\ out.op = "shr" => Number(out.answer) = A \div 2^out.shift

(* Division, on each of its three paths and with each of the corrections of *)
(* a guessed digit, gives the quotient and a remainder below the divisor.   *)
DivModExact ==
    out.op = "div_mod" =>
        /\ out.answer.q \in Uints /\ out.answer.r \in Uints
        /\ A = Number(out.answer.q) * C + Number(out.answer.r)
        /\ Number(out.answer.r) < C

(* The power, or Limit when it is at least that: multiplied out one factor  *)
(* at a time, as far as a power of two can stay below Limit.                *)
CappedPower ==
    LET top == n_words * WORD_BITS
        power[k \in 0..top] == IF k = 0 THEN 1 ELSE Min({Limit, power[k - 1] * A})
    IN  IF A <= 1 /\ C > 0 THEN A ELSE power[Min({C, top})]

(* The root is the highest n with n * n at most the number.                 *)
(* overflowing_pow says exactly when the power does not fit and gives it    *)
(* when it does; when it does not, one more factor still multiplies the     *)
(* wrapped value.  pow, which clears the highest bit of an odd exponent     *)
(* instead of the lowest, agrees if the exponent does not have that bit.    *)
PowersExact ==
    /\ out.op = "integer_sqrt" =>
        LET n == Number(out.answer) IN n * n <= A /\ A < (n + 1) * (n + 1)
    /\ out.op = "overflowing_pow" =>
        /\ out.overflowing.overflow <=> CappedPower = Limit
        /\ ~out.overflowing.overflow => Number(out.overflowing.value) = CappedPower
        /\ C > 0 => Number(out.overflowing.value)
                      = (A * Number(OverflowingPow(a, OverflowingSub(b, One).value).value)) % Limit
    /\ out.op = "pow" /\ 2 * C < Limit =>
        /\ out.returned.overflow <=> CappedPower = Limit
        /\ ~out.returned.overflow => Number(out.returned.value) = CappedPower

(* Display writes the number without a leading zero, and from_dec_str reads *)
(* a string of digits back exactly when its number fits.  The bytes of a    *)
(* slice, however short, are the lowest of the number in either order.      *)
ConversionsExact ==
    /\ out.op = "display" =>
        LET digits == out.digits
            value[i \in 0..Len(digits)] == IF i = 0 THEN 0 ELSE 10 * value[i - 1] + digits[i]
        IN  /\ value[Len(digits)] = A
            /\ Len(digits) > 1 => digits[1] # 0
    /\ out.op = "from_dec_str" =>
        LET value == 10 * (A \div 10^out.dropped) + out.byte
        IN  /\ out.parsed.ok <=> out.byte <= 9 /\ value < Limit
            /\ out.parsed.ok => Number(out.parsed.value) = value
    /\ out.op = "from_endian" =>
        /\ Number(out.big) = A % TWO32^out.len
        /\ out.little = out.big
==============================================================================
