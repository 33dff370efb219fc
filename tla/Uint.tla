-------------------------------- MODULE Uint ---------------------------------
(***************************************************************************)
(* The arithmetic that construct_uint! generates: integers of n_words      *)
(* words, little-endian, indexed from 0 as in the code.  The width of a    *)
(* word is a parameter (64 bits, in two halves of 32), and so is the       *)
(* number of words: the algorithms are the same, and small ones let TLC    *)
(* reach the corrections and the carries that random tests hardly meet.    *)
(***************************************************************************)
EXTENDS Integers, Sequences, FiniteSetsExt, TLC

CONSTANTS
    HalfBits,       \* 32
    n_words,
    Operands        \* the integers a client computes with

ASSUME WidthAssumption == HalfBits \in Nat \ {0} /\ n_words \in Nat \ {0}

WORD_BITS == 2 * HalfBits
TWO32     == 2^HalfBits
B         == 2^WORD_BITS

Word   == 0..(B - 1)
Places == 0..(n_words - 1)
Uints  == [Places -> Word]

ASSUME OperandsAssumption == Operands \subseteq Uints

(* An array that is f, with its words computed once and kept. *)
Array(f) == f @@ <<>>

(* The number that the first n words stand for: the reference of every operation. *)
NumberOf(words, n) ==
    LET sum[i \in 0..n] == IF i = 0 THEN 0 ELSE sum[i - 1] + words[i - 1] * B^(i - 1)
    IN  sum[n]
Number(u) == NumberOf(u, n_words)

Limit == B^n_words

Zero      == [i \in Places |-> 0]
MaxValue  == [i \in Places |-> B - 1]
FromU64(w) == [Zero EXCEPT ![0] = w]
IsZero(u) == \A i \in Places : u[i] = 0
------------------------------------------------------------------------------
(* Operations on words: u64::overflowing_add, overflowing_sub, split_u128, split. *)
AddWords(x, y) == [word |-> (x + y) % B, overflow |-> x + y >= B]
SubWords(x, y) == [word |-> (x - y) % B, overflow |-> x < y]

Hi(x) == x \div B
Lo(x) == x % B

Bit(flag) == IF flag THEN 1 ELSE 0

(* The number of bits of a word; leading_zeros is WORD_BITS less that. *)
WordBits(w) == CHOOSE k \in 0..WORD_BITS : w < 2^k /\ (k > 0 => w >= 2^(k - 1))
LeadingZeros(w) == WORD_BITS - WordBits(w)

(* The operation on words that an operation on integers is built from. *)
WordOp(op, x, y) == IF op = "add" THEN AddWords(x, y) ELSE SubWords(x, y)

(* uint_overflowing_binop!: carry[i] goes into word i. *)
OverflowingBinop(op, x, y) ==
    LET carry[i \in 0..n_words] ==
            IF i = 0 THEN 0
            ELSE LET one == WordOp(op, x[i - 1], y[i - 1])
                     two == WordOp(op, one.word, carry[i - 1])
                 IN  Bit(one.overflow) + Bit(two.overflow)
    IN  [value |-> Array([i \in Places |-> WordOp(op, WordOp(op, x[i], y[i]).word, carry[i]).word]),
         overflow |-> carry[n_words] > 0]

OverflowingAdd(x, y) == OverflowingBinop("add", x, y)
OverflowingSub(x, y) == OverflowingBinop("sub", x, y)

(* A value, or the bound that stands for it if it overflowed. *)
Saturated(r, bound) == IF r.overflow THEN bound ELSE r.value
SaturatingAdd(x, y) == Saturated(OverflowingAdd(x, y), MaxValue)
SaturatingSub(x, y) == Saturated(OverflowingSub(x, y), Zero)
------------------------------------------------------------------------------
(* Faulty variant of CarryOut: the carry of the last addition is lost. *)
CarryOutDropped(hi, top) == Bit(hi.overflow)

(* The carry that an inner iteration of uint_full_mul_reg! passes on. *)
CarryOut(hi, top) == Bit(hi.overflow \/ top.overflow)

(* ret with the two words an iteration has computed at place k. *)
StoreWords(ret, k, low, hi, top) ==
    [ret |-> [ret EXCEPT ![k] = low.word, ![k + 1] = top.word], carry |-> CarryOut(hi, top)]

StoreHigh(s, k, low, hi) == StoreWords(s.ret, k, low, hi, AddWords(hi.word, s.ret[k + 1]))

StoreLow(s, k, product, low) ==
    StoreHigh(s, k, low, AddWords(Hi(product) + Bit(low.overflow), s.carry))

(* The body of the inner loop of uint_full_mul_reg! for the product of two words. *)
FullMulStep(s, k, product) == StoreLow(s, k, product, AddWords(Lo(product), s.ret[k]))

(* uint_full_mul_reg!: step k is i = k \div n_words, j = k % n_words. *)
FullMul(x, y) ==
    LET after[k \in 0..(n_words * n_words)] ==
            IF k = 0 THEN [ret |-> Array([i \in 0..(2 * n_words - 1) |-> 0]), carry |-> 0]
            ELSE LET i == (k - 1) \div n_words
                     j == (k - 1) % n_words
                     s == IF j = 0 THEN [after[k - 1] EXCEPT !.carry = 0] ELSE after[k - 1]
                 IN  FullMulStep(s, i + j, x[j] * y[i])
    IN  after[n_words * n_words].ret

(* The lower half of a full product, and whether the upper one is lost. *)
LowerHalf(ret) ==
    [value |-> Array([i \in Places |-> ret[i]]), overflow |-> \E i \in Places : ret[n_words + i] # 0]

OverflowingMul(x, y) == LowerHalf(FullMul(x, y))
SaturatingMul(x, y) == Saturated(OverflowingMul(x, y), MaxValue)

(* overflowing_mul_u64, with the carry that is left; full_mul_u64 puts it behind the value. *)
MulU64(x, w) ==
    LET carry[i \in 0..n_words] == IF i = 0 THEN 0 ELSE Hi(x[i - 1] * w + carry[i - 1])
    IN  [value |-> Array([i \in Places |-> Lo(x[i] * w + carry[i])]), carry |-> carry[n_words]]

(* A product by a word with its carry as one word more. *)
WithCarry(r) == Array([i \in 0..n_words |-> IF i = n_words THEN r.carry ELSE r.value[i]])
FullMulU64(x, w) == WithCarry(MulU64(x, w))
------------------------------------------------------------------------------
Shl(x, shift) ==
    LET words == shift \div WORD_BITS
        bits  == shift % WORD_BITS
    IN  Array([i \in Places |->
            (IF i >= words THEN Lo(x[i - words] * 2^bits) ELSE 0)
              + (IF bits > 0 /\ i >= words + 1 THEN x[i - 1 - words] \div 2^(WORD_BITS - bits) ELSE 0)])

Shr(x, shift) ==
    LET words == shift \div WORD_BITS
        bits  == shift % WORD_BITS
    IN  Array([i \in Places |->
            (IF i + words \in Places THEN x[i + words] \div 2^bits ELSE 0)
              + (IF bits > 0 /\ i + words + 1 \in Places
                 THEN Lo(x[i + words + 1] * 2^(WORD_BITS - bits)) ELSE 0)])

(* bits: the least number of bits that represent the number. *)
Bits(x) ==
    LET top == {i \in Places : i > 0 /\ x[i] > 0}
    IN  IF top = {} THEN WordBits(x[0]) ELSE WORD_BITS * Max(top) + WordBits(x[Max(top)])

WordsOf(bits) == 1 + (bits - 1) \div WORD_BITS

FitsWord(x) == \A i \in Places : i > 0 => x[i] = 0
------------------------------------------------------------------------------
(* The loop that corrects one digit of div_mod_word: the digit is lowered   *)
(* and the rest raised until the test fails or the rest leaves a half word. *)
CorrectedHalf(q, rhat, yn1, yn0, next) ==
    LET wrong(k) == q - k >= TWO32 \/ (q - k) * yn0 > TWO32 * (rhat + k * yn1) + next
        done(k)  == (k > 0 /\ rhat + k * yn1 >= TWO32) \/ ~wrong(k)
    IN  q - Min({k \in 0..q : done(k)})

(* The digit that half a divisor of two halves yn goes into u, with next the half behind u. *)
HalfDigit(u, yn, next) ==
    CorrectedHalf(u \div (yn \div TWO32), u % (yn \div TWO32), yn \div TWO32, yn % TWO32, next)

LowDigit(q1, q0, un21, un0, yn, s) ==
    [q |-> q1 * TWO32 + q0, r |-> ((un21 * TWO32 + un0 - yn * q0) % B) \div 2^s]

AfterHigh(q1, un21, un0, yn, s) == LowDigit(q1, HalfDigit(un21, yn, un0), un21, un0, yn, s)

HighDigit(q1, un32, un10, yn, s) ==
    AfterHigh(q1, (un32 * TWO32 + un10 \div TWO32 - q1 * yn) % B, un10 % TWO32, yn, s)

DivModNormalized(un32, un10, yn, s) ==
    HighDigit(HalfDigit(un32, yn, un10 \div TWO32), un32, un10, yn, s)

DivModShifted(hi, lo, y, s) ==
    DivModNormalized(Lo(hi * 2^s) + (IF s = 0 THEN 0 ELSE lo \div 2^(WORD_BITS - s)),
                     Lo(lo * 2^s), Lo(y * 2^s), s)

(* div_mod_word: two words by one, for hi < y, half a word at a time. *)
DivModWord(hi, lo, y) == DivModShifted(hi, lo, y, LeadingZeros(y))

(* div_mod_small: step[i] is the digit of word i and what the words from i upwards leave. *)
DivModSmall(x, y) ==
    LET step[i \in 0..n_words] ==
            IF i = n_words THEN [q |-> 0, r |-> 0] ELSE DivModWord(step[i + 1].r, x[i], y)
    IN  [q |-> Array([i \in Places |-> step[i].q]), r |-> FromU64(step[0].r)]

FullShl(x, shift) ==
    LET hi == Shr(x, WORD_BITS - shift)
    IN  Array([i \in 0..n_words |-> IF i = 0 THEN Lo(x[0] * 2^shift) ELSE hi[i - 1]])

FullShr(u, shift) ==
    Array([i \in Places |-> (u[i] \div 2^shift)
                        + (IF shift > 0 THEN Lo(u[i + 1] * 2^(WORD_BITS - shift)) ELSE 0)])

(* binop_slice on u[j..] and the first n words of v; binop_carry adds the   *)
(* carry to the second operand before the operation.                        *)
BinopSlice(op, u, j, v, n) ==
    LET res(i, c) == LET with == AddWords(v[i], c)
                         r    == WordOp(op, u[j + i], with.word)
                     IN  [word |-> r.word, overflow |-> with.overflow \/ r.overflow]
        carry[i \in 0..n] == IF i = 0 THEN 0 ELSE Bit(res(i - 1, carry[i - 1]).overflow)
    IN  [slice |-> Array([i \in DOMAIN u |->
                       IF i \in j..(j + n - 1) THEN res(i - j, carry[i - j]).word ELSE u[i]]),
         carry |-> carry[n] > 0]
------------------------------------------------------------------------------
(* The loop of D3: the guess d.q is lowered until the two leading words agree. *)
LoweredGuess(d, v1, v2, next) ==
    LET fits(k) == (d.q - k) * v2 <= B * (d.r + k * v1) + next
        done(k) == (k > 0 /\ d.r + k * v1 >= B) \/ fits(k)
    IN  d.q - Min({k \in 0..d.q : done(k)})

(* D3: the guess of quotient digit j. *)
QHat(u, v, j, n) ==
    IF u[j + n] >= v[n - 1] THEN B - 1
    ELSE LoweredGuess(DivModWord(u[j + n], u[j + n - 1], v[n - 1]), v[n - 1], v[n - 2], u[j + n - 2])

(* u with the carry of an addition added to its word k. *)
AddCarry(sum, k) == [sum.slice EXCEPT ![k] = Lo(@ + Bit(sum.carry))]

(* Faulty variant of TestRemainder: a guess one too large is kept. *)
TestRemainderSkipped(less, q, v, j, n, q_hat) == [u |-> less.slice, q |-> [q EXCEPT ![j] = q_hat]]

(* D5 and D6: if the subtraction went below zero the guess was one too large, *)
(* and a divisor is added back.                                               *)
TestRemainder(less, q, v, j, n, q_hat) ==
    IF less.carry
    THEN [u |-> AddCarry(BinopSlice("add", less.slice, j, v, n), j + n),
          q |-> [q EXCEPT ![j] = q_hat - 1]]
    ELSE [u |-> less.slice, q |-> [q EXCEPT ![j] = q_hat]]

(* D4: the guess times the divisor is subtracted. *)
SubtractGuess(s, v, j, n, q_hat) ==
    TestRemainder(BinopSlice("sub", s.u, j, FullMulU64(v, q_hat), n + 1), s.q, v, j, n, q_hat)

(* D3 to D6 for digit j. *)
KnuthDigit(s, v, j, n) == SubtractGuess(s, v, j, n, QHat(s.u, v, j, n))

(* D8: the remainder is shifted back. *)
Unnormalized(s, shift) == [q |-> s.q, r |-> FullShr(s.u, shift)]

(* The loop of div_mod_knuth over the digits, from m down to 0. *)
KnuthLoop(u, v, n, m) ==
    LET after[j \in 0..(m + 1)] ==
            IF j = m + 1 THEN [u |-> u, q |-> Zero] ELSE KnuthDigit(after[j + 1], v, j, n)
    IN  after[0]

(* div_mod_knuth: divisor of n words, quotient of m + 1 digits. *)
DivModKnuth(x, y, n, m) ==
    LET shift == LeadingZeros(y[n - 1])
    IN  Unnormalized(KnuthLoop(FullShl(x, shift), Shl(y, shift), n, m), shift)

(* div_mod; the divisor is not zero. *)
DivMod(x, y) ==
    LET my_bits   == Bits(x)
        your_bits == Bits(y)
        n         == WordsOf(your_bits)
    IN  IF my_bits < your_bits THEN [q |-> Zero, r |-> x]
        ELSE IF your_bits <= WORD_BITS THEN DivModSmall(x, y[0])
        ELSE DivModKnuth(x, y, n, WordsOf(my_bits) - n)
------------------------------------------------------------------------------
(* Ord: the words compared from the highest. *)
Less(x, y) == \E i \in Places : x[i] < y[i] /\ \A k \in Places : k > i => x[k] = y[k]

One == FromU64(1)

(* Faulty variant of SqrtGuess: half the bits, rounded down. *)
SqrtGuessLow(x) == Shl(One, Bits(x) \div 2)

(* The first guess of integer_sqrt, above the root. *)
SqrtGuess(x) == Shl(One, (Bits(x) + 1) \div 2)

Lower(h, g) == IF Less(h, g) THEN h ELSE g

(* integer_sqrt: the guess after i steps of the loop, which decreases until the root is met. *)
IntegerSqrt(x) ==
    LET next(g) == Shr(OverflowingAdd(g, DivMod(x, g).q).value, 1)
        guess[i \in 0..Bits(x)] ==
            IF i = 0 THEN SqrtGuess(x) ELSE Lower(next(guess[i - 1]), guess[i - 1])
    IN  IF ~Less(One, x) THEN x ELSE guess[Bits(x)]

IsEven(x) == x[0] % 2 = 0

(* A product with the overflow seen before it. *)
Noting(r, overflow) == [value |-> r.value, overflow |-> overflow \/ r.overflow]

(* n - 1, in overflowing_pow. *)
SubOne(n) == OverflowingSub(n, One).value

(* n.0[n_words - 1] & (!0 >> 1), in pow: the highest bit is cleared. *)
ClearBit(n) == [n EXCEPT ![n_words - 1] = @ % (B \div 2)]

(* What each of the two loops does to an odd exponent. *)
Reduce(loop, n) == IF loop = "pow" THEN ClearBit(n) ELSE SubOne(n)

(* The state [x, y, n, overflow] after an iteration with an even or an odd exponent. *)
PowEven(s, square) ==
    [s EXCEPT !.x = square.value, !.overflow = @ \/ square.overflow, !.n = Shr(@, 1)]
PowOdd(loop, s, square, times) ==
    [x |-> square.value, y |-> times.value, n |-> Shr(Reduce(loop, s.n), 1),
     overflow |-> s.overflow \/ square.overflow \/ times.overflow]

(* One iteration of the two power loops, which end when n is one. *)
PowStep(loop, s) ==
    IF ~Less(One, s.n) THEN s
    ELSE IF IsEven(s.n) THEN PowEven(s, OverflowingMul(s.x, s.x))
    ELSE PowOdd(loop, s, OverflowingMul(s.x, s.x), OverflowingMul(s.x, s.y))

(* The product after the loop. *)
PowEnd(s) == Noting(OverflowingMul(s.x, s.y), s.overflow)

PowBy(loop, x, expon) ==
    LET after[i \in 0..Bits(expon)] ==
            IF i = 0 THEN [x |-> x, y |-> One, n |-> expon, overflow |-> FALSE]
            ELSE PowStep(loop, after[i - 1])
    IN  IF IsZero(expon) THEN [value |-> One, overflow |-> FALSE] ELSE PowEnd(after[Bits(expon)])

OverflowingPow(x, expon) == PowBy("overflowing_pow", x, expon)

(* pow panics at the first product that overflows. *)
Pow(x, expon) == PowBy("pow", x, expon)
------------------------------------------------------------------------------
(* Display: the decimal digits, highest first, without leading zeros. *)
DivTen(x) == DivMod(x, FromU64(10))
DigitsOf(steps) ==
    LET len == Min({i \in DOMAIN steps : IsZero(steps[i].q)})
    IN  [i \in 1..len |-> steps[len + 1 - i].r[0]]
Display(x) ==
    LET step[i \in 1..(Bits(x) + 1)] == DivTen(IF i = 1 THEN x ELSE step[i - 1].q)
    IN  IF IsZero(x) THEN <<0>> ELSE DigitsOf(step)

ParseError == [ok |-> FALSE, value |-> Zero]

(* Faulty variant of DigitAdded: the carry of the addition is not an error. *)
DigitAddedWrapping(r, sum) ==
    IF r.carry > 0 THEN ParseError ELSE [ok |-> TRUE, value |-> sum.value]

(* Ten times the number and the digit, if neither overflowed. *)
DigitAdded(r, sum) ==
    IF r.carry > 0 \/ sum.overflow THEN ParseError ELSE [ok |-> TRUE, value |-> sum.value]

TimesTen(r, b) == DigitAdded(r, OverflowingAdd(r.value, FromU64(b)))

(* One byte of from_dec_str; what is not a digit is above 9. *)
DecDigit(res, b) == IF ~res.ok \/ b > 9 THEN ParseError ELSE TimesTen(MulU64(res.value, 10), b)

FromDecStr(digits) ==
    LET res[i \in 0..Len(digits)] ==
            IF i = 0 THEN [ok |-> TRUE, value |-> Zero] ELSE DecDigit(res[i - 1], digits[i])
    IN  res[Len(digits)]

(* The byte-order conversions, with half a word for a byte: bytes at 1 is   *)
(* the first of the slice.                                                  *)
BytesLen == 2 * n_words

LittleByte(x, k) == (x[k \div 2] \div TWO32^(k % 2)) % TWO32

ToLittleEndian(x) == [k \in 1..BytesLen |-> LittleByte(x, k - 1)]
ToBigEndian(x)    == [k \in 1..BytesLen |-> LittleByte(x, BytesLen - k)]

FromBigEndian(slice) ==
    LET pad    == BytesLen - Len(slice)
        padded == [k \in 1..BytesLen |-> IF k > pad THEN slice[k - pad] ELSE 0]
    IN  [i \in Places |-> padded[BytesLen - 2 * i - 1] * TWO32 + padded[BytesLen - 2 * i]]

FromLittleEndian(slice) ==
    LET padded == [k \in 1..BytesLen |-> IF k <= Len(slice) THEN slice[k] ELSE 0]
    IN  [i \in Places |-> padded[2 * i + 1] + padded[2 * i + 2] * TWO32]
==============================================================================
