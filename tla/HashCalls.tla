------------------------------ MODULE HashCalls ------------------------------
(***************************************************************************)
(* The client of UintCalls makes hashes of its integers, writes and reads  *)
(* them as text, and keeps blooms.                                         *)
(***************************************************************************)
EXTENDS UintCalls, FixedHash, Bloom

CONSTANTS
    HashLens,       \* the lengths of the hashes it uses
    MaxChars        \* bound on the characters of a text from elsewhere

hashVars == <<vars, bloomVars>>

HashInit == Init /\ BloomInit

(* The hash of len bytes that ends as big-endian a does. *)
HashOf(u, len) == LeastSignificantBytes(Placed(FromUint(u), Max({len, BytesLen})), len)

CallBits ==
    \E op \in {"or", "and", "xor"} :
        Answers([op |-> "bits", name |-> op, hash |-> HashOp(op, FromUint(a), FromUint(b)),
                 covers |-> Covers(FromUint(a), FromUint(b)),
                 less |-> HashLess(FromUint(a), FromUint(b))])

(* Conversions are between hashes of different lengths, which debug_assert wants to be even. *)
CallConvert ==
    \E len \in HashLens \ {BytesLen} :
        /\ len % 2 = 0 /\ BytesLen % 2 = 0
        /\ \E hash \in {IF len < BytesLen THEN ToSmall(FromUint(a), len) ELSE ToLarge(FromUint(a), len)} :
              Answers([op |-> "convert", len |-> len, hash |-> hash, zero |-> IsZeroHash(hash)])

CallLowU64 ==
    \E len \in HashLens, order \in {"be", "le"} :
        Answers([op |-> "low_u64", len |-> len, order |-> order,
                 sliced |-> FromSlice(FromUint(a), len),
                 low |-> ToLowU64(HashOf(a, len), order),
                 back |-> ToLowU64(FromLowU64(a[0], len, order), order)])

CallNarrow ==
    \E k \in 1..n_words :
        Answers([op |-> "narrow", words |-> k, answer |-> Narrowed(a, n_words, k)])

CallSerialize ==
    Answers([op |-> "serialize", uint |-> ToHex(ToBigEndian(a), TRUE),
             hash |-> ToHex(FromUint(a), FALSE)])

(* Up to MaxChars characters that the client did not write. *)
Texts == [prefix : BOOLEAN, chars : BoundedSeq(Char, MaxChars)]

CallDeserialize ==
    /\ a = Zero /\ b = Zero
    /\ \E text \in Texts, len \in HashLens :
          Answers([op |-> "deserialize", text |-> text, len |-> len,
                   bytes |-> FromHex(text), hash |-> DeserializeHash(text, len),
                   uint |-> DeserializeUint(text), parsed |-> FromStr(text, len)])

CallBloom == out = NoCall /\ a = Zero /\ b = Zero /\ BloomNext

(* The blooms are filled by a client that has made no other call. *)
HashNext ==
    \/ /\ BloomInit
       /\ \/ Next \/ CallBits \/ CallDeserialize
          \/ b = a /\ (CallConvert \/ CallLowU64 \/ CallNarrow \/ CallSerialize)
       /\ UNCHANGED bloomVars
    \/ CallBloom /\ UNCHANGED vars

HashSpec == HashInit /\ [][HashNext]_hashVars
------------------------------------------------------------------------------
(* The number that digits of a base stand for, the first of them the highest. *)
ValueOf(digits, base) == FoldLeft(LAMBDA n, d : n * base + d, 0, digits)

BitAt(n, k) == (n \div 2^k) % 2

BitsMeet(op, x, y) ==
    CASE op = "or" -> Max({x, y}) [] op = "and" -> x * y [] op = "xor" -> (x + y) % 2

(***************************************************************************)
(* A hash is the big-endian form of a number: hashes are ordered as their  *)
(* numbers are, a shorter hash keeps the lowest bytes and a longer one the *)
(* number, and the operators act on its bits.  A slice of another length   *)
(* is refused.  The low u64 of a hash is the end of its number, and comes  *)
(* back from any hash that has room for it, in either byte order; nothing  *)
(* is said of from_low_u64 for a shorter hash, where the code keeps other  *)
(* bytes than its comment says.  A wider integer is narrowed exactly when  *)
(* it fits.                                                                *)
(***************************************************************************)
HashesExact ==
    /\ out.op = "bits" =>
        LET places == 0..(n_words * WORD_BITS - 1)
        IN  /\ out.less <=> A < C
            /\ out.covers <=> \A k \in places : BitAt(C, k) <= BitAt(A, k)
            /\ \A k \in places :
                  BitAt(Number(IntoUint(out.hash)), k) = BitsMeet(out.name, BitAt(A, k), BitAt(C, k))
    /\ out.op = "convert" =>
        /\ Len(out.hash) = out.len
        /\ ValueOf(out.hash, TWO32) = A % TWO32^out.len
        /\ out.zero <=> A % TWO32^out.len = 0
    /\ out.op = "low_u64" =>
        /\ out.sliced.ok <=> out.len = BytesLen
        /\ out.order = "be" => out.low = A % TWO32^Min({U64Len, out.len})
        /\ out.len >= U64Len => out.back = a[0]
    /\ out.op = "narrow" =>
        /\ out.answer.ok <=> A < B^out.words
        /\ out.answer.ok => Widened(out.answer.value, out.words, n_words) = a

(* What reading a text must give if its digits are ds and are accepted. *)
Accepts(read, ok, ds) ==
    /\ read.status = "ok" <=> ok
    /\ ok => ValueOf(read.bytes, TWO32) = ValueOf(ds, Radix)

(***************************************************************************)
(* The text of an integer has no leading zero and that of a hash has every *)
(* digit; both are read back.  A text from elsewhere never makes the       *)
(* decoder write past its slice.  Of plain digits it is accepted exactly   *)
(* if its length is, odd or even, and gives the number the digits are;     *)
(* with blanks in it an integer is still read right if they are even in    *)
(* number.                                                                 *)
(***************************************************************************)
HexExact ==
    /\ out.op = "serialize" =>
        /\ out.uint.prefix /\ ValueOf(out.uint.chars, Radix) = A
        /\ out.uint.chars[1] = 0 => out.uint.chars = <<0>>
        /\ DeserializeUint(out.uint) = [status |-> "ok", value |-> a]
        /\ Len(out.hash.chars) = 2 * BytesLen
        /\ DeserializeHash(out.hash, BytesLen).bytes = FromUint(a)
        /\ FromStr(out.hash, BytesLen) = Returns(FromUint(a))
    /\ out.op = "deserialize" =>
        LET chars  == out.text.chars
            digits == SelectSeq(chars, LAMBDA c : c < Radix)
            blanks == Len(SelectSeq(chars, LAMBDA c : c = White))
            clean  == Len(digits) + blanks = Len(chars)
        IN  /\ "panic" \notin {out.bytes.status, out.hash.status, out.uint.status}
            /\ blanks = 0 =>
                  /\ Accepts(out.bytes, out.text.prefix /\ clean, digits)
                  /\ Accepts(out.hash, out.text.prefix /\ clean /\ Len(chars) = 2 * out.len, digits)
                  /\ out.parsed.ok <=> clean /\ Len(chars) = 2 * out.len
                  /\ out.parsed.ok => ValueOf(out.parsed.value, TWO32) = ValueOf(digits, Radix)
            /\ blanks % 2 = 0 =>
                  /\ out.uint.status = "ok" <=>
                        out.text.prefix /\ clean /\ Len(chars) \in 1..(2 * BytesLen)
                  /\ out.uint.status = "ok" => Number(out.uint.value) = ValueOf(digits, Radix)
==============================================================================
