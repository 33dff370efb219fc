------------------------------ MODULE FixedHash ------------------------------
(***************************************************************************)
(* The hashes that construct_fixed_hash! generates, sequences of bytes of  *)
(* a fixed length, their conversions to and from integers, and the text    *)
(* that impl-serde writes and reads for hashes and integers.               *)
(*                                                                         *)
(* As in Uint, half a word is a byte; a byte is two digits, and a u64 is a *)
(* word.  The 0x before the digits is a flag of a text.                    *)
(***************************************************************************)
EXTENDS Uint, SequencesExt, Bitwise

ASSUME DigitAssumption == HalfBits % 2 = 0

Radix  == 2^(HalfBits \div 2)       \* 16, the values of a digit
U64Len == WORD_BITS \div HalfBits   \* 8, the bytes of a word

Byte == 0..(TWO32 - 1)

RepeatByte(byte, n) == [i \in 1..n |-> byte]
ZeroHash(n)         == RepeatByte(0, n)
IsZeroHash(h)       == \A i \in DOMAIN h : h[i] = 0

(* Bytes at the end of n zeros. *)
Placed(bytes, n) == ZeroHash(n - Len(bytes)) \o bytes

Panic == [ok |-> FALSE]
Returns(value) == [ok |-> TRUE, value |-> value]

FromSlice(src, n) == IF Len(src) = n THEN Returns(src) ELSE Panic
------------------------------------------------------------------------------
ByteOp(op, x, y) == CASE op = "or" -> x | y [] op = "and" -> x & y [] op = "xor" -> x ^^ y

HashOp(op, h, g) == [i \in DOMAIN h |-> ByteOp(op, h[i], g[i])]

Covers(h, g) == HashOp("and", g, h) = g

(* The order of byte slices. *)
HashLess(h, g) == \E i \in DOMAIN h : h[i] < g[i] /\ \A k \in 1..(i - 1) : h[k] = g[k]

LeastSignificantBytes(h, n) == SubSeq(h, Len(h) - n + 1, Len(h))

(* ByteOrder::read_u64 and write_u64. *)
ReadU64(buf, order) ==
    FoldLeft(LAMBDA n, byte : n * TWO32 + byte, 0, IF order = "be" THEN buf ELSE Reverse(buf))

WriteU64(val, order) ==
    LET buf == [i \in 1..U64Len |-> (val \div TWO32^(U64Len - i)) % TWO32]
    IN  IF order = "be" THEN buf ELSE Reverse(buf)

ToLowU64(h, order) ==
    ReadU64(Placed(LeastSignificantBytes(h, Min({Len(h), U64Len})), U64Len), order)

(* Faulty variant of FromLowU64: the bytes go to the beginning of the hash. *)
FromLowU64First(val, n, order) ==
    LET kept == SubSeq(WriteU64(val, order), 1, Min({n, U64Len}))
    IN  kept \o ZeroHash(n - Len(kept))

(* Of a hash shorter than a u64 it is the first bytes of the buffer that are kept. *)
FromLowU64(val, n, order) == Placed(SubSeq(WriteU64(val, order), 1, Min({n, U64Len})), n)

(* impl_fixed_hash_conversions *)
ToLarge(h, n) == Placed(h, n)
ToSmall(h, n) == LeastSignificantBytes(h, n)

(* BigEndianHash *)
FromUint(u) == ToBigEndian(u)
IntoUint(h) == FromBigEndian(h)

(* primitive-types' conversions between its integers, of n and of k words. *)
Widened(u, n, k) == [i \in 0..(k - 1) |-> IF i < n THEN u[i] ELSE 0]
Narrowed(u, n, k) ==
    IF \E i \in k..(n - 1) : u[i] # 0 THEN Panic ELSE Returns([i \in 0..(k - 1) |-> u[i]])
------------------------------------------------------------------------------
(* A text: whether it begins with 0x, and the characters behind that. *)
Text(digits) == [prefix |-> TRUE, chars |-> digits]

White == Radix          \* a blank, a tab, a new line
Other == Radix + 1      \* any character that is no digit either
Char  == 0..(Radix + 1)

HexDigits(bytes) ==
    [i \in 1..(2 * Len(bytes)) |->
        IF i % 2 = 1 THEN bytes[(i + 1) \div 2] \div Radix ELSE bytes[i \div 2] % Radix]

(* to_hex_raw: the first digit may be left out, if it is zero. *)
ToHexRaw(bytes, skip_leading_zero) ==
    IF skip_leading_zero /\ bytes[1] \div Radix = 0 THEN Tail(HexDigits(bytes)) ELSE HexDigits(bytes)

SerializeRaw(bytes) == Text(IF bytes = <<>> THEN <<>> ELSE ToHexRaw(bytes, FALSE))

(* The bytes behind the zeros at the beginning. *)
NonZero(bytes) ==
    LET zeros == Max({n \in 0..Len(bytes) : \A i \in 1..n : bytes[i] = 0})
    IN  SubSeq(bytes, zeros + 1, Len(bytes))

SerializeUint(bytes) ==
    Text(IF NonZero(bytes) = <<>> THEN <<0>> ELSE ToHexRaw(NonZero(bytes), TRUE))

(* to_hex *)
ToHex(bytes, skip_leading_zero) ==
    IF skip_leading_zero THEN SerializeUint(bytes) ELSE SerializeRaw(bytes)

(* A character of from_hex_raw; the slice is too short if a byte goes behind its end. *)
HexChar(s, c) ==
    LET buf     == ((s.buf * Radix) % TWO32) + c
        modulus == s.modulus + 1
    IN  CASE s.status # "ok" -> s
          [] s.status = "ok" /\ c = White -> [s EXCEPT !.buf = @ % Radix]
          [] s.status = "ok" /\ c = Other -> [s EXCEPT !.status = "InvalidHex"]
          [] s.status = "ok" /\ c < Radix /\ modulus < 2 -> [s EXCEPT !.buf = buf, !.modulus = modulus]
          [] s.status = "ok" /\ c < Radix /\ modulus = 2 ->
                IF s.pos = Len(s.bytes) THEN [s EXCEPT !.status = "panic"]
                ELSE [s EXCEPT !.buf = buf, !.modulus = 0, !.pos = @ + 1, !.bytes[s.pos + 1] = buf]

(* Faulty variant of FromHexRaw: an odd number of digits is paired from the left. *)
FromHexRawLeft(chars, n) ==
    FoldLeft(HexChar, [status |-> "ok", modulus |-> 0, buf |-> 0, pos |-> 0, bytes |-> ZeroHash(n)], chars)

(* from_hex_raw into a slice of n bytes: an odd number of characters begins with half a byte. *)
FromHexRaw(chars, n) ==
    FoldLeft(HexChar,
             [status |-> "ok", modulus |-> Len(chars) % 2, buf |-> 0, pos |-> 0, bytes |-> ZeroHash(n)],
             chars)

Refused(error) == [status |-> error, pos |-> 0, bytes |-> <<>>]

(* from_hex, and with it deserialize. *)
FromHex(text) ==
    IF ~text.prefix THEN Refused("MissingPrefix")
    ELSE FromHexRaw(text.chars, (Len(text.chars) + 1) \div 2)

(* deserialize_check_len, with ExpectedLen::Exact or Between. *)
CheckedLen(text, valid, n) ==
    IF ~text.prefix THEN Refused("MissingPrefix")
    ELSE IF ~valid THEN Refused("InvalidLength")
    ELSE FromHexRaw(text.chars, n)

DeserializeExact(text, n) == CheckedLen(text, Len(text.chars) = 2 * n, n)
DeserializeBetween(text, min, n) ==
    CheckedLen(text, Len(text.chars) <= 2 * n /\ Len(text.chars) > 2 * min, n)

(* Deserialize of a hash of n bytes, and of an integer: as much as was written of the slice. *)
DeserializeHash(text, n) == DeserializeExact(text, n)
DeserializeUint(text) ==
    LET wrote == DeserializeBetween(text, 0, BytesLen)
    IN  [status |-> wrote.status, value |-> FromBigEndian(SubSeq(wrote.bytes, 1, wrote.pos))]

(* FromStr of a hash, with or without 0x: rustc_hex yields a byte for every two digits. *)
FromStr(text, n) ==
    LET chars == text.chars
    IN  IF (\E i \in DOMAIN chars : chars[i] >= Radix) \/ Len(chars) # 2 * n THEN Panic
        ELSE Returns([i \in 1..n |-> chars[2 * i - 1] * Radix + chars[2 * i]])
==============================================================================
