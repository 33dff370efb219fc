------------------------------ MODULE RlpFormat ------------------------------
(***************************************************************************)
(* The byte level of rlp: the five kinds of first byte, the sizes behind   *)
(* it, BasicEncoder's encoding of data and BasicDecoder's view of a slice. *)
(*                                                                         *)
(* The numbers of the format are parameters, so that TLC reaches every     *)
(* boundary with short strings; rlp has 0x80, 55, 8, 4 and 256.            *)
(***************************************************************************)
EXTENDS Integers, Sequences, FiniteSets, SequencesExt

CONSTANTS
    Single,     \* 0x80: smaller bytes are their own encoding
    Short,      \* 55, the longest payload whose size fits the first byte
    Wide,       \* 8, the longest size in bytes
    Narrow      \* 4, the bytes of the u32 that insert_size makes of a size

ASSUME FormatAssumption ==
    /\ Single \in Nat \ {0}
    /\ Short \in Nat \ {0}
    /\ Wide \in Nat \ {0}
    /\ Narrow \in 1..Wide

LongData  == Single + Short             \* 0xb7
ShortList == LongData + Wide + 1        \* 0xc0
LongList  == ShortList + Short          \* 0xf7
Base      == LongList + Wide + 1        \* 256

Byte == 0..(Base - 1)
------------------------------------------------------------------------------
(* One more than the largest number of k bytes. *)
BaseTo(k) ==
    LET power[i \in 0..k] == IF i = 0 THEN 1 ELSE power[i - 1] * Base
    IN  power[k]

(* The number of bytes of a size without its leading zeros. *)
SizeBytes(n) == CHOOSE k \in 0..Wide : n < BaseTo(k) /\ (k > 0 => n >= BaseTo(k - 1))

(* to_be_bytes, without the leading zeros. *)
BigEndian(n) == [i \in 1..SizeBytes(n) |-> (n \div BaseTo(SizeBytes(n) - i)) % Base]

(* size as u32, which is what insert_size writes. *)
Narrowed(size) == size % BaseTo(Narrow)

(* The number that big-endian bytes stand for. *)
Number(bytes) ==
    LET value[i \in 0..Len(bytes)] == IF i = 0 THEN 0 ELSE value[i - 1] * Base + bytes[i]
    IN  value[Len(bytes)]

(* Bytes whose number is one that insert_size can write. *)
Sized(bytes) == bytes \in Seq(Byte) /\ Len(bytes) < BaseTo(Narrow)

(* The first byte and the size that a payload of n bytes should have. *)
Header(n, short, long) ==
    IF n <= Short THEN <<short + n>> ELSE <<long + SizeBytes(n)>> \o BigEndian(n)

(* The first byte of a long payload of data with the size that insert_size puts behind it. *)
LongHeader(n) == <<LongData + SizeBytes(Narrowed(n))>> \o BigEndian(Narrowed(n))

(* encode_iter, which encode_value calls. *)
EncodeValue(data) ==
    IF Len(data) = 1 /\ data[1] < Single THEN data
    ELSE IF Len(data) <= Short THEN <<Single + Len(data)>> \o data
    ELSE LongHeader(Len(data)) \o data

(* What a list of encoded items is encoded as: the reference for RlpStream. *)
EncodeList(payload) == Header(Len(payload), ShortList, LongList) \o payload
------------------------------------------------------------------------------
NoInfo == [ok |-> FALSE, header_len |-> 0, value_len |-> 0]

Info(header, value) == [ok |-> TRUE, header_len |-> header, value_len |-> value]

Total(info) == info.header_len + info.value_len

(* decode_usize, of a size that is not longer than usize. *)
DecodeUsize(bytes) ==
    IF bytes[1] = 0 THEN [ok |-> FALSE, value |-> 0] ELSE [ok |-> TRUE, value |-> Number(bytes)]

(* A long form is refused for a size that the short form could say. *)
LongInfo(header_len, size) ==
    IF ~size.ok \/ size.value <= Short THEN NoInfo ELSE Info(header_len, size.value)

CalculatePayloadInfo(bytes, len_of_len) ==
    IF Len(bytes) < 1 + len_of_len THEN NoInfo
    ELSE LongInfo(1 + len_of_len, DecodeUsize(SubSeq(bytes, 2, 1 + len_of_len)))

(* PayloadInfo::from, for a slice that is not empty. *)
InfoOfFirst(bytes) ==
    LET l == bytes[1]
    IN  CASE l < Single -> Info(0, 1)
          [] l \in Single..LongData -> Info(1, l - Single)
          [] l \in (LongData + 1)..(ShortList - 1) -> CalculatePayloadInfo(bytes, l - LongData)
          [] l \in ShortList..LongList -> Info(1, l - ShortList)
          [] l > LongList -> CalculatePayloadInfo(bytes, l - LongList)

(* BasicDecoder::payload_info: the item has to fit the slice. *)
Fitting(info, len) == IF Total(info) > len THEN NoInfo ELSE info

PayloadInfo(bytes) == IF bytes = <<>> THEN NoInfo ELSE Fitting(InfoOfFirst(bytes), Len(bytes))

(* A slice that ends where its first item does. *)
Exact(bytes) == PayloadInfo(bytes).ok /\ Total(PayloadInfo(bytes)) = Len(bytes)

IsList(bytes) == bytes # <<>> /\ bytes[1] >= ShortList

NoData == [ok |-> FALSE, data |-> <<>>]

(* Bytes first..last of a slice, which may be too short for them. *)
Slice(bytes, first, last) ==
    IF Len(bytes) < last THEN NoData ELSE [ok |-> TRUE, data |-> SubSeq(bytes, first, last)]

(* Faulty variant of DecodeValue: the longest short data is taken for long data. *)
DecodeValueStrict(bytes) ==
    IF bytes = <<>> \/ bytes[1] >= ShortList THEN NoData
    ELSE IF bytes[1] < Single THEN [ok |-> TRUE, data |-> <<bytes[1]>>]
    ELSE IF bytes[1] < LongData THEN Slice(bytes, 2, 1 + bytes[1] - Single)
    ELSE NoData

(* BasicDecoder::decode_value, with the identity for f. *)
DecodeValue(bytes) ==
    IF bytes = <<>> THEN NoData
    ELSE LET l == bytes[1]
             begin == 1 + l - LongData
             size == DecodeUsize(SubSeq(bytes, 2, begin))
         IN  CASE l < Single -> [ok |-> TRUE, data |-> <<l>>]
               [] l \in Single..LongData ->
                     IF l = Single + 1 /\ Len(bytes) > 1 /\ bytes[2] < Single
                     THEN NoData
                     ELSE Slice(bytes, 2, 1 + l - Single)
               [] l \in (LongData + 1)..(ShortList - 1) ->
                     IF Len(bytes) < begin \/ ~size.ok
                     THEN NoData
                     ELSE Slice(bytes, begin + 1, begin + size.value)
               [] l >= ShortList -> NoData

(* Decodable for the unsigned integers of a width in bytes. *)
UintOf(v, width) ==
    IF ~v.ok \/ Len(v.data) > width \/ (v.data # <<>> /\ v.data[1] = 0)
    THEN [ok |-> FALSE, value |-> 0]
    ELSE [ok |-> TRUE, value |-> Number(v.data)]

DecodeUint(bytes, width) == UintOf(DecodeValue(bytes), width)
==============================================================================
