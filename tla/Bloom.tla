-------------------------------- MODULE Bloom --------------------------------
(***************************************************************************)
(* ethbloom: a Bloom filter of BLOOM_SIZE bytes, in which every input sets *)
(* three bits taken from its hash.  A byte is the set of the bits that are *)
(* set in it, so that |= is a union and (a & b) == b an inclusion.  A      *)
(* client keeps several blooms, accrues inputs and adds one to another.    *)
(***************************************************************************)
EXTENDS Integers, Sequences

CONSTANTS
    BLOOM_SIZE,     \* 256, the bytes of a bloom
    ByteBits,       \* 8
    Inputs,         \* what a client accrues: Input::Raw and Input::Hash
    HashBytes,      \* the 32 bytes of Keccak of an Input::Raw, or the Input::Hash itself
    Holders         \* the variables of a client

(* The length of x in binary, although it is called its logarithm: 12 for 2048. *)
Log2(x) == IF x <= 1 THEN 0 ELSE CHOOSE k \in 1..x : 2^(k - 1) <= x /\ x < 2^k

bloom_bits  == BLOOM_SIZE * ByteBits
bloom_bytes == (Log2(bloom_bits) + ByteBits - 1) \div ByteBits

(* The assertions of accrue: a power of two, and a hash long enough for three indexes. *)
ASSUME BloomAssumption ==
    /\ BLOOM_SIZE \in Nat \ {0} /\ ByteBits \in Nat \ {0}
    /\ \E k \in 0..bloom_bits : bloom_bits = 2^k
    /\ HashBytes \in [Inputs -> Seq(0..(2^ByteBits - 1))]
    /\ \A input \in Inputs : 3 * bloom_bytes <= Len(HashBytes[input])

VARIABLES
    bloom,          \* the bloom of every holder
    accrued         \* the inputs that went into it (history)

bloomVars == <<bloom, accrued>>

Bytes == 1..BLOOM_SIZE

Default == [p \in Bytes |-> {}]
------------------------------------------------------------------------------
(* The number in the bytes from begin on, bloom_bytes of them, masked. *)
Index(hash, begin) ==
    LET index[i \in 0..bloom_bytes] ==
            IF i = 0 THEN 0 ELSE index[i - 1] * 2^ByteBits + hash[begin + i]
    IN  index[bloom_bytes] % bloom_bits

(* The index that round i of accrue takes from the hash of the input. *)
BitIndex(input, i) == Index(HashBytes[input], i * bloom_bytes)

(* Where a bit is: the last byte holds the lowest ones. *)
ByteOf(index) == BLOOM_SIZE - index \div ByteBits
BitIn(index)  == index % ByteBits

(* Faulty variant of SetBit: the other bits of the byte are lost. *)
SetBitOnly(b, index) == [b EXCEPT ![ByteOf(index)] = {BitIn(index)}]

SetBit(b, index) == [b EXCEPT ![ByteOf(index)] = @ \cup {BitIn(index)}]

(* accrue, unrolled as in the code. *)
Accrue(b, input) ==
    SetBit(SetBit(SetBit(b, BitIndex(input, 0)), BitIndex(input, 1)), BitIndex(input, 2))

AccrueBloom(b, other) == [p \in Bytes |-> b[p] \cup other[p]]

IsEmpty(b) == \A p \in Bytes : b[p] = {}

ContainsBloom(b, other) == \A p \in Bytes : other[p] \subseteq b[p]

ContainsInput(b, input) == ContainsBloom(b, Accrue(Default, input))
------------------------------------------------------------------------------
BloomInit ==
    /\ bloom = [x \in Holders |-> Default]
    /\ accrued = [x \in Holders |-> {}]

(* Bloom::from *)
CallFrom(x, input) ==
    /\ bloom' = [bloom EXCEPT ![x] = Accrue(Default, input)]
    /\ accrued' = [accrued EXCEPT ![x] = {input}]

CallAccrue(x, input) ==
    /\ bloom' = [bloom EXCEPT ![x] = Accrue(@, input)]
    /\ accrued' = [accrued EXCEPT ![x] = @ \cup {input}]

CallAccrueBloom(x, y) ==
    /\ bloom' = [bloom EXCEPT ![x] = AccrueBloom(@, bloom[y])]
    /\ accrued' = [accrued EXCEPT ![x] = @ \cup accrued[y]]

BloomNext ==
    \E x \in Holders :
        \/ \E input \in Inputs : CallFrom(x, input) \/ CallAccrue(x, input)
        \/ \E y \in Holders : CallAccrueBloom(x, y)

BloomSpec == BloomInit /\ [][BloomNext]_bloomVars
------------------------------------------------------------------------------
(* The bits of byte p that the inputs of a set have set. *)
BitsFrom(inputs, p) ==
    {BitIn(BitIndex(q[1], q[2])) : q \in {r \in inputs \X (0..2) : ByteOf(BitIndex(r[1], r[2])) = p}}

(***************************************************************************)
(* The bits of a bloom are those of the inputs that went into it, directly *)
(* or with another bloom, in whatever order and however often: it contains *)
(* each of them and every bloom of no other inputs, and without any it is  *)
(* empty.                                                                  *)
(***************************************************************************)
BloomExact ==
    \A x \in Holders :
        /\ \A p \in Bytes : bloom[x][p] = BitsFrom(accrued[x], p)
        /\ \A input \in accrued[x] : ContainsInput(bloom[x], input)
        /\ \A y \in Holders :
              accrued[y] \subseteq accrued[x] => ContainsBloom(bloom[x], bloom[y])
        /\ accrued[x] = {} => IsEmpty(bloom[x])
==============================================================================
