------------------------------ MODULE TrieHash -------------------------------
(***************************************************************************)
(* triehash: the root of the Merkle-Patricia trie of a list of key-value   *)
(* pairs, computed in one pass over the sorted keys without building the   *)
(* trie.  An encoded node is the item it encodes (the rlp modules are      *)
(* about the bytes); only its length is computed, because a node shorter   *)
(* than a hash stands in its parent itself.  A hash remembers what it is   *)
(* the hash of: the Hasher is taken to be free of collisions.              *)
(***************************************************************************)
EXTENDS RlpFormat, FiniteSetsExt

CONSTANTS
    Radix,      \* 16, the values of a nibble
    HashLen,    \* 32, the bytes of a hash
    KeyHash     \* the hash of every key, as bytes

ASSUME RadixAssumption == Radix \in Nat /\ Radix >= 4 /\ Base = Radix * Radix

ASSUME KeyHashAssumption ==
    \A k, l \in DOMAIN KeyHash : KeyHash[k] = KeyHash[l] => k = l

NodeData(d)     == [kind |-> "data", data |-> d]
NodeList(items) == [kind |-> "list", items |-> items]
HashOf(out)     == [kind |-> "hash", of |-> out]

EmptyData == NodeData(<<>>)

RECURSIVE OutLen(_)
(* The length of the encoding of an item. *)
OutLen(out) ==
    CASE out.kind = "data" -> Len(EncodeValue(out.data))
      [] out.kind = "hash" -> HashLen + Len(Header(HashLen, Single, LongData))
      [] out.kind = "list" ->
            LET payload == FoldLeft(LAMBDA n, i : n + OutLen(i), 0, out.items)
            IN  payload + Len(Header(payload, ShortList, LongList))
------------------------------------------------------------------------------
(* The order of BTreeMap on keys: bytes, lexicographically. *)
KeyLess(x, y) ==
    \/ IsStrictPrefix(x, y)
    \/ \E i \in DOMAIN x \cap DOMAIN y : x[i] < y[i] /\ SubSeq(x, 1, i - 1) = SubSeq(y, 1, i - 1)

(* collect::<BTreeMap>: the last value of a key replaces the earlier ones. *)
Collected(pairs) ==
    [k \in {pairs[i].key : i \in DOMAIN pairs} |->
        pairs[Max({i \in DOMAIN pairs : pairs[i].key = k})].value]

Nibbles(key) ==
    [i \in 1..(2 * Len(key)) |->
        IF i % 2 = 1 THEN key[(i + 1) \div 2] \div Radix ELSE key[i \div 2] % Radix]

(* The sorted keys, as nibbles, with their values. *)
SortedInput(map) ==
    LET keys == SetToSortSeq(DOMAIN map, KeyLess)
    IN  [i \in DOMAIN keys |-> [key |-> Nibbles(keys[i]), value |-> map[keys[i]]]]

SharedPrefixLen(first, second) == Len(LongestCommonPrefix({first, second}))

(* The flags, an odd nibble beside them, and the other nibbles in pairs. *)
HexPrefixEncode(nibbles, leaf) ==
    LET odd   == Len(nibbles) % 2
        flags == odd + (IF leaf THEN 2 ELSE 0)
    IN  <<flags * Radix + (IF odd = 1 THEN nibbles[1] ELSE 0)>>
          \o [i \in 1..(Len(nibbles) \div 2) |->
                 nibbles[odd + 2 * i - 1] * Radix + nibbles[odd + 2 * i]]

(* How many successive elements behind the first begin ones have nibble i next. *)
Successive(input, begin, pre_len, i) ==
    Max({n \in 0..(Len(input) - begin) :
            \A k \in 1..n : input[begin + k].key[pre_len + 1] = i})

(* Where the elements of every nibble begin; the key that ends here has none. *)
Begins(input, pre_len) ==
    LET begin[i \in 0..Radix] ==
            IF i = 0 THEN (IF pre_len = Len(input[1].key) THEN 1 ELSE 0)
            ELSE begin[i - 1] + Successive(input, begin[i - 1], pre_len, i - 1)
    IN  begin

RECURSIVE Hash256Rlp(_, _)

(* Faulty variant of Hash256Aux: a node as long as a hash is not hashed. *)
Hash256AuxInline(input, pre_len) ==
    LET out == Hash256Rlp(input, pre_len)
    IN  IF OutLen(out) <= HashLen THEN out ELSE HashOf(out)

(* A node as its parent refers to it. *)
Hash256Aux(input, pre_len) ==
    LET out == Hash256Rlp(input, pre_len)
    IN  IF OutLen(out) < HashLen THEN out ELSE HashOf(out)

(* The node of the elements, which share their first pre_len nibbles. *)
Hash256Rlp(input, pre_len) ==
    IF input = <<>> THEN EmptyData
    ELSE LET key == input[1].key
             shared_prefix ==
                Min({Len(key)} \cup {SharedPrefixLen(key, input[i].key) : i \in 2..Len(input)})
             begin == Begins(input, pre_len)
             Child(i) == SubSeq(input, begin[i - 1] + 1, begin[i])
         IN  CASE Len(input) = 1 ->
                    NodeList(<<NodeData(HexPrefixEncode(SubSeq(key, pre_len + 1, Len(key)), TRUE)),
                               NodeData(input[1].value)>>)
               [] Len(input) > 1 /\ shared_prefix > pre_len ->
                    NodeList(<<NodeData(HexPrefixEncode(SubSeq(key, pre_len + 1, shared_prefix), FALSE)),
                               Hash256Aux(input, shared_prefix)>>)
               [] OTHER ->
                    NodeList([i \in 1..Radix |-> IF Child(i) = <<>> THEN EmptyData
                                                 ELSE Hash256Aux(Child(i), pre_len + 1)]
                             \o <<IF pre_len = Len(key) THEN NodeData(input[1].value) ELSE EmptyData>>)

TrieRoot(pairs) == HashOf(Hash256Rlp(SortedInput(Collected(pairs)), 0))

SecTrieRoot(pairs) ==
    TrieRoot([i \in DOMAIN pairs |-> [pairs[i] EXCEPT !.key = KeyHash[pairs[i].key]]])

OrderedKey(i) == EncodeValue(BigEndian(i - 1))

OrderedTrieRoot(values) ==
    TrieRoot([i \in DOMAIN values |-> [key |-> OrderedKey(i), value |-> values[i]]])
------------------------------------------------------------------------------
(* The path that HexPrefixEncode wrote, and whether it ends in a leaf. *)
PathOf(node) ==
    LET bytes == node.items[1].data
        odd   == (bytes[1] \div Radix) % 2
    IN  [leaf |-> bytes[1] \div Radix >= 2,
         nibbles |-> SubSeq(Nibbles(bytes), 3 - odd, 2 * Len(bytes))]

RECURSIVE Lookup(_, _)
(* Walking a trie along a path: the value there, or no bytes. *)
Lookup(node, path) ==
    IF node.kind = "hash" THEN Lookup(node.of, path)
    ELSE IF node = EmptyData THEN <<>>
    ELSE IF Len(node.items) = 2
    THEN LET p == PathOf(node)
         IN  IF p.leaf THEN (IF path = p.nibbles THEN node.items[2].data ELSE <<>>)
             ELSE IF IsPrefix(p.nibbles, path)
                  THEN Lookup(node.items[2], SubSeq(path, Len(p.nibbles) + 1, Len(path)))
                  ELSE <<>>
    ELSE IF path = <<>> THEN node.items[Radix + 1].data
    ELSE Lookup(node.items[Head(path) + 1], Tail(path))

RECURSIVE Canonical(_)
(***************************************************************************)
(* The one form a trie has: a branch has at least two uses, a shared path  *)
(* is not empty and leads to a branch, and exactly the nodes that are at   *)
(* least as long as a hash are replaced by it.                             *)
(***************************************************************************)
Canonical(node) ==
    LET inner   == IF node.kind = "hash" THEN node.of ELSE node
        used    == {i \in DOMAIN inner.items : inner.items[i] # EmptyData}
        next    == IF inner.items[2].kind = "hash" THEN inner.items[2].of ELSE inner.items[2]
    IN  /\ node.kind = "hash" <=> OutLen(inner) >= HashLen
        /\ IF Len(inner.items) = 2
           THEN ~PathOf(inner).leaf =>
                    /\ PathOf(inner).nibbles # <<>>
                    /\ Len(next.items) = Radix + 1 /\ Canonical(inner.items[2])
           ELSE /\ Cardinality(used) >= 2
                /\ \A i \in used \ {Radix + 1} : Canonical(inner.items[i])

(* The root is of the trie that holds map: nothing else is found along a path of keys. *)
RootOf(root, map, keys) ==
    /\ root.of = EmptyData \/ Canonical(IF OutLen(root.of) < HashLen THEN root.of ELSE root)
    /\ \A k \in keys : Lookup(root, Nibbles(k)) = IF k \in DOMAIN map THEN map[k] ELSE <<>>
==============================================================================
