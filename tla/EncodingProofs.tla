--------------------------- MODULE EncodingProofs ---------------------------
(***************************************************************************)
(* Theorems about what clients of ethbloom and rlp build up step by step.  *)
(*                                                                         *)
(* A bloom never forgets: BloomExact for every size of a bloom, every hash *)
(* and any number of blooms and inputs.  Nothing is needed of the indexes  *)
(* that accrue takes from a hash but that they depend on the input alone.  *)
(*                                                                         *)
(* The lists of an RlpStream count each of their items once: CountsExact   *)
(* for any data, format and depth.  Their bytes are the encoding of what   *)
(* was appended (StreamExact), a view of a slice answers the same whatever *)
(* it remembers (CacheTransparent), and what was written is what is read   *)
(* (ReadsExact), as long as a size field can say the buffer's length.      *)
(***************************************************************************)
EXTENDS Bloom, RlpReader, SequenceTheorems, FiniteSetTheorems, WellFoundedInduction, TLAPS

(* The bits that inputs can set, wherever they are. *)
AnyBit == {BitIn(BitIndex(q[1], q[2])) : q \in Inputs \X (0..2)}

Blooms == [Bytes -> SUBSET AnyBit]

(* The inductive invariant; BloomExact follows from it. *)
BloomInv ==
    /\ bloom \in [Holders -> Blooms]
    /\ accrued \in [Holders -> SUBSET Inputs]
    /\ \A x \in Holders, p \in Bytes : bloom[x][p] = BitsFrom(accrued[x], p)

(* Setting a bit adds it to its byte, and changes no other. *)
LEMMA SetBitAdds ==
    ASSUME NEW b \in Blooms, NEW idx, BitIn(idx) \in AnyBit
    PROVE  /\ SetBit(b, idx) \in Blooms
           /\ \A p \in Bytes : SetBit(b, idx)[p] =
                 IF p = ByteOf(idx) THEN b[p] \cup {BitIn(idx)} ELSE b[p]
  BY DEF SetBit, Blooms

(* What an input adds to a byte, bit by bit. *)
LEMMA BitsOfOne ==
    ASSUME NEW input, NEW p, NEW k
    PROVE  k \in BitsFrom({input}, p) <=>
              \E i \in 0..2 : ByteOf(BitIndex(input, i)) = p /\ k = BitIn(BitIndex(input, i))
  <1>1. ASSUME k \in BitsFrom({input}, p)
        PROVE  \E i \in 0..2 : ByteOf(BitIndex(input, i)) = p /\ k = BitIn(BitIndex(input, i))
    <2>1. PICK q \in {r \in {input} \X (0..2) : ByteOf(BitIndex(r[1], r[2])) = p} :
                  k = BitIn(BitIndex(q[1], q[2]))
      BY <1>1 DEF BitsFrom
    <2>2. q[1] = input /\ q[2] \in 0..2 /\ ByteOf(BitIndex(q[1], q[2])) = p
      BY <2>1
    <2> QED BY <2>1, <2>2
  <1>2. ASSUME NEW i \in 0..2, ByteOf(BitIndex(input, i)) = p, k = BitIn(BitIndex(input, i))
        PROVE  k \in BitsFrom({input}, p)
    <2> DEFINE q == <<input, i>>
    <2>1. q \in {r \in {input} \X (0..2) : ByteOf(BitIndex(r[1], r[2])) = p}
      BY <1>2
    <2>2. k = BitIn(BitIndex(q[1], q[2]))
      BY <1>2
    <2> QED BY <2>1, <2>2 DEF BitsFrom
  <1> QED BY <1>1, <1>2

(* The bits of a union of inputs are the union of their bits. *)
LEMMA BitsOfUnion ==
    ASSUME NEW S, NEW T, NEW p
    PROVE  BitsFrom(S \cup T, p) = BitsFrom(S, p) \cup BitsFrom(T, p)
  <1> DEFINE HitsOf(U) == {r \in U \X (0..2) : ByteOf(BitIndex(r[1], r[2])) = p}
             Bit(q) == BitIn(BitIndex(q[1], q[2]))
  <1>1. HitsOf(S \cup T) = HitsOf(S) \cup HitsOf(T)
    OBVIOUS
  <1>2. /\ BitsFrom(S, p) = {Bit(q) : q \in HitsOf(S)}
        /\ BitsFrom(T, p) = {Bit(q) : q \in HitsOf(T)}
        /\ BitsFrom(S \cup T, p) = {Bit(q) : q \in HitsOf(S \cup T)}
    BY DEF BitsFrom
  <1> HIDE DEF HitsOf, Bit
  <1>3. ASSUME NEW k PROVE k \in BitsFrom(S \cup T, p) <=> k \in BitsFrom(S, p) \cup BitsFrom(T, p)
    BY <1>1, <1>2
  <1> QED BY <1>3

(* accrue adds the bits of its input and no others. *)
LEMMA AccrueAdds ==
    ASSUME NEW b \in Blooms, NEW input \in Inputs
    PROVE  /\ Accrue(b, input) \in Blooms
           /\ \A p \in Bytes : Accrue(b, input)[p] = b[p] \cup BitsFrom({input}, p)
  <1> DEFINE I(i) == BitIndex(input, i)
             b0 == SetBit(b, I(0))
             b1 == SetBit(b0, I(1))
             b2 == SetBit(b1, I(2))
  <1>1. \A i \in 0..2 : BitIn(I(i)) \in AnyBit
    <2> SUFFICES ASSUME NEW i \in 0..2 PROVE BitIn(I(i)) \in AnyBit
      OBVIOUS
    <2>1. <<input, i>> \in Inputs \X (0..2)
      OBVIOUS
    <2> QED BY <2>1 DEF AnyBit
  <1> HIDE DEF I
  <1>2. b0 \in Blooms /\ \A p \in Bytes : b0[p] = IF p = ByteOf(I(0)) THEN b[p] \cup {BitIn(I(0))} ELSE b[p]
    <2>1. BitIn(I(0)) \in AnyBit
      BY <1>1
    <2> QED BY <2>1, SetBitAdds
  <1>3. b1 \in Blooms /\ \A p \in Bytes : b1[p] = IF p = ByteOf(I(1)) THEN b0[p] \cup {BitIn(I(1))} ELSE b0[p]
    <2> HIDE DEF b0
    <2>1. BitIn(I(1)) \in AnyBit
      BY <1>1
    <2> QED BY <1>2, <2>1, SetBitAdds
  <1>4. b2 \in Blooms /\ \A p \in Bytes : b2[p] = IF p = ByteOf(I(2)) THEN b1[p] \cup {BitIn(I(2))} ELSE b1[p]
    <2> HIDE DEF b1
    <2>1. BitIn(I(2)) \in AnyBit
      BY <1>1
    <2> QED BY <1>3, <2>1, SetBitAdds
  <1>5. ASSUME NEW p \in Bytes PROVE b2[p] = b[p] \cup BitsFrom({input}, p)
    <2>1. \A k : k \in BitsFrom({input}, p) <=>
                    \/ ByteOf(I(0)) = p /\ k = BitIn(I(0))
                    \/ ByteOf(I(1)) = p /\ k = BitIn(I(1))
                    \/ ByteOf(I(2)) = p /\ k = BitIn(I(2))
      <3> TAKE k
      <3>1. k \in BitsFrom({input}, p) <=> \E i \in 0..2 : ByteOf(I(i)) = p /\ k = BitIn(I(i))
        BY BitsOfOne DEF I
      <3>2. 0..2 = {0, 1, 2}
        OBVIOUS
      <3> QED BY <3>1, <3>2
    <2> HIDE DEF b0, b1, b2
    <2> QED BY <1>2, <1>3, <1>4, <2>1, ZenonT(60)
  <1>6. Accrue(b, input) = b2
    BY DEF Accrue, I
  <1> QED BY <1>4, <1>5, <1>6

(* A bloom of a single input, as From makes it and contains_input compares with. *)
LEMMA AccrueDefault ==
    ASSUME NEW input \in Inputs
    PROVE  /\ Accrue(Default, input) \in Blooms
           /\ \A p \in Bytes : Accrue(Default, input)[p] = BitsFrom({input}, p)
  <1>1. Default \in Blooms /\ \A p \in Bytes : Default[p] = {}
    BY DEF Default, Blooms
  <1>2. /\ Accrue(Default, input) \in Blooms
        /\ \A p \in Bytes : Accrue(Default, input)[p] = Default[p] \cup BitsFrom({input}, p)
    BY <1>1, AccrueAdds
  <1> QED BY <1>1, <1>2

(* Without inputs there are no bits. *)
LEMMA BitsOfNone ==
    ASSUME NEW p PROVE BitsFrom({}, p) = {}
  BY DEF BitsFrom

LEMMA BloomInvHolds == BloomSpec => []BloomInv
  <1>1. BloomInit => BloomInv
    <2> SUFFICES ASSUME BloomInit PROVE BloomInv
      OBVIOUS
    <2>1. bloom \in [Holders -> Blooms] /\ accrued \in [Holders -> SUBSET Inputs]
      BY DEF BloomInit, Default, Blooms
    <2>2. \A x \in Holders, p \in Bytes : bloom[x][p] = BitsFrom(accrued[x], p)
      BY BitsOfNone DEF BloomInit, Default
    <2> QED BY <2>1, <2>2 DEF BloomInv
  <1>2. BloomInv /\ [BloomNext]_bloomVars => BloomInv'
    <2> SUFFICES ASSUME BloomInv, [BloomNext]_bloomVars PROVE BloomInv'
      OBVIOUS
    <2> USE DEF BloomInv
    <2>1. ASSUME NEW x \in Holders, NEW input \in Inputs, CallFrom(x, input) PROVE BloomInv'
      <3>1. bloom' \in [Holders -> Blooms] /\ accrued' \in [Holders -> SUBSET Inputs]
        BY <2>1, AccrueDefault DEF CallFrom
      <3>2. ASSUME NEW y \in Holders, NEW p \in Bytes PROVE bloom'[y][p] = BitsFrom(accrued'[y], p)
        <4>1. CASE y = x
          BY <2>1, <4>1, AccrueDefault DEF CallFrom
        <4>2. CASE y # x
          BY <2>1, <4>2 DEF CallFrom
        <4> QED BY <4>1, <4>2
      <3> QED BY <3>1, <3>2
    <2>2. ASSUME NEW x \in Holders, NEW input \in Inputs, CallAccrue(x, input) PROVE BloomInv'
      <3>0. bloom[x] \in Blooms
        OBVIOUS
      <3>1. bloom' \in [Holders -> Blooms] /\ accrued' \in [Holders -> SUBSET Inputs]
        BY <2>2, <3>0, AccrueAdds DEF CallAccrue
      <3>2. ASSUME NEW y \in Holders, NEW p \in Bytes PROVE bloom'[y][p] = BitsFrom(accrued'[y], p)
        <4>1. CASE y = x
          <5>1. bloom'[y][p] = bloom[x][p] \cup BitsFrom({input}, p)
            BY <2>2, <3>0, <4>1, AccrueAdds DEF CallAccrue
          <5>2. accrued'[y] = accrued[x] \cup {input}
            BY <2>2, <4>1 DEF CallAccrue
          <5> QED BY <5>1, <5>2, BitsOfUnion
        <4>2. CASE y # x
          BY <2>2, <4>2 DEF CallAccrue
        <4> QED BY <4>1, <4>2
      <3> QED BY <3>1, <3>2
    <2>3. ASSUME NEW x \in Holders, NEW z \in Holders, CallAccrueBloom(x, z) PROVE BloomInv'
      <3>1. bloom' \in [Holders -> Blooms] /\ accrued' \in [Holders -> SUBSET Inputs]
        BY <2>3 DEF CallAccrueBloom, AccrueBloom, Blooms
      <3>2. ASSUME NEW y \in Holders, NEW p \in Bytes PROVE bloom'[y][p] = BitsFrom(accrued'[y], p)
        <4>1. CASE y = x
          <5>1. bloom'[y][p] = bloom[x][p] \cup bloom[z][p]
            BY <2>3, <4>1 DEF CallAccrueBloom, AccrueBloom
          <5>2. accrued'[y] = accrued[x] \cup accrued[z]
            BY <2>3, <4>1 DEF CallAccrueBloom
          <5> QED BY <5>1, <5>2, BitsOfUnion
        <4>2. CASE y # x
          BY <2>3, <4>2 DEF CallAccrueBloom
        <4> QED BY <4>1, <4>2
      <3> QED BY <3>1, <3>2
    <2>4. CASE UNCHANGED bloomVars
      BY <2>4 DEF bloomVars
    <2> QED BY <2>1, <2>2, <2>3, <2>4 DEF BloomNext
  <1> QED BY <1>1, <1>2, PTL DEF BloomSpec

(***************************************************************************)
(* ethbloom's promise: whatever was accrued, contains_input and            *)
(* contains_bloom find it, and no bit is set that no input accounts for.   *)
(***************************************************************************)
THEOREM BloomForgetsNothing == BloomSpec => []BloomExact
  <1>1. BloomInv => BloomExact
    <2> SUFFICES ASSUME BloomInv, NEW x \in Holders
                 PROVE  /\ \A p \in Bytes : bloom[x][p] = BitsFrom(accrued[x], p)
                        /\ \A input \in accrued[x] : ContainsInput(bloom[x], input)
                        /\ \A y \in Holders :
                              accrued[y] \subseteq accrued[x] => ContainsBloom(bloom[x], bloom[y])
                        /\ accrued[x] = {} => IsEmpty(bloom[x])
      BY DEF BloomExact
    <2>1. \A p \in Bytes : bloom[x][p] = BitsFrom(accrued[x], p)
      BY DEF BloomInv
    <2>2. ASSUME NEW S, S \subseteq accrued[x], NEW p \in Bytes
          PROVE  BitsFrom(S, p) \subseteq bloom[x][p]
      <3>1. accrued[x] = S \cup accrued[x]
        BY <2>2
      <3> QED BY <2>1, <3>1, BitsOfUnion
    <2>3. ASSUME NEW input \in accrued[x] PROVE ContainsInput(bloom[x], input)
      <3>1. input \in Inputs /\ {input} \subseteq accrued[x]
        BY DEF BloomInv
      <3> QED BY <2>2, <3>1, AccrueDefault DEF ContainsInput, ContainsBloom
    <2>4. ASSUME NEW y \in Holders, accrued[y] \subseteq accrued[x]
          PROVE  ContainsBloom(bloom[x], bloom[y])
      BY <2>2, <2>4 DEF ContainsBloom, BloomInv
    <2>5. accrued[x] = {} => IsEmpty(bloom[x])
      BY <2>1, BitsOfNone DEF IsEmpty
    <2> QED BY <2>1, <2>3, <2>4, <2>5
  <1> QED BY <1>1, BloomInvHolds, PTL
------------------------------------------------------------------------------
(* Is the item made by the append under way data that it has yet to count? *)
ValuePending == frames # <<>> /\ Last(frames).made = "data"

Frame == [depth : Nat, made : {"nothing", "data", "list"}]

(***************************************************************************)
(* The calls of append under way.  All but the innermost wait for a list.  *)
(* The innermost has written nothing or data at the depth it was called    *)
(* at, and finished_list is what it set; or its value is a list, and once  *)
(* that is closed finished_list says so, or is about to.                   *)
(***************************************************************************)
FramesInv ==
    /\ frames \in Seq(Frame)
    /\ \A k \in 1..(Len(frames) - 1) :
          frames[k].made = "list" /\ frames[k].depth < frames[k + 1].depth
    /\ frames # <<>> /\ Last(frames).made # "list" =>
          noting = {} /\ ~finished_list /\ Last(frames).depth = Depth
    /\ frames # <<>> /\ Last(frames).made = "list" /\ Depth <= Last(frames).depth =>
          /\ noting = {} => finished_list
          /\ \A n \in noting : n.decided = {TRUE}

(***************************************************************************)
(* Open lists ul and the items w of each level: none is full, and all but  *)
(* the innermost have counted their items.                                 *)
(***************************************************************************)
Lists(ul, w) ==
    /\ \E S : w \in Seq(Seq(S))
    /\ \E P : ul \in Seq([position : P, current : Nat, max : SUBSET Int])
    /\ Len(w) = Len(ul) + 1
    /\ \A i \in 1..Len(ul) : \A max \in ul[i].max : ul[i].current < max
    /\ \A i \in 1..(Len(ul) - 1) : ul[i].current = Len(w[i + 1])

(* The innermost list has k items to count. *)
Lag(ul, w, k) == ul # <<>> => ul[Len(ul)].current + k = Len(w[Len(w)])

NotingInv ==
    noting = {} \/ \E m \in Nat, d \in {{}, {TRUE}} : noting = Note(m, d)

(* The inductive invariant; CountsExact follows from it. *)
CountInv ==
    /\ FramesInv
    /\ NotingInv
    /\ Lists(unfinished_lists, written)
    /\ noting = {} => Lag(unfinished_lists, written, IF ValuePending THEN 1 ELSE 0)
    /\ \A n \in noting : Lag(unfinished_lists, written, n.items)

(* What Lists says of the types, for any sets that do. *)
LEMMA ListTypes ==
    ASSUME NEW ul, NEW w, Lists(ul, w)
    PROVE  /\ Len(ul) \in Nat /\ Len(w) = Len(ul) + 1 /\ Len(w) \in Nat
           /\ DOMAIN ul = 1..Len(ul) /\ DOMAIN w = 1..Len(w)
           /\ ul # <<>> <=> Len(ul) > 0
           /\ \A i \in 1..Len(ul) : ul[i].current \in Nat
           /\ \A i \in 1..Len(w) : Len(w[i]) \in Nat
  <1>1. PICK S : w \in Seq(Seq(S))
    BY DEF Lists
  <1>2. PICK P : ul \in Seq([position : P, current : Nat, max : SUBSET Int])
    BY DEF Lists
  <1>3. \A i \in 1..Len(ul) : ul[i] \in [position : P, current : Nat, max : SUBSET Int]
    BY <1>2, ElementOfSeq
  <1>4. \A i \in 1..Len(w) : w[i] \in Seq(S)
    BY <1>1, ElementOfSeq
  <1>5. \A i \in 1..Len(w) : Len(w[i]) \in Nat
    BY <1>4
  <1>6. ul # <<>> <=> Len(ul) > 0
    BY <1>2, EmptySeq
  <1> QED  BY <1>1, <1>2, <1>3, <1>5, <1>6 DEF Lists

(* Sequences of sequences over a set are so over a larger one. *)
LEMMA SeqOfLarger ==
    ASSUME NEW S, NEW T, S \subseteq T, NEW w \in Seq(Seq(S))
    PROVE  w \in Seq(Seq(T))
  <1>1. Seq(S) \subseteq Seq(T)
    BY SeqMonotonic
  <1> QED  BY <1>1, SeqMonotonic

(* A function on 1..n is a sequence of length n. *)
LEMMA FunctionIsSeq ==
    ASSUME NEW S, NEW n \in Nat, NEW f \in [1..n -> S]
    PROVE  f \in Seq(S) /\ Len(f) = n
  OBVIOUS

(* Items appended to the innermost level are still to be counted. *)
LEMMA WroteKeeps ==
    ASSUME NEW ul, NEW w, Lists(ul, w), Lag(ul, w, 0), NEW T, NEW items \in Seq(T),
           NEW w2, w2 = [w EXCEPT ![Len(w)] = @ \o items]
    PROVE  Lists(ul, w2) /\ Lag(ul, w2, Len(items))
  <1> DEFINE m == Len(w)
  <1>1. PICK S : w \in Seq(Seq(S))
    BY DEF Lists
  <1>2. w \in Seq(Seq(S \cup T)) /\ items \in Seq(S \cup T) /\ Len(items) \in Nat
    BY <1>1, SeqOfLarger
  <1>3. /\ m \in 1..m /\ m \in Nat /\ DOMAIN w = 1..m /\ m = Len(ul) + 1 /\ Len(ul) \in Nat
        /\ \A i \in 1..Len(ul) : ul[i].current \in Nat
    BY ListTypes
  <1>4. w[m] \in Seq(S \cup T)
    BY <1>2, <1>3, ElementOfSeq
  <1>5. /\ w[m] \o items \in Seq(S \cup T)
        /\ Len(w[m] \o items) = Len(w[m]) + Len(items)
    BY <1>2, <1>4, ConcatProperties
  <1>6. /\ w2 \in Seq(Seq(S \cup T)) /\ Len(w2) = m
        /\ w2[m] = w[m] \o items /\ \A i \in 1..(m - 1) : w2[i] = w[i]
    <2>1. w2 = [w EXCEPT ![m] = w[m] \o items]
      OBVIOUS
    <2> HIDE DEF m
    <2>2. /\ w2 \in Seq(Seq(S \cup T)) /\ Len(w2) = m
          /\ \A j \in 1..m : w2[j] = IF j = m THEN w[m] \o items ELSE w[j]
      <3>1. Len(w) = m
        BY DEF m
      <3> QED  BY ONLY <1>2, <1>3, <1>5, <2>1, <3>1, ExceptSeq
    <2> QED  BY ONLY <1>3, <2>2, SMTT(40)
  <1> HIDE DEF m
  <1>7. \A i \in 1..(Len(ul) - 1) : w2[i + 1] = w[i + 1]
    BY <1>3, <1>6
  <1>8. Lists(ul, w2)
    BY <1>3, <1>6, <1>7 DEF Lists, m
  <1>9. Len(w[m]) \in Nat
    BY <1>4
  <1>10. Lag(ul, w2, Len(items))
    <2> SUFFICES ASSUME ul # <<>> PROVE ul[Len(ul)].current + Len(items) = Len(w2[m])
      BY <1>6 DEF Lag
    <2>1. ul[Len(ul)].current \in Nat /\ ul[Len(ul)].current + 0 = Len(w[m])
      <3>1. Len(ul) > 0
        BY ListTypes
      <3>2. Len(ul) \in 1..Len(ul)
        BY <1>3, <3>1
      <3>3. ul[Len(ul)].current + 0 = Len(w[m])
        BY DEF Lag, m
      <3> QED  BY <1>3, <3>2, <3>3
    <2> QED  BY ONLY <1>5, <1>6, <1>9, <2>1
  <1> QED  BY <1>8, <1>10

(* A list that is begun has counted its items, and so has the one around it. *)
LEMMA OpenKeeps ==
    ASSUME NEW ul, NEW w, Lists(ul, w), Lag(ul, w, 0),
           NEW p, NEW max \in SUBSET Int, \A x \in max : 0 < x,
           NEW ul2, ul2 = Append(ul, ListInfo(p, max)), NEW w2, w2 = Append(w, <<>>)
    PROVE  Lists(ul2, w2) /\ Lag(ul2, w2, 0)
  <1> DEFINE m == Len(ul)
  <1>1. PICK S : w \in Seq(Seq(S))
    BY DEF Lists
  <1>2. PICK P : ul \in Seq([position : P, current : Nat, max : SUBSET Int])
    BY DEF Lists
  <1> DEFINE R == [position : P \cup {p}, current : Nat, max : SUBSET Int]
  <1>3. m \in Nat /\ Len(w) = m + 1
    BY ListTypes
  <1>4. ul \in Seq(R) /\ ListInfo(p, max) \in R
    <2>1. [position : P, current : Nat, max : SUBSET Int] \subseteq R
      OBVIOUS
    <2> HIDE DEF R
    <2>2. ul \in Seq(R)
      BY <1>2, <2>1, SeqMonotonic
    <2> QED  BY <2>2 DEF ListInfo, R
  <1>5. ListInfo(p, max).current = 0 /\ ListInfo(p, max).max = max
    BY DEF ListInfo
  <1> HIDE DEF R
  <1>6. /\ ul2 \in Seq(R) /\ Len(ul2) = m + 1
        /\ ul2[m + 1] = ListInfo(p, max) /\ \A i \in 1..m : ul2[i] = ul[i]
    BY <1>4, AppendProperties
  <1>7. /\ w2 \in Seq(Seq(S)) /\ Len(w2) = m + 2
        /\ w2[m + 2] = <<>> /\ \A i \in 1..(m + 1) : w2[i] = w[i]
    <2>1. <<>> \in Seq(S)
      OBVIOUS
    <2> QED  BY <1>1, <1>3, <2>1, AppendProperties
  <1>8. ASSUME NEW i \in 1..(m + 1) PROVE \A x \in ul2[i].max : ul2[i].current < x
    <2>1. CASE i = m + 1
      BY <1>5, <1>6, <2>1
    <2>2. CASE i # m + 1
      <3>1. i \in 1..m
        BY <1>3, <2>2
      <3> QED  BY <1>6, <3>1 DEF Lists, m
    <2> QED  BY <2>1, <2>2
  <1>9. ASSUME NEW i \in 1..m PROVE ul2[i].current = Len(w2[i + 1])
    <2>1. ul2[i] = ul[i] /\ w2[i + 1] = w[i + 1]
      BY <1>3, <1>6, <1>7
    <2>2. CASE i = m
      <3>1. ul # <<>> /\ ul[m].current \in Nat
        BY <1>3, <2>2, ListTypes
      <3>2. ul[m].current + 0 = Len(w[m + 1])
        BY <1>3, <3>1 DEF Lag
      <3> QED  BY ONLY <2>1, <2>2, <3>1, <3>2
    <2>3. CASE i # m
      <3>1. i \in 1..(m - 1)
        BY <1>3, <2>3
      <3> QED  BY <2>1, <3>1 DEF Lists
    <2> QED  BY <2>2, <2>3
  <1> HIDE DEF m
  <1>10. Lists(ul2, w2)
    <2>1. /\ Len(ul2) = m + 1 /\ Len(ul2) - 1 = m /\ Len(w2) = Len(ul2) + 1
      BY <1>3, <1>6, <1>7
    <2> QED  BY <1>6, <1>7, <1>8, <1>9, <2>1 DEF Lists, R
  <1>11. Lag(ul2, w2, 0)
    BY <1>3, <1>5, <1>6, <1>7 DEF Lag
  <1> QED  BY <1>10, <1>11

(* A list that is closed is an item the list around it has to count. *)
LEMMA FinishKeeps ==
    ASSUME NEW ul, NEW w, Lists(ul, w), ul # <<>>, NEW x,
           NEW ul2, ul2 = Front(ul),
           NEW w2, w2 = [i \in 1..(Len(w) - 1) |->
                            IF i = Len(w) - 1 THEN Append(w[i], x) ELSE w[i]]
    PROVE  Lists(ul2, w2) /\ Lag(ul2, w2, 1)
  <1> DEFINE m == Len(ul)
  <1>1. PICK S : w \in Seq(Seq(S))
    BY DEF Lists
  <1>2. PICK P : ul \in Seq([position : P, current : Nat, max : SUBSET Int])
    BY DEF Lists
  <1> DEFINE R == [position : P, current : Nat, max : SUBSET Int]
             U == S \cup {x}
  <1>3. /\ m \in Nat /\ m > 0 /\ Len(w) = m + 1 /\ Len(w) - 1 = m /\ m - 1 \in 0..m
        /\ \A i \in 1..m : ul[i].current \in Nat
    BY ListTypes
  <1> HIDE DEF R
  <1>4. /\ ul2 \in Seq(R) /\ Len(ul2) = m - 1 /\ \A i \in 1..(m - 1) : ul2[i] = ul[i]
    <2>1. ul \in Seq(R)
      BY <1>2 DEF R
    <2>2. ul2 = SubSeq(ul, 1, m - 1)
      BY DEF Front
    <2>3. Len(ul) = m
      OBVIOUS
    <2> HIDE DEF m
    <2>4. 1 \in 1..(m + 1) /\ (m - 1) \in (1 - 1)..m /\ (m - 1) - 1 + 1 = m - 1 /\ (1 <= m - 1 \/ m - 1 = 0)
      BY ONLY <1>3
    <2>5. /\ ul2 \in Seq(R) /\ Len(ul2) = m - 1
      BY ONLY <1>3, <2>1, <2>2, <2>3, <2>4, SubSeqProperties
    <2>6. ASSUME NEW i \in 1..(m - 1) PROVE ul2[i] = ul[i]
      BY ONLY i \in 1..(m - 1), <1>3, <2>1, <2>2, <2>3, <2>4, SubSeqProperties
    <2> QED  BY <2>5, <2>6
  <1>5. \A i \in 1..m : w[i] \in Seq(U)
    <2>1. w \in Seq(Seq(U))
      BY <1>1, SeqOfLarger
    <2>2. \A i \in 1..m : i \in 1..Len(w)
      BY ONLY <1>3
    <2> QED  BY ONLY <2>1, <2>2, ElementOfSeq
  <1>6. Append(w[m], x) \in Seq(U) /\ Len(Append(w[m], x)) = Len(w[m]) + 1 /\ Len(w[m]) \in Nat
    <2>1. w[m] \in Seq(U) /\ x \in U
      <3>1. m \in 1..m
        BY ONLY <1>3
      <3> QED  BY <1>5, <3>1
    <2> QED  BY <2>1, AppendProperties
  <1>7. w2 = [i \in 1..m |-> IF i = m THEN Append(w[i], x) ELSE w[i]]
    BY <1>3
  <1>8. \A i \in 1..m : w2[i] \in Seq(U)
    BY <1>5, <1>6, <1>7
  <1> HIDE DEF U, m
  <1>9. /\ w2 \in Seq(Seq(U)) /\ Len(w2) = m /\ w2[m] = Append(w[m], x)
        /\ \A i \in 1..(m - 1) : w2[i] = w[i]
    <2>1. w2 \in [1..m -> Seq(U)]
      BY ONLY <1>7, <1>8
    <2>2. m \in Nat /\ m \in 1..m
      BY ONLY <1>3
    <2>3. w2 \in Seq(Seq(U)) /\ Len(w2) = m
      BY ONLY <2>1, <2>2, FunctionIsSeq
    <2>4. w2[m] = Append(w[m], x)
      BY ONLY <1>7, <2>2
    <2>5. \A i \in 1..(m - 1) : i \in 1..m /\ i # m
      BY ONLY <1>3
    <2>6. \A i \in 1..(m - 1) : w2[i] = w[i]
      BY ONLY <1>7, <2>5
    <2> QED  BY <2>3, <2>4, <2>6
  <1>10. \A i \in 1..(m - 1) : ul[i].current = Len(w[i + 1])
    BY DEF Lists, m
  <1>11. \A i \in 1..m : \A max \in ul[i].max : ul[i].current < max
    BY DEF Lists, m
  <1>12. Lists(ul2, w2)
    <2>1. Len(w2) = Len(ul2) + 1
      BY <1>3, <1>4, <1>9
    <2>2. ASSUME NEW i \in 1..Len(ul2) PROVE \A max \in ul2[i].max : ul2[i].current < max
      BY <1>3, <1>4, <1>11, SMTT(40)
    <2>3. ASSUME NEW i \in 1..(Len(ul2) - 1) PROVE ul2[i].current = Len(w2[i + 1])
      <3>1. i \in 1..(m - 1) /\ i + 1 \in 1..(m - 1)
        BY <1>3, <1>4
      <3> QED  BY <1>4, <1>9, <1>10, <3>1
    <2> QED  BY <1>4, <1>9, <2>1, <2>2, <2>3 DEF Lists, R
  <1>13. Lag(ul2, w2, 1)
    <2> SUFFICES ASSUME ul2 # <<>> PROVE ul2[Len(ul2)].current + 1 = Len(w2[Len(w2)])
      BY DEF Lag
    <2>1. Len(ul2) > 0
      BY <1>3, <1>4, EmptySeq
    <2>2. m - 1 \in 1..(m - 1) /\ (m - 1) + 1 = m
      BY <1>3, <1>4, <2>1
    <2>3. ul[m - 1].current = Len(w[m]) /\ ul2[m - 1] = ul[m - 1]
      BY <1>4, <1>10, <2>2
    <2> QED  BY <1>4, <1>6, <1>9, <2>3
  <1> QED  BY <1>12, <1>13

(* A list that is not full counts what it has to count. *)
LEMMA CountKeeps ==
    ASSUME NEW ul, NEW w, Lists(ul, w), ul # <<>>, NEW k \in Nat, Lag(ul, w, k),
           NEW c, c = ul[Len(ul)].current + k, \A max \in ul[Len(ul)].max : c < max,
           NEW ul2, ul2 = [ul EXCEPT ![Len(ul)].current = c]
    PROVE  Lists(ul2, w) /\ Lag(ul2, w, 0)
  <1> DEFINE m == Len(ul)
  <1>1. PICK P : ul \in Seq([position : P, current : Nat, max : SUBSET Int])
    BY DEF Lists
  <1> DEFINE R == [position : P, current : Nat, max : SUBSET Int]
  <1>2. /\ m \in Nat /\ m > 0 /\ Len(w) = m + 1 /\ m \in 1..m
        /\ ul[m].current \in Nat /\ c \in Nat
    BY ListTypes
  <1>3. \A i \in 1..m : ul[i] \in R
    BY <1>1, ElementOfSeq
  <1> DEFINE y == [ul[m] EXCEPT !.current = c]
  <1>4. y \in R /\ y.current = c /\ y.max = ul[m].max
    BY <1>2, <1>3
  <1>5. ul2 = [ul EXCEPT ![m] = y] /\ ul \in Seq(R) /\ Len(ul) = m
    BY <1>1
  <1> HIDE DEF R, y, m
  <1>6. /\ ul2 \in Seq(R) /\ Len(ul2) = m /\ ul2[m] = y /\ \A i \in 1..(m - 1) : ul2[i] = ul[i]
    <2>1. /\ ul2 \in Seq(R) /\ Len(ul2) = m
          /\ \A j \in 1..m : ul2[j] = IF j = m THEN y ELSE ul[j]
      BY ONLY <1>2, <1>4, <1>5, ExceptSeq
    <2> QED  BY ONLY <1>2, <2>1
  <1>7. /\ \A i \in 1..(m - 1) : ul[i].current = Len(w[i + 1])
        /\ \A i \in 1..m : \A max \in ul[i].max : ul[i].current < max
        /\ \E S : w \in Seq(Seq(S))
    BY DEF Lists, m
  <1>8. ASSUME NEW i \in 1..m PROVE \A max \in ul2[i].max : ul2[i].current < max
    <2>1. CASE i = m
      BY <1>4, <1>6, <2>1 DEF m
    <2>2. CASE i # m
      BY <1>2, <1>6, <1>7, <2>2
    <2> QED  BY <2>1, <2>2
  <1>9. Lists(ul2, w)
    BY <1>2, <1>6, <1>7, <1>8 DEF Lists, R
  <1>10. Lag(ul2, w, 0)
    <2>1. c = Len(w[Len(w)])
      BY DEF Lag
    <2> QED  BY <1>2, <1>4, <1>6, <2>1 DEF Lag
  <1> QED  BY <1>9, <1>10

(* A call of note_appended under way. *)
LEMMA NoteFacts ==
    ASSUME NEW k, NEW d
    PROVE  Note(k, d) # {} /\ \A n \in Note(k, d) : n.items = k /\ n.decided = d
  <1>1. Note(k, d) = {[items |-> k, decided |-> d]}
    BY DEF Note
  <1>2. [items |-> k, decided |-> d].items = k /\ [items |-> k, decided |-> d].decided = d
    OBVIOUS
  <1> QED  BY <1>1, <1>2, Zenon

(* Where the innermost append is, and what InList means of it. *)
LEMMA LastFrame ==
    ASSUME FramesInv, frames # <<>>
    PROVE  /\ Len(frames) \in Nat /\ Len(frames) > 0 /\ Last(frames) = frames[Len(frames)]
           /\ Last(frames) \in Frame
           /\ InList => Last(frames).made = "list" /\ ~(Depth <= Last(frames).depth)
  <1>1. Len(frames) \in Nat /\ Len(frames) > 0
    BY EmptySeq DEF FramesInv
  <1>2. Last(frames) = frames[Len(frames)]
    BY DEF Last
  <1>3. Last(frames) \in Frame
    BY <1>1, <1>2, ElementOfSeq DEF FramesInv
  <1>4. ASSUME InList PROVE Last(frames).made = "list" /\ ~(Depth <= Last(frames).depth)
    <2>1. Last(frames).made # "nothing" /\ ~(Depth <= Last(frames).depth)
      BY <1>4 DEF InList, InValue, AfterValue
    <2>2. Last(frames).depth \in Nat
      BY <1>3 DEF Frame
    <2>3. Last(frames).made # "list" => Last(frames).depth = Depth
      BY DEF FramesInv
    <2> QED  BY <2>1, <2>2, <2>3
  <1> QED  BY <1>1, <1>2, <1>3, <1>4

(* Frames and nothing else of FramesInv change at the depth they have. *)
LEMMA MadeFacts ==
    ASSUME FramesInv, NEW kind \in {"data", "list"}, ~AfterValue
    PROVE  /\ Made(kind) \in Seq(Frame) /\ Len(Made(kind)) = Len(frames)
           /\ \A k \in 1..(Len(frames) - 1) : Made(kind)[k] = frames[k]
           /\ frames # <<>> =>
                 /\ Made(kind) # <<>>
                 /\ Last(Made(kind)).depth = Last(frames).depth
                 /\ InValue => Last(Made(kind)).made = kind
                 /\ ~InValue => Made(kind) = frames /\ InList
           /\ frames = <<>> => Made(kind) = <<>>
  <1>1. CASE ~InValue
    <2>1. Made(kind) = frames /\ InList
      BY <1>1 DEF Made, InList
    <2> QED  BY <1>1, <2>1 DEF FramesInv
  <1>2. CASE InValue
    <2> DEFINE m == Len(frames)
               y == [frames[m] EXCEPT !.made = kind]
    <2>1. frames # <<>> /\ frames \in Seq(Frame)
      BY <1>2 DEF InValue, FramesInv
    <2>2. m \in Nat /\ m > 0 /\ m \in 1..m /\ Last(frames) = frames[m] /\ frames[m] \in Frame
      BY <2>1, LastFrame
    <2>3. y \in Frame /\ y.made = kind /\ y.depth = frames[m].depth
      BY <2>2 DEF Frame
    <2>4. Made(kind) = [frames EXCEPT ![m] = y] /\ Len(frames) = m
      BY <1>2 DEF Made
    <2> HIDE DEF m, y
    <2>5. /\ Made(kind) \in Seq(Frame) /\ Len(Made(kind)) = m
          /\ \A j \in 1..m : Made(kind)[j] = IF j = m THEN y ELSE frames[j]
      BY ONLY <2>1, <2>2, <2>3, <2>4, ExceptSeq
    <2>6. \A j \in 1..(m - 1) : j \in 1..m /\ j # m
      BY ONLY <2>2
    <2>7. \A k \in 1..(m - 1) : Made(kind)[k] = frames[k]
      BY ONLY <2>5, <2>6
    <2>8. Made(kind) # <<>> /\ Last(Made(kind)) = y
      BY <2>2, <2>5, EmptySeq DEF Last
    <2> QED  BY <1>2, <2>1, <2>2, <2>3, <2>4, <2>5, <2>7, <2>8
  <1> QED  BY <1>1, <1>2

(* A step that leaves the calls of append alone, in a list or while noting. *)
LEMMA SameFrames ==
    ASSUME FramesInv, frames' = frames,
           frames # <<>> => Last(frames).made = "list",
           frames # <<>> /\ Depth' <= Last(frames).depth =>
              /\ noting' = {} => finished_list'
              /\ \A n \in noting' : n.decided = {TRUE}
    PROVE  FramesInv'
  BY DEF FramesInv

(* A value or a list is begun where the client, or the innermost append, is. *)
LEMMA BeganFrames ==
    ASSUME FramesInv, Depth \in Nat, ~AfterValue, frames' = Made("list"),
           \/ Depth' = Depth + 1
           \/ noting' = Note(1, {TRUE}) /\ Depth' = Depth
    PROVE  FramesInv'
  <1> DEFINE m == Len(frames)
             f == Made("list")
  <1>1. /\ f \in Seq(Frame) /\ Len(f) = m
        /\ \A k \in 1..(m - 1) : f[k] = frames[k]
        /\ frames # <<>> =>
              /\ f # <<>> /\ Last(f).depth = Last(frames).depth
              /\ InValue => Last(f).made = "list"
              /\ ~InValue => f = frames /\ InList
        /\ frames = <<>> => f = <<>>
    BY MadeFacts
  <1>2. CASE frames = <<>>
    BY <1>1, <1>2, EmptySeq DEF FramesInv
  <1>3. CASE frames # <<>>
    <2>1. /\ m \in Nat /\ m > 0 /\ Last(frames) = frames[m] /\ frames[m] \in Frame
          /\ InList => Last(frames).made = "list" /\ ~(Depth <= Last(frames).depth)
      BY <1>3, LastFrame
    <2>2. Last(f).made = "list" /\ f # <<>> /\ Last(f) = f[m] /\ f[m].depth = frames[m].depth
      <3>1. Last(f) = f[m] /\ Last(f).depth = Last(frames).depth
        BY <1>1, <1>3 DEF Last
      <3> QED  BY <1>1, <1>3, <2>1, <3>1
    <2>3. frames[m].depth \in Nat
      BY <2>1 DEF Frame
    <2>4. InValue => Last(frames).depth = Depth
      BY DEF InValue, FramesInv
    <2>5. frames[m].depth <= Depth
      <3>1. CASE InValue
        BY <2>1, <2>3, <2>4, <3>1
      <3>2. CASE ~InValue
        BY <1>1, <1>3, <2>1, <2>3, <3>2
      <3> QED  BY <3>1, <3>2
    <2> HIDE DEF m, f
    <2>6. ASSUME NEW k \in 1..(m - 1)
          PROVE  f[k].made = "list" /\ f[k].depth < f[k + 1].depth
      <3>1. f[k] = frames[k] /\ frames[k].made = "list" /\ frames[k].depth < frames[k + 1].depth
        BY <1>1 DEF FramesInv, m
      <3>2. f[k + 1].depth = frames[k + 1].depth
        <4>1. CASE k + 1 = m
          BY <2>2, <4>1
        <4>2. CASE k + 1 # m
          <5>1. k + 1 \in 1..(m - 1)
            BY <2>1, <4>2
          <5> QED  BY <1>1, <5>1
        <4> QED  BY <4>1, <4>2
      <3> QED  BY <3>1, <3>2
    <2>7. Depth' <= Last(f).depth => noting' = Note(1, {TRUE})
      <3>1. \/ Depth' = Depth + 1
            \/ noting' = Note(1, {TRUE})
        OBVIOUS
      <3>2. Depth \in Nat
        OBVIOUS
      <3> QED  BY ONLY <2>2, <2>3, <2>5, <3>1, <3>2
    <2>8. \A n \in Note(1, {TRUE}) : n.decided = {TRUE}
      BY ONLY NoteFacts
    <2>9. Note(1, {TRUE}) # {}
      BY ONLY NoteFacts
    <2>10. frames' = f /\ Len(f) = m
      BY <1>1 DEF f
    <2> QED  BY <1>1, <2>2, <2>6, <2>7, <2>8, <2>9, <2>10 DEF FramesInv
  <1> QED  BY <1>2, <1>3

(* No list is open. *)
LEMMA NoLists ==
    Lists(<<>>, << <<>> >>) /\ \A k : Lag(<<>>, << <<>> >>, k)
  <1>1. << <<>> >> \in Seq(Seq({})) /\ Len(<< <<>> >>) = 1
    BY EmptySeq
  <1>2. <<>> \in Seq([position : {}, current : Nat, max : SUBSET Int]) /\ Len(<<>>) = 0
    BY EmptySeq
  <1>3. 1..0 = {} /\ 1..(0 - 1) = {} /\ 1 = 0 + 1
    OBVIOUS
  <1> QED  BY <1>1, <1>2, <1>3 DEF Lists, Lag

(* A stream with nothing under way has nothing to count. *)
LEMMA NothingToCount ==
    ASSUME noting = {}, frames = <<>>, unfinished_lists = <<>>, written = << <<>> >>
    PROVE  CountInv
  <1>1. <<>> \in Seq(Frame) /\ Len(<<>>) = 0 /\ 1..(0 - 1) = {}
    BY EmptySeq
  <1> QED  BY <1>1, NoLists DEF CountInv, FramesInv, NotingInv

(* The same after clear. *)
LEMMA ClearedCounts ==
    ASSUME noting' = {}, frames' = <<>>, unfinished_lists' = <<>>, written' = << <<>> >>
    PROVE  CountInv'
  <1>1. <<>> \in Seq(Frame) /\ Len(<<>>) = 0 /\ 1..(0 - 1) = {}
    BY EmptySeq
  <1> QED  BY <1>1, NoLists DEF CountInv, FramesInv, NotingInv

(* append's way out: a list has counted itself. *)
LEMMA LeaveKeeps ==
    ASSUME CountInv, LeaveAppend
    PROVE  CountInv'
  <1> DEFINE m == Len(frames)
             g == Front(frames)
  <1>1. /\ noting = {} /\ frames # <<>> /\ Last(frames).made # "nothing" /\ Depth <= Last(frames).depth
        /\ frames' = g /\ noting' = IF finished_list THEN {} ELSE Note(1, {})
        /\ finished_list' = finished_list /\ unfinished_lists' = unfinished_lists
        /\ written' = written /\ Depth' = Depth
    BY DEF LeaveAppend, AfterValue, stream, Depth
  <1>2. /\ m \in Nat /\ m > 0 /\ Last(frames) = frames[m] /\ frames[m] \in Frame
        /\ frames \in Seq(Frame)
    BY <1>1, LastFrame DEF CountInv, FramesInv
  <1>3. /\ g \in Seq(Frame) /\ Len(g) = m - 1 /\ \A k \in 1..(m - 1) : g[k] = frames[k]
    <2>1. g = SubSeq(frames, 1, m - 1) /\ Len(frames) = m
      BY DEF Front
    <2> HIDE DEF g, m
    <2>2. /\ 1 \in 1..(m + 1) /\ (m - 1) \in (1 - 1)..m /\ (m - 1) - 1 + 1 = m - 1
          /\ (1 <= m - 1 \/ m - 1 = 0)
      BY ONLY <1>2
    <2>3. g \in Seq(Frame) /\ Len(g) = m - 1
      BY ONLY <1>2, <2>1, <2>2, SubSeqProperties
    <2>4. ASSUME NEW i \in 1..(m - 1) PROVE g[i] = frames[i]
      BY ONLY i \in 1..(m - 1), <1>2, <2>1, <2>2, SubSeqProperties
    <2> QED  BY <2>3, <2>4
  <1>4. \A k \in 1..(m - 1) : frames[k].made = "list" /\ frames[k].depth < frames[k + 1].depth
    BY DEF CountInv, FramesInv
  <1>5. Last(frames).made # "list" => ~finished_list /\ Last(frames).depth = Depth
    BY <1>1 DEF CountInv, FramesInv
  <1>6. Last(frames).made = "list" => finished_list
    BY <1>1 DEF CountInv, FramesInv
  <1>7. Lag(unfinished_lists, written, IF ValuePending THEN 1 ELSE 0)
    BY <1>1 DEF CountInv
  <1>8. g # <<>> => Last(g) = frames[m - 1] /\ Last(g).made = "list" /\ Last(g).depth < Last(frames).depth
    <2> SUFFICES ASSUME g # <<>>
                 PROVE  Last(g) = frames[m - 1] /\ Last(g).made = "list" /\ Last(g).depth < Last(frames).depth
      OBVIOUS
    <2> HIDE DEF g, m
    <2>1. m - 1 \in 1..(m - 1) /\ (m - 1) + 1 = m
      BY <1>2, <1>3, EmptySeq
    <2>2. Last(g) = g[m - 1]
      BY <1>3 DEF Last
    <2> QED  BY ONLY <1>2, <1>3, <1>4, <2>1, <2>2
  <1>9. ASSUME NEW k \in 1..(Len(g) - 1) PROVE g[k].made = "list" /\ g[k].depth < g[k + 1].depth
    <2> HIDE DEF g, m
    <2>1. k \in 1..(m - 1) /\ k + 1 \in 1..(m - 1)
      BY <1>2, <1>3
    <2> QED  BY ONLY <1>3, <1>4, <2>1
  <1>10. Lists(unfinished_lists, written)
    BY DEF CountInv
  <1> HIDE DEF g, m
  <1>11. CASE finished_list
    <2>1. noting' = {} /\ Last(frames).made = "list" /\ finished_list'
      BY <1>1, <1>5, <1>11
    <2>2. FramesInv'
      BY <1>1, <1>3, <1>8, <1>9, <2>1 DEF FramesInv
    <2>3. ~ValuePending /\ ~ValuePending'
      BY <1>1, <1>8, <2>1 DEF ValuePending
    <2> QED  BY <1>1, <1>7, <1>10, <2>1, <2>2, <2>3 DEF CountInv, NotingInv
  <1>12. CASE ~finished_list
    <2>1. noting' = Note(1, {}) /\ Last(frames).made = "data" /\ Last(frames).depth = Depth
      BY <1>1, <1>2, <1>5, <1>6, <1>12 DEF Frame
    <2>2. g # <<>> => ~(Depth' <= Last(g).depth)
      <3>1. ASSUME g # <<>> PROVE Last(g).depth \in Nat
        <4>1. g[Len(g)] \in Frame
          BY <1>2, <1>3, <3>1, EmptySeq, ElementOfSeq
        <4> QED  BY <4>1 DEF Last, Frame
      <3>2. Last(frames).depth \in Nat
        BY <1>2 DEF Frame
      <3> QED  BY ONLY <1>1, <1>8, <2>1, <3>1, <3>2
    <2>3. FramesInv'
      BY <1>1, <1>3, <1>8, <1>9, <2>1, <2>2 DEF FramesInv
    <2>4. ValuePending
      BY <1>1, <2>1 DEF ValuePending
    <2>5. NotingInv' /\ \A n \in noting' : n.items = 1
      BY <2>1, NoteFacts DEF NotingInv
    <2>6. noting' # {}
      BY <2>1, NoteFacts
    <2> QED  BY <1>1, <1>7, <1>10, <2>3, <2>4, <2>5, <2>6 DEF CountInv
  <1> QED  BY <1>11, <1>12

(* note_appended, list by list. *)
LEMMA NoteKeeps ==
    ASSUME CountInv, NoteAppended
    PROVE  CountInv'
  <1>1. PICK n \in noting :
          /\ UNCHANGED <<start_pos, frames, steps>>
          /\ \/ /\ unfinished_lists = <<>>
                /\ noting' = {}
                /\ finished_list' = IF n.decided = {} THEN finished_list ELSE TRUE \in n.decided
                /\ UNCHANGED <<buffer, unfinished_lists, written>>
             \/ /\ unfinished_lists # <<>>
                /\ \/ /\ \A max \in Last(unfinished_lists).max : Last(unfinished_lists).current + n.items < max
                      /\ unfinished_lists' = [unfinished_lists EXCEPT ![Depth].current =
                                                 Last(unfinished_lists).current + n.items]
                      /\ noting' = {}
                      /\ finished_list' = (TRUE \in n.decided)
                      /\ UNCHANGED <<buffer, written>>
                   \/ Finish(IF n.decided = {} THEN {TRUE} ELSE n.decided)
    BY DEF NoteAppended
  <1>2. PICK k \in Nat, d \in {{}, {TRUE}} : noting = Note(k, d)
    BY DEF CountInv, NotingInv
  <1>3. n.items = k /\ n.decided = d /\ noting # {} /\ \A x \in noting : x.decided = d
    BY <1>2 DEF Note
  <1>4. /\ Lists(unfinished_lists, written) /\ Lag(unfinished_lists, written, k) /\ FramesInv
    BY <1>3 DEF CountInv
  <1>5. /\ frames' = frames
        /\ frames # <<>> => Last(frames).made = "list"
        /\ frames # <<>> /\ Depth <= Last(frames).depth => d = {TRUE}
    BY <1>1, <1>3, <1>4 DEF FramesInv
  <1>6. ~ValuePending /\ ~ValuePending'
    BY <1>5 DEF ValuePending
  <1>7. CASE /\ unfinished_lists = <<>> /\ noting' = {}
             /\ finished_list' = IF d = {} THEN finished_list ELSE TRUE \in d
             /\ UNCHANGED <<unfinished_lists, written>>
    <2>1. FramesInv'
      BY <1>4, <1>5, <1>7, SameFrames DEF Depth
    <2>2. Lag(unfinished_lists, written, 0)'
      BY <1>7 DEF Lag
    <2> QED  BY <1>4, <1>6, <1>7, <2>1, <2>2 DEF CountInv, NotingInv
  <1>8. CASE /\ unfinished_lists # <<>>
             /\ \A max \in Last(unfinished_lists).max : Last(unfinished_lists).current + k < max
             /\ unfinished_lists' = [unfinished_lists EXCEPT ![Depth].current =
                                        Last(unfinished_lists).current + k]
             /\ noting' = {} /\ finished_list' = (TRUE \in d) /\ written' = written
    <2>1. Lists(unfinished_lists', written) /\ Lag(unfinished_lists', written, 0)
      BY <1>4, <1>8, CountKeeps DEF Depth, Last
    <2>2. Depth' = Depth
      <3>1. Len(written) = Len(unfinished_lists) + 1 /\ Len(unfinished_lists) \in Nat
        BY <1>4, ListTypes
      <3>2. Len(written) = Len(unfinished_lists') + 1 /\ Len(unfinished_lists') \in Nat
        BY <2>1, ListTypes
      <3>3. Len(unfinished_lists') = Len(unfinished_lists)
        BY ONLY <3>1, <3>2
      <3> QED  BY <3>3 DEF Depth
    <2>3. FramesInv'
      BY <1>4, <1>5, <1>8, <2>2, SameFrames
    <2> QED  BY <1>6, <1>8, <2>1, <2>3 DEF CountInv, NotingInv
  <1>9. CASE unfinished_lists # <<>> /\ Finish(IF d = {} THEN {TRUE} ELSE d)
    <2>1. noting' = Note(1, {TRUE}) /\ unfinished_lists' = Front(unfinished_lists) /\ written' = Completed
      BY <1>9 DEF Finish
    <2>2. Lists(unfinished_lists', written') /\ Lag(unfinished_lists', written', 1)
      BY <1>4, <1>9, <2>1, FinishKeeps DEF Completed
    <2>3. noting' # {} /\ \A x \in noting' : x.decided = {TRUE} /\ x.items = 1
      BY <2>1 DEF Note
    <2>4. FramesInv'
      BY <1>4, <1>5, <2>3, SameFrames
    <2>5. NotingInv'
      BY <2>1 DEF NotingInv
    <2> QED  BY <2>2, <2>3, <2>4, <2>5 DEF CountInv
  <1> QED  BY <1>1, <1>3, <1>7, <1>8, <1>9

(* Every step of a stream keeps the counts. *)
LEMMA StreamKeeps ==
    ASSUME CountInv, [StreamNext]_streamVars
    PROVE  CountInv'
  <1>1. FramesInv /\ NotingInv /\ Lists(unfinished_lists, written)
    BY DEF CountInv
  <1>2. Depth \in Nat
    BY <1>1, ListTypes DEF Depth
  <1>3. ASSUME noting = {}, InList \/ InValue PROVE Lag(unfinished_lists, written, 0) /\ ~ValuePending
    <2>1. ~ValuePending
      <3>1. ASSUME frames # <<>> PROVE Last(frames).made # "data"
        BY <1>1, <1>3, <3>1, LastFrame DEF InValue
      <3> QED  BY <3>1 DEF ValuePending
    <2> QED  BY <1>3, <2>1 DEF CountInv
  <1>4. ASSUME InList, frames' = frames, Depth' = Depth PROVE FramesInv' /\ ~ValuePending'
    <2>1. frames # <<>> => Last(frames).made = "list" /\ ~(Depth <= Last(frames).depth)
      BY <1>1, <1>4, LastFrame
    <2>2. FramesInv'
      BY <1>1, <1>4, <2>1, SameFrames
    <2> QED  BY <1>4, <2>1, <2>2 DEF ValuePending
  <1>5. CASE EnterAppend
    <2> DEFINE x == [depth |-> Depth, made |-> "nothing"]
               m == Len(frames)
    <2>1. /\ noting = {} /\ InList /\ finished_list' = FALSE /\ frames' = Append(frames, x)
          /\ noting' = noting /\ unfinished_lists' = unfinished_lists /\ written' = written
          /\ Depth' = Depth
      BY <1>5 DEF EnterAppend, Depth
    <2>2. frames \in Seq(Frame) /\ x \in Frame /\ m \in Nat
      BY <1>1, <1>2 DEF FramesInv, Frame
    <2>3. x.depth = Depth /\ x.made = "nothing"
      OBVIOUS
    <2> HIDE DEF x
    <2>4. /\ frames' \in Seq(Frame) /\ Len(frames') = m + 1 /\ frames'[m + 1] = x
          /\ \A k \in 1..m : frames'[k] = frames[k]
      BY <2>1, <2>2, AppendProperties
    <2>5. Last(frames') = x /\ frames' # <<>>
      BY <2>2, <2>4, EmptySeq DEF Last
    <2>6. ASSUME NEW k \in 1..m PROVE frames'[k].made = "list" /\ frames'[k].depth < frames'[k + 1].depth
      <3>1. CASE k = m
        <4>1. frames # <<>>
          BY <2>2, <3>1, EmptySeq
        <4>2. /\ Last(frames) = frames[m] /\ frames[m] \in Frame /\ frames[m].made = "list"
              /\ ~(Depth <= frames[m].depth)
          BY <1>1, <2>1, <4>1, LastFrame
        <4>3. frames[m].depth \in Nat
          BY <4>2 DEF Frame
        <4> QED  BY <1>2, <2>3, <2>4, <3>1, <4>2, <4>3
      <3>2. CASE k # m
        <4>1. k \in 1..(m - 1) /\ k + 1 \in 1..m
          BY <2>2, <3>2
        <4> QED  BY <1>1, <2>4, <4>1 DEF FramesInv
      <3> QED  BY <3>1, <3>2
    <2>7. FramesInv'
      <3>1. Len(frames') - 1 = m
        BY <2>2, <2>4
      <3> QED  BY <2>1, <2>3, <2>4, <2>5, <2>6, <3>1 DEF FramesInv
    <2>8. ~ValuePending'
      BY <2>3, <2>5 DEF ValuePending
    <2> QED  BY <1>1, <1>3, <2>1, <2>7, <2>8 DEF CountInv, NotingInv
  <1>6. ASSUME NEW v \in Data, RlpAppendData(v) PROVE CountInv'
    <2>1. /\ noting = {} /\ noting' = {} /\ InValue /\ ~AfterValue /\ frames' = Made("data")
          /\ finished_list' = finished_list /\ unfinished_lists' = unfinished_lists
          /\ written' = Wrote(<<DataItem(v)>>) /\ Depth' = Depth
      BY <1>6 DEF RlpAppendData, MayWrite, Depth
    <2>2. /\ Lists(unfinished_lists, written') /\ Lag(unfinished_lists, written', 1)
      <3>1. <<DataItem(v)>> \in Seq({DataItem(v)}) /\ Len(<<DataItem(v)>>) = 1
        OBVIOUS
      <3>2. Lag(unfinished_lists, written, 0)
        BY <1>3, <2>1
      <3> QED  BY <1>1, <2>1, <3>1, <3>2, WroteKeeps DEF Wrote
    <2> DEFINE m == Len(frames)
    <2>3. /\ frames # <<>> /\ ~finished_list /\ Last(frames).depth = Depth
          /\ m \in Nat /\ m > 0 /\ Last(frames) = frames[m]
      BY <1>1, <2>1, LastFrame DEF InValue, FramesInv
    <2>4. /\ frames' \in Seq(Frame) /\ Len(frames') = m
          /\ \A k \in 1..(m - 1) : frames'[k] = frames[k]
          /\ frames' # <<>> /\ Last(frames').depth = Last(frames).depth /\ Last(frames').made = "data"
      BY <1>1, <2>1, <2>3, MadeFacts
    <2>5. ASSUME NEW k \in 1..(m - 1)
          PROVE  frames'[k].made = "list" /\ frames'[k].depth < frames'[k + 1].depth
      <3>1. frames[k].made = "list" /\ frames[k].depth < frames[k + 1].depth
        BY <1>1 DEF FramesInv
      <3>2. frames'[k + 1].depth = frames[k + 1].depth
        <4>1. CASE k + 1 = m
          <5>1. Last(frames') = frames'[m]
            BY <2>4 DEF Last
          <5> QED  BY <2>3, <2>4, <4>1, <5>1
        <4>2. CASE k + 1 # m
          <5>1. k + 1 \in 1..(m - 1)
            BY <2>3, <4>2
          <5> QED  BY <2>4, <5>1
        <4> QED  BY <4>1, <4>2
      <3> QED  BY <2>4, <3>1, <3>2
    <2>6. FramesInv'
      BY <2>1, <2>3, <2>4, <2>5 DEF FramesInv
    <2>7. ValuePending'
      BY <2>4 DEF ValuePending
    <2> QED  BY <2>1, <2>2, <2>6, <2>7 DEF CountInv, NotingInv
  <1>7. ASSUME NEW T, NEW items \in Seq(T), noting = {}, InList, frames' = frames,
               unfinished_lists' = unfinished_lists,
               written' = Wrote(items), noting' = Note(Len(items), {})
        PROVE  CountInv'
    <2>1. /\ Lists(unfinished_lists, written') /\ Lag(unfinished_lists, written', Len(items))
      BY <1>1, <1>3, <1>7, WroteKeeps DEF Wrote
    <2>2. Depth' = Depth
      BY <1>7 DEF Depth
    <2>3. FramesInv'
      BY <1>4, <1>7, <2>2
    <2>4. Len(items) \in Nat
      OBVIOUS
    <2>5. NotingInv' /\ noting' # {} /\ \A n \in noting' : n.items = Len(items)
      BY <1>7, <2>4, NoteFacts DEF NotingInv
    <2> QED  BY <1>7, <2>1, <2>3, <2>5 DEF CountInv
  <1>8. CASE AppendEmptyData
    <2>1. /\ noting = {} /\ InList /\ frames' = frames /\ unfinished_lists' = unfinished_lists
          /\ written' = Wrote(<<DataItem(<<>>)>>) /\ noting' = Note(1, {})
      BY <1>8 DEF AppendEmptyData, MayWrite
    <2>2. <<DataItem(<<>>)>> \in Seq({DataItem(<<>>)}) /\ Len(<<DataItem(<<>>)>>) = 1
      OBVIOUS
    <2> QED  BY <1>7, <2>1, <2>2
  <1>9. ASSUME NEW items \in Raw, AppendRaw(items) PROVE CountInv'
    <2>1. /\ noting = {} /\ InList /\ frames' = frames /\ unfinished_lists' = unfinished_lists
          /\ written' = Wrote(items) /\ noting' = Note(Len(items), {})
      BY <1>9 DEF AppendRaw, MayWrite
    <2>2. items \in Seq(RawItems)
      BY RawAssumption
    <2> QED  BY <1>7, <2>1, <2>2
  <1>10. ASSUME NEW max \in SUBSET Int, \A x \in max : 0 < x,
                noting = {}, ~AfterValue, frames' = Made("list"), Open(max)
         PROVE  CountInv'
    <2>1. /\ unfinished_lists' = Append(unfinished_lists, ListInfo(TotalWritten + 1, max))
          /\ written' = Append(written, <<>>) /\ noting' = {}
      BY <1>10 DEF Open
    <2>2. InList \/ InValue
      BY <1>10 DEF InList
    <2>3. Lists(unfinished_lists', written') /\ Lag(unfinished_lists', written', 0)
      BY <1>1, <1>3, <1>10, <2>1, <2>2, OpenKeeps
    <2>4. Depth' = Depth + 1
      <3>1. PICK P : unfinished_lists \in Seq([position : P, current : Nat, max : SUBSET Int])
        BY <1>1 DEF Lists
      <3> QED  BY <2>1, <3>1 DEF Depth
    <2>5. FramesInv'
      BY <1>1, <1>2, <1>10, <2>4, BeganFrames
    <2>6. ~ValuePending'
      <3>1. frames # <<>> => Last(frames').made = "list"
        BY <1>1, <1>10, MadeFacts, LastFrame
      <3>2. frames = <<>> => frames' = <<>>
        BY <1>1, <1>10, MadeFacts
      <3> QED  BY <3>1, <3>2 DEF ValuePending
    <2> QED  BY <2>1, <2>3, <2>5, <2>6 DEF CountInv, NotingInv
  <1>11. ASSUME NEW len \in 0..MaxLen, BeginList(len) PROVE CountInv'
    <2>1. noting = {} /\ ~AfterValue /\ frames' = Made("list")
      BY <1>11 DEF BeginList, MayWrite
    <2>2. CASE len = 0
      <3>1. /\ noting' = Note(1, {TRUE}) /\ written' = Wrote(<<ListItem(<<>>)>>)
            /\ unfinished_lists' = unfinished_lists
        BY <1>11, <2>2 DEF BeginList, EmptyList
      <3>2. <<ListItem(<<>>)>> \in Seq({ListItem(<<>>)}) /\ Len(<<ListItem(<<>>)>>) = 1
        OBVIOUS
      <3>3. Lag(unfinished_lists, written, 0)
        BY <1>3, <2>1 DEF InList
      <3>4. Lists(unfinished_lists, written') /\ Lag(unfinished_lists, written', 1)
        BY <1>1, <3>1, <3>2, <3>3, WroteKeeps DEF Wrote
      <3>5. Depth' = Depth
        BY <3>1 DEF Depth
      <3>6. FramesInv'
        BY <1>1, <1>2, <2>1, <3>1, <3>5, BeganFrames
      <3>7. NotingInv' /\ noting' # {} /\ \A n \in noting' : n.items = 1
        BY <3>1, NoteFacts DEF NotingInv
      <3> QED  BY <3>1, <3>4, <3>6, <3>7 DEF CountInv
    <2>3. CASE len # 0
      <3>1. Open({len}) /\ {len} \in SUBSET Int /\ \A x \in {len} : 0 < x
        BY <1>11, <2>3 DEF BeginList
      <3> QED  BY <1>10, <2>1, <3>1
    <2> QED  BY <2>2, <2>3
  <1>12. CASE BeginUnboundedList
    <2>1. noting = {} /\ ~AfterValue /\ frames' = Made("list") /\ Open({})
      BY <1>12 DEF BeginUnboundedList, MayWrite
    <2> QED  BY <1>10, <2>1
  <1>13. CASE FinalizeUnboundedList
    <2>1. /\ noting = {} /\ InList /\ frames' = frames /\ Depth > 0
          /\ noting' = Note(1, {TRUE}) /\ unfinished_lists' = Front(unfinished_lists)
          /\ written' = Completed
      BY <1>13 DEF FinalizeUnboundedList, Finish
    <2>2. unfinished_lists # <<>>
      BY <1>1, <2>1, ListTypes DEF Depth
    <2>3. Lists(unfinished_lists', written') /\ Lag(unfinished_lists', written', 1)
      BY <1>1, <2>1, <2>2, FinishKeeps DEF Completed
    <2>4. noting' # {} /\ \A x \in noting' : x.decided = {TRUE} /\ x.items = 1
      BY <2>1 DEF Note
    <2>5. frames # <<>> => Last(frames).made = "list"
      BY <1>1, <2>1, LastFrame
    <2>6. FramesInv'
      BY <1>1, <2>1, <2>4, <2>5, SameFrames
    <2>7. NotingInv'
      BY <2>1 DEF NotingInv
    <2> QED  BY <2>3, <2>4, <2>6, <2>7 DEF CountInv
  <1>14. CASE Clear
    <2>1. /\ noting' = {} /\ frames' = <<>> /\ unfinished_lists' = <<>> /\ written' = << <<>> >>
      BY <1>14 DEF Clear
    <2> QED  BY <2>1, ClearedCounts
  <1>15. CASE UNCHANGED streamVars
    <2>1. /\ noting' = noting /\ frames' = frames /\ finished_list' = finished_list
          /\ unfinished_lists' = unfinished_lists /\ written' = written
      BY <1>15 DEF streamVars, stream
    <2> QED  BY <2>1 DEF CountInv, FramesInv, NotingInv, ValuePending, Depth
  <1> QED
    BY <1>5, <1>6, <1>8, <1>9, <1>11, <1>12, <1>13, <1>14, <1>15, LeaveKeeps, NoteKeeps DEF StreamNext

(* CountsExact is what CountInv says between calls. *)
LEMMA CountInvExact ==
    ASSUME CountInv
    PROVE  CountsExact
  <1> SUFFICES ASSUME noting = {}, NEW i \in 1..Depth
               PROVE  LET pending == i = Depth /\ frames # <<>> /\ Last(frames).made = "data"
                      IN  /\ unfinished_lists[i].current = Len(written[i + 1]) - (IF pending THEN 1 ELSE 0)
                          /\ \A max \in unfinished_lists[i].max : unfinished_lists[i].current < max
    BY DEF CountsExact
  <1>1. Lists(unfinished_lists, written) /\ Lag(unfinished_lists, written, IF ValuePending THEN 1 ELSE 0)
    BY DEF CountInv
  <1>2. /\ Depth \in Nat /\ Len(written) = Depth + 1 /\ unfinished_lists # <<>>
        /\ unfinished_lists[i].current \in Nat /\ Len(written[i + 1]) \in Nat
    BY <1>1, ListTypes DEF Depth
  <1>3. \A max \in unfinished_lists[i].max : unfinished_lists[i].current < max
    BY <1>1 DEF Lists, Depth
  <1>4. CASE i = Depth
    <2>1. unfinished_lists[i].current + (IF ValuePending THEN 1 ELSE 0) = Len(written[i + 1])
      BY <1>1, <1>2, <1>4 DEF Lag, Depth
    <2>2. unfinished_lists[i].current = Len(written[i + 1]) - (IF ValuePending THEN 1 ELSE 0)
      <3>1. CASE ValuePending
        BY <1>2, <2>1, <3>1
      <3>2. CASE ~ValuePending
        BY <1>2, <2>1, <3>2
      <3> QED  BY <3>1, <3>2
    <2> QED  BY <1>3, <1>4, <2>2, Zenon DEF ValuePending
  <1>5. CASE i # Depth
    <2>1. i \in 1..(Depth - 1)
      BY <1>2, <1>5
    <2>2. unfinished_lists[i].current = Len(written[i + 1])
      BY <1>1, <2>1 DEF Lists, Depth
    <2> QED  BY <1>2, <1>3, <1>5, <2>2
  <1> QED  BY <1>4, <1>5

(***************************************************************************)
(* RlpStream's lists count each item once, however deep and through        *)
(* whatever mixture of append, append_raw, begin_list and the recursion of *)
(* note_appended, for any data and without a bound on lists or items: a    *)
(* value that is a list counts itself when it is finished, and append,     *)
(* told so by finished_list, does not count it again.                      *)
(***************************************************************************)
THEOREM CountsStayExact == Spec => []CountsExact
  <1>1. Init => CountInv
    BY NothingToCount DEF Init, StreamInit
  <1>2. CountInv /\ [Next]_vars => CountInv'
    <2>1. [Next]_vars => [StreamNext]_streamVars
      BY DEF Next, vars, Write, ReadBack, NewInput, At, Descend, ItemCount, IterNext
    <2> QED  BY <2>1, StreamKeeps
  <1>3. CountInv => CountsExact
    BY CountInvExact
  <1> QED
    BY <1>1, <1>2, <1>3, PTL DEF Spec

------------------------------------------------------------------------------
(* Induction over the naturals, and FlattenSeq. *)

(* Induction over the naturals, for a set of them. *)
LEMMA AllNaturals ==
    ASSUME NEW S \in SUBSET Nat, 0 \in S, \A n \in S : n + 1 \in S
    PROVE  S = Nat
  <1> DEFINE Less == {ss \in Nat \X Nat : ss[1] < ss[2]}
             Bad == Nat \ S
  <1>1. IsWellFoundedOn(Less, Nat)
    BY ONLY NatLessThanWellFounded, Zenon DEF OpToRel
  <1>2. \A x, y \in Nat : y < x => <<y, x>> \in Less
    OBVIOUS
  <1>3. SUFFICES ASSUME Bad # {} PROVE FALSE
    OBVIOUS
  <1> HIDE DEF Less
  <1>4. Bad \in SUBSET Nat
    OBVIOUS
  <1> HIDE DEF Bad
  <1>5. PICK x \in Bad : \A y \in Bad : ~(<<y, x>> \in Less)
    BY <1>1, <1>3, <1>4, WFMin
  <1>6. x \in Nat /\ x # 0 /\ x - 1 \in Nat /\ x - 1 < x /\ (x - 1) + 1 = x
    BY <1>5 DEF Bad
  <1>7. x - 1 \in S
    BY <1>2, <1>5, <1>6 DEF Bad
  <1> QED  BY <1>5, <1>6, <1>7 DEF Bad

------------------------------------------------------------------------------
(* The numbers of the format. *)
LEMMA FormatFacts ==
    /\ Single \in Nat \ {0} /\ Short \in Nat \ {0} /\ Wide \in Nat \ {0}
    /\ LongData \in Nat /\ ShortList \in Nat /\ LongList \in Nat /\ Base \in Nat
    /\ LongData = Single + Short /\ ShortList = LongData + Wide + 1
    /\ LongList = ShortList + Short /\ Base = LongList + Wide + 1
    /\ Base > 1 /\ Byte \subseteq Nat
  BY FormatAssumption DEF LongData, ShortList, LongList, Base, Byte

(* FlattenSeq, one sequence after another. *)
AreFlat(f, seqs, n) == f = [i \in 1..n |-> IF i = 1 THEN seqs[i] ELSE f[i - 1] \o seqs[i]]

Flats(seqs) == CHOOSE f : AreFlat(f, seqs, Len(seqs))

(* The recursion has a value: each prefix has one. *)
LEMMA FlatsExist ==
    ASSUME NEW seqs, Len(seqs) \in Nat
    PROVE  AreFlat(Flats(seqs), seqs, Len(seqs))
  <1> DEFINE Good == {m \in Nat : \E f : AreFlat(f, seqs, m)}
  <1>1. 0 \in Good
    <2> DEFINE f == [i \in 1..0 |-> <<>>]
    <2>1. AreFlat(f, seqs, 0)
      BY DEF AreFlat
    <2> QED  BY <2>1
  <1>2. ASSUME NEW m \in Good PROVE m + 1 \in Good
    <2>1. PICK f : AreFlat(f, seqs, m)
      BY <1>2
    <2>2. m \in Nat
      OBVIOUS
    <2> DEFINE g == [i \in 1..(m + 1) |-> IF i = 1 THEN seqs[i] ELSE f[i - 1] \o seqs[i]]
    <2>3. ASSUME NEW i \in 1..m PROVE g[i] = f[i]
      <3>1. f[i] = IF i = 1 THEN seqs[i] ELSE f[i - 1] \o seqs[i]
        BY ONLY <2>1, i \in 1..m, Zenon DEF AreFlat
      <3>2. i \in 1..(m + 1)
        BY <2>2
      <3>3. g[i] = IF i = 1 THEN seqs[i] ELSE f[i - 1] \o seqs[i]
        BY ONLY <3>2, Zenon
      <3> QED  BY ONLY <3>1, <3>3
    <2>4. ASSUME NEW i \in 1..(m + 1), i # 1 PROVE g[i - 1] = f[i - 1]
      <3>1. i - 1 \in 1..m
        BY <2>2, <2>4
      <3> HIDE DEF g
      <3> QED  BY <2>3, <3>1
    <2>5. g = [i \in 1..(m + 1) |-> IF i = 1 THEN seqs[i] ELSE g[i - 1] \o seqs[i]]
      BY <2>4
    <2>6. AreFlat(g, seqs, m + 1)
      BY <2>5 DEF AreFlat
    <2> QED  BY <2>2, <2>6
  <1>3. Good \in SUBSET Nat
    OBVIOUS
  <1> HIDE DEF Good
  <1>4. Good = Nat
    BY <1>1, <1>2, <1>3, AllNaturals
  <1>5. \E f : AreFlat(f, seqs, Len(seqs))
    BY <1>4 DEF Good
  <1> QED  BY <1>5 DEF Flats

(* Only the part of the sequences up to an index counts for what it adds up to there. *)
LEMMA FlatsAgree ==
    ASSUME NEW S, NEW T, Len(S) \in Nat, Len(T) \in Nat, NEW n \in Nat, n <= Len(S), n <= Len(T),
           \A i \in 1..n : S[i] = T[i]
    PROVE  \A i \in 1..n : Flats(S)[i] = Flats(T)[i]
  <1> DEFINE Good == {m \in Nat : m \in 1..n => Flats(S)[m] = Flats(T)[m]}
  <1>1. ASSUME NEW i \in 1..n
        PROVE  /\ Flats(S)[i] = IF i = 1 THEN S[i] ELSE Flats(S)[i - 1] \o S[i]
               /\ Flats(T)[i] = IF i = 1 THEN T[i] ELSE Flats(T)[i - 1] \o T[i]
    <2>1. AreFlat(Flats(S), S, Len(S)) /\ AreFlat(Flats(T), T, Len(T))
      BY FlatsExist
    <2>2. i \in 1..Len(S) /\ i \in 1..Len(T)
      OBVIOUS
    <2> QED  BY <2>1, <2>2 DEF AreFlat
  <1>2. 0 \in Good
    OBVIOUS
  <1>3. ASSUME NEW m \in Good PROVE m + 1 \in Good
    <2> SUFFICES ASSUME m + 1 \in 1..n PROVE Flats(S)[m + 1] = Flats(T)[m + 1]
      OBVIOUS
    <2>1. CASE m = 0
      BY <1>1, <2>1
    <2>2. CASE m # 0
      <3>1. m \in 1..n /\ (m + 1) - 1 = m /\ m + 1 # 1
        BY <2>2
      <3>2. Flats(S)[m] = Flats(T)[m]
        BY <3>1
      <3> QED  BY <1>1, <3>1, <3>2
    <2> QED  BY <2>1, <2>2
  <1>4. Good \in SUBSET Nat
    OBVIOUS
  <1> HIDE DEF Good
  <1>5. Good = Nat
    BY <1>2, <1>3, <1>4, AllNaturals
  <1> QED  BY <1>5 DEF Good

(* FlattenSeq is the last of them. *)
LEMMA FlattenIs ==
    ASSUME NEW seqs, Len(seqs) \in Nat, Len(seqs) # 0
    PROVE  FlattenSeq(seqs) = Flats(seqs)[Len(seqs)]
  BY DEF FlattenSeq, Flats, AreFlat

(* Nothing joined is nothing. *)
LEMMA FlattenNone == FlattenSeq(<<>>) = <<>>
  BY DEF FlattenSeq

(* One sequence more. *)
LEMMA FlattenStep ==
    ASSUME NEW S, NEW s \in Seq(Seq(S)), NEW e \in Seq(S), NEW t, t = Append(s, e)
    PROVE  FlattenSeq(s) \in Seq(S) =>
              FlattenSeq(t) = FlattenSeq(s) \o e /\ FlattenSeq(t) \in Seq(S)
  <1> DEFINE n == Len(s)
  <1>1. n \in Nat /\ Len(t) = n + 1 /\ t[n + 1] = e /\ \A i \in 1..n : t[i] = s[i]
    BY AppendProperties, LenProperties
  <1> HIDE DEF n
  <1>2. FlattenSeq(t) = Flats(t)[n + 1]
    <2>1. Len(t) \in Nat /\ Len(t) # 0
      BY <1>1
    <2> QED  BY ONLY <1>1, <2>1, FlattenIs
  <1>3. AreFlat(Flats(t), t, n + 1)
    <2>1. Len(t) \in Nat
      BY <1>1
    <2> QED  BY ONLY <1>1, <2>1, FlatsExist
  <1>4. Flats(t)[n + 1] = IF n + 1 = 1 THEN e ELSE Flats(t)[n] \o e
    <2>1. n + 1 \in 1..(n + 1) /\ (n + 1) - 1 = n
      BY <1>1
    <2> QED  BY <1>1, <1>3, <2>1 DEF AreFlat
  <1>5. CASE n = 0
    <2>1. s = <<>>
      BY <1>5, EmptySeq DEF n
    <2> QED  BY <1>2, <1>4, <1>5, <2>1, FlattenNone, ConcatEmptySeq
  <1>6. CASE n # 0
    <2>1. FlattenSeq(s) = Flats(s)[n]
      BY <1>1, <1>6, FlattenIs DEF n
    <2>2. Flats(s)[n] = Flats(t)[n]
      <3>1. n \in 1..n /\ n <= Len(s) /\ n <= Len(t) /\ Len(s) \in Nat /\ Len(t) \in Nat
        BY <1>1, <1>6 DEF n
      <3>2. \A i \in 1..n : Flats(s)[i] = Flats(t)[i]
        BY <1>1, <3>1, FlatsAgree
      <3> QED  BY <3>1, <3>2
    <2> QED  BY <1>1, <1>2, <1>4, <1>6, <2>1, <2>2, ConcatProperties
  <1> QED  BY <1>5, <1>6

(* A sequence that is not empty is all but its last element and that one. *)
LEMMA LastOff ==
    ASSUME NEW S, NEW s \in Seq(S), NEW n \in Nat, Len(s) = n + 1
    PROVE  /\ SubSeq(s, 1, n) \in Seq(S) /\ Len(SubSeq(s, 1, n)) = n
           /\ \A i \in 1..n : SubSeq(s, 1, n)[i] = s[i]
           /\ s[n + 1] \in S /\ s = Append(SubSeq(s, 1, n), s[n + 1])
  <1> DEFINE f == SubSeq(s, 1, n)
  <1>1. \A i \in 1..(n + 1) : s[i] \in S
    BY ElementOfSeq
  <1>2. f \in Seq(S) /\ Len(f) = n /\ \A i \in 1..n : f[i] = s[i]
    <2>1. \A i \in 1..n : s[i] \in S
      BY <1>1
    <2> QED  BY <2>1, SubSeqProperties
  <1>3. s[n + 1] \in S
    BY <1>1
  <1> HIDE DEF f
  <1> DEFINE t == Append(f, s[n + 1])
  <1>4. t \in Seq(S) /\ Len(t) = n + 1 /\ t[n + 1] = s[n + 1] /\ \A i \in 1..n : t[i] = f[i]
    BY <1>2, <1>3, AppendProperties
  <1> HIDE DEF t
  <1>5. \A i \in 1..(n + 1) : s[i] = t[i]
    BY <1>2, <1>4
  <1>6. s = t
    BY <1>4, <1>5, SeqEqual
  <1> QED  BY <1>2, <1>3, <1>6 DEF f, t

(* Sequences over a set join to one over that set. *)
LEMMA FlattenType ==
    ASSUME NEW S, NEW s \in Seq(Seq(S))
    PROVE  FlattenSeq(s) \in Seq(S)
  <1> DEFINE Good == {n \in Nat : \A t \in Seq(Seq(S)) : Len(t) = n => FlattenSeq(t) \in Seq(S)}
  <1>1. 0 \in Good
    BY EmptySeq, FlattenNone
  <1>2. ASSUME NEW n \in Good PROVE n + 1 \in Good
    <2> SUFFICES ASSUME NEW t \in Seq(Seq(S)), Len(t) = n + 1 PROVE FlattenSeq(t) \in Seq(S)
      OBVIOUS
    <2>1. n \in Nat /\ \A u \in Seq(Seq(S)) : Len(u) = n => FlattenSeq(u) \in Seq(S)
      BY <1>2
    <2> HIDE DEF Good
    <2>2. PICK u \in Seq(Seq(S)), e \in Seq(S) : Len(u) = n /\ t = Append(u, e)
      <3> DEFINE T == Seq(S)
      <3>1. t \in Seq(T)
        OBVIOUS
      <3> HIDE DEF T
      <3>2. SubSeq(t, 1, n) \in Seq(T) /\ Len(SubSeq(t, 1, n)) = n /\ t[n + 1] \in T
            /\ t = Append(SubSeq(t, 1, n), t[n + 1])
        BY <2>1, <3>1, LastOff
      <3> QED  BY <3>2 DEF T
    <2> QED  BY <2>1, <2>2, FlattenStep
  <1>3. Good \in SUBSET Nat
    OBVIOUS
  <1> HIDE DEF Good
  <1>4. Good = Nat
    BY <1>1, <1>2, <1>3, AllNaturals
  <1> QED  BY <1>4, LenProperties DEF Good

(* FlattenSeq of one sequence more. *)
LEMMA FlattenAppend ==
    ASSUME NEW S, NEW s \in Seq(Seq(S)), NEW e \in Seq(S)
    PROVE  /\ FlattenSeq(Append(s, e)) = FlattenSeq(s) \o e
           /\ FlattenSeq(s) \in Seq(S) /\ FlattenSeq(Append(s, e)) \in Seq(S)
  <1>1. FlattenSeq(s) \in Seq(S)
    BY FlattenType
  <1> DEFINE t == Append(s, e)
  <1> HIDE DEF t
  <1>2. FlattenSeq(t) = FlattenSeq(s) \o e /\ FlattenSeq(t) \in Seq(S)
    BY <1>1, FlattenStep DEF t
  <1> QED  BY <1>1, <1>2 DEF t

------------------------------------------------------------------------------
(* The bytes of items, and the levels of a buffer. *)

(* The bytes of the items of I are bytes. *)
Encoded(I) == \A x \in I : x.bytes \in Seq(Byte)

(* No items have no bytes. *)
LEMMA BytesNone == BytesOf(<<>>) = <<>>
  <1>1. [i \in DOMAIN <<>> |-> <<>>[i].bytes] = <<>>
    OBVIOUS
  <1> QED  BY <1>1, FlattenNone DEF BytesOf

(* The bytes of one item more are behind the others. *)
LEMMA BytesAppend ==
    ASSUME NEW I, Encoded(I), NEW s \in Seq(I), NEW x \in I
    PROVE  /\ BytesOf(Append(s, x)) = BytesOf(s) \o x.bytes
           /\ BytesOf(s) \in Seq(Byte) /\ BytesOf(Append(s, x)) \in Seq(Byte)
  <1> DEFINE t == Append(s, x)
             p == [i \in DOMAIN s |-> s[i].bytes]
             q == [i \in DOMAIN t |-> t[i].bytes]
             n == Len(s)
  <1>1. /\ n \in Nat /\ DOMAIN s = 1..n /\ t \in Seq(I) /\ Len(t) = n + 1 /\ DOMAIN t = 1..(n + 1)
        /\ t[n + 1] = x /\ \A i \in 1..n : t[i] = s[i]
    BY AppendProperties, LenProperties
  <1>2. \A i \in 1..n : s[i] \in I
    BY ElementOfSeq
  <1> HIDE DEF t, n
  <1>3. p \in Seq(Seq(Byte)) /\ Len(p) = n /\ \A i \in 1..n : p[i] = s[i].bytes
    <2>1. p \in [1..n -> Seq(Byte)]
      BY <1>1, <1>2 DEF Encoded
    <2> QED  BY <1>1, <2>1
  <1>4. x.bytes \in Seq(Byte)
    BY DEF Encoded
  <1>5. q \in [1..(n + 1) -> Seq(Byte)] /\ \A i \in 1..(n + 1) : q[i] = t[i].bytes
    BY <1>1, <1>2, <1>4 DEF Encoded
  <1>6. q \in Seq(Seq(Byte)) /\ Len(q) = n + 1
    BY <1>1, <1>5
  <1> HIDE DEF p, q
  <1> DEFINE B == Seq(Byte)
  <1>7. p \in Seq(B) /\ q \in Seq(B) /\ x.bytes \in B
    BY <1>3, <1>4, <1>6
  <1> HIDE DEF B
  <1> DEFINE r == Append(p, x.bytes)
  <1>8. r \in Seq(B) /\ Len(r) = n + 1 /\ r[n + 1] = x.bytes /\ \A i \in 1..n : r[i] = p[i]
    BY <1>3, <1>7, AppendProperties
  <1> HIDE DEF r
  <1>9. \A i \in 1..(n + 1) : q[i] = r[i]
    <2> SUFFICES ASSUME NEW i \in 1..(n + 1) PROVE q[i] = r[i]
      OBVIOUS
    <2>1. CASE i = n + 1
      BY <1>1, <1>5, <1>8, <2>1
    <2>2. CASE i # n + 1
      <3>1. i \in 1..n
        BY <1>1, <2>2
      <3> QED  BY <1>1, <1>3, <1>5, <1>8, <3>1, ZenonT(40)
    <2> QED  BY <2>1, <2>2
  <1>10. q = r
    BY <1>6, <1>7, <1>8, <1>9, SeqEqual
  <1>11. FlattenSeq(q) = FlattenSeq(p) \o x.bytes /\ FlattenSeq(p) \in Seq(Byte) /\ FlattenSeq(q) \in Seq(Byte)
    BY <1>3, <1>4, <1>10, FlattenAppend DEF r
  <1> QED  BY <1>11 DEF BytesOf, p, q, t

(* The bytes of encoded items are bytes. *)
LEMMA BytesType ==
    ASSUME NEW I, Encoded(I), NEW s \in Seq(I)
    PROVE  BytesOf(s) \in Seq(Byte)
  <1> DEFINE p == [i \in DOMAIN s |-> s[i].bytes]
             n == Len(s)
  <1>1. n \in Nat /\ DOMAIN s = 1..n /\ \A i \in 1..n : s[i] \in I
    BY ElementOfSeq, LenProperties
  <1> HIDE DEF n
  <1>2. p \in [1..n -> Seq(Byte)]
    BY <1>1 DEF Encoded
  <1>3. p \in Seq(Seq(Byte))
    BY <1>1, <1>2
  <1> QED  BY <1>3, FlattenType DEF BytesOf

(* The bytes of one item are its own. *)
LEMMA BytesOne ==
    ASSUME NEW I, Encoded(I), NEW x \in I
    PROVE  BytesOf(<<x>>) = x.bytes
  <1>1. <<>> \in Seq(I) /\ Append(<<>>, x) = <<x>> /\ x.bytes \in Seq(Byte)
    BY DEF Encoded
  <1>2. BytesOf(Append(<<>>, x)) = BytesOf(<<>>) \o x.bytes
    BY <1>1, BytesAppend
  <1> QED  BY <1>1, <1>2, BytesNone, ConcatEmptySeq

(* Concatenation of bytes is associative. *)
LEMMA Associative ==
    ASSUME NEW a \in Seq(Byte), NEW b \in Seq(Byte), NEW c \in Seq(Byte)
    PROVE  (a \o b) \o c = a \o (b \o c)
  BY ConcatAssociative

(* The bytes of two sequences of items, one behind the other. *)
LEMMA BytesConcat ==
    ASSUME NEW I, Encoded(I), NEW s \in Seq(I), NEW t \in Seq(I)
    PROVE  BytesOf(s \o t) = BytesOf(s) \o BytesOf(t)
  <1> DEFINE Good == {n \in Nat : \A u \in Seq(I) : Len(u) = n => BytesOf(s \o u) = BytesOf(s) \o BytesOf(u)}
  <1>0. BytesOf(s) \in Seq(Byte)
    BY BytesType
  <1>1. 0 \in Good
    <2> SUFFICES ASSUME NEW u \in Seq(I), Len(u) = 0 PROVE BytesOf(s \o u) = BytesOf(s) \o BytesOf(u)
      OBVIOUS
    <2>1. u = <<>>
      BY EmptySeq
    <2> QED  BY <1>0, <2>1, BytesNone, ConcatEmptySeq
  <1>2. ASSUME NEW n \in Good PROVE n + 1 \in Good
    <2> SUFFICES ASSUME NEW u \in Seq(I), Len(u) = n + 1
                 PROVE  BytesOf(s \o u) = BytesOf(s) \o BytesOf(u)
      OBVIOUS
    <2>1. n \in Nat /\ \A v \in Seq(I) : Len(v) = n => BytesOf(s \o v) = BytesOf(s) \o BytesOf(v)
      BY <1>2
    <2> HIDE DEF Good
    <2>2. PICK v \in Seq(I), x \in I : Len(v) = n /\ u = Append(v, x)
      <3>1. SubSeq(u, 1, n) \in Seq(I) /\ Len(SubSeq(u, 1, n)) = n /\ u[n + 1] \in I
            /\ u = Append(SubSeq(u, 1, n), u[n + 1])
        BY <2>1, LastOff
      <3> QED  BY <3>1
    <2>3. s \o u = Append(s \o v, x) /\ s \o v \in Seq(I)
      BY <2>2
    <2>4. BytesOf(s \o u) = BytesOf(s \o v) \o x.bytes
      BY <2>3, BytesAppend
    <2>5. BytesOf(u) = BytesOf(v) \o x.bytes
      BY <2>2, BytesAppend
    <2>6. BytesOf(s \o v) = BytesOf(s) \o BytesOf(v)
      BY <2>1, <2>2
    <2>7. BytesOf(v) \in Seq(Byte) /\ x.bytes \in Seq(Byte)
      BY BytesType DEF Encoded
    <2>8. (BytesOf(s) \o BytesOf(v)) \o x.bytes = BytesOf(s) \o (BytesOf(v) \o x.bytes)
      <3> DEFINE a == BytesOf(s)
                 b == BytesOf(v)
                 c == x.bytes
      <3>1. a \in Seq(Byte) /\ b \in Seq(Byte) /\ c \in Seq(Byte)
        BY <1>0, <2>7
      <3> HIDE DEF a, b, c
      <3>2. (a \o b) \o c = a \o (b \o c)
        BY ONLY <3>1, Associative, Zenon
      <3> QED  BY <3>2 DEF a, b, c
    <2> QED  BY ONLY <2>4, <2>5, <2>6, <2>8
  <1>3. Good \in SUBSET Nat
    OBVIOUS
  <1> HIDE DEF Good
  <1>4. Good = Nat
    BY <1>1, <1>2, <1>3, AllNaturals
  <1> QED  BY <1>4, LenProperties DEF Good
------------------------------------------------------------------------------
(* What the buffer holds of the levels w: a placeholder before each but the first. *)
Level(w, i) == (IF i = 1 THEN <<>> ELSE <<0>>) \o BytesOf(w[i])

Layout(w) == FlattenSeq([i \in DOMAIN w |-> Level(w, i)])

(* The items of the first levels, without placeholders. *)
Below(w, i) == FlattenSeq([j \in 1..i |-> BytesOf(w[j])])

(* A level is its placeholder, except for the first, and its items. *)
LEMMA LevelType ==
    ASSUME NEW I, Encoded(I), NEW w \in Seq(Seq(I)), NEW i \in 1..Len(w)
    PROVE  /\ w[i] \in Seq(I) /\ BytesOf(w[i]) \in Seq(Byte) /\ Level(w, i) \in Seq(Byte)
           /\ Len(BytesOf(w[i])) \in Nat
           /\ Len(Level(w, i)) = (IF i = 1 THEN 0 ELSE 1) + Len(BytesOf(w[i]))
           /\ i = 1 => Level(w, i) = BytesOf(w[i])
           /\ i # 1 => Level(w, i) = <<0>> \o BytesOf(w[i]) /\ Level(w, i)[1] = 0
  <1>1. w[i] \in Seq(I)
    BY ElementOfSeq
  <1>2. BytesOf(w[i]) \in Seq(Byte)
    BY <1>1, BytesType
  <1>3. <<0>> \in Seq(Byte) /\ <<>> \in Seq(Byte) /\ Len(<<0>>) = 1
    BY FormatFacts DEF Byte
  <1>4. CASE i = 1
    <2>1. Level(w, i) = BytesOf(w[i])
      BY <1>2, <1>4, ConcatEmptySeq DEF Level
    <2> QED  BY <1>1, <1>2, <1>4, <2>1, LenProperties
  <1>5. CASE i # 1
    <2>1. Level(w, i) = <<0>> \o BytesOf(w[i])
      BY <1>5 DEF Level
    <2>2. Len(BytesOf(w[i])) \in Nat
      BY <1>2, LenProperties
    <2> HIDE DEF Level
    <2> DEFINE b == BytesOf(w[i])
    <2> HIDE DEF b
    <2>3. <<0>> \o b \in Seq(Byte) /\ Len(<<0>> \o b) = 1 + Len(b) /\ (<<0>> \o b)[1] = 0
      BY <1>2, <1>3, <2>2, ConcatProperties DEF b
    <2> QED  BY <1>1, <1>2, <1>5, <2>1, <2>2, <2>3 DEF b
  <1> QED  BY <1>4, <1>5

(* A sequence of one more than another. *)
LEMMA FlattenLonger ==
    ASSUME NEW S, NEW n \in Nat, NEW p \in Seq(Seq(S)), Len(p) = n, NEW q \in Seq(Seq(S)), Len(q) = n + 1,
           \A i \in 1..n : p[i] = q[i]
    PROVE  /\ FlattenSeq(q) = FlattenSeq(p) \o q[n + 1]
           /\ FlattenSeq(p) \in Seq(S) /\ FlattenSeq(q) \in Seq(S) /\ q[n + 1] \in Seq(S)
  <1> DEFINE T == Seq(S)
  <1>1. p \in Seq(T) /\ q \in Seq(T)
    OBVIOUS
  <1> HIDE DEF T
  <1>2. /\ SubSeq(q, 1, n) \in Seq(T) /\ Len(SubSeq(q, 1, n)) = n
        /\ \A i \in 1..n : SubSeq(q, 1, n)[i] = q[i]
        /\ q[n + 1] \in T /\ q = Append(SubSeq(q, 1, n), q[n + 1])
    BY <1>1, LastOff
  <1> DEFINE f == SubSeq(q, 1, n)
  <1> HIDE DEF f
  <1>3. \A i \in 1..n : p[i] = f[i]
    BY <1>2 DEF f
  <1>4. p = f
    BY <1>1, <1>2, <1>3, SeqEqual DEF f
  <1>5. q = Append(p, q[n + 1]) /\ q[n + 1] \in Seq(S)
    BY <1>2, <1>4 DEF f, T
  <1> DEFINE e == q[n + 1]
  <1>6. e \in Seq(S) /\ q = Append(p, e)
    BY <1>5
  <1> HIDE DEF e
  <1>7. FlattenSeq(Append(p, e)) = FlattenSeq(p) \o e
    BY <1>6, FlattenAppend
  <1> QED  BY <1>6, <1>7, FlattenType DEF e

(* The layout of the first levels. *)
LayoutTo(w, i) == FlattenSeq([j \in 1..i |-> Level(w, j)])

(* The levels written so far, all of them. *)
LEMMA LayoutIs ==
    ASSUME NEW w, DOMAIN w = 1..Len(w)
    PROVE  Layout(w) = LayoutTo(w, Len(w))
  BY DEF Layout, LayoutTo

(* No levels have no bytes. *)
LEMMA NothingBelow ==
    ASSUME NEW w
    PROVE  LayoutTo(w, 0) = <<>> /\ Below(w, 0) = <<>>
  <1>1. [j \in 1..0 |-> Level(w, j)] = <<>> /\ [j \in 1..0 |-> BytesOf(w[j])] = <<>>
    OBVIOUS
  <1> QED  BY <1>1, FlattenNone DEF LayoutTo, Below

(* One level more. *)
LEMMA LayoutStep ==
    ASSUME NEW I, Encoded(I), NEW w \in Seq(Seq(I)), NEW i \in Nat, i < Len(w)
    PROVE  /\ LayoutTo(w, i + 1) = LayoutTo(w, i) \o Level(w, i + 1)
           /\ LayoutTo(w, i) \in Seq(Byte) /\ LayoutTo(w, i + 1) \in Seq(Byte)
           /\ Below(w, i + 1) = Below(w, i) \o BytesOf(w[i + 1])
           /\ Below(w, i) \in Seq(Byte) /\ Below(w, i + 1) \in Seq(Byte)
  <1>0. Len(w) \in Nat
    OBVIOUS
  <1>1. \A j \in 1..(i + 1) : Level(w, j) \in Seq(Byte) /\ BytesOf(w[j]) \in Seq(Byte)
    <2> SUFFICES ASSUME NEW j \in 1..(i + 1) PROVE Level(w, j) \in Seq(Byte) /\ BytesOf(w[j]) \in Seq(Byte)
      OBVIOUS
    <2>1. j \in 1..Len(w)
      BY <1>0
    <2> QED  BY <2>1, LevelType
  <1> DEFINE p == [j \in 1..i |-> Level(w, j)]
             q == [j \in 1..(i + 1) |-> Level(w, j)]
             r == [j \in 1..i |-> BytesOf(w[j])]
             t == [j \in 1..(i + 1) |-> BytesOf(w[j])]
  <1>2. /\ p \in [1..i -> Seq(Byte)] /\ q \in [1..(i + 1) -> Seq(Byte)]
        /\ r \in [1..i -> Seq(Byte)] /\ t \in [1..(i + 1) -> Seq(Byte)]
    BY <1>1
  <1>3. /\ p \in Seq(Seq(Byte)) /\ Len(p) = i /\ q \in Seq(Seq(Byte)) /\ Len(q) = i + 1
        /\ r \in Seq(Seq(Byte)) /\ Len(r) = i /\ t \in Seq(Seq(Byte)) /\ Len(t) = i + 1
    <2> HIDE DEF p, q, r, t
    <2> QED  BY <1>2
  <1>4. /\ \A j \in 1..i : p[j] = q[j] /\ r[j] = t[j]
        /\ q[i + 1] = Level(w, i + 1) /\ t[i + 1] = BytesOf(w[i + 1])
    OBVIOUS
  <1> HIDE DEF p, q, r, t
  <1>5. FlattenSeq(q) = FlattenSeq(p) \o q[i + 1] /\ FlattenSeq(p) \in Seq(Byte) /\ FlattenSeq(q) \in Seq(Byte)
    BY <1>3, <1>4, FlattenLonger, ZenonT(40)
  <1>6. FlattenSeq(t) = FlattenSeq(r) \o t[i + 1] /\ FlattenSeq(r) \in Seq(Byte) /\ FlattenSeq(t) \in Seq(Byte)
    BY <1>3, <1>4, FlattenLonger, ZenonT(40)
  <1> QED  BY <1>4, <1>5, <1>6 DEF LayoutTo, Below, p, q, r, t

(* Levels of encoded items are bytes. *)
LEMMA LayoutType ==
    ASSUME NEW I, Encoded(I), NEW w \in Seq(Seq(I)), NEW i \in 0..Len(w)
    PROVE  /\ LayoutTo(w, i) \in Seq(Byte) /\ Below(w, i) \in Seq(Byte)
           /\ Len(LayoutTo(w, i)) \in Nat /\ Len(Below(w, i)) \in Nat
  <1>1. LayoutTo(w, i) \in Seq(Byte) /\ Below(w, i) \in Seq(Byte)
    <2>1. CASE i = 0
      BY <2>1, NothingBelow, EmptySeq
    <2>2. CASE i # 0
      <3>1. i - 1 \in Nat /\ i - 1 < Len(w) /\ (i - 1) + 1 = i
        BY <2>2
      <3> QED  BY <3>1, LayoutStep
    <2> QED  BY <2>1, <2>2
  <1> QED  BY <1>1, LenProperties

(* Levels further down make no difference. *)
LEMMA SameBelow ==
    ASSUME NEW v, NEW w, NEW i \in Nat, \A j \in 1..i : v[j] = w[j]
    PROVE  LayoutTo(v, i) = LayoutTo(w, i) /\ Below(v, i) = Below(w, i)
  <1>1. [j \in 1..i |-> Level(v, j)] = [j \in 1..i |-> Level(w, j)]
    BY DEF Level
  <1>2. [j \in 1..i |-> BytesOf(v[j])] = [j \in 1..i |-> BytesOf(w[j])]
    OBVIOUS
  <1> QED  BY <1>1, <1>2 DEF LayoutTo, Below

(* One level more, in numbers of bytes. *)
LEMMA LayoutSizes ==
    ASSUME NEW I, Encoded(I), NEW w \in Seq(Seq(I)), NEW i \in Nat, i < Len(w)
    PROVE  /\ Len(LayoutTo(w, i + 1)) =
                 Len(LayoutTo(w, i)) + (IF i = 0 THEN 0 ELSE 1) + Len(BytesOf(w[i + 1]))
           /\ Len(Below(w, i + 1)) = Len(Below(w, i)) + Len(BytesOf(w[i + 1]))
           /\ Len(BytesOf(w[i + 1])) \in Nat
  <1>1. i + 1 \in 1..Len(w) /\ (i + 1 = 1 <=> i = 0)
    OBVIOUS
  <1> DEFINE l == LayoutTo(w, i)
             e == Level(w, i + 1)
             b == Below(w, i)
             c == BytesOf(w[i + 1])
  <1>2. /\ l \in Seq(Byte) /\ b \in Seq(Byte) /\ LayoutTo(w, i + 1) = l \o e /\ Below(w, i + 1) = b \o c
    BY LayoutStep
  <1>3. e \in Seq(Byte) /\ c \in Seq(Byte) /\ Len(c) \in Nat /\ Len(e) = (IF i = 0 THEN 0 ELSE 1) + Len(c)
    BY <1>1, LevelType
  <1> HIDE DEF l, e, b, c
  <1>4. Len(l \o e) = Len(l) + Len(e) /\ Len(b \o c) = Len(b) + Len(c) /\ Len(l) \in Nat
    BY <1>2, <1>3, ConcatProperties, LenProperties
  <1>5. Len(l) + Len(e) = Len(l) + (IF i = 0 THEN 0 ELSE 1) + Len(c)
    BY <1>3, <1>4
  <1> QED  BY <1>2, <1>3, <1>4, <1>5 DEF l, b, c

(* There is one placeholder for each level but the first. *)
LEMMA LayoutLength ==
    ASSUME NEW I, Encoded(I), NEW w \in Seq(Seq(I)), NEW i \in 1..Len(w)
    PROVE  Len(LayoutTo(w, i)) = Len(Below(w, i)) + i - 1
  <1> DEFINE Good == {n \in Nat : n + 1 <= Len(w) => Len(LayoutTo(w, n + 1)) = Len(Below(w, n + 1)) + n}
  <1>0. Len(w) \in Nat
    OBVIOUS
  <1>1. 0 \in Good
    <2> SUFFICES ASSUME 1 <= Len(w) PROVE Len(LayoutTo(w, 1)) = Len(Below(w, 1)) + 0
      OBVIOUS
    <2>1. 0 \in Nat /\ 0 < Len(w) /\ 0 + 1 = 1
      OBVIOUS
    <2>2. /\ Len(LayoutTo(w, 0 + 1)) = Len(LayoutTo(w, 0)) + 0 + Len(BytesOf(w[0 + 1]))
          /\ Len(Below(w, 0 + 1)) = Len(Below(w, 0)) + Len(BytesOf(w[0 + 1]))
          /\ Len(BytesOf(w[0 + 1])) \in Nat
      BY <2>1, LayoutSizes
    <2>3. Len(LayoutTo(w, 0)) = 0 /\ Len(Below(w, 0)) = 0
      BY NothingBelow
    <2> QED  BY <2>1, <2>2, <2>3
  <1>2. ASSUME NEW n \in Good PROVE n + 1 \in Good
    <2> SUFFICES ASSUME n + 2 <= Len(w) PROVE Len(LayoutTo(w, n + 2)) = Len(Below(w, n + 2)) + n + 1
      OBVIOUS
    <2>1. Len(LayoutTo(w, n + 1)) = Len(Below(w, n + 1)) + n /\ n \in Nat
      BY <1>0
    <2> HIDE DEF Good
    <2>2. n + 1 \in Nat /\ n + 1 < Len(w) /\ (n + 1) + 1 = n + 2 /\ n + 1 # 0 /\ n + 1 \in 0..Len(w)
      BY <1>0, <2>1
    <2>3. /\ Len(LayoutTo(w, n + 2)) = Len(LayoutTo(w, n + 1)) + 1 + Len(BytesOf(w[n + 2]))
          /\ Len(Below(w, n + 2)) = Len(Below(w, n + 1)) + Len(BytesOf(w[n + 2]))
          /\ Len(BytesOf(w[n + 2])) \in Nat
      <3> DEFINE m == n + 1
      <3>1. m \in Nat /\ m < Len(w) /\ m + 1 = n + 2 /\ m # 0 /\ m = n + 1
        BY <2>2
      <3> HIDE DEF m
      <3>2. /\ Len(LayoutTo(w, m + 1)) =
                 Len(LayoutTo(w, m)) + (IF m = 0 THEN 0 ELSE 1) + Len(BytesOf(w[m + 1]))
            /\ Len(Below(w, m + 1)) = Len(Below(w, m)) + Len(BytesOf(w[m + 1]))
            /\ Len(BytesOf(w[m + 1])) \in Nat
        BY ONLY Encoded(I), w \in Seq(Seq(I)), <3>1, LayoutSizes
      <3> QED  BY ONLY <3>1, <3>2
    <2>4. Len(Below(w, n + 1)) \in Nat
      BY <2>2, LayoutType
    <2> DEFINE a == Len(LayoutTo(w, n + 1))
               b == Len(Below(w, n + 1))
               c == Len(BytesOf(w[n + 2]))
               d == Len(LayoutTo(w, n + 2))
               e == Len(Below(w, n + 2))
    <2>5. n \in Nat /\ b \in Nat /\ c \in Nat /\ a = b + n /\ d = a + 1 + c /\ e = b + c
      BY ONLY <2>1, <2>3, <2>4
    <2> HIDE DEF a, b, c, d, e
    <2>6. d = e + n + 1
      BY ONLY <2>5
    <2> QED  BY ONLY <2>6 DEF d, e
  <1>3. Good \in SUBSET Nat
    OBVIOUS
  <1> HIDE DEF Good
  <1>4. Good = Nat
    BY <1>1, <1>2, <1>3, AllNaturals
  <1>5. i - 1 \in Good /\ (i - 1) + 1 = i /\ (i - 1) + 1 <= Len(w)
    BY <1>4
  <1>6. Len(LayoutTo(w, i)) = Len(Below(w, i)) + (i - 1)
    BY <1>5 DEF Good
  <1>7. Len(Below(w, i)) \in Nat
    BY LayoutType
  <1> QED  BY <1>6, <1>7

(* The levels lie one behind the other. *)
LEMMA BelowGrows ==
    ASSUME NEW I, Encoded(I), NEW w \in Seq(Seq(I)), NEW i \in Nat, NEW j \in Nat, i <= j, j <= Len(w)
    PROVE  Len(Below(w, i)) <= Len(Below(w, j))
  <1> DEFINE Good == {n \in Nat : i + n <= Len(w) => Len(Below(w, i)) <= Len(Below(w, i + n))}
  <1>0. Len(w) \in Nat
    OBVIOUS
  <1>1. 0 \in Good
    <2>1. i \in 0..Len(w) /\ i + 0 = i
      BY <1>0
    <2>2. Len(Below(w, i)) \in Nat
      BY <2>1, LayoutType
    <2> QED  BY <2>1, <2>2
  <1>2. ASSUME NEW n \in Good PROVE n + 1 \in Good
    <2> SUFFICES ASSUME i + (n + 1) <= Len(w) PROVE Len(Below(w, i)) <= Len(Below(w, i + (n + 1)))
      OBVIOUS
    <2>1. Len(Below(w, i)) <= Len(Below(w, i + n)) /\ n \in Nat
      BY <1>0
    <2> HIDE DEF Good
    <2>2. /\ i + n \in Nat /\ i + n < Len(w) /\ (i + n) + 1 = i + (n + 1)
          /\ i \in 0..Len(w) /\ i + n \in 0..Len(w)
      BY <1>0, <2>1
    <2>3. /\ Len(Below(w, i + (n + 1))) = Len(Below(w, i + n)) + Len(BytesOf(w[i + (n + 1)]))
          /\ Len(BytesOf(w[i + (n + 1)])) \in Nat
      <3> DEFINE m == i + n
      <3>1. m \in Nat /\ m < Len(w) /\ m + 1 = i + (n + 1) /\ m = i + n
        BY <2>2
      <3> HIDE DEF m
      <3>2. /\ Len(Below(w, m + 1)) = Len(Below(w, m)) + Len(BytesOf(w[m + 1]))
            /\ Len(BytesOf(w[m + 1])) \in Nat
        BY ONLY Encoded(I), w \in Seq(Seq(I)), <3>1, LayoutSizes
      <3> QED  BY ONLY <3>1, <3>2
    <2>4. Len(Below(w, i)) \in Nat /\ Len(Below(w, i + n)) \in Nat
      BY <2>2, LayoutType
    <2> QED  BY <2>1, <2>3, <2>4
  <1>3. Good \in SUBSET Nat
    OBVIOUS
  <1> HIDE DEF Good
  <1>4. Good = Nat
    BY <1>1, <1>2, <1>3, AllNaturals
  <1>5. j - i \in Good /\ i + (j - i) = j
    BY <1>4
  <1> QED  BY <1>5 DEF Good

(* Behind the first i levels there is the placeholder of the next. *)
LEMMA PlaceholderThere ==
    ASSUME NEW I, Encoded(I), NEW w \in Seq(Seq(I)), NEW i \in Nat \ {0}, NEW j \in Nat, i < j, j <= Len(w)
    PROVE  /\ Len(Below(w, i)) + i \in 1..Len(LayoutTo(w, j))
           /\ LayoutTo(w, j)[Len(Below(w, i)) + i] = 0
  <1> DEFINE at == Len(Below(w, i)) + i
             There(k) == at \in 1..Len(LayoutTo(w, k)) /\ LayoutTo(w, k)[at] = 0
             Good == {n \in Nat : i + 1 + n <= Len(w) => There(i + 1 + n)}
  <1>0. Len(w) \in Nat /\ i \in 1..Len(w) /\ i \in 0..Len(w) /\ i < Len(w) /\ i \in Nat
    OBVIOUS
  <1>1. at \in Nat /\ Len(LayoutTo(w, i)) + 1 = at /\ Len(LayoutTo(w, i)) \in Nat
    <2>1. Len(Below(w, i)) \in Nat /\ Len(LayoutTo(w, i)) \in Nat
      BY <1>0, LayoutType
    <2>2. Len(LayoutTo(w, i)) = Len(Below(w, i)) + i - 1
      BY <1>0, LayoutLength
    <2> QED  BY <2>1, <2>2
  <1> HIDE DEF at
  <1>2. ASSUME NEW k \in Nat, k < Len(w), k # 0
        PROVE  /\ Level(w, k + 1) \in Seq(Byte) /\ Len(Level(w, k + 1)) \in Nat \ {0} /\ Level(w, k + 1)[1] = 0
               /\ LayoutTo(w, k) \in Seq(Byte) /\ Len(LayoutTo(w, k)) \in Nat
               /\ LayoutTo(w, k + 1) = LayoutTo(w, k) \o Level(w, k + 1)
               /\ Len(LayoutTo(w, k + 1)) = Len(LayoutTo(w, k)) + Len(Level(w, k + 1))
               /\ \A m \in 1..(Len(LayoutTo(w, k)) + Len(Level(w, k + 1))) : LayoutTo(w, k + 1)[m] =
                     IF m <= Len(LayoutTo(w, k)) THEN LayoutTo(w, k)[m]
                     ELSE Level(w, k + 1)[m - Len(LayoutTo(w, k))]
    <2>1. k + 1 \in 1..Len(w) /\ k + 1 # 1
      BY <1>0, <1>2
    <2> DEFINE l == LayoutTo(w, k)
               e == Level(w, k + 1)
    <2>2. /\ e \in Seq(Byte) /\ e[1] = 0 /\ Len(e) \in Nat \ {0}
      BY <2>1, LevelType
    <2>3. l \in Seq(Byte) /\ LayoutTo(w, k + 1) = l \o e
      BY <1>2, LayoutStep
    <2> HIDE DEF l, e
    <2>4. /\ Len(l) \in Nat /\ Len(l \o e) = Len(l) + Len(e)
          /\ \A m \in 1..(Len(l) + Len(e)) : (l \o e)[m] = IF m <= Len(l) THEN l[m] ELSE e[m - Len(l)]
      BY <2>2, <2>3, ConcatProperties, LenProperties
    <2> QED  BY <2>2, <2>3, <2>4 DEF l, e
  <1>3. There(i + 1)
    <2>1. at \in 1..Len(LayoutTo(w, i + 1)) /\ ~(at <= Len(LayoutTo(w, i))) /\ at - Len(LayoutTo(w, i)) = 1
      BY <1>0, <1>1, <1>2
    <2>2. at \in 1..(Len(LayoutTo(w, i)) + Len(Level(w, i + 1)))
      BY <1>0, <1>2, <2>1
    <2>3. LayoutTo(w, i + 1)[at] = Level(w, i + 1)[at - Len(LayoutTo(w, i))]
      BY <1>0, <1>2, <2>1, <2>2
    <2>4. Level(w, i + 1)[1] = 0
      BY <1>0, <1>2
    <2> QED  BY <2>1, <2>3, <2>4
  <1>4. ASSUME NEW k \in Nat, k < Len(w), k # 0, There(k) PROVE There(k + 1)
    <2>1. at \in 1..Len(LayoutTo(w, k)) /\ LayoutTo(w, k)[at] = 0
      BY <1>4
    <2>2. /\ Len(LayoutTo(w, k)) \in Nat /\ Len(Level(w, k + 1)) \in Nat
          /\ Len(LayoutTo(w, k + 1)) = Len(LayoutTo(w, k)) + Len(Level(w, k + 1))
      BY <1>2, <1>4
    <2>3. at \in 1..(Len(LayoutTo(w, k)) + Len(Level(w, k + 1))) /\ at <= Len(LayoutTo(w, k))
      BY ONLY <1>1, <2>1, <2>2
    <2>4. LayoutTo(w, k + 1)[at] = LayoutTo(w, k)[at]
      BY <1>2, <1>4, <2>3
    <2> QED  BY ONLY <2>1, <2>2, <2>3, <2>4 DEF There
  <1> HIDE DEF There
  <1>5. 0 \in Good
    <2>1. i + 1 + 0 = i + 1
      BY <1>0
    <2> QED  BY <1>3, <2>1
  <1>6. ASSUME NEW n \in Good PROVE n + 1 \in Good
    <2> SUFFICES ASSUME i + 1 + (n + 1) <= Len(w) PROVE There(i + 1 + (n + 1))
      OBVIOUS
    <2> DEFINE k == i + 1 + n
    <2>1. There(k) /\ k \in Nat /\ k < Len(w) /\ k # 0 /\ k + 1 = i + 1 + (n + 1)
      BY <1>0
    <2> HIDE DEF k, Good
    <2>2. There(k + 1)
      BY <1>4, <2>1
    <2> QED  BY ONLY <2>1, <2>2
  <1>7. Good \in SUBSET Nat
    OBVIOUS
  <1> HIDE DEF Good
  <1>8. Good = Nat
    BY <1>5, <1>6, <1>7, AllNaturals
  <1>9. j - i - 1 \in Good /\ i + 1 + (j - i - 1) = j
    BY <1>8
  <1>10. There(j)
    <2> DEFINE n == j - i - 1
    <2> HIDE DEF n
    <2>1. n \in Good /\ i + 1 + n = j
      BY <1>9 DEF n
    <2> QED  BY <2>1 DEF Good
  <1> QED  BY <1>10 DEF There, at

(* Items at the end of the last level lie at the end of the buffer. *)
LEMMA LastLevelGrows ==
    ASSUME NEW I, Encoded(I), NEW w \in Seq(Seq(I)), NEW v \in Seq(Seq(I)), NEW d \in 1..Len(w), d <= Len(v),
           \A j \in 1..(d - 1) : v[j] = w[j], NEW items \in Seq(I), v[d] = w[d] \o items
    PROVE  LayoutTo(v, d) = LayoutTo(w, d) \o BytesOf(items) /\ BytesOf(items) \in Seq(Byte)
  <1> DEFINE k == d - 1
  <1>1. k \in Nat /\ k < Len(w) /\ k < Len(v) /\ k + 1 = d /\ d \in 1..Len(v)
    OBVIOUS
  <1>2. \A j \in 1..k : v[j] = w[j]
    OBVIOUS
  <1> HIDE DEF k
  <1> DEFINE l == LayoutTo(w, k)
             e == Level(w, d)
             b == BytesOf(items)
  <1>3. LayoutTo(v, k) = l
    BY <1>1, <1>2, SameBelow
  <1>4. LayoutTo(w, d) = l \o e /\ l \in Seq(Byte)
    BY <1>1, LayoutStep
  <1>5. LayoutTo(v, d) = l \o Level(v, d)
    BY <1>1, <1>3, LayoutStep
  <1>6. e \in Seq(Byte) /\ w[d] \in Seq(I) /\ BytesOf(w[d]) \in Seq(Byte)
    BY LevelType
  <1>7. b \in Seq(Byte)
    BY BytesType
  <1>8. BytesOf(v[d]) = BytesOf(w[d]) \o b
    BY <1>6, BytesConcat
  <1>9. Level(v, d) = e \o b
    <2> DEFINE a == IF d = 1 THEN <<>> ELSE <<0>>
               c == BytesOf(w[d])
    <2>1. a \in Seq(Byte)
      <3>1. <<>> \in Seq(Byte) /\ <<0>> \in Seq(Byte)
        BY FormatFacts DEF Byte
      <3> QED  BY <3>1
    <2>2. Level(v, d) = a \o (c \o b) /\ e = a \o c
      BY <1>8 DEF Level
    <2>3. c \in Seq(Byte)
      BY <1>6
    <2> HIDE DEF a, b, c, e
    <2>4. (a \o c) \o b = a \o (c \o b)
      BY ONLY <1>7, <2>1, <2>3, Associative
    <2> QED  BY ONLY <2>2, <2>4
  <1> HIDE DEF l, e, b
  <1>10. (l \o e) \o b = l \o (e \o b)
    <2>1. l \in Seq(Byte) /\ e \in Seq(Byte) /\ b \in Seq(Byte)
      BY <1>4, <1>6, <1>7
    <2> QED  BY ONLY <2>1, Associative
  <1>11. LayoutTo(v, d) = LayoutTo(w, d) \o b
    BY ONLY <1>4, <1>5, <1>9, <1>10
  <1> QED  BY <1>7, <1>11 DEF b

------------------------------------------------------------------------------
(* Numbers and sizes in the base of the format. *)

(* A product grows with its factor. *)
LEMMA MoreTimes ==
    ASSUME NEW N \in Nat, NEW p \in Int, NEW q \in Int, p < q
    PROVE  p * N + N <= q * N
  <1>1. q - p - 1 \in Nat
    OBVIOUS
  <1>2. (q - p - 1) * N >= 0
    BY <1>1
  <1>3. (q - p - 1) * N = q * N - p * N - N
    OBVIOUS
  <1> QED  BY <1>2, <1>3

(* Quotient and rest. *)
LEMMA DivMod ==
    ASSUME NEW N \in Nat \ {0}, NEW a \in Int
    PROVE  /\ a % N \in 0..(N - 1)
           /\ a \div N \in Int
           /\ a = ((a \div N) * N) + (a % N)
  OBVIOUS

(* Quotient and remainder are unique. *)
LEMMA DivUnique ==
    ASSUME NEW N \in Nat \ {0}, NEW a \in Int, NEW q \in Int, NEW r \in 0..(N - 1), a = q * N + r
    PROVE  a \div N = q /\ a % N = r
  <1> DEFINE p == a \div N
             m == a % N
  <1>1. p \in Int /\ m \in 0..(N - 1) /\ a = p * N + m
    BY DivMod
  <1> HIDE DEF p, m
  <1>2. ~(p < q)
    <2>1. ASSUME p < q PROVE FALSE
      <3>1. p * N + N <= q * N
        BY <1>1, <2>1, MoreTimes
      <3>2. p * N \in Int /\ q * N \in Int
        BY <1>1
      <3> QED  BY ONLY <1>1, <3>1, <3>2, a = q * N + r, r \in 0..(N - 1), N \in Nat \ {0}
    <2> QED  BY <2>1
  <1>3. ~(q < p)
    <2>1. ASSUME q < p PROVE FALSE
      <3>1. q * N + N <= p * N
        BY <1>1, <2>1, MoreTimes
      <3>2. p * N \in Int /\ q * N \in Int
        BY <1>1
      <3> QED  BY ONLY <1>1, <3>1, <3>2, a = q * N + r, r \in 0..(N - 1), N \in Nat \ {0}
    <2> QED  BY <2>1
  <1>4. p = q
    BY <1>1, <1>2, <1>3
  <1>5. m = r
    <2>1. q * N \in Int
      OBVIOUS
    <2> QED  BY ONLY <1>1, <1>4, <2>1, a = q * N + r, r \in 0..(N - 1), N \in Nat \ {0}
  <1> QED  BY <1>4, <1>5 DEF p, m

(* Dividing twice. *)
LEMMA DivTwice ==
    ASSUME NEW n \in Nat, NEW P \in Nat \ {0}, NEW B \in Nat \ {0}
    PROVE  n \div (P * B) = (n \div P) \div B
  <1> DEFINE q == n \div P
             r == n % P
             t == q \div B
             u == q % B
             M == P * B
  <1>1. q \in Int /\ r \in 0..(P - 1) /\ n = q * P + r
    BY DivMod
  <1>2. t \in Int /\ u \in 0..(B - 1) /\ q = t * B + u
    <2> HIDE DEF q
    <2> QED  BY <1>1, DivMod
  <1> HIDE DEF q, r, t, u
  <1>3. M \in Nat \ {0}
    OBVIOUS
  <1>4. (t * B + u) * P = t * M + u * P
    BY <1>1, <1>2
  <1>5. u * P + P <= M
    <2>1. u < B /\ u \in Int /\ B \in Int
      BY <1>2
    <2>2. u * P + P <= B * P
      BY <2>1, MoreTimes
    <2>3. B * P = M
      OBVIOUS
    <2> QED  BY <2>2, <2>3
  <1>6. u * P \in Nat /\ t * M \in Int
    BY <1>2, <1>3
  <1>7. q * P = t * M + u * P
    BY <1>2, <1>4
  <1> HIDE DEF M
  <1>8. n = t * M + (u * P + r) /\ u * P + r \in 0..(M - 1)
    <2> DEFINE x == q * P
               y == t * M
               z == u * P
    <2>1. n = x + r /\ x = y + z /\ z + P <= M /\ z \in Nat /\ y \in Int /\ r \in 0..(P - 1)
      BY <1>1, <1>5, <1>6, <1>7
    <2> HIDE DEF x, y, z
    <2>2. n = y + (z + r) /\ z + r \in 0..(M - 1)
      BY <2>1, <1>3
    <2> QED  BY <2>2 DEF y, z
  <1>9. n \div M = t
    <2> DEFINE s == u * P + r
    <2>1. n = t * M + s /\ s \in 0..(M - 1)
      BY <1>8
    <2> HIDE DEF s
    <2> QED  BY <1>2, <1>3, <2>1, DivUnique
  <1> QED  BY <1>9 DEF M, t, q
------------------------------------------------------------------------------
(* The powers of the base up to the n-th, each from the one before. *)
ArePowers(f, n) == f = [i \in 0..n |-> IF i = 0 THEN 1 ELSE f[i - 1] * Base]

Powers(n) == CHOOSE f : ArePowers(f, n)

(* The recursion of BaseTo has a value. *)
LEMMA PowersExist ==
    ASSUME NEW n \in Nat
    PROVE  ArePowers(Powers(n), n)
  <1> DEFINE Good == {m \in Nat : \E f : ArePowers(f, m)}
  <1>1. 0 \in Good
    <2> DEFINE f == [i \in 0..0 |-> 1]
    <2>1. ArePowers(f, 0)
      BY DEF ArePowers
    <2> QED  BY <2>1
  <1>2. ASSUME NEW m \in Good PROVE m + 1 \in Good
    <2>1. PICK f : ArePowers(f, m)
      BY <1>2
    <2>2. m \in Nat
      OBVIOUS
    <2> DEFINE g == [i \in 0..(m + 1) |-> IF i = 0 THEN 1 ELSE f[i - 1] * Base]
    <2>3. ASSUME NEW i \in 0..m PROVE g[i] = f[i]
      BY <2>1, <2>2 DEF ArePowers
    <2>4. ASSUME NEW i \in 0..(m + 1), i # 0 PROVE g[i - 1] = f[i - 1]
      <3>1. i - 1 \in 0..m
        BY <2>2, <2>4
      <3> HIDE DEF g
      <3> QED  BY <2>3, <3>1
    <2>5. g = [i \in 0..(m + 1) |-> IF i = 0 THEN 1 ELSE g[i - 1] * Base]
      BY <2>4
    <2>6. ArePowers(g, m + 1)
      BY <2>5 DEF ArePowers
    <2> QED  BY <2>2, <2>6
  <1>3. Good \in SUBSET Nat
    OBVIOUS
  <1> HIDE DEF Good
  <1>4. Good = Nat
    BY <1>1, <1>2, <1>3, AllNaturals
  <1>5. \E f : ArePowers(f, n)
    BY <1>4 DEF Good
  <1> QED  BY <1>5 DEF Powers

(* How far the powers go makes no difference to them. *)
LEMMA PowersAgree ==
    ASSUME NEW k \in Nat, NEW n \in Nat, k <= n
    PROVE  Powers(n)[k] = BaseTo(k)
  <1> DEFINE Good == {i \in Nat : i <= k => Powers(n)[i] = Powers(k)[i]}
  <1>1. ASSUME NEW i \in Nat, i <= k
        PROVE  /\ Powers(n)[i] = IF i = 0 THEN 1 ELSE Powers(n)[i - 1] * Base
               /\ Powers(k)[i] = IF i = 0 THEN 1 ELSE Powers(k)[i - 1] * Base
    <2>1. ArePowers(Powers(n), n) /\ ArePowers(Powers(k), k)
      BY PowersExist
    <2>2. i \in 0..n /\ i \in 0..k
      BY <1>1
    <2> QED  BY <2>1, <2>2 DEF ArePowers
  <1>2. 0 \in Good
    BY <1>1
  <1>3. ASSUME NEW i \in Good PROVE i + 1 \in Good
    <2> SUFFICES ASSUME i + 1 <= k PROVE Powers(n)[i + 1] = Powers(k)[i + 1]
      OBVIOUS
    <2>1. Powers(n)[i] = Powers(k)[i] /\ i \in Nat /\ (i + 1) - 1 = i /\ i + 1 # 0 /\ i + 1 \in Nat
      OBVIOUS
    <2> HIDE DEF Good
    <2> QED  BY <1>1, <2>1
  <1>4. Good \in SUBSET Nat
    OBVIOUS
  <1> HIDE DEF Good
  <1>5. Good = Nat
    BY <1>2, <1>3, <1>4, AllNaturals
  <1>6. Powers(n)[k] = Powers(k)[k]
    BY <1>5 DEF Good
  <1>7. BaseTo(k) = Powers(k)[k]
    BY DEF BaseTo, Powers, ArePowers
  <1> QED  BY <1>6, <1>7

(* BaseTo is the power. *)
LEMMA BaseStep ==
    /\ BaseTo(0) = 1
    /\ \A k \in Nat : BaseTo(k + 1) = BaseTo(k) * Base
  <1>1. ASSUME NEW n \in Nat, NEW i \in 0..n
        PROVE  Powers(n)[i] = IF i = 0 THEN 1 ELSE Powers(n)[i - 1] * Base
    <2>1. ArePowers(Powers(n), n)
      BY PowersExist
    <2> QED  BY <2>1 DEF ArePowers
  <1>2. BaseTo(0) = 1
    <2>1. Powers(0)[0] = BaseTo(0)
      BY PowersAgree
    <2>2. Powers(0)[0] = 1
      BY <1>1
    <2> QED  BY <2>1, <2>2
  <1>3. ASSUME NEW k \in Nat PROVE BaseTo(k + 1) = BaseTo(k) * Base
    <2> DEFINE n == k + 1
    <2>1. n \in Nat /\ n \in 0..n /\ n # 0 /\ n - 1 = k /\ k <= n /\ n <= n /\ n = k + 1
      OBVIOUS
    <2> HIDE DEF n
    <2>2. Powers(n)[n] = BaseTo(n) /\ Powers(n)[k] = BaseTo(k)
      BY <2>1, PowersAgree
    <2>3. Powers(n)[n] = Powers(n)[k] * Base
      BY <1>1, <2>1
    <2> QED  BY ONLY <2>1, <2>2, <2>3
  <1> QED  BY <1>2, <1>3

(* Powers of the base are positive. *)
LEMMA BaseType ==
    ASSUME NEW k \in Nat
    PROVE  BaseTo(k) \in Nat \ {0}
  <1> DEFINE Good == {i \in Nat : BaseTo(i) \in Nat \ {0}}
  <1>1. 0 \in Good
    BY BaseStep
  <1>2. ASSUME NEW i \in Good PROVE i + 1 \in Good
    <2>1. i \in Nat /\ BaseTo(i) \in Nat \ {0} /\ BaseTo(i + 1) = BaseTo(i) * Base
      BY BaseStep
    <2>2. Base \in Nat \ {0}
      BY FormatFacts
    <2> DEFINE b == BaseTo(i)
    <2> HIDE DEF Good, b
    <2>3. b * Base \in Nat \ {0}
      BY <2>1, <2>2 DEF b
    <2> QED  BY <2>1, <2>3 DEF b, Good
  <1>3. Good \in SUBSET Nat
    OBVIOUS
  <1> HIDE DEF Good
  <1>4. Good = Nat
    BY <1>1, <1>2, <1>3, AllNaturals
  <1> QED  BY <1>4 DEF Good

(* More bytes, larger numbers. *)
LEMMA BaseGrows ==
    ASSUME NEW k \in Nat, NEW n \in Nat, k <= n
    PROVE  BaseTo(k) <= BaseTo(n)
  <1> DEFINE Good == {i \in Nat : k <= i => BaseTo(k) <= BaseTo(i)}
  <1>1. 0 \in Good
    <2> SUFFICES ASSUME k <= 0 PROVE BaseTo(k) <= BaseTo(0)
      OBVIOUS
    <2>1. k = 0
      OBVIOUS
    <2>2. BaseTo(0) \in Nat
      BY BaseType
    <2> QED  BY <2>1, <2>2
  <1>2. ASSUME NEW i \in Good PROVE i + 1 \in Good
    <2> SUFFICES ASSUME k <= i + 1 PROVE BaseTo(k) <= BaseTo(i + 1)
      OBVIOUS
    <2>1. i \in Nat /\ (k <= i => BaseTo(k) <= BaseTo(i)) /\ i + 1 \in Nat
      BY <1>2
    <2>2. BaseTo(k) \in Nat /\ BaseTo(i) \in Nat /\ BaseTo(i + 1) \in Nat /\ BaseTo(i + 1) = BaseTo(i) * Base
      BY <2>1, BaseType, BaseStep
    <2>3. CASE k = i + 1
      BY <2>2, <2>3
    <2>4. CASE k # i + 1
      <3>1. BaseTo(k) <= BaseTo(i)
        BY <2>1, <2>4
      <3> DEFINE a == BaseTo(i)
                 c == BaseTo(i + 1)
                 d == BaseTo(k)
      <3>2. a \in Nat /\ c = a * Base /\ Base \in Nat /\ Base > 1 /\ d <= a /\ d \in Nat
        BY <2>2, <3>1, FormatFacts
      <3> HIDE DEF a, c, d
      <3>3. a <= a * Base
        <4>1. 0 * a + a <= Base * a
          BY ONLY <3>2, MoreTimes
        <4>2. 0 * a + a = a /\ Base * a = a * Base
          BY ONLY <3>2
        <4> QED  BY ONLY <4>1, <4>2
      <3>4. a * Base \in Nat
        BY ONLY <3>2
      <3>5. d <= c
        <4> DEFINE e == a * Base
        <4>1. e \in Nat /\ a <= e /\ c = e
          BY <3>2, <3>3, <3>4
        <4> HIDE DEF e
        <4> QED  BY ONLY <3>2, <4>1
      <3> QED  BY <3>5 DEF c, d
    <2> QED  BY <2>3, <2>4
  <1>3. Good \in SUBSET Nat
    OBVIOUS
  <1> HIDE DEF Good
  <1>4. Good = Nat
    BY <1>1, <1>2, <1>3, AllNaturals
  <1> QED  BY <1>4 DEF Good

(* A size that fits a u32 is written as it is. *)
LEMMA NarrowSize ==
    ASSUME NEW n \in Nat, n < BaseTo(Narrow)
    PROVE  Narrowed(n) = n /\ n < BaseTo(Wide)
  <1>1. Narrow \in Nat /\ Wide \in Nat /\ Narrow <= Wide
    BY FormatAssumption
  <1>2. BaseTo(Narrow) \in Nat \ {0} /\ BaseTo(Wide) \in Nat /\ BaseTo(Narrow) <= BaseTo(Wide)
    BY <1>1, BaseType, BaseGrows
  <1> DEFINE N == BaseTo(Narrow)
             W == BaseTo(Wide)
  <1>3. N \in Nat \ {0} /\ W \in Nat /\ N <= W /\ n < N
    BY <1>2
  <1> HIDE DEF N, W
  <1>4. n % N = n
    <2>1. n \in 0..(N - 1) /\ 0 \in Int /\ n \in Int /\ n = 0 * N + n
      BY <1>3
    <2> QED  BY ONLY <1>3, <2>1, DivUnique
  <1>5. n < W
    BY <1>3
  <1> QED  BY <1>4, <1>5 DEF N, W, Narrowed

(* A non-empty set of naturals has a least element. *)
LEMMA LeastNat ==
    ASSUME NEW S \in SUBSET Nat, S # {}
    PROVE  \E x \in S : \A y \in S : x <= y
  <1> DEFINE Less == {ss \in Nat \X Nat : ss[1] < ss[2]}
  <1>1. IsWellFoundedOn(Less, Nat)
    BY ONLY NatLessThanWellFounded, Zenon DEF OpToRel
  <1>2. \A x, y \in Nat : y < x => <<y, x>> \in Less
    OBVIOUS
  <1> HIDE DEF Less
  <1>3. PICK x \in S : \A y \in S : ~(<<y, x>> \in Less)
    BY <1>1, WFMin
  <1>4. \A y \in S : ~(y < x)
    BY <1>2, <1>3
  <1> QED
    BY <1>4

(* A size has a number of bytes, without a leading zero. *)
LEMMA SizeFacts ==
    ASSUME NEW n \in Nat, n < BaseTo(Wide)
    PROVE  /\ SizeBytes(n) \in 0..Wide /\ SizeBytes(n) \in Nat /\ n < BaseTo(SizeBytes(n))
           /\ SizeBytes(n) > 0 => n >= BaseTo(SizeBytes(n) - 1)
  <1> DEFINE Enough == {k \in Nat : n < BaseTo(k)}
  <1>1. Wide \in Enough
    BY FormatFacts
  <1>2. PICK k \in Enough : \A j \in Enough : k <= j
    BY <1>1, LeastNat
  <1>3. k \in 0..Wide /\ n < BaseTo(k) /\ (k > 0 => n >= BaseTo(k - 1))
    <2>1. k \in 0..Wide /\ n < BaseTo(k)
      BY <1>1, <1>2, FormatFacts
    <2>2. ASSUME k > 0 PROVE n >= BaseTo(k - 1)
      <3>1. k - 1 \in Nat /\ ~(k <= k - 1)
        BY <2>1, <2>2
      <3>2. ~(n < BaseTo(k - 1))
        BY <1>2, <3>1
      <3>3. BaseTo(k - 1) \in Nat
        BY <3>1, BaseType
      <3> QED  BY <3>2, <3>3
    <2> QED  BY <2>1, <2>2
  <1> HIDE DEF Enough
  <1>4. /\ SizeBytes(n) \in 0..Wide /\ n < BaseTo(SizeBytes(n))
        /\ SizeBytes(n) > 0 => n >= BaseTo(SizeBytes(n) - 1)
    <2> DEFINE P(j) == n < BaseTo(j) /\ (j > 0 => n >= BaseTo(j - 1))
    <2>1. \E j \in 0..Wide : P(j)
      BY <1>3
    <2>2. SizeBytes(n) = CHOOSE j \in 0..Wide : P(j)
      BY DEF SizeBytes
    <2> HIDE DEF P
    <2>3. SizeBytes(n) \in 0..Wide /\ P(SizeBytes(n))
      BY <2>1, <2>2
    <2> QED  BY <2>3 DEF P
  <1> QED  BY <1>4, FormatFacts

(* A digit of a size is a byte. *)
LEMMA DigitType ==
    ASSUME NEW n \in Nat, NEW k \in Nat
    PROVE  n \div BaseTo(k) \in Nat /\ (n \div BaseTo(k)) % Base \in Byte
  <1> DEFINE P == BaseTo(k)
  <1>1. P \in Nat \ {0} /\ Base \in Nat \ {0}
    BY BaseType, FormatFacts
  <1> HIDE DEF P
  <1>2. n \div P \in Nat
    BY <1>1
  <1> DEFINE q == n \div P
  <1>3. q \in Nat
    BY <1>2
  <1> HIDE DEF q
  <1>4. q % Base \in Byte
    BY <1>1, <1>3, DivMod DEF Byte
  <1> QED  BY <1>3, <1>4 DEF P, q

(* The bytes of a size are as many as SizeBytes says. *)
LEMMA BigEndianType ==
    ASSUME NEW n \in Nat, n < BaseTo(Wide)
    PROVE  /\ BigEndian(n) \in Seq(Byte) /\ Len(BigEndian(n)) = SizeBytes(n)
           /\ \A i \in 1..SizeBytes(n) : BigEndian(n)[i] = (n \div BaseTo(SizeBytes(n) - i)) % Base
  <1> DEFINE k == SizeBytes(n)
             b == BigEndian(n)
  <1>1. k \in Nat
    BY SizeFacts
  <1>2. b = [i \in 1..k |-> (n \div BaseTo(k - i)) % Base]
    BY DEF BigEndian
  <1> HIDE DEF k, b
  <1>3. ASSUME NEW i \in 1..k PROVE (n \div BaseTo(k - i)) % Base \in Byte
    <2>1. k - i \in Nat
      BY <1>1
    <2> QED  BY <2>1, DigitType
  <1>4. b \in [1..k -> Byte]
    BY <1>2, <1>3
  <1>5. b \in Seq(Byte) /\ Len(b) = k
    BY <1>1, <1>4
  <1> QED  BY <1>2, <1>5 DEF k, b

(* Number, byte after byte. *)
AreValues(f, s, n) == f = [i \in 0..n |-> IF i = 0 THEN 0 ELSE f[i - 1] * Base + s[i]]

Values(s) == CHOOSE f : AreValues(f, s, Len(s))

(* The recursion of Number has a value. *)
LEMMA ValuesExist ==
    ASSUME NEW s, Len(s) \in Nat
    PROVE  AreValues(Values(s), s, Len(s))
  <1> DEFINE Good == {m \in Nat : \E f : AreValues(f, s, m)}
  <1>1. 0 \in Good
    <2> DEFINE f == [i \in 0..0 |-> 0]
    <2>1. AreValues(f, s, 0)
      BY DEF AreValues
    <2> QED  BY <2>1
  <1>2. ASSUME NEW m \in Good PROVE m + 1 \in Good
    <2>1. PICK f : AreValues(f, s, m)
      BY <1>2
    <2>2. m \in Nat
      OBVIOUS
    <2> DEFINE g == [i \in 0..(m + 1) |-> IF i = 0 THEN 0 ELSE f[i - 1] * Base + s[i]]
    <2>3. ASSUME NEW i \in 0..m PROVE g[i] = f[i]
      BY <2>1, <2>2 DEF AreValues
    <2>4. ASSUME NEW i \in 0..(m + 1), i # 0 PROVE g[i - 1] = f[i - 1]
      <3>1. i - 1 \in 0..m
        BY <2>2, <2>4
      <3> HIDE DEF g
      <3> QED  BY <2>3, <3>1
    <2>5. g = [i \in 0..(m + 1) |-> IF i = 0 THEN 0 ELSE g[i - 1] * Base + s[i]]
      BY <2>4
    <2>6. AreValues(g, s, m + 1)
      BY <2>5 DEF AreValues
    <2> QED  BY <2>2, <2>6
  <1>3. Good \in SUBSET Nat
    OBVIOUS
  <1> HIDE DEF Good
  <1>4. Good = Nat
    BY <1>1, <1>2, <1>3, AllNaturals
  <1>5. \E f : AreValues(f, s, Len(s))
    BY <1>4 DEF Good
  <1> QED  BY <1>5 DEF Values

(* Number goes through the bytes from the first to the last. *)
LEMMA ValuesStep ==
    ASSUME NEW s \in Seq(Byte)
    PROVE  /\ Len(s) \in Nat /\ Number(s) = Values(s)[Len(s)] /\ Values(s)[0] = 0
           /\ \A i \in Nat : i < Len(s) => Values(s)[i + 1] = Values(s)[i] * Base + s[i + 1]
  <1> DEFINE f == Values(s)
             n == Len(s)
  <1>1. n \in Nat
    OBVIOUS
  <1>2. AreValues(f, s, n)
    BY <1>1, ValuesExist
  <1>3. Number(s) = f[n]
    BY DEF Number, Values, AreValues
  <1> HIDE DEF f, n
  <1>4. ASSUME NEW i \in 0..n PROVE f[i] = IF i = 0 THEN 0 ELSE f[i - 1] * Base + s[i]
    BY <1>2 DEF AreValues
  <1>5. ASSUME NEW i \in Nat, i < n PROVE f[i + 1] = f[i] * Base + s[i + 1]
    <2>1. i + 1 \in 0..n /\ i + 1 # 0 /\ (i + 1) - 1 = i
      BY <1>1, <1>5
    <2> QED  BY <1>4, <2>1
  <1> QED  BY <1>1, <1>3, <1>4, <1>5 DEF f, n

(* The number of k bytes is one of those below Base to the power of k. *)
LEMMA NumberType ==
    ASSUME NEW s \in Seq(Byte)
    PROVE  Number(s) \in Nat /\ Number(s) < BaseTo(Len(s))
  <1> DEFINE f == Values(s)
             n == Len(s)
             Good == {i \in Nat : i <= n => f[i] \in Nat /\ f[i] < BaseTo(i)}
  <1>1. n \in Nat /\ Number(s) = f[n] /\ f[0] = 0
    BY ValuesStep
  <1>2. \A i \in Nat : i < n => f[i + 1] = f[i] * Base + s[i + 1]
    BY ValuesStep
  <1> HIDE DEF f, n
  <1>3. 0 \in Good
    <2>1. BaseTo(0) = 1
      BY BaseStep
    <2> QED  BY ONLY <1>1, <2>1
  <1>4. ASSUME NEW i \in Good PROVE i + 1 \in Good
    <2> SUFFICES ASSUME i + 1 <= n PROVE f[i + 1] \in Nat /\ f[i + 1] < BaseTo(i + 1)
      OBVIOUS
    <2>1. i \in Nat /\ i < n /\ f[i] \in Nat /\ f[i] < BaseTo(i)
      BY <1>1
    <2> HIDE DEF Good
    <2> DEFINE a == f[i]
               c == s[i + 1]
               P == BaseTo(i)
    <2>2. f[i + 1] = a * Base + c
      BY <1>2, <2>1
    <2>3. c \in 0..(Base - 1)
      <3>1. i + 1 \in 1..Len(s)
        BY <1>1, <2>1 DEF n
      <3> QED  BY <3>1, ElementOfSeq DEF Byte
    <2>4. P \in Nat /\ BaseTo(i + 1) = P * Base /\ a \in Nat /\ a < P /\ Base \in Nat
      BY <2>1, BaseType, BaseStep, FormatFacts
    <2> HIDE DEF a, c, P
    <2>5. a * Base + Base <= P * Base
      BY <2>4, MoreTimes
    <2> DEFINE x == a * Base
               y == P * Base
    <2>6. x \in Nat /\ y \in Nat /\ x + Base <= y
      BY <2>4, <2>5
    <2>7. f[i + 1] = x + c /\ BaseTo(i + 1) = y
      BY <2>2, <2>4
    <2> HIDE DEF x, y
    <2> QED  BY ONLY <2>3, <2>4, <2>6, <2>7
  <1>5. Good \in SUBSET Nat
    OBVIOUS
  <1> HIDE DEF Good
  <1>6. Good = Nat
    BY <1>3, <1>4, <1>5, AllNaturals
  <1>7. f[n] \in Nat /\ f[n] < BaseTo(n)
    BY <1>1, <1>6 DEF Good
  <1> QED  BY <1>1, <1>7 DEF n

(* What to_be_bytes writes, decode_usize reads. *)
LEMMA NumberOfBigEndian ==
    ASSUME NEW n \in Nat, n < BaseTo(Wide)
    PROVE  /\ Number(BigEndian(n)) = n
           /\ SizeBytes(n) > 0 => BigEndian(n)[1] # 0
  <1> DEFINE b == BigEndian(n)
             k == SizeBytes(n)
             f == Values(b)
             Good == {i \in Nat : i <= k => f[i] = n \div BaseTo(k - i)}
  <1>1. k \in Nat /\ n < BaseTo(k) /\ (k > 0 => n >= BaseTo(k - 1))
    BY SizeFacts
  <1>2. b \in Seq(Byte) /\ Len(b) = k /\ \A i \in 1..k : b[i] = (n \div BaseTo(k - i)) % Base
    BY BigEndianType
  <1> HIDE DEF b, k
  <1>3. Number(b) = f[k] /\ f[0] = 0 /\ \A i \in Nat : i < k => f[i + 1] = f[i] * Base + b[i + 1]
    BY <1>2, ValuesStep
  <1> HIDE DEF f
  <1>4. 0 \in Good
    <2> DEFINE P == BaseTo(k)
    <2>1. P \in Nat \ {0} /\ n < P /\ k - 0 = k
      BY <1>1, BaseType
    <2> HIDE DEF P
    <2>2. n = 0 * P + n /\ n \in 0..(P - 1)
      BY <2>1
    <2>3. n \div P = 0
      BY <2>1, <2>2, DivUnique
    <2> QED  BY <1>3, <2>1, <2>3 DEF P
  <1>5. ASSUME NEW i \in Good PROVE i + 1 \in Good
    <2> SUFFICES ASSUME i + 1 <= k PROVE f[i + 1] = n \div BaseTo(k - (i + 1))
      OBVIOUS
    <2> DEFINE j == k - (i + 1)
               P == BaseTo(j)
               q == n \div P
    <2>1. i \in Nat /\ i < k /\ f[i] = n \div BaseTo(k - i) /\ j \in Nat /\ j + 1 = k - i /\ i + 1 \in 1..k
      BY <1>1
    <2> HIDE DEF Good, j
    <2>2. P \in Nat \ {0} /\ Base \in Nat \ {0} /\ BaseTo(j + 1) = P * Base
      <3>1. BaseTo(j) \in Nat \ {0}
        BY <2>1, BaseType
      <3>2. BaseTo(j + 1) = BaseTo(j) * Base
        BY <2>1, BaseStep, Zenon
      <3> QED  BY <3>1, <3>2, FormatFacts
    <2>3. q \in Nat
      BY <2>1, DigitType
    <2>4. b[i + 1] = q % Base
      BY <1>2, <2>1 DEF j
    <2> HIDE DEF P
    <2>5. n \div (P * Base) = q \div Base
      BY <2>2, DivTwice
    <2>6. f[i] = q \div Base
      BY ONLY <2>1, <2>2, <2>5
    <2>7. f[i + 1] = f[i] * Base + b[i + 1]
      BY <1>3, <2>1
    <2> HIDE DEF q
    <2>8. q = ((q \div Base) * Base) + (q % Base)
      BY <2>2, <2>3, DivMod
    <2>9. f[i + 1] = q
      BY ONLY <2>4, <2>6, <2>7, <2>8
    <2> QED  BY <2>9 DEF q, P, j
  <1>6. Good \in SUBSET Nat
    OBVIOUS
  <1>7. Good = Nat
    <2> HIDE DEF Good
    <2> QED  BY <1>4, <1>5, <1>6, AllNaturals
  <1>8. f[k] = n
    <2>1. f[k] = n \div BaseTo(k - k) /\ k - k = 0
      BY <1>1, <1>7
    <2>2. n \div BaseTo(0) = n
      BY BaseStep
    <2> QED  BY ONLY <2>1, <2>2
  <1> HIDE DEF Good
  <1>9. ASSUME k > 0 PROVE b[1] # 0
    <2> DEFINE P == BaseTo(k - 1)
               q == n \div P
    <2>1. k - 1 \in Nat /\ (k - 1) + 1 = k /\ 1 \in 1..k /\ n >= P
      BY <1>1, <1>9
    <2>2. P \in Nat \ {0} /\ Base \in Nat \ {0} /\ BaseTo(k) = P * Base
      <3> DEFINE j == k - 1
      <3>1. j \in Nat /\ j + 1 = k
        BY <2>1
      <3> HIDE DEF j
      <3>2. BaseTo(j) \in Nat \ {0} /\ Base \in Nat \ {0} /\ BaseTo(k) = BaseTo(j) * Base
        <4>1. BaseTo(j) \in Nat \ {0}
          BY <3>1, BaseType
        <4>2. BaseTo(j + 1) = BaseTo(j) * Base
          BY <3>1, BaseStep, Zenon
        <4> QED  BY <3>1, <4>1, <4>2, FormatFacts
      <3> QED  BY <3>2 DEF j
    <2>3. b[1] = q % Base
      BY <1>2, <2>1
    <2> HIDE DEF P
    <2>4. q \in Int /\ n % P \in 0..(P - 1) /\ n = q * P + (n % P)
      BY <2>2, DivMod
    <2> DEFINE r == n % P
    <2> HIDE DEF q, r
    <2>5. r \in 0..(P - 1) /\ n = q * P + r
      BY <2>4 DEF r
    <2>6. q >= 1
      <3> SUFFICES ASSUME q < 1 PROVE FALSE
        BY <2>4
      <3>1. q * P + P <= 1 * P
        BY <2>2, <2>4, MoreTimes
      <3> DEFINE x == q * P
      <3>2. x \in Int /\ x + P <= P /\ n = x + r
        BY <2>2, <2>4, <2>5, <3>1
      <3> HIDE DEF x
      <3> QED  BY ONLY <2>1, <2>2, <2>5, <3>2
    <2>7. q < Base
      <3> SUFFICES ASSUME Base <= q PROVE FALSE
        BY <2>2, <2>4
      <3>1. q * P >= Base * P
        <4>1. CASE q = Base
          BY <2>2, <2>4, <4>1
        <4>2. CASE q # Base
          <5>1. Base * P + P <= q * P
            BY <2>2, <2>4, <4>2, MoreTimes
          <5> DEFINE x == Base * P
                     y == q * P
          <5>2. x \in Int /\ y \in Int /\ x + P <= y
            BY <2>2, <2>4, <5>1
          <5> HIDE DEF x, y
          <5>3. y >= x
            BY <2>2, <5>2
          <5> QED  BY <5>3 DEF x, y
        <4> QED  BY <4>1, <4>2
      <3>2. Base * P = P * Base
        BY <2>2
      <3> DEFINE x == q * P
                 y == P * Base
      <3>3. x \in Int /\ y \in Int /\ x >= y /\ n = x + r /\ n < y
        BY <1>1, <2>2, <2>4, <2>5, <3>1, <3>2
      <3> HIDE DEF x, y
      <3> QED  BY ONLY <2>2, <2>5, <3>3
    <2>8. q % Base = q
      <3>1. q = 0 * Base + q /\ q \in 0..(Base - 1)
        BY <2>2, <2>4, <2>6, <2>7
      <3>2. 0 \in Int /\ q \in Int /\ Base \in Nat \ {0}
        BY <2>2, <2>4
      <3> QED  BY ONLY <3>1, <3>2, DivUnique, Zenon
    <2> QED  BY <2>3, <2>6, <2>8
  <1> QED  BY <1>3, <1>8, <1>9 DEF b, k

------------------------------------------------------------------------------
(* Headers, and what payload_info reads of them. *)

(* The first bytes of short and long forms: of data, and of a list. *)
HeaderPair(short, long) == <<short, long>> \in {<<Single, LongData>>, <<ShortList, LongList>>}

(* Both kinds of header leave room for a size of up to Wide bytes. *)
LEMMA PairFacts ==
    ASSUME NEW short, NEW long, HeaderPair(short, long)
    PROVE  /\ short \in Nat /\ long \in Nat /\ long = short + Short /\ long + Wide < Base
           /\ (short = Single /\ long = LongData) \/ (short = ShortList /\ long = LongList)
  <1>1. (short = Single /\ long = LongData) \/ (short = ShortList /\ long = LongList)
    <2>1. <<short, long>> = <<Single, LongData>> \/ <<short, long>> = <<ShortList, LongList>>
      BY DEF HeaderPair
    <2> QED  BY <2>1
  <1> QED  BY ONLY <1>1, FormatFacts

(* A header is one byte, or one byte and the size. *)
LEMMA HeaderFacts ==
    ASSUME NEW short, NEW long, HeaderPair(short, long), NEW n \in Nat, n < BaseTo(Wide)
    PROVE  /\ Header(n, short, long) \in Seq(Byte) /\ Len(Header(n, short, long)) \in Nat \ {0}
           /\ n <= Short => Len(Header(n, short, long)) = 1 /\ Header(n, short, long)[1] = short + n
           /\ n > Short => /\ SizeBytes(n) \in 1..Wide
                           /\ Len(Header(n, short, long)) = 1 + SizeBytes(n)
                           /\ Header(n, short, long)[1] = long + SizeBytes(n)
                           /\ \A i \in 1..SizeBytes(n) : Header(n, short, long)[1 + i] = BigEndian(n)[i]
  <1>0. /\ short \in Nat /\ long \in Nat /\ long = short + Short /\ long + Wide < Base
        /\ Short \in Nat /\ Wide \in Nat /\ Base \in Nat
    BY PairFacts, FormatFacts
  <1>1. CASE n <= Short
    <2>1. Header(n, short, long) = <<short + n>>
      BY <1>1 DEF Header
    <2>2. short + n \in Byte
      BY <1>0, <1>1 DEF Byte
    <2>3. <<short + n>> \in Seq(Byte) /\ Len(<<short + n>>) = 1 /\ <<short + n>>[1] = short + n
      BY <2>2
    <2> QED  BY <1>0, <1>1, <2>1, <2>3
  <1>2. CASE n > Short
    <2> DEFINE k == SizeBytes(n)
               b == BigEndian(n)
               h == <<long + k>> \o b
    <2>1. k \in 0..Wide /\ n < BaseTo(k)
      BY SizeFacts
    <2>2. k # 0
      <3>1. BaseTo(0) = 1
        BY BaseStep
      <3> QED  BY <1>0, <1>2, <2>1, <3>1
    <2>3. b \in Seq(Byte) /\ Len(b) = k
      BY BigEndianType
    <2>4. ~(n <= Short)
      BY <1>0, <1>2
    <2>5. Header(n, short, long) = h
      BY <2>4 DEF Header
    <2>6. long + k \in Byte
      BY <1>0, <2>1 DEF Byte
    <2> HIDE DEF k, b
    <2> DEFINE a == <<long + k>>
    <2>7. a \in Seq(Byte) /\ Len(a) = 1 /\ a[1] = long + k
      BY <2>6
    <2>8. h = a \o b
      OBVIOUS
    <2> HIDE DEF a, h
    <2>9. /\ a \o b \in Seq(Byte) /\ Len(a \o b) = Len(a) + Len(b)
          /\ \A i \in 1..(Len(a) + Len(b)) : (a \o b)[i] = IF i <= Len(a) THEN a[i] ELSE b[i - Len(a)]
      BY <2>3, <2>7, ConcatProperties
    <2>10. h \in Seq(Byte) /\ Len(h) = 1 + k /\ \A i \in 1..(1 + k) : h[i] = IF i <= 1 THEN a[i] ELSE b[i - 1]
      BY <2>3, <2>7, <2>8, <2>9
    <2>11. h[1] = long + k
      <3>1. 1 \in 1..(1 + k)
        BY <2>1, <1>0
      <3> QED  BY <2>7, <2>10, <3>1
    <2>12. \A i \in 1..k : h[1 + i] = b[i]
      <3> SUFFICES ASSUME NEW i \in 1..k PROVE h[1 + i] = b[i]
        OBVIOUS
      <3>1. 1 + i \in 1..(1 + k) /\ ~(1 + i <= 1) /\ (1 + i) - 1 = i
        BY <2>1, <1>0
      <3> QED  BY <2>10, <3>1
    <2>13. k \in 1..Wide /\ 1 + k \in Nat \ {0}
      BY <1>0, <2>1, <2>2
    <2> QED  BY <2>4, <2>5, <2>10, <2>11, <2>12, <2>13 DEF k, b
  <1> QED  BY <1>0, <1>1, <1>2

(* PayloadInfo::from, by the kind of first byte. *)
LEMMA InfoCases ==
    ASSUME NEW s, NEW l, l = s[1], l \in Byte
    PROVE  /\ l < Single => InfoOfFirst(s) = Info(0, 1)
           /\ l \in Single..LongData => InfoOfFirst(s) = Info(1, l - Single)
           /\ l \in (LongData + 1)..(ShortList - 1) => InfoOfFirst(s) = CalculatePayloadInfo(s, l - LongData)
           /\ l \in ShortList..LongList => InfoOfFirst(s) = Info(1, l - ShortList)
           /\ l > LongList => InfoOfFirst(s) = CalculatePayloadInfo(s, l - LongList)
           /\ \/ l < Single \/ l \in Single..LongData \/ l \in (LongData + 1)..(ShortList - 1)
              \/ l \in ShortList..LongList \/ l > LongList
           /\ l > LongList => l - LongList \in 1..Wide
           /\ l \in (LongData + 1)..(ShortList - 1) => l - LongData \in 1..Wide
  <1>1. l \in Nat /\ l < Base
    BY FormatFacts DEF Byte
  <1>2. /\ Single \in Nat /\ LongData \in Nat /\ ShortList \in Nat /\ LongList \in Nat
        /\ Single <= LongData /\ LongData + Wide < ShortList /\ ShortList <= LongList
        /\ Short \in Nat /\ Wide \in Nat \ {0} /\ Base = LongList + Wide + 1 /\ ShortList = LongData + Wide + 1
    BY FormatFacts
  <1> DEFINE i == InfoOfFirst(s)
             a == CalculatePayloadInfo(s, l - LongData)
             b == CalculatePayloadInfo(s, l - LongList)
             c == Info(1, l - Single)
             d == Info(1, l - ShortList)
             e == Info(0, 1)
  <1>3. i = CASE l < Single -> e
              [] l \in Single..LongData -> c
              [] l \in (LongData + 1)..(ShortList - 1) -> a
              [] l \in ShortList..LongList -> d
              [] l > LongList -> b
    BY DEF InfoOfFirst
  <1> HIDE DEF i, a, b, c, d, e
  <1>4. /\ l < Single => i = e
        /\ l \in Single..LongData => i = c
        /\ l \in (LongData + 1)..(ShortList - 1) => i = a
        /\ l \in ShortList..LongList => i = d
        /\ l > LongList => i = b
    BY ONLY <1>1, <1>2, <1>3
  <1>5. /\ \/ l < Single \/ l \in Single..LongData \/ l \in (LongData + 1)..(ShortList - 1)
           \/ l \in ShortList..LongList \/ l > LongList
        /\ l > LongList => l - LongList \in 1..Wide
        /\ l \in (LongData + 1)..(ShortList - 1) => l - LongData \in 1..Wide
    BY ONLY <1>1, <1>2
  <1> QED  BY <1>4, <1>5 DEF i, a, b, c, d, e

(* The fields of the records. *)
LEMMA InfoFields ==
    ASSUME NEW h, NEW v
    PROVE  /\ Info(h, v).ok /\ Info(h, v).header_len = h /\ Info(h, v).value_len = v
           /\ Total(Info(h, v)) = h + v
           /\ ~NoInfo.ok /\ NoInfo.header_len = 0 /\ NoInfo.value_len = 0 /\ Total(NoInfo) = 0
  BY DEF Info, NoInfo, Total

(* The size in a long form, if there is one. *)
LEMMA LongCases ==
    ASSUME NEW s \in Seq(Byte), NEW k \in 1..Wide
    PROVE  \/ CalculatePayloadInfo(s, k) = NoInfo
           \/ /\ 1 + k <= Len(s)
              /\ SubSeq(s, 2, 1 + k)[1] # 0
              /\ Number(SubSeq(s, 2, 1 + k)) \in Nat /\ Number(SubSeq(s, 2, 1 + k)) > Short
              /\ CalculatePayloadInfo(s, k) = Info(1 + k, Number(SubSeq(s, 2, 1 + k)))
  <1>0. k \in Nat \ {0} /\ Len(s) \in Nat /\ Short \in Nat
    BY FormatFacts
  <1> DEFINE t == SubSeq(s, 2, 1 + k)
  <1>1. CASE Len(s) < 1 + k
    BY <1>1 DEF CalculatePayloadInfo
  <1>2. CASE ~(Len(s) < 1 + k)
    <2>1. CalculatePayloadInfo(s, k) = LongInfo(1 + k, DecodeUsize(t))
      BY <1>2 DEF CalculatePayloadInfo
    <2>2. t \in Seq(Byte)
      <3>1. \A i \in 2..(1 + k) : s[i] \in Byte
        BY <1>0, <1>2, ElementOfSeq
      <3> QED  BY <1>0, <3>1, SubSeqProperties
    <2> HIDE DEF t
    <2>3. Number(t) \in Nat
      BY <2>2, NumberType
    <2>4. CASE t[1] = 0
      <3>1. DecodeUsize(t) = [ok |-> FALSE, value |-> 0]
        BY <2>4 DEF DecodeUsize
      <3> QED  BY <2>1, <3>1 DEF LongInfo
    <2>5. CASE t[1] # 0
      <3>1. DecodeUsize(t) = [ok |-> TRUE, value |-> Number(t)]
        BY <2>5 DEF DecodeUsize
      <3>2. CASE Number(t) <= Short
        BY <2>1, <3>1, <3>2 DEF LongInfo
      <3>3. CASE ~(Number(t) <= Short)
        <4>1. LongInfo(1 + k, DecodeUsize(t)) = Info(1 + k, Number(t))
          BY <3>1, <3>3 DEF LongInfo
        <4>2. 1 + k <= Len(s) /\ Number(t) > Short
          BY <1>0, <1>2, <2>3, <3>3
        <4> QED  BY <2>1, <2>3, <2>5, <4>1, <4>2 DEF t
      <3> QED  BY <3>2, <3>3
    <2> QED  BY <2>4, <2>5
  <1> QED  BY <1>1, <1>2

(* The bytes that tell an item's extent. *)
Reach(i) == IF i.header_len = 0 THEN 1 ELSE i.header_len

(***************************************************************************)
(* An extent that is told has a first byte, and bytes enough for its       *)
(* header.                                                                 *)
(***************************************************************************)
LEMMA InfoType ==
    ASSUME NEW s \in Seq(Byte), s # <<>>
    PROVE  \/ InfoOfFirst(s) = NoInfo
           \/ /\ InfoOfFirst(s).ok
              /\ InfoOfFirst(s).header_len \in Nat /\ InfoOfFirst(s).value_len \in Nat
              /\ Total(InfoOfFirst(s)) \in Nat \ {0}
              /\ Reach(InfoOfFirst(s)) \in 1..Len(s) /\ Reach(InfoOfFirst(s)) <= Total(InfoOfFirst(s))
  <1> DEFINE l == s[1]
             r == InfoOfFirst(s)
             Fine(h, v) == h \in Nat /\ v \in Nat /\ h + v > 0 /\ (h = 0 => v = 1) /\ h <= Len(s)
  <1>1. Len(s) \in Nat \ {0} /\ 1 \in 1..Len(s)
    BY EmptySeq
  <1>2. l \in Byte /\ l \in Nat
    BY <1>1, ElementOfSeq, FormatFacts
  <1>3. ASSUME NEW h, NEW v, r = Info(h, v), Fine(h, v)
        PROVE  /\ r.ok /\ r.header_len \in Nat /\ r.value_len \in Nat /\ Total(r) \in Nat \ {0}
               /\ Reach(r) \in 1..Len(s) /\ Reach(r) <= Total(r)
    <2>1. r.ok /\ r.header_len = h /\ r.value_len = v /\ Total(r) = h + v
      BY <1>3, InfoFields
    <2>2. Reach(r) = IF h = 0 THEN 1 ELSE h
      BY <2>1 DEF Reach
    <2> HIDE DEF r
    <2> QED  BY <1>1, <1>3, <2>1, <2>2
  <1>4. \/ r = NoInfo
        \/ \E h, v : r = Info(h, v) /\ Fine(h, v)
    <2>0. Single \in Nat /\ ShortList \in Nat /\ LongData \in Nat /\ LongList \in Nat /\ Wide \in Nat
      BY FormatFacts
    <2>1. CASE l < Single
      <3>1. r = Info(0, 1) /\ Fine(0, 1)
        BY <1>1, <1>2, <2>1, InfoCases
      <3> QED  BY <3>1
    <2>2. CASE l \in Single..LongData
      <3>1. r = Info(1, l - Single)
        BY <1>2, <2>2, InfoCases
      <3>2. Fine(1, l - Single)
        BY <1>1, <1>2, <2>0, <2>2
      <3> QED  BY <3>1, <3>2
    <2>3. CASE l \in ShortList..LongList
      <3>1. r = Info(1, l - ShortList)
        BY <1>2, <2>3, InfoCases
      <3>2. Fine(1, l - ShortList)
        BY <1>1, <1>2, <2>0, <2>3
      <3> QED  BY <3>1, <3>2
    <2>4. ASSUME NEW k \in 1..Wide, r = CalculatePayloadInfo(s, k)
          PROVE  \/ r = NoInfo
                 \/ \E h, v : r = Info(h, v) /\ Fine(h, v)
      <3> DEFINE v == Number(SubSeq(s, 2, 1 + k))
      <3> HIDE DEF r
      <3>1. \/ r = NoInfo
            \/ 1 + k <= Len(s) /\ v \in Nat /\ r = Info(1 + k, v)
        BY <2>4, LongCases
      <3> HIDE DEF v
      <3>2. ASSUME 1 + k <= Len(s), v \in Nat PROVE Fine(1 + k, v)
        BY <1>1, <2>0, <3>2
      <3> HIDE DEF Fine
      <3> QED  BY <3>1, <3>2
    <2>5. CASE l \in (LongData + 1)..(ShortList - 1)
      <3>1. r = CalculatePayloadInfo(s, l - LongData) /\ l - LongData \in 1..Wide
        BY <1>2, <2>5, InfoCases
      <3> QED  BY <2>4, <3>1
    <2>6. CASE l > LongList
      <3>1. r = CalculatePayloadInfo(s, l - LongList) /\ l - LongList \in 1..Wide
        BY <1>2, <2>6, InfoCases
      <3> QED  BY <2>4, <3>1
    <2> QED  BY <1>2, <2>1, <2>2, <2>3, <2>5, <2>6, InfoCases
  <1> HIDE DEF r, Fine
  <1>5. CASE r = NoInfo
    BY <1>5 DEF r
  <1>6. CASE \E h, v : r = Info(h, v) /\ Fine(h, v)
    BY <1>3, <1>6 DEF r
  <1> QED  BY <1>4, <1>5, <1>6

------------------------------------------------------------------------------
(* Parts of byte sequences. *)

(* The bytes of a concatenation. *)
LEMMA Joined ==
    ASSUME NEW a \in Seq(Byte), NEW c \in Seq(Byte), NEW s, s = a \o c
    PROVE  /\ s \in Seq(Byte) /\ Len(s) = Len(a) + Len(c) /\ Len(a) \in Nat /\ Len(c) \in Nat
           /\ \A i \in 1..(Len(a) + Len(c)) : s[i] = IF i <= Len(a) THEN a[i] ELSE c[i - Len(a)]
  BY ConcatProperties

(* The two parts of a concatenation. *)
LEMMA Parts ==
    ASSUME NEW a \in Seq(Byte), NEW c \in Seq(Byte), NEW s, s = a \o c
    PROVE  /\ SubSeq(s, 1, Len(a)) = a
           /\ SubSeq(s, Len(a) + 1, Len(s)) = c
           /\ s \in Seq(Byte) /\ Len(s) = Len(a) + Len(c) /\ Len(a) \in Nat /\ Len(c) \in Nat
  <1>1. /\ s \in Seq(Byte) /\ Len(s) = Len(a) + Len(c) /\ Len(a) \in Nat /\ Len(c) \in Nat
        /\ \A i \in 1..(Len(a) + Len(c)) : s[i] = IF i <= Len(a) THEN a[i] ELSE c[i - Len(a)]
    BY Joined
  <1>2. SubSeq(s, 1, Len(a)) = a
    <2> DEFINE t == SubSeq(s, 1, Len(a))
    <2>1. \A i \in 1..Len(a) : s[i] \in Byte
      BY <1>1, ElementOfSeq
    <2>2. /\ t \in Seq(Byte) /\ Len(t) = Len(a)
          /\ \A i \in 1..Len(a) : t[i] = s[i]
      BY <1>1, <2>1, SubSeqProperties
    <2> HIDE DEF t
    <2>3. \A i \in 1..Len(a) : t[i] = a[i]
      BY <1>1, <2>2
    <2>4. t = a
      BY <2>2, <2>3, SeqEqual
    <2> QED  BY <2>4 DEF t
  <1>3. SubSeq(s, Len(a) + 1, Len(s)) = c
    <2> DEFINE m == Len(a) + 1
               n == Len(s)
               t == SubSeq(s, m, n)
    <2>1. m \in Nat /\ n \in Nat /\ m = Len(a) + 1 /\ n = Len(a) + Len(c)
      BY <1>1
    <2> HIDE DEF m, n
    <2>2. \A i \in m..n : s[i] \in Byte
      <3>1. \A i \in m..n : i \in 1..Len(s)
        BY <1>1, <2>1
      <3> QED  BY <1>1, <3>1, ElementOfSeq
    <2>3. /\ t \in Seq(Byte) /\ Len(t) = (IF m <= n THEN n - m + 1 ELSE 0)
          /\ \A i \in 1..(n - m + 1) : t[i] = s[m + i - 1]
      BY <1>1, <2>1, <2>2, SubSeqProperties
    <2> HIDE DEF t
    <2>4. Len(t) = Len(c)
      BY <1>1, <2>1, <2>3
    <2>5. \A i \in 1..Len(c) : t[i] = c[i]
      <3> SUFFICES ASSUME NEW i \in 1..Len(c) PROVE t[i] = c[i]
        OBVIOUS
      <3>1. i \in 1..(n - m + 1) /\ m + i - 1 = Len(a) + i
        BY <1>1, <2>1
      <3>2. Len(a) + i \in 1..(Len(a) + Len(c)) /\ ~(Len(a) + i <= Len(a)) /\ (Len(a) + i) - Len(a) = i
        BY <1>1
      <3> QED  BY <1>1, <2>3, <3>1, <3>2
    <2>6. t = c
      BY <2>3, <2>4, <2>5, SeqEqual
    <2> QED  BY <2>6 DEF t, m, n
  <1> QED  BY <1>1, <1>2, <1>3

Put(s, n, d) == [s EXCEPT ![n] = d]

(* A byte in the middle is replaced. *)
LEMMA ByteReplaced ==
    ASSUME NEW q \in Seq(Byte), NEW r \in Seq(Byte), NEW o \in Seq(Byte), Len(o) = 1,
           NEW u \in Seq(Byte), Len(u) = 1
    PROVE  Put((q \o o) \o r, Len(q) + 1, u[1]) = (q \o u) \o r
  <1> DEFINE s == (q \o o) \o r
             n == Len(q) + 1
             d == u[1]
  <1>a. s = (q \o o) \o r /\ n = Len(q) + 1 /\ d = u[1]
    OBVIOUS
  <1> HIDE DEF s, n, d
  <1> DEFINE y == Put(s, n, d)
  <1>0. y = [s EXCEPT ![n] = d]
    BY DEF Put
  <1> HIDE DEF y
  <1>1. ASSUME NEW e \in Seq(Byte), Len(e) = 1, NEW t, t = (q \o e) \o r
        PROVE  /\ t \in Seq(Byte) /\ Len(t) = n + Len(r) /\ n \in Nat /\ Len(r) \in Nat
               /\ t[n] = e[1]
               /\ \A i \in 1..(n + Len(r)) : i # n => t[i] = IF i < n THEN q[i] ELSE r[i - n]
    <2> DEFINE a == q \o e
    <2>3. t = a \o r
      BY <1>1
    <2>2. /\ a \in Seq(Byte) /\ Len(a) = Len(q) + Len(e) /\ Len(q) \in Nat /\ Len(r) \in Nat
          /\ \A i \in 1..(Len(q) + Len(e)) : a[i] = IF i <= Len(q) THEN q[i] ELSE e[i - Len(q)]
      <3> HIDE DEF a
      <3>1. Len(r) \in Nat /\ a = q \o e
        BY DEF a
      <3> QED  BY <3>1, Joined
    <2> HIDE DEF a
    <2>4. /\ t \in Seq(Byte) /\ Len(t) = Len(a) + Len(r)
          /\ \A i \in 1..(Len(a) + Len(r)) : t[i] = IF i <= Len(a) THEN a[i] ELSE r[i - Len(a)]
      <3>1. r \in Seq(Byte) /\ a \in Seq(Byte)
        BY <2>2
      <3> QED  BY ONLY <2>3, <3>1, Joined
    <2>5. Len(a) = n /\ n \in Nat /\ n = Len(q) + 1 /\ n - Len(q) = 1
      BY <1>a, <1>1, <2>2
    <2>6. t[n] = a[n] /\ a[n] = e[1]
      <3>1. n \in 1..(Len(a) + Len(r)) /\ n <= Len(a) /\ n \in 1..(Len(q) + Len(e)) /\ ~(n <= Len(q))
        BY ONLY <1>1, <2>2, <2>5
      <3> QED  BY <2>2, <2>4, <2>5, <3>1
    <2>7. ASSUME NEW i \in 1..(n + Len(r)), i # n PROVE t[i] = IF i < n THEN q[i] ELSE r[i - n]
      <3>1. i \in 1..(Len(a) + Len(r)) /\ (i <= Len(a) <=> i < n)
        BY <2>2, <2>5, <2>7
      <3>2. t[i] = IF i < n THEN a[i] ELSE r[i - n]
        BY <2>4, <2>5, <3>1
      <3>3. CASE i < n
        <4>1. i \in 1..(Len(q) + Len(e)) /\ i <= Len(q)
          BY <1>1, <2>2, <2>5, <3>3
        <4> QED  BY <2>2, <3>2, <3>3, <4>1
      <3>4. CASE ~(i < n)
        BY <3>2, <3>4
      <3> QED  BY <3>3, <3>4
    <2> QED  BY <2>2, <2>4, <2>5, <2>6, <2>7
  <1> DEFINE z == (q \o u) \o r
  <1>2. /\ s \in Seq(Byte) /\ Len(s) = n + Len(r) /\ n \in Nat /\ Len(r) \in Nat
        /\ \A i \in 1..(n + Len(r)) : i # n => s[i] = IF i < n THEN q[i] ELSE r[i - n]
    BY <1>a, <1>1
  <1>3. /\ z \in Seq(Byte) /\ Len(z) = n + Len(r) /\ z[n] = d
        /\ \A i \in 1..(n + Len(r)) : i # n => z[i] = IF i < n THEN q[i] ELSE r[i - n]
    BY <1>a, <1>1
  <1> HIDE DEF z
  <1>4. Len(q) \in Nat /\ n \in 1..(n + Len(r)) /\ d \in Byte
    <2>1. 1 \in 1..Len(u)
      OBVIOUS
    <2>2. d \in Byte
      BY <1>a, <2>1, ElementOfSeq
    <2> QED  BY <1>a, <1>2, <2>2
  <1>5. DOMAIN s = 1..(n + Len(r)) /\ \A i \in 1..(n + Len(r)) : s[i] \in Byte
    BY <1>2, ElementOfSeq
  <1>6. y \in Seq(Byte) /\ Len(y) = n + Len(r) /\ \A i \in 1..(n + Len(r)) : y[i] = IF i = n THEN d ELSE s[i]
    <2>1. y = [i \in 1..(n + Len(r)) |-> IF i = n THEN d ELSE s[i]]
      <3>1. s = [i \in 1..(n + Len(r)) |-> s[i]]
        BY ONLY <1>2, <1>5
      <3> QED  BY <1>0, <1>4, <1>5, <3>1
    <2>2. y \in [1..(n + Len(r)) -> Byte]
      BY <1>4, <1>5, <2>1
    <2>3. n + Len(r) \in Nat
      BY <1>2
    <2>4. y \in Seq(Byte) /\ Len(y) = n + Len(r)
      <3> DEFINE k == n + Len(r)
      <3>1. k \in Nat /\ y \in [1..k -> Byte]
        BY <2>2, <2>3
      <3> HIDE DEF k
      <3>2. y \in Seq(Byte) /\ Len(y) = k
        BY ONLY <3>1
      <3> QED  BY <3>2 DEF k
    <2>5. \A i \in 1..(n + Len(r)) : y[i] = IF i = n THEN d ELSE s[i]
      BY ONLY <2>1
    <2> QED  BY <2>4, <2>5
  <1>7. \A i \in 1..(n + Len(r)) : y[i] = z[i]
    BY ONLY <1>2, <1>3, <1>6
  <1>8. y = z
    BY <1>3, <1>6, <1>7, SeqEqual
  <1> QED  BY <1>8 DEF y, z, s, n, d

------------------------------------------------------------------------------
(* Items as RlpStream writes them. *)

(* The kinds of header there are. *)
LEMMA Pairs == HeaderPair(Single, LongData) /\ HeaderPair(ShortList, LongList)
  BY DEF HeaderPair

(* Data that insert_size can say the size of has the header it should have. *)
LEMMA EncodedValue ==
    ASSUME NEW p, Sized(p)
    PROVE  /\ Len(p) = 1 /\ p[1] < Single => EncodeValue(p) = p
           /\ ~(Len(p) = 1 /\ p[1] < Single) => EncodeValue(p) = Header(Len(p), Single, LongData) \o p
  <1>1. Len(p) \in Nat /\ Narrowed(Len(p)) = Len(p)
    BY NarrowSize DEF Sized
  <1>2. Header(Len(p), Single, LongData) =
          IF Len(p) <= Short THEN <<Single + Len(p)>> ELSE LongHeader(Len(p))
    BY <1>1 DEF Header, LongHeader
  <1> QED  BY <1>2 DEF EncodeValue

(* What is encoded is bytes. *)
LEMMA EncodeTypes ==
    ASSUME NEW p, Sized(p)
    PROVE  /\ p \in Seq(Byte) /\ Len(p) \in Nat /\ Len(p) < BaseTo(Wide)
           /\ EncodeList(p) \in Seq(Byte) /\ EncodeValue(p) \in Seq(Byte)
           /\ Len(EncodeList(p)) = Len(Header(Len(p), ShortList, LongList)) + Len(p)
           /\ Header(Len(p), ShortList, LongList) \in Seq(Byte)
           /\ Header(Len(p), Single, LongData) \in Seq(Byte)
  <1>1. p \in Seq(Byte) /\ Len(p) \in Nat /\ Len(p) < BaseTo(Wide)
    BY NarrowSize DEF Sized
  <1> DEFINE h == Header(Len(p), ShortList, LongList)
             g == Header(Len(p), Single, LongData)
  <1>2. h \in Seq(Byte) /\ g \in Seq(Byte)
    BY <1>1, Pairs, HeaderFacts
  <1>3. EncodeList(p) = h \o p
    BY DEF EncodeList
  <1>4. EncodeValue(p) = p \/ EncodeValue(p) = g \o p
    BY EncodedValue
  <1> HIDE DEF h, g
  <1>5. h \o p \in Seq(Byte) /\ Len(h \o p) = Len(h) + Len(p) /\ g \o p \in Seq(Byte)
    BY <1>1, <1>2, Joined
  <1> QED  BY <1>1, <1>2, <1>3, <1>4, <1>5 DEF h, g

(* A set of items that holds the items of its lists. *)
Closed(I) == \A x \in I : WellMade(x, I)

(* The fields of a list, ... *)
LEMMA ListBytes ==
    ASSUME NEW kids
    PROVE  /\ ListItem(kids).bytes = EncodeList(BytesOf(kids))
           /\ ListItem(kids).kids = kids /\ ListItem(kids).data = <<>>
  BY DEF ListItem, BytesOf

(* ... and of data. *)
LEMMA DataBytes ==
    ASSUME NEW v
    PROVE  DataItem(v).bytes = EncodeValue(v) /\ DataItem(v).data = v /\ DataItem(v).kids = <<>>
  BY DEF DataItem

(* A well made item has bytes. *)
LEMMA WellMadeBytes ==
    ASSUME NEW I, NEW x, WellMade(x, I)
    PROVE  x.bytes \in Seq(Byte)
  <1>1. CASE Sized(x.data) /\ x = DataItem(x.data)
    <2>1. x.bytes = EncodeValue(x.data)
      BY <1>1, DataBytes
    <2> QED  BY <1>1, <2>1, EncodeTypes
  <1>2. CASE Sized(BytesOf(x.kids)) /\ x = ListItem(x.kids)
    <2>1. x.bytes = EncodeList(BytesOf(x.kids))
      BY <1>2, ListBytes
    <2> QED  BY <1>2, <2>1, EncodeTypes
  <1> QED  BY <1>1, <1>2 DEF WellMade

(* So have all items of a closed set. *)
LEMMA ClosedEncoded ==
    ASSUME NEW I, Closed(I)
    PROVE  Encoded(I)
  BY WellMadeBytes DEF Closed, Encoded

(* Well made with items of a set is well made with items of a larger one. *)
LEMMA WellMadeMore ==
    ASSUME NEW I, NEW J, I \subseteq J, NEW x, WellMade(x, I)
    PROVE  WellMade(x, J)
  <1>1. Seq(I) \subseteq Seq(J)
    BY SeqMonotonic
  <1> QED  BY <1>1 DEF WellMade

(* Two closed sets together are closed, ... *)
LEMMA ClosedJoined ==
    ASSUME NEW I, NEW J, Closed(I), Closed(J)
    PROVE  Closed(I \cup J)
  <1> SUFFICES ASSUME NEW x \in I \cup J PROVE WellMade(x, I \cup J)
    BY DEF Closed
  <1>1. CASE x \in I
    BY <1>1, WellMadeMore DEF Closed
  <1>2. CASE x \in J
    BY <1>2, WellMadeMore DEF Closed
  <1> QED  BY <1>1, <1>2

(* ... and so is one with another item made of its own. *)
LEMMA ClosedAdds ==
    ASSUME NEW I, Closed(I), NEW x, WellMade(x, I)
    PROVE  Closed(I \cup {x})
  <1> SUFFICES ASSUME NEW y \in I \cup {x} PROVE WellMade(y, I \cup {x})
    BY DEF Closed
  <1>1. CASE y \in I
    BY <1>1, WellMadeMore DEF Closed
  <1>2. CASE y = x
    BY <1>2, WellMadeMore
  <1> QED  BY <1>1, <1>2

(* insert_list_payload puts the header of a list in the place of its placeholder. *)
LEMMA PayloadInserted ==
    ASSUME NEW q \in Seq(Byte), NEW y, Sized(y), NEW b, b = (q \o << 0 >>) \o y, NEW at, at = Len(q) + 1
    PROVE  IF Len(y) <= Short
           THEN [b EXCEPT ![at] = ShortList + Len(y)] = q \o EncodeList(y)
           ELSE [((SubSeq(b, 1, at) \o BigEndian(Len(y))) \o SubSeq(b, at + 1, Len(b)))
                    EXCEPT ![at] = LongList + SizeBytes(Len(y))] = q \o EncodeList(y)
  <1>1. /\ y \in Seq(Byte) /\ Len(y) \in Nat /\ Len(y) < BaseTo(Wide) /\ EncodeList(y) \in Seq(Byte)
        /\ Header(Len(y), ShortList, LongList) \in Seq(Byte)
    BY EncodeTypes
  <1>2. 0 \in Byte /\ Base \in Nat /\ Short \in Nat /\ ShortList \in Nat /\ LongList \in Nat /\ Wide \in Nat
        /\ ShortList + Short < Base /\ LongList + Wide < Base
    BY FormatFacts DEF Byte
  <1>3. EncodeList(y) = Header(Len(y), ShortList, LongList) \o y
    BY DEF EncodeList
  <1>4. CASE Len(y) <= Short
    <2> DEFINE c == ShortList + Len(y)
               o == <<c>>
    <2>1. c \in Byte
      BY <1>1, <1>2, <1>4 DEF Byte
    <2>2. Header(Len(y), ShortList, LongList) = o
      BY <1>4 DEF Header
    <2> HIDE DEF c
    <2> DEFINE u == Put(b, at, c)
    <2> HIDE DEF u
    <2>3. u = (q \o <<c>>) \o y
      <3>1. u = Put(b, at, c)
        BY DEF u
      <3> DEFINE z == <<0>>
      <3>2. z \in Seq(Byte) /\ Len(z) = 1 /\ o \in Seq(Byte) /\ Len(o) = 1 /\ c = o[1]
        BY <1>2, <2>1
      <3>3. b = (q \o z) \o y
        OBVIOUS
      <3> HIDE DEF z, o
      <3>4. y \in Seq(Byte) /\ q \in Seq(Byte) /\ at = Len(q) + 1
        BY <1>1
      <3>5. Put(b, at, c) = (q \o o) \o y
        BY ONLY <3>2, <3>3, <3>4, ByteReplaced, ZenonT(40)
      <3> QED  BY <3>1, <3>5 DEF o
    <2>4. o \in Seq(Byte)
      BY <2>1
    <2>5. (q \o o) \o y = q \o (o \o y)
      <3> HIDE DEF o
      <3> QED  BY <1>1, <2>4, Associative
    <2>6. u = q \o EncodeList(y)
      BY <1>3, <2>2, <2>3, <2>5
    <2>7. [b EXCEPT ![at] = c] = q \o EncodeList(y)
      BY <2>6 DEF u, Put
    <2> QED  BY <1>4, <2>7 DEF c
  <1>5. CASE ~(Len(y) <= Short)
    <2> DEFINE k == SizeBytes(Len(y))
               e == BigEndian(Len(y))
               c == LongList + k
               o == <<c>>
               z == <<0>>
               a == q \o z
    <2>1. Header(Len(y), ShortList, LongList) = o \o e
      BY <1>5 DEF Header
    <2>2. e \in Seq(Byte) /\ k \in 0..Wide
      BY <1>1, BigEndianType, SizeFacts
    <2> HIDE DEF k, e
    <2>3. c \in Byte
      BY <1>2, <2>2 DEF Byte
    <2> HIDE DEF c
    <2>4. o \in Seq(Byte) /\ z \in Seq(Byte) /\ Len(z) = 1
      BY <1>2, <2>3
    <2>5. b = a \o y
      OBVIOUS
    <2>6. a \in Seq(Byte) /\ Len(a) = at
      <3> HIDE DEF z, a
      <3>1. a = q \o z
        BY DEF a
      <3>2. a \in Seq(Byte) /\ Len(a) = Len(q) + Len(z)
        BY ONLY q \in Seq(Byte), <2>4, <3>1, Joined
      <3> QED  BY <2>4, <3>2
    <2> HIDE DEF a
    <2>7. SubSeq(b, 1, at) = a /\ SubSeq(b, at + 1, Len(b)) = y
      BY <1>1, <2>5, <2>6, Parts
    <2> DEFINE s == (SubSeq(b, 1, at) \o e) \o SubSeq(b, at + 1, Len(b))
               r == e \o y
    <2>8. s = (a \o e) \o y
      BY <2>7
    <2>9. r \in Seq(Byte)
      BY <1>1, <2>2, Joined
    <2>10. (a \o e) \o y = a \o r
      BY <1>1, <2>2, <2>6, Associative
    <2> HIDE DEF s, r
    <2>11. s = (q \o <<0>>) \o r
      BY <2>8, <2>10 DEF a
    <2> DEFINE u == Put(s, at, c)
    <2> HIDE DEF u
    <2>12. u = (q \o <<c>>) \o r
      <3>1. u = Put(s, at, c)
        BY DEF u
      <3>2. z \in Seq(Byte) /\ Len(z) = 1 /\ o \in Seq(Byte) /\ Len(o) = 1 /\ c = o[1]
        BY <2>3, <2>4
      <3>3. s = (q \o z) \o r
        BY <2>11
      <3> HIDE DEF z, o
      <3>4. r \in Seq(Byte) /\ q \in Seq(Byte) /\ at = Len(q) + 1
        BY <2>9
      <3>5. Put(s, at, c) = (q \o o) \o r
        BY ONLY <3>2, <3>3, <3>4, ByteReplaced, ZenonT(40)
      <3> QED  BY <3>1, <3>5 DEF o
    <2> HIDE DEF o
    <2>13. (q \o o) \o r = q \o (o \o r)
      BY <2>4, <2>9, Associative
    <2>14. (o \o e) \o y = o \o r
      <3>1. (o \o e) \o y = o \o (e \o y)
        <4>1. o \in Seq(Byte) /\ e \in Seq(Byte) /\ y \in Seq(Byte)
          BY <1>1, <2>2, <2>4
        <4> QED  BY ONLY <4>1, Associative
      <3> QED  BY <3>1 DEF r
    <2>15. EncodeList(y) = o \o r
      BY <1>3, <2>1, <2>14
    <2>16. u = q \o EncodeList(y)
      BY <2>12, <2>13, <2>15 DEF o
    <2>17. [((SubSeq(b, 1, at) \o e) \o SubSeq(b, at + 1, Len(b))) EXCEPT ![at] = c] = q \o EncodeList(y)
      BY <2>16 DEF s, u, Put
    <2> QED  BY <1>5, <2>17 DEF c, k, e
  <1> QED  BY <1>4, <1>5

------------------------------------------------------------------------------
(* The buffer: what was there, and then the levels. *)

(* The buffer b is what was there before, s bytes, and the levels w of items, which are well made. *)
LaidOut(I, p, b, s, w) ==
    /\ Closed(I) /\ w \in Seq(Seq(I))
    /\ p \in Prior /\ s = Len(p) /\ b = p \o LayoutTo(w, Len(w))

Laid(b, s, w) == \E I, p : LaidOut(I, p, b, s, w)

(* The positions remembered for the open lists ul. *)
Positions(ul, w) == \A i \in 1..Len(ul) : ul[i].position = Len(Below(w, i)) + i

(***************************************************************************)
(* Items behind the last one of the innermost level go to the end of the   *)
(* buffer.                                                                 *)
(***************************************************************************)
LEMMA LaidGrows ==
    ASSUME NEW I, Closed(I), NEW p \in Prior, NEW w \in Seq(Seq(I)), NEW v \in Seq(Seq(I)),
           NEW d \in 1..Len(w), d = Len(v), \A j \in 1..(d - 1) : v[j] = w[j],
           NEW items \in Seq(I), v[d] = w[d] \o items,
           NEW b, b = (p \o LayoutTo(w, d)) \o BytesOf(items)
    PROVE  LaidOut(I, p, b, Len(p), v)
  <1>1. Encoded(I) /\ p \in Seq(Byte)
    BY ClosedEncoded, DataAssumption
  <1>2. d \in Nat /\ d <= Len(v) /\ d \in 0..Len(w)
    OBVIOUS
  <1> DEFINE l == LayoutTo(w, d)
             y == BytesOf(items)
  <1>3. LayoutTo(v, d) = l \o y /\ y \in Seq(Byte)
    BY <1>1, <1>2, LastLevelGrows
  <1>4. l \in Seq(Byte)
    BY <1>1, <1>2, LayoutType
  <1>5. b = (p \o l) \o y
    OBVIOUS
  <1> HIDE DEF l, y
  <1>6. (p \o l) \o y = p \o (l \o y)
    BY ONLY <1>1, <1>3, <1>4, Associative
  <1>7. b = p \o LayoutTo(v, d)
    BY ONLY <1>3, <1>5, <1>6
  <1> QED  BY <1>7 DEF LaidOut

(* The history of an append says so. *)
LEMMA LaidWrote ==
    ASSUME NEW b, NEW s, NEW w, Laid(b, s, w), Len(w) # 0, NEW J, Closed(J), NEW items \in Seq(J),
           NEW w2, w2 = [w EXCEPT ![Len(w)] = @ \o items], NEW b2, b2 = b \o BytesOf(items)
    PROVE  Laid(b2, s, w2)
  <1>1. PICK I, p : LaidOut(I, p, b, s, w)
    BY DEF Laid
  <1> DEFINE K == I \cup J
             T == Seq(K)
             m == Len(w)
  <1>2. /\ Closed(I) /\ w \in Seq(Seq(I)) /\ p \in Prior /\ s = Len(p)
        /\ b = p \o LayoutTo(w, m)
    BY <1>1 DEF LaidOut
  <1>3. Closed(K) /\ w \in Seq(T) /\ items \in T
    <2>1. Closed(K)
      BY <1>2, ClosedJoined
    <2>2. w \in Seq(Seq(K))
      BY <1>2, SeqOfLarger
    <2>3. items \in Seq(K)
      BY SeqMonotonic
    <2> QED  BY <2>1, <2>2, <2>3
  <1>4. m \in Nat /\ m \in 1..m /\ m = Len(w)
    BY <1>2
  <1>5. w[m] \in T /\ w[m] \o items \in T
    <2>1. w[m] \in T
      BY <1>3, <1>4, ElementOfSeq
    <2> HIDE DEF K
    <2> QED  BY <1>3, <2>1, ConcatProperties
  <1>6. w2 = [w EXCEPT ![m] = w[m] \o items]
    OBVIOUS
  <1> HIDE DEF T, m
  <1>7. /\ w2 \in Seq(T) /\ Len(w2) = m
        /\ \A j \in 1..m : w2[j] = IF j = m THEN w[m] \o items ELSE w[j]
    BY ONLY <1>3, <1>4, <1>5, <1>6, ExceptSeq
  <1>8. w2[m] = w[m] \o items /\ \A j \in 1..(m - 1) : w2[j] = w[j]
    <2>1. \A j \in 1..(m - 1) : j \in 1..m /\ j # m
      BY <1>4
    <2> QED  BY <1>4, <1>7, <2>1
  <1>9. b2 = (p \o LayoutTo(w, m)) \o BytesOf(items)
    BY <1>2
  <1>10. /\ w \in Seq(Seq(K)) /\ w2 \in Seq(Seq(K)) /\ items \in Seq(K) /\ m \in 1..Len(w) /\ m = Len(w2)
    BY <1>3, <1>4, <1>7 DEF T
  <1> HIDE DEF K
  <1>11. LaidOut(K, p, b2, Len(p), w2)
    BY ONLY <1>2, <1>3, <1>8, <1>9, <1>10, LaidGrows
  <1> QED  BY <1>2, <1>11 DEF Laid

(* The parts of a buffer that is laid out, and their sizes. *)
LEMMA LaidFacts ==
    ASSUME NEW I, NEW p, NEW b, NEW s, NEW w, LaidOut(I, p, b, s, w), Len(w) # 0
    PROVE  /\ Closed(I) /\ Encoded(I) /\ w \in Seq(Seq(I)) /\ p \in Seq(Byte) /\ s = Len(p) /\ s \in Nat
           /\ Len(w) \in Nat \ {0}
           /\ LayoutTo(w, Len(w)) \in Seq(Byte) /\ b = p \o LayoutTo(w, Len(w))
           /\ b \in Seq(Byte) /\ Len(b) \in Nat /\ Len(b) = s + Len(LayoutTo(w, Len(w)))
           /\ Len(Below(w, Len(w))) \in Nat
           /\ Len(b) - s = Len(Below(w, Len(w))) + Len(w) - 1
  <1> DEFINE m == Len(w)
             l == LayoutTo(w, m)
  <1>1. /\ Closed(I) /\ w \in Seq(Seq(I)) /\ p \in Prior /\ s = Len(p) /\ b = p \o l
    BY DEF LaidOut
  <1>2. Encoded(I) /\ p \in Seq(Byte) /\ m \in Nat \ {0}
    BY <1>1, ClosedEncoded, DataAssumption
  <1>3. m \in 0..Len(w) /\ m \in 1..Len(w)
    BY <1>2
  <1>4. l \in Seq(Byte) /\ Len(Below(w, m)) \in Nat /\ Len(l) \in Nat
    BY <1>1, <1>2, <1>3, LayoutType
  <1>5. Len(l) = Len(Below(w, m)) + m - 1
    BY <1>1, <1>2, <1>3, LayoutLength
  <1> HIDE DEF l
  <1>6. b \in Seq(Byte) /\ Len(b) = Len(p) + Len(l) /\ Len(p) \in Nat
    BY ONLY <1>1, <1>2, <1>4, Joined
  <1>7. Len(b) \in Nat /\ Len(b) - s = Len(Below(w, m)) + m - 1
    BY ONLY <1>1, <1>2, <1>4, <1>5, <1>6
  <1> QED  BY <1>1, <1>2, <1>4, <1>6, <1>7 DEF l

(* A placeholder at the end opens a level. *)
LEMMA LaidOpened ==
    ASSUME NEW b, NEW s, NEW w, Laid(b, s, w), Len(w) # 0,
           NEW w2, w2 = Append(w, <<>>), NEW b2, b2 = Append(b, 0)
    PROVE  Laid(b2, s, w2)
  <1>1. PICK I, p : LaidOut(I, p, b, s, w)
    BY DEF Laid
  <1> DEFINE m == Len(w)
             l == LayoutTo(w, m)
             z == <<0>>
  <1>2. /\ Closed(I) /\ Encoded(I) /\ w \in Seq(Seq(I)) /\ p \in Seq(Byte) /\ s = Len(p)
        /\ m \in Nat \ {0} /\ l \in Seq(Byte) /\ b = p \o l /\ b \in Seq(Byte)
        /\ Len(Below(w, m)) \in Nat /\ Len(b) - s = Len(Below(w, m)) + m - 1
    <2>1. LaidOut(I, p, b, s, w) /\ Len(w) # 0
      BY <1>1
    <2> QED  BY ONLY <2>1, LaidFacts DEF m, l
  <1>3. p \in Prior
    BY <1>1 DEF LaidOut
  <1>4. /\ w2 \in Seq(Seq(I)) /\ Len(w2) = m + 1
        /\ w2[m + 1] = <<>> /\ \A i \in 1..m : w2[i] = w[i]
    <2> DEFINE T == Seq(I)
    <2>1. <<>> \in T /\ w \in Seq(T)
      BY <1>2
    <2> HIDE DEF T
    <2>2. /\ w2 \in Seq(T) /\ Len(w2) = m + 1
          /\ w2[m + 1] = <<>> /\ \A i \in 1..m : w2[i] = w[i]
      BY <2>1, AppendProperties
    <2> QED  BY <2>2 DEF T
  <1>5. z \in Seq(Byte) /\ b2 = b \o z
    <2>1. 0 \in Byte
      BY FormatFacts DEF Byte
    <2>2. z \in Seq(Byte)
      BY <2>1
    <2>3. b2 = Append(b, 0) /\ b \in Seq(Byte)
      BY <1>2
    <2>4. Append(b, 0) = b \o <<0>>
      BY ONLY <2>1, <2>3, AppendIsConcat
    <2> QED  BY <2>2, <2>3, <2>4
  <1> HIDE DEF m
  <1>6. LayoutTo(w2, m) = l
    BY <1>2, <1>4, SameBelow
  <1>7. Level(w2, m + 1) = z
    <2>1. m + 1 # 1
      BY <1>2
    <2>2. Level(w2, m + 1) = z \o BytesOf(<<>>)
      BY <1>4, <2>1 DEF Level
    <2>3. z \o <<>> = z
      BY <1>5, ConcatEmptySeq
    <2> QED  BY <2>2, <2>3, BytesNone
  <1>8. LayoutTo(w2, m + 1) = l \o z
    <2>1. m \in Nat /\ m < Len(w2)
      BY <1>2, <1>4
    <2>2. LayoutTo(w2, m + 1) = LayoutTo(w2, m) \o Level(w2, m + 1)
      BY <1>2, <1>4, <2>1, LayoutStep
    <2> QED  BY <1>6, <1>7, <2>2
  <1> HIDE DEF l, z
  <1>9. (p \o l) \o z = p \o (l \o z)
    <2>1. p \in Seq(Byte) /\ l \in Seq(Byte) /\ z \in Seq(Byte)
      BY ONLY <1>2, <1>5
    <2> QED  BY ONLY <2>1, Associative, Zenon
  <1>10. b2 = p \o LayoutTo(w2, Len(w2))
    BY <1>2, <1>4, <1>5, <1>8, <1>9
  <1> QED  BY <1>2, <1>3, <1>4, <1>10 DEF Laid, LaidOut

(* The header of a list of n bytes put in for its placeholder, and its level made an item. *)
Inserted(b, at, n) ==
    IF n <= Short THEN [b EXCEPT ![at] = ShortList + n]
    ELSE [((SubSeq(b, 1, at) \o BigEndian(n)) \o SubSeq(b, at + 1, Len(b)))
             EXCEPT ![at] = LongList + SizeBytes(n)]

Closing(w, m, x) == [i \in 1..m |-> IF i = m THEN Append(w[i], x) ELSE w[i]]

(***************************************************************************)
(* With its header in the place of the placeholder, a level is an item of  *)
(* the one before.                                                         *)
(***************************************************************************)
LEMMA LaidFinished ==
    ASSUME NEW b, NEW s, NEW w, Laid(b, s, w), NEW m \in Nat \ {0}, Len(w) = m + 1, Len(b) < BaseTo(Narrow),
           NEW x, x = ListItem(w[m + 1]), NEW pos, pos = Len(Below(w, m)) + m,
           NEW n, n = (Len(b) - s) - pos, NEW at, at = s + pos
    PROVE  Laid(Inserted(b, at, n), s, Closing(w, m, x)) /\ n \in Nat /\ n <= Len(b)
  <1> DEFINE w2 == Closing(w, m, x)
             b2 == Inserted(b, at, n)
  <1>1. PICK I, p : LaidOut(I, p, b, s, w)
    BY DEF Laid
  <1>b. Len(w) # 0
    OBVIOUS
  <1>a. /\ Closed(I) /\ Encoded(I) /\ w \in Seq(Seq(I)) /\ p \in Seq(Byte) /\ s = Len(p) /\ s \in Nat
        /\ b = p \o LayoutTo(w, Len(w)) /\ b \in Seq(Byte) /\ Len(b) \in Nat
    BY ONLY <1>1, <1>b, LaidFacts
  <1>0. m \in 1..m /\ w2 = [i \in 1..m |-> IF i = m THEN Append(w[i], x) ELSE w[i]]
    BY DEF Closing
  <1>c. b2 = IF n <= Short THEN [b EXCEPT ![at] = ShortList + n]
             ELSE [((SubSeq(b, 1, at) \o BigEndian(n)) \o SubSeq(b, at + 1, Len(b)))
                      EXCEPT ![at] = LongList + SizeBytes(n)]
    BY DEF Inserted
  <1> HIDE DEF w2, b2
  <1> DEFINE k == m + 1
             l == LayoutTo(w, m)
             y == BytesOf(w[k])
             q == p \o l
             z == <<0>>
  <1>2. /\ Closed(I) /\ Encoded(I) /\ w \in Seq(Seq(I)) /\ p \in Seq(Byte) /\ s = Len(p) /\ s \in Nat
        /\ b = p \o LayoutTo(w, k) /\ b \in Seq(Byte) /\ Len(b) \in Nat
    <2>1. Len(w) # 0 /\ Len(w) = k
      OBVIOUS
    <2> HIDE DEF k
    <2> QED  BY ONLY <1>a, <2>1
  <1>3. p \in Prior
    BY <1>1 DEF LaidOut
  <1>4. m \in 0..Len(w) /\ m \in 1..Len(w) /\ m < Len(w) /\ k \in 1..Len(w) /\ k # 1 /\ m \in Nat /\ k \in Nat
    OBVIOUS
  <1>5. l \in Seq(Byte) /\ Len(l) \in Nat /\ Len(Below(w, m)) \in Nat /\ Len(l) = Len(Below(w, m)) + m - 1
    BY <1>2, <1>4, LayoutType, LayoutLength
  <1>6. /\ w[k] \in Seq(I) /\ y \in Seq(Byte) /\ Len(y) \in Nat /\ Level(w, k) = z \o y
    BY <1>2, <1>4, LevelType
  <1>7. LayoutTo(w, k) = l \o (z \o y)
    <2>1. LayoutTo(w, m + 1) = LayoutTo(w, m) \o Level(w, m + 1)
      BY <1>2, <1>4, LayoutStep
    <2> QED  BY <1>6, <2>1
  <1>8. z \in Seq(Byte) /\ Len(z) = 1
    BY FormatFacts DEF Byte
  <1>9. q \in Seq(Byte) /\ Len(q) = s + Len(l)
    BY <1>2, <1>5, Joined
  <1> HIDE DEF k, l, y, z
  <1>10. b = (q \o z) \o y
    <2> DEFINE t == z \o y
    <2>1. t \in Seq(Byte)
      BY <1>6, <1>8, Joined
    <2>2. b = p \o (l \o t)
      BY <1>2, <1>7
    <2> HIDE DEF t
    <2>3. (p \o l) \o t = p \o (l \o t)
      <3>1. p \in Seq(Byte) /\ l \in Seq(Byte) /\ t \in Seq(Byte)
        BY ONLY <1>2, <1>5, <2>1
      <3> QED  BY ONLY <3>1, Associative, Zenon
    <2>4. b = q \o t
      BY <2>2, <2>3
    <2> HIDE DEF q
    <2>5. (q \o z) \o y = q \o (z \o y)
      BY ONLY <1>6, <1>8, <1>9, Associative
    <2> QED  BY <2>4, <2>5 DEF t
  <1>11. at = Len(q) + 1
    <2> HIDE DEF q
    <2> QED  BY <1>2, <1>5, <1>9
  <1>12. n = Len(y) /\ Len(y) <= Len(b)
    <2> DEFINE t == q \o z
    <2> HIDE DEF q
    <2>1. t \in Seq(Byte) /\ Len(t) = Len(q) + Len(z)
      BY <1>8, <1>9, Joined
    <2>2. b = t \o y
      BY <1>10
    <2> HIDE DEF t
    <2>3. Len(b) = Len(t) + Len(y)
      BY ONLY <1>6, <2>1, <2>2, Joined
    <2> QED  BY <1>2, <1>5, <1>6, <1>8, <1>9, <2>1, <2>3
  <1>13. Sized(y)
    <2>1. BaseTo(Narrow) \in Nat
      BY FormatAssumption, BaseType
    <2> QED  BY <1>2, <1>6, <1>12, <2>1 DEF Sized
  <1>14. b2 = q \o EncodeList(y)
    <2>1. b = (q \o <<0>>) \o y
      BY <1>10 DEF z
    <2> HIDE DEF q
    <2>2. IF Len(y) <= Short
          THEN [b EXCEPT ![at] = ShortList + Len(y)] = q \o EncodeList(y)
          ELSE [((SubSeq(b, 1, at) \o BigEndian(Len(y))) \o SubSeq(b, at + 1, Len(b)))
                    EXCEPT ![at] = LongList + SizeBytes(Len(y))] = q \o EncodeList(y)
      BY ONLY <1>9, <1>11, <1>13, <2>1, PayloadInserted
    <2>3. n = Len(y)
      BY <1>12
    <2>4. b2 = IF Len(y) <= Short THEN [b EXCEPT ![at] = ShortList + Len(y)]
               ELSE [((SubSeq(b, 1, at) \o BigEndian(Len(y))) \o SubSeq(b, at + 1, Len(b)))
                                EXCEPT ![at] = LongList + SizeBytes(Len(y))]
      BY <1>c, <2>3
    <2> QED  BY ONLY <2>2, <2>4, Zenon
  <1> DEFINE J == I \cup {x}
             one == <<x>>
  <1>15. x.bytes = EncodeList(y) /\ x.kids = w[k]
    BY ListBytes DEF y, k
  <1>16. WellMade(x, I)
    <2>1. x = ListItem(x.kids) /\ BytesOf(x.kids) = y
      BY <1>15 DEF y, k
    <2> QED  BY <1>6, <1>13, <1>15, <2>1 DEF WellMade
  <1>17. Closed(J) /\ Encoded(J) /\ x \in J
    BY <1>2, <1>16, ClosedAdds, ClosedEncoded
  <1>18. BytesOf(one) = EncodeList(y) /\ one \in Seq(J)
    <2>1. one \in Seq(J)
      BY <1>17
    <2> QED  BY <1>15, <1>17, <2>1, BytesOne
  <1>19. w \in Seq(Seq(J)) /\ w[m] \in Seq(J)
    <2>1. w \in Seq(Seq(J))
      BY <1>2, SeqOfLarger
    <2> DEFINE T == Seq(J)
    <2> HIDE DEF T
    <2>2. w \in Seq(T)
      BY <2>1 DEF T
    <2>3. w[m] \in T
      BY <1>4, <2>2, ElementOfSeq
    <2> QED  BY <2>1, <2>3 DEF T
  <1>20. Append(w[m], x) = w[m] \o one /\ Append(w[m], x) \in Seq(J)
    <2> HIDE DEF J
    <2> QED  BY <1>17, <1>19, AppendIsConcat, AppendProperties
  <1>21. w2 \in Seq(Seq(J)) /\ Len(w2) = m /\ w2[m] = w[m] \o one /\ \A j \in 1..(m - 1) : w2[j] = w[j]
    <2> DEFINE T == Seq(J)
    <2>1. \A i \in 1..m : w[i] \in T
      <3>1. w \in Seq(T)
        BY <1>19
      <3> HIDE DEF T
      <3> QED  BY <1>4, <3>1, ElementOfSeq
    <2>2. Append(w[m], x) \in T
      BY <1>20
    <2> HIDE DEF T
    <2>3. w2 \in [1..m -> T]
      BY <1>0, <2>1, <2>2
    <2>4. w2 \in Seq(T) /\ Len(w2) = m
      BY <2>3, FunctionIsSeq
    <2>5. w2[m] = Append(w[m], x) /\ \A j \in 1..(m - 1) : w2[j] = w[j]
      BY ONLY <1>0, <1>4
    <2> QED  BY <1>20, <2>4, <2>5 DEF T
  <1>22. b2 = (p \o LayoutTo(w, m)) \o BytesOf(one)
    BY <1>14, <1>18 DEF l
  <1> HIDE DEF J, one
  <1>23. LaidOut(J, p, b2, Len(p), w2)
    <2>1. /\ Closed(J) /\ w \in Seq(Seq(J)) /\ w2 \in Seq(Seq(J)) /\ one \in Seq(J)
          /\ m = Len(w2) /\ w2[m] = w[m] \o one /\ \A j \in 1..(m - 1) : w2[j] = w[j]
          /\ b2 = (p \o LayoutTo(w, m)) \o BytesOf(one)
      BY <1>17, <1>18, <1>19, <1>21, <1>22 DEF J, one
    <2>2. m \in 1..Len(w) /\ p \in Prior
      BY <1>3, <1>4
    <2> QED  BY ONLY <2>1, <2>2, LaidGrows
  <1>24. n \in Nat /\ n <= Len(b)
    BY <1>6, <1>12
  <1>25. Laid(Inserted(b, at, n), s, Closing(w, m, x))
    BY <1>2, <1>23 DEF Laid, b2, w2
  <1> QED  BY <1>24, <1>25

(* Where the next byte goes. *)
LEMMA LaidLength ==
    ASSUME NEW b, NEW s, NEW w, Laid(b, s, w), Len(w) # 0
    PROVE  (Len(b) - s) + 1 = Len(Below(w, Len(w))) + Len(w)
  <1>1. PICK I, p : LaidOut(I, p, b, s, w)
    BY DEF Laid
  <1> DEFINE k == Len(Below(w, Len(w)))
             m == Len(w)
  <1>2. s \in Nat /\ m \in Nat /\ Len(b) \in Nat /\ k \in Nat /\ Len(b) - s = k + m - 1
    BY <1>1, LaidFacts
  <1> HIDE DEF k, m
  <1>3. (Len(b) - s) + 1 = k + m
    BY ONLY <1>2
  <1> QED  BY <1>3 DEF k, m

------------------------------------------------------------------------------
(* The inductive invariant of the stream. *)

(* The inductive invariant; StreamExact follows from it. *)
StreamInv ==
    /\ CountInv
    /\ Laid(buffer, start_pos, written)
    /\ Positions(unfinished_lists, written)
    /\ finished_list \in BOOLEAN

(* The buffer's length fits the u32 that insert_size takes a size as: less than 4 GiB. *)
BufferFits == Len(buffer) < BaseTo(Narrow)

(* Nothing written behind what was there. *)
LEMMA NothingWritten ==
    ASSUME NEW p \in Prior
    PROVE  Laid(p, Len(p), << <<>> >>)
  <1> DEFINE w == << <<>> >>
             I == {}
  <1>1. Closed(I) /\ Encoded(I)
    BY DEF Closed, Encoded
  <1>2. w \in Seq(Seq(I)) /\ Len(w) = 1 /\ w[1] = <<>>
    <2>1. <<>> \in Seq(I)
      OBVIOUS
    <2> DEFINE T == Seq(I)
    <2>2. <<>> \in T
      BY <2>1
    <2> HIDE DEF T
    <2>3. w \in Seq(T)
      BY <2>2
    <2> QED  BY <2>3 DEF T
  <1>3. p \in Seq(Byte)
    BY DataAssumption
  <1> HIDE DEF w, I
  <1>4. LayoutTo(w, 1) = <<>>
    <2>1. LayoutTo(w, 0 + 1) = LayoutTo(w, 0) \o Level(w, 0 + 1)
      <3>1. 0 \in Nat /\ 0 < Len(w)
        BY <1>2
      <3> QED  BY <1>1, <1>2, <3>1, LayoutStep
    <2>2. Level(w, 1) = <<>>
      <3>1. 1 \in 1..Len(w)
        BY <1>2
      <3>2. Level(w, 1) = BytesOf(w[1])
        BY <1>1, <1>2, <3>1, LevelType
      <3> QED  BY <1>2, <3>2, BytesNone
    <2>3. LayoutTo(w, 0) = <<>>
      BY NothingBelow
    <2>4. <<>> \o <<>> = <<>>
      <3>1. <<>> \in Seq(Byte)
        OBVIOUS
      <3> QED  BY <3>1, ConcatEmptySeq
    <2>5. 0 + 1 = 1
      OBVIOUS
    <2>6. LayoutTo(w, 1) = LayoutTo(w, 0) \o Level(w, 1)
      BY ONLY <2>1, <2>5
    <2> QED  BY ONLY <2>2, <2>3, <2>4, <2>6
  <1>5. p = p \o LayoutTo(w, Len(w))
    BY <1>2, <1>3, <1>4, ConcatEmptySeq
  <1>6. LaidOut(I, p, p, Len(p), w)
    BY <1>1, <1>2, <1>5 DEF LaidOut
  <1> QED  BY <1>6 DEF Laid, w

(* Items of one byte: no data, and a list of nothing. *)
LEMMA EmptyItems ==
    /\ Sized(<<>>) /\ BytesOf(<<>>) = <<>>
    /\ EncodeValue(<<>>) = <<Single>> /\ EncodeList(<<>>) = <<ShortList>>
  <1>1. <<>> \in Seq(Byte) /\ Len(<<>>) = 0
    OBVIOUS
  <1>2. BaseTo(Narrow) \in Nat \ {0}
    BY FormatAssumption, BaseType
  <1>3. Sized(<<>>)
    BY <1>1, <1>2 DEF Sized
  <1>4. Header(0, Single, LongData) = <<Single>> /\ Header(0, ShortList, LongList) = <<ShortList>>
    <2>1. 0 <= Short /\ Single + 0 = Single /\ ShortList + 0 = ShortList
      BY FormatFacts
    <2> QED  BY <2>1 DEF Header
  <1>5. <<Single>> \in Seq(Byte) /\ <<ShortList>> \in Seq(Byte)
    <2>1. Single \in Byte /\ ShortList \in Byte
      BY FormatFacts DEF Byte
    <2> QED  BY <2>1
  <1>6. <<Single>> \o <<>> = <<Single>> /\ <<ShortList>> \o <<>> = <<ShortList>>
    BY <1>5, ConcatEmptySeq
  <1>7. EncodeList(<<>>) = <<ShortList>>
    BY <1>1, <1>4, <1>6 DEF EncodeList
  <1>8. EncodeValue(<<>>) = <<Single>>
    <2>1. ~(Len(<<>>) = 1)
      BY <1>1
    <2> QED  BY <1>3, <1>1, <1>4, <1>6, <2>1, EncodedValue
  <1> QED  BY <1>3, <1>7, <1>8, BytesNone

(* One item in a set of its own. *)
LEMMA OneItem ==
    ASSUME NEW x, WellMade(x, {})
    PROVE  Closed({x}) /\ <<x>> \in Seq({x}) /\ BytesOf(<<x>>) = x.bytes
  <1>1. Closed({x})
    <2>1. {} \subseteq {x}
      OBVIOUS
    <2>2. WellMade(x, {x})
      BY <2>1, WellMadeMore
    <2> QED  BY <2>2 DEF Closed
  <1>2. x \in {x} /\ Encoded({x})
    BY <1>1, ClosedEncoded
  <1>3. <<x>> \in Seq({x})
    OBVIOUS
  <1> QED  BY <1>1, <1>2, <1>3, BytesOne

(* What the invariant says of the types. *)
LEMMA Shape ==
    ASSUME StreamInv
    PROVE  /\ Lists(unfinished_lists, written) /\ Depth \in Nat /\ Len(written) = Depth + 1 /\ Len(written) # 0
           /\ Depth = Len(unfinished_lists)
           /\ buffer \in Seq(Byte) /\ start_pos \in Nat /\ Len(buffer) \in Nat /\ start_pos <= Len(buffer)
  <1>1. Lists(unfinished_lists, written)
    BY DEF StreamInv, CountInv
  <1>2. Depth \in Nat /\ Len(written) = Depth + 1 /\ Len(written) # 0
    BY <1>1, ListTypes DEF Depth
  <1>3. PICK I, p : LaidOut(I, p, buffer, start_pos, written)
    BY DEF StreamInv, Laid
  <1> DEFINE k == Len(LayoutTo(written, Len(written)))
  <1>4. /\ buffer \in Seq(Byte) /\ start_pos \in Nat /\ Len(buffer) \in Nat
        /\ LayoutTo(written, Len(written)) \in Seq(Byte) /\ Len(buffer) = start_pos + k
    BY <1>2, <1>3, LaidFacts
  <1>5. k \in Nat
    BY <1>4
  <1> HIDE DEF k
  <1>6. start_pos <= Len(buffer)
    BY <1>4, <1>5
  <1> QED  BY <1>1, <1>2, <1>4, <1>6 DEF Depth

(* What a step leaves of the layout. *)
LaidInv == Laid(buffer, start_pos, written) /\ Positions(unfinished_lists, written)

(* Data, raw items and the empty list go to the end. *)
LEMMA WriteLays ==
    ASSUME StreamInv, NEW J, Closed(J), NEW items \in Seq(J),
           buffer' = buffer \o BytesOf(items), written' = Wrote(items),
           unfinished_lists' = unfinished_lists, start_pos' = start_pos
    PROVE  LaidInv'
  <1>1. /\ Depth \in Nat /\ Len(written) = Depth + 1 /\ Len(written) # 0 /\ Depth = Len(unfinished_lists)
    BY Shape
  <1>2. Laid(buffer, start_pos, written) /\ Positions(unfinished_lists, written)
    BY DEF StreamInv
  <1>3. written' = [written EXCEPT ![Len(written)] = @ \o items]
    BY DEF Wrote
  <1>4. Laid(buffer', start_pos, written')
    BY <1>1, <1>2, <1>3, LaidWrote
  <1>5. Len(written) - 1 = Len(unfinished_lists)
    BY <1>1
  <1>7. DOMAIN written = 1..Len(written)
    BY ListTypes, Shape
  <1>8. ASSUME NEW i \in 1..Len(unfinished_lists) PROVE Below(written', i) = Below(written, i)
    <2>1. \A j \in 1..i : j \in DOMAIN written /\ j # Len(written)
      BY <1>1, <1>5, <1>7
    <2>2. i \in Nat /\ \A j \in 1..i : written'[j] = written[j]
      BY ONLY i \in 1..Len(unfinished_lists), <1>3, <2>1
    <2> QED  BY <2>2, SameBelow
  <1>6. Positions(unfinished_lists, written')
    BY <1>2, <1>8 DEF Positions
  <1> QED  BY <1>4, <1>6 DEF LaidInv

(* begin_list of a list that is not empty. *)
LEMMA OpenLays ==
    ASSUME StreamInv, NEW max, Open(max), start_pos' = start_pos
    PROVE  LaidInv'
  <1> DEFINE m == Depth
             x == ListInfo(TotalWritten + 1, max)
  <1>1. /\ m \in Nat /\ Len(written) = m + 1 /\ Len(written) # 0 /\ m = Len(unfinished_lists)
        /\ Lists(unfinished_lists, written)
    BY Shape
  <1>2. Laid(buffer, start_pos, written) /\ Positions(unfinished_lists, written)
    BY DEF StreamInv
  <1>3. /\ buffer' = Append(buffer, 0) /\ written' = Append(written, <<>>)
        /\ unfinished_lists' = Append(unfinished_lists, x)
    BY DEF Open
  <1>4. /\ Laid(buffer', start_pos, written')
        /\ (Len(buffer) - start_pos) + 1 = Len(Below(written, Len(written))) + Len(written)
    BY <1>1, <1>2, <1>3, LaidOpened, LaidLength
  <1>5. PICK P : unfinished_lists \in Seq([position : P, current : Nat, max : SUBSET Int])
    BY <1>1 DEF Lists
  <1>6. x.position = (Len(buffer) - start_pos) + 1
    BY DEF ListInfo, TotalWritten
  <1> HIDE DEF m, x
  <1>7. /\ Len(unfinished_lists') = m + 1
        /\ \A i \in 1..(m + 1) : unfinished_lists'[i] = IF i = m + 1 THEN x ELSE unfinished_lists[i]
    BY ONLY <1>1, <1>3, <1>5
  <1>8. ASSUME NEW i \in 1..(m + 1) PROVE unfinished_lists'[i].position = Len(Below(written', i)) + i
    <2>1. Below(written', i) = Below(written, i)
      <3>1. PICK S : written \in Seq(S)
        BY <1>1 DEF Lists
      <3>2. \A j \in 1..Len(written) : written'[j] = written[j]
        BY ONLY <1>3, <3>1
      <3>3. i \in Nat /\ \A j \in 1..i : written'[j] = written[j]
        BY ONLY <1>1, <3>2, i \in 1..(m + 1)
      <3> QED  BY <3>3, SameBelow
    <2>2. CASE i = m + 1
      <3>1. unfinished_lists'[i] = x
        BY <1>7, <2>2
      <3>2. x.position = Len(Below(written, m + 1)) + (m + 1)
        BY ONLY <1>1, <1>4, <1>6
      <3> QED  BY ONLY <2>1, <2>2, <3>1, <3>2
    <2>3. CASE i # m + 1
      <3>1. i \in 1..m
        BY <1>1, <2>3
      <3>2. unfinished_lists'[i] = unfinished_lists[i]
        BY <1>7, <2>3
      <3> QED  BY <1>1, <1>2, <2>1, <3>1, <3>2 DEF Positions
    <2> QED  BY <2>2, <2>3
  <1>9. Positions(unfinished_lists', written')
    BY <1>7, <1>8 DEF Positions
  <1> QED  BY <1>4, <1>9 DEF LaidInv

(* A sequence without its last element. *)
LEMMA FrontOf ==
    ASSUME NEW S, NEW s \in Seq(S), s # <<>>
    PROVE  /\ Len(s) \in Nat \ {0} /\ Last(s) = s[Len(s)] /\ s[Len(s)] \in S
           /\ Front(s) \in Seq(S) /\ Len(Front(s)) = Len(s) - 1
           /\ \A i \in 1..(Len(s) - 1) : Front(s)[i] = s[i]
  <1>1. Len(s) \in Nat \ {0}
    BY EmptySeq
  <1> DEFINE n == Len(s) - 1
  <1>2. n \in Nat /\ Len(s) = n + 1
    BY <1>1
  <1> HIDE DEF n
  <1>3. Front(s) = SubSeq(s, 1, n)
    BY DEF Front, n
  <1>4. Last(s) = s[Len(s)]
    BY DEF Last
  <1>5. /\ SubSeq(s, 1, n) \in Seq(S) /\ Len(SubSeq(s, 1, n)) = n
        /\ \A i \in 1..n : SubSeq(s, 1, n)[i] = s[i]
        /\ s[n + 1] \in S
    BY <1>2, LastOff
  <1> QED  BY <1>1, <1>2, <1>3, <1>4, <1>5 DEF n

(***************************************************************************)
(* The last list is finished: insert_list_payload and the pop of its       *)
(* ListInfo.                                                               *)
(***************************************************************************)
LEMMA FinishLays ==
    ASSUME StreamInv, BufferFits, unfinished_lists # <<>>, NEW d, Finish(d), start_pos' = start_pos
    PROVE  LaidInv'
  <1> DEFINE m == Depth
             u == Last(unfinished_lists)
             x == ListItem(written[m + 1])
             pos == Len(Below(written, m)) + m
             n == (Len(buffer) - start_pos) - pos
             at == start_pos + pos
  <1>1. /\ m \in Nat /\ Len(written) = m + 1 /\ m = Len(unfinished_lists)
        /\ Lists(unfinished_lists, written)
    BY Shape
  <1>2. Laid(buffer, start_pos, written) /\ Positions(unfinished_lists, written)
    BY DEF StreamInv
  <1>3. /\ buffer' = InsertListPayload(u) /\ written' = Completed
        /\ unfinished_lists' = Front(unfinished_lists)
    BY DEF Finish
  <1>4. PICK P : unfinished_lists \in Seq([position : P, current : Nat, max : SUBSET Int])
    BY <1>1 DEF Lists
  <1>5. /\ m \in Nat \ {0} /\ u = unfinished_lists[m] /\ Len(unfinished_lists') = m - 1
        /\ \A i \in 1..(m - 1) : unfinished_lists'[i] = unfinished_lists[i]
    BY <1>1, <1>3, <1>4, FrontOf
  <1>6. u.position = pos
    <2>1. m \in 1..Len(unfinished_lists)
      BY <1>1, <1>5
    <2> QED  BY <1>2, <1>5, <2>1 DEF Positions
  <1>7. written' = [i \in 1..m |-> IF i = m THEN Append(written[i], x) ELSE written[i]]
    <2>1. Len(written) - 1 = m /\ Last(written) = written[m + 1]
      BY <1>1 DEF Last
    <2> QED  BY <1>3, <2>1 DEF Completed
  <1>9. Len(buffer) < BaseTo(Narrow)
    BY DEF BufferFits
  <1>a. /\ x = ListItem(written[m + 1]) /\ pos = Len(Below(written, m)) + m
        /\ n = (Len(buffer) - start_pos) - pos /\ at = start_pos + pos
    OBVIOUS
  <1>b. Laid(Inserted(buffer, at, n), start_pos, Closing(written, m, x)) /\ n \in Nat /\ n <= Len(buffer)
    <2> HIDE DEF x, pos, n, at, m, u
    <2> QED  BY ONLY <1>1, <1>2, <1>5, <1>9, <1>a, LaidFinished
  <1>c. Narrowed(n) = n
    <2>1. BaseTo(Narrow) \in Nat /\ Len(buffer) \in Nat
      <3>1. BaseTo(Narrow) \in Nat
        BY ONLY FormatAssumption, BaseType
      <3>2. Len(buffer) \in Nat
        BY Shape
      <3> QED  BY <3>1, <3>2
    <2>2. n < BaseTo(Narrow)
      <3> HIDE DEF n
      <3> QED  BY ONLY <1>9, <1>b, <2>1
    <2> HIDE DEF n
    <2> QED  BY ONLY <1>b, <2>2, NarrowSize
  <1>8. buffer' = IF n <= Short THEN [buffer EXCEPT ![at] = ShortList + n]
                  ELSE [((SubSeq(buffer, 1, at) \o BigEndian(n)) \o SubSeq(buffer, at + 1, Len(buffer)))
                           EXCEPT ![at] = LongList + SizeBytes(n)]
    BY <1>3, <1>6, <1>c DEF InsertListPayload, InsertSize, TotalWritten
  <1> HIDE DEF x, pos, n, at, m, u
  <1>10. Laid(buffer', start_pos, written')
    <2>1. Laid(Inserted(buffer, at, n), start_pos, Closing(written, m, x))
      BY <1>b
    <2>2. buffer' = Inserted(buffer, at, n)
      BY <1>8 DEF Inserted
    <2>3. written' = Closing(written, m, x)
      BY <1>7 DEF Closing
    <2> QED  BY <2>1, <2>2, <2>3
  <1>12. ASSUME NEW i \in 1..(m - 1) PROVE Below(written', i) = Below(written, i)
    <2>1. i \in Nat /\ \A j \in 1..i : written'[j] = written[j]
      BY ONLY <1>5, <1>7, i \in 1..(m - 1)
    <2> QED  BY <2>1, SameBelow
  <1>11. Positions(unfinished_lists', written')
    <2>1. \A i \in 1..(m - 1) : i \in 1..Len(unfinished_lists)
      BY <1>1
    <2> QED  BY <1>2, <1>5, <1>12, <2>1 DEF Positions
  <1> QED  BY <1>10, <1>11 DEF LaidInv

(* clear keeps what was there before. *)
LEMMA ClearLays ==
    ASSUME StreamInv, buffer' = SubSeq(buffer, 1, start_pos), start_pos' = start_pos,
           unfinished_lists' = <<>>, written' = << <<>> >>
    PROVE  LaidInv'
  <1>1. Len(written) # 0
    BY Shape
  <1>2. PICK I, p : LaidOut(I, p, buffer, start_pos, written)
    BY DEF StreamInv, Laid
  <1> DEFINE l == LayoutTo(written, Len(written))
  <1>3. p \in Seq(Byte) /\ start_pos = Len(p) /\ l \in Seq(Byte) /\ buffer = p \o l
    BY ONLY <1>1, <1>2, LaidFacts
  <1>4. p \in Prior
    BY <1>2 DEF LaidOut
  <1> HIDE DEF l
  <1>5. SubSeq(buffer, 1, Len(p)) = p
    BY ONLY <1>3, Parts
  <1>6. buffer' = p /\ start_pos' = Len(p)
    BY <1>3, <1>5
  <1>7. Laid(buffer', start_pos', written')
    BY <1>4, <1>6, NothingWritten
  <1>8. Positions(unfinished_lists', written')
    BY DEF Positions
  <1> QED  BY <1>7, <1>8 DEF LaidInv

(* note_appended, by whether the list is full. *)
LEMMA NoteLays ==
    ASSUME StreamInv, BufferFits, NoteAppended
    PROVE  LaidInv' /\ finished_list' \in BOOLEAN
  <1>1. PICK n \in noting :
          /\ UNCHANGED <<start_pos, frames, steps>>
          /\ \/ /\ unfinished_lists = <<>>
                /\ finished_list' = IF n.decided = {} THEN finished_list ELSE TRUE \in n.decided
                /\ UNCHANGED <<buffer, unfinished_lists, written>>
             \/ /\ unfinished_lists # <<>>
                /\ \/ /\ unfinished_lists' = [unfinished_lists EXCEPT ![Depth].current =
                                                 Last(unfinished_lists).current + n.items]
                      /\ finished_list' = (TRUE \in n.decided)
                      /\ UNCHANGED <<buffer, written>>
                   \/ /\ Finish(IF n.decided = {} THEN {TRUE} ELSE n.decided)
                      /\ UNCHANGED finished_list
    BY DEF NoteAppended
  <1>2. /\ LaidInv /\ finished_list \in BOOLEAN /\ start_pos' = start_pos
    BY <1>1 DEF StreamInv, LaidInv
  <1>3. CASE /\ finished_list' = IF n.decided = {} THEN finished_list ELSE TRUE \in n.decided
             /\ UNCHANGED <<buffer, unfinished_lists, written>>
    <2>1. finished_list' \in BOOLEAN
      <3>1. CASE n.decided = {}
        BY <1>2, <1>3, <3>1, Zenon
      <3>2. CASE n.decided # {}
        <4>1. finished_list' = (TRUE \in n.decided)
          BY <1>3, <3>2, Zenon
        <4> QED  BY ONLY <4>1
      <3> QED  BY <3>1, <3>2
    <2>2. LaidInv'
      BY <1>2, <1>3 DEF LaidInv
    <2> QED  BY <2>1, <2>2
  <1>4. CASE /\ unfinished_lists' = [unfinished_lists EXCEPT ![Depth].current =
                                        Last(unfinished_lists).current + n.items]
             /\ finished_list' = (TRUE \in n.decided) /\ UNCHANGED <<buffer, written>>
    <2>1. Lists(unfinished_lists, written) /\ Depth \in Nat /\ Depth = Len(unfinished_lists)
      BY Shape
    <2>2. PICK P : unfinished_lists \in Seq([position : P, current : Nat, max : SUBSET Int])
      BY <2>1 DEF Lists
    <2> DEFINE c == Last(unfinished_lists).current + n.items
    <2>a. unfinished_lists' = [unfinished_lists EXCEPT ![Depth] = [@ EXCEPT !.current = c]]
      BY <1>4
    <2> HIDE DEF c
    <2>3. Len(unfinished_lists') = Len(unfinished_lists)
      BY <2>a, <2>2
    <2>4. ASSUME NEW i \in 1..Len(unfinished_lists)
          PROVE  unfinished_lists'[i].position = unfinished_lists[i].position
      <3>1. i \in DOMAIN unfinished_lists /\ unfinished_lists[i] \in [position : P, current : Nat, max : SUBSET Int]
        <4> DEFINE R == [position : P, current : Nat, max : SUBSET Int]
        <4>1. unfinished_lists \in Seq(R)
          BY <2>2
        <4> HIDE DEF R
        <4>2. i \in DOMAIN unfinished_lists /\ unfinished_lists[i] \in R
          BY ONLY <4>1, i \in 1..Len(unfinished_lists), ElementOfSeq
        <4> QED  BY <4>2 DEF R
      <3>2. unfinished_lists'[i] = IF i = Depth THEN [unfinished_lists[i] EXCEPT !.current = c]
                                   ELSE unfinished_lists[i]
        BY <2>a, <3>1
      <3> QED  BY <3>1, <3>2
    <2>5. Positions(unfinished_lists', written)
      BY <1>2, <2>3, <2>4 DEF Positions, LaidInv
    <2>6. LaidInv'
      BY <1>2, <1>4, <2>5 DEF LaidInv
    <2> QED  BY <1>4, <2>6
  <1>5. CASE /\ unfinished_lists # <<>>
             /\ Finish(IF n.decided = {} THEN {TRUE} ELSE n.decided) /\ UNCHANGED finished_list
    BY <1>2, <1>5, FinishLays
  <1> QED  BY <1>1, <1>3, <1>4, <1>5

(* Every operation of the stream keeps the invariant while the buffer fits. *)
LEMMA StreamStep ==
    ASSUME StreamInv, BufferFits, [StreamNext]_streamVars
    PROVE  StreamInv'
  <1>1. CountInv'
    BY StreamKeeps DEF StreamInv
  <1>2. LaidInv /\ finished_list \in BOOLEAN
    BY DEF StreamInv, LaidInv
  <1> SUFFICES LaidInv' /\ finished_list' \in BOOLEAN
    BY <1>1 DEF StreamInv, LaidInv
  <1>3. CASE EnterAppend
    BY <1>2, <1>3 DEF EnterAppend, LaidInv
  <1>4. CASE LeaveAppend
    BY <1>2, <1>4 DEF LeaveAppend, LaidInv, stream
  <1>5. ASSUME NEW v \in Data, RlpAppendData(v) PROVE LaidInv' /\ finished_list' \in BOOLEAN
    <2> DEFINE x == DataItem(v)
    <2>1. WellMade(x, {}) /\ x.bytes = EncodeValue(v)
      BY DataAssumption, DataBytes DEF WellMade
    <2>2. /\ buffer' = buffer \o EncodeValue(v) /\ written' = Wrote(<<x>>)
          /\ unfinished_lists' = unfinished_lists /\ start_pos' = start_pos /\ finished_list' = finished_list
      BY <1>5 DEF RlpAppendData
    <2> HIDE DEF x
    <2>3. Closed({x}) /\ <<x>> \in Seq({x}) /\ BytesOf(<<x>>) = x.bytes
      BY <2>1, OneItem
    <2>4. buffer' = buffer \o BytesOf(<<x>>)
      BY <2>1, <2>2, <2>3
    <2>5. LaidInv'
      BY <2>2, <2>3, <2>4, WriteLays
    <2> QED  BY <1>2, <2>2, <2>5
  <1>6. CASE AppendEmptyData
    <2> DEFINE x == DataItem(<<>>)
    <2>1. WellMade(x, {}) /\ x.bytes = <<Single>>
      BY EmptyItems, DataBytes DEF WellMade
    <2>2. /\ buffer' = Append(buffer, Single) /\ written' = Wrote(<<x>>)
          /\ unfinished_lists' = unfinished_lists /\ start_pos' = start_pos /\ finished_list' = finished_list
      BY <1>6 DEF AppendEmptyData
    <2> HIDE DEF x
    <2>3. Closed({x}) /\ <<x>> \in Seq({x}) /\ BytesOf(<<x>>) = x.bytes
      BY <2>1, OneItem
    <2>4. buffer' = buffer \o BytesOf(<<x>>)
      <3>1. Single \in Byte /\ buffer \in Seq(Byte)
        BY FormatFacts, Shape DEF Byte
      <3>2. Append(buffer, Single) = buffer \o <<Single>>
        BY ONLY <3>1, AppendIsConcat
      <3> QED  BY <2>1, <2>2, <2>3, <3>2
    <2>5. LaidInv'
      BY <2>2, <2>3, <2>4, WriteLays
    <2> QED  BY <1>2, <2>2, <2>5
  <1>7. ASSUME NEW items \in Raw, AppendRaw(items) PROVE LaidInv' /\ finished_list' \in BOOLEAN
    <2>1. /\ buffer' = buffer \o BytesOf(items) /\ written' = Wrote(items)
          /\ unfinished_lists' = unfinished_lists /\ start_pos' = start_pos /\ finished_list' = finished_list
      BY <1>7 DEF AppendRaw
    <2>2. Closed(RawItems) /\ items \in Seq(RawItems)
      BY RawAssumption DEF Closed
    <2>3. LaidInv'
      BY <2>1, <2>2, WriteLays
    <2> QED  BY <1>2, <2>1, <2>3
  <1>8. ASSUME NEW len \in 0..MaxLen, BeginList(len) PROVE LaidInv' /\ finished_list' \in BOOLEAN
    <2>1. start_pos' = start_pos /\ finished_list' \in BOOLEAN
      BY <1>8 DEF BeginList
    <2>2. CASE len = 0
      <3> DEFINE x == ListItem(<<>>)
      <3>1. x.bytes = <<ShortList>> /\ WellMade(x, {})
        <4>1. x.bytes = EncodeList(<<>>) /\ x.kids = <<>>
          BY EmptyItems, ListBytes
        <4>2. <<>> \in Seq({})
          OBVIOUS
        <4>3. WellMade(x, {})
          BY <4>1, <4>2, EmptyItems DEF WellMade
        <4> QED  BY <4>1, <4>3, EmptyItems
      <3>2. /\ buffer' = Append(buffer, ShortList) /\ written' = Wrote(<<x>>)
            /\ unfinished_lists' = unfinished_lists
        BY <1>8, <2>2 DEF BeginList, EmptyList
      <3> HIDE DEF x
      <3>3. Closed({x}) /\ <<x>> \in Seq({x}) /\ BytesOf(<<x>>) = x.bytes
        BY <3>1, OneItem
      <3>4. buffer' = buffer \o BytesOf(<<x>>)
        <4>1. ShortList \in Byte /\ buffer \in Seq(Byte)
          BY FormatFacts, Shape DEF Byte
        <4>2. Append(buffer, ShortList) = buffer \o <<ShortList>>
          BY ONLY <4>1, AppendIsConcat
        <4> QED  BY <3>1, <3>2, <3>3, <4>2
      <3> QED  BY <2>1, <3>2, <3>3, <3>4, WriteLays
    <2>3. CASE len # 0
      <3>1. Open({len})
        BY <1>8, <2>3 DEF BeginList
      <3> QED  BY <2>1, <3>1, OpenLays
    <2> QED  BY <2>2, <2>3
  <1>9. CASE BeginUnboundedList
    <2>1. start_pos' = start_pos /\ finished_list' = FALSE /\ Open({})
      BY <1>9 DEF BeginUnboundedList
    <2> QED  BY <2>1, OpenLays
  <1>10. CASE FinalizeUnboundedList
    <2>1. start_pos' = start_pos /\ finished_list' = finished_list /\ Finish({TRUE}) /\ Depth > 0
      BY <1>10 DEF FinalizeUnboundedList
    <2>2. unfinished_lists # <<>>
      BY <2>1, Shape, ListTypes
    <2> QED  BY <1>2, <2>1, <2>2, FinishLays
  <1>11. CASE NoteAppended
    BY <1>11, NoteLays
  <1>12. CASE Clear
    <2>1. /\ buffer' = SubSeq(buffer, 1, start_pos) /\ unfinished_lists' = <<>> /\ written' = << <<>> >>
          /\ start_pos' = start_pos /\ finished_list' = finished_list
      BY <1>12 DEF Clear
    <2>2. LaidInv'
      BY <2>1, ClearLays
    <2> QED  BY <1>2, <2>1, <2>2
  <1>13. CASE UNCHANGED streamVars
    BY <1>2, <1>13 DEF streamVars, stream, LaidInv
  <1> QED
    BY <1>3, <1>4, <1>5, <1>6, <1>7, <1>8, <1>9, <1>10, <1>11, <1>12, <1>13 DEF StreamNext

(* What estimate_size adds for open list i, and its sum so far. *)
SizeExtra(i) == SizeField(TotalWritten + 0 - unfinished_lists[i].position)

AreSizes(f) == f = [i \in 0..Depth |-> IF i = 0 THEN TotalWritten + 0 ELSE f[i - 1] + SizeExtra(i)]

Sizes == CHOOSE f : AreSizes(f)

(* The recursion of estimate_size, in the open lists. *)
LEMMA EstimateIs == EstimateSize(0) = Sizes[Depth]
  BY DEF EstimateSize, Sizes, AreSizes, SizeExtra

(* With no list open it is what is written, ... *)
LEMMA EstimateNone ==
    ASSUME Depth = 0
    PROVE  EstimateSize(0) = TotalWritten + 0
  <1> DEFINE t == TotalWritten + 0
             f == [i \in 0..0 |-> t]
  <1> HIDE DEF t
  <1>1. f = [i \in 0..0 |-> IF i = 0 THEN t ELSE f[i - 1] + SizeExtra(i)]
    OBVIOUS
  <1>2. AreSizes(f)
    BY <1>1 DEF AreSizes, t
  <1> HIDE DEF f
  <1>3. AreSizes(Sizes)
    BY <1>2 DEF Sizes
  <1>4. Sizes[0] = t
    BY <1>3 DEF AreSizes, t
  <1> QED  BY <1>4, EstimateIs DEF t

(* ... and with one, that and the size field its header will have. *)
LEMMA EstimateOne ==
    ASSUME Depth = 1
    PROVE  EstimateSize(0) = (TotalWritten + 0) + SizeExtra(1)
  <1> DEFINE t == TotalWritten + 0
             e == SizeExtra(1)
             f == [i \in 0..1 |-> IF i = 0 THEN t ELSE t + e]
  <1> HIDE DEF t, e
  <1>1. f = [i \in 0..1 |-> IF i = 0 THEN t ELSE f[i - 1] + SizeExtra(i)]
    <2> SUFFICES ASSUME NEW i \in 0..1
                 PROVE  (IF i = 0 THEN t ELSE t + e) = IF i = 0 THEN t ELSE f[i - 1] + SizeExtra(i)
      OBVIOUS
    <2>1. CASE i = 0
      BY <2>1
    <2>2. CASE i = 1
      <3>1. f[i - 1] = t /\ SizeExtra(i) = e
        BY <2>2 DEF e
      <3> HIDE DEF f
      <3> QED  BY <2>2, <3>1
    <2> QED  BY <2>1, <2>2
  <1>2. AreSizes(f)
    BY <1>1 DEF AreSizes, t
  <1> HIDE DEF f
  <1>3. AreSizes(Sizes)
    BY <1>2 DEF Sizes
  <1>4. \A i \in 0..1 : Sizes[i] = IF i = 0 THEN t ELSE Sizes[i - 1] + SizeExtra(i)
    BY <1>3 DEF AreSizes, t
  <1>5. Sizes[0] = t
    BY <1>4
  <1>6. Sizes[1] = Sizes[0] + e
    <2>1. 1 \in 0..1 /\ 1 # 0 /\ 1 - 1 = 0
      OBVIOUS
    <2> QED  BY <1>4, <2>1 DEF e
  <1> QED  BY <1>5, <1>6, EstimateIs DEF t, e

(* How long a header is. *)
LEMMA HeaderLength ==
    ASSUME NEW n \in Nat, n < BaseTo(Wide)
    PROVE  Len(Header(n, ShortList, LongList)) = 1 + (IF n > Short THEN SizeBytes(n) ELSE 0)
  <1>1. CASE n <= Short
    <2>1. ~(n > Short)
      BY <1>1, FormatFacts
    <2> QED  BY <1>1, <2>1, HeaderFacts, Pairs
  <1>2. CASE n > Short
    BY <1>2, HeaderFacts, Pairs
  <1> QED  BY <1>1, <1>2, FormatFacts

(* The invariant implies the property. *)
LEMMA StreamInvExact ==
    ASSUME StreamInv, BufferFits
    PROVE  StreamExact
  <1> DEFINE m == Depth
             w == written
             k == m + 1
             l == LayoutTo(w, k)
  <1>1. /\ Lists(unfinished_lists, w) /\ m \in Nat /\ Len(w) = k /\ Len(w) # 0 /\ m = Len(unfinished_lists)
        /\ buffer \in Seq(Byte) /\ start_pos \in Nat /\ Len(buffer) \in Nat /\ start_pos <= Len(buffer)
    BY Shape
  <1>2. PICK I, p : LaidOut(I, p, buffer, start_pos, w)
    BY DEF StreamInv, Laid
  <1>3. /\ Closed(I) /\ Encoded(I) /\ w \in Seq(Seq(I)) /\ p \in Seq(Byte) /\ start_pos = Len(p)
        /\ LayoutTo(w, Len(w)) \in Seq(Byte) /\ buffer = p \o LayoutTo(w, Len(w))
        /\ Len(buffer) = start_pos + Len(LayoutTo(w, Len(w))) /\ Len(Below(w, Len(w))) \in Nat
        /\ Len(buffer) - start_pos = Len(Below(w, Len(w))) + Len(w) - 1
    <2>1. Len(w) # 0
      BY <1>1
    <2> HIDE DEF w
    <2> QED  BY ONLY <1>2, <2>1, LaidFacts
  <1>4. /\ l \in Seq(Byte) /\ buffer = p \o l /\ Len(buffer) = start_pos + Len(l)
        /\ Len(Below(w, k)) \in Nat /\ Len(buffer) - start_pos = Len(Below(w, k)) + m
    <2> HIDE DEF k, w, m
    <2>1. k = m + 1
      BY DEF k
    <2> QED  BY ONLY <1>1, <1>3, <2>1 DEF l
  <1>5. p \in Prior
    BY <1>2 DEF LaidOut
  <1>6. TotalWritten = Len(l) /\ Len(l) \in Nat /\ Len(l) = Len(Below(w, k)) + m
    <2>1. Len(l) \in Nat
      BY <1>4
    <2> HIDE DEF l, k, w, m
    <2> QED  BY <1>1, <1>4, <2>1 DEF TotalWritten
  <1> HIDE DEF l, k, w, m
  <1>a. k = m + 1 /\ m = Depth /\ w = written
    BY DEF k, m, w
  <1>7. \A i \in 1..m : unfinished_lists[i].position = Len(Below(w, i)) + i
    BY <1>1, <1>a DEF StreamInv, Positions
  <1>8. SubSeq(buffer, 1, Len(p)) = p /\ SubSeq(buffer, Len(p) + 1, Len(buffer)) = l
    BY ONLY <1>3, <1>4, Parts
  <1>9. ASSUME NEW i \in 1..m
        PROVE  /\ unfinished_lists[i].position \in 1..Len(l) /\ l[unfinished_lists[i].position] = 0
               /\ buffer[start_pos + unfinished_lists[i].position] = 0
    <2> DEFINE q == unfinished_lists[i].position
               r == Len(Below(w, i)) + i
    <2>1. i \in Nat \ {0} /\ k \in Nat /\ i < k /\ k <= Len(w)
      BY <1>1, <1>a
    <2>2. r \in 1..Len(l) /\ l[r] = 0
      BY <1>3, <2>1, PlaceholderThere DEF l
    <2>3. q = r
      BY <1>7
    <2> HIDE DEF q, r
    <2>4. /\ Len(p) \in Nat
          /\ \A j \in 1..(Len(p) + Len(l)) : buffer[j] = IF j <= Len(p) THEN p[j] ELSE l[j - Len(p)]
      BY ONLY <1>3, <1>4, Joined
    <2>5. Len(p) + q \in 1..(Len(p) + Len(l)) /\ ~(Len(p) + q <= Len(p)) /\ (Len(p) + q) - Len(p) = q
      BY ONLY <1>6, <2>2, <2>3, <2>4
    <2>6. buffer[start_pos + q] = l[q]
      BY ONLY <1>3, <2>4, <2>5
    <2> QED  BY <2>2, <2>3, <2>6 DEF q
  <1>10. ASSUME NEW i \in 1..m, NEW j \in 1..(i - 1)
         PROVE  unfinished_lists[j].position < unfinished_lists[i].position
    <2> DEFINE x == Len(Below(w, i))
               y == Len(Below(w, j))
    <2>1. i \in Nat /\ j \in Nat /\ j < i /\ i <= Len(w) /\ j \in 1..m /\ i \in 0..Len(w) /\ j \in 0..Len(w)
      BY <1>1, <1>a
    <2>2. x \in Nat /\ y \in Nat
      BY <1>3, <2>1, LayoutType
    <2>3. y <= x
      <3>1. j <= i
        BY <2>1
      <3> QED  BY <1>3, <2>1, <3>1, BelowGrows
    <2>4. unfinished_lists[i].position = x + i /\ unfinished_lists[j].position = y + j
      BY <1>7, <2>1
    <2> HIDE DEF x, y
    <2> QED  BY ONLY <2>1, <2>2, <2>3, <2>4
  <1>11. Cardinality(noting) <= 1
    <2>1. NotingInv
      BY DEF StreamInv, CountInv
    <2>2. CASE noting = {}
      BY <2>2, FS_EmptySet
    <2>3. CASE noting # {}
      <3>1. PICK x : noting = {x}
        BY <2>1, <2>3 DEF NotingInv, Note
      <3>2. Cardinality(noting) = 1
        BY <3>1, FS_Singleton
      <3> QED  BY <3>2
    <2> QED  BY <2>2, <2>3
  <1>12. StreamTypeOK
    <2>1. start_pos \in 0..Len(buffer) /\ finished_list \in BOOLEAN /\ Len(written) = Depth + 1
      BY <1>1, <1>a DEF StreamInv
    <2> QED  BY <1>1, <1>6, <1>9, <1>10, <1>11, <1>a, <2>1 DEF StreamTypeOK
  <1>13. SubSeq(buffer, 1, start_pos) \in Prior
    BY <1>3, <1>5, <1>8
  <1>14. SubSeq(buffer, start_pos + 1, Len(buffer)) =
            FlattenSeq([i \in DOMAIN written |-> (IF i = 1 THEN <<>> ELSE <<0>>) \o BytesOf(written[i])])
    <2>1. DOMAIN w = 1..Len(w)
      BY <1>1, ListTypes
    <2>2. Layout(w) = l
      BY <1>1, <2>1, LayoutIs DEF l
    <2>3. Layout(written) = FlattenSeq([i \in DOMAIN written |-> (IF i = 1 THEN <<>> ELSE <<0>>) \o BytesOf(written[i])])
      BY DEF Layout, Level
    <2> QED  BY <1>3, <1>8, <1>a, <2>2, <2>3
  <1>15. ASSUME NEW i \in 1..Depth
         PROVE  /\ buffer[start_pos + unfinished_lists[i].position] = 0
                /\ unfinished_lists[i].position = Len(FlattenSeq([j \in 1..i |-> BytesOf(written[j])])) + i
    <2>1. unfinished_lists[i].position = Len(Below(written, i)) + i
      BY <1>7, <1>a
    <2> QED  BY <1>9, <1>a, <2>1 DEF Below
  <1>16. Len(Below(w, 1)) = Len(BytesOf(w[1])) /\ Len(BytesOf(w[1])) \in Nat
    <2>1. 0 \in Nat /\ 0 < Len(w) /\ 0 + 1 = 1
      BY <1>1, <1>a
    <2>2. /\ Len(Below(w, 0 + 1)) = Len(Below(w, 0)) + Len(BytesOf(w[0 + 1]))
          /\ Len(BytesOf(w[0 + 1])) \in Nat
      BY <1>3, <2>1, LayoutSizes
    <2>3. Len(Below(w, 0)) = 0
      BY NothingBelow
    <2> QED  BY ONLY <2>1, <2>2, <2>3
  <1>17. ASSUME Depth = 0 PROVE EstimateSize(0) = Len(BytesOf(written[1]))
    <2>1. EstimateSize(0) = TotalWritten + 0
      BY <1>17, EstimateNone
    <2>2. k = 1 /\ m = 0
      BY <1>17, <1>a
    <2> QED  BY <1>6, <1>16, <1>a, <2>1, <2>2
  <1>18. ASSUME Depth = 1
         PROVE  EstimateSize(0) = Len(BytesOf(written[1])) + Len(ListItem(written[2]).bytes)
    <2> DEFINE a == Len(BytesOf(w[1]))
               y == BytesOf(w[2])
               n == Len(y)
               h == Header(n, ShortList, LongList)
    <2>1. k = 2 /\ m = 1
      BY <1>18, <1>a
    <2>2. EstimateSize(0) = (TotalWritten + 0) + SizeExtra(1)
      BY <1>18, EstimateOne
    <2>3. /\ Len(Below(w, 2)) = Len(Below(w, 1)) + n /\ n \in Nat
      <3>1. 1 \in Nat /\ 1 < Len(w) /\ 1 + 1 = 2
        BY <1>1, <2>1
      <3>2. /\ Len(Below(w, 1 + 1)) = Len(Below(w, 1)) + Len(BytesOf(w[1 + 1]))
            /\ Len(BytesOf(w[1 + 1])) \in Nat
        BY <1>3, <3>1, LayoutSizes
      <3> QED  BY ONLY <3>1, <3>2
    <2>4. y \in Seq(Byte)
      <3>1. 2 \in 1..Len(w)
        BY <1>1, <2>1
      <3> QED  BY <1>3, <3>1, LevelType
    <2> HIDE DEF a, y, n, h
    <2>5. TotalWritten = (a + n) + 1
      BY <1>6, <1>16, <2>1, <2>3 DEF a
    <2>6. unfinished_lists[1].position = a + 1
      <3>1. 1 \in 1..m
        BY <2>1
      <3> QED  BY <1>7, <1>16, <3>1 DEF a
    <2>7. a \in Nat
      BY <1>16 DEF a
    <2>8. TotalWritten + 0 - unfinished_lists[1].position = n
      BY ONLY <2>3, <2>5, <2>6, <2>7
    <2>9. SizeExtra(1) = IF n > Short THEN SizeBytes(n) ELSE 0
      BY <2>8 DEF SizeExtra, SizeField
    <2>10. n < BaseTo(Wide) /\ Sized(y)
      <3>1. BaseTo(Narrow) \in Nat
        BY FormatAssumption, BaseType
      <3>2. Len(buffer) < BaseTo(Narrow) /\ Len(buffer) = start_pos + TotalWritten
        BY <1>4, <1>6 DEF BufferFits
      <3>3. n < BaseTo(Narrow)
        BY ONLY <1>1, <2>3, <2>5, <2>7, <3>1, <3>2
      <3>4. n < BaseTo(Wide)
        BY ONLY <2>3, <3>3, NarrowSize
      <3> QED  BY <2>4, <3>3, <3>4 DEF Sized, n
    <2>11. Len(h) = 1 + SizeExtra(1)
      BY <2>3, <2>9, <2>10, HeaderLength DEF h
    <2>12. Len(ListItem(w[2]).bytes) = Len(h) + n
      <3>1. ListItem(w[2]).bytes = EncodeList(y)
        BY ListBytes DEF y
      <3> QED  BY <2>10, <3>1, EncodeTypes DEF h, n
    <2>13. SizeExtra(1) \in Nat
      BY <2>3, <2>9, <2>10, SizeFacts
    <2>14. EstimateSize(0) = a + Len(ListItem(w[2]).bytes)
      BY ONLY <2>2, <2>3, <2>5, <2>7, <2>11, <2>12, <2>13
    <2> QED  BY <1>a, <2>14 DEF a
  <1> QED  BY <1>12, <1>13, <1>14, <1>15, <1>17, <1>18 DEF StreamExact

(* The invariant holds initially. *)
LEMMA StreamInvStarts ==
    ASSUME Init PROVE StreamInv
  <1>1. CountInv
    BY NothingToCount DEF Init, StreamInit
  <1>2. /\ buffer \in Prior /\ start_pos = Len(buffer) /\ written = << <<>> >>
        /\ unfinished_lists = <<>> /\ finished_list = FALSE
    BY DEF Init, StreamInit
  <1>3. Laid(buffer, start_pos, written)
    BY <1>2, NothingWritten
  <1>4. Positions(unfinished_lists, written)
    BY <1>2 DEF Positions
  <1> QED  BY <1>1, <1>2, <1>3, <1>4 DEF StreamInv

(* The other actions read: they leave the stream alone. *)
LEMMA StreamInvStep ==
    ASSUME StreamInv, BufferFits, [Next]_vars
    PROVE  StreamInv'
  <1>1. [StreamNext]_streamVars
    BY DEF Next, vars, Write, ReadBack, NewInput, At, Descend, ItemCount, IterNext
  <1> QED  BY <1>1, StreamStep

(***************************************************************************)
(* What RlpStream has written is, at every moment, the reference encoding  *)
(* of what was appended: for any data and format, any number and nesting   *)
(* of lists, any bytes that were in the buffer, and without a bound on     *)
(* steps.  The one condition is that the buffer stays shorter than the     *)
(* first size that the u32 of insert_size cuts, which is 4 GiB.            *)
(***************************************************************************)
THEOREM StreamStaysExact == Spec /\ []BufferFits => []StreamExact
  <1>1. Init => StreamInv
    BY StreamInvStarts
  <1>2. StreamInv /\ BufferFits /\ [Next]_vars => StreamInv'
    BY StreamInvStep
  <1>3. StreamInv /\ BufferFits => StreamExact
    BY StreamInvExact
  <1> QED
    BY <1>1, <1>2, <1>3, PTL DEF Spec

------------------------------------------------------------------------------
(* Slices, and the first item of one. *)

(* A part of a sequence of bytes, and one that starts where it does. *)
LEMMA SliceOf ==
    ASSUME NEW s \in Seq(Byte), NEW m \in Nat \ {0}, NEW n \in Nat, n <= Len(s)
    PROVE  /\ SubSeq(s, m, n) \in Seq(Byte)
           /\ Len(SubSeq(s, m, n)) = IF m <= n THEN (n - m) + 1 ELSE 0
           /\ \A i \in 1..((n - m) + 1) : SubSeq(s, m, n)[i] = s[(m + i) - 1]
  <1>1. \A i \in m..n : s[i] \in Byte
    <2>1. \A i \in m..n : i \in 1..Len(s)
      OBVIOUS
    <2> QED  BY <2>1, ElementOfSeq
  <1>2. m \in Int /\ n \in Int
    OBVIOUS
  <1> QED  BY <1>1, <1>2, SubSeqProperties

(* The same part of slices that agree up to its end. *)
LEMMA SameSlice ==
    ASSUME NEW s \in Seq(Byte), NEW t \in Seq(Byte), NEW n \in Nat, n <= Len(s), n <= Len(t),
           \A i \in 1..n : t[i] = s[i], NEW m \in Nat \ {0}
    PROVE  SubSeq(t, m, n) = SubSeq(s, m, n)
  <1> DEFINE a == SubSeq(s, m, n)
             b == SubSeq(t, m, n)
  <1>1. /\ a \in Seq(Byte) /\ Len(a) = (IF m <= n THEN (n - m) + 1 ELSE 0)
        /\ \A i \in 1..((n - m) + 1) : a[i] = s[(m + i) - 1]
    BY SliceOf
  <1>2. /\ b \in Seq(Byte) /\ Len(b) = (IF m <= n THEN (n - m) + 1 ELSE 0)
        /\ \A i \in 1..((n - m) + 1) : b[i] = t[(m + i) - 1]
    BY SliceOf
  <1> HIDE DEF a, b
  <1>3. ASSUME NEW i \in 1..Len(a) PROVE b[i] = a[i]
    <2>1. i \in 1..((n - m) + 1) /\ (m + i) - 1 \in 1..n
      BY <1>1
    <2> QED  BY <1>1, <1>2, <2>1
  <1>4. b = a
    BY <1>1, <1>2, <1>3, SeqEqual
  <1> QED  BY <1>4 DEF a, b

(* An item's extent is told by its first bytes alone. *)
LEMMA PrefixInfo ==
    ASSUME NEW s \in Seq(Byte), s # <<>>, NEW t \in Seq(Byte), InfoOfFirst(s).ok,
           Reach(InfoOfFirst(s)) <= Len(t), \A i \in 1..Reach(InfoOfFirst(s)) : t[i] = s[i]
    PROVE  InfoOfFirst(t) = InfoOfFirst(s) /\ t # <<>>
  <1> DEFINE l == s[1]
             r == InfoOfFirst(s)
             n == Reach(r)
  <1>1. r # NoInfo
    BY DEF NoInfo
  <1>2. n \in 1..Len(s) /\ Len(s) \in Nat
    BY <1>1, InfoType
  <1> HIDE DEF n
  <1>a. n <= Len(t) /\ \A i \in 1..n : t[i] = s[i]
    BY DEF n
  <1>3. t # <<>> /\ t[1] = l /\ l \in Byte /\ l = s[1] /\ n \in Nat /\ n <= Len(s)
    <2>1. 1 \in 1..n /\ 1 \in 1..Len(s) /\ Len(t) # 0 /\ n \in Nat /\ n <= Len(s)
      BY <1>2, <1>a
    <2>2. t # <<>>
      BY <2>1
    <2> QED  BY <1>a, <2>1, <2>2, ElementOfSeq
  <1>4. ASSUME NEW k \in 1..Wide, r = CalculatePayloadInfo(s, k), InfoOfFirst(t) = CalculatePayloadInfo(t, k)
        PROVE  InfoOfFirst(t) = r
    <2> DEFINE v == Number(SubSeq(s, 2, 1 + k))
    <2>1. 1 + k <= Len(s) /\ r = Info(1 + k, v)
      BY <1>1, <1>4, LongCases
    <2>2. k \in Nat \ {0} /\ 1 + k # 0 /\ 1 + k \in Nat /\ Len(s) \in Nat /\ Len(t) \in Nat
      BY FormatFacts
    <2> HIDE DEF v
    <2>3. n = 1 + k
      <3>1. r.header_len = 1 + k
        BY <2>1, InfoFields
      <3> QED  BY <2>2, <3>1 DEF n, Reach
    <2>4. SubSeq(t, 2, 1 + k) = SubSeq(s, 2, 1 + k)
      <3> DEFINE e == 1 + k
      <3>1. n = e /\ e \in Nat /\ e <= Len(s) /\ e <= Len(t) /\ \A i \in 1..e : t[i] = s[i]
        BY <1>a, <2>1, <2>2, <2>3
      <3> HIDE DEF e
      <3>2. 2 \in Nat \ {0}
        OBVIOUS
      <3>3. SubSeq(t, 2, e) = SubSeq(s, 2, e)
        BY ONLY s \in Seq(Byte), t \in Seq(Byte), <3>1, <3>2, SameSlice
      <3> QED  BY <3>3 DEF e
    <2>5. ~(Len(t) < 1 + k) /\ ~(Len(s) < 1 + k)
      BY <1>a, <2>1, <2>2, <2>3
    <2>6. CalculatePayloadInfo(t, k) = CalculatePayloadInfo(s, k)
      BY <2>4, <2>5 DEF CalculatePayloadInfo
    <2> QED  BY <1>4, <2>6
  <1>5. CASE l < Single
    BY <1>3, <1>5, InfoCases
  <1>6. CASE l \in Single..LongData
    BY <1>3, <1>6, InfoCases
  <1>7. CASE l \in ShortList..LongList
    BY <1>3, <1>7, InfoCases
  <1>8. CASE l \in (LongData + 1)..(ShortList - 1)
    <2>1. /\ r = CalculatePayloadInfo(s, l - LongData) /\ l - LongData \in 1..Wide
      BY <1>3, <1>8, InfoCases
    <2>2. InfoOfFirst(t) = CalculatePayloadInfo(t, l - LongData)
      BY <1>3, <1>8, InfoCases
    <2> QED  BY <1>3, <1>4, <2>1, <2>2
  <1>9. CASE l > LongList
    <2>1. /\ r = CalculatePayloadInfo(s, l - LongList) /\ l - LongList \in 1..Wide
      BY <1>3, <1>9, InfoCases
    <2>2. InfoOfFirst(t) = CalculatePayloadInfo(t, l - LongList)
      BY <1>3, <1>9, InfoCases
    <2> QED  BY <1>3, <1>4, <2>1, <2>2
  <1> QED  BY <1>3, <1>5, <1>6, <1>7, <1>8, <1>9, InfoCases

(* What payload_info says of a slice, if it says anything. *)
LEMMA PayloadFacts ==
    ASSUME NEW s \in Seq(Byte), PayloadInfo(s).ok
    PROVE  /\ s # <<>> /\ PayloadInfo(s) = InfoOfFirst(s) /\ InfoOfFirst(s).ok
           /\ Total(PayloadInfo(s)) \in Nat \ {0} /\ Total(PayloadInfo(s)) <= Len(s)
           /\ PayloadInfo(s).header_len \in Nat /\ PayloadInfo(s).value_len \in Nat
           /\ PayloadInfo(s).header_len <= Total(PayloadInfo(s))
           /\ Reach(PayloadInfo(s)) \in 1..Total(PayloadInfo(s))
  <1> DEFINE r == InfoOfFirst(s)
  <1>1. ~NoInfo.ok
    BY DEF NoInfo
  <1>2. s # <<>>
    BY <1>1 DEF PayloadInfo
  <1>3. PayloadInfo(s) = r /\ ~(Total(r) > Len(s))
    BY <1>1, <1>2 DEF PayloadInfo, Fitting
  <1>4. /\ r.ok /\ r.header_len \in Nat /\ r.value_len \in Nat /\ Total(r) \in Nat \ {0}
        /\ Reach(r) \in 1..Len(s) /\ Reach(r) <= Total(r)
    BY <1>1, <1>2, <1>3, InfoType
  <1>5. Total(r) = r.header_len + r.value_len
    BY DEF Total
  <1> HIDE DEF r
  <1>6. Total(r) <= Len(s) /\ r.header_len <= Total(r) /\ Reach(r) \in 1..Total(r)
    BY <1>3, <1>4, <1>5
  <1> QED  BY <1>2, <1>3, <1>4, <1>6 DEF r

(* The first item is told when it fits the slice. *)
LEMMA PayloadIs ==
    ASSUME NEW s \in Seq(Byte), s # <<>>, InfoOfFirst(s).ok, Total(InfoOfFirst(s)) <= Len(s)
    PROVE  PayloadInfo(s) = InfoOfFirst(s)
  <1> DEFINE r == InfoOfFirst(s)
  <1>1. r # NoInfo
    BY DEF NoInfo
  <1>2. Total(r) \in Nat
    BY <1>1, InfoType
  <1> HIDE DEF r
  <1>a. Total(r) <= Len(s)
    BY DEF r
  <1>3. ~(Total(r) > Len(s))
    BY <1>2, <1>a
  <1> QED  BY <1>3 DEF PayloadInfo, Fitting, r

(* The first item of a slice, by itself. *)
LEMMA ItemExact ==
    ASSUME NEW s \in Seq(Byte), PayloadInfo(s).ok, NEW t, t = SubSeq(s, 1, Total(PayloadInfo(s)))
    PROVE  t \in Seq(Byte) /\ Len(t) = Total(PayloadInfo(s)) /\ Exact(t)
  <1> DEFINE r == PayloadInfo(s)
             n == Total(r)
  <1>1. /\ s # <<>> /\ r = InfoOfFirst(s) /\ r.ok
        /\ n \in Nat \ {0} /\ n <= Len(s) /\ Reach(r) \in 1..n
    BY PayloadFacts
  <1>2. t = SubSeq(s, 1, n)
    OBVIOUS
  <1> HIDE DEF n
  <1>3. t \in Seq(Byte) /\ Len(t) = n /\ \A i \in 1..n : t[i] = s[i]
    <2>1. 1 \in Nat \ {0} /\ n \in Nat /\ n >= 1
      BY <1>1
    <2>2. /\ SubSeq(s, 1, n) \in Seq(Byte)
          /\ Len(SubSeq(s, 1, n)) = (IF 1 <= n THEN (n - 1) + 1 ELSE 0)
          /\ \A i \in 1..((n - 1) + 1) : SubSeq(s, 1, n)[i] = s[(1 + i) - 1]
      BY ONLY s \in Seq(Byte), <1>1, <2>1, SliceOf
    <2>3. (IF 1 <= n THEN (n - 1) + 1 ELSE 0) = n /\ (n - 1) + 1 = n
      BY ONLY <2>1
    <2>4. \A i \in 1..n : (1 + i) - 1 = i
      BY ONLY <2>1
    <2> QED  BY ONLY <1>2, <2>2, <2>3, <2>4
  <1>4. InfoOfFirst(t) = r /\ t # <<>>
    <2> HIDE DEF r
    <2>1. Reach(InfoOfFirst(s)) <= Len(t) /\ \A i \in 1..Reach(InfoOfFirst(s)) : t[i] = s[i]
      BY ONLY <1>1, <1>3
    <2>2. InfoOfFirst(s).ok
      BY <1>1
    <2> QED  BY <1>1, <1>3, <2>1, <2>2, PrefixInfo
  <1> HIDE DEF r
  <1>5. PayloadInfo(t) = r
    <2>1. Total(InfoOfFirst(t)) <= Len(t) /\ InfoOfFirst(t).ok
      BY <1>1, <1>3, <1>4 DEF n
    <2> QED  BY <1>3, <1>4, <2>1, PayloadIs
  <1> QED  BY <1>1, <1>3, <1>5 DEF Exact, n, r

------------------------------------------------------------------------------
(* What is encoded is read back, whatever is behind it. *)

(* A payload behind its header. *)
Headed(s, h, p, short, long) ==
    /\ HeaderPair(short, long) /\ Sized(p)
    /\ h = Header(Len(p), short, long)
    /\ s = h \o p

(* A header is read back. *)
LEMMA HeaderRead ==
    ASSUME NEW s, NEW h, NEW p, NEW short, NEW long, Headed(s, h, p, short, long), NEW n, n = Len(p)
    PROVE  /\ s \in Seq(Byte) /\ s # <<>>
           /\ InfoOfFirst(s).ok /\ InfoOfFirst(s).header_len = Len(h) /\ InfoOfFirst(s).value_len = n
           /\ s[1] = h[1] /\ Len(s) = Len(h) + Len(p) /\ Len(h) \in Nat
           /\ s[1] \in short..(long + Wide)
           /\ n <= Short => Len(h) = 1 /\ s[1] = short + n
           /\ n > Short => /\ SizeBytes(n) \in 1..Wide /\ Len(h) = 1 + SizeBytes(n) /\ s[1] = long + SizeBytes(n)
                           /\ SubSeq(s, 2, 1 + SizeBytes(n)) = BigEndian(n)
  <1>a. /\ HeaderPair(short, long) /\ h = Header(n, short, long) /\ s = h \o p
        /\ p \in Seq(Byte) /\ n \in Nat /\ n < BaseTo(Wide)
    BY EncodeTypes DEF Headed
  <1>0. /\ short \in Nat /\ long \in Nat /\ long = short + Short /\ long + Wide < Base
        /\ Short \in Nat /\ Wide \in Nat /\ Base \in Nat
        /\ Single \in Nat /\ ShortList \in Nat /\ LongData \in Nat /\ LongList \in Nat
        /\ ShortList = LongData + Wide + 1 /\ LongData = Single + Short /\ LongList = ShortList + Short
        /\ (short = Single /\ long = LongData) \/ (short = ShortList /\ long = LongList)
    BY <1>a, PairFacts, FormatFacts
  <1>1. /\ h \in Seq(Byte) /\ Len(h) \in Nat \ {0}
        /\ n <= Short => Len(h) = 1 /\ h[1] = short + n
        /\ n > Short => /\ SizeBytes(n) \in 1..Wide
                        /\ Len(h) = 1 + SizeBytes(n)
                        /\ h[1] = long + SizeBytes(n)
                        /\ \A i \in 1..SizeBytes(n) : h[1 + i] = BigEndian(n)[i]
    BY ONLY <1>a, HeaderFacts
  <1>2. /\ s \in Seq(Byte) /\ Len(s) = Len(h) + Len(p) /\ Len(h) \in Nat /\ Len(p) \in Nat
        /\ \A i \in 1..(Len(h) + Len(p)) : s[i] = IF i <= Len(h) THEN h[i] ELSE p[i - Len(h)]
    BY <1>a, <1>1, Joined
  <1>3. /\ Len(s) \in Nat \ {0} /\ s # <<>> /\ \A i \in 1..Len(h) : s[i] = h[i]
    <2>1. Len(s) \in Nat \ {0} /\ \A i \in 1..Len(h) : i \in 1..(Len(h) + Len(p)) /\ i <= Len(h)
      BY ONLY <1>1, <1>2
    <2>2. s # <<>>
      BY <2>1
    <2> QED  BY <1>2, <2>1, <2>2
  <1>4. s[1] = h[1] /\ s[1] \in Byte
    <2>1. 1 \in 1..Len(h) /\ 1 \in 1..Len(s)
      BY <1>1, <1>2
    <2> QED  BY <1>2, <1>3, <2>1, ElementOfSeq
  <1>5. CASE n <= Short
    <2>1. s[1] = short + n /\ Len(h) = 1
      BY <1>1, <1>4, <1>5
    <2>2. /\ short = Single => s[1] \in Single..LongData /\ s[1] - Single = n
          /\ short = ShortList => s[1] \in ShortList..LongList /\ s[1] - ShortList = n
          /\ s[1] \in short..(long + Wide) /\ ~(n > Short)
      <3> DEFINE l == s[1]
      <3>1. l = short + n /\ n \in Nat /\ n <= Short
        BY <1>a, <1>5, <2>1
      <3> HIDE DEF l
      <3>2. CASE short = Single /\ long = LongData
        <4>1. l \in Single..LongData /\ l - Single = n /\ l \in short..(long + Wide) /\ ~(n > Short)
          BY ONLY <1>0, <3>1, <3>2
        <4>2. Single # ShortList
          BY ONLY <1>0
        <4> QED  BY <3>2, <4>1, <4>2 DEF l
      <3>3. CASE short = ShortList /\ long = LongList
        <4>1. l \in ShortList..LongList /\ l - ShortList = n /\ l \in short..(long + Wide) /\ ~(n > Short)
          BY ONLY <1>0, <3>1, <3>3
        <4>2. Single # ShortList
          BY ONLY <1>0
        <4> QED  BY <3>3, <4>1, <4>2 DEF l
      <3> QED  BY <1>0, <3>2, <3>3
    <2>3. InfoOfFirst(s) = Info(1, n)
      <3>1. CASE short = Single
        BY <1>4, <2>2, <3>1, InfoCases
      <3>2. CASE short = ShortList
        BY <1>4, <2>2, <3>2, InfoCases
      <3> QED  BY <1>0, <3>1, <3>2
    <2> QED  BY <1>2, <1>3, <1>4, <1>5, <2>1, <2>2, <2>3, InfoFields
  <1>6. CASE n > Short
    <2> DEFINE k == SizeBytes(n)
               b == BigEndian(n)
               e == 1 + k
               t == SubSeq(s, 2, e)
    <2>1. k \in 1..Wide /\ Len(h) = e /\ s[1] = long + k /\ e = 1 + k /\ \A i \in 1..k : h[1 + i] = b[i]
      BY <1>1, <1>4, <1>6
    <2>2. b \in Seq(Byte) /\ Len(b) = k /\ Number(b) = n /\ (k > 0 => b[1] # 0)
      BY <1>a, BigEndianType, NumberOfBigEndian
    <2> HIDE DEF k, b, e
    <2>3. k \in Nat \ {0} /\ e \in Nat /\ e <= Len(s) /\ (e - 2) + 1 = k /\ 2 <= e /\ 2 \in Nat \ {0}
      BY <1>0, <1>2, <2>1
    <2>4. /\ t \in Seq(Byte) /\ Len(t) = (IF 2 <= e THEN (e - 2) + 1 ELSE 0)
          /\ \A i \in 1..((e - 2) + 1) : t[i] = s[(2 + i) - 1]
      BY ONLY <1>2, <2>3, SliceOf
    <2> HIDE DEF t
    <2>5. Len(t) = k
      BY <2>3, <2>4
    <2>6. ASSUME NEW i \in 1..k PROVE t[i] = b[i]
      <3>1. i \in 1..((e - 2) + 1) /\ (2 + i) - 1 = 1 + i /\ 1 + i \in 1..Len(h)
        BY <2>1, <2>3
      <3> QED  BY <1>3, <2>1, <2>4, <3>1
    <2>7. t = b
      BY <2>2, <2>4, <2>5, <2>6, SeqEqual
    <2>8. CalculatePayloadInfo(s, k) = Info(e, n)
      <3>1. ~(Len(s) < 1 + k) /\ 1 + k = e
        BY <1>2, <2>1, <2>3
      <3>2. CalculatePayloadInfo(s, k) = LongInfo(e, DecodeUsize(b))
        BY <2>7, <3>1 DEF CalculatePayloadInfo, t
      <3>3. DecodeUsize(b) = [ok |-> TRUE, value |-> n]
        BY <2>2, <2>3 DEF DecodeUsize
      <3>4. ~(n <= Short)
        BY <1>a, <1>0, <1>6
      <3> QED  BY <3>2, <3>3, <3>4 DEF LongInfo
    <2>9. /\ short = Single => s[1] \in (LongData + 1)..(ShortList - 1) /\ s[1] - LongData = k
          /\ short = ShortList => s[1] > LongList /\ s[1] - LongList = k
          /\ s[1] \in short..(long + Wide) /\ ~(n <= Short)
      <3> DEFINE l == s[1]
      <3>1. l = long + k /\ n \in Nat /\ n > Short /\ k \in 1..Wide
        BY <1>a, <1>6, <2>1
      <3> HIDE DEF l
      <3>2. CASE short = Single /\ long = LongData
        <4>1. /\ l \in (LongData + 1)..(ShortList - 1) /\ l - LongData = k
              /\ l \in short..(long + Wide) /\ ~(n <= Short)
          BY ONLY <1>0, <3>1, <3>2
        <4>2. Single # ShortList
          BY ONLY <1>0
        <4> QED  BY <3>2, <4>1, <4>2 DEF l
      <3>3. CASE short = ShortList /\ long = LongList
        <4>1. l > LongList /\ l - LongList = k /\ l \in short..(long + Wide) /\ ~(n <= Short)
          BY ONLY <1>0, <3>1, <3>3
        <4>2. Single # ShortList
          BY ONLY <1>0
        <4> QED  BY <3>3, <4>1, <4>2 DEF l
      <3> QED  BY <1>0, <3>2, <3>3
    <2>10. InfoOfFirst(s) = Info(e, n)
      <3>1. CASE short = Single
        BY <1>4, <2>8, <2>9, <3>1, InfoCases
      <3>2. CASE short = ShortList
        BY <1>4, <2>8, <2>9, <3>2, InfoCases
      <3> QED  BY <1>0, <3>1, <3>2
    <2>11. InfoOfFirst(s).ok /\ InfoOfFirst(s).header_len = Len(h) /\ InfoOfFirst(s).value_len = n
      BY <2>1, <2>10, InfoFields
    <2>12. /\ SizeBytes(n) \in 1..Wide /\ Len(h) = 1 + SizeBytes(n) /\ s[1] = long + SizeBytes(n)
           /\ SubSeq(s, 2, 1 + SizeBytes(n)) = BigEndian(n)
      BY <2>1, <2>7 DEF k, b, e, t
    <2> QED  BY <1>2, <1>3, <1>4, <2>9, <2>11, <2>12
  <1> QED  BY <1>a, <1>0, <1>5, <1>6, SMTT(30)

(* A payload behind its header is exact. *)
LEMMA ExactHeader ==
    ASSUME NEW s, NEW h, NEW p, NEW short, NEW long, Headed(s, h, p, short, long)
    PROVE  PayloadInfo(s).header_len = Len(h) /\ Exact(s)
  <1> DEFINE n == Len(p)
             r == InfoOfFirst(s)
  <1>1. n \in Nat
    BY EncodeTypes DEF Headed
  <1> HIDE DEF n
  <1>a. n = Len(p)
    BY DEF n
  <1>3. s \in Seq(Byte) /\ s # <<>> /\ Len(s) = Len(h) + Len(p) /\ Len(h) \in Nat
    BY <1>a, HeaderRead
  <1>4. InfoOfFirst(s).ok /\ InfoOfFirst(s).header_len = Len(h) /\ InfoOfFirst(s).value_len = n
    BY <1>a, HeaderRead
  <1>6. Total(r) = Len(s) /\ Total(r) <= Len(s)
    <2>1. Total(r) = Len(h) + n
      BY <1>4 DEF Total
    <2> HIDE DEF r
    <2> QED  BY <1>1, <1>3, <1>a, <2>1
  <1>7. PayloadInfo(s) = r
    BY <1>3, <1>4, <1>6, PayloadIs
  <1> QED  BY <1>3, <1>4, <1>6, <1>7 DEF Exact

(* A list is read as one that ends where it ends, ... *)
LEMMA ListExact ==
    ASSUME NEW p, Sized(p), NEW h, h = Header(Len(p), ShortList, LongList), NEW s, s = EncodeList(p)
    PROVE  /\ Headed(s, h, p, ShortList, LongList)
           /\ Exact(s) /\ IsList(s)
  <1>1. Headed(s, h, p, ShortList, LongList)
    BY Pairs DEF EncodeList, Headed
  <1>2. Exact(s)
    BY ONLY <1>1, ExactHeader
  <1>4. s # <<>> /\ s[1] \in ShortList..(LongList + Wide)
    BY ONLY <1>1, HeaderRead
  <1>5. IsList(s)
    BY ONLY <1>4, FormatFacts DEF IsList
  <1> QED  BY <1>1, <1>2, <1>5

(* ... and data as data. *)
LEMMA ValueExact ==
    ASSUME NEW p, Sized(p)
    PROVE  Exact(EncodeValue(p)) /\ ~IsList(EncodeValue(p))
  <1>0. p \in Seq(Byte) /\ Len(p) \in Nat /\ Len(p) < BaseTo(Wide)
    BY EncodeTypes
  <1>1. CASE Len(p) = 1 /\ p[1] < Single
    <2>1. EncodeValue(p) = p
      BY <1>1, EncodedValue
    <2>2. p # <<>> /\ p[1] \in Byte
      <3>1. 1 \in 1..Len(p)
        BY <1>1
      <3> QED  BY <1>0, <3>1, ElementOfSeq
    <2>3. InfoOfFirst(p) = Info(0, 1)
      BY <1>1, <2>2, InfoCases
    <2>4. InfoOfFirst(p).ok /\ Total(InfoOfFirst(p)) = 0 + 1
      BY <2>3, InfoFields
    <2>5. PayloadInfo(p) = InfoOfFirst(p)
      BY <1>0, <1>1, <2>2, <2>4, PayloadIs
    <2>6. Exact(p)
      BY <1>1, <2>4, <2>5 DEF Exact
    <2>7. ~(p[1] >= ShortList)
      <3> DEFINE l == p[1]
      <3>1. l \in Nat /\ l < Single /\ Single < ShortList /\ Single \in Nat /\ ShortList \in Nat
        <4>1. Single < ShortList /\ Single \in Nat /\ ShortList \in Nat
          BY ONLY FormatFacts
        <4>2. l \in Nat
          BY <2>2, FormatFacts
        <4> QED  BY <1>1, <4>1, <4>2
      <3> HIDE DEF l
      <3>2. ~(l >= ShortList)
        BY ONLY <3>1
      <3> QED  BY <3>2 DEF l
    <2> QED  BY <2>1, <2>6, <2>7 DEF IsList
  <1>2. CASE ~(Len(p) = 1 /\ p[1] < Single)
    <2> DEFINE h == Header(Len(p), Single, LongData)
               s == h \o p
    <2>1. EncodeValue(p) = s
      BY <1>2, EncodedValue
    <2>a. Headed(s, h, p, Single, LongData)
      BY Pairs DEF Headed
    <2> HIDE DEF h, s
    <2>2. Exact(s)
      BY <2>a, ExactHeader
    <2>3. s[1] \in Single..(LongData + Wide)
      BY ONLY <2>a, HeaderRead
    <2>4. ~(s[1] >= ShortList)
      BY <2>3, FormatFacts
    <2> QED  BY <2>1, <2>2, <2>4 DEF IsList
  <1> QED  BY <1>1, <1>2

(* The bytes of a well made item are exact. *)
LEMMA WellMadeExact ==
    ASSUME NEW I, NEW x, WellMade(x, I)
    PROVE  Exact(x.bytes)
  <1>1. CASE Sized(x.data) /\ x = DataItem(x.data)
    <2>1. x.bytes = EncodeValue(x.data)
      BY <1>1, DataBytes
    <2> QED  BY <1>1, <2>1, ValueExact
  <1>2. CASE Sized(BytesOf(x.kids)) /\ x = ListItem(x.kids)
    <2>1. x.bytes = EncodeList(BytesOf(x.kids))
      BY <1>2, ListBytes
    <2> QED  BY <1>2, <2>1, ListExact
  <1> QED  BY <1>1, <1>2 DEF WellMade

------------------------------------------------------------------------------
(* consume_items, and the cache of a view. *)

(* Where consume_items is after each of n items. *)
Begun(s, st) == [ok |-> st <= Len(s), offset |-> st]

Found(o) == [ok |-> TRUE, offset |-> o]

AreSkips(f, s, st, n) == f = [i \in 0..n |-> IF i = 0 THEN Begun(s, st) ELSE SkipItem(s, f[i - 1])]

Skips(s, st, n) == CHOOSE f : AreSkips(f, s, st, n)

(* The recursion of consume_items has a value. *)
LEMMA SkipsExist ==
    ASSUME NEW s, NEW st, NEW n \in Nat
    PROVE  AreSkips(Skips(s, st, n), s, st, n)
  <1> DEFINE Good == {m \in Nat : \E f : AreSkips(f, s, st, m)}
  <1>1. 0 \in Good
    <2> DEFINE f == [i \in 0..0 |-> Begun(s, st)]
    <2>1. f = [i \in 0..0 |-> IF i = 0 THEN Begun(s, st) ELSE SkipItem(s, f[i - 1])]
      <3>1. \A i \in 0..0 : i = 0
        OBVIOUS
      <3> QED  BY <3>1
    <2>2. AreSkips(f, s, st, 0)
      BY <2>1 DEF AreSkips
    <2> QED  BY <2>2
  <1>2. ASSUME NEW m \in Good PROVE m + 1 \in Good
    <2>1. PICK f : AreSkips(f, s, st, m)
      BY <1>2
    <2>2. m \in Nat
      OBVIOUS
    <2> DEFINE g == [i \in 0..(m + 1) |-> IF i = 0 THEN Begun(s, st) ELSE SkipItem(s, f[i - 1])]
    <2>3. ASSUME NEW i \in 0..m PROVE g[i] = f[i]
      <3>1. f[i] = IF i = 0 THEN Begun(s, st) ELSE SkipItem(s, f[i - 1])
        BY ONLY <2>1, i \in 0..m, Zenon DEF AreSkips
      <3>2. i \in 0..(m + 1)
        BY <2>2
      <3>3. g[i] = IF i = 0 THEN Begun(s, st) ELSE SkipItem(s, f[i - 1])
        BY ONLY <3>2, Zenon
      <3> QED  BY ONLY <3>1, <3>3
    <2>4. ASSUME NEW i \in 0..(m + 1), i # 0 PROVE g[i - 1] = f[i - 1]
      <3>1. i - 1 \in 0..m
        BY <2>2, <2>4
      <3> HIDE DEF g
      <3> QED  BY <2>3, <3>1
    <2>5. g = [i \in 0..(m + 1) |-> IF i = 0 THEN Begun(s, st) ELSE SkipItem(s, g[i - 1])]
      BY <2>4
    <2>6. AreSkips(g, s, st, m + 1)
      BY <2>5 DEF AreSkips
    <2> QED  BY <2>2, <2>6
  <1>3. Good \in SUBSET Nat
    OBVIOUS
  <1> HIDE DEF Good
  <1>4. Good = Nat
    BY <1>1, <1>2, <1>3, AllNaturals
  <1>5. \E f : AreSkips(f, s, st, n)
    BY <1>4 DEF Good
  <1> QED  BY <1>5 DEF Skips

(* How far it goes on makes no difference to where it was. *)
LEMMA SkipsAgree ==
    ASSUME NEW s, NEW st, NEW k \in Nat, NEW n \in Nat, k <= n
    PROVE  Skips(s, st, n)[k] = ConsumeItems(s, st, k)
  <1> DEFINE F(j) == Skips(s, st, j)
             Good == {i \in Nat : i <= k => F(n)[i] = F(k)[i]}
  <1>1. ASSUME NEW i \in Nat, i <= k
        PROVE  /\ F(n)[i] = IF i = 0 THEN Begun(s, st) ELSE SkipItem(s, F(n)[i - 1])
               /\ F(k)[i] = IF i = 0 THEN Begun(s, st) ELSE SkipItem(s, F(k)[i - 1])
    <2>1. AreSkips(F(n), s, st, n) /\ AreSkips(F(k), s, st, k)
      BY SkipsExist
    <2>2. i \in 0..n /\ i \in 0..k
      BY <1>1
    <2> HIDE DEF F
    <2> QED  BY <2>1, <2>2, Zenon DEF AreSkips
  <1> HIDE DEF F
  <1>2. 0 \in Good
    BY <1>1
  <1>3. ASSUME NEW i \in Good PROVE i + 1 \in Good
    <2> SUFFICES ASSUME i + 1 <= k PROVE F(n)[i + 1] = F(k)[i + 1]
      OBVIOUS
    <2>1. F(n)[i] = F(k)[i] /\ i \in Nat /\ (i + 1) - 1 = i /\ i + 1 # 0 /\ i + 1 \in Nat
      OBVIOUS
    <2> HIDE DEF Good
    <2> QED  BY <1>1, <2>1
  <1>4. Good \in SUBSET Nat
    OBVIOUS
  <1> HIDE DEF Good
  <1>5. Good = Nat
    BY <1>2, <1>3, <1>4, AllNaturals
  <1>6. F(n)[k] = F(k)[k]
    BY <1>5 DEF Good
  <1>7. ConsumeItems(s, st, k) = F(k)[k]
    BY Zenon DEF ConsumeItems, F, Skips, AreSkips, Begun
  <1> QED  BY <1>6, <1>7 DEF F

(* consume_items skips one item after another. *)
LEMMA ConsumeStep ==
    ASSUME NEW s, NEW st
    PROVE  /\ ConsumeItems(s, st, 0) = Begun(s, st)
           /\ \A k \in Nat : ConsumeItems(s, st, k + 1) = SkipItem(s, ConsumeItems(s, st, k))
  <1> DEFINE F(j) == Skips(s, st, j)
  <1>1. ASSUME NEW n \in Nat, NEW i \in 0..n
        PROVE  F(n)[i] = IF i = 0 THEN Begun(s, st) ELSE SkipItem(s, F(n)[i - 1])
    <2>1. AreSkips(F(n), s, st, n)
      BY SkipsExist
    <2> HIDE DEF F
    <2> QED  BY <2>1, Zenon DEF AreSkips
  <1>2. ConsumeItems(s, st, 0) = Begun(s, st)
    <2>1. F(0)[0] = ConsumeItems(s, st, 0)
      BY SkipsAgree
    <2> HIDE DEF F
    <2>2. F(0)[0] = Begun(s, st)
      BY <1>1
    <2> QED  BY <2>1, <2>2
  <1>3. ASSUME NEW k \in Nat PROVE ConsumeItems(s, st, k + 1) = SkipItem(s, ConsumeItems(s, st, k))
    <2> DEFINE n == k + 1
    <2>1. n \in Nat /\ n \in 0..n /\ n # 0 /\ n - 1 = k /\ k <= n /\ n <= n /\ n = k + 1
      OBVIOUS
    <2> HIDE DEF n
    <2>2. F(n)[n] = ConsumeItems(s, st, n) /\ F(n)[k] = ConsumeItems(s, st, k)
      BY <2>1, SkipsAgree
    <2> HIDE DEF F
    <2>3. F(n)[n] = SkipItem(s, F(n)[k])
      BY <1>1, <2>1
    <2> QED  BY ONLY <2>1, <2>2, <2>3
  <1> QED  BY <1>2, <1>3

(* The rest of a slice. *)
LEMMA RestOf ==
    ASSUME NEW s \in Seq(Byte), NEW o \in Nat, o <= Len(s), NEW t, t = SubSeq(s, o + 1, Len(s))
    PROVE  t \in Seq(Byte) /\ Len(t) = Len(s) - o /\ \A i \in 1..(Len(s) - o) : t[i] = s[o + i]
  <1> DEFINE m == o + 1
             n == Len(s)
  <1>1. m \in Nat \ {0} /\ n \in Nat /\ n <= Len(s) /\ m = o + 1
    OBVIOUS
  <1>2. t = SubSeq(s, m, n)
    OBVIOUS
  <1> HIDE DEF m, n
  <1>3. /\ SubSeq(s, m, n) \in Seq(Byte)
        /\ Len(SubSeq(s, m, n)) = (IF m <= n THEN (n - m) + 1 ELSE 0)
        /\ \A i \in 1..((n - m) + 1) : SubSeq(s, m, n)[i] = s[(m + i) - 1]
    BY ONLY s \in Seq(Byte), <1>1, SliceOf
  <1>4. n = Len(s) /\ o <= n
    BY DEF n
  <1>5. /\ (IF m <= n THEN (n - m) + 1 ELSE 0) = n - o /\ (n - m) + 1 = n - o
        /\ \A i \in 1..(n - o) : (m + i) - 1 = o + i
    BY ONLY <1>1, <1>4, o \in Nat
  <1> QED  BY ONLY <1>2, <1>3, <1>4, <1>5

(* An item that is skipped takes at least one byte, and is all there. *)
LEMMA SkipFacts ==
    ASSUME NEW s \in Seq(Byte), NEW o \in Nat, o <= Len(s), NEW r, r = SkipItem(s, Found(o))
    PROVE  \/ r = NoOffset
           \/ r = Found(r.offset) /\ r.offset \in Nat /\ r.offset <= Len(s) /\ o < r.offset
  <1> DEFINE t == SubSeq(s, o + 1, Len(s))
             x == PayloadInfo(t)
             e == o + Total(x)
  <1>1. t \in Seq(Byte) /\ Len(t) = Len(s) - o
    BY RestOf
  <1>2. r = Behind(o, x)
    BY DEF SkipItem, Found
  <1> HIDE DEF t
  <1>3. CASE ~x.ok
    BY <1>2, <1>3 DEF Behind
  <1>4. CASE x.ok
    <2>1. r = Found(e)
      BY <1>2, <1>4 DEF Behind, Found
    <2>2. Total(x) \in Nat \ {0} /\ Total(x) <= Len(t)
      BY <1>1, <1>4, PayloadFacts
    <2> HIDE DEF x
    <2>3. e \in Nat /\ e <= Len(s) /\ o < e
      BY <1>1, <2>2
    <2>4. r.offset = e
      BY <2>1 DEF Found
    <2> QED  BY <2>1, <2>3, <2>4
  <1> QED  BY <1>3, <1>4

(* A start within the slice is a place found. *)
LEMMA BegunFound ==
    ASSUME NEW s, NEW o, o <= Len(s)
    PROVE  Begun(s, o) = Found(o)
  <1>1. (o <= Len(s)) = TRUE
    OBVIOUS
  <1> QED  BY <1>1 DEF Begun, Found

(* The fields of the records. *)
LEMMA FoundFields ==
    ASSUME NEW o
    PROVE  Found(o).ok /\ Found(o).offset = o /\ ~NoOffset.ok
  BY DEF Found, NoOffset

(* Behind nothing there is nothing. *)
LEMMA NotSkipped ==
    ASSUME NEW s
    PROVE  SkipItem(s, NoOffset) = NoOffset
  BY DEF SkipItem, NoOffset

(* consume_items stops within the slice, or finds nothing. *)
LEMMA ConsumeType ==
    ASSUME NEW s \in Seq(Byte), NEW st \in Nat, st <= Len(s), NEW n \in Nat, NEW r, r = ConsumeItems(s, st, n)
    PROVE  r = NoOffset \/ (r = Found(r.offset) /\ r.offset \in Nat /\ r.offset <= Len(s))
  <1> DEFINE C(k) == ConsumeItems(s, st, k)
             Fine(x) == x = NoOffset \/ (x = Found(x.offset) /\ x.offset \in Nat /\ x.offset <= Len(s))
             Good == {k \in Nat : Fine(C(k))}
  <1>1. 0 \in Good
    <2>1. C(0) = Found(st)
      BY ConsumeStep, BegunFound
    <2> HIDE DEF C
    <2> QED  BY <2>1, FoundFields
  <1>2. ASSUME NEW k \in Good PROVE k + 1 \in Good
    <2>1. k \in Nat /\ Fine(C(k)) /\ C(k + 1) = SkipItem(s, C(k))
      BY <1>2, ConsumeStep
    <2> HIDE DEF C
    <2>2. CASE C(k) = NoOffset
      BY <2>1, <2>2, NotSkipped
    <2>3. CASE C(k) = Found(C(k).offset) /\ C(k).offset \in Nat /\ C(k).offset <= Len(s)
      <3> DEFINE o == C(k).offset
                 x == C(k + 1)
      <3>1. o \in Nat /\ o <= Len(s) /\ x = SkipItem(s, Found(o))
        BY <2>1, <2>3
      <3> HIDE DEF o, x
      <3>2. Fine(x)
        BY <3>1, SkipFacts
      <3> QED  BY <2>1, <3>2 DEF x
    <2> QED  BY <2>1, <2>2, <2>3
  <1>3. Good \in SUBSET Nat
    OBVIOUS
  <1> HIDE DEF Good
  <1>4. Good = Nat
    BY <1>1, <1>2, <1>3, AllNaturals
  <1>5. Fine(C(n))
    <2> HIDE DEF Fine, C
    <2> QED  BY <1>4 DEF Good
  <1>6. C(n) = r
    OBVIOUS
  <1> HIDE DEF C, Fine
  <1>7. Fine(r)
    BY ONLY <1>5, <1>6
  <1> QED  BY ONLY <1>7 DEF Fine

(* From where some items were consumed, the next ones are found as from the start. *)
LEMMA ConsumeFrom ==
    ASSUME NEW s \in Seq(Byte), NEW st \in Nat, NEW a \in Nat, NEW b \in Nat,
           NEW o, ConsumeItems(s, st, a) = Found(o), o <= Len(s)
    PROVE  ConsumeItems(s, o, b) = ConsumeItems(s, st, a + b)
  <1> DEFINE C(k) == ConsumeItems(s, st, k)
             D(k) == ConsumeItems(s, o, k)
             Good == {k \in Nat : D(k) = C(a + k)}
  <1>1. 0 \in Good
    <2>1. D(0) = Found(o) /\ C(a) = Found(o)
      BY ConsumeStep, BegunFound
    <2>2. a + 0 = a
      OBVIOUS
    <2> HIDE DEF C, D
    <2> QED  BY <2>1, <2>2
  <1>2. ASSUME NEW k \in Good PROVE k + 1 \in Good
    <2> DEFINE j == a + k
    <2>a. k \in Nat /\ D(k) = C(j)
      BY <1>2
    <2>b. D(k + 1) = SkipItem(s, D(k))
      BY ONLY <2>a, ConsumeStep
    <2>c. j \in Nat /\ a + (k + 1) = j + 1
      BY <2>a
    <2>1. k \in Nat /\ D(k) = C(j) /\ D(k + 1) = SkipItem(s, D(k)) /\ j \in Nat /\ a + (k + 1) = j + 1
      BY <2>a, <2>b, <2>c
    <2> HIDE DEF j
    <2>2. C(j + 1) = SkipItem(s, C(j))
      BY <2>1, ConsumeStep
    <2> HIDE DEF C, D
    <2> QED  BY <2>1, <2>2
  <1>3. Good \in SUBSET Nat
    OBVIOUS
  <1> HIDE DEF Good
  <1>4. Good = Nat
    BY <1>1, <1>2, <1>3, AllNaturals
  <1> QED  BY <1>4 DEF Good

(* What the cache of a list's view may hold: items, and where they begin. *)
Start(s) == PayloadInfo(s).header_len

CacheFor(s, cache) ==
    \A c \in cache :
        /\ IsList(s) /\ c.index \in Nat /\ c.offset \in Nat /\ c.offset <= Len(s)
        /\ ConsumeItems(s, Start(s), c.index) = Found(c.offset)

(* A view of a slice that ends where its list does. *)
ViewOf(s, cache) == s \in Seq(Byte) /\ (IsList(s) => Exact(s)) /\ CacheFor(s, cache)

(* The extent of an exact slice is the slice. *)
LEMMA ExactFacts ==
    ASSUME NEW s \in Seq(Byte), Exact(s)
    PROVE  /\ PayloadInfo(s).ok /\ Total(PayloadInfo(s)) = Len(s) /\ Start(s) \in Nat /\ Start(s) <= Len(s)
           /\ SubSeq(s, 1, Total(PayloadInfo(s))) = s
  <1>1. PayloadInfo(s).ok /\ Total(PayloadInfo(s)) = Len(s)
    BY DEF Exact
  <1>2. Start(s) \in Nat /\ Start(s) <= Len(s)
    BY <1>1, PayloadFacts DEF Start
  <1>3. SubSeq(s, 1, Len(s)) = s
    OBVIOUS
  <1> QED  BY <1>1, <1>2, <1>3

(* With any such cache, at looks for an item in the same place. *)
LEMMA FindSame ==
    ASSUME NEW s, NEW cache, ViewOf(s, cache), NEW i \in Nat
    PROVE  /\ IsList(s) => Find(s, cache, i) = ConsumeItems(s, Start(s), i)
           /\ ~IsList(s) => Find(s, cache, i) = NoOffset
  <1> DEFINE near == {c \in cache : c.index <= i}
  <1>1. CASE ~IsList(s)
    BY <1>1 DEF Find
  <1>2. CASE IsList(s) /\ near = {}
    <2>1. Find(s, cache, i) = FindFirst(s, PayloadInfo(s), i)
      BY <1>2 DEF Find
    <2>2. s \in Seq(Byte) /\ Exact(s)
      BY <1>2 DEF ViewOf
    <2>3. PayloadInfo(s).ok /\ SubSeq(s, 1, Total(PayloadInfo(s))) = s
      BY <2>2, ExactFacts
    <2> QED  BY <1>2, <2>1, <2>3 DEF FindFirst, Start
  <1>3. CASE IsList(s) /\ near # {}
    <2> DEFINE c == CHOOSE x \in near : TRUE
               a == c.index
               b == i - a
               o == c.offset
               st == Start(s)
    <2>1. c \in near
      BY <1>3
    <2>2. Find(s, cache, i) = ConsumeItems(s, o, b)
      BY <1>3 DEF Find, FindFrom
    <2>3. /\ a \in Nat /\ a <= i /\ o <= Len(s) /\ ConsumeItems(s, st, a) = Found(o) /\ s \in Seq(Byte)
      BY <2>1 DEF ViewOf, CacheFor
    <2>4. st \in Nat
      BY <1>3, <2>3, ExactFacts DEF ViewOf
    <2>5. b \in Nat /\ a + b = i
      BY <2>3
    <2> HIDE DEF c, a, b, o, st
    <2>6. ConsumeItems(s, o, b) = ConsumeItems(s, st, a + b)
      BY ONLY <2>3, <2>4, <2>5, ConsumeFrom
    <2>7. ConsumeItems(s, o, b) = ConsumeItems(s, st, i)
      BY ONLY <2>5, <2>6
    <2> QED  BY <1>3, <2>2, <2>7 DEF st
  <1> QED  BY <1>1, <1>2, <1>3

(* So it finds the same item ... *)
LEMMA ItemSame ==
    ASSUME NEW s, NEW cache, ViewOf(s, cache), NEW i \in Nat
    PROVE  ItemAt(s, cache, i) = ItemAt(s, {}, i)
  <1>1. ViewOf(s, {})
    BY DEF ViewOf, CacheFor
  <1>2. Find(s, cache, i) = Find(s, {}, i)
    BY <1>1, FindSame
  <1>3. CASE ~IsList(s)
    <2>1. Find(s, cache, i) = NoOffset /\ Find(s, {}, i) = NoOffset
      BY <1>1, <1>3, FindSame
    <2> QED  BY <2>1, FoundFields DEF ItemAt, ItemFound
  <1>4. CASE IsList(s)
    <2> DEFINE f == Find(s, cache, i)
    <2>1. Total(PayloadInfo(s)) = Len(s)
      BY <1>4, ExactFacts DEF ViewOf
    <2>2. Rest(s, cache, f, i) = Rest(s, {}, f, i)
      BY <2>1 DEF Rest
    <2> HIDE DEF f
    <2>3. ItemAt(s, cache, i) = ItemFound(s, cache, f, i) /\ ItemAt(s, {}, i) = ItemFound(s, {}, f, i)
      BY <1>2 DEF ItemAt, f
    <2> QED  BY <2>2, <2>3 DEF ItemFound
  <1> QED  BY <1>3, <1>4

(* ... and keeps the cache so. *)
LEMMA CacheKept ==
    ASSUME NEW s, NEW cache, ViewOf(s, cache), NEW i \in Nat
    PROVE  ViewOf(s, CacheAfter(s, cache, i))
  <1> DEFINE f == Find(s, cache, i)
             k == CacheAfter(s, cache, i)
  <1>1. CASE ~f.ok
    BY <1>1 DEF CacheAfter, Cached
  <1>2. CASE f.ok
    <2>1. k = {[index |-> i, offset |-> f.offset]}
      BY <1>2 DEF CacheAfter, Cached
    <2>2. IsList(s)
      BY <1>2, FindSame, FoundFields
    <2>3. f = ConsumeItems(s, Start(s), i) /\ s \in Seq(Byte) /\ Exact(s)
      BY <2>2, FindSame DEF ViewOf
    <2>4. Start(s) \in Nat /\ Start(s) <= Len(s)
      BY <2>3, ExactFacts
    <2> HIDE DEF f, k
    <2>5. f = Found(f.offset) /\ f.offset \in Nat /\ f.offset <= Len(s)
      BY <1>2, <2>3, <2>4, ConsumeType, FoundFields
    <2>6. CacheFor(s, k)
      <3> SUFFICES ASSUME NEW c \in k
                   PROVE  /\ IsList(s) /\ c.index \in Nat /\ c.offset \in Nat /\ c.offset <= Len(s)
                          /\ ConsumeItems(s, Start(s), c.index) = Found(c.offset)
        BY DEF CacheFor
      <3>1. c.index = i /\ c.offset = f.offset
        BY <2>1
      <3> QED  BY <2>2, <2>3, <2>5, <3>1
    <2> QED  BY <2>3, <2>6 DEF ViewOf, k
  <1> QED  BY <1>1, <1>2

------------------------------------------------------------------------------
(* A list with more bytes behind it. *)

(* A slice begins with another. *)
Begins(t, u) ==
    /\ t \in Seq(Byte) /\ u \in Seq(Byte) /\ Len(t) <= Len(u)
    /\ \A j \in 1..Len(t) : u[j] = t[j]

(* An item that is there is the same in what goes on behind it. *)
LEMMA InfoInFront ==
    ASSUME NEW t, NEW u, Begins(t, u), PayloadInfo(t).ok
    PROVE  /\ PayloadInfo(u) = PayloadInfo(t)
           /\ SubSeq(u, 1, Total(PayloadInfo(t))) = SubSeq(t, 1, Total(PayloadInfo(t)))
  <1> DEFINE r == PayloadInfo(t)
             n == Total(r)
             h == Reach(r)
  <1>1. t \in Seq(Byte) /\ u \in Seq(Byte) /\ Len(t) <= Len(u) /\ \A j \in 1..Len(t) : u[j] = t[j]
    BY DEF Begins
  <1>2. /\ t # <<>> /\ r = InfoOfFirst(t) /\ r.ok /\ n \in Nat \ {0} /\ n <= Len(t) /\ h \in 1..n
    BY <1>1, PayloadFacts
  <1>3. Len(t) \in Nat /\ Len(u) \in Nat
    BY <1>1
  <1> HIDE DEF r, n, h
  <1>4. h <= Len(u) /\ n <= Len(u) /\ \A j \in 1..h : j \in 1..Len(t)
    BY ONLY <1>1, <1>2, <1>3
  <1>5. \A j \in 1..h : u[j] = t[j]
    BY ONLY <1>1, <1>4
  <1>6. InfoOfFirst(u) = InfoOfFirst(t) /\ u # <<>>
    <2>1. InfoOfFirst(t).ok /\ h = Reach(InfoOfFirst(t))
      BY <1>2 DEF h
    <2> QED  BY ONLY <1>1, <1>2, <1>4, <1>5, <2>1, PrefixInfo
  <1>7. InfoOfFirst(u).ok /\ Total(InfoOfFirst(u)) <= Len(u)
    BY <1>2, <1>4, <1>6 DEF n
  <1>8. PayloadInfo(u) = r
    BY <1>1, <1>2, <1>6, <1>7, PayloadIs
  <1> DEFINE a == SubSeq(u, 1, n)
             b == SubSeq(t, 1, n)
  <1>9. 1 \in Nat \ {0} /\ n \in Nat /\ 1 <= n /\ (n - 1) + 1 = n /\ \A j \in 1..n : (1 + j) - 1 = j
    BY ONLY <1>2
  <1>10. a \in Seq(Byte) /\ Len(a) = n /\ \A j \in 1..n : a[j] = u[j]
    <2>1. /\ a \in Seq(Byte) /\ Len(a) = (IF 1 <= n THEN (n - 1) + 1 ELSE 0)
          /\ \A j \in 1..((n - 1) + 1) : a[j] = u[(1 + j) - 1]
      BY ONLY <1>1, <1>4, <1>9, SliceOf
    <2> HIDE DEF a
    <2> QED  BY ONLY <1>9, <2>1
  <1>11. b \in Seq(Byte) /\ Len(b) = n /\ \A j \in 1..n : b[j] = t[j]
    <2>1. /\ b \in Seq(Byte) /\ Len(b) = (IF 1 <= n THEN (n - 1) + 1 ELSE 0)
          /\ \A j \in 1..((n - 1) + 1) : b[j] = t[(1 + j) - 1]
      BY ONLY <1>1, <1>2, <1>9, SliceOf
    <2> HIDE DEF b
    <2> QED  BY ONLY <1>9, <2>1
  <1> HIDE DEF a, b
  <1>12. \A j \in 1..n : a[j] = b[j]
    <2>1. \A j \in 1..n : j \in 1..Len(t)
      BY ONLY <1>2, <1>3
    <2> QED  BY ONLY <1>1, <1>10, <1>11, <2>1
  <1>13. a = b
    BY ONLY <1>10, <1>11, <1>12, SeqEqual
  <1> QED  BY <1>8, <1>13 DEF a, b, n, r

(* What is left of a slice at an offset begins with what is left of its front. *)
LEMMA RestBegins ==
    ASSUME NEW s \in Seq(Byte), NEW n \in Nat, n <= Len(s), NEW o \in Nat, o <= n
    PROVE  Begins(SubSeq(s, o + 1, n), SubSeq(s, o + 1, Len(s)))
  <1> DEFINE t == SubSeq(s, o + 1, n)
             u == SubSeq(s, o + 1, Len(s))
             m == o + 1
  <1>1. m \in Nat \ {0} /\ m = o + 1 /\ Len(s) \in Nat
    OBVIOUS
  <1>2. u \in Seq(Byte) /\ Len(u) = Len(s) - o /\ \A j \in 1..(Len(s) - o) : u[j] = s[o + j]
    <2>1. o <= Len(s)
      BY <1>1
    <2> HIDE DEF u
    <2> QED  BY <2>1, RestOf DEF u
  <1> HIDE DEF m
  <1>3. t \in Seq(Byte) /\ Len(t) = (IF m <= n THEN (n - m) + 1 ELSE 0) /\ \A j \in 1..((n - m) + 1) : t[j] = s[(m + j) - 1]
    BY <1>1, SliceOf
  <1> HIDE DEF t, u
  <1>4. (IF m <= n THEN (n - m) + 1 ELSE 0) = n - o /\ (n - m) + 1 = n - o /\ \A j \in 1..(n - o) : (m + j) - 1 = o + j
    BY ONLY <1>1, n \in Nat, o \in Nat, o <= n
  <1>5. Len(t) = n - o /\ \A j \in 1..(n - o) : t[j] = s[o + j]
    BY ONLY <1>3, <1>4
  <1>6. n - o <= Len(s) - o /\ \A j \in 1..(n - o) : j \in 1..(Len(s) - o)
    BY ONLY <1>1, n \in Nat, o \in Nat, o <= n, n <= Len(s)
  <1>7. \A j \in 1..Len(t) : u[j] = t[j]
    BY ONLY <1>2, <1>5, <1>6
  <1> QED  BY <1>2, <1>3, <1>5, <1>6, <1>7 DEF Begins, t, u

(* The front of a slice. *)
LEMMA SliceFront ==
    ASSUME NEW s \in Seq(Byte), NEW n \in Nat, n <= Len(s), NEW p, p = SubSeq(s, 1, n)
    PROVE  /\ p \in Seq(Byte) /\ Len(p) = n
           /\ \A o \in Nat : o <= n => SubSeq(p, o + 1, n) = SubSeq(s, o + 1, n)
  <1>1. 1 \in Nat \ {0} /\ (IF 1 <= n THEN (n - 1) + 1 ELSE 0) = n /\ (n - 1) + 1 = n /\ \A j \in 1..n : (1 + j) - 1 = j
    OBVIOUS
  <1>2. p \in Seq(Byte) /\ Len(p) = n /\ \A j \in 1..n : p[j] = s[j]
    <2>1. /\ p \in Seq(Byte) /\ Len(p) = (IF 1 <= n THEN (n - 1) + 1 ELSE 0)
          /\ \A j \in 1..((n - 1) + 1) : p[j] = s[(1 + j) - 1]
      BY ONLY s \in Seq(Byte), n \in Nat, n <= Len(s), p = SubSeq(s, 1, n), <1>1, SliceOf
    <2> QED  BY ONLY <1>1, <2>1
  <1>3. ASSUME NEW o \in Nat, o <= n PROVE SubSeq(p, o + 1, n) = SubSeq(s, o + 1, n)
    <2> DEFINE m == o + 1
               k == (n - m) + 1
               a == SubSeq(p, m, n)
               b == SubSeq(s, m, n)
    <2>1. m \in Nat \ {0} /\ n <= Len(p) /\ \A j \in 1..k : (m + j) - 1 \in 1..n
      BY <1>2
    <2>l. (IF m <= n THEN (n - m) + 1 ELSE 0) = k /\ k \in Nat
      BY <1>3
    <2> HIDE DEF m
    <2>2. a \in Seq(Byte) /\ Len(a) = k /\ \A j \in 1..k : a[j] = p[(m + j) - 1]
      <3>1. /\ a \in Seq(Byte) /\ Len(a) = (IF m <= n THEN (n - m) + 1 ELSE 0)
            /\ \A j \in 1..((n - m) + 1) : a[j] = p[(m + j) - 1]
        BY ONLY n \in Nat, <1>2, <2>1, SliceOf
      <3> HIDE DEF a
      <3> QED  BY ONLY <2>l, <3>1 DEF k
    <2>3. b \in Seq(Byte) /\ Len(b) = k /\ \A j \in 1..k : b[j] = s[(m + j) - 1]
      <3>1. /\ b \in Seq(Byte) /\ Len(b) = (IF m <= n THEN (n - m) + 1 ELSE 0)
            /\ \A j \in 1..((n - m) + 1) : b[j] = s[(m + j) - 1]
        BY ONLY s \in Seq(Byte), n \in Nat, n <= Len(s), <2>1, SliceOf
      <3> HIDE DEF b
      <3> QED  BY ONLY <2>l, <3>1 DEF k
    <2> HIDE DEF a, b, k
    <2>4. \A j \in 1..k : a[j] = b[j]
      BY ONLY <1>2, <2>1, <2>2, <2>3
    <2>5. a = b
      BY ONLY <2>2, <2>3, <2>4, SeqEqual
    <2> QED  BY <2>5 DEF a, b, m
  <1> QED  BY <1>2, <1>3

IsFront(s, n, p) == s \in Seq(Byte) /\ n \in Nat /\ n <= Len(s) /\ p = SubSeq(s, 1, n)

(* An item passed over in the front of a slice is passed over in the slice. *)
LEMMA SkipInFront ==
    ASSUME NEW s, NEW n, NEW p, IsFront(s, n, p), NEW o \in Nat, o <= n, SkipItem(p, Found(o)).ok
    PROVE  SkipItem(s, Found(o)) = SkipItem(p, Found(o))
  <1> DEFINE t == SubSeq(p, o + 1, Len(p))
             u == SubSeq(s, o + 1, Len(s))
  <1>0. s \in Seq(Byte) /\ n \in Nat /\ n <= Len(s)
    BY DEF IsFront
  <1>1. Len(p) = n /\ SubSeq(p, o + 1, n) = SubSeq(s, o + 1, n)
    BY SliceFront DEF IsFront
  <1>2. Begins(t, u)
    BY <1>0, <1>1, RestBegins
  <1>3. SkipItem(p, Found(o)) = Behind(o, PayloadInfo(t)) /\ SkipItem(s, Found(o)) = Behind(o, PayloadInfo(u))
    BY DEF SkipItem, Found
  <1> HIDE DEF t, u
  <1>4. PayloadInfo(t).ok
    BY <1>3 DEF Behind, NoOffset
  <1>5. PayloadInfo(u) = PayloadInfo(t)
    BY <1>2, <1>4, InfoInFront
  <1> QED  BY <1>3, <1>5

(* So are several. *)
LEMMA ConsumeInFront ==
    ASSUME NEW s, NEW n, NEW p, IsFront(s, n, p), NEW o \in Nat, o <= n, NEW b \in Nat, ConsumeItems(p, o, b).ok
    PROVE  ConsumeItems(s, o, b) = ConsumeItems(p, o, b)
  <1> DEFINE C(k) == ConsumeItems(p, o, k)
             D(k) == ConsumeItems(s, o, k)
             Good == {k \in Nat : C(k).ok => D(k) = C(k)}
  <1>1. p \in Seq(Byte) /\ Len(p) = n /\ o <= Len(p) /\ o <= Len(s)
    BY SliceFront DEF IsFront
  <1>2. 0 \in Good
    <2>1. C(0) = Begun(p, o) /\ D(0) = Begun(s, o)
      BY ONLY ConsumeStep
    <2>2. Begun(p, o) = Found(o) /\ Begun(s, o) = Found(o)
      BY ONLY <1>1, BegunFound
    <2> HIDE DEF C, D
    <2> QED  BY <2>1, <2>2
  <1>3. ASSUME NEW k \in Good PROVE k + 1 \in Good
    <2>1. k \in Nat /\ (C(k).ok => D(k) = C(k))
      BY <1>3
    <2>2. C(k + 1) = SkipItem(p, C(k)) /\ D(k + 1) = SkipItem(s, D(k))
      BY <2>1, ConsumeStep
    <2>3. C(k) = NoOffset \/ (C(k) = Found(C(k).offset) /\ C(k).offset \in Nat /\ C(k).offset <= n)
      <3> DEFINE r == C(k)
      <3>1. r = NoOffset \/ (r = Found(r.offset) /\ r.offset \in Nat /\ r.offset <= Len(p))
        BY ONLY <1>1, <2>1, o \in Nat, ConsumeType
      <3> HIDE DEF r
      <3>2. r = NoOffset \/ (r = Found(r.offset) /\ r.offset \in Nat /\ r.offset <= n)
        BY ONLY <1>1, <3>1
      <3> QED  BY ONLY <3>2 DEF r
    <2> HIDE DEF C, D
    <2> SUFFICES ASSUME C(k + 1).ok PROVE D(k + 1) = C(k + 1)
      BY <2>1
    <2>4. C(k) # NoOffset
      BY <2>2, NotSkipped, FoundFields
    <2> DEFINE e == C(k).offset
    <2>5. C(k) = Found(e) /\ e \in Nat /\ e <= n /\ D(k) = Found(e)
      BY <2>1, <2>3, <2>4, FoundFields
    <2> HIDE DEF e
    <2>6. SkipItem(p, Found(e)).ok
      BY <2>2, <2>5
    <2>7. SkipItem(s, Found(e)) = SkipItem(p, Found(e))
      BY ONLY <2>5, <2>6, IsFront(s, n, p), SkipInFront
    <2> QED  BY <2>2, <2>5, <2>7
  <1>4. Good \in SUBSET Nat
    OBVIOUS
  <1> HIDE DEF Good
  <1>5. Good = Nat
    BY <1>2, <1>3, <1>4, AllNaturals
  <1> QED  BY <1>5 DEF Good

(* Where an item is found, those before it are. *)
LEMMA ConsumeOver ==
    ASSUME NEW s, NEW st, NEW a \in Nat, NEW b \in Nat, ConsumeItems(s, st, a) = NoOffset
    PROVE  ConsumeItems(s, st, a + b) = NoOffset
  <1> DEFINE C(k) == ConsumeItems(s, st, k)
             Good == {k \in Nat : C(a + k) = NoOffset}
  <1>1. 0 \in Good
    <2>1. a + 0 = a
      OBVIOUS
    <2> QED  BY <2>1
  <1>2. ASSUME NEW k \in Good PROVE k + 1 \in Good
    <2> DEFINE j == a + k
    <2>1. k \in Nat /\ C(j) = NoOffset /\ j \in Nat /\ a + (k + 1) = j + 1
      BY <1>2
    <2> HIDE DEF j
    <2>2. C(j + 1) = SkipItem(s, C(j))
      BY <2>1, ConsumeStep
    <2> HIDE DEF C
    <2>3. C(j + 1) = NoOffset
      BY <2>1, <2>2, NotSkipped
    <2>4. C(a + (k + 1)) = NoOffset
      BY ONLY <2>1, <2>3
    <2> QED  BY <2>1, <2>4
  <1>3. Good \in SUBSET Nat
    OBVIOUS
  <1> HIDE DEF Good
  <1>4. Good = Nat
    BY <1>1, <1>2, <1>3, AllNaturals
  <1> QED  BY <1>4 DEF Good

(* Item i of a list, from its first, and what it is looked for in. *)
Walk(s, i) == FindFirst(s, PayloadInfo(s), i)
ListPart(s) == SubSeq(s, 1, Total(PayloadInfo(s)))

(* What the cache of any view may hold: an item that is there is where it says. *)
CachePlace(s, c) ==
    /\ IsList(s) /\ c.index \in Nat /\ c.offset \in Nat /\ c.offset <= Len(s)
    /\ Walk(s, c.index).ok => Walk(s, c.index).offset = c.offset

AnyView(s, cache) == s \in Seq(Byte) /\ \A c \in cache : CachePlace(s, c)

(* The walk from the first item stays in the list. *)
LEMMA WalkFacts ==
    ASSUME NEW s \in Seq(Byte), NEW i \in Nat, Walk(s, i).ok
    PROVE  /\ PayloadInfo(s).ok /\ Total(PayloadInfo(s)) \in Nat /\ Total(PayloadInfo(s)) <= Len(s)
           /\ Start(s) \in Nat /\ Start(s) <= Total(PayloadInfo(s))
           /\ ListPart(s) \in Seq(Byte) /\ Len(ListPart(s)) = Total(PayloadInfo(s))
           /\ \A k \in Nat : Walk(s, k) = ConsumeItems(ListPart(s), Start(s), k)
           /\ Walk(s, i) = Found(Walk(s, i).offset)
           /\ Walk(s, i).offset \in Nat /\ Walk(s, i).offset <= Total(PayloadInfo(s))
  <1> DEFINE p == ListPart(s)
             n == Total(PayloadInfo(s))
             st == Start(s)
             r == Walk(s, i)
  <1>1. PayloadInfo(s).ok
    BY FoundFields DEF Walk, FindFirst
  <1>2. n \in Nat /\ n <= Len(s) /\ st \in Nat /\ st <= n
    BY <1>1, PayloadFacts DEF Start
  <1>3. p \in Seq(Byte) /\ Len(p) = n
    BY <1>2, SliceFront DEF ListPart
  <1>4. \A k \in Nat : Walk(s, k) = ConsumeItems(p, st, k)
    BY <1>1 DEF Walk, FindFirst, ListPart, Start
  <1>5. r = ConsumeItems(p, st, i) /\ r.ok /\ st <= Len(p)
    BY <1>2, <1>3, <1>4
  <1> HIDE DEF p, n, st, r
  <1>6. r = NoOffset \/ (r = Found(r.offset) /\ r.offset \in Nat /\ r.offset <= Len(p))
    BY ONLY <1>2, <1>3, <1>5, i \in Nat, ConsumeType
  <1>7. r = Found(r.offset) /\ r.offset \in Nat /\ r.offset <= n
    BY ONLY <1>3, <1>5, <1>6, FoundFields
  <1> QED  BY <1>1, <1>2, <1>3, <1>4, <1>7 DEF p, n, st, r

(* An item that is there is looked for in the same place with any such cache. *)
LEMMA FindKept ==
    ASSUME NEW s, NEW cache, AnyView(s, cache), IsList(s), NEW i \in Nat, Walk(s, i).ok
    PROVE  Find(s, cache, i) = Walk(s, i)
  <1> DEFINE near == {c \in cache : c.index <= i}
  <1>1. CASE near = {}
    BY <1>1 DEF Find, Walk
  <1>2. CASE near # {}
    <2> DEFINE c == CHOOSE x \in near : TRUE
               a == c.index
               b == i - a
               o == c.offset
               p == ListPart(s)
               n == Total(PayloadInfo(s))
               st == Start(s)
    <2>1. c \in near
      BY <1>2
    <2>2. Find(s, cache, i) = ConsumeItems(s, o, b)
      BY <1>2 DEF Find, FindFrom
    <2>3. s \in Seq(Byte) /\ CachePlace(s, c) /\ a <= i
      BY <2>1 DEF AnyView
    <2>4. a \in Nat /\ o \in Nat /\ (Walk(s, a).ok => Walk(s, a).offset = o)
      BY <2>3 DEF CachePlace
    <2>5. /\ n \in Nat /\ n <= Len(s) /\ st \in Nat /\ st <= n /\ p \in Seq(Byte) /\ Len(p) = n
          /\ p = SubSeq(s, 1, n) /\ \A k \in Nat : Walk(s, k) = ConsumeItems(p, st, k)
      BY <2>3, WalkFacts DEF ListPart
    <2>6. b \in Nat /\ a + b = i
      BY <2>3, <2>4
    <2> HIDE DEF c, a, b, o, p, n, st
    <2>7. Walk(s, a).ok
      <3> SUFFICES ASSUME ~Walk(s, a).ok PROVE FALSE
        OBVIOUS
      <3> DEFINE r == ConsumeItems(p, st, a)
      <3>1. r = NoOffset \/ (r = Found(r.offset) /\ r.offset \in Nat /\ r.offset <= Len(p))
        BY <2>4, <2>5, ConsumeType
      <3>2. Walk(s, a) = r
        BY <2>4, <2>5
      <3> HIDE DEF r
      <3>3. r = NoOffset
        BY <3>1, <3>2, FoundFields
      <3>4. ConsumeItems(p, st, a + b) = NoOffset
        BY <2>4, <2>6, <3>3, ConsumeOver DEF r
      <3>5. Walk(s, i) = ConsumeItems(p, st, i)
        BY <2>5
      <3> QED  BY <2>6, <3>4, <3>5, FoundFields
    <2>8. ConsumeItems(p, st, a) = Found(o) /\ o <= n
      BY <2>3, <2>4, <2>5, <2>7, WalkFacts DEF n
    <2>9. ConsumeItems(p, o, b) = Walk(s, i)
      <3>1. ConsumeItems(p, o, b) = ConsumeItems(p, st, a + b)
        <4>1. o <= Len(p) /\ p \in Seq(Byte) /\ st \in Nat
          BY ONLY <2>5, <2>8
        <4> QED  BY ONLY <2>4, <2>6, <2>8, <4>1, ConsumeFrom
      <3>2. Walk(s, i) = ConsumeItems(p, st, i)
        BY <2>5
      <3> QED  BY ONLY <2>6, <3>1, <3>2
    <2>10. ConsumeItems(p, o, b).ok
      BY <2>9
    <2>11. ConsumeItems(s, o, b) = ConsumeItems(p, o, b)
      <3>1. IsFront(s, n, p)
        BY ONLY <2>3, <2>5 DEF IsFront
      <3> QED  BY ONLY <2>4, <2>6, <2>8, <2>10, <3>1, ConsumeInFront
    <2> QED  BY <2>2, <2>9, <2>11
  <1> QED  BY <1>1, <1>2

(* Whatever is found is in the slice. *)
LEMMA FindThere ==
    ASSUME NEW s, NEW cache, AnyView(s, cache), NEW i \in Nat, NEW f, f = Find(s, cache, i), f.ok
    PROVE  /\ IsList(s) /\ f.offset \in Nat /\ f.offset <= Len(s)
           /\ \/ (\E c \in cache : c.index <= i)
              \/ (~(\E c \in cache : c.index <= i) /\ f = Walk(s, i))
  <1> DEFINE near == {c \in cache : c.index <= i}
  <1>1. IsList(s)
    BY FoundFields DEF Find
  <1>2. s \in Seq(Byte)
    BY DEF AnyView
  <1>3. CASE near = {}
    <2>1. f = Walk(s, i)
      BY <1>1, <1>3 DEF Find, Walk
    <2>2. Walk(s, i).ok
      BY <2>1
    <2>3. Walk(s, i).offset \in Nat /\ Walk(s, i).offset <= Len(s)
      <3>1. /\ Walk(s, i).offset \in Nat /\ Walk(s, i).offset <= Total(PayloadInfo(s))
            /\ Total(PayloadInfo(s)) \in Nat /\ Total(PayloadInfo(s)) <= Len(s)
        BY <1>2, <2>2, WalkFacts
      <3> DEFINE n == Total(PayloadInfo(s))
                 w == Walk(s, i).offset
      <3> HIDE DEF n, w
      <3>2. w \in Nat /\ n \in Nat /\ Len(s) \in Nat /\ w <= n /\ n <= Len(s)
        BY <1>2, <3>1 DEF n, w
      <3>3. w <= Len(s)
        BY ONLY <3>2
      <3> QED  BY <3>2, <3>3 DEF w
    <2> QED  BY <1>1, <1>3, <2>1, <2>3
  <1>4. CASE near # {}
    <2> DEFINE c == CHOOSE x \in near : TRUE
               b == i - c.index
               o == c.offset
    <2>1. c \in near
      BY <1>4
    <2>2. f = ConsumeItems(s, o, b)
      BY <1>1, <1>4 DEF Find, FindFrom
    <2>3. CachePlace(s, c) /\ c.index <= i
      BY <2>1 DEF AnyView
    <2>4. b \in Nat /\ o \in Nat /\ o <= Len(s)
      BY <2>3 DEF CachePlace
    <2> HIDE DEF c, b, o
    <2>5. f = NoOffset \/ (f = Found(f.offset) /\ f.offset \in Nat /\ f.offset <= Len(s))
      BY ONLY <1>2, <2>2, <2>4, ConsumeType
    <2>6. f.offset \in Nat /\ f.offset <= Len(s)
      BY <2>5, FoundFields
    <2> QED  BY <1>1, <1>4, <2>6
  <1> QED  BY <1>3, <1>4

(* What the item is read from is in the slice, too. *)
LEMMA RestThere ==
    ASSUME NEW s, NEW cache, AnyView(s, cache), NEW i \in Nat, NEW f, f = Find(s, cache, i), f.ok
    PROVE  Rest(s, cache, f, i) \in Seq(Byte)
  <1>1. /\ s \in Seq(Byte) /\ f.offset \in Nat /\ f.offset <= Len(s)
        /\ \/ (\E c \in cache : c.index <= i)
           \/ (~(\E c \in cache : c.index <= i) /\ f = Walk(s, i))
    BY FindThere DEF AnyView
  <1>2. CASE \E c \in cache : c.index <= i
    <2>1. Rest(s, cache, f, i) = SubSeq(s, f.offset + 1, Len(s))
      BY <1>2 DEF Rest
    <2> QED  BY <1>1, <2>1, RestOf
  <1>3. CASE ~(\E c \in cache : c.index <= i) /\ f = Walk(s, i)
    <2> DEFINE n == Total(PayloadInfo(s))
               m == f.offset + 1
    <2>1. Rest(s, cache, f, i) = SubSeq(s, m, n)
      BY <1>3 DEF Rest
    <2>2. Walk(s, i).ok
      BY <1>3
    <2>3. n \in Nat /\ n <= Len(s)
      BY <1>1, <2>2, WalkFacts
    <2>4. m \in Nat \ {0}
      BY <1>1
    <2> HIDE DEF m, n
    <2>5. SubSeq(s, m, n) \in Seq(Byte)
      BY <1>1, <2>3, <2>4, SliceOf
    <2> QED  BY <2>1, <2>5
  <1> QED  BY <1>1, <1>2, <1>3

(* With any such cache, an item that a new view finds is found ... *)
LEMMA ItemKept ==
    ASSUME NEW s, NEW cache, AnyView(s, cache), NEW i \in Nat, ItemAt(s, {}, i).ok
    PROVE  ItemAt(s, cache, i) = ItemAt(s, {}, i)
  <1> DEFINE f == Find(s, {}, i)
             n == Total(PayloadInfo(s))
             t == SubSeq(s, f.offset + 1, n)
             u == SubSeq(s, f.offset + 1, Len(s))
  <1>0. ~NotThere.ok
    BY DEF NotThere
  <1>1. f.ok
    BY <1>0 DEF ItemAt, ItemFound
  <1>2. AnyView(s, {})
    BY DEF AnyView
  <1>3. IsList(s) /\ s \in Seq(Byte) /\ f = Walk(s, i)
    BY <1>1, <1>2, FindThere DEF AnyView
  <1>4. Walk(s, i).ok
    BY <1>1, <1>3
  <1>5. Find(s, cache, i) = f
    BY <1>3, <1>4, FindKept
  <1>6. n \in Nat /\ n <= Len(s) /\ f.offset \in Nat /\ f.offset <= n
    BY <1>3, <1>4, WalkFacts
  <1>7. Rest(s, {}, f, i) = t /\ (Rest(s, cache, f, i) = t \/ Rest(s, cache, f, i) = u)
    BY DEF Rest
  <1>8. ItemAt(s, {}, i) = ReadItem(t, f.offset)
    BY <1>1, <1>7 DEF ItemAt, ItemFound
  <1>9. ItemAt(s, cache, i) = ReadItem(Rest(s, cache, f, i), f.offset)
    BY <1>1, <1>5 DEF ItemAt, ItemFound
  <1> DEFINE o == f.offset
  <1> HIDE DEF f, n
  <1>10. Begins(t, u)
    BY <1>3, <1>6, RestBegins
  <1> HIDE DEF t, u, o
  <1>11. PayloadInfo(t).ok
    BY <1>0, <1>8 DEF ReadItem, ItemOf
  <1>12. ReadItem(u, o) = ReadItem(t, o)
    BY <1>10, <1>11, InfoInFront DEF ReadItem, ItemOf
  <1> QED  BY <1>7, <1>8, <1>9, <1>12 DEF o

(* ... and the cache stays so. *)
LEMMA AnyCacheKept ==
    ASSUME NEW s, NEW cache, AnyView(s, cache), NEW i \in Nat
    PROVE  AnyView(s, CacheAfter(s, cache, i))
  <1> DEFINE f == Find(s, cache, i)
             k == CacheAfter(s, cache, i)
             d == [index |-> i, offset |-> f.offset]
  <1>1. CASE ~f.ok
    BY <1>1 DEF CacheAfter, Cached
  <1>2. CASE f.ok
    <2>1. k = {d}
      BY <1>2 DEF CacheAfter, Cached
    <2>2. IsList(s) /\ f.offset \in Nat /\ f.offset <= Len(s)
      BY <1>2, FindThere
    <2>3. Walk(s, i).ok => f = Walk(s, i)
      BY <2>2, FindKept
    <2> HIDE DEF f
    <2>4. d.index = i /\ d.offset = f.offset
      OBVIOUS
    <2> HIDE DEF k, d
    <2>5. CachePlace(s, d)
      BY <2>2, <2>3, <2>4 DEF CachePlace
    <2> QED  BY <2>1, <2>5 DEF AnyView, k
  <1> QED  BY <1>1, <1>2

------------------------------------------------------------------------------
(* The view of a slice. *)

(* What out returns when one item was appended is that item. *)
LEMMA OutIs ==
    ASSUME StreamInv, unfinished_lists = <<>>, Len(written[1]) = 1
    PROVE  /\ SubSeq(buffer, start_pos + 1, Len(buffer)) = written[1][1].bytes
           /\ \E I : Closed(I) /\ written[1][1] \in I
  <1> DEFINE w == written
             x == w[1][1]
             l == BytesOf(w[1])
  <1>1. Len(w) = 1 /\ Len(w) # 0
    <2>1. Len(unfinished_lists) = 0
      BY EmptySeq
    <2> QED  BY <2>1, Shape
  <1>2. PICK I, p : LaidOut(I, p, buffer, start_pos, w)
    BY DEF StreamInv, Laid
  <1> HIDE DEF w
  <1>3. /\ Closed(I) /\ Encoded(I) /\ w \in Seq(Seq(I)) /\ p \in Seq(Byte) /\ start_pos = Len(p)
        /\ LayoutTo(w, Len(w)) \in Seq(Byte) /\ buffer = p \o LayoutTo(w, Len(w))
    <2>1. Len(w) # 0
      BY <1>1
    <2> QED  BY ONLY <1>2, <2>1, LaidFacts
  <1>4. w[1] \in Seq(I)
    <2>1. 1 \in 1..Len(w)
      BY <1>1
    <2> DEFINE T == Seq(I)
    <2>2. w \in Seq(T)
      BY <1>3
    <2> HIDE DEF T
    <2>3. w[1] \in T
      BY ONLY <2>1, <2>2, ElementOfSeq
    <2> QED  BY <2>3 DEF T
  <1>5. x \in I /\ w[1] = <<x>>
    <2> DEFINE v == w[1]
    <2>1. v \in Seq(I) /\ Len(v) = 1
      BY <1>4 DEF w
    <2> HIDE DEF v
    <2>2. 1 \in 1..Len(v)
      BY <2>1
    <2>3. v[1] \in I
      BY ONLY <2>1, <2>2, ElementOfSeq
    <2>4. v = <<v[1]>>
      BY <2>1
    <2> QED  BY <2>3, <2>4 DEF v
  <1>6. LayoutTo(w, Len(w)) = l
    <2>1. LayoutTo(w, 0 + 1) = LayoutTo(w, 0) \o Level(w, 0 + 1)
      <3>1. 0 \in Nat /\ 0 < Len(w)
        BY <1>1
      <3> QED  BY <1>3, <3>1, LayoutStep
    <2>2. Level(w, 1) = l
      <3>1. 1 \in 1..Len(w)
        BY <1>1
      <3> QED  BY <1>3, <3>1, LevelType
    <2>3. LayoutTo(w, 0) = <<>>
      BY NothingBelow
    <2>4. l \in Seq(Byte)
      BY <1>3, <1>4, BytesType
    <2> HIDE DEF l
    <2>5. <<>> \o l = l
      BY <2>4, ConcatEmptySeq
    <2>6. 0 + 1 = 1
      OBVIOUS
    <2> QED  BY ONLY <1>1, <2>1, <2>2, <2>3, <2>5, <2>6
  <1>7. l = x.bytes
    <2> HIDE DEF x
    <2>1. BytesOf(<<x>>) = x.bytes
      BY <1>3, <1>5, BytesOne
    <2> QED  BY <1>5, <2>1
  <1>8. SubSeq(buffer, Len(p) + 1, Len(buffer)) = l
    <2> HIDE DEF l
    <2>1. buffer = p \o l /\ l \in Seq(Byte)
      BY <1>3, <1>6
    <2> QED  BY ONLY <1>3, <2>1, Parts
  <1> QED  BY <1>3, <1>5, <1>7, <1>8 DEF w

(* What at returned is a slice that ends where its item does. *)
LEMMA ItemAtExact ==
    ASSUME NEW s, NEW cache, AnyView(s, cache), NEW i \in Nat, ItemAt(s, cache, i).ok
    PROVE  ItemAt(s, cache, i).bytes \in Seq(Byte) /\ Exact(ItemAt(s, cache, i).bytes)
  <1> DEFINE f == Find(s, cache, i)
             t == Rest(s, cache, f, i)
             r == PayloadInfo(t)
  <1>1. f.ok /\ r.ok /\ ItemAt(s, cache, i).bytes = SubSeq(t, 1, Total(r))
    <2>1. ~NotThere.ok
      BY DEF NotThere
    <2> QED  BY <2>1 DEF ItemAt, ItemFound, ReadItem, ItemOf
  <1>2. t \in Seq(Byte)
    BY <1>1, RestThere
  <1> HIDE DEF t
  <1> QED  BY <1>1, <1>2, ItemExact

(* The view's part of the inductive invariant. *)
ViewInv ==
    /\ AnyView(bytes, offset_cache)
    /\ Exact(bytes) => ViewOf(bytes, offset_cache)
    /\ index \subseteq Nat

(* A new view of a slice. *)
LEMMA NewView ==
    ASSUME NEW s \in Seq(Byte)
    PROVE  AnyView(s, {}) /\ (Exact(s) => ViewOf(s, {}))
  BY DEF AnyView, ViewOf, CacheFor

(* at leaves a view one. *)
LEMMA ViewKept ==
    ASSUME NEW s, NEW cache, AnyView(s, cache), Exact(s) => ViewOf(s, cache), NEW i \in Nat,
           NEW k, k = CacheAfter(s, cache, i)
    PROVE  AnyView(s, k) /\ (Exact(s) => ViewOf(s, k))
  BY AnyCacheKept, CacheKept

(* No operation of a view, and no change of the view, breaks its invariant. *)
LEMMA ViewStep ==
    ASSUME StreamInv, ViewInv, [Next]_vars
    PROVE  ViewInv'
  <1>0. /\ AnyView(bytes, offset_cache) /\ (Exact(bytes) => ViewOf(bytes, offset_cache))
        /\ index \subseteq Nat
    BY DEF ViewInv
  <1>1. CASE Write
    BY <1>0, <1>1 DEF Write, rlp, ViewInv
  <1>2. CASE ReadBack
    <2> DEFINE s == SubSeq(buffer, start_pos + 1, Len(buffer))
    <2>1. s = written[1][1].bytes /\ \E I : Closed(I) /\ written[1][1] \in I
      BY <1>2, OutIs DEF ReadBack
    <2> HIDE DEF s
    <2>2. s \in Seq(Byte)
      BY <2>1, WellMadeExact, WellMadeBytes DEF Closed
    <2>3. bytes' = s /\ offset_cache' = {} /\ index' = {}
      BY <1>2 DEF ReadBack, Out, NewRlp, s
    <2> QED  BY <2>2, <2>3, NewView DEF ViewInv
  <1>3. CASE NewInput
    <2>1. PICK s \in Received : bytes' = s /\ offset_cache' = {} /\ index' = {}
      BY <1>3 DEF NewInput, NewRlp
    <2>2. s \in Seq(Byte)
      BY ReceivedAssumption
    <2> QED  BY <2>1, <2>2, NewView DEF ViewInv
  <1>4. ASSUME NEW i \in 0..MaxIndex, At(i) PROVE ViewInv'
    <2>1. i \in Nat
      BY ReceivedAssumption
    <2>2. offset_cache' = CacheAfter(bytes, offset_cache, i) /\ bytes' = bytes /\ index' = index
      BY <1>4 DEF At
    <2> QED  BY <1>0, <2>1, <2>2, ViewKept DEF ViewInv
  <1>5. ASSUME NEW i \in 0..MaxIndex, Descend(i) PROVE ViewInv'
    <2>1. i \in Nat
      BY ReceivedAssumption
    <2> DEFINE at == ItemAt(bytes, offset_cache, i)
    <2>2. at.ok /\ bytes' = at.bytes /\ offset_cache' = {} /\ index' = {}
      BY <1>5 DEF Descend, NewRlp
    <2>3. at.bytes \in Seq(Byte)
      BY <1>0, <2>1, <2>2, ItemAtExact
    <2> HIDE DEF at
    <2> QED  BY <2>2, <2>3, NewView DEF ViewInv
  <1>6. CASE ItemCount
    BY <1>0, <1>6 DEF ItemCount, ViewInv
  <1>7. CASE IterNext
    <2>1. PICK i \in index : /\ offset_cache' = CacheAfter(bytes, offset_cache, i) /\ bytes' = bytes
                             /\ index' = {i + 1} \/ index' = {}
      BY <1>7 DEF IterNext
    <2>2. i \in Nat
      BY <1>0
    <2>3. index' \subseteq Nat
      BY <2>1, <2>2
    <2> QED  BY <1>0, <2>1, <2>2, <2>3, ViewKept DEF ViewInv
  <1>8. CASE UNCHANGED vars
    BY <1>0, <1>8 DEF vars, rlp, ViewInv
  <1> QED  BY <1>1, <1>2, <1>3, <1>4, <1>5, <1>6, <1>7, <1>8 DEF Next

(* It holds of the empty slice there is initially. *)
LEMMA ViewInvStarts ==
    ASSUME Init PROVE ViewInv
  <1>1. bytes = <<>> /\ offset_cache = {} /\ index = {} /\ <<>> \in Seq(Byte)
    BY DEF Init
  <1> QED  BY <1>1, NewView DEF ViewInv

(***************************************************************************)
(* The cache in a view that is called immutable cannot be seen: on any     *)
(* slice, well formed or not and with anything behind its first item, at   *)
(* finds whatever a new view would find, at the same place; and on a slice *)
(* that ends with its first item, such as every one that RlpStream wrote   *)
(* and every item at returns, it also refuses whatever a new view would    *)
(* refuse.  AnyView has the first: what is cached is where the walk from   *)
(* the first item gets, if it gets there within the list.  The condition   *)
(* is that of StreamStaysExact.                                            *)
(***************************************************************************)
THEOREM ViewStaysImmutable == Spec /\ []BufferFits => []CacheTransparent
  <1>1. Init => StreamInv /\ ViewInv
    BY StreamInvStarts, ViewInvStarts
  <1>2. StreamInv /\ ViewInv /\ BufferFits /\ [Next]_vars => StreamInv' /\ ViewInv'
    BY ViewStep, StreamInvStep
  <1>3. ViewInv => CacheTransparent
    <2> SUFFICES ASSUME ViewInv, NEW i \in 0..MaxIndex, ItemAt(bytes, {}, i).ok \/ Exact(bytes)
                 PROVE  ItemAt(bytes, offset_cache, i) = ItemAt(bytes, {}, i)
      BY DEF CacheTransparent
    <2>1. i \in Nat
      BY ReceivedAssumption
    <2>2. CASE ItemAt(bytes, {}, i).ok
      BY <2>1, <2>2, ItemKept DEF ViewInv
    <2>3. CASE Exact(bytes)
      BY <2>1, <2>3, ItemSame DEF ViewInv
    <2> QED  BY <2>2, <2>3
  <1> QED
    BY <1>1, <1>2, <1>3, PTL DEF Spec

------------------------------------------------------------------------------
(* The items of a list, where they are. *)

(* A sequence cut in two behind its m-th element. *)
AreParts(k, m, a, c) == m <= Len(k) /\ a = SubSeq(k, 1, m) /\ c = SubSeq(k, m + 1, Len(k))

(* The two parts are the sequence. *)
LEMMA Cut ==
    ASSUME NEW I, NEW k \in Seq(I), NEW m \in Nat, NEW a, NEW c, AreParts(k, m, a, c)
    PROVE  a \in Seq(I) /\ c \in Seq(I) /\ Len(a) = m /\ k = a \o c
  <1> DEFINE n == Len(k)
             l == m + 1
  <1>1. n \in Nat /\ l \in Nat /\ m <= n /\ l = m + 1 /\ n = Len(k) /\ \A i \in 1..n : k[i] \in I
    BY ElementOfSeq DEF AreParts
  <1> HIDE DEF n, l
  <1>2. a = SubSeq(k, 1, m) /\ c = SubSeq(k, l, n)
    BY DEF n, l, AreParts
  <1>3. a \in Seq(I) /\ Len(a) = m /\ \A i \in 1..m : a[i] = k[i]
    <2>1. \A i \in 1..m : k[i] \in I
      BY <1>1
    <2> QED  BY <1>1, <1>2, <2>1, SubSeqProperties
  <1>4. c \in Seq(I) /\ Len(c) = n - m /\ \A i \in 1..(n - m) : c[i] = k[m + i]
    <2>1. \A i \in l..n : k[i] \in I
      BY <1>1
    <2>2. /\ c \in Seq(I) /\ Len(c) = (IF l <= n THEN n - l + 1 ELSE 0)
          /\ \A i \in 1..(n - l + 1) : c[i] = k[l + i - 1]
      BY <1>1, <1>2, <2>1, SubSeqProperties
    <2>3. (IF l <= n THEN n - l + 1 ELSE 0) = n - m /\ n - l + 1 = n - m /\ \A i \in 1..(n - m) : l + i - 1 = m + i
      BY ONLY <1>1, m \in Nat
    <2> QED  BY ONLY <2>2, <2>3
  <1>5. /\ a \o c \in Seq(I) /\ Len(a \o c) = Len(a) + Len(c)
        /\ \A i \in 1..(Len(a) + Len(c)) : (a \o c)[i] = IF i <= Len(a) THEN a[i] ELSE c[i - Len(a)]
    BY ONLY <1>3, <1>4, ConcatProperties
  <1> DEFINE z == a \o c
  <1> HIDE DEF z
  <1>6. z \in Seq(I) /\ Len(z) = n /\ \A i \in 1..n : z[i] = IF i <= m THEN a[i] ELSE c[i - m]
    <2>1. m + (n - m) = n
      BY ONLY <1>1, m \in Nat
    <2> QED  BY ONLY <1>3, <1>4, <1>5, <2>1 DEF z
  <1>7. ASSUME NEW i \in 1..n PROVE z[i] = k[i]
    <2>1. CASE i <= m
      <3>1. i \in 1..m
        BY <2>1
      <3> QED  BY <1>3, <1>6, <2>1, <3>1
    <2>2. CASE ~(i <= m)
      <3>1. i - m \in 1..(n - m) /\ m + (i - m) = i
        BY ONLY <1>1, <2>2, m \in Nat, i \in 1..n
      <3> QED  BY <1>4, <1>6, <2>2, <3>1
    <2> QED  BY <2>1, <2>2
  <1>8. z = k
    BY <1>1, <1>6, <1>7, SeqEqual
  <1> QED  BY <1>3, <1>4, <1>8 DEF z

(* The bytes of a list's first items, of the next, and of the others. *)
Firsts(kids, i) == BytesOf(SubSeq(kids, 1, i))

(* An item is in the bytes of its list. *)
LEMMA KidThere ==
    ASSUME NEW I, Encoded(I), NEW kids \in Seq(I), NEW i \in Nat, i < Len(kids)
    PROVE  /\ kids[i + 1] \in I /\ kids[i + 1].bytes \in Seq(Byte)
           /\ Firsts(kids, i) \in Seq(Byte)
           /\ Firsts(kids, i + 1) = Firsts(kids, i) \o kids[i + 1].bytes
           /\ \E c \in Seq(Byte) : BytesOf(kids) = Firsts(kids, i) \o (kids[i + 1].bytes \o c)
  <1> DEFINE m == i + 1
             x == kids[m]
             a == SubSeq(kids, 1, m)
             d == SubSeq(kids, 1, i)
             r == SubSeq(kids, m + 1, Len(kids))
  <1>1. m \in Nat /\ m <= Len(kids) /\ m \in 1..Len(kids) /\ i <= Len(kids) /\ m = i + 1 /\ Len(kids) \in Nat
    OBVIOUS
  <1> HIDE DEF m
  <1>2. x \in I /\ x.bytes \in Seq(Byte)
    BY <1>1, ElementOfSeq DEF Encoded
  <1>3. a \in Seq(I) /\ r \in Seq(I) /\ Len(a) = m /\ kids = a \o r
    <2>1. AreParts(kids, m, a, r) /\ m \in Nat
      BY <1>1 DEF AreParts
    <2> HIDE DEF a, r
    <2> QED  BY ONLY kids \in Seq(I), <2>1, Cut
  <1>4. d \in Seq(I) /\ Len(d) = i
    <2> DEFINE e == SubSeq(kids, i + 1, Len(kids))
    <2>1. AreParts(kids, i, d, e)
      BY <1>1 DEF AreParts
    <2> HIDE DEF d, e
    <2> QED  BY ONLY kids \in Seq(I), i \in Nat, <2>1, Cut
  <1>5. a = Append(d, x)
    <2>1. \A j \in 1..m : a[j] = kids[j]
      BY <1>1, <1>3
    <2>2. \A j \in 1..i : d[j] = kids[j]
      BY <1>1, <1>4
    <2>3. \A j \in 1..m : j \in 1..i \/ j = m
      BY <1>1
    <2> DEFINE z == Append(d, x)
    <2>4. z \in Seq(I) /\ Len(z) = m /\ z[m] = x /\ \A j \in 1..i : z[j] = d[j]
      BY <1>1, <1>2, <1>4, AppendProperties
    <2> HIDE DEF z, a, d, x
    <2>5. \A j \in 1..m : z[j] = a[j]
      BY <1>1, <2>1, <2>2, <2>3, <2>4 DEF x
    <2>6. a = z
      BY <1>3, <2>4, <2>5, SeqEqual
    <2> QED  BY <2>6 DEF z
  <1> HIDE DEF a, d, r, x
  <1>6. BytesOf(a) = BytesOf(d) \o x.bytes
    BY <1>2, <1>4, <1>5, BytesAppend
  <1>7. BytesOf(d) \in Seq(Byte) /\ BytesOf(r) \in Seq(Byte)
    BY <1>3, <1>4, BytesType
  <1>8. BytesOf(kids) = BytesOf(a) \o BytesOf(r)
    BY <1>3, BytesConcat
  <1>9. BytesOf(kids) = BytesOf(d) \o (x.bytes \o BytesOf(r))
    <2> DEFINE p == BytesOf(d)
               q == x.bytes
               v == BytesOf(r)
    <2>1. p \in Seq(Byte) /\ q \in Seq(Byte) /\ v \in Seq(Byte) /\ BytesOf(kids) = (p \o q) \o v
      BY <1>2, <1>6, <1>7, <1>8
    <2> HIDE DEF p, q, v
    <2>2. (p \o q) \o v = p \o (q \o v)
      BY ONLY <2>1, Associative
    <2>3. BytesOf(kids) = p \o (q \o v)
      BY ONLY <2>1, <2>2
    <2> QED  BY <2>3 DEF p, q, v
  <1> QED  BY <1>1, <1>2, <1>6, <1>7, <1>9 DEF Firsts, m, x, a, d

(* A part of a slice, from where it begins. *)
Between(s, a, b, c) == a \in Seq(Byte) /\ b \in Seq(Byte) /\ c \in Seq(Byte) /\ s = a \o (b \o c)

(* The middle one of three parts is found behind the first. *)
LEMMA PartAt ==
    ASSUME NEW s, NEW a, NEW b, NEW c, Between(s, a, b, c)
    PROVE  /\ s \in Seq(Byte) /\ SubSeq(s, Len(a) + 1, Len(s)) = b \o c /\ Len(a) <= Len(s)
           /\ SubSeq(s, Len(a) + 1, Len(a) + Len(b)) = b
  <1> DEFINE d == b \o c
             m == Len(a) + 1
             n == Len(a) + Len(b)
             t == SubSeq(s, m, n)
  <1>b. a \in Seq(Byte) /\ b \in Seq(Byte) /\ c \in Seq(Byte) /\ s = a \o d
    BY DEF Between
  <1>1. /\ d \in Seq(Byte) /\ Len(d) = Len(b) + Len(c) /\ Len(b) \in Nat /\ Len(c) \in Nat
        /\ \A i \in 1..(Len(b) + Len(c)) : d[i] = IF i <= Len(b) THEN b[i] ELSE c[i - Len(b)]
    BY <1>b, Joined
  <1> HIDE DEF d
  <1>a. s = a \o d
    BY <1>b
  <1>2. /\ s \in Seq(Byte) /\ Len(s) = Len(a) + Len(d) /\ Len(a) \in Nat
        /\ \A i \in 1..(Len(a) + Len(d)) : s[i] = IF i <= Len(a) THEN a[i] ELSE d[i - Len(a)]
    <2>1. a \in Seq(Byte) /\ d \in Seq(Byte)
      BY <1>b, <1>1
    <2> QED  BY ONLY <1>a, <2>1, Joined
  <1>3. SubSeq(s, Len(a) + 1, Len(s)) = d
    <2>1. d \in Seq(Byte)
      BY <1>1
    <2> QED  BY ONLY <1>b, <2>1, <1>a, Parts
  <1>4. m \in Nat \ {0} /\ n \in Nat /\ n <= Len(s) /\ m = Len(a) + 1 /\ n = Len(a) + Len(b)
    BY <1>1, <1>2
  <1> HIDE DEF m, n
  <1>5. /\ t \in Seq(Byte) /\ Len(t) = (IF m <= n THEN (n - m) + 1 ELSE 0)
        /\ \A i \in 1..((n - m) + 1) : t[i] = s[(m + i) - 1]
    BY ONLY <1>2, <1>4, SliceOf
  <1> HIDE DEF t
  <1>6. Len(t) = Len(b)
    BY <1>1, <1>2, <1>4, <1>5
  <1>7. ASSUME NEW i \in 1..Len(b) PROVE t[i] = b[i]
    <2> DEFINE j == Len(a) + i
    <2>1. /\ i \in 1..((n - m) + 1) /\ (m + i) - 1 = j /\ j \in 1..(Len(a) + Len(d)) /\ ~(j <= Len(a))
          /\ j - Len(a) = i /\ i \in 1..(Len(b) + Len(c)) /\ i <= Len(b)
      BY <1>1, <1>2, <1>4
    <2> HIDE DEF j
    <2>2. t[i] = s[j]
      BY ONLY <1>5, <2>1
    <2>3. s[j] = d[i]
      BY ONLY <1>2, <2>1
    <2>4. d[i] = b[i]
      BY ONLY <1>1, <2>1
    <2> QED  BY <2>2, <2>3, <2>4
  <1>8. t = b
    BY <1>b, <1>5, <1>6, <1>7, SeqEqual
  <1>9. Len(a) <= Len(s)
    BY <1>1, <1>2
  <1> QED  BY <1>2, <1>3, <1>8, <1>9 DEF d, t, m, n

(* An exact slice is found in front of any other. *)
InFront(b, t) == b \in Seq(Byte) /\ \E c \in Seq(Byte) : t = b \o c

(***************************************************************************)
(* What payload_info says of a slice does not depend on what is behind the *)
(* item.                                                                   *)
(***************************************************************************)
LEMMA ReadInFront ==
    ASSUME NEW b, NEW t, Exact(b), InFront(b, t)
    PROVE  PayloadInfo(t).ok /\ Total(PayloadInfo(t)) = Len(b) /\ SubSeq(t, 1, Len(b)) = b
  <1> DEFINE r == InfoOfFirst(b)
  <1>0. b \in Seq(Byte) /\ \E c \in Seq(Byte) : t = b \o c
    BY DEF InFront
  <1>a. PICK c \in Seq(Byte) : t = b \o c
    BY <1>0
  <1>1. /\ b # <<>> /\ PayloadInfo(b) = r /\ r.ok /\ Total(r) = Len(b) /\ Total(r) \in Nat
        /\ Reach(r) \in 1..Total(r)
    BY <1>0, PayloadFacts DEF Exact
  <1>2. /\ t \in Seq(Byte) /\ Len(t) = Len(b) + Len(c) /\ Len(b) \in Nat /\ Len(c) \in Nat
        /\ \A i \in 1..(Len(b) + Len(c)) : t[i] = IF i <= Len(b) THEN b[i] ELSE c[i - Len(b)]
    BY <1>0, <1>a, Joined
  <1>3. Reach(InfoOfFirst(b)) <= Len(t) /\ \A i \in 1..Reach(InfoOfFirst(b)) : t[i] = b[i]
    <2> DEFINE n == Reach(r)
    <2>1. n \in 1..Len(b)
      BY <1>1
    <2> HIDE DEF n
    <2>2. n <= Len(t) /\ \A i \in 1..n : i \in 1..(Len(b) + Len(c)) /\ i <= Len(b)
      BY <1>2, <2>1
    <2>3. n <= Len(t) /\ \A i \in 1..n : t[i] = b[i]
      BY ONLY <1>2, <2>2
    <2> QED  BY <2>3 DEF n
  <1>4. InfoOfFirst(t) = r /\ t # <<>>
    <2> HIDE DEF r
    <2>1. InfoOfFirst(b).ok /\ b # <<>>
      BY <1>1 DEF r
    <2> QED  BY ONLY <1>0, <1>2, <1>3, <2>1, PrefixInfo DEF r
  <1>5. Total(InfoOfFirst(t)) <= Len(t) /\ InfoOfFirst(t).ok
    <2> HIDE DEF r
    <2>1. Len(b) <= Len(t)
      BY ONLY <1>2
    <2> QED  BY <1>1, <1>4, <2>1
  <1>6. PayloadInfo(t) = r
    <2> HIDE DEF r
    <2> QED  BY <1>2, <1>4, <1>5, PayloadIs
  <1>7. SubSeq(t, 1, Len(b)) = b
    BY <1>0, <1>a, Parts
  <1> QED  BY <1>1, <1>6, <1>7

(* A list of items as RlpStream writes it: a header h and their bytes. *)
Listed(I, kids, h, s) ==
    /\ Closed(I) /\ kids \in Seq(I)
    /\ Headed(s, h, BytesOf(kids), ShortList, LongList)

(* What a list that was written is. *)
LEMMA ListedFacts ==
    ASSUME NEW I, NEW kids, NEW h, NEW s, Listed(I, kids, h, s)
    PROVE  /\ Encoded(I) /\ kids \in Seq(I) /\ Len(kids) \in Nat /\ h \in Seq(Byte) /\ Len(h) \in Nat
           /\ s = h \o BytesOf(kids) /\ BytesOf(kids) \in Seq(Byte) /\ s \in Seq(Byte)
           /\ Exact(s) /\ IsList(s) /\ Start(s) = Len(h) /\ Len(s) = Len(h) + Len(BytesOf(kids))
  <1> DEFINE p == BytesOf(kids)
  <1>1. Closed(I) /\ kids \in Seq(I) /\ Headed(s, h, p, ShortList, LongList)
    BY DEF Listed
  <1>2. Encoded(I)
    BY <1>1, ClosedEncoded
  <1>3. s = h \o p /\ Sized(p) /\ h = Header(Len(p), ShortList, LongList)
    BY <1>1 DEF Headed
  <1> HIDE DEF p
  <1>4. p \in Seq(Byte) /\ h \in Seq(Byte)
    BY <1>3, EncodeTypes
  <1>5. Exact(s) /\ Start(s) = Len(h)
    BY ONLY <1>1, ExactHeader DEF Start
  <1>6. s \in Seq(Byte) /\ s # <<>> /\ s[1] \in ShortList..(LongList + Wide)
    BY ONLY <1>1, HeaderRead
  <1>7. IsList(s)
    BY ONLY <1>6, FormatFacts DEF IsList
  <1>8. Len(s) = Len(h) + Len(p)
    BY ONLY <1>3, <1>4, Joined
  <1> QED  BY <1>1, <1>2, <1>3, <1>4, <1>5, <1>6, <1>7, <1>8 DEF p

(* Where item i of the list is. *)
Where(kids, h, i) == Len(h) + Len(Firsts(kids, i))

(* Item i of the list, with bytes b at offset o. *)
IsKid(kids, h, i, o, b) ==
    i \in Nat /\ i < Len(kids) /\ o = Where(kids, h, i) /\ b = kids[i + 1].bytes

(* The rest of the list from item i on begins with it. *)
LEMMA KidAt ==
    ASSUME NEW I, NEW kids, NEW h, NEW s, Listed(I, kids, h, s),
           NEW i, NEW o, NEW b, IsKid(kids, h, i, o, b)
    PROVE  /\ o \in Nat /\ o <= Len(s) /\ b \in Seq(Byte) /\ Exact(b) /\ kids[i + 1] \in I
           /\ InFront(b, SubSeq(s, o + 1, Len(s)))
           /\ SubSeq(s, o + 1, o + Len(b)) = b
           /\ Where(kids, h, i + 1) = o + Len(b)
  <1> DEFINE f == Firsts(kids, i)
             a == h \o f
  <1>0. i \in Nat /\ i < Len(kids) /\ o = Where(kids, h, i) /\ b = kids[i + 1].bytes
    BY DEF IsKid
  <1>1. /\ Encoded(I) /\ kids \in Seq(I) /\ h \in Seq(Byte) /\ s = h \o BytesOf(kids)
    BY ListedFacts
  <1>2. /\ kids[i + 1] \in I /\ b \in Seq(Byte) /\ f \in Seq(Byte)
        /\ Firsts(kids, i + 1) = f \o b
    BY <1>0, <1>1, KidThere
  <1>3. PICK c \in Seq(Byte) : BytesOf(kids) = f \o (b \o c)
    BY <1>0, <1>1, KidThere
  <1>4. Exact(b)
    BY <1>0, <1>2, WellMadeExact DEF Listed, Closed
  <1>5. o = Len(h) + Len(f)
    BY <1>0 DEF Where
  <1>w. Where(kids, h, i + 1) = Len(h) + Len(Firsts(kids, i + 1))
    BY DEF Where
  <1> HIDE DEF f
  <1>6. a \in Seq(Byte) /\ Len(a) = o /\ o \in Nat
    <2>1. h \o f \in Seq(Byte) /\ Len(h \o f) = Len(h) + Len(f) /\ Len(h) \in Nat /\ Len(f) \in Nat
      BY ONLY <1>1, <1>2, Joined
    <2> QED  BY ONLY <1>5, <2>1 DEF a
  <1>7. s = a \o (b \o c)
    <2> DEFINE d == b \o c
    <2>1. d \in Seq(Byte)
      BY <1>2, Joined
    <2>2. s = h \o (f \o d)
      BY <1>1, <1>3
    <2> HIDE DEF d
    <2>3. (h \o f) \o d = h \o (f \o d)
      BY ONLY <1>1, <1>2, <2>1, Associative
    <2> QED  BY ONLY <2>2, <2>3 DEF a, d
  <1> HIDE DEF a
  <1>8. /\ SubSeq(s, Len(a) + 1, Len(s)) = b \o c /\ Len(a) <= Len(s)
        /\ SubSeq(s, Len(a) + 1, Len(a) + Len(b)) = b
    <2>1. Between(s, a, b, c)
      BY <1>2, <1>6, <1>7 DEF Between
    <2> QED  BY ONLY <2>1, PartAt, SMTT(30)
  <1>9. Len(Firsts(kids, i + 1)) = Len(f) + Len(b) /\ Len(f) \in Nat /\ Len(b) \in Nat /\ Len(h) \in Nat
    <2>1. Len(f \o b) = Len(f) + Len(b)
      BY ONLY <1>2, Joined
    <2> QED  BY <1>1, <1>2, <2>1
  <1>10. Where(kids, h, i + 1) = o + Len(b)
    BY ONLY <1>5, <1>w, <1>9
  <1>11. InFront(b, SubSeq(s, Len(a) + 1, Len(s)))
    BY <1>2, <1>8 DEF InFront
  <1> QED  BY <1>2, <1>4, <1>6, <1>8, <1>10, <1>11

(* consume_items finds each item of a list, ... *)
LEMMA ListConsumed ==
    ASSUME NEW I, NEW kids, NEW h, NEW s, Listed(I, kids, h, s), NEW n \in Nat, n <= Len(kids)
    PROVE  ConsumeItems(s, Len(h), n) = Found(Where(kids, h, n))
  <1> DEFINE C(i) == ConsumeItems(s, Len(h), i)
             W(i) == Where(kids, h, i)
             Good == {i \in Nat : i <= Len(kids) => C(i) = Found(W(i))}
  <1>0. /\ kids \in Seq(I) /\ Len(kids) \in Nat /\ Len(h) \in Nat /\ Len(s) = Len(h) + Len(BytesOf(kids))
        /\ BytesOf(kids) \in Seq(Byte)
    BY ListedFacts
  <1>1. 0 \in Good
    <2>1. Len(h) <= Len(s)
      <3> DEFINE m == Len(BytesOf(kids))
      <3>1. m \in Nat
        BY <1>0
      <3> HIDE DEF m
      <3>2. Len(s) = Len(h) + m
        BY <1>0 DEF m
      <3> QED  BY <1>0, <3>1, <3>2
    <2>2. C(0) = Found(Len(h))
      BY <2>1, ConsumeStep, BegunFound
    <2>3. SubSeq(kids, 1, 0) = <<>>
      BY <1>0
    <2>a. Firsts(kids, 0) = <<>>
      BY ONLY <2>3, BytesNone, Zenon DEF Firsts
    <2>4. W(0) = Len(h) + 0
      BY ONLY <2>a DEF Where
    <2>5. W(0) = Len(h)
      BY <1>0, <2>4
    <2> HIDE DEF C, W
    <2> QED  BY <2>2, <2>5
  <1>2. ASSUME NEW i \in Good PROVE i + 1 \in Good
    <2> SUFFICES ASSUME i + 1 <= Len(kids) PROVE C(i + 1) = Found(W(i + 1))
      OBVIOUS
    <2> DEFINE o == W(i)
               b == kids[i + 1].bytes
               t == SubSeq(s, o + 1, Len(s))
    <2>1. i \in Nat /\ i < Len(kids) /\ C(i) = Found(o)
      BY <1>0, <1>2
    <2>2. C(i + 1) = SkipItem(s, C(i))
      BY ONLY <2>1, ConsumeStep
    <2>a. IsKid(kids, h, i, o, b)
      BY <2>1 DEF IsKid
    <2> HIDE DEF o, b
    <2>b. /\ o \in Nat /\ b \in Seq(Byte) /\ Exact(b) /\ Where(kids, h, i + 1) = o + Len(b)
          /\ InFront(b, SubSeq(s, o + 1, Len(s)))
      BY ONLY Listed(I, kids, h, s), <2>a, KidAt
    <2>3. /\ o \in Nat /\ b \in Seq(Byte) /\ Exact(b) /\ W(i + 1) = o + Len(b)
          /\ InFront(b, t)
      BY <2>b
    <2> HIDE DEF C, W, t
    <2>4. PayloadInfo(t).ok /\ Total(PayloadInfo(t)) = Len(b)
      BY <2>3, ReadInFront
    <2>5. SkipItem(s, Found(o)) = Behind(o, PayloadInfo(t))
      BY DEF SkipItem, Found, t
    <2>6. Behind(o, PayloadInfo(t)) = Found(o + Len(b))
      BY <2>4 DEF Behind, Found
    <2> QED  BY <2>1, <2>2, <2>3, <2>5, <2>6
  <1>3. Good \in SUBSET Nat
    OBVIOUS
  <1> HIDE DEF Good
  <1>4. Good = Nat
    BY <1>1, <1>2, <1>3, AllNaturals
  <1>5. C(n) = Found(W(n))
    <2> HIDE DEF C, W
    <2> QED  BY <1>4 DEF Good
  <1> QED  BY <1>5

(* ... is at the end of the slice behind the last, ... *)
LEMMA ListEnds ==
    ASSUME NEW I, NEW kids, NEW h, NEW s, Listed(I, kids, h, s)
    PROVE  Where(kids, h, Len(kids)) = Len(s) /\ Len(s) \in Nat
  <1>1. kids \in Seq(I) /\ Len(s) = Len(h) + Len(BytesOf(kids)) /\ s \in Seq(Byte)
    BY ListedFacts
  <1>2. SubSeq(kids, 1, Len(kids)) = kids
    BY <1>1
  <1>3. Firsts(kids, Len(kids)) = BytesOf(kids)
    BY ONLY <1>2, Zenon DEF Firsts
  <1>4. Where(kids, h, Len(kids)) = Len(h) + Len(BytesOf(kids))
    BY ONLY <1>3, Zenon DEF Where
  <1> QED  BY <1>1, <1>4

(* There is no item behind the end. *)
LEMMA NothingLeft ==
    ASSUME NEW s \in Seq(Byte)
    PROVE  SubSeq(s, Len(s) + 1, Len(s)) = <<>> /\ ~PayloadInfo(<<>>).ok
  <1>1. SubSeq(s, Len(s) + 1, Len(s)) = <<>>
    OBVIOUS
  <1> QED  BY <1>1 DEF PayloadInfo, NoInfo

(* ... and finds nothing there. *)
LEMMA ListOver ==
    ASSUME NEW I, NEW kids, NEW h, NEW s, Listed(I, kids, h, s), NEW n \in Nat, n > Len(kids)
    PROVE  ConsumeItems(s, Len(h), n) = NoOffset
  <1> DEFINE C(i) == ConsumeItems(s, Len(h), i)
             m == Len(kids)
             e == Len(s)
             Good == {i \in Nat : i > m => C(i) = NoOffset}
  <1>0. s \in Seq(Byte) /\ m \in Nat /\ m <= Len(kids)
    BY ListedFacts
  <1>1. C(m) = Found(e)
    <2>1. C(m) = Found(Where(kids, h, m))
      BY <1>0, ListConsumed
    <2> QED  BY <2>1, ListEnds
  <1>2. C(m + 1) = NoOffset
    <2>1. C(m + 1) = SkipItem(s, C(m))
      BY ONLY <1>0, ConsumeStep
    <2>2. SkipItem(s, Found(e)) = Behind(e, PayloadInfo(SubSeq(s, e + 1, Len(s))))
      BY DEF SkipItem, Found
    <2>3. SkipItem(s, Found(e)) = NoOffset
      BY <1>0, <2>2, NothingLeft DEF Behind
    <2> QED  BY <1>1, <2>1, <2>3
  <1>3. 0 \in Good
    BY <1>0
  <1>4. ASSUME NEW i \in Good PROVE i + 1 \in Good
    <2> SUFFICES ASSUME i + 1 > m PROVE C(i + 1) = NoOffset
      OBVIOUS
    <2>1. i \in Nat /\ (i > m => C(i) = NoOffset)
      BY <1>4
    <2>2. C(i + 1) = SkipItem(s, C(i))
      BY ONLY <2>1, ConsumeStep
    <2> HIDE DEF Good, C, m
    <2>3. CASE i = m
      BY <1>2, <2>3
    <2>4. CASE i # m
      <3>1. i > m
        BY <1>0, <2>1, <2>4
      <3> QED  BY <2>1, <2>2, <3>1, NotSkipped
    <2> QED  BY <2>3, <2>4
  <1>5. Good \in SUBSET Nat
    OBVIOUS
  <1> HIDE DEF Good
  <1>6. Good = Nat
    BY <1>3, <1>4, <1>5, AllNaturals
  <1>7. C(n) = NoOffset
    <2> HIDE DEF C
    <2> QED  BY <1>6 DEF Good
  <1> QED  BY <1>7

------------------------------------------------------------------------------
(* Data and numbers, decoded. *)

(* decode_value, by the kind of first byte. *)
LEMMA DecodeCases ==
    ASSUME NEW s, s # <<>>, NEW l, l = s[1], l \in Byte
    PROVE  /\ l < Single => DecodeValue(s) = [ok |-> TRUE, data |-> <<l>>]
           /\ l \in Single..LongData =>
                 DecodeValue(s) = IF l = Single + 1 /\ Len(s) > 1 /\ s[2] < Single THEN NoData
                                  ELSE Slice(s, 2, 1 + l - Single)
           /\ l \in (LongData + 1)..(ShortList - 1) =>
                 DecodeValue(s) =
                    IF Len(s) < 1 + l - LongData \/ ~DecodeUsize(SubSeq(s, 2, 1 + l - LongData)).ok THEN NoData
                    ELSE Slice(s, 1 + l - LongData + 1,
                               1 + l - LongData + DecodeUsize(SubSeq(s, 2, 1 + l - LongData)).value)
           /\ l >= ShortList => DecodeValue(s) = NoData
  <1>1. l \in Nat
    BY FormatFacts
  <1>2. /\ Single \in Nat /\ LongData \in Nat /\ ShortList \in Nat
        /\ Single <= LongData /\ LongData < ShortList
    BY FormatFacts
  <1> DEFINE g == 1 + l - LongData
             u == DecodeUsize(SubSeq(s, 2, g))
             i == DecodeValue(s)
             a == [ok |-> TRUE, data |-> <<l>>]
             b == IF l = Single + 1 /\ Len(s) > 1 /\ s[2] < Single THEN NoData ELSE Slice(s, 2, 1 + l - Single)
             c == IF Len(s) < g \/ ~u.ok THEN NoData ELSE Slice(s, g + 1, g + u.value)
             d == NoData
  <1>3. i = CASE l < Single -> a
              [] l \in Single..LongData -> b
              [] l \in (LongData + 1)..(ShortList - 1) -> c
              [] l >= ShortList -> d
    BY Zenon DEF DecodeValue
  <1> HIDE DEF i, a, b, c, d
  <1>4. /\ l < Single => i = a
        /\ l \in Single..LongData => i = b
        /\ l \in (LongData + 1)..(ShortList - 1) => i = c
        /\ l >= ShortList => i = d
    BY ONLY <1>1, <1>2, <1>3
  <1> QED  BY <1>4, Zenon DEF i, a, b, c, d

(* Data is decoded to itself. *)
LEMMA ValueDecoded ==
    ASSUME NEW v, Sized(v)
    PROVE  DecodeValue(EncodeValue(v)) = [ok |-> TRUE, data |-> v]
  <1>0. v \in Seq(Byte) /\ Len(v) \in Nat /\ Len(v) < BaseTo(Wide)
    BY EncodeTypes
  <1>1. CASE Len(v) = 1 /\ v[1] < Single
    <2>1. EncodeValue(v) = v
      BY <1>1, EncodedValue
    <2>2. v # <<>> /\ v[1] \in Byte /\ v = <<v[1]>>
      <3>1. 1 \in 1..Len(v)
        BY <1>1
      <3> QED  BY <1>0, <1>1, <3>1, ElementOfSeq
    <2>3. DecodeValue(v) = [ok |-> TRUE, data |-> <<v[1]>>]
      BY ONLY <1>1, <2>2, DecodeCases
    <2> QED  BY <2>1, <2>2, <2>3
  <1>2. CASE ~(Len(v) = 1 /\ v[1] < Single)
    <2> DEFINE n == Len(v)
               h == Header(n, Single, LongData)
               s == h \o v
               l == s[1]
    <2>1. EncodeValue(v) = s
      BY <1>2, EncodedValue
    <2>2. Headed(s, h, v, Single, LongData) /\ n = Len(v) /\ n \in Nat /\ n < BaseTo(Wide)
      BY <1>0, Pairs DEF Headed
    <2>3. h \in Seq(Byte) /\ s = h \o v
      BY EncodeTypes
    <2> HIDE DEF n, h, s
    <2>4. /\ s \in Seq(Byte) /\ s # <<>>
          /\ n <= Short => Len(h) = 1 /\ l = Single + n
          /\ n > Short => /\ SizeBytes(n) \in 1..Wide /\ Len(h) = 1 + SizeBytes(n) /\ l = LongData + SizeBytes(n)
                          /\ SubSeq(s, 2, 1 + SizeBytes(n)) = BigEndian(n)
      BY ONLY <2>2, HeaderRead
    <2>5. /\ SubSeq(s, Len(h) + 1, Len(s)) = v /\ Len(s) = Len(h) + n /\ Len(h) \in Nat
      BY ONLY <1>0, <2>2, <2>3, Parts, ZenonT(40)
    <2>6. l \in Byte
      <3>1. Len(s) # 0 /\ Len(s) \in Nat
        BY <2>4, EmptySeq
      <3>2. 1 \in 1..Len(s)
        BY <3>1
      <3> QED  BY <2>4, <3>2, ElementOfSeq
    <2>7. /\ Single \in Nat /\ Short \in Nat /\ LongData = Single + Short /\ Wide \in Nat
          /\ ShortList = LongData + Wide + 1 /\ LongData \in Nat
      BY FormatFacts
    <2>8. CASE n <= Short
      <3>1. l = Single + n /\ Len(h) = 1
        BY <2>4, <2>8
      <3>2. ~(l = Single + 1 /\ Len(s) > 1 /\ s[2] < Single)
        <4> SUFFICES ASSUME l = Single + 1, s[2] < Single PROVE FALSE
          OBVIOUS
        <4>1. n = 1
          <5> HIDE DEF l
          <5> QED  BY <2>2, <2>7, <3>1
        <4>2. s[2] = v[1]
          <5>1. \A i \in 1..(Len(h) + Len(v)) : s[i] = IF i <= Len(h) THEN h[i] ELSE v[i - Len(h)]
            BY ONLY <1>0, <2>3, Joined
          <5>2. 2 \in 1..(Len(h) + Len(v)) /\ ~(2 <= Len(h)) /\ 2 - Len(h) = 1
            BY <2>2, <3>1, <4>1
          <5> QED  BY ONLY <5>1, <5>2
        <4> QED  BY <1>2, <2>2, <4>1, <4>2
      <3>3. l \in Single..LongData /\ 1 + l - Single = Len(s) /\ ~(Len(s) < 1 + l - Single)
            /\ Len(h) + 1 = 2 /\ Len(s) \in Nat
        <4> HIDE DEF l
        <4> QED  BY <2>2, <2>5, <2>7, <2>8, <3>1
      <3>4. DecodeValue(s) = Slice(s, 2, 1 + l - Single)
        BY <2>4, <2>6, <3>2, <3>3, DecodeCases
      <3>5. Slice(s, 2, Len(s)) = [ok |-> TRUE, data |-> SubSeq(s, 2, Len(s))]
        BY <3>3 DEF Slice
      <3> QED  BY <2>1, <2>5, <3>3, <3>4, <3>5
    <2>9. CASE n > Short
      <3> DEFINE k == SizeBytes(n)
                 g == 1 + l - LongData
                 u == DecodeUsize(SubSeq(s, 2, g))
      <3>1. k \in 1..Wide /\ Len(h) = 1 + k /\ l = LongData + k /\ SubSeq(s, 2, 1 + k) = BigEndian(n)
        BY <2>4, <2>9
      <3>2. BigEndian(n)[1] # 0 /\ Number(BigEndian(n)) = n
        <4>1. k > 0
          BY <2>7, <3>1
        <4> QED  BY <2>2, <4>1, NumberOfBigEndian
      <3> HIDE DEF k, l
      <3>3. g = 1 + k /\ g = Len(h) /\ l \in (LongData + 1)..(ShortList - 1) /\ ~(Len(s) < g)
            /\ g + n = Len(s) /\ g + 1 = Len(h) + 1 /\ Len(s) \in Nat /\ ~(Len(s) < Len(s))
        BY <2>2, <2>5, <2>7, <3>1
      <3>4. u = [ok |-> TRUE, value |-> n]
        BY <3>1, <3>2, <3>3 DEF DecodeUsize
      <3>5. DecodeValue(s) = IF Len(s) < g \/ ~u.ok THEN NoData ELSE Slice(s, g + 1, g + u.value)
        <4>1. l = s[1]
          BY DEF l
        <4> QED  BY ONLY <2>4, <2>6, <3>3, <4>1, DecodeCases, Zenon
      <3>6. DecodeValue(s) = Slice(s, Len(h) + 1, Len(s))
        <4>1. u.ok /\ u.value = n
          BY ONLY <3>4
        <4> HIDE DEF g, u
        <4> QED  BY ONLY <3>3, <3>5, <4>1
      <3>7. Slice(s, Len(h) + 1, Len(s)) = [ok |-> TRUE, data |-> SubSeq(s, Len(h) + 1, Len(s))]
        BY <3>3 DEF Slice
      <3> QED  BY <2>1, <2>5, <3>6, <3>7
    <2> QED
      <3>1. n <= Short \/ n > Short
        BY <2>2, <2>7
      <3> QED  BY <2>8, <2>9, <3>1
  <1> QED  BY <1>1, <1>2

(* Data that is a number without leading zeros is decoded to the number. *)
LEMMA UintDecoded ==
    ASSUME NEW v, Sized(v), Len(v) <= Wide, BigEndian(Number(v)) = v
    PROVE  DecodeUint(EncodeValue(v), Wide) = [ok |-> TRUE, value |-> Number(v)]
  <1> DEFINE n == Number(v)
             d == [ok |-> TRUE, data |-> v]
  <1>1. v \in Seq(Byte) /\ Len(v) \in Nat
    BY EncodeTypes
  <1>2. n \in Nat /\ n < BaseTo(Len(v))
    BY <1>1, NumberType
  <1>3. n < BaseTo(Wide) /\ Wide \in Nat
    <2>1. BaseTo(Len(v)) <= BaseTo(Wide) /\ BaseTo(Len(v)) \in Nat /\ BaseTo(Wide) \in Nat /\ Wide \in Nat
      BY <1>1, FormatFacts, BaseType, BaseGrows
    <2> HIDE DEF n
    <2> QED  BY <1>2, <2>1
  <1>4. Len(BigEndian(n)) = SizeBytes(n) /\ (SizeBytes(n) > 0 => BigEndian(n)[1] # 0)
    <2> HIDE DEF n
    <2> QED  BY ONLY <1>2, <1>3, BigEndianType, NumberOfBigEndian
  <1>5. v # <<>> => v[1] # 0
    <2> SUFFICES ASSUME v # <<>> PROVE v[1] # 0
      OBVIOUS
    <2>1. Len(v) # 0
      BY <1>1, EmptySeq
    <2>2. SizeBytes(n) > 0
      BY <1>1, <1>4, <2>1
    <2> QED  BY <1>4, <2>2
  <1>6. DecodeUint(EncodeValue(v), Wide) = UintOf(d, Wide)
    BY ValueDecoded DEF DecodeUint
  <1>7. ~(Len(v) > Wide)
    BY <1>1, <1>3
  <1> QED  BY <1>5, <1>6, <1>7 DEF UintOf

(* A list is not data. *)
LEMMA ListNotDecoded ==
    ASSUME NEW s \in Seq(Byte), IsList(s)
    PROVE  ~DecodeValue(s).ok /\ ~DecodeUint(s, Wide).ok
  <1>1. s # <<>> /\ s[1] >= ShortList
    BY DEF IsList
  <1>2. s[1] \in Byte
    <2>1. Len(s) # 0 /\ Len(s) \in Nat
      BY <1>1, EmptySeq
    <2>2. 1 \in 1..Len(s)
      BY <2>1
    <2> QED  BY <2>2, ElementOfSeq
  <1>3. DecodeValue(s) = NoData
    BY ONLY <1>1, <1>2, DecodeCases, Zenon
  <1> QED  BY <1>3 DEF NoData, DecodeUint, UintOf

(* at of a list, without its cache. *)
LEMMA ItemIs ==
    ASSUME NEW s, NEW cache, ViewOf(s, cache), IsList(s), NEW i \in Nat,
           NEW f, f = ConsumeItems(s, Start(s), i)
    PROVE  ItemAt(s, cache, i) = IF f.ok THEN ReadItem(SubSeq(s, f.offset + 1, Len(s)), f.offset) ELSE NotThere
  <1>1. Find(s, cache, i) = f
    BY FindSame
  <1>2. Total(PayloadInfo(s)) = Len(s)
    BY ExactFacts DEF ViewOf
  <1>3. Rest(s, cache, f, i) = SubSeq(s, f.offset + 1, Len(s))
    BY <1>2 DEF Rest
  <1> QED  BY <1>1, <1>3 DEF ItemAt, ItemFound

(* Every item of a list is found where it is, ... *)
LEMMA KidRead ==
    ASSUME NEW I, NEW kids, NEW h, NEW s, Listed(I, kids, h, s), NEW cache, ViewOf(s, cache),
           NEW i \in Nat, i < Len(kids), NEW x, x = ItemAt(s, cache, i)
    PROVE  /\ x.ok /\ x.bytes = kids[i + 1].bytes /\ kids[i + 1] \in I
           /\ SubSeq(s, x.offset + 1, x.offset + Len(x.bytes)) = x.bytes
  <1> DEFINE o == Where(kids, h, i)
             b == kids[i + 1].bytes
             t == SubSeq(s, o + 1, Len(s))
             f == ConsumeItems(s, Start(s), i)
  <1>1. IsList(s) /\ Start(s) = Len(h) /\ Len(kids) \in Nat
    BY ListedFacts
  <1>2. i <= Len(kids)
    BY <1>1
  <1>3. f = Found(o)
    BY <1>1, <1>2, ListConsumed
  <1>a. IsKid(kids, h, i, o, b)
    BY DEF IsKid
  <1>b. b = kids[i + 1].bytes
    OBVIOUS
  <1>4. x = IF f.ok THEN ReadItem(SubSeq(s, f.offset + 1, Len(s)), f.offset) ELSE NotThere
    BY <1>1, ItemIs
  <1> HIDE DEF o, b
  <1>5. /\ o \in Nat /\ b \in Seq(Byte) /\ Exact(b) /\ kids[i + 1] \in I
        /\ InFront(b, SubSeq(s, o + 1, Len(s))) /\ SubSeq(s, o + 1, o + Len(b)) = b
    BY ONLY Listed(I, kids, h, s), <1>a, KidAt
  <1> HIDE DEF f
  <1>6. x = ReadItem(t, o)
    BY ONLY <1>3, <1>4, FoundFields DEF t
  <1>7. PayloadInfo(t).ok /\ Total(PayloadInfo(t)) = Len(b) /\ SubSeq(t, 1, Len(b)) = b
    BY <1>5, ReadInFront
  <1> HIDE DEF t
  <1>8. x = [ok |-> TRUE, bytes |-> b, offset |-> o]
    BY <1>6, <1>7 DEF ReadItem, ItemOf
  <1>9. x.ok /\ x.bytes = b /\ x.offset = o
    BY ONLY <1>8
  <1> QED  BY ONLY <1>5, <1>9, <1>b

(* ... and none behind the last. *)
LEMMA NoKidRead ==
    ASSUME NEW I, NEW kids, NEW h, NEW s, Listed(I, kids, h, s), NEW cache, ViewOf(s, cache),
           NEW i \in Nat, ~(i < Len(kids))
    PROVE  ~ItemAt(s, cache, i).ok
  <1> DEFINE f == ConsumeItems(s, Start(s), i)
             x == ItemAt(s, cache, i)
  <1>1. IsList(s) /\ Start(s) = Len(h) /\ Len(kids) \in Nat /\ s \in Seq(Byte)
    BY ListedFacts
  <1>2. x = IF f.ok THEN ReadItem(SubSeq(s, f.offset + 1, Len(s)), f.offset) ELSE NotThere
    BY <1>1, ItemIs
  <1>3. CASE i = Len(kids)
    <2>1. i <= Len(kids)
      BY <1>1, <1>3
    <2>2. f = Found(Len(s))
      <3>1. f = Found(Where(kids, h, i))
        BY <1>1, <2>1, ListConsumed
      <3>2. Where(kids, h, i) = Len(s)
        BY <1>3, ListEnds
      <3> QED  BY ONLY <3>1, <3>2
    <2> HIDE DEF f, x
    <2>3. x = ReadItem(SubSeq(s, Len(s) + 1, Len(s)), Len(s))
      BY ONLY <1>2, <2>2, FoundFields
    <2>4. SubSeq(s, Len(s) + 1, Len(s)) = <<>> /\ ~PayloadInfo(<<>>).ok
      BY <1>1, NothingLeft
    <2>5. x = ReadItem(<<>>, Len(s))
      BY ONLY <2>3, <2>4
    <2> QED  BY <2>4, <2>5 DEF x, ReadItem, ItemOf, NotThere
  <1>4. CASE i # Len(kids)
    <2>1. i > Len(kids)
      BY <1>1, <1>4
    <2>2. f = NoOffset
      BY <1>1, <2>1, ListOver
    <2> HIDE DEF f, x
    <2>3. x = NotThere
      BY ONLY <1>2, <2>2, FoundFields
    <2> QED  BY <2>3 DEF x, NotThere
  <1> QED  BY <1>3, <1>4

------------------------------------------------------------------------------
(* Reading what was written. *)

(* A well made item is data or a list, and its first byte says which. *)
LEMMA ItemKinds ==
    ASSUME NEW I, Closed(I), NEW x \in I
    PROVE  \/ ~IsList(x.bytes) /\ x.kids = <<>> /\ Sized(x.data) /\ x.bytes = EncodeValue(x.data)
           \/ \E h : Listed(I, x.kids, h, x.bytes)
  <1>1. WellMade(x, I)
    BY DEF Closed
  <1>2. CASE Sized(x.data) /\ x = DataItem(x.data)
    <2>1. x.bytes = EncodeValue(x.data) /\ x.kids = <<>>
      BY <1>2, DataBytes
    <2> QED  BY <1>2, <2>1, ValueExact
  <1>3. CASE x.kids \in Seq(I) /\ Sized(BytesOf(x.kids)) /\ x = ListItem(x.kids)
    <2> DEFINE p == BytesOf(x.kids)
               h == Header(Len(p), ShortList, LongList)
    <2>1. x.bytes = EncodeList(p)
      BY <1>3, ListBytes
    <2>2. Headed(EncodeList(p), h, p, ShortList, LongList)
      BY <1>3, ListExact
    <2> HIDE DEF h
    <2>3. Listed(I, x.kids, h, x.bytes)
      BY <1>3, <2>1, <2>2 DEF Listed
    <2> QED  BY <2>3
  <1> QED  BY <1>1, <1>2, <1>3 DEF WellMade

(* What at answers on the bytes of an item. *)
Answers(I, x, i, y) ==
    IF i < Len(x.kids)
    THEN /\ y.ok /\ y.bytes = x.kids[i + 1].bytes /\ x.kids[i + 1] \in I
         /\ SubSeq(x.bytes, y.offset + 1, y.offset + Len(y.bytes)) = y.bytes
    ELSE ~y.ok

(* at of a well made item finds its items and nothing else. *)
LEMMA ItemsRead ==
    ASSUME NEW I, Closed(I), NEW x \in I, NEW cache, ViewOf(x.bytes, cache), NEW i \in Nat
    PROVE  Answers(I, x, i, ItemAt(x.bytes, cache, i)) /\ Len(x.kids) \in Nat
  <1> DEFINE s == x.bytes
             kids == x.kids
             y == ItemAt(s, cache, i)
  <1>1. CASE ~IsList(s) /\ kids = <<>>
    <2>1. Find(s, cache, i) = NoOffset
      BY <1>1, FindSame
    <2>2. ~y.ok
      BY <2>1, FoundFields DEF ItemAt, ItemFound, NotThere
    <2>3. Len(kids) = 0
      BY <1>1
    <2>4. ~(i < Len(kids)) /\ Len(kids) \in Nat
      BY <2>3
    <2> QED  BY <2>2, <2>4 DEF Answers
  <1>2. ASSUME NEW h, Listed(I, kids, h, s)
        PROVE  Answers(I, x, i, y) /\ Len(kids) \in Nat
    <2> HIDE DEF s, kids, y
    <2>a. y = ItemAt(s, cache, i) /\ ViewOf(s, cache)
      BY DEF s, y
    <2>1. Len(kids) \in Nat
      BY ONLY <1>2, ListedFacts
    <2>2. CASE i < Len(kids)
      <3>1. /\ y.ok /\ y.bytes = kids[i + 1].bytes /\ kids[i + 1] \in I
            /\ SubSeq(s, y.offset + 1, y.offset + Len(y.bytes)) = y.bytes
        BY ONLY <1>2, <2>2, <2>a, i \in Nat, KidRead
      <3> QED  BY <2>1, <2>2, <3>1 DEF Answers, s, kids
    <2>3. CASE ~(i < Len(kids))
      <3>1. ~y.ok
        BY ONLY <1>2, <2>3, <2>a, i \in Nat, NoKidRead
      <3> QED  BY <2>1, <2>3, <3>1 DEF Answers, s, kids
    <2> QED  BY <2>2, <2>3
  <1> QED  BY <1>1, <1>2, ItemKinds

(* The reading of what was written, in the inductive invariant. *)
ItemOK == bytes = item.bytes /\ \E I : Closed(I) /\ item \in I

ReadInv ==
    reading = {"written"} =>
        /\ ItemOK
        /\ \A c \in count_cache : c = Len(item.kids)
        /\ \A i \in index : i <= Len(item.kids)

(* An item has a number of items. *)
LEMMA KidsCount ==
    ASSUME NEW I, Closed(I), NEW x \in I
    PROVE  Len(x.kids) \in Nat
  <1>1. CASE x.kids = <<>>
    BY <1>1
  <1>2. CASE \E h : Listed(I, x.kids, h, x.bytes)
    BY <1>2, ListedFacts
  <1> QED  BY <1>1, <1>2, ItemKinds

(* What was written is an exact slice. *)
LEMMA WrittenView ==
    ASSUME ViewInv, ReadInv, reading = {"written"}
    PROVE  ViewOf(bytes, offset_cache)
  <1>1. bytes = item.bytes
    BY DEF ReadInv, ItemOK
  <1>2. PICK I : Closed(I) /\ item \in I
    BY DEF ReadInv, ItemOK
  <1>3. Exact(item.bytes)
    BY <1>2, WellMadeExact DEF Closed
  <1> QED  BY <1>1, <1>3 DEF ViewInv

(* No operation of a view loses the item that is read. *)
LEMMA ReadStep ==
    ASSUME StreamInv, ViewInv, ReadInv, [Next]_vars
    PROVE  ReadInv'
  <1>0. index \subseteq Nat /\ (reading = {"written"} => ViewOf(bytes, offset_cache))
    BY WrittenView DEF ViewInv
  <1>1. CASE Write
    BY <1>1 DEF Write, ReadInv
  <1>2. CASE ReadBack
    <2>1. bytes' = SubSeq(buffer, start_pos + 1, Len(buffer)) /\ item' = written[1][1]
          /\ count_cache' = {} /\ index' = {}
      BY <1>2 DEF ReadBack, Out, NewRlp
    <2>2. /\ SubSeq(buffer, start_pos + 1, Len(buffer)) = written[1][1].bytes
          /\ \E I : Closed(I) /\ written[1][1] \in I
      BY <1>2, OutIs DEF ReadBack
    <2> QED  BY <2>1, <2>2 DEF ReadInv, ItemOK, Closed, WellMade
  <1>3. CASE NewInput
    <2>1. reading' = {"input"} /\ "input" # "written"
      BY <1>3 DEF NewInput
    <2>2. reading' # {"written"}
      BY <2>1
    <2> QED  BY <2>2 DEF ReadInv
  <1>4. ASSUME NEW i \in 0..MaxIndex, At(i) PROVE ReadInv'
    BY <1>4 DEF At, ReadInv, ItemOK, Closed, WellMade
  <1>5. ASSUME NEW i \in 0..MaxIndex, Descend(i) PROVE ReadInv'
    <2>1. i \in Nat
      BY ReceivedAssumption
    <2> DEFINE y == ItemAt(bytes, offset_cache, i)
    <2>2. /\ y.ok /\ bytes' = y.bytes /\ count_cache' = {} /\ index' = {} /\ reading' = reading
          /\ item' = IF i < Len(item.kids) THEN item.kids[i + 1] ELSE NoItem
      BY <1>5 DEF Descend, NewRlp
    <2> SUFFICES ASSUME reading' = {"written"}
                 PROVE  bytes' = item'.bytes /\ \E I : Closed(I) /\ item' \in I
      BY <2>2 DEF ReadInv, ItemOK, Closed, WellMade
    <2>3. reading = {"written"}
      BY <2>2
    <2>4. PICK I : Closed(I) /\ item \in I
      BY <2>3 DEF ReadInv, ItemOK
    <2>5. bytes = item.bytes
      BY <2>3 DEF ReadInv, ItemOK
    <2>6. Answers(I, item, i, y)
      BY <1>0, <2>1, <2>3, <2>4, <2>5, ItemsRead
    <2> HIDE DEF y
    <2>7. i < Len(item.kids) /\ y.bytes = item.kids[i + 1].bytes /\ item.kids[i + 1] \in I
      BY <2>2, <2>6 DEF Answers
    <2> QED  BY <2>2, <2>4, <2>7
  <1>6. CASE ItemCount
    <2> SUFFICES ASSUME reading' = {"written"} PROVE ReadInv'
      BY DEF ReadInv
    <2>1. reading = {"written"} /\ bytes' = bytes /\ item' = item /\ count_cache' = count_cache /\ index' = {0}
      BY <1>6 DEF ItemCount
    <2>2. PICK I : Closed(I) /\ item \in I
      BY <2>1 DEF ReadInv, ItemOK
    <2>3. Len(item.kids) \in Nat
      BY <2>2, KidsCount
    <2>4. 0 <= Len(item.kids)
      BY <2>3
    <2> QED  BY <2>1, <2>4 DEF ReadInv, ItemOK, Closed, WellMade
  <1>7. CASE IterNext
    <2> SUFFICES ASSUME reading' = {"written"} PROVE ReadInv'
      BY DEF ReadInv
    <2>1. PICK i \in index : /\ bytes' = bytes /\ item' = item /\ reading = {"written"}
                             /\ IF ItemAt(bytes, offset_cache, i).ok
                                THEN index' = {i + 1} /\ count_cache' = count_cache
                                ELSE index' = {} /\ count_cache' = {i}
      BY <1>7 DEF IterNext
    <2> DEFINE y == ItemAt(bytes, offset_cache, i)
    <2>2. PICK I : Closed(I) /\ item \in I
      BY <2>1 DEF ReadInv, ItemOK
    <2>3. bytes = item.bytes /\ i <= Len(item.kids) /\ \A c \in count_cache : c = Len(item.kids)
      BY <2>1 DEF ReadInv, ItemOK
    <2>4. i \in Nat
      BY <1>0
    <2>5. Answers(I, item, i, y) /\ Len(item.kids) \in Nat
      BY <1>0, <2>1, <2>2, <2>3, <2>4, ItemsRead
    <2> HIDE DEF y
    <2>a. IF y.ok THEN index' = {i + 1} /\ count_cache' = count_cache ELSE index' = {} /\ count_cache' = {i}
      BY <2>1 DEF y
    <2>6. y.ok <=> i < Len(item.kids)
      BY <2>5 DEF Answers
    <2>7. /\ \A c \in count_cache' : c = Len(item.kids)
          /\ \A j \in index' : j <= Len(item.kids)
      <3>1. CASE y.ok
        <4>1. i + 1 <= Len(item.kids)
          BY <2>4, <2>5, <2>6, <3>1
        <4> QED  BY <2>3, <2>a, <3>1, <4>1
      <3>2. CASE ~y.ok
        <4>1. i = Len(item.kids)
          BY <2>3, <2>4, <2>5, <2>6, <3>2
        <4> QED  BY <2>a, <3>2, <4>1
      <3> QED  BY <3>1, <3>2
    <2> QED  BY <2>1, <2>2, <2>3, <2>7 DEF ReadInv, ItemOK, Closed, WellMade
  <1>8. CASE UNCHANGED vars
    BY <1>8 DEF vars, rlp, ReadInv, ItemOK, Closed, WellMade
  <1> QED  BY <1>1, <1>2, <1>3, <1>4, <1>5, <1>6, <1>7, <1>8 DEF Next

(* The invariants imply the property. *)
LEMMA ReadInvExact ==
    ASSUME ViewInv, ReadInv
    PROVE  ReadsExact
  <1> SUFFICES ASSUME reading = {"written"}
               PROVE  /\ bytes = item.bytes
                      /\ \A i \in 0..MaxIndex :
                            \E found \in {ItemAt(bytes, offset_cache, i)} :
                                IF i < Len(item.kids)
                                THEN /\ found.ok /\ found.bytes = item.kids[i + 1].bytes
                                     /\ SubSeq(bytes, found.offset + 1, found.offset + Len(found.bytes)) = found.bytes
                                ELSE ~found.ok
                      /\ \A c \in count_cache : c = Len(item.kids)
                      /\ Decodes
    BY DEF ReadsExact
  <1>1. bytes = item.bytes /\ \A c \in count_cache : c = Len(item.kids)
    BY DEF ReadInv, ItemOK
  <1>2. PICK I : Closed(I) /\ item \in I
    BY DEF ReadInv, ItemOK
  <1>3. ViewOf(bytes, offset_cache) /\ bytes \in Seq(Byte)
    BY WrittenView DEF ViewOf
  <1>4. ASSUME NEW i \in 0..MaxIndex
        PROVE  \E found \in {ItemAt(bytes, offset_cache, i)} :
                   IF i < Len(item.kids)
                   THEN /\ found.ok /\ found.bytes = item.kids[i + 1].bytes
                        /\ SubSeq(bytes, found.offset + 1, found.offset + Len(found.bytes)) = found.bytes
                   ELSE ~found.ok
    <2>1. i \in Nat
      BY ReceivedAssumption
    <2> DEFINE y == ItemAt(bytes, offset_cache, i)
    <2>2. Answers(I, item, i, y)
      BY <1>1, <1>2, <1>3, <2>1, ItemsRead
    <2> HIDE DEF y
    <2>3. IF i < Len(item.kids)
          THEN /\ y.ok /\ y.bytes = item.kids[i + 1].bytes
               /\ SubSeq(bytes, y.offset + 1, y.offset + Len(y.bytes)) = y.bytes
          ELSE ~y.ok
      BY <1>1, <2>2 DEF Answers
    <2> QED  BY <2>3 DEF y
  <1>5. Decodes
    <2>1. CASE ~IsList(item.bytes) /\ Sized(item.data) /\ item.bytes = EncodeValue(item.data)
      <3> DEFINE v == item.data
      <3>1. DecodeValue(bytes) = [ok |-> TRUE, data |-> v]
        BY <1>1, <2>1, ValueDecoded
      <3>2. Len(v) <= Wide /\ BigEndian(Number(v)) = v
              => DecodeUint(bytes, Wide) = [ok |-> TRUE, value |-> Number(v)]
        <4> SUFFICES ASSUME Len(v) <= Wide, BigEndian(Number(v)) = v
                     PROVE  DecodeUint(bytes, Wide) = [ok |-> TRUE, value |-> Number(v)]
          OBVIOUS
        <4>1. bytes = EncodeValue(v) /\ Sized(v)
          BY <1>1, <2>1
        <4> HIDE DEF v
        <4>2. DecodeUint(EncodeValue(v), Wide) = [ok |-> TRUE, value |-> Number(v)]
          BY ONLY <4>1, Len(v) <= Wide, BigEndian(Number(v)) = v, UintDecoded
        <4> QED  BY ONLY <4>1, <4>2
      <3>3. ~IsList(bytes)
        BY <1>1, <2>1
      <3> QED  BY <3>1, <3>2, <3>3, Zenon DEF Decodes
    <2>2. CASE \E h : Listed(I, item.kids, h, item.bytes)
      <3>1. IsList(bytes)
        BY <1>1, <2>2, ListedFacts
      <3>2. ~DecodeValue(bytes).ok /\ ~DecodeUint(bytes, Wide).ok
        BY <1>3, <3>1, ListNotDecoded
      <3> QED  BY <3>1, <3>2 DEF Decodes
    <2> QED  BY <1>2, <2>1, <2>2, ItemKinds
  <1> QED  BY <1>1, <1>4, <1>5

(***************************************************************************)
(* What RlpStream wrote is read back by Rlp: at every index and after any  *)
(* reads, the item appended there or an error past the last one, and down  *)
(* to the data, for any nesting of lists; item_count is right whatever was *)
(* read before.  StreamStaysExact says what was written, ViewStaysImmutable*)
(* that the caches do not count, and ReadInv which item is being read.     *)
(***************************************************************************)
THEOREM ReadsStayExact == Spec /\ []BufferFits => []ReadsExact
  <1>1. Init => StreamInv /\ ViewInv /\ ReadInv
    <2>1. Init => ReadInv
      <3> SUFFICES ASSUME Init PROVE ReadInv
        OBVIOUS
      <3>1. reading # {"written"}
        BY DEF Init
      <3> QED  BY <3>1 DEF ReadInv
    <2> QED  BY <2>1, StreamInvStarts, ViewInvStarts
  <1>2. StreamInv /\ ViewInv /\ ReadInv /\ BufferFits /\ [Next]_vars => StreamInv' /\ ViewInv' /\ ReadInv'
    BY ViewStep, StreamInvStep, ReadStep
  <1>3. ViewInv /\ ReadInv => ReadsExact
    BY ReadInvExact
  <1> QED
    BY <1>1, <1>2, <1>3, PTL DEF Spec
==============================================================================
