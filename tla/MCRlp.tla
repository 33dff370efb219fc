-------------------------------- MODULE MCRlp --------------------------------
EXTENDS TrieCalls

Ones(n) == [i \in 1..n |-> 1]

(* With Single 6, Short and Wide 2, sizes from 3 take one byte and sizes from 16 take two. *)
MCData == {<<>>, <<1>>, <<6>>, Ones(3), Ones(16)}

MCRawItems == {DataItem(<<1>>), DataItem(<<7>>), ListItem(<<DataItem(<<1>>)>>)}

MCRaw == {<<>>, <<DataItem(<<1>>), DataItem(<<7>>)>>}

MCPrior == {<<>>, <<0>>}

(***************************************************************************)
(* Slices well formed or not, also with bytes behind their first item; of  *)
(* the longest only lists, whose header and items they may hold.           *)
(***************************************************************************)
Slices == UNION {[1..n -> Byte] : n \in 0..3} \cup {s \in [1..4 -> Byte] : IsList(s)}

(* Keys that are prefixes of each other, that part within a byte, or between two. *)
MCKeys == {<<>>, <<0>>, <<1>>, <<4>>, <<0, 0>>, <<0, 5>>}

(* A value whose leaf fits its parent, and one whose leaf may be just as long as a hash. *)
MCValues == {<<1>>, Ones(6)}

(* Twelve bytes for every key; the first nibble tells most of them apart, the last the others. *)
MCKeyHash ==
    LET rank(k) == IF Len(k) = 2 THEN 5 + k[1] + k[2] ELSE IF k = <<>> THEN 3 ELSE k[1]
    IN  [k \in MCKeys |-> [i \in 1..12 |-> IF i = 1 THEN (rank(k) \div 2) * 3
                                           ELSE IF i = 12 THEN rank(k) % 2 ELSE 2]]
==============================================================================
