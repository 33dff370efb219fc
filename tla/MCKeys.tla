-------------------------------- MODULE MCKeys ---------------------------------
(* The curve y^2 = x^3 + 14 over 19 elements: 13 points, half of them with x >= 13. *)
EXTENDS KeyCalls

MCAffine == <<<<5, 5>>, <<13, 11>>, <<17, 5>>, <<16, 14>>, <<15, 11>>, <<10, 11>>,
              <<10, 8>>, <<15, 8>>, <<16, 5>>, <<17, 14>>, <<13, 8>>, <<5, 14>>>>

(* Any function will do; this one reaches zero and the numbers from the order on. *)
MCHmac(code, data) ==
    [key |-> (7 * code + 3 * data[1] + 5 * data[2] + 2 * data[3]) % Size,
     code |-> (code + data[2] + data[3]) % 3]

MCSeedHmac(seed) == [key |-> (4 * seed) % Size, code |-> seed % 3]
MCChainCode(s) == s % 3
MCAddressOf(p) == <<"address", p>>

Texts == {[i \in DOMAIN values |-> [value |-> values[i], under |-> {}]] :
              values \in {<<>>, <<1>>, <<1, 0>>}}
==============================================================================
