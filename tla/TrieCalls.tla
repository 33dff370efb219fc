------------------------------ MODULE TrieCalls ------------------------------
(***************************************************************************)
(* Clients of the rlp crate: one writes and reads items, the other gathers *)
(* key-value pairs, in any order and with repeated keys, for triehash.     *)
(***************************************************************************)
EXTENDS RlpReader, TrieHash

CONSTANTS
    Keys, Values,
    MaxPairs    \* bound on the pairs of an input

VARIABLES
    pairs,      \* the input of the roots
    held        \* what a map holds that the pairs were put into (history)

callVars == <<vars, pairs, held>>

CallInit == Init /\ pairs = <<>> /\ held = <<>>

(* The caller's iterator has one more pair. *)
Push(k, v) ==
    /\ reading = {} /\ steps = 0 /\ buffer = <<>> /\ frames = <<>>
    /\ Len(pairs) < MaxPairs
    /\ pairs' = Append(pairs, [key |-> k, value |-> v])
    /\ held' = (k :> v) @@ held
    /\ UNCHANGED vars

CallNext ==
    \/ pairs = <<>> /\ Next /\ UNCHANGED <<pairs, held>>
    \/ \E k \in Keys, v \in Values : Push(k, v)

CallSpec == CallInit /\ [][CallNext]_callVars
------------------------------------------------------------------------------
Indices == DOMAIN pairs

(***************************************************************************)
(* The roots of the three functions are those of the canonical trie of     *)
(* what was given: the last value of every key, whatever the order; the    *)
(* same under the hashed keys; and every value under its encoded index,    *)
(* although index 0 is not the first in the order of keys.                 *)
(***************************************************************************)
TrieRootsExact ==
    /\ RootOf(TrieRoot(pairs), held, Keys)
    /\ RootOf(SecTrieRoot(pairs),
              [h \in {KeyHash[k] : k \in DOMAIN held} |->
                  held[CHOOSE k \in DOMAIN held : KeyHash[k] = h]],
              {KeyHash[k] : k \in Keys})
    /\ RootOf(OrderedTrieRoot([i \in Indices |-> pairs[i].value]),
              [k \in {OrderedKey(i) : i \in Indices} |->
                  pairs[CHOOSE i \in Indices : OrderedKey(i) = k].value],
              {OrderedKey(i) : i \in 1..(MaxPairs + 1)})
==============================================================================
