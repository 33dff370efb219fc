----------------------------- MODULE MCKvdbMemory -----------------------------
EXTENDS KvdbMemory

CONSTANTS t1, t2

MCThreads == {t1, t2}

MCDBValue == {<<>>, <<0>>}

(* Keys and prefixes with, and without, trailing 0xff bytes (1 here). *)
MCKeys == {<<0, 1>>, <<1>>, <<1, 0>>, <<1, 1>>}

MCPrefixes == {<<>>, <<0>>, <<0, 1>>, <<1>>, <<1, 1>>}

MCTransactions ==
    {<<Insert(0, k, <<0>>), DeletePrefix(0, p)>> : k \in MCKeys, p \in MCPrefixes}
        \cup {<<DeletePrefix(0, p), Insert(0, <<1, 1>>, <<>>)>> : p \in MCPrefixes}
        \cup {<<Delete(0, <<1>>), Insert(1, <<1>>, <<0>>)>>,
              <<Insert(0, <<>>, <<>>), Insert(0, <<0, 1>>, <<0>>), Insert(0, <<1, 0>>, <<0>>)>>}

MCQueries ==
    {[call |-> "get", col |-> 0, key |-> <<1>>], [call |-> "get", col |-> 1, key |-> <<1>>],
     [call |-> "get_by_prefix", col |-> 0, key |-> <<1>>],
     [call |-> "iter", col |-> 0, key |-> <<>>],
     [call |-> "iter_with_prefix", col |-> 0, key |-> <<0>>],
     [call |-> "iter_with_prefix", col |-> 1, key |-> <<0>>]}
==============================================================================
