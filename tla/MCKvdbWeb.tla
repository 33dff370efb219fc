------------------------------ MODULE MCKvdbWeb ------------------------------
EXTENDS KvdbWeb

MCDBValue == {<<>>, <<0>>}

(* Transactions of several operations, on the first and on a later column. *)
PlainTransactions ==
    {<<Insert(0, <<0>>, <<0>>), Insert(0, <<1>>, <<0>>)>>,
     <<Delete(0, <<1>>), Insert(0, <<0>>, <<>>)>>,
     <<Insert(1, <<1>>, <<0>>), Delete(0, <<0>>)>>}

PrefixTransactions == PlainTransactions \cup {<<DeletePrefix(0, <<>>)>>}
==============================================================================
