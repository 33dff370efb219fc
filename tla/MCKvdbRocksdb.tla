---------------------------- MODULE MCKvdbRocksdb ----------------------------
EXTENDS KvdbRocksdb

CONSTANTS t1, t2

MCThreads == {t1, t2}

MCDBValue == {<<>>, <<0>>}

MCIterPrefixes == {<<>>, <<0>>}

MCCopyContent == [d \in Copies |-> [c \in {0} |-> WithKey(EmptyMap, <<0>>, IF d = "copy" THEN <<>> ELSE <<0>>)]]

(* With 1 for 0xff and 2 for 16, <<1, 1>> is the first key that the range of <<1>> misses. *)
MCTransactions ==
    {<<Insert(0, <<0, 1>>, <<0>>), Insert(0, <<1, 1>>, <<0>>)>>,
     <<DeletePrefix(0, <<0>>), Insert(0, <<1, 0>>, <<>>)>>,
     <<Insert(0, <<1, 0>>, <<0>>), DeletePrefix(0, <<1>>)>>}
==============================================================================
