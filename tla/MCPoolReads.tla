----------------------------- MODULE MCPoolReads ------------------------------
(* Small instances of PoolReads: a sender with a replaceable slot and one with a gap. *)
EXTENDS PoolReads

MCSenders == {"a", "b"}
MCTxs == {"a0", "a1", "a1x", "a2", "b0", "b1"}
MCSender == [t \in MCTxs |-> IF t \in {"b0", "b1"} THEN "b" ELSE "a"]
MCNonce == [a0 |-> 0, a1 |-> 1, a1x |-> 1, a2 |-> 2, b0 |-> 0, b1 |-> 1]
GasPrice == [a0 |-> 2, a1 |-> 1, a1x |-> 3, a2 |-> 2, b0 |-> 2, b1 |-> 3]
MCMemUsage == [a0 |-> 1, a1 |-> 1, a1x |-> 3, a2 |-> 1, b0 |-> 1, b1 |-> 2]
NoTxs == {}

(* NonceReady::new(min) begins with the same nonce for everybody; accounts need not. *)
MCStarts == [MCSenders -> 0..1]

DummyChoose(old, new_) ==
    CASE MCNonce[old] # MCNonce[new_] -> "InsertNew"
      [] MCNonce[old] = MCNonce[new_] /\ GasPrice[new_] > GasPrice[old] -> "ReplaceOld"
      [] OTHER -> "RejectNew"

DummyScoreAt(txs, scores, change, i) ==
    IF change.kind = "Event" THEN 0 ELSE GasPrice[txs[i].tx]

DummyShouldReplace(old, new_) ==
    IF GasPrice[new_.transaction.tx] > GasPrice[old.transaction.tx]
    THEN {"ReplaceOld"}
    ELSE {"RejectNew"}
==============================================================================
