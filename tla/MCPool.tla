-------------------------------- MODULE MCPool --------------------------------
(* Small instances of Pool: two senders, replacements and per-sender pushes. *)
EXTENDS Pool

MCSenders == {"a", "b"}
MCTxs == {"a0", "a1", "a1x", "a2", "b0", "b1"}
MCSender == [t \in MCTxs |-> IF t \in {"b0", "b1"} THEN "b" ELSE "a"]
MCNonce == [a0 |-> 0, a1 |-> 1, a1x |-> 1, a2 |-> 2, b0 |-> 0, b1 |-> 1]
GasPrice == [a0 |-> 2, a1 |-> 1, a1x |-> 3, a2 |-> 2, b0 |-> 2, b1 |-> 3]
MCMemUsage == [a0 |-> 1, a1 |-> 1, a1x |-> 3, a2 |-> 1, b0 |-> 1, b1 |-> 2]

SomeTxs == {"a1", "b1"}

(* DummyScoring of the crate's tests: choose, update_scores and should_replace. *)
DummyChoose(old, new_) ==
    CASE MCNonce[old] # MCNonce[new_] -> "InsertNew"
      [] MCNonce[old] = MCNonce[new_] /\ GasPrice[new_] > GasPrice[old] -> "ReplaceOld"
      [] OTHER -> "RejectNew"

(* A Scoring that, as Change's documentation invites, writes only where told to. *)
LazyScoreAt(txs, scores, change, i) ==
    IF change.kind \in {"InsertedAt", "ReplacedAt"} /\ change.index = i - 1
    THEN GasPrice[txs[i].tx]
    ELSE scores[i]

(* Any ShouldReplace at all. *)
AnyShouldReplace(old, new_) == Choice
==============================================================================
