----------------------------- MODULE Transactions -----------------------------
(***************************************************************************)
(* The queue of one sender in the transaction pool, transaction-pool's     *)
(* transactions.rs: transactions ordered by Scoring::compare, and a vector *)
(* of scores that runs parallel to it.  The queue is a value; the pool     *)
(* (module Pool) holds one per sender and replaces it as a whole.          *)
(*                                                                         *)
(* The Scoring trait is a parameter of the crate and so of this module:    *)
(* compare is the comparison of an integer key (Nonce), choose,            *)
(* update_scores and should_ignore_sender_limit are constants.  Indices    *)
(* are those of TLA+ sequences, one more than the vector's.                *)
(***************************************************************************)
EXTENDS Integers, Sequences, SequencesExt

CONSTANTS
    Txs,                \* verified transactions; a transaction is its hash
    Nonce,              \* the key Scoring::compare compares
    Choose(_, _),       \* Scoring::choose(old, new)
    ScoreAt(_, _, _, _), \* what update_scores(txs, scores, change) leaves at an index
    IgnoresSenderLimit  \* where should_ignore_sender_limit answers true

Choice == {"RejectNew", "ReplaceOld", "InsertNew"}

(* Transaction<T>: the verified transaction and its insertion id. *)
Transaction == [tx : Txs, insertion_id : Nat]

(***************************************************************************)
(* A Transactions<T, S> is a record of two vectors, one entry per          *)
(* transaction in each.  Score is any ordered type the Scoring supplies;   *)
(* nothing here depends on which.                                          *)
(***************************************************************************)
IsQueue(q) ==
    /\ q = [transactions |-> q.transactions, scores |-> q.scores]
    /\ q.transactions \in Seq(Transaction)
    /\ DOMAIN q.scores = 1..Len(q.transactions)
    /\ q.scores = [i \in 1..Len(q.transactions) |-> q.scores[i]]

ASSUME NonceAssumption == Nonce \in [Txs -> Int]

ASSUME IgnoresAssumption == IgnoresSenderLimit \subseteq Txs

(***************************************************************************)
(* Two transactions that compare as equal occupy one slot: choose keeps    *)
(* one of them.  Answering InsertNew there would put two entries that      *)
(* binary_search_by cannot tell apart in the queue, and remove would then  *)
(* take either.                                                            *)
(***************************************************************************)
ASSUME ChooseAssumption ==
    \A old, new \in Txs :
        /\ Choose(old, new) \in Choice
        /\ Nonce[old] = Nonce[new] => Choose(old, new) # "InsertNew"
------------------------------------------------------------------------------
DefaultScore == 0

Default == [transactions |-> <<>>, scores |-> <<>>]

IsEmpty(q) == q.transactions = <<>>

(***************************************************************************)
(* worst_and_best reads the last and the first entry.  Each is an Option:  *)
(* here a set of at most one element, empty for an empty queue.            *)
(***************************************************************************)
EntryAt(q, i) == [score |-> q.scores[i], transaction |-> q.transactions[i]]
(* Faulty variant of WorstOf: the cheapest-looking first entry instead of the last. *)
WorstOfFirst(q) == {EntryAt(q, i) : i \in {1} \cap DOMAIN q.scores}
WorstOf(q) == {EntryAt(q, i) : i \in {Len(q.scores)} \cap DOMAIN q.scores}
BestOf(q)  == {EntryAt(q, i) : i \in {1} \cap DOMAIN q.scores}

NonceAt(q, i) == Nonce[q.transactions[i].tx]

(***************************************************************************)
(* What binary_search_by may return: Ok of any index that compares equal,  *)
(* or else Err of the place where the key would go.                        *)
(***************************************************************************)
SearchOk(q, t) == {i \in DOMAIN q.transactions : NonceAt(q, i) = Nonce[t]}
SearchErr(q, t) ==
    {i \in 1..(Len(q.transactions) + 1) :
        /\ \A j \in 1..(i - 1) : NonceAt(q, j) < Nonce[t]
        /\ \A j \in i..Len(q.transactions) : NonceAt(q, j) > Nonce[t]}

(* find_next: the entry after t's slot, if the slot and the entry exist. *)
FindNext(q, t) ==
    {EntryAt(q, i + 1) : i \in {j \in SearchOk(q, t) : j + 1 <= Len(q.scores)}}

(***************************************************************************)
(* The trailing scoring.update_scores of every operation.  scores is the   *)
(* vector as the operation left it, shifted along with the transactions;   *)
(* update_scores writes through a slice, so it cannot change the length.   *)
(* The change carries the vector's index, which starts at zero.            *)
(***************************************************************************)
Rescored(txs, scores, kind, index) ==
    LET change == [kind |-> kind, index |-> index]
    IN  [transactions |-> txs,
         scores |-> [i \in 1..Len(txs) |-> ScoreAt(txs, scores, change, i)]]

(* AddResult: its variant, the queue add leaves, and the old transaction it names. *)
AddResult(kind, q, old) == [result |-> kind, queue |-> q, old |-> old]

PushCheapestTransaction(q, new, max_count) ==
    LET index == Len(q.transactions)
    IN  IF index = max_count /\ new.tx \notin IgnoresSenderLimit
        THEN AddResult("TooCheapToEnter", q, {})
        ELSE AddResult("Ok",
                       Rescored(Append(q.transactions, new), Append(q.scores, DefaultScore),
                                "InsertedAt", index),
                       {})

(* choose answered InsertNew: insert before i and push out the last if over the limit. *)
InsertNew(q, new, i, max_count) ==
    LET grown == Rescored(InsertAt(q.transactions, i, new),
                          InsertAt(q.scores, i, DefaultScore), "InsertedAt", i - 1)
    IN  IF Len(grown.transactions) > max_count
        THEN AddResult("PushedOut",
                       Rescored(Front(grown.transactions), Front(grown.scores),
                                "RemovedAt", Len(grown.transactions) - 1),
                       {Last(grown.transactions)})
        ELSE AddResult("Ok", grown, {})

ReplaceOld(q, new, i) ==
    AddResult("Replaced",
              Rescored(ReplaceAt(q.transactions, i, new), q.scores, "ReplacedAt", i - 1),
              {q.transactions[i]})

(* add, with i the index the binary search came back with, Ok or Err. *)
AddAt(q, new, i, max_count) ==
    IF i = Len(q.transactions) + 1
    THEN PushCheapestTransaction(q, new, max_count)
    ELSE LET choice == Choose(q.transactions[i].tx, new.tx)
         IN  CASE choice = "RejectNew"  -> AddResult("TooCheap", q, {q.transactions[i]})
               [] choice = "InsertNew"  -> InsertNew(q, new, i, max_count)
               [] choice = "ReplaceOld" -> ReplaceOld(q, new, i)

Add(q, new, max_count) ==
    {AddAt(q, new, i, max_count) : i \in SearchOk(q, new.tx) \cup SearchErr(q, new.tx)}

(* Faulty variant of RemoveTransaction: the score at the end goes, not the one at i. *)
RemoveTransactionPopsScore(q, t) ==
    IF SearchOk(q, t) = {}
    THEN {q}
    ELSE {Rescored(RemoveAt(q.transactions, i), Front(q.scores), "RemovedAt", i - 1) :
              i \in SearchOk(q, t)}

(* Faulty variant of RemoveTransaction: the neighbour of the slot found is removed. *)
RemoveTransactionOffByOne(q, t) ==
    {Rescored(RemoveAt(q.transactions, 1), RemoveAt(q.scores, 1), "RemovedAt", 0) :
        i \in SearchOk(q, t)}

(* remove: a transaction the search does not find leaves the queue as it is. *)
RemoveTransaction(q, t) ==
    IF SearchOk(q, t) = {}
    THEN {q}
    ELSE {Rescored(RemoveAt(q.transactions, i), RemoveAt(q.scores, i), "RemovedAt", i - 1) :
              i \in SearchOk(q, t)}

(* cull, with n the number of leading transactions is_ready calls Stale. *)
CullStalled(q, n) ==
    IF n = 0
    THEN q
    ELSE Rescored(SubSeq(q.transactions, n + 1, Len(q.transactions)),
                  SubSeq(q.scores, n + 1, Len(q.scores)), "Culled", n)

(* The handler of an external scoring event, Transactions::update_scores. *)
UpdateScores(q) == Rescored(q.transactions, q.scores, "Event", 0)
==============================================================================
