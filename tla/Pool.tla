--------------------------------- MODULE Pool ---------------------------------
(***************************************************************************)
(* The transaction pool, transaction-pool's pool.rs: every transaction of  *)
(* every sender, kept in four structures that must agree at all times --   *)
(* the per-sender queues, the hash index, and the two ordered sets of each *)
(* sender's best and worst transaction -- and a running memory total.      *)
(*                                                                         *)
(* Every operation takes &mut self, so no two overlap.  import and cull    *)
(* run loops whose iterations depend on what the caller's ShouldReplace    *)
(* and Ready answer; each iteration is a step, and no other operation can  *)
(* start before the running one is back at pc = "idle".                    *)
(***************************************************************************)
EXTENDS Transactions

CONSTANTS
    Senders,
    Sender,             \* VerifiedTransaction::sender
    MemUsage,           \* VerifiedTransaction::mem_usage
    ShouldReplace(_, _),  \* the answers ShouldReplace::should_replace may give
    max_count,          \* Options
    max_per_sender,
    max_mem_usage,
    MaxInsertions,      \* bound: insertion ids handed out before imports stop
    ScoreOf             \* the score a Scoring gives a transaction (for ScoresFollow)

ASSUME SenderAssumption == Sender \in [Txs -> Senders]

ASSUME MemUsageAssumption == MemUsage \in [Txs -> Nat]

(***************************************************************************)
(* With max_per_sender = 0 the first import of a sender reads scores[-1]   *)
(* and panics; the crate has no run in which that is a usable limit.       *)
(***************************************************************************)
ASSUME OptionsAssumption ==
    /\ max_count \in Nat
    /\ max_per_sender \in Nat \ {0}
    /\ max_mem_usage \in Nat
    /\ MaxInsertions \in Nat

VARIABLES
    transactions,       \* queue of each sender that has an entry
    by_hash,            \* the Transaction stored under each known hash
    best_transactions,  \* ScoreWithRef of every queue's first transaction
    worst_transactions, \* ScoreWithRef of every queue's last transaction
    mem_usage,          \* running total of the memory of the pooled transactions
    insertion_id,       \* last insertion id handed out
    notified,           \* what the Listener was told: additions minus removals
    pc,                 \* where the running operation is
    new,                \* the transactions import is working on (at most one)
    culling             \* senders the running cull has still to visit

pool == <<transactions, by_hash, best_transactions, worst_transactions, mem_usage>>
vars == <<pool, insertion_id, notified, pc, new, culling>>
------------------------------------------------------------------------------
(* Ord for ScoreWithRef: higher scores first, then lower insertion ids. *)
Before(a, b) ==
    \/ a.score > b.score
    \/ /\ a.score = b.score
       /\ a.transaction.insertion_id < b.transaction.insertion_id

(* PartialEq for ScoreWithRef: what BTreeSet treats as one element. *)
SameRef(a, b) ==
    /\ a.score = b.score
    /\ a.transaction.insertion_id = b.transaction.insertion_id

IsFirst(e, refs) == e \in refs /\ \A x \in refs : x = e \/ Before(e, x)
IsLast(e, refs)  == e \in refs /\ \A x \in refs : x = e \/ Before(x, e)

(***************************************************************************)
(* update_senders_worst_and_best, for one of the two ordered sets: prev    *)
(* and curr are the sender's entry (at most one) before and after.         *)
(***************************************************************************)
IsSame(a, b) == a.score = b.score /\ a.transaction.tx = b.transaction.tx

RemoveRefs(refs, gone) == {x \in refs : \A e \in gone : ~SameRef(x, e)}
InsertRefs(refs, added) == refs \cup {e \in added : \A x \in refs : ~SameRef(x, e)}

UpdateRefs(refs, prev, curr) ==
    IF \E p \in prev, c \in curr : IsSame(p, c)
    THEN refs
    ELSE InsertRefs(RemoveRefs(refs, prev), curr)

QueueOf(s) == IF s \in DOMAIN transactions THEN transactions[s] ELSE Default

(***************************************************************************)
(* A sender's queue becomes q: remove_from_set, and the middle of import.  *)
(* The map entry goes when a queue that had transactions has none left.    *)
(***************************************************************************)
SetQueue(s, q) ==
    LET prev == QueueOf(s)
    IN  /\ best_transactions' = UpdateRefs(best_transactions, BestOf(prev), BestOf(q))
        /\ worst_transactions' = UpdateRefs(worst_transactions, WorstOf(prev), WorstOf(q))
        /\ transactions' =
               IF IsEmpty(q) /\ ~IsEmpty(prev)
               THEN Restrict(transactions, DOMAIN transactions \ {s})
               ELSE [x \in DOMAIN transactions \cup {s} |->
                        IF x = s THEN q ELSE transactions[x]]

(* The mem_usage of transactions, added up one after another. *)
TotalMem(txs) == MapThenSumSet(LAMBDA t : MemUsage[t], txs)

(* finalize_remove of every transaction in gone, if by_hash knows it. *)
Known(gone) == gone \cap DOMAIN by_hash
FinalizeRemove(gone) ==
    /\ by_hash' = Restrict(by_hash, DOMAIN by_hash \ gone)
    /\ mem_usage' = mem_usage - TotalMem(Known(gone))

(* Faulty variant of FinalizeInsert: the old transaction's memory stays counted. *)
FinalizeInsertLeaksMem(t, old) ==
    LET kept == (DOMAIN by_hash \cup {t.tx}) \ {o.tx : o \in old}
    IN  /\ by_hash' = [h \in kept |-> IF h = t.tx THEN t ELSE by_hash[h]]
        /\ mem_usage' = mem_usage + MemUsage[t.tx]

(* finalize_insert: count the new transaction in, then the old one out. *)
FinalizeInsert(t, old) ==
    LET gone == {o.tx : o \in old}
        kept == (DOMAIN by_hash \cup {t.tx}) \ gone
    IN  /\ by_hash' = [h \in kept |-> IF h = t.tx THEN t ELSE by_hash[h]]
        /\ mem_usage' = mem_usage + MemUsage[t.tx] - TotalMem(Known(gone))

(* Listener notifications: one entry more, or one entry fewer, per transaction. *)
Notify(added, removed) ==
    notified' = [t \in Txs |-> notified[t] + (IF t \in added THEN 1 ELSE 0)
                                           - (IF t \in removed THEN 1 ELSE 0)]
------------------------------------------------------------------------------
Init ==
    /\ transactions = [s \in {} |-> Default]
    /\ by_hash = [h \in {} |-> {}]
    /\ best_transactions = {}
    /\ worst_transactions = {}
    /\ mem_usage = 0
    /\ insertion_id = 0
    /\ notified = [t \in Txs |-> 0]
    /\ pc = "idle"
    /\ new = {}
    /\ culling = {}

(***************************************************************************)
(* import, up to its loops.  A known hash is refused (AlreadyImported)     *)
(* before anything changes, so the call is not a step.                     *)
(***************************************************************************)
Import(t) ==
    /\ pc = "idle"
    /\ t \notin DOMAIN by_hash
    /\ insertion_id < MaxInsertions
    /\ insertion_id' = insertion_id + 1
    /\ new' = {[tx |-> t, insertion_id |-> insertion_id + 1]}
    /\ pc' = "count"
    /\ UNCHANGED <<pool, notified, culling>>

(* import is over: its locals go. *)
Return == pc' = "idle" /\ new' = {}

(* listener.rejected, and the error goes to the caller. *)
Rejected ==
    /\ Return
    /\ UNCHANGED <<pool, insertion_id, notified, culling>>

(* get_replace_tx, called for the worst and for the new transaction alike. *)
ReplaceTransaction(t, importing) ==
    [transaction |-> t, pooled_by_sender |-> QueueOf(Sender[importing.tx]).transactions]

(* Ok(None) from remove_worst: break out of the loop, the limit will be exceeded. *)
Undecided(next) ==
    /\ pc' = next
    /\ UNCHANGED <<pool, insertion_id, notified, new, culling>>

(***************************************************************************)
(* One call of remove_worst by the loop at stage, which is left for next   *)
(* when should_replace cannot decide.                                      *)
(***************************************************************************)
RemoveWorst(t, next) ==
    \/ worst_transactions = {} /\ Rejected
    \/ \E worst \in worst_transactions :
          LET old == worst.transaction
          IN  /\ IsLast(worst, worst_transactions)
              /\ \E choice \in ShouldReplace(ReplaceTransaction(old, t),
                                             ReplaceTransaction(t, t)) :
                    \/ choice = "InsertNew" /\ Undecided(next)
                    \/ /\ choice = "ReplaceOld"
                       /\ \E q \in RemoveTransaction(QueueOf(Sender[old.tx]), old.tx) :
                             SetQueue(Sender[old.tx], q)
                       /\ Notify({}, {old.tx})
                       /\ FinalizeRemove({old.tx})
                       /\ UNCHANGED <<insertion_id, pc, new, culling>>
                    \/ choice = "RejectNew" /\ Rejected

(* Faulty variant of CountLoop: the new transaction is not counted. *)
CountLoopOffByOne(t) ==
    /\ pc = "count"
    /\ \/ /\ Cardinality(DOMAIN by_hash) <= max_count
          /\ pc' = "mem"
          /\ UNCHANGED <<pool, insertion_id, notified, new, culling>>
       \/ /\ Cardinality(DOMAIN by_hash) > max_count
          /\ RemoveWorst(t, "mem")

(* while by_hash.len() + 1 > max_count *)
CountLoop(t) ==
    /\ pc = "count"
    /\ \/ /\ Cardinality(DOMAIN by_hash) + 1 <= max_count
          /\ pc' = "mem"
          /\ UNCHANGED <<pool, insertion_id, notified, new, culling>>
       \/ /\ Cardinality(DOMAIN by_hash) + 1 > max_count
          /\ RemoveWorst(t, "mem")

(* Faulty variant of MemLoop: the loops start over when should_replace cannot decide. *)
MemLoopStartsOver(t) ==
    /\ pc = "mem"
    /\ \/ /\ mem_usage + MemUsage[t.tx] <= max_mem_usage
          /\ pc' = "add"
          /\ UNCHANGED <<pool, insertion_id, notified, new, culling>>
       \/ /\ mem_usage + MemUsage[t.tx] > max_mem_usage
          /\ RemoveWorst(t, "count")

(* while mem_usage + transaction.mem_usage() > max_mem_usage *)
MemLoop(t) ==
    /\ pc = "mem"
    /\ \/ /\ mem_usage + MemUsage[t.tx] <= max_mem_usage
          /\ pc' = "add"
          /\ UNCHANGED <<pool, insertion_id, notified, new, culling>>
       \/ /\ mem_usage + MemUsage[t.tx] > max_mem_usage
          /\ RemoveWorst(t, "add")

(***************************************************************************)
(* The rest of import: add to the sender's queue, refresh the ordered      *)
(* sets, then account for the result.  add can fail after transactions     *)
(* were evicted; nothing puts them back.                                   *)
(***************************************************************************)
AddToQueue(t) ==
    /\ pc = "add"
    /\ \E r \in Add(QueueOf(Sender[t.tx]), t, max_per_sender) :
          /\ SetQueue(Sender[t.tx], r.queue)
          /\ \/ /\ r.result \in {"Ok", "PushedOut", "Replaced"}
                /\ Notify({t.tx}, {o.tx : o \in r.old})
                /\ FinalizeInsert(t, r.old)
             \/ /\ r.result \in {"TooCheap", "TooCheapToEnter"}
                /\ UNCHANGED <<by_hash, mem_usage, notified>>
    /\ Return
    /\ UNCHANGED <<insertion_id, culling>>

ImportStep == \E t \in new : CountLoop(t) \/ MemLoop(t) \/ AddToQueue(t)
------------------------------------------------------------------------------
idle == pc = "idle" /\ UNCHANGED <<insertion_id, pc, new, culling>>

(* remove(hash, is_invalid): invalid and canceled both end the listener's entry. *)
RemoveByHash(t) ==
    /\ idle
    /\ t \in DOMAIN by_hash
    /\ FinalizeRemove({t})
    /\ \E q \in RemoveTransaction(QueueOf(Sender[t]), t) : SetQueue(Sender[t], q)
    /\ Notify({}, {t})

(* clear: the listener hears dropped for what by_hash held. *)
Clear ==
    /\ idle
    /\ DOMAIN by_hash # {}
    /\ mem_usage' = 0
    /\ transactions' = [s \in {} |-> Default]
    /\ best_transactions' = {}
    /\ worst_transactions' = {}
    /\ by_hash' = [h \in {} |-> {}]
    /\ Notify({}, DOMAIN by_hash)

(* update_scores(sender, event) *)
ScoringEvent(s) ==
    /\ idle
    /\ s \in DOMAIN transactions
    /\ SetQueue(s, UpdateScores(transactions[s]))
    /\ UNCHANGED <<by_hash, mem_usage, notified>>

(* cull(Some(list)) or cull(None), which lists the senders of the pool. *)
CullSenders(list) ==
    /\ pc = "idle"
    /\ list # {}
    /\ pc' = "cull"
    /\ culling' = list
    /\ UNCHANGED <<pool, insertion_id, notified, new>>

(***************************************************************************)
(* remove_stalled for the next sender of the list; n is how many leading   *)
(* transactions Ready calls stale before its first other answer.           *)
(***************************************************************************)
RemoveStalled(s) ==
    /\ pc = "cull"
    /\ s \in culling
    /\ culling' = culling \ {s}
    /\ pc' = IF culling = {s} THEN "idle" ELSE "cull"
    /\ \E n \in 0..Len(QueueOf(s).transactions) :
          LET removed == {QueueOf(s).transactions[i].tx : i \in 1..n}
          IN  /\ IF s \in DOMAIN transactions
                 THEN SetQueue(s, CullStalled(transactions[s], n))
                 ELSE UNCHANGED <<transactions, best_transactions, worst_transactions>>
              /\ FinalizeRemove(removed)
              /\ Notify({}, removed)
    /\ UNCHANGED <<insertion_id, new>>

Next ==
    \/ \E t \in Txs : Import(t) \/ RemoveByHash(t)
    \/ ImportStep
    \/ Clear
    \/ \E s \in Senders : ScoringEvent(s) \/ RemoveStalled(s)
    \/ \E list \in SUBSET Senders : CullSenders(list)

(* An operation that has begun runs on: nothing in it waits. *)
Spec ==
    /\ Init
    /\ [][Next]_vars
    /\ WF_vars(ImportStep)
    /\ WF_vars(\E s \in Senders : RemoveStalled(s))
------------------------------------------------------------------------------
(* The state every operation of Pool leaves behind is well formed. *)
TypeOK ==
    /\ DOMAIN transactions \subseteq Senders
    /\ transactions = [s \in DOMAIN transactions |-> transactions[s]]
    /\ \A s \in DOMAIN transactions : IsQueue(transactions[s])
    /\ by_hash \in [DOMAIN by_hash -> Transaction]
    /\ DOMAIN by_hash \subseteq Txs
    /\ insertion_id \in Nat
    /\ notified \in [Txs -> Int]
    /\ pc \in {"idle", "count", "mem", "add", "cull"}
    /\ new \in SUBSET Transaction
    /\ culling \subseteq Senders

(***************************************************************************)
(* Each sender's queue holds that sender's transactions only, in strictly  *)
(* increasing compare order, and is not empty: the precondition of every   *)
(* binary_search_by, which add, remove and find_next rely on, kept by      *)
(* inserting at the index the search returned.                             *)
(***************************************************************************)
QueuesSorted ==
    \A s \in DOMAIN transactions :
        LET txs == transactions[s].transactions
        IN  /\ Len(txs) > 0
            /\ \A i \in 1..Len(txs) : Sender[txs[i].tx] = s
            /\ \A i, j \in 1..Len(txs) : i < j => Nonce[txs[i].tx] < Nonce[txs[j].tx]

(***************************************************************************)
(* by_hash and the queues hold the same transactions under the same        *)
(* insertion ids, although import, remove, cull and eviction update them   *)
(* in different places and in different orders.                            *)
(***************************************************************************)
HashIndexExact ==
    /\ \A s \in DOMAIN transactions : \A i \in 1..Len(transactions[s].transactions) :
          LET t == transactions[s].transactions[i]
          IN  t.tx \in DOMAIN by_hash /\ by_hash[t.tx] = t
    /\ \A h \in DOMAIN by_hash :
          /\ by_hash[h].tx = h
          /\ Sender[h] \in DOMAIN transactions
          /\ \E i \in 1..Len(transactions[Sender[h]].transactions) :
                transactions[Sender[h]].transactions[i] = by_hash[h]

(***************************************************************************)
(* best_transactions and worst_transactions are exactly the first and the  *)
(* last entry of every queue with their current scores.  They are never    *)
(* recomputed, only patched by update_senders_worst_and_best; a stale      *)
(* entry would be offered for eviction, or open the pending iterator.      *)
(***************************************************************************)
OrderedSetsExact ==
    /\ best_transactions = UNION {BestOf(transactions[s]) : s \in DOMAIN transactions}
    /\ worst_transactions = UNION {WorstOf(transactions[s]) : s \in DOMAIN transactions}

(***************************************************************************)
(* Insertion ids identify pooled transactions: BTreeSet compares only the  *)
(* score and the id, so two entries with equal ids could shadow each other.*)
(***************************************************************************)
InsertionIdsUnique ==
    \A g, h \in DOMAIN by_hash :
        by_hash[g].insertion_id = by_hash[h].insertion_id => g = h

(***************************************************************************)
(* mem_usage, patched by finalize_insert and finalize_remove, is the total *)
(* memory of what the pool holds; as a usize it would otherwise drift or   *)
(* underflow.                                                              *)
(***************************************************************************)
MemUsageExact == mem_usage = TotalMem(DOMAIN by_hash)

(***************************************************************************)
(* A listener that counts added against dropped, culled, invalid and       *)
(* canceled (and the old transaction of added) sees every pooled           *)
(* transaction exactly once and no other, on every path through the pool.  *)
(***************************************************************************)
ListenerExact == \A t \in Txs : notified[t] = IF t \in DOMAIN by_hash THEN 1 ELSE 0

(***************************************************************************)
(* What a running operation may count on between two of its steps: import  *)
(* works on one transaction that is not pooled yet and whose id is the     *)
(* newest, and no two operations run at once.                              *)
(***************************************************************************)
CallConsistent ==
    /\ \A h \in DOMAIN by_hash : by_hash[h].insertion_id <= insertion_id
    /\ \A t \in new :
          /\ t.tx \notin DOMAIN by_hash
          /\ t.insertion_id = insertion_id
          /\ \A h \in DOMAIN by_hash : by_hash[h].insertion_id < insertion_id
    /\ \A t, u \in new : t = u
    /\ new # {} <=> pc \in {"count", "mem", "add"}
    /\ culling # {} <=> pc = "cull"

(* The four structures agree between any two steps: the pool's inductive invariant. *)
PoolConsistent ==
    /\ TypeOK
    /\ QueuesSorted
    /\ HashIndexExact
    /\ OrderedSetsExact
    /\ InsertionIdsUnique
    /\ ListenerExact
    /\ CallConsistent

(***************************************************************************)
(* Scores stay with their transactions as the vectors are shifted: with a  *)
(* Scoring that writes a score on insertion and replacement only, each     *)
(* pooled transaction keeps the score it was given.                        *)
(***************************************************************************)
ScoresFollow ==
    \A s \in DOMAIN transactions : \A i \in DOMAIN transactions[s].scores :
        transactions[s].scores[i] = ScoreOf[transactions[s].transactions[i].tx]

(***************************************************************************)
(* The Options limits hold after every step when should_replace always     *)
(* decides and no transaction ignores the sender limit.                    *)
(***************************************************************************)
LimitsRespected ==
    /\ Cardinality(DOMAIN by_hash) <= max_count
    /\ mem_usage <= max_mem_usage
    /\ \A s \in DOMAIN transactions :
          Len(transactions[s].transactions) <= max_per_sender

(***************************************************************************)
(* What leaves the pool leaves a gap-free rest: import's loops evict a     *)
(* sender's last transaction, its add drops the last one or the one whose  *)
(* place the new one takes, and cull takes a prefix.                       *)
(***************************************************************************)
Left == DOMAIN by_hash \ DOMAIN by_hash'
SameSender(t) == {u \in DOMAIN by_hash' : Sender[u] = Sender[t]}
RemovalsKeepOrder ==
    [][\A t \in Left :
          /\ pc \in {"count", "mem"} => \A u \in SameSender(t) : Nonce[u] < Nonce[t]
          /\ pc = "add" => \/ \A u \in SameSender(t) : Nonce[u] < Nonce[t]
                           \/ \E u \in SameSender(t) \ DOMAIN by_hash : Nonce[u] = Nonce[t]
          /\ pc = "cull" => \A u \in SameSender(t) : Nonce[u] > Nonce[t]]_vars

(***************************************************************************)
(* import and cull come back whatever ShouldReplace, Scoring and Ready     *)
(* answer: every round of import's loops evicts, gives up or moves on.     *)
(***************************************************************************)
OperationsReturn == (pc # "idle") ~> (pc = "idle")
------------------------------------------------------------------------------
(***************************************************************************)
(* Statements of the crate's documentation that the code does not keep;    *)
(* the violation runs check them.                                          *)
(***************************************************************************)

(* Once past the limit by an ignoring transaction, a queue takes no ordinary one. *)
OrdinaryKeepSenderLimit ==
    [][\A s \in DOMAIN transactions' :
          LET now == transactions'[s].transactions
              was == QueueOf(s).transactions
          IN  Len(now) > Len(was) /\ Len(now) > max_per_sender
                  => \A t \in new : t.tx \in IgnoresSenderLimit]_vars
==============================================================================
