------------------------------- MODULE PoolReads -------------------------------
(***************************************************************************)
(* The read side of the pool: the pending iterator, which merges the       *)
(* senders' queues by score, the unordered iterator and status.  All of    *)
(* them borrow the pool, so it does not change while one runs; each owns a *)
(* Ready, here NonceReady of the crate's tests, which remembers the next   *)
(* nonce of every sender and so answers differently as it is asked.        *)
(***************************************************************************)
EXTENDS Pool

CONSTANT
    Starts              \* the next nonces a Ready may begin with

ASSUME StartsAssumption == Starts \subseteq [Senders -> Int]

VARIABLES
    reader,             \* "none", or a pending iterator "running" or "exhausted"
    start,              \* the next nonces its Ready began with (for the properties)
    ready,              \* NonceReady: next nonce of every sender
    heap,               \* PendingIterator.best_transactions
    asked,              \* the senders it was asked for (for the properties)
    yielded             \* what it has returned so far

readVars == <<reader, start, ready, heap, asked, yielded>>
allVars == <<vars, readVars>>

(* NonceReady::is_ready: the answer, and the state it leaves. *)
Readiness(nonces, t) ==
    CASE Nonce[t] > nonces[Sender[t]] -> "Future"
      [] Nonce[t] = nonces[Sender[t]] -> "Ready"
      [] Nonce[t] < nonces[Sender[t]] -> "Stale"

AfterAsking(nonces, t) ==
    IF Readiness(nonces, t) = "Ready" THEN [nonces EXCEPT ![Sender[t]] = @ + 1] ELSE nonces
------------------------------------------------------------------------------
Iterate(refs, senders, from) ==
    /\ reader = "none"
    /\ pc = "idle"
    /\ reader' = "running"
    /\ heap' = refs
    /\ asked' = senders
    /\ start' = from
    /\ ready' = from
    /\ yielded' = <<>>
    /\ UNCHANGED vars

Pending(from) == Iterate(best_transactions, DOMAIN transactions, from)

PendingFromSender(s, from) == Iterate(BestOf(QueueOf(s)), {s}, from)

(* Faulty variant of Successor: a stale transaction ends its sender's turn. *)
SuccessorOfReady(best, state) ==
    IF state = "Ready"
    THEN FindNext(QueueOf(Sender[best.transaction.tx]), best.transaction.tx)
    ELSE {}

(* Faulty variant of Successor: the slot itself is found again. *)
SuccessorItself(best, state) ==
    IF state \in {"Ready", "Stale"} THEN {best} ELSE {}

(* The next transaction of the sender goes on the heap unless this one is in the future. *)
Successor(best, state) ==
    IF state \in {"Ready", "Stale"}
    THEN FindNext(QueueOf(Sender[best.transaction.tx]), best.transaction.tx)
    ELSE {}

(* One round of PendingIterator::next; it returns to the caller in the rounds that yield. *)
PendingNext ==
    /\ reader = "running"
    /\ \E best \in heap :
          LET t == best.transaction.tx
              state == Readiness(ready, t)
          IN  /\ IsFirst(best, heap)
              /\ heap' = InsertRefs(heap \ {best}, Successor(best, state))
              /\ ready' = AfterAsking(ready, t)
              /\ yielded' = IF state = "Ready" THEN Append(yielded, t) ELSE yielded
    /\ UNCHANGED <<vars, reader, start, asked>>

(* next() returned None. *)
PendingNone ==
    /\ reader = "running"
    /\ heap = {}
    /\ reader' = "exhausted"
    /\ UNCHANGED <<vars, start, ready, heap, asked, yielded>>

(* The iterator is dropped and the borrow ends.  (Dropping it early only forgets its state.) *)
DropIterator ==
    /\ reader = "exhausted"
    /\ reader' = "none"
    /\ heap' = {}
    /\ asked' = {}
    /\ start' = [s \in Senders |-> 0]
    /\ ready' = [s \in Senders |-> 0]
    /\ yielded' = <<>>
    /\ UNCHANGED vars

ReadInit ==
    /\ Init
    /\ reader = "none"
    /\ heap = {}
    /\ asked = {}
    /\ start = [s \in Senders |-> 0]
    /\ ready = [s \in Senders |-> 0]
    /\ yielded = <<>>

ReadNext ==
    \/ reader = "none" /\ Next /\ UNCHANGED readVars
    \/ \E from \in Starts : Pending(from) \/ \E s \in Senders : PendingFromSender(s, from)
    \/ PendingNext
    \/ PendingNone
    \/ DropIterator

(* The caller drains the iterator; its rounds need nobody else. *)
ReadSpec == ReadInit /\ [][ReadNext]_allVars /\ WF_allVars(PendingNext) /\ WF_allVars(PendingNone)
------------------------------------------------------------------------------
(***************************************************************************)
(* UnorderedIterator drains one sender's slice after another.  next()      *)
(* stays with a sender only while it yields: the first transaction that is *)
(* not ready, stale or future, makes it fall through to the next sender.   *)
(***************************************************************************)
Visited(acc, t) ==
    IF acc.done \/ Readiness(acc.ready, t) # "Ready"
    THEN [acc EXCEPT !.done = TRUE]
    ELSE [acc EXCEPT !.ready = AfterAsking(acc.ready, t), !.out = @ \cup {t}]

(* Faulty variant of UnorderedFrom: moving on to a sender skips its first transaction. *)
UnorderedFromSecond(q, from) ==
    LET after[i \in 0..Len(q.transactions)] ==
            IF i <= 1
            THEN [done |-> FALSE, ready |-> from, out |-> {}]
            ELSE Visited(after[i - 1], q.transactions[i].tx)
    IN  after[Len(q.transactions)].out

UnorderedFrom(q, from) ==
    LET after[i \in 0..Len(q.transactions)] ==
            IF i = 0
            THEN [done |-> FALSE, ready |-> from, out |-> {}]
            ELSE Visited(after[i - 1], q.transactions[i].tx)
    IN  after[Len(q.transactions)].out

UnorderedPending(from) == UNION {UnorderedFrom(transactions[s], from) : s \in DOMAIN transactions}

(***************************************************************************)
(* status, for one sender: at the first future transaction that one and    *)
(* the rest behind it count as future and the loop breaks.                 *)
(***************************************************************************)
Counted(acc, t, rest) ==
    LET state == Readiness(acc.ready, t)
    IN  IF acc.future > 0
        THEN acc
        ELSE [ready   |-> AfterAsking(acc.ready, t),
              stalled |-> acc.stalled + (IF state = "Stale" THEN 1 ELSE 0),
              pending |-> acc.pending + (IF state = "Ready" THEN 1 ELSE 0),
              future  |-> IF state = "Future" THEN rest ELSE 0]

StatusOf(q, from) ==
    LET len == Len(q.transactions)
        after[i \in 0..len] ==
            IF i = 0
            THEN [ready |-> from, stalled |-> 0, pending |-> 0, future |-> 0]
            ELSE Counted(after[i - 1], q.transactions[i].tx, len - (i - 1))
    IN  after[len]

SumOf(f, S) == MapThenSumSet(LAMBDA s : f[s], S)

Status(from) ==
    LET of == [s \in DOMAIN transactions |-> StatusOf(transactions[s], from)]
    IN  [stalled |-> SumOf([s \in DOMAIN of |-> of[s].stalled], DOMAIN of),
         pending |-> SumOf([s \in DOMAIN of |-> of[s].pending], DOMAIN of),
         future  |-> SumOf([s \in DOMAIN of |-> of[s].future], DOMAIN of)]

LightStatus ==
    [mem_usage |-> mem_usage,
     transaction_count |-> Cardinality(DOMAIN by_hash),
     senders |-> Cardinality(DOMAIN transactions)]
------------------------------------------------------------------------------
(* The pooled transactions whose nonces follow on from a sender's next nonce without a gap. *)
Executable(from, senders) ==
    {t \in DOMAIN by_hash :
        /\ Sender[t] \in senders
        /\ from[Sender[t]] <= Nonce[t]
        /\ \A n \in from[Sender[t]]..Nonce[t] :
              \E u \in DOMAIN by_hash : Sender[u] = Sender[t] /\ Nonce[u] = n}

StaleTxs(from) == {t \in DOMAIN by_hash : Nonce[t] < from[Sender[t]]}

(***************************************************************************)
(* At every moment the transactions returned so far can be executed in the *)
(* order they were returned in, although the queues are interleaved by     *)
(* score: no sender's nonce is ahead of its predecessor.  In the end they  *)
(* are every transaction executable given the ones before it, once, and    *)
(* nothing else: stale transactions do not hide the ready ones behind      *)
(* them, and a gap ends its sender's turn.                                 *)
(***************************************************************************)
PendingExact ==
    /\ \A i \in DOMAIN yielded :
          /\ start[Sender[yielded[i]]] <= Nonce[yielded[i]]
          /\ \A n \in start[Sender[yielded[i]]]..(Nonce[yielded[i]] - 1) :
                \E j \in 1..(i - 1) : Sender[yielded[j]] = Sender[yielded[i]] /\ Nonce[yielded[j]] = n
    /\ reader = "exhausted" =>
          /\ {yielded[i] : i \in DOMAIN yielded} = Executable(start, asked)
          /\ Len(yielded) = Cardinality(Executable(start, asked))

(***************************************************************************)
(* The reads that drain a queue in one go agree with the pending iterator. *)
(* The unordered iterator returns the same transactions unless a sender    *)
(* has stale ones, and never any other; status counts every transaction    *)
(* once, in the class that asking for each in turn would put it in,        *)
(* although it stops at the first future one; light_status has its total.  *)
(***************************************************************************)
ReadsAgree ==
    pc = "idle" => \A from \in Starts :
        LET st == Status(from)
        IN  /\ UnorderedPending(from) \subseteq Executable(from, Senders)
            /\ StaleTxs(from) = {} => UnorderedPending(from) = Executable(from, Senders)
            /\ st.stalled = Cardinality(StaleTxs(from))
            /\ st.pending = Cardinality(Executable(from, Senders))
            /\ st.stalled + st.pending + st.future = LightStatus.transaction_count
            /\ (LightStatus.senders = 0) = (LightStatus.transaction_count = 0)

(* A caller that keeps calling next() gets to None. *)
PendingEnds == (reader = "running") ~> (reader = "exhausted")
==============================================================================
