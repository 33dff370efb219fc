------------------------------ MODULE PoolProofs ------------------------------
(***************************************************************************)
(* The proof that Pool keeps its structures in agreement.  Two layers:     *)
(* what each queue operation does to one sorted queue, then what each pool *)
(* operation does to the queues, by_hash, the ordered sets and the         *)
(* listener together.  The scores are never inspected, so the result holds *)
(* for every Scoring.                                                      *)
(***************************************************************************)
EXTENDS PoolReads, SequenceTheorems, FiniteSetTheorems, WellFoundedInduction, TLAPS

(* The transactions of a queue's vector. *)
Elems(txs) == {txs[i] : i \in 1..Len(txs)}

(* A sender's transactions in strictly increasing nonce order. *)
GoodSeq(txs, s) ==
    /\ txs \in Seq(Transaction)
    /\ \A i \in 1..Len(txs) : Sender[txs[i].tx] = s
    /\ \A i, j \in 1..Len(txs) : i < j => Nonce[txs[i].tx] < Nonce[txs[j].tx]

(* A well-formed, sorted queue of one sender. *)
GoodQueue(q, s) == IsQueue(q) /\ GoodSeq(q.transactions, s)

(* SmallVec::insert, as the queue uses it: the elements from i on move up by one. *)
LEMMA InsertAtFacts ==
    ASSUME NEW T, NEW s \in Seq(T), NEW i \in 1..(Len(s) + 1), NEW e \in T
    PROVE  /\ InsertAt(s, i, e) \in Seq(T)
           /\ Len(InsertAt(s, i, e)) = Len(s) + 1
           /\ \A j \in 1..(Len(s) + 1) :
                 InsertAt(s, i, e)[j] = IF j < i THEN s[j] ELSE IF j = i THEN e ELSE s[j - 1]
  <1> DEFINE l == SubSeq(s, 1, i - 1)
             r == SubSeq(s, i, Len(s))
  <1>1. /\ l \in Seq(T) /\ Len(l) = i - 1
        /\ \A j \in 1..(i - 1) : l[j] = s[j]
    BY SubSeqProperties, ElementOfSeq
  <1>2. /\ r \in Seq(T) /\ Len(r) = Len(s) - i + 1
        /\ \A j \in 1..(Len(s) - i + 1) : r[j] = s[i + j - 1]
    BY SubSeqProperties, ElementOfSeq
  <1>3. <<e>> \in Seq(T) /\ Len(<<e>>) = 1 /\ <<e>>[1] = e
    OBVIOUS
  <1> HIDE DEF l, r
  <1>4. /\ l \o <<e>> \in Seq(T) /\ Len(l \o <<e>>) = i
        /\ \A j \in 1..i : (l \o <<e>>)[j] = IF j < i THEN s[j] ELSE e
    BY <1>1, <1>3, ConcatProperties
  <1> DEFINE le == l \o <<e>>
  <1>5. le \in Seq(T) /\ Len(le) = i /\ \A j \in 1..i : le[j] = IF j < i THEN s[j] ELSE e
    BY <1>4
  <1> HIDE DEF le
  <1>6. /\ le \o r \in Seq(T) /\ Len(le \o r) = Len(s) + 1
        /\ \A j \in 1..(Len(s) + 1) : (le \o r)[j] = IF j <= i THEN le[j] ELSE r[j - i]
    BY <1>2, <1>5, ConcatProperties
  <1>7. InsertAt(s, i, e) = le \o r
    BY DEF InsertAt, le, l, r
  <1> QED
    BY <1>2, <1>5, <1>6, <1>7

(* SmallVec::remove: the elements behind i move down by one. *)
LEMMA RemoveAtFacts ==
    ASSUME NEW T, NEW s \in Seq(T), NEW i \in 1..Len(s)
    PROVE  /\ RemoveAt(s, i) \in Seq(T)
           /\ Len(RemoveAt(s, i)) = Len(s) - 1
           /\ \A j \in 1..(Len(s) - 1) :
                 RemoveAt(s, i)[j] = IF j < i THEN s[j] ELSE s[j + 1]
  <1> DEFINE l == SubSeq(s, 1, i - 1)
             r == SubSeq(s, i + 1, Len(s))
  <1>1. /\ l \in Seq(T) /\ Len(l) = i - 1
        /\ \A j \in 1..(i - 1) : l[j] = s[j]
    BY SubSeqProperties, ElementOfSeq
  <1>2. /\ r \in Seq(T) /\ Len(r) = Len(s) - i
        /\ \A j \in 1..(Len(s) - i) : r[j] = s[i + j]
    BY SubSeqProperties, ElementOfSeq
  <1> HIDE DEF l, r
  <1>3. /\ l \o r \in Seq(T) /\ Len(l \o r) = Len(s) - 1
        /\ \A j \in 1..(Len(s) - 1) : (l \o r)[j] = IF j < i THEN l[j] ELSE r[j - (i - 1)]
    BY <1>1, <1>2, ConcatProperties
  <1>4. RemoveAt(s, i) = l \o r
    BY DEF RemoveAt, l, r
  <1> QED
    BY <1>1, <1>2, <1>3, <1>4

(* SmallVec::pop drops the last element and no other. *)
LEMMA FrontFacts ==
    ASSUME NEW T, NEW s \in Seq(T), s # <<>>
    PROVE  /\ Front(s) \in Seq(T)
           /\ Len(Front(s)) = Len(s) - 1
           /\ \A j \in 1..(Len(s) - 1) : Front(s)[j] = s[j]
  <1>1. Len(s) \in Nat \ {0}
    BY EmptySeq
  <1>2. Front(s) = SubSeq(s, 1, Len(s) - 1)
    BY DEF Front
  <1>3. \A i \in 1..(Len(s) - 1) : s[i] \in T
    BY <1>1, ElementOfSeq
  <1>4. Len(s) - 1 \in Nat /\ 1..(Len(s) - 1) \subseteq 1..Len(s)
    BY <1>1
  <1> DEFINE n == Len(s) - 1
  <1>5. n \in Int /\ 1 \in Int /\ \A i \in 1..n : s[i] \in T
    BY <1>3, <1>4
  <1> HIDE DEF n
  <1>6. /\ SubSeq(s, 1, n) \in Seq(T)
        /\ Len(SubSeq(s, 1, n)) = IF 1 <= n THEN n - 1 + 1 ELSE 0
        /\ \A i \in 1..(n - 1 + 1) : SubSeq(s, 1, n)[i] = s[1 + i - 1]
    BY <1>5, SubSeqProperties
  <1>7. n \in Nat
    BY <1>4 DEF n
  <1>8. /\ Len(SubSeq(s, 1, n)) = n
        /\ \A i \in 1..n : SubSeq(s, 1, n)[i] = s[i]
    BY <1>6, <1>7
  <1> QED
    BY <1>2, <1>6, <1>8 DEF n

(* What cull's reverse, pop, reverse leaves: the elements behind the first n. *)
LEMMA SuffixFacts ==
    ASSUME NEW T, NEW s \in Seq(T), NEW n \in 0..Len(s)
    PROVE  /\ SubSeq(s, n + 1, Len(s)) \in Seq(T)
           /\ Len(SubSeq(s, n + 1, Len(s))) = Len(s) - n
           /\ \A j \in 1..(Len(s) - n) : SubSeq(s, n + 1, Len(s))[j] = s[n + j]
  OBVIOUS

(* Whatever update_scores writes, the two vectors keep the same length. *)
LEMMA RescoredFacts ==
    ASSUME NEW txs \in Seq(Transaction), NEW scores, NEW kind, NEW index
    PROVE  /\ IsQueue(Rescored(txs, scores, kind, index))
           /\ Rescored(txs, scores, kind, index).transactions = txs
  BY DEF Rescored, IsQueue

(* worst_and_best is None for an empty queue, else the last and the first entry. *)
LEMMA EntriesOf ==
    ASSUME NEW q, IsQueue(q)
    PROVE  /\ Len(q.transactions) = 0 => BestOf(q) = {} /\ WorstOf(q) = {}
           /\ Len(q.transactions) > 0 =>
                 /\ BestOf(q) = {EntryAt(q, 1)}
                 /\ WorstOf(q) = {EntryAt(q, Len(q.transactions))}
  BY DEF BestOf, WorstOf, IsQueue

(* Strictly increasing nonces: no transaction is in a queue twice. *)
LEMMA GoodSeqDistinct ==
    ASSUME NEW s, NEW txs, GoodSeq(txs, s)
    PROVE  \A i, j \in 1..Len(txs) : txs[i] = txs[j] => i = j
  <1> SUFFICES ASSUME NEW i \in 1..Len(txs), NEW j \in 1..Len(txs), txs[i] = txs[j], i # j
               PROVE  FALSE
    OBVIOUS
  <1>0. txs[i] \in Transaction
    BY ElementOfSeq DEF GoodSeq
  <1>1. Nonce[txs[i].tx] \in Int
    BY <1>0, NonceAssumption DEF Transaction
  <1> QED
    BY <1>1 DEF GoodSeq

(* Inserting at the index the search returned keeps a queue sorted (add, InsertNew). *)
LEMMA GoodSeqInsert ==
    ASSUME NEW s, NEW txs, GoodSeq(txs, s),
           NEW t \in Transaction, Sender[t.tx] = s,
           NEW i \in 1..(Len(txs) + 1),
           \A j \in 1..(i - 1) : Nonce[txs[j].tx] < Nonce[t.tx],
           \A j \in i..Len(txs) : Nonce[txs[j].tx] > Nonce[t.tx]
    PROVE  /\ GoodSeq(InsertAt(txs, i, t), s)
           /\ Elems(InsertAt(txs, i, t)) = Elems(txs) \cup {t}
           /\ Len(InsertAt(txs, i, t)) = Len(txs) + 1
           /\ i <= Len(txs) => InsertAt(txs, i, t)[Len(txs) + 1] = txs[Len(txs)]
  <1> DEFINE u == InsertAt(txs, i, t)
  <1>0. txs \in Seq(Transaction)
    BY DEF GoodSeq
  <1>1. /\ u \in Seq(Transaction)
        /\ Len(u) = Len(txs) + 1
        /\ \A j \in 1..(Len(txs) + 1) :
              u[j] = IF j < i THEN txs[j] ELSE IF j = i THEN t ELSE txs[j - 1]
    <2>1. i \in 1..(Len(txs) + 1) /\ t \in Transaction
      OBVIOUS
    <2>2. u \in Seq(Transaction) /\ Len(u) = Len(txs) + 1
      BY ONLY <1>0, <2>1, InsertAtFacts
    <2>3. \A j \in 1..(Len(txs) + 1) :
              u[j] = IF j < i THEN txs[j] ELSE IF j = i THEN t ELSE txs[j - 1]
      BY ONLY <1>0, <2>1, InsertAtFacts
    <2> QED  BY ONLY <2>2, <2>3
  <1> HIDE DEF u
  <1> USE <1>0, <1>1 DEF GoodSeq
  <1>2. ASSUME NEW j \in 1..Len(u) PROVE Sender[u[j].tx] = s
    <2>1. CASE j < i
      BY <2>1, SMTT(40)
    <2>2. CASE j = i
      BY <2>2
    <2>3. CASE j > i
      <3>1. j - 1 \in 1..Len(txs) /\ u[j] = txs[j - 1]
        BY <2>3
      <3> QED
        BY <3>1
    <2> QED
      BY <2>1, <2>2, <2>3
  <1>3. ASSUME NEW j \in 1..Len(u), NEW k \in 1..Len(u), j < k
        PROVE  Nonce[u[j].tx] < Nonce[u[k].tx]
    <2>1. CASE k < i
      BY <1>3, <2>1
    <2>2. CASE k = i
      BY <1>3, <2>2
    <2>3. CASE k > i /\ j < i
      <3>1. k - 1 \in 1..Len(txs) /\ u[k] = txs[k - 1] /\ u[j] = txs[j] /\ j < k - 1
        BY <1>3, <2>3
      <3> QED
        BY <3>1
    <2>4. CASE j = i
      <3>1. k - 1 \in i..Len(txs) /\ u[k] = txs[k - 1] /\ u[j] = t
        BY <1>3, <2>4
      <3> QED
        BY <3>1
    <2>5. CASE j > i
      <3>1. /\ k - 1 \in 1..Len(txs) /\ u[k] = txs[k - 1]
            /\ j - 1 \in 1..Len(txs) /\ u[j] = txs[j - 1] /\ j - 1 < k - 1
        BY <1>3, <2>5
      <3> QED
        BY <3>1
    <2> QED
      BY <1>3, <2>1, <2>2, <2>3, <2>4, <2>5
  <1>4. Elems(u) = Elems(txs) \cup {t}
    <2>1. ASSUME NEW j \in 1..Len(u) PROVE u[j] \in Elems(txs) \cup {t}
      <3>1. CASE j < i
        BY <3>1 DEF Elems
      <3>2. CASE j > i
        <4>1. j - 1 \in 1..Len(txs) /\ u[j] = txs[j - 1]
          BY <3>2
        <4> QED
          BY <4>1 DEF Elems
      <3>3. CASE j = i
        BY <3>3
      <3> QED
        BY <3>1, <3>2, <3>3
    <2>2. ASSUME NEW j \in 1..Len(txs) PROVE txs[j] \in Elems(u)
      <3>1. CASE j < i
        BY <1>0, <1>1, <3>1 DEF Elems
      <3>2. CASE j >= i
        <4>1. j + 1 \in 1..Len(u) /\ u[j + 1] = txs[j]
          BY <1>0, <1>1, <3>2
        <4> QED
          BY <4>1 DEF Elems
      <3> QED
        BY <1>0, <3>1, <3>2
    <2>3. t \in Elems(u)
      BY <1>0, <1>1 DEF Elems
    <2> QED
      BY <2>1, <2>2, <2>3, SMTT(40) DEF Elems
  <1> QED
    BY <1>0, <1>1, <1>2, <1>3, <1>4 DEF u, GoodSeq

(* Removing an entry keeps a queue sorted and takes that transaction only. *)
LEMMA GoodSeqRemove ==
    ASSUME NEW s, NEW txs, GoodSeq(txs, s), NEW i \in 1..Len(txs)
    PROVE  /\ GoodSeq(RemoveAt(txs, i), s)
           /\ Elems(RemoveAt(txs, i)) = Elems(txs) \ {txs[i]}
  <1> DEFINE u == RemoveAt(txs, i)
  <1>0. txs \in Seq(Transaction)
    BY DEF GoodSeq
  <1>1. /\ u \in Seq(Transaction)
        /\ Len(u) = Len(txs) - 1
        /\ \A j \in 1..(Len(txs) - 1) : u[j] = IF j < i THEN txs[j] ELSE txs[j + 1]
    BY <1>0, RemoveAtFacts
  <1> HIDE DEF u
  <1>2. \A j \in 1..Len(u) : Sender[u[j].tx] = s
    BY <1>0, <1>1, SMTT(40) DEF GoodSeq
  <1>3. ASSUME NEW j \in 1..Len(u), NEW k \in 1..Len(u), j < k
        PROVE  Nonce[u[j].tx] < Nonce[u[k].tx]
    <2> DEFINE src(m) == IF m < i THEN m ELSE m + 1
    <2>1. /\ src(j) \in 1..Len(txs) /\ u[j] = txs[src(j)]
          /\ src(k) \in 1..Len(txs) /\ u[k] = txs[src(k)]
          /\ src(j) < src(k)
      BY <1>0, <1>1, <1>3
    <2> QED
      BY <2>1 DEF GoodSeq
  <1>4. Elems(u) = Elems(txs) \ {txs[i]}
    <2>1. ASSUME NEW j \in 1..Len(u) PROVE u[j] \in Elems(txs) /\ u[j] # txs[i]
      <3>1. CASE j < i
        BY <1>0, <1>1, <3>1, GoodSeqDistinct DEF Elems
      <3>2. CASE j >= i
        <4>1. j + 1 \in 1..Len(txs) /\ u[j] = txs[j + 1] /\ j + 1 # i
          BY <1>0, <1>1, <3>2
        <4> QED
          BY <4>1, GoodSeqDistinct DEF Elems
      <3> QED
        BY <1>0, <1>1, <3>1, <3>2
    <2>2. ASSUME NEW j \in 1..Len(txs), txs[j] # txs[i] PROVE txs[j] \in Elems(u)
      <3>1. CASE j < i
        BY <1>0, <1>1, <3>1 DEF Elems
      <3>2. CASE j > i
        <4>1. j - 1 \in 1..Len(u) /\ u[j - 1] = txs[j]
          BY <1>0, <1>1, <3>2
        <4> QED
          BY <4>1 DEF Elems
      <3> QED
        BY <1>0, <2>2, <3>1, <3>2
    <2> QED
      BY <2>1, <2>2 DEF Elems
  <1> QED
    BY <1>1, <1>2, <1>3, <1>4 DEF u, GoodSeq

(* Culling a prefix keeps a queue sorted and takes the prefix only. *)
LEMMA GoodSeqSuffix ==
    ASSUME NEW s, NEW txs, GoodSeq(txs, s), NEW n \in 0..Len(txs)
    PROVE  /\ GoodSeq(SubSeq(txs, n + 1, Len(txs)), s)
           /\ Elems(SubSeq(txs, n + 1, Len(txs))) = Elems(txs) \ {txs[i] : i \in 1..n}
  <1> DEFINE u == SubSeq(txs, n + 1, Len(txs))
  <1>0. txs \in Seq(Transaction)
    BY DEF GoodSeq
  <1>1. /\ u \in Seq(Transaction)
        /\ Len(u) = Len(txs) - n
        /\ \A j \in 1..(Len(txs) - n) : u[j] = txs[n + j]
    BY <1>0, SuffixFacts
  <1> HIDE DEF u
  <1>2. ASSUME NEW j \in 1..Len(u) PROVE n + j \in 1..Len(txs) /\ u[j] = txs[n + j]
    BY <1>0, <1>1
  <1>3. \A j \in 1..Len(u) : Sender[u[j].tx] = s
    BY <1>2 DEF GoodSeq
  <1>4. ASSUME NEW j \in 1..Len(u), NEW k \in 1..Len(u), j < k
        PROVE  Nonce[u[j].tx] < Nonce[u[k].tx]
    <2>1. n + j < n + k
      BY <1>0, <1>4
    <2> QED
      BY <1>2, <2>1 DEF GoodSeq
  <1>5. Elems(u) = Elems(txs) \ {txs[i] : i \in 1..n}
    <2>1. ASSUME NEW j \in 1..Len(u)
          PROVE  u[j] \in Elems(txs) /\ \A i \in 1..n : u[j] # txs[i]
      <3>1. \A i \in 1..n : i \in 1..Len(txs) /\ i # n + j
        BY <1>0, <1>1
      <3> QED
        BY <1>2, <3>1, GoodSeqDistinct DEF Elems
    <2>2. ASSUME NEW j \in 1..Len(txs), \A i \in 1..n : txs[j] # txs[i]
          PROVE  txs[j] \in Elems(u)
      <3>1. j - n \in 1..Len(u) /\ u[j - n] = txs[j]
        BY <1>0, <1>1, <2>2
      <3> QED
        BY <3>1 DEF Elems
    <2> QED
      BY <2>1, <2>2 DEF Elems
  <1> QED
    BY <1>1, <1>3, <1>4, <1>5 DEF u, GoodSeq

(* Pushing out the last entry keeps a queue sorted (add, PushedOut). *)
LEMMA GoodSeqFront ==
    ASSUME NEW s, NEW txs, GoodSeq(txs, s), Len(txs) > 0
    PROVE  /\ GoodSeq(Front(txs), s)
           /\ Elems(Front(txs)) = Elems(txs) \ {txs[Len(txs)]}
           /\ Len(Front(txs)) = Len(txs) - 1
  <1>0. txs \in Seq(Transaction) /\ txs # <<>> /\ Len(txs) \in Nat
    BY DEF GoodSeq
  <1>1. /\ Front(txs) \in Seq(Transaction)
        /\ Len(Front(txs)) = Len(txs) - 1
        /\ \A j \in 1..(Len(txs) - 1) : Front(txs)[j] = txs[j]
    BY <1>0, FrontFacts
  <1>2. GoodSeq(Front(txs), s)
    BY <1>0, <1>1 DEF GoodSeq
  <1>3. Elems(Front(txs)) = Elems(txs) \ {txs[Len(txs)]}
    <2>1. ASSUME NEW j \in 1..(Len(txs) - 1) PROVE txs[j] # txs[Len(txs)]
      BY <1>0, GoodSeqDistinct
    <2> QED
      BY <1>0, <1>1, <2>1 DEF Elems
  <1> QED
    BY <1>1, <1>2, <1>3

(* Replacing in place keeps a queue sorted (add, ReplaceOld), whatever the old nonce. *)
LEMMA GoodSeqReplace ==
    ASSUME NEW s, NEW txs, GoodSeq(txs, s),
           NEW t \in Transaction, Sender[t.tx] = s, NEW i \in 1..Len(txs),
           \A j \in 1..(i - 1) : Nonce[txs[j].tx] < Nonce[t.tx],
           \A j \in (i + 1)..Len(txs) : Nonce[txs[j].tx] > Nonce[t.tx]
    PROVE  /\ GoodSeq(ReplaceAt(txs, i, t), s)
           /\ Elems(ReplaceAt(txs, i, t)) = (Elems(txs) \ {txs[i]}) \cup {t}
           /\ Len(ReplaceAt(txs, i, t)) = Len(txs)
  <1> DEFINE u == ReplaceAt(txs, i, t)
  <1>0. txs \in Seq(Transaction) /\ Len(txs) \in Nat
    BY DEF GoodSeq
  <1>1. /\ u \in Seq(Transaction)
        /\ Len(u) = Len(txs)
        /\ \A j \in 1..Len(txs) : u[j] = IF j = i THEN t ELSE txs[j]
    BY <1>0 DEF ReplaceAt
  <1> HIDE DEF u
  <1>2. \A j \in 1..Len(u) : Sender[u[j].tx] = s
    BY <1>1 DEF GoodSeq
  <1>3. ASSUME NEW j \in 1..Len(u), NEW k \in 1..Len(u), j < k
        PROVE  Nonce[u[j].tx] < Nonce[u[k].tx]
    <2>1. CASE j = i
      <3>1. k \in (i + 1)..Len(txs) /\ u[k] = txs[k] /\ u[j] = t
        BY <1>0, <1>1, <1>3, <2>1
      <3> QED
        BY <3>1
    <2>2. CASE k = i
      <3>1. j \in 1..(i - 1) /\ u[j] = txs[j] /\ u[k] = t
        BY <1>0, <1>1, <1>3, <2>2
      <3> QED
        BY <3>1
    <2>3. CASE j # i /\ k # i
      BY <1>1, <1>3, <2>3 DEF GoodSeq
    <2> QED
      BY <2>1, <2>2, <2>3
  <1>4. Elems(u) = (Elems(txs) \ {txs[i]}) \cup {t}
    <2>1. ASSUME NEW j \in 1..Len(txs), j # i PROVE txs[j] # txs[i]
      BY <2>1, GoodSeqDistinct
    <2> QED
      BY <1>0, <1>1, <2>1 DEF Elems
  <1> QED
    BY <1>1, <1>2, <1>3, <1>4 DEF u, GoodSeq

(* Pushing behind smaller nonces keeps a queue sorted (push_cheapest_transaction). *)
LEMMA GoodSeqAppend ==
    ASSUME NEW s, NEW txs, GoodSeq(txs, s),
           NEW t \in Transaction, Sender[t.tx] = s,
           \A j \in 1..Len(txs) : Nonce[txs[j].tx] < Nonce[t.tx]
    PROVE  /\ GoodSeq(Append(txs, t), s)
           /\ Elems(Append(txs, t)) = Elems(txs) \cup {t}
           /\ Len(Append(txs, t)) = Len(txs) + 1
  <1> DEFINE u == Append(txs, t)
  <1>0. txs \in Seq(Transaction) /\ Len(txs) \in Nat
    BY DEF GoodSeq
  <1>1. /\ u \in Seq(Transaction)
        /\ Len(u) = Len(txs) + 1
        /\ \A j \in 1..(Len(txs) + 1) : u[j] = IF j = Len(txs) + 1 THEN t ELSE txs[j]
    BY <1>0
  <1> HIDE DEF u
  <1>2. \A j \in 1..Len(u) : Sender[u[j].tx] = s
    BY <1>0, <1>1 DEF GoodSeq
  <1>3. ASSUME NEW j \in 1..Len(u), NEW k \in 1..Len(u), j < k
        PROVE  Nonce[u[j].tx] < Nonce[u[k].tx]
    <2>1. j \in 1..Len(txs) /\ u[j] = txs[j]
      BY <1>0, <1>1, <1>3
    <2>2. CASE k = Len(txs) + 1
      BY <1>0, <1>1, <2>1, <2>2
    <2>3. CASE k # Len(txs) + 1
      <3>1. k \in 1..Len(txs) /\ u[k] = txs[k]
        BY <1>0, <1>1, <2>3
      <3> QED
        BY <1>3, <2>1, <3>1 DEF GoodSeq
    <2> QED
      BY <2>2, <2>3
  <1>4. Elems(u) = Elems(txs) \cup {t}
    BY <1>0, <1>1 DEF Elems
  <1> QED
    BY <1>1, <1>2, <1>3, <1>4 DEF u, GoodSeq

(* Transactions::add leaves a sorted, non-empty queue: the old one with the new
   transaction in and the reported old one out, or, on rejection, the old one itself. *)
LEMMA AddFacts ==
    ASSUME NEW s, NEW q, GoodQueue(q, s),
           NEW t \in Transaction, Sender[t.tx] = s, NEW m \in Nat \ {0},
           NEW r \in Add(q, t, m)
    PROVE  /\ GoodQueue(r.queue, s)
           /\ Len(r.queue.transactions) > 0
           /\ \/ /\ r.result \in {"Ok", "PushedOut", "Replaced"}
                 /\ r.old \subseteq Elems(q.transactions)
                 /\ t \notin Elems(q.transactions) =>
                       Elems(r.queue.transactions) = (Elems(q.transactions) \ r.old) \cup {t}
              \/ /\ r.result \in {"TooCheap", "TooCheapToEnter"}
                 /\ r.queue = q
  <1> DEFINE txs == q.transactions
  <1>0. /\ GoodSeq(txs, s)
        /\ txs \in Seq(Transaction)
        /\ Len(txs) \in Nat
        /\ DOMAIN txs = 1..Len(txs)
        /\ \A j \in 1..Len(txs) : txs[j] \in Transaction
    BY ElementOfSeq DEF GoodQueue, GoodSeq
  <1>1. PICK i \in SearchOk(q, t.tx) \cup SearchErr(q, t.tx) : r = AddAt(q, t, i, m)
    BY DEF Add
  <1>2. CASE i = Len(txs) + 1
    <2>1. \A j \in 1..Len(txs) : Nonce[txs[j].tx] < Nonce[t.tx]
      BY <1>0, <1>2 DEF SearchOk, SearchErr, NonceAt
    <2>2. CASE Len(txs) = m /\ t.tx \notin IgnoresSenderLimit
      BY <1>0, <1>1, <1>2, <2>2 DEF AddAt, PushCheapestTransaction, AddResult
    <2>3. CASE ~(Len(txs) = m /\ t.tx \notin IgnoresSenderLimit)
      <3> DEFINE u == Append(txs, t)
                 out == Rescored(u, Append(q.scores, DefaultScore), "InsertedAt", Len(txs))
      <3>1. r.result = "Ok" /\ r.old = {} /\ r.queue = out
        <4>1. r = AddResult("Ok", out, {})
          BY <1>1, <1>2, <2>3 DEF AddAt, PushCheapestTransaction
        <4> QED
          BY <4>1 DEF AddResult
      <3>2. /\ GoodSeq(u, s)
            /\ Elems(u) = Elems(txs) \cup {t}
            /\ Len(u) = Len(txs) + 1
        BY <1>0, <2>1, GoodSeqAppend
      <3> HIDE DEF u
      <3>3. IsQueue(out) /\ out.transactions = u
        BY <3>2, RescoredFacts DEF GoodSeq
      <3> HIDE DEF out
      <3> QED
        BY <1>0, <3>1, <3>2, <3>3 DEF GoodQueue
    <2> QED
      BY <2>2, <2>3
  <1>3. CASE i # Len(txs) + 1
    <2>1. i \in 1..Len(txs)
      BY <1>0, <1>3 DEF SearchOk, SearchErr
    <2>2. t.tx \in Txs /\ txs[i].tx \in Txs
      BY <1>0, <2>1 DEF Transaction
    <2>3. Choose(txs[i].tx, t.tx) \in Choice
      BY <2>2, ChooseAssumption
    <2>4. CASE Choose(txs[i].tx, t.tx) = "RejectNew"
      BY <1>0, <1>1, <1>3, <2>1, <2>4 DEF AddAt, AddResult
    <2>5. CASE Choose(txs[i].tx, t.tx) = "InsertNew"
      <3>1. i \in SearchErr(q, t.tx)
        BY <1>0, <2>1, <2>2, <2>5, ChooseAssumption DEF SearchOk, NonceAt
      <3>2. /\ \A j \in 1..(i - 1) : Nonce[txs[j].tx] < Nonce[t.tx]
            /\ \A j \in i..Len(txs) : Nonce[txs[j].tx] > Nonce[t.tx]
        BY <3>1 DEF SearchErr, NonceAt
      <3> DEFINE u == InsertAt(txs, i, t)
                 grown == Rescored(u, InsertAt(q.scores, i, DefaultScore), "InsertedAt", i - 1)
      <3>3. /\ GoodSeq(u, s)
            /\ Elems(u) = Elems(txs) \cup {t}
            /\ Len(u) = Len(txs) + 1
            /\ u[Len(txs) + 1] = txs[Len(txs)]
        <4>1. i \in 1..(Len(txs) + 1) /\ i <= Len(txs)
          BY <1>0, <2>1
        <4>2. t \in Transaction /\ Sender[t.tx] = s
          OBVIOUS
        <4> HIDE DEF txs
        <4> QED
          BY ONLY <1>0, <4>1, <4>2, <3>2, GoodSeqInsert
      <3>4. IsQueue(grown) /\ grown.transactions = u
        BY <3>3, RescoredFacts DEF GoodSeq
      <3>5. r = InsertNew(q, t, i, m)
        BY <1>1, <1>3, <2>5 DEF AddAt
      <3>6. CASE Len(u) > m
        <4> DEFINE out == Rescored(Front(u), Front(grown.scores), "RemovedAt", Len(u) - 1)
        <4>1. r.result = "PushedOut" /\ r.old = {Last(u)} /\ r.queue = out
          <5>1. r = AddResult("PushedOut", out, {Last(u)})
            BY <3>4, <3>5, <3>6 DEF InsertNew
          <5> QED
            BY <5>1 DEF AddResult
        <4>2. Last(u) = txs[Len(txs)]
          BY <3>3 DEF Last
        <4>3. /\ GoodSeq(Front(u), s)
              /\ Elems(Front(u)) = Elems(u) \ {u[Len(u)]}
              /\ Len(Front(u)) = Len(u) - 1
          <5>1. GoodSeq(u, s) /\ Len(u) > 0
            BY <1>0, <3>3
          <5> HIDE DEF u
          <5> QED
            BY <5>1, GoodSeqFront
        <4>4. IsQueue(out) /\ out.transactions = Front(u)
          BY <4>3, RescoredFacts DEF GoodSeq
        <4>5. txs[Len(txs)] \in Elems(txs)
          BY <1>0, <2>1 DEF Elems
        <4> HIDE DEF out, u
        <4>6. t \notin Elems(txs) =>
                 (Elems(txs) \cup {t}) \ {txs[Len(txs)]} = (Elems(txs) \ {txs[Len(txs)]}) \cup {t}
          BY <4>5
        <4>7. Len(Front(u)) > 0
          BY <1>0, <2>1, <3>3, <4>3
        <4> QED
          BY <3>3, <4>1, <4>2, <4>3, <4>4, <4>5, <4>6, <4>7 DEF GoodQueue
      <3>7. CASE ~(Len(u) > m)
        <4>1. r = AddResult("Ok", grown, {})
          BY <3>4, <3>5, <3>7 DEF InsertNew
        <4>2. r.result = "Ok" /\ r.old = {} /\ r.queue = grown
          BY <4>1 DEF AddResult
        <4> HIDE DEF grown, u
        <4> QED
          BY <1>0, <3>3, <3>4, <4>2 DEF GoodQueue
      <3> QED
        BY <3>6, <3>7
    <2>6. CASE Choose(txs[i].tx, t.tx) = "ReplaceOld"
      <3>1. /\ \A j \in 1..(i - 1) : Nonce[txs[j].tx] < Nonce[t.tx]
            /\ \A j \in (i + 1)..Len(txs) : Nonce[txs[j].tx] > Nonce[t.tx]
        <4>1. CASE i \in SearchOk(q, t.tx)
          <5>1. Nonce[txs[i].tx] = Nonce[t.tx]
            BY <4>1 DEF SearchOk, NonceAt
          <5>2. ASSUME NEW j \in 1..(i - 1) PROVE Nonce[txs[j].tx] < Nonce[t.tx]
            BY <1>0, <2>1, <5>1 DEF GoodSeq
          <5>3. ASSUME NEW j \in (i + 1)..Len(txs) PROVE Nonce[txs[j].tx] > Nonce[t.tx]
            BY <1>0, <2>1, <5>1 DEF GoodSeq
          <5> QED
            BY <5>2, <5>3
        <4>2. CASE i \in SearchErr(q, t.tx)
          BY <1>0, <2>1, <4>2 DEF SearchErr, NonceAt
        <4> QED
          BY <4>1, <4>2
      <3> DEFINE u == ReplaceAt(txs, i, t)
                 out == Rescored(u, q.scores, "ReplacedAt", i - 1)
      <3>2. /\ GoodSeq(u, s)
            /\ Elems(u) = (Elems(txs) \ {txs[i]}) \cup {t}
            /\ Len(u) = Len(txs)
        BY <1>0, <2>1, <3>1, GoodSeqReplace
      <3>3. IsQueue(out) /\ out.transactions = u
        BY <3>2, RescoredFacts DEF GoodSeq
      <3>4. r.result = "Replaced" /\ r.queue = out /\ r.old = {txs[i]}
        <4>1. r = AddResult("Replaced", out, {txs[i]})
          BY <1>1, <1>3, <2>6 DEF AddAt, ReplaceOld
        <4> QED
          BY <4>1 DEF AddResult
      <3>5. txs[i] \in Elems(txs)
        BY <2>1 DEF Elems
      <3> HIDE DEF out, u
      <3> QED
        BY <1>0, <2>1, <3>2, <3>3, <3>4, <3>5 DEF GoodQueue
    <2> QED
      BY <2>3, <2>4, <2>5, <2>6 DEF Choice
  <1> QED
    BY <1>2, <1>3

(* Transactions::remove of a queued transaction takes that one: the search by nonce
   cannot find another. *)
LEMMA RemoveFacts ==
    ASSUME NEW s, NEW q, GoodQueue(q, s), NEW t \in Elems(q.transactions),
           NEW p \in RemoveTransaction(q, t.tx)
    PROVE  GoodQueue(p, s) /\ Elems(p.transactions) = Elems(q.transactions) \ {t}
  <1> DEFINE txs == q.transactions
  <1>0. GoodSeq(txs, s) /\ txs \in Seq(Transaction) /\ DOMAIN txs = 1..Len(txs)
    BY DEF GoodQueue, GoodSeq
  <1>1. PICK k \in 1..Len(txs) : txs[k] = t
    BY DEF Elems
  <1>2. k \in SearchOk(q, t.tx)
    BY <1>0, <1>1 DEF SearchOk, NonceAt
  <1>3. ASSUME NEW i \in SearchOk(q, t.tx) PROVE i = k
    <2>1. i \in 1..Len(txs) /\ Nonce[txs[i].tx] = Nonce[txs[k].tx]
      BY <1>0, <1>1 DEF SearchOk, NonceAt
    <2>2. Nonce[txs[i].tx] \in Int
      <3>1. txs[i] \in Transaction
        BY <1>0, <2>1, ElementOfSeq
      <3> QED
        BY <3>1, NonceAssumption DEF Transaction
    <2> QED
      BY <1>0, <2>1, <2>2 DEF GoodSeq
  <1> DEFINE out == Rescored(RemoveAt(txs, k), RemoveAt(q.scores, k), "RemovedAt", k - 1)
  <1>4. p = out
    BY <1>2, <1>3 DEF RemoveTransaction
  <1>5. GoodSeq(RemoveAt(txs, k), s) /\ Elems(RemoveAt(txs, k)) = Elems(txs) \ {t}
    BY <1>0, <1>1, GoodSeqRemove
  <1>6. IsQueue(out) /\ out.transactions = RemoveAt(txs, k)
    BY <1>5, RescoredFacts DEF GoodSeq
  <1> QED
    BY <1>4, <1>5, <1>6 DEF GoodQueue

(* Transactions::cull takes the first n transactions and leaves a sorted queue. *)
LEMMA CullFacts ==
    ASSUME NEW s, NEW q, GoodQueue(q, s), NEW n \in 0..Len(q.transactions)
    PROVE  /\ GoodQueue(CullStalled(q, n), s)
           /\ Elems(CullStalled(q, n).transactions)
                 = Elems(q.transactions) \ {q.transactions[i] : i \in 1..n}
  <1> DEFINE txs == q.transactions
             rest == SubSeq(txs, n + 1, Len(txs))
             out == Rescored(rest, SubSeq(q.scores, n + 1, Len(q.scores)), "Culled", n)
  <1>1. GoodSeq(txs, s)
    BY DEF GoodQueue
  <1>2. CASE n = 0
    BY <1>2 DEF CullStalled
  <1>3. CASE n # 0
    <2>1. CullStalled(q, n) = out
      BY <1>3 DEF CullStalled
    <2>2. GoodSeq(rest, s) /\ Elems(rest) = Elems(txs) \ {txs[i] : i \in 1..n}
      BY <1>1, GoodSeqSuffix
    <2>3. IsQueue(out) /\ out.transactions = rest
      BY <2>2, RescoredFacts DEF GoodSeq
    <2> QED
      BY <2>1, <2>2, <2>3 DEF GoodQueue
  <1> QED
    BY <1>2, <1>3
------------------------------------------------------------------------------
(* Hashes and insertion ids identify the members of U. *)
Distinct(U) ==
    \A x, y \in U : (x.tx = y.tx \/ x.insertion_id = y.insertion_id) => x = y

(* A ScoreWithRef of a transaction in U. *)
IsRef(e, U) == e = [score |-> e.score, transaction |-> e.transaction] /\ e.transaction \in U

(* update_senders_worst_and_best exchanges one sender's entry and touches no other,
   although the set compares scores and insertion ids only. *)
LEMMA UpdateRefsFacts ==
    ASSUME NEW U, Distinct(U), NEW others, NEW prev, NEW curr,
           \A e \in others \cup prev \cup curr : IsRef(e, U),
           \A e \in prev \cup curr, x \in others : e.transaction # x.transaction,
           \A e, f \in prev : e = f,
           \A e, f \in curr : e = f
    PROVE  UpdateRefs(others \cup prev, prev, curr) = others \cup curr
  <1>1. CASE \E p \in prev, c \in curr : IsSame(p, c)
    <2>1. PICK p \in prev, c \in curr : IsSame(p, c)
      BY <1>1
    <2>2. p = c
      BY <2>1 DEF IsSame, IsRef, Distinct
    <2>3. prev = {p} /\ curr = {c}
      OBVIOUS
    <2> QED
      BY <1>1, <2>2, <2>3 DEF UpdateRefs
  <1>2. CASE ~ \E p \in prev, c \in curr : IsSame(p, c)
    <2>1. ASSUME NEW e \in prev \cup curr, NEW x \in others PROVE ~SameRef(x, e)
      BY <2>1 DEF SameRef, IsRef, Distinct
    <2>2. RemoveRefs(others \cup prev, prev) = others
      <3>1. \A e \in prev : SameRef(e, e)
        BY DEF SameRef
      <3>2. ASSUME NEW x \in others PROVE x \in RemoveRefs(others \cup prev, prev)
        BY <2>1 DEF RemoveRefs
      <3>3. ASSUME NEW x \in RemoveRefs(others \cup prev, prev) PROVE x \in others
        BY <3>1 DEF RemoveRefs
      <3> QED
        BY <3>2, <3>3
    <2>3. InsertRefs(others, curr) = others \cup curr
      BY <2>1 DEF InsertRefs
    <2> QED
      BY <1>2, <2>2, <2>3 DEF UpdateRefs
  <1> QED
    BY <1>1, <1>2

(* TypeOK's clauses on the queues and QueuesSorted, queue by queue. *)
QueuesGood ==
    /\ transactions = [s \in DOMAIN transactions |-> transactions[s]]
    /\ DOMAIN transactions \subseteq Senders
    /\ \A s \in DOMAIN transactions :
          GoodQueue(transactions[s], s) /\ Len(transactions[s].transactions) > 0

(* The transactions in any queue. *)
Pooled == UNION {Elems(transactions[s].transactions) : s \in DOMAIN transactions}

(* worst_and_best returns entries of the queue. *)
LEMMA EntriesAreRefs ==
    ASSUME NEW s, NEW q, GoodQueue(q, s), NEW U, Elems(q.transactions) \subseteq U,
           NEW e \in BestOf(q) \cup WorstOf(q)
    PROVE  IsRef(e, U) /\ e.transaction \in Elems(q.transactions)
  <1>1. PICK i \in 1..Len(q.transactions) : e = EntryAt(q, i)
    BY DEF BestOf, WorstOf, GoodQueue, IsQueue
  <1> QED
    BY <1>1 DEF EntryAt, IsRef, Elems

(* The empty queue QueueOf stands in for a sender without an entry. *)
LEMMA DefaultFacts ==
    ASSUME NEW s
    PROVE  /\ GoodQueue(Default, s)
           /\ Elems(Default.transactions) = {}
           /\ BestOf(Default) = {}
           /\ WorstOf(Default) = {}
           /\ IsEmpty(Default)
  BY DEF Default, GoodQueue, GoodSeq, IsQueue, Elems, BestOf, WorstOf, IsEmpty

(* A sender's queue holds exactly the pooled transactions of that sender. *)
LEMMA PooledBySender ==
    ASSUME QueuesGood, NEW s \in Senders
    PROVE  /\ GoodQueue(QueueOf(s), s)
           /\ \A t : t \in Elems(QueueOf(s).transactions) <=> t \in Pooled /\ Sender[t.tx] = s
  <1>1. GoodQueue(QueueOf(s), s)
    BY DefaultFacts DEF QueuesGood, QueueOf
  <1>2. ASSUME NEW x \in DOMAIN transactions, NEW t \in Elems(transactions[x].transactions)
        PROVE  Sender[t.tx] = x
    BY DEF QueuesGood, GoodQueue, GoodSeq, Elems
  <1>3. ASSUME NEW t \in Elems(QueueOf(s).transactions) PROVE t \in Pooled /\ Sender[t.tx] = s
    <2>1. s \in DOMAIN transactions
      BY DefaultFacts DEF QueueOf
    <2> QED
      BY <1>2, <2>1 DEF QueueOf, Pooled
  <1>4. ASSUME NEW t \in Pooled, Sender[t.tx] = s PROVE t \in Elems(QueueOf(s).transactions)
    <2>1. PICK x \in DOMAIN transactions : t \in Elems(transactions[x].transactions)
      BY DEF Pooled
    <2> QED
      BY <1>2, <1>4, <2>1 DEF QueueOf
  <1> QED
    BY <1>1, <1>3, <1>4

(* Replacing one sender's queue keeps all queues sorted and both ordered sets exact. *)
LEMMA SetQueueFacts ==
    ASSUME QueuesGood, OrderedSetsExact,
           NEW s \in Senders, NEW q, GoodQueue(q, s),
           s \in DOMAIN transactions \/ Len(q.transactions) > 0,
           NEW U, Distinct(U), Pooled \subseteq U, Elems(q.transactions) \subseteq U,
           SetQueue(s, q)
    PROVE  /\ QueuesGood'
           /\ OrderedSetsExact'
           /\ \A t : t \in Pooled' <=> \/ t \in Pooled /\ Sender[t.tx] # s
                                      \/ t \in Elems(q.transactions)
  <1> DEFINE D == DOMAIN transactions
             prev == QueueOf(s)
  <1>0. q.transactions \in Seq(Transaction) /\ Len(q.transactions) \in Nat
    BY DEF GoodQueue, GoodSeq
  <1>1. IsEmpty(q) <=> Len(q.transactions) = 0
    BY <1>0 DEF IsEmpty
  <1>2. s \in D => ~IsEmpty(prev)
    BY DEF QueuesGood, QueueOf, IsEmpty
  <1>3. s \notin D => prev = Default
    BY DEF QueueOf
  <1>4. GoodQueue(prev, s)
    BY PooledBySender
  <1>5. DOMAIN transactions' = IF IsEmpty(q) THEN D \ {s} ELSE D \cup {s}
    <2>1. CASE IsEmpty(q)
      BY <1>1, <1>2, <2>1 DEF SetQueue, Restrict
    <2>2. CASE ~IsEmpty(q)
      BY <2>2 DEF SetQueue
    <2> QED
      BY <2>1, <2>2
  <1>6. transactions' = [x \in DOMAIN transactions' |-> transactions'[x]]
    BY DEF SetQueue, Restrict
  <1>7. \A x \in D \ {s} : transactions'[x] = transactions[x]
    BY DEF SetQueue, Restrict
  <1>8. ~IsEmpty(q) => transactions'[s] = q
    BY DEF SetQueue
  <1>9. QueuesGood'
    <2>1. DOMAIN transactions' \subseteq Senders
      BY <1>5 DEF QueuesGood
    <2>2. ASSUME NEW x \in DOMAIN transactions'
          PROVE GoodQueue(transactions'[x], x) /\ Len(transactions'[x].transactions) > 0
      <3>1. CASE x = s
        BY <1>0, <1>1, <1>5, <1>8, <3>1
      <3>2. CASE x # s
        BY <1>5, <1>7, <3>2 DEF QueuesGood
      <3> QED
        BY <3>1, <3>2
    <2> QED
      BY <1>6, <2>1, <2>2 DEF QueuesGood
  <1>10. \A t : t \in Pooled' <=> \/ t \in Pooled /\ Sender[t.tx] # s
                                  \/ t \in Elems(q.transactions)
    <2>1. \A x \in D : \A t \in Elems(transactions[x].transactions) : Sender[t.tx] = x
      BY DEF QueuesGood, GoodQueue, GoodSeq, Elems
    <2>2. IsEmpty(q) => Elems(q.transactions) = {}
      BY <1>0, <1>1 DEF Elems
    <2> QED
      BY <1>5, <1>7, <1>8, <2>1, <2>2 DEF Pooled
  <1>11. \A t \in Elems(prev.transactions) \cup Elems(q.transactions) : t \in U /\ Sender[t.tx] = s
    <2>1. \A t \in Elems(q.transactions) : Sender[t.tx] = s
      BY DEF GoodQueue, GoodSeq, Elems
    <2> QED
      BY <2>1, PooledBySender
  <1>12. ASSUME NEW x \in D \ {s}, NEW e \in BestOf(transactions[x]) \cup WorstOf(transactions[x])
         PROVE  IsRef(e, U) /\ Sender[e.transaction.tx] # s
    <2>1. GoodQueue(transactions[x], x) /\ Elems(transactions[x].transactions) \subseteq U
      BY DEF QueuesGood, Pooled
    <2>2. IsRef(e, U) /\ e.transaction \in Elems(transactions[x].transactions)
      BY <2>1, EntriesAreRefs
    <2> QED
      BY <2>1, <2>2 DEF GoodQueue, GoodSeq, Elems
  <1>13. ASSUME NEW e \in BestOf(prev) \cup WorstOf(prev) \cup BestOf(q) \cup WorstOf(q)
         PROVE  IsRef(e, U) /\ Sender[e.transaction.tx] = s
    BY <1>4, <1>11, EntriesAreRefs
  <1>14. \A p \in {prev, q} : \A e, f \in BestOf(p) : e = f
    BY DEF BestOf
  <1>15. \A p \in {prev, q} : \A e, f \in WorstOf(p) : e = f
    BY DEF WorstOf
  <1>16. best_transactions' = UNION {BestOf(transactions'[x]) : x \in DOMAIN transactions'}
    <2> DEFINE oth == UNION {BestOf(transactions[x]) : x \in D \ {s}}
    <2>1. best_transactions = oth \cup BestOf(prev)
      BY <1>3, DefaultFacts DEF OrderedSetsExact, QueueOf
    <2>2. UpdateRefs(oth \cup BestOf(prev), BestOf(prev), BestOf(q)) = oth \cup BestOf(q)
      <3>1. \A e \in oth \cup BestOf(prev) \cup BestOf(q) : IsRef(e, U)
        BY <1>12, <1>13
      <3>2. \A e \in BestOf(prev) \cup BestOf(q), x \in oth : e.transaction # x.transaction
        BY <1>12, <1>13
      <3> HIDE DEF oth
      <3> QED
        BY <1>14, <3>1, <3>2, UpdateRefsFacts
    <2>3. best_transactions' = oth \cup BestOf(q)
      BY <2>1, <2>2 DEF SetQueue
    <2>4. IsEmpty(q) => BestOf(q) = {}
      BY <1>0, <1>1, EntriesOf DEF GoodQueue
    <2> QED
      BY <1>5, <1>7, <1>8, <2>3, <2>4
  <1>17. worst_transactions' = UNION {WorstOf(transactions'[x]) : x \in DOMAIN transactions'}
    <2> DEFINE oth == UNION {WorstOf(transactions[x]) : x \in D \ {s}}
    <2>1. worst_transactions = oth \cup WorstOf(prev)
      BY <1>3, DefaultFacts DEF OrderedSetsExact, QueueOf
    <2>2. UpdateRefs(oth \cup WorstOf(prev), WorstOf(prev), WorstOf(q)) = oth \cup WorstOf(q)
      <3>1. \A e \in oth \cup WorstOf(prev) \cup WorstOf(q) : IsRef(e, U)
        BY <1>12, <1>13
      <3>2. \A e \in WorstOf(prev) \cup WorstOf(q), x \in oth : e.transaction # x.transaction
        BY <1>12, <1>13
      <3> HIDE DEF oth
      <3> QED
        BY <1>15, <3>1, <3>2, UpdateRefsFacts
    <2>3. worst_transactions' = oth \cup WorstOf(q)
      BY <2>1, <2>2 DEF SetQueue
    <2>4. IsEmpty(q) => WorstOf(q) = {}
      BY <1>0, <1>1, EntriesOf DEF GoodQueue
    <2> QED
      BY <1>5, <1>7, <1>8, <2>3, <2>4
  <1> QED
    BY <1>9, <1>10, <1>16, <1>17 DEF OrderedSetsExact
------------------------------------------------------------------------------
(* by_hash is the index of the pooled transactions by hash. *)
HashGood ==
    /\ by_hash \in [DOMAIN by_hash -> Transaction]
    /\ DOMAIN by_hash \subseteq Txs
    /\ \A h \in DOMAIN by_hash : by_hash[h].tx = h /\ by_hash[h] \in Pooled
    /\ \A t \in Pooled : t.tx \in DOMAIN by_hash /\ by_hash[t.tx] = t

(* The types of the variables that the structures do not share. *)
RestOK ==
    /\ insertion_id \in Nat
    /\ notified \in [Txs -> Int]
    /\ pc \in {"idle", "count", "mem", "add", "cull"}
    /\ new \in SUBSET Transaction
    /\ culling \subseteq Senders

(* The invariant's clauses on queues, as one predicate per queue. *)
LEMMA QueuesRecast ==
    (/\ DOMAIN transactions \subseteq Senders
     /\ transactions = [s \in DOMAIN transactions |-> transactions[s]]
     /\ \A s \in DOMAIN transactions : IsQueue(transactions[s])
     /\ QueuesSorted) <=> QueuesGood
  BY DEF QueuesGood, QueuesSorted, GoodQueue, GoodSeq, IsQueue

(* The invariant's clauses on by_hash, in terms of the set of pooled transactions. *)
LEMMA HashRecast ==
    QueuesGood =>
        (HashGood <=> /\ by_hash \in [DOMAIN by_hash -> Transaction]
                      /\ DOMAIN by_hash \subseteq Txs
                      /\ HashIndexExact)
  <1> SUFFICES ASSUME QueuesGood
               PROVE  HashGood <=> /\ by_hash \in [DOMAIN by_hash -> Transaction]
                                   /\ DOMAIN by_hash \subseteq Txs
                                   /\ HashIndexExact
    OBVIOUS
  <1>1. ASSUME HashGood PROVE HashIndexExact
    <2>1. ASSUME NEW s \in DOMAIN transactions, NEW i \in 1..Len(transactions[s].transactions)
          PROVE  transactions[s].transactions[i] \in Pooled
      BY DEF Pooled, Elems
    <2>2. ASSUME NEW h \in DOMAIN by_hash
          PROVE  /\ Sender[h] \in DOMAIN transactions
                 /\ \E i \in 1..Len(transactions[Sender[h]].transactions) :
                       transactions[Sender[h]].transactions[i] = by_hash[h]
      <3>1. PICK s \in DOMAIN transactions : \E i \in 1..Len(transactions[s].transactions) :
                transactions[s].transactions[i] = by_hash[h]
        BY <1>1 DEF HashGood, Pooled, Elems
      <3>2. Sender[h] = s
        BY <1>1, <3>1 DEF HashGood, QueuesGood, GoodQueue, GoodSeq
      <3> QED
        BY <3>1, <3>2
    <2> QED
      BY <1>1, <2>1, <2>2 DEF HashGood, HashIndexExact
  <1>2. ASSUME HashIndexExact PROVE /\ \A h \in DOMAIN by_hash : by_hash[h].tx = h /\ by_hash[h] \in Pooled
                                    /\ \A t \in Pooled : t.tx \in DOMAIN by_hash /\ by_hash[t.tx] = t
    <2>1. ASSUME NEW h \in DOMAIN by_hash PROVE by_hash[h].tx = h /\ by_hash[h] \in Pooled
      <3>1. PICK i \in 1..Len(transactions[Sender[h]].transactions) :
                transactions[Sender[h]].transactions[i] = by_hash[h]
        BY <1>2 DEF HashIndexExact
      <3>2. by_hash[h] \in Elems(transactions[Sender[h]].transactions)
        BY <3>1 DEF Elems
      <3> QED
        BY <1>2, <3>2 DEF HashIndexExact, Pooled
    <2>2. ASSUME NEW t \in Pooled PROVE t.tx \in DOMAIN by_hash /\ by_hash[t.tx] = t
      <3>1. PICK s \in DOMAIN transactions : t \in Elems(transactions[s].transactions)
        BY DEF Pooled
      <3> QED
        BY <1>2, <3>1 DEF HashIndexExact, Elems
    <2> QED
      BY <2>1, <2>2
  <1> QED
    BY <1>1, <1>2 DEF HashGood

(* The inductive invariant. *)
IInv ==
    /\ QueuesGood
    /\ HashGood
    /\ OrderedSetsExact
    /\ InsertionIdsUnique
    /\ ListenerExact
    /\ CallConsistent
    /\ RestOK

(* PoolConsistent in the form the induction uses. *)
LEMMA Recast == PoolConsistent <=> IInv
  <1>1. PoolConsistent => QueuesGood
    BY QueuesRecast DEF PoolConsistent, TypeOK
  <1>2. ASSUME PoolConsistent PROVE IInv
    BY <1>1, <1>2, HashRecast DEF PoolConsistent, TypeOK, IInv, RestOK
  <1>3. ASSUME IInv PROVE PoolConsistent
    BY <1>3, QueuesRecast, HashRecast DEF PoolConsistent, TypeOK, IInv, RestOK, HashGood
  <1> QED
    BY <1>2, <1>3

(* Hashes and insertion ids identify the pooled transactions and the one being imported. *)
LEMMA PooledDistinct ==
    ASSUME IInv
    PROVE  Distinct(Pooled \cup new)
  <1> SUFFICES ASSUME NEW x \in Pooled \cup new, NEW y \in Pooled \cup new,
                      x.tx = y.tx \/ x.insertion_id = y.insertion_id
               PROVE  x = y
    BY DEF Distinct
  <1>1. CASE x \in Pooled /\ y \in Pooled
    BY <1>1 DEF IInv, HashGood, InsertionIdsUnique
  <1>2. CASE x \in Pooled /\ y \in new
    <2>1. x.tx \in DOMAIN by_hash /\ by_hash[x.tx] = x /\ x \in Transaction
      BY <1>2 DEF IInv, HashGood
    <2>2. /\ y.tx \notin DOMAIN by_hash
          /\ y.insertion_id = insertion_id
          /\ x.insertion_id < insertion_id
      BY <1>2, <2>1 DEF IInv, CallConsistent
    <2> QED
      BY <2>1, <2>2 DEF IInv, RestOK, Transaction
  <1>3. CASE x \in new /\ y \in Pooled
    <2>1. y.tx \in DOMAIN by_hash /\ by_hash[y.tx] = y /\ y \in Transaction
      BY <1>3 DEF IInv, HashGood
    <2>2. /\ x.tx \notin DOMAIN by_hash
          /\ x.insertion_id = insertion_id
          /\ y.insertion_id < insertion_id
      BY <1>3, <2>1 DEF IInv, CallConsistent
    <2> QED
      BY <2>1, <2>2 DEF IInv, RestOK, Transaction
  <1>4. CASE x \in new /\ y \in new
    BY <1>4 DEF IInv, CallConsistent
  <1> QED
    BY <1>1, <1>2, <1>3, <1>4

(* Taking some transactions out of one queue, out of by_hash and off the listener's
   books together keeps the structures in agreement (eviction, remove, cull, update_scores). *)
LEMMA RemovalPreserves ==
    ASSUME IInv, NEW s \in DOMAIN transactions, NEW q, GoodQueue(q, s),
           NEW gone, gone \subseteq Elems(transactions[s].transactions),
           Elems(q.transactions) = Elems(transactions[s].transactions) \ gone,
           NEW G, G = {g.tx : g \in gone},
           SetQueue(s, q),
           by_hash' = [h \in DOMAIN by_hash \ G |-> by_hash[h]],
           Notify({}, G)
    PROVE  /\ QueuesGood'
           /\ HashGood'
           /\ OrderedSetsExact'
           /\ InsertionIdsUnique'
           /\ ListenerExact'
           /\ notified' \in [Txs -> Int]
  <1>0. s \in Senders /\ QueueOf(s) = transactions[s]
    BY DEF IInv, QueuesGood, QueueOf
  <1>1. /\ QueuesGood'
        /\ OrderedSetsExact'
        /\ \A t : t \in Pooled' <=> \/ t \in Pooled /\ Sender[t.tx] # s
                                   \/ t \in Elems(q.transactions)
    <2>1. Distinct(Pooled)
      BY PooledDistinct DEF Distinct
    <2>2. Elems(q.transactions) \subseteq Pooled
      BY DEF Pooled
    <2>3. QueuesGood /\ OrderedSetsExact
      BY DEF IInv
    <2> QED
      BY <1>0, <2>1, <2>2, <2>3, SetQueueFacts
  <1>2. \A t : t \in Elems(transactions[s].transactions) <=> t \in Pooled /\ Sender[t.tx] = s
    BY <1>0, PooledBySender DEF IInv
  <1>3. \A t : t \in Pooled' <=> t \in Pooled /\ t \notin gone
    BY <1>1, <1>2
  <1>4. gone \subseteq Pooled
    BY <1>2
  <1>5. \A t \in Pooled : t.tx \in G <=> t \in gone
    BY <1>4 DEF IInv, HashGood
  <1>6. DOMAIN by_hash' = DOMAIN by_hash \ G /\ \A h \in DOMAIN by_hash' : by_hash'[h] = by_hash[h]
    OBVIOUS
  <1>7. HashGood'
    <2>1. by_hash' \in [DOMAIN by_hash' -> Transaction] /\ DOMAIN by_hash' \subseteq Txs
      BY <1>6 DEF IInv, HashGood
    <2>2. ASSUME NEW h \in DOMAIN by_hash' PROVE by_hash'[h].tx = h /\ by_hash'[h] \in Pooled'
      BY <1>3, <1>5, <1>6 DEF IInv, HashGood
    <2>3. ASSUME NEW t \in Pooled' PROVE t.tx \in DOMAIN by_hash' /\ by_hash'[t.tx] = t
      BY <1>3, <1>5, <1>6 DEF IInv, HashGood
    <2> QED
      BY <2>1, <2>2, <2>3 DEF HashGood
  <1>8. InsertionIdsUnique'
    BY <1>6 DEF IInv, InsertionIdsUnique
  <1>9. ListenerExact' /\ notified' \in [Txs -> Int]
    <2>1. G \subseteq DOMAIN by_hash
      BY <1>4 DEF IInv, HashGood
    <2>2. notified' = [t \in Txs |-> notified[t] - (IF t \in G THEN 1 ELSE 0)]
      BY DEF Notify, IInv, RestOK
    <2> QED
      BY <1>6, <2>1, <2>2 DEF IInv, ListenerExact, RestOK
  <1> QED
    BY <1>1, <1>7, <1>8, <1>9

(* The last part of import keeps the structures in agreement, whatever add returned. *)
LEMMA AddPreserves ==
    ASSUME IInv, NEW t \in new, AddToQueue(t)
    PROVE  /\ QueuesGood'
           /\ HashGood'
           /\ OrderedSetsExact'
           /\ InsertionIdsUnique'
           /\ ListenerExact'
           /\ notified' \in [Txs -> Int]
           /\ \A h \in DOMAIN by_hash' : by_hash'[h].insertion_id <= insertion_id
  <1> DEFINE s == Sender[t.tx]
  <1>0. t \in Transaction /\ t.tx \in Txs /\ s \in Senders /\ t.tx \notin DOMAIN by_hash
    BY SenderAssumption DEF IInv, RestOK, CallConsistent, Transaction
  <1>1. PICK r \in Add(QueueOf(s), t, max_per_sender) :
            /\ SetQueue(s, r.queue)
            /\ \/ /\ r.result \in {"Ok", "PushedOut", "Replaced"}
                  /\ Notify({t.tx}, {o.tx : o \in r.old})
                  /\ FinalizeInsert(t, r.old)
               \/ /\ r.result \in {"TooCheap", "TooCheapToEnter"}
                  /\ UNCHANGED <<by_hash, mem_usage, notified>>
    BY DEF AddToQueue
  <1>2. /\ GoodQueue(QueueOf(s), s)
        /\ \A x : x \in Elems(QueueOf(s).transactions) <=> x \in Pooled /\ Sender[x.tx] = s
    BY <1>0, PooledBySender DEF IInv
  <1>3. t \notin Pooled
    BY <1>0 DEF IInv, HashGood
  <1>4. /\ GoodQueue(r.queue, s)
        /\ Len(r.queue.transactions) > 0
        /\ \/ /\ r.result \in {"Ok", "PushedOut", "Replaced"}
              /\ r.old \subseteq Elems(QueueOf(s).transactions)
              /\ Elems(r.queue.transactions) = (Elems(QueueOf(s).transactions) \ r.old) \cup {t}
           \/ /\ r.result \in {"TooCheap", "TooCheapToEnter"}
              /\ r.queue = QueueOf(s)
    BY <1>0, <1>1, <1>2, <1>3, AddFacts, OptionsAssumption
  <1>5. /\ QueuesGood'
        /\ OrderedSetsExact'
        /\ \A x : x \in Pooled' <=> \/ x \in Pooled /\ Sender[x.tx] # s
                                   \/ x \in Elems(r.queue.transactions)
    <2>1. Distinct(Pooled \cup new)
      BY PooledDistinct
    <2>2. Elems(r.queue.transactions) \subseteq Pooled \cup new
      BY <1>2, <1>4
    <2>3. QueuesGood /\ OrderedSetsExact
      BY DEF IInv
    <2> HIDE DEF s
    <2> QED
      BY <1>0, <1>1, <1>4, <2>1, <2>2, <2>3, SetQueueFacts
  <1>6. \A h \in DOMAIN by_hash : by_hash[h].insertion_id < insertion_id
    BY DEF IInv, CallConsistent
  <1>7. CASE r.result \in {"TooCheap", "TooCheapToEnter"}
    <2>1. r.queue = QueueOf(s) /\ by_hash' = by_hash /\ notified' = notified
      BY <1>1, <1>4, <1>7
    <2>2. Pooled' = Pooled
      BY <1>2, <1>5, <2>1
    <2> QED
      BY <1>5, <2>1, <2>2
         DEF IInv, HashGood, InsertionIdsUnique, ListenerExact, RestOK, CallConsistent
  <1>8. CASE r.result \in {"Ok", "PushedOut", "Replaced"}
    <2> DEFINE gone == {o.tx : o \in r.old}
    <2>1. /\ r.old \subseteq Pooled
          /\ \A x : x \in Pooled' <=> (x \in Pooled /\ x \notin r.old) \/ x = t
      BY <1>2, <1>4, <1>5, <1>8
    <2>2. /\ gone \subseteq DOMAIN by_hash
          /\ t.tx \notin gone
          /\ \A x \in Pooled : x.tx \in gone <=> x \in r.old
      BY <1>0, <2>1 DEF IInv, HashGood
    <2>3. /\ by_hash' = [h \in (DOMAIN by_hash \cup {t.tx}) \ gone |-> IF h = t.tx THEN t ELSE by_hash[h]]
          /\ Notify({t.tx}, gone)
      BY <1>1, <1>8 DEF FinalizeInsert
    <2> HIDE DEF gone
    <2>4. /\ DOMAIN by_hash' = (DOMAIN by_hash \ gone) \cup {t.tx}
          /\ by_hash'[t.tx] = t
          /\ \A h \in DOMAIN by_hash \ gone : by_hash'[h] = by_hash[h]
      BY <1>0, <2>2, <2>3
    <2>5. HashGood'
      <3>1. by_hash' \in [DOMAIN by_hash' -> Transaction] /\ DOMAIN by_hash' \subseteq Txs
        BY <1>0, <2>3, <2>4 DEF IInv, HashGood
      <3>2. ASSUME NEW h \in DOMAIN by_hash' PROVE by_hash'[h].tx = h /\ by_hash'[h] \in Pooled'
        BY <2>1, <2>2, <2>4 DEF IInv, HashGood
      <3>3. ASSUME NEW x \in Pooled' PROVE x.tx \in DOMAIN by_hash' /\ by_hash'[x.tx] = x
        BY <2>1, <2>2, <2>4 DEF IInv, HashGood
      <3> QED
        BY <3>1, <3>2, <3>3 DEF HashGood
    <2>6. t.insertion_id = insertion_id /\ insertion_id \in Nat
      BY DEF IInv, CallConsistent, RestOK
    <2>7. \A h \in DOMAIN by_hash : by_hash[h].insertion_id \in Nat
      BY DEF IInv, HashGood, Transaction
    <2>8. InsertionIdsUnique'
      BY <1>6, <2>4, <2>6, <2>7 DEF IInv, InsertionIdsUnique
    <2>9. ListenerExact' /\ notified' \in [Txs -> Int]
      <3>1. notified' = [x \in Txs |-> notified[x] + (IF x \in {t.tx} THEN 1 ELSE 0)
                                                   - (IF x \in gone THEN 1 ELSE 0)]
        BY <2>3 DEF Notify
      <3>2. notified \in [Txs -> Int] /\ ListenerExact
        BY DEF IInv, RestOK
      <3>3. ASSUME NEW x \in Txs PROVE notified'[x] = IF x \in DOMAIN by_hash' THEN 1 ELSE 0
        BY <1>0, <2>2, <2>4, <3>1, <3>2 DEF ListenerExact
      <3> QED
        BY <3>1, <3>2, <3>3 DEF ListenerExact
    <2>10. \A h \in DOMAIN by_hash' : by_hash'[h].insertion_id <= insertion_id
      BY <1>6, <2>4, <2>6, <2>7
    <2> QED
      BY <1>5, <2>5, <2>8, <2>9, <2>10
  <1> QED
    BY <1>4, <1>7, <1>8

(* finalize_remove takes hashes out of by_hash and changes no other entry. *)
LEMMA FinalizeRemoveDomain ==
    ASSUME NEW G, FinalizeRemove(G)
    PROVE  by_hash' = [h \in DOMAIN by_hash \ G |-> by_hash[h]]
  BY DEF FinalizeRemove, Restrict

(* A step that leaves the pool's structures and the listener alone. *)
LEMMA PoolUnchanged ==
    ASSUME IInv, UNCHANGED <<pool, notified>>
    PROVE  /\ QueuesGood'
           /\ HashGood'
           /\ OrderedSetsExact'
           /\ InsertionIdsUnique'
           /\ ListenerExact'
           /\ by_hash' = by_hash
           /\ notified' = notified
  BY DEF IInv, pool, QueuesGood, HashGood, Pooled, OrderedSetsExact, InsertionIdsUnique,
         ListenerExact

(* An entry of worst_transactions is a pooled transaction of its sender. *)
LEMMA WorstIsPooled ==
    ASSUME IInv, NEW e \in worst_transactions
    PROVE  /\ Sender[e.transaction.tx] \in DOMAIN transactions
           /\ e.transaction \in Elems(transactions[Sender[e.transaction.tx]].transactions)
  <1>1. PICK s \in DOMAIN transactions : e \in WorstOf(transactions[s])
    BY DEF IInv, OrderedSetsExact
  <1>2. GoodQueue(transactions[s], s)
    BY DEF IInv, QueuesGood
  <1>3. e.transaction \in Elems(transactions[s].transactions)
    BY <1>1, <1>2, EntriesAreRefs
  <1>4. Sender[e.transaction.tx] = s
    BY <1>2, <1>3 DEF GoodQueue, GoodSeq, Elems
  <1> QED
    BY <1>3, <1>4

(* A round of import's loops keeps the invariant: it evicts, gives up or moves on. *)
LEMMA RemoveWorstPreserves ==
    ASSUME IInv, NEW t \in new, NEW next \in {"mem", "add"}, pc \in {"count", "mem"},
           RemoveWorst(t, next)
    PROVE  IInv'
  <1>0. t.tx \notin DOMAIN by_hash
    BY DEF IInv, CallConsistent
  <1>1. CASE Rejected
    <2>1. /\ UNCHANGED <<pool, notified, insertion_id, culling>>
          /\ pc' = "idle" /\ new' = {}
      BY <1>1 DEF Rejected, Return
    <2> QED
      BY <2>1, PoolUnchanged DEF IInv, CallConsistent, RestOK
  <1>2. CASE Undecided(next)
    <2>1. /\ UNCHANGED <<pool, notified, insertion_id, culling, new>>
          /\ pc' = next
      BY <1>2 DEF Undecided
    <2> QED
      BY <2>1, PoolUnchanged DEF IInv, CallConsistent, RestOK
  <1>3. ASSUME NEW worst \in worst_transactions,
               NEW q \in RemoveTransaction(QueueOf(Sender[worst.transaction.tx]),
                                           worst.transaction.tx),
               SetQueue(Sender[worst.transaction.tx], q),
               Notify({}, {worst.transaction.tx}),
               FinalizeRemove({worst.transaction.tx}),
               UNCHANGED <<insertion_id, pc, new, culling>>
        PROVE  IInv'
    <2> DEFINE old == worst.transaction
               s == Sender[old.tx]
               G == {old.tx}
    <2>1. s \in DOMAIN transactions /\ old \in Elems(transactions[s].transactions)
      BY WorstIsPooled
    <2>2. QueueOf(s) = transactions[s] /\ GoodQueue(transactions[s], s)
      BY <2>1 DEF QueueOf, IInv, QueuesGood
    <2>3. GoodQueue(q, s) /\ Elems(q.transactions) = Elems(transactions[s].transactions) \ {old}
      BY <2>1, <2>2, RemoveFacts
    <2>4. by_hash' = [h \in DOMAIN by_hash \ G |-> by_hash[h]]
      BY <1>3, FinalizeRemoveDomain
    <2>5. SetQueue(s, q) /\ Notify({}, G) /\ G = {g.tx : g \in {old}}
      BY <1>3
    <2>6. old.tx \in Txs
      <3>1. old \in Pooled
        BY <2>1 DEF Pooled
      <3> QED
        BY <3>1 DEF IInv, HashGood
    <2>7. UNCHANGED <<insertion_id, pc, new, culling>>
      BY <1>3
    <2>8. G \subseteq Txs
      BY <2>6
    <2> HIDE DEF old, s, G
    <2>9. /\ QueuesGood' /\ HashGood' /\ OrderedSetsExact' /\ InsertionIdsUnique'
          /\ ListenerExact' /\ notified' \in [Txs -> Int]
      BY <2>1, <2>3, <2>4, <2>5, RemovalPreserves
    <2>10. CallConsistent' /\ RestOK'
      BY <2>4, <2>7, <2>8, <2>9 DEF IInv, CallConsistent, RestOK
    <2> QED
      BY <2>9, <2>10 DEF IInv
  <1> QED
    BY <1>1, <1>2, <1>3 DEF RemoveWorst
------------------------------------------------------------------------------
(* A new pool is consistent. *)
LEMMA InitConsistent == Init => IInv
  <1> SUFFICES ASSUME Init PROVE IInv
    OBVIOUS
  <1>1. DOMAIN transactions = {} /\ DOMAIN by_hash = {}
    BY DEF Init
  <1>2. QueuesGood
    BY <1>1 DEF Init, QueuesGood
  <1>3. Pooled = {}
    BY <1>1 DEF Pooled
  <1>4. HashGood
    BY <1>1, <1>3 DEF Init, HashGood
  <1>5. OrderedSetsExact
    BY <1>1 DEF Init, OrderedSetsExact
  <1>6. InsertionIdsUnique /\ ListenerExact
    BY <1>1 DEF Init, InsertionIdsUnique, ListenerExact
  <1>7. CallConsistent /\ RestOK
    BY <1>1 DEF Init, CallConsistent, RestOK
  <1> QED
    BY <1>2, <1>4, <1>5, <1>6, <1>7 DEF IInv

(* Every step of every operation keeps the pool consistent. *)
LEMMA NextConsistent == IInv /\ [Next]_vars => IInv'
  <1> SUFFICES ASSUME IInv, [Next]_vars PROVE IInv'
    OBVIOUS
  <1>1. ASSUME NEW t \in Txs, Import(t) PROVE IInv'
    <2>1. UNCHANGED <<pool, notified, culling>>
      BY <1>1 DEF Import
    <2>2. /\ pc = "idle" /\ pc' = "count"
          /\ t \notin DOMAIN by_hash
          /\ insertion_id' = insertion_id + 1
          /\ new' = {[tx |-> t, insertion_id |-> insertion_id + 1]}
      BY <1>1 DEF Import
    <2>3. \A h \in DOMAIN by_hash : by_hash[h].insertion_id \in Nat
      BY DEF IInv, HashGood, Transaction
    <2>4. CallConsistent'
      BY <2>1, <2>2, <2>3, PoolUnchanged DEF IInv, CallConsistent, RestOK
    <2>5. RestOK'
      BY <2>1, <2>2 DEF IInv, RestOK, Transaction
    <2> QED
      BY <2>1, <2>4, <2>5, PoolUnchanged DEF IInv
  <1>2. ASSUME NEW t \in new, CountLoop(t) PROVE IInv'
    <2>1. CASE RemoveWorst(t, "mem")
      BY <1>2, <2>1, RemoveWorstPreserves DEF CountLoop
    <2>2. CASE pc' = "mem" /\ UNCHANGED <<pool, insertion_id, notified, new, culling>>
      BY <1>2, <2>2, PoolUnchanged DEF IInv, CallConsistent, RestOK, CountLoop
    <2> QED
      BY <1>2, <2>1, <2>2 DEF CountLoop
  <1>3. ASSUME NEW t \in new, MemLoop(t) PROVE IInv'
    <2>1. CASE RemoveWorst(t, "add")
      BY <1>3, <2>1, RemoveWorstPreserves DEF MemLoop
    <2>2. CASE pc' = "add" /\ UNCHANGED <<pool, insertion_id, notified, new, culling>>
      BY <1>3, <2>2, PoolUnchanged DEF IInv, CallConsistent, RestOK, MemLoop
    <2> QED
      BY <1>3, <2>1, <2>2 DEF MemLoop
  <1>4. ASSUME NEW t \in new, AddToQueue(t) PROVE IInv'
    <2>1. pc = "add" /\ Return /\ UNCHANGED <<insertion_id, culling>>
      BY <1>4 DEF AddToQueue
    <2> QED
      BY <1>4, <2>1, AddPreserves DEF IInv, CallConsistent, RestOK, Return
  <1>5. ASSUME NEW t \in Txs, RemoveByHash(t) PROVE IInv'
    <2> DEFINE s == Sender[t]
    <2>1. t \in DOMAIN by_hash /\ by_hash[t] \in Pooled /\ by_hash[t].tx = t
      BY <1>5 DEF RemoveByHash, IInv, HashGood
    <2>2. PICK q \in RemoveTransaction(QueueOf(s), t) : SetQueue(s, q)
      BY <1>5 DEF RemoveByHash
    <2>3. s \in Senders
      BY SenderAssumption
    <2>4. by_hash[t] \in Elems(QueueOf(s).transactions) /\ GoodQueue(QueueOf(s), s)
      BY <2>1, <2>3, PooledBySender DEF IInv
    <2>5. s \in DOMAIN transactions /\ QueueOf(s) = transactions[s]
      BY <2>4, DefaultFacts DEF QueueOf
    <2>6. /\ GoodQueue(q, s)
          /\ Elems(q.transactions) = Elems(transactions[s].transactions) \ {by_hash[t]}
      BY <2>1, <2>2, <2>4, <2>5, RemoveFacts
    <2>7. /\ by_hash' = [h \in DOMAIN by_hash \ {t} |-> by_hash[h]]
          /\ Notify({}, {t})
          /\ {t} = {g.tx : g \in {by_hash[t]}}
      BY <1>5, <2>1, FinalizeRemoveDomain DEF RemoveByHash
    <2>8. /\ QueuesGood' /\ HashGood' /\ OrderedSetsExact' /\ InsertionIdsUnique'
          /\ ListenerExact' /\ notified' \in [Txs -> Int]
      <3>1. {by_hash[t]} \subseteq Elems(transactions[s].transactions)
        BY <2>4, <2>5
      <3> HIDE DEF s
      <3> QED
        BY <2>2, <2>5, <2>6, <2>7, <3>1, RemovalPreserves
    <2>9. UNCHANGED <<insertion_id, pc, new, culling>> /\ pc = "idle"
      BY <1>5 DEF RemoveByHash, idle
    <2> QED
      BY <2>7, <2>8, <2>9 DEF IInv, CallConsistent, RestOK
  <1>6. ASSUME Clear PROVE IInv'
    <2>1. /\ pc = "idle" /\ UNCHANGED <<insertion_id, pc, new, culling>>
          /\ transactions' = [s \in {} |-> Default] /\ by_hash' = [h \in {} |-> {}]
          /\ best_transactions' = {} /\ worst_transactions' = {}
          /\ Notify({}, DOMAIN by_hash)
      BY <1>6 DEF Clear, idle
    <2>2. DOMAIN transactions' = {} /\ DOMAIN by_hash' = {}
      BY <2>1
    <2>3. QueuesGood' /\ OrderedSetsExact' /\ InsertionIdsUnique'
      BY <2>1, <2>2 DEF QueuesGood, OrderedSetsExact, InsertionIdsUnique
    <2>4. HashGood'
      BY <2>1, <2>2 DEF HashGood, Pooled
    <2>5. ListenerExact' /\ notified' \in [Txs -> Int]
      BY <2>1, <2>2 DEF Notify, IInv, ListenerExact, RestOK
    <2> QED
      BY <2>1, <2>2, <2>3, <2>4, <2>5 DEF IInv, CallConsistent, RestOK
  <1>7. ASSUME NEW s \in Senders, ScoringEvent(s) PROVE IInv'
    <2> DEFINE q == UpdateScores(transactions[s])
    <2>1. s \in DOMAIN transactions /\ SetQueue(s, q) /\ UNCHANGED <<by_hash, notified>>
      BY <1>7 DEF ScoringEvent
    <2>2. GoodQueue(transactions[s], s)
      BY <2>1 DEF IInv, QueuesGood
    <2>3. GoodQueue(q, s) /\ q.transactions = transactions[s].transactions
      <3>1. transactions[s].transactions \in Seq(Transaction)
        BY <2>2 DEF GoodQueue, IsQueue
      <3>2. IsQueue(q) /\ q.transactions = transactions[s].transactions
        BY <3>1, RescoredFacts DEF UpdateScores
      <3> QED
        BY <2>2, <3>2 DEF GoodQueue
    <2>4. by_hash' = [h \in DOMAIN by_hash \ {} |-> by_hash[h]]
      BY <2>1 DEF IInv, HashGood
    <2>5. Notify({}, {})
      BY <2>1 DEF Notify, IInv, RestOK
    <2> HIDE DEF q
    <2>6. /\ QueuesGood' /\ HashGood' /\ OrderedSetsExact' /\ InsertionIdsUnique'
          /\ ListenerExact' /\ notified' \in [Txs -> Int]
      <3>1. {} \subseteq Elems(transactions[s].transactions) /\ {} = {g.tx : g \in {}}
        OBVIOUS
      <3>2. Elems(q.transactions) = Elems(transactions[s].transactions) \ {}
        BY <2>3
      <3> QED
        BY <2>1, <2>3, <2>4, <2>5, <3>1, <3>2, RemovalPreserves
    <2>7. UNCHANGED <<insertion_id, pc, new, culling>> /\ pc = "idle"
      BY <1>7 DEF ScoringEvent, idle
    <2> QED
      BY <2>1, <2>6, <2>7 DEF IInv, CallConsistent, RestOK
  <1>8. ASSUME NEW list \in SUBSET Senders, CullSenders(list) PROVE IInv'
    <2>1. /\ UNCHANGED <<pool, insertion_id, notified, new>>
          /\ pc = "idle" /\ pc' = "cull" /\ culling' = list /\ list # {}
      BY <1>8 DEF CullSenders
    <2> QED
      BY <2>1, PoolUnchanged DEF IInv, CallConsistent, RestOK
  <1>9. ASSUME NEW s \in Senders, RemoveStalled(s) PROVE IInv'
    <2>1. /\ pc = "cull" /\ s \in culling /\ culling' = culling \ {s}
          /\ pc' = IF culling = {s} THEN "idle" ELSE "cull"
          /\ UNCHANGED <<insertion_id, new>>
      BY <1>9 DEF RemoveStalled
    <2>2. PICK n \in 0..Len(QueueOf(s).transactions) :
              /\ IF s \in DOMAIN transactions
                 THEN SetQueue(s, CullStalled(transactions[s], n))
                 ELSE UNCHANGED <<transactions, best_transactions, worst_transactions>>
              /\ FinalizeRemove({QueueOf(s).transactions[i].tx : i \in 1..n})
              /\ Notify({}, {QueueOf(s).transactions[i].tx : i \in 1..n})
      BY <1>9 DEF RemoveStalled
    <2> DEFINE txs == QueueOf(s).transactions
               G == {txs[i].tx : i \in 1..n}
               gone == {txs[i] : i \in 1..n}
    <2>3. by_hash' = [h \in DOMAIN by_hash \ G |-> by_hash[h]] /\ Notify({}, G)
      BY <2>2, FinalizeRemoveDomain
    <2>4. ASSUME s \in DOMAIN transactions
          PROVE  /\ QueuesGood' /\ HashGood' /\ OrderedSetsExact' /\ InsertionIdsUnique'
                 /\ ListenerExact' /\ notified' \in [Txs -> Int]
      <3>1. QueueOf(s) = transactions[s] /\ GoodQueue(transactions[s], s)
        BY <2>4 DEF QueueOf, IInv, QueuesGood
      <3> DEFINE q == CullStalled(transactions[s], n)
      <3>2. /\ GoodQueue(q, s)
            /\ Elems(q.transactions) = Elems(transactions[s].transactions) \ gone
        <4>1. n \in 0..Len(transactions[s].transactions)
          BY <3>1
        <4>2. gone = {transactions[s].transactions[i] : i \in 1..n}
          BY <3>1
        <4>3. /\ GoodQueue(CullStalled(transactions[s], n), s)
              /\ Elems(CullStalled(transactions[s], n).transactions)
                    = Elems(transactions[s].transactions)
                        \ {transactions[s].transactions[i] : i \in 1..n}
          BY ONLY <3>1, <4>1, CullFacts
        <4> QED
          BY <4>2, <4>3
      <3>3. Len(txs) \in Nat
        BY <3>1 DEF GoodQueue, GoodSeq
      <3>4. gone \subseteq Elems(transactions[s].transactions) /\ G = {g.tx : g \in gone}
        BY <3>1, <3>3 DEF Elems
      <3>5. SetQueue(s, q)
        BY <2>2, <2>4
      <3> HIDE DEF q, gone, G
      <3> QED
        BY <2>3, <2>4, <3>2, <3>4, <3>5, RemovalPreserves
    <2>5. ASSUME s \notin DOMAIN transactions
          PROVE  /\ QueuesGood' /\ HashGood' /\ OrderedSetsExact' /\ InsertionIdsUnique'
                 /\ ListenerExact' /\ notified' \in [Txs -> Int]
      <3>1. txs = <<>>
        BY <2>5 DEF QueueOf, Default
      <3>2. G = {}
        BY <3>1
      <3> HIDE DEF G
      <3>3. by_hash' = by_hash /\ notified' = notified
        <4>1. by_hash = [h \in DOMAIN by_hash |-> by_hash[h]]
          BY DEF IInv, HashGood
        <4>2. notified \in [Txs -> Int]
          BY DEF IInv, RestOK
        <4> QED
          BY <2>3, <3>2, <4>1, <4>2 DEF Notify
      <3>4. UNCHANGED <<transactions, best_transactions, worst_transactions>>
        BY <2>2, <2>5
      <3> QED
        BY <3>3, <3>4 DEF IInv, QueuesGood, HashGood, Pooled, OrderedSetsExact,
             InsertionIdsUnique, ListenerExact, RestOK
    <2>6. /\ QueuesGood' /\ HashGood' /\ OrderedSetsExact' /\ InsertionIdsUnique'
          /\ ListenerExact' /\ notified' \in [Txs -> Int]
      BY <2>4, <2>5
    <2> HIDE DEF G
    <2>7. CallConsistent' /\ RestOK'
      BY <2>1, <2>3, <2>6 DEF IInv, CallConsistent, RestOK
    <2> QED
      BY <2>6, <2>7 DEF IInv
  <1>10. ASSUME UNCHANGED vars PROVE IInv'
    BY <1>10, PoolUnchanged DEF vars, IInv, CallConsistent, RestOK
  <1> QED
    BY <1>1, <1>2, <1>3, <1>4, <1>5, <1>6, <1>7, <1>8, <1>9, <1>10 DEF Next, ImportStep

(***************************************************************************)
(* The pool's structures agree at all times: the queues are sorted, the    *)
(* hash index, the best and worst sets and the listener's count are exact, *)
(* for any Scoring that keeps equal transactions apart, any ShouldReplace, *)
(* any Ready, any options and any number of transactions and senders.      *)
(***************************************************************************)
THEOREM PoolStaysConsistent == Spec => []PoolConsistent
  <1>1. Spec => []IInv
    BY InitConsistent, NextConsistent, PTL DEF Spec
  <1> QED
    BY <1>1, Recast, PTL

(* The state of the pool has its type between any two steps of any operation. *)
THEOREM PoolTypeCorrect == Spec => []TypeOK
  <1>1. PoolConsistent => TypeOK
    BY DEF PoolConsistent
  <1> QED
    BY <1>1, PoolStaysConsistent, PTL

(* best_transactions and worst_transactions are never stale, whatever the scores do. *)
THEOREM OrderedSetsStayExact == Spec => []OrderedSetsExact
  <1>1. PoolConsistent => OrderedSetsExact
    BY DEF PoolConsistent
  <1> QED
    BY <1>1, PoolStaysConsistent, PTL

(* The hash index is exactly the content of the queues after every step. *)
THEOREM HashIndexStaysExact == Spec => []HashIndexExact
  <1>1. PoolConsistent => HashIndexExact
    BY DEF PoolConsistent
  <1> QED
    BY <1>1, PoolStaysConsistent, PTL

(* A listener that counts notifications knows the pool's content after every step. *)
THEOREM ListenerStaysExact == Spec => []ListenerExact
  <1>1. PoolConsistent => ListenerExact
    BY DEF PoolConsistent
  <1> QED
    BY <1>1, PoolStaysConsistent, PTL
------------------------------------------------------------------------------
(* A non-empty set of naturals has a least element. *)
LEMMA LeastNat ==
    ASSUME NEW S \in SUBSET Nat, S # {}
    PROVE  \E x \in S : \A y \in S : x <= y
  <1> DEFINE Less == {ss \in Nat \X Nat : ss[1] < ss[2]}
  <1>1. IsWellFoundedOn(Less, Nat)
    BY ONLY NatLessThanWellFounded, Zenon DEF OpToRel
  <1>2. \A x, y \in Nat : y < x => <<y, x>> \in Less
    OBVIOUS
  <1> HIDE DEF Less
  <1>3. PICK x \in S : \A y \in S : ~(<<y, x>> \in Less)
    BY <1>1, WFMin
  <1>4. \A y \in S : ~(y < x)
    BY <1>2, <1>3
  <1> QED
    BY <1>4

(* Induction over the naturals, for a set of them. *)
LEMMA AllNaturals ==
    ASSUME NEW S \in SUBSET Nat, 0 \in S, \A n \in S : n + 1 \in S
    PROVE  S = Nat
  <1> SUFFICES ASSUME Nat \ S # {} PROVE FALSE
    OBVIOUS
  <1>1. PICK x \in Nat \ S : \A y \in Nat \ S : x <= y
    BY LeastNat
  <1>2. x # 0 /\ x - 1 \in Nat /\ ~(x <= x - 1) /\ (x - 1) + 1 = x
    BY <1>1
  <1> QED  BY <1>1, <1>2

(* A sum adds up one element after another, in the order in which Pick takes them. *)
Pick(s) == CHOOSE x \in s : TRUE

AddsUp(f, g, D) ==
    g = [s \in D |-> IF s = {} THEN 0 ELSE f[Pick(s)] + g[s \ {Pick(s)}]]

Sums(f, S) == CHOOSE g : AddsUp(f, g, SUBSET S)

UpTo(S, n) == {s \in SUBSET S : Cardinality(s) <= n}

(* An element of a set that is not empty, and what is left without it. *)
LEMMA PickOne ==
    ASSUME NEW S, IsFiniteSet(S), S # {}
    PROVE  /\ Pick(S) \in S
           /\ IsFiniteSet(S \ {Pick(S)}) /\ Cardinality(S) \in Nat
           /\ Cardinality(S \ {Pick(S)}) = Cardinality(S) - 1
  <1>1. Pick(S) \in S
    BY DEF Pick
  <1> QED  BY <1>1, FS_RemoveElement, FS_CardinalityType

(* Sums of larger sets follow from those of smaller ones ... *)
LEMMA SumsUpTo ==
    ASSUME NEW f, NEW S, IsFiniteSet(S), NEW n \in Nat
    PROVE  \E g : AddsUp(f, g, UpTo(S, n))
  <1> DEFINE Bad == {k \in Nat : ~ \E g : AddsUp(f, g, UpTo(S, k))}
  <1>1. SUFFICES ASSUME Bad # {} PROVE FALSE
    OBVIOUS
  <1>2. Bad \in SUBSET Nat
    OBVIOUS
  <1> HIDE DEF Bad
  <1>3. PICK k \in Bad : \A y \in Bad : k <= y
    BY <1>1, <1>2, LeastNat
  <1>4. k \in Nat /\ ~ \E g : AddsUp(f, g, UpTo(S, k))
    BY <1>3 DEF Bad
  <1>5. ASSUME NEW s \in SUBSET S PROVE IsFiniteSet(s) /\ Cardinality(s) \in Nat
    BY FS_Subset, FS_CardinalityType
  <1>6. CASE k = 0
    <2> DEFINE g == [s \in UpTo(S, 0) |-> 0]
    <2>1. ASSUME NEW s \in UpTo(S, 0) PROVE s = {}
      <3>1. IsFiniteSet(s) /\ Cardinality(s) = 0
        BY <1>5 DEF UpTo
      <3> QED  BY <3>1, FS_EmptySet
    <2>2. AddsUp(f, g, UpTo(S, 0))
      BY <2>1 DEF AddsUp
    <2> QED  BY <1>4, <1>6, <2>2
  <1>7. CASE k # 0
    <2>1. k - 1 \in Nat /\ k - 1 \notin Bad
      BY <1>3, <1>4, <1>7
    <2>2. PICK g : AddsUp(f, g, UpTo(S, k - 1))
      BY <2>1 DEF Bad
    <2> DEFINE h == [s \in UpTo(S, k) |-> IF s = {} THEN 0 ELSE f[Pick(s)] + g[s \ {Pick(s)}]]
    <2>3. UpTo(S, k - 1) \subseteq UpTo(S, k)
      BY <1>4, <1>5 DEF UpTo
    <2>4. ASSUME NEW s \in UpTo(S, k - 1) PROVE h[s] = g[s]
      BY <2>2, <2>3 DEF AddsUp
    <2>5. ASSUME NEW s \in UpTo(S, k), s # {} PROVE s \ {Pick(s)} \in UpTo(S, k - 1)
      <3>1. s \in SUBSET S /\ IsFiniteSet(s) /\ Cardinality(s) <= k
        BY <1>5 DEF UpTo
      <3>2. Cardinality(s) \in Nat /\ Cardinality(s \ {Pick(s)}) = Cardinality(s) - 1
        BY <2>5, <3>1, PickOne
      <3> QED  BY <1>4, <3>1, <3>2 DEF UpTo
    <2>6. h = [s \in UpTo(S, k) |-> IF s = {} THEN 0 ELSE f[Pick(s)] + h[s \ {Pick(s)}]]
      <3>1. ASSUME NEW s \in UpTo(S, k), s # {} PROVE h[s \ {Pick(s)}] = g[s \ {Pick(s)}]
        BY <2>4, <2>5, <3>1
      <3> QED  BY <3>1
    <2>7. AddsUp(f, h, UpTo(S, k))
      BY <2>6 DEF AddsUp
    <2> QED  BY <1>4, <2>7
  <1> QED  BY <1>6, <1>7

(* ... so that a sum is well defined. *)
LEMMA SumsAddUp ==
    ASSUME NEW f, NEW S, IsFiniteSet(S)
    PROVE  AddsUp(f, Sums(f, S), SUBSET S)
  <1>1. Cardinality(S) \in Nat
    BY FS_CardinalityType
  <1>2. UpTo(S, Cardinality(S)) = SUBSET S
    BY FS_Subset DEF UpTo
  <1>3. PICK g : AddsUp(f, g, UpTo(S, Cardinality(S)))
    BY <1>1, SumsUpTo
  <1>4. \E h : AddsUp(f, h, SUBSET S)
    BY <1>2, <1>3
  <1> QED  BY <1>4 DEF Sums

(* Two sums over the same set agree, whichever larger set they were defined over. *)
LEMMA SumsAgree ==
    ASSUME NEW f, NEW S, IsFiniteSet(S), NEW R \in SUBSET S
    PROVE  Sums(f, S)[R] = Sums(f, R)[R]
  <1> DEFINE Bad == {k \in Nat : \E s \in SUBSET R : Cardinality(s) = k /\ Sums(f, S)[s] # Sums(f, R)[s]}
  <1>1. IsFiniteSet(R) /\ Cardinality(R) \in Nat
    BY FS_Subset, FS_CardinalityType
  <1>2. SUFFICES ASSUME Bad # {} PROVE FALSE
    BY <1>1
  <1>3. Bad \in SUBSET Nat
    OBVIOUS
  <1> HIDE DEF Bad
  <1>4. PICK k \in Bad : \A y \in Bad : k <= y
    BY <1>2, <1>3, LeastNat
  <1>5. PICK s \in SUBSET R : Cardinality(s) = k /\ Sums(f, S)[s] # Sums(f, R)[s]
    BY <1>4 DEF Bad
  <1>6. AddsUp(f, Sums(f, S), SUBSET S) /\ AddsUp(f, Sums(f, R), SUBSET R)
    BY <1>1, SumsAddUp
  <1>7. /\ Sums(f, S)[s] = IF s = {} THEN 0 ELSE f[Pick(s)] + Sums(f, S)[s \ {Pick(s)}]
        /\ Sums(f, R)[s] = IF s = {} THEN 0 ELSE f[Pick(s)] + Sums(f, R)[s \ {Pick(s)}]
    BY <1>6 DEF AddsUp
  <1>8. s # {}
    BY <1>5, <1>7
  <1>9. IsFiniteSet(s)
    BY <1>1, FS_Subset
  <1>10. k \in Nat /\ k - 1 \in Nat /\ Cardinality(s \ {Pick(s)}) = k - 1
    BY <1>3, <1>5, <1>8, <1>9, PickOne, FS_CardinalityType
  <1>11. k - 1 \notin Bad
    BY <1>4, <1>10
  <1>12. Sums(f, S)[s \ {Pick(s)}] = Sums(f, R)[s \ {Pick(s)}]
    BY <1>10, <1>11 DEF Bad
  <1> QED  BY <1>5, <1>7, <1>12

(* A sum, one element at a time. *)
LEMMA SumUnfold ==
    ASSUME NEW f, NEW S, IsFiniteSet(S)
    PROVE  /\ S = {} => SumOf(f, S) = 0
           /\ S # {} => SumOf(f, S) = f[Pick(S)] + SumOf(f, S \ {Pick(S)})
  <1>1. \A R : SumOf(f, R) = Sums(f, R)[R]
    BY DEF SumOf, MapThenSumSet, MapThenFoldSet, Sums, AddsUp, Pick
  <1>2. AddsUp(f, Sums(f, S), SUBSET S)
    BY SumsAddUp
  <1>3. Sums(f, S)[S] = IF S = {} THEN 0 ELSE f[Pick(S)] + Sums(f, S)[S \ {Pick(S)}]
    BY <1>2 DEF AddsUp
  <1>4. Sums(f, S)[S \ {Pick(S)}] = Sums(f, S \ {Pick(S)})[S \ {Pick(S)}]
    BY SumsAgree
  <1> QED  BY <1>1, <1>3, <1>4

(* TotalMem is the sum of MemUsage. *)
LEMMA TotalUnfold ==
    ASSUME NEW S, IsFiniteSet(S)
    PROVE  /\ S = {} => TotalMem(S) = 0
           /\ S # {} => TotalMem(S) = MemUsage[Pick(S)] + TotalMem(S \ {Pick(S)})
  <1>1. \A R : TotalMem(R) = SumOf(MemUsage, R)
    BY DEF TotalMem, SumOf
  <1> QED  BY <1>1, SumUnfold

(* The total is the same whichever element is counted first. *)
LEMMA TotalMinusOne ==
    ASSUME NEW S \in SUBSET Txs, IsFiniteSet(S)
    PROVE  /\ TotalMem(S) \in Nat
           /\ \A x \in S : TotalMem(S) = MemUsage[x] + TotalMem(S \ {x})
  <1> DEFINE Holds(s) == /\ TotalMem(s) \in Nat
                         /\ \A x \in s : TotalMem(s) = MemUsage[x] + TotalMem(s \ {x})
             Bad == {k \in Nat : \E s \in SUBSET S : Cardinality(s) = k /\ ~Holds(s)}
  <1>1. ASSUME NEW s \in SUBSET S PROVE IsFiniteSet(s) /\ Cardinality(s) \in Nat
    BY FS_Subset, FS_CardinalityType
  <1>2. SUFFICES ASSUME Bad # {} PROVE FALSE
    <2>1. S \in SUBSET S /\ Cardinality(S) \in Nat
      BY <1>1
    <2> QED  BY <2>1
  <1>3. Bad \in SUBSET Nat
    OBVIOUS
  <1> HIDE DEF Bad
  <1>4. PICK k \in Bad : \A y \in Bad : k <= y
    BY <1>2, <1>3, LeastNat
  <1>5. PICK s \in SUBSET S : Cardinality(s) = k /\ ~Holds(s)
    BY <1>4 DEF Bad
  <1>6. IsFiniteSet(s) /\ k \in Nat
    BY <1>1, <1>5
  <1>7. ASSUME NEW u \in SUBSET S, Cardinality(u) < k PROVE Holds(u)
    <2>1. Cardinality(u) \in Nat /\ Cardinality(u) \notin Bad
      BY <1>1, <1>4, <1>6, <1>7
    <2> QED  BY <2>1 DEF Bad
  <1>8. CASE s = {}
    <2>1. TotalMem(s) = 0
      BY <1>6, <1>8, TotalUnfold
    <2> QED  BY <1>5, <1>8, <2>1
  <1>9. CASE s # {}
    <2> DEFINE p == Pick(s)
    <2>1. p \in s /\ p \in Txs /\ MemUsage[p] \in Nat
      BY <1>6, <1>9, PickOne, MemUsageAssumption
    <2> HIDE DEF p
    <2>2. TotalMem(s) = MemUsage[p] + TotalMem(s \ {p})
      BY <1>6, <1>9, TotalUnfold DEF p
    <2>3. ASSUME NEW x \in s
          PROVE  s \ {x} \in SUBSET S /\ Cardinality(s \ {x}) < k
      <3>1. Cardinality(s \ {x}) = k - 1
        BY ONLY <1>5, <1>6, x \in s, FS_RemoveElement
      <3> QED  BY <1>6, <3>1
    <2>4. Holds(s \ {p})
      BY <1>7, <2>1, <2>3
    <2>5. TotalMem(s) \in Nat
      BY <2>1, <2>2, <2>4
    <2>6. ASSUME NEW x \in s PROVE TotalMem(s) = MemUsage[x] + TotalMem(s \ {x})
      <3>1. CASE x = p
        BY <2>2, <3>1
      <3>2. CASE x # p
        <4>1. x \in s \ {p} /\ p \in s \ {x} /\ (s \ {p}) \ {x} = (s \ {x}) \ {p}
          BY <2>1, <3>2
        <4>2. Holds(s \ {x})
          BY <1>7, <2>3
        <4>3. TotalMem(s \ {p}) = MemUsage[x] + TotalMem((s \ {p}) \ {x})
          BY <2>4, <4>1
        <4>4. TotalMem(s \ {x}) = MemUsage[p] + TotalMem((s \ {x}) \ {p})
          BY <4>1, <4>2
        <4>5. (s \ {p}) \ {x} \in SUBSET S /\ Cardinality((s \ {p}) \ {x}) < k
          <5>1. Cardinality((s \ {p}) \ {x}) <= Cardinality(s \ {p}) /\ Cardinality(s \ {p}) < k
            BY <1>1, <2>1, <2>3, FS_Subset
          <5>2. Cardinality((s \ {p}) \ {x}) \in Nat /\ Cardinality(s \ {p}) \in Nat
            BY <1>1
          <5> QED  BY <1>6, <5>1, <5>2
        <4>6. TotalMem((s \ {p}) \ {x}) \in Nat /\ MemUsage[x] \in Nat
          BY <1>7, <4>5, MemUsageAssumption
        <4> QED  BY <2>1, <2>2, <4>1, <4>3, <4>4, <4>6
      <3> QED  BY <3>1, <3>2
    <2> QED  BY <1>5, <2>5, <2>6
  <1> QED  BY <1>8, <1>9

(* What finalize_insert adds. *)
LEMMA TotalPlusOne ==
    ASSUME NEW S \in SUBSET Txs, IsFiniteSet(S), NEW x \in Txs, x \notin S
    PROVE  /\ IsFiniteSet(S \cup {x})
           /\ TotalMem(S \cup {x}) = TotalMem(S) + MemUsage[x]
  <1> DEFINE U == S \cup {x}
  <1>1. U \in SUBSET Txs /\ IsFiniteSet(U) /\ x \in U /\ U \ {x} = S
    BY FS_AddElement
  <1>2. TotalMem(S) \in Nat /\ MemUsage[x] \in Nat
    BY TotalMinusOne, MemUsageAssumption
  <1> HIDE DEF U
  <1>3. TotalMem(U) = MemUsage[x] + TotalMem(U \ {x})
    BY <1>1, TotalMinusOne
  <1>4. TotalMem(U) = TotalMem(S) + MemUsage[x]
    BY <1>1, <1>2, <1>3
  <1> QED  BY <1>1, <1>4 DEF U

(* What finalize_remove subtracts, of however many. *)
LEMMA TotalWithout ==
    ASSUME NEW S \in SUBSET Txs, IsFiniteSet(S), NEW G
    PROVE  /\ IsFiniteSet(S \ G)
           /\ TotalMem(S \cap G) \in Nat
           /\ TotalMem(S \ G) = TotalMem(S) - TotalMem(S \cap G)
  <1> DEFINE Bad == {k \in Nat : \E g \in SUBSET S :
                        Cardinality(g) = k /\ TotalMem(S \ g) # TotalMem(S) - TotalMem(g)}
  <1>1. ASSUME NEW s \in SUBSET S
        PROVE  s \in SUBSET Txs /\ IsFiniteSet(s) /\ Cardinality(s) \in Nat /\ TotalMem(s) \in Nat
    BY FS_Subset, FS_CardinalityType, TotalMinusOne
  <1>2. Bad = {}
    <2> SUFFICES ASSUME Bad # {} PROVE FALSE
      OBVIOUS
    <2>1. Bad \in SUBSET Nat
      OBVIOUS
    <2> HIDE DEF Bad
    <2>2. PICK k \in Bad : \A y \in Bad : k <= y
      BY <2>1, LeastNat
    <2>3. PICK g \in SUBSET S : Cardinality(g) = k /\ TotalMem(S \ g) # TotalMem(S) - TotalMem(g)
      BY <2>2 DEF Bad
    <2>4. IsFiniteSet(g) /\ k \in Nat /\ S \ {} = S
      BY <1>1, <2>3
    <2>5. CASE g = {}
      <3>1. TotalMem(g) = 0
        BY <2>4, <2>5, TotalUnfold
      <3> QED  BY <1>1, <2>3, <2>4, <2>5, <3>1
    <2>6. CASE g # {}
      <3>1. PICK x \in g : TRUE
        BY <2>6
      <3> DEFINE h == g \ {x}
      <3>2. h \in SUBSET S /\ Cardinality(h) = k - 1 /\ k - 1 \in Nat
        <4>1. Cardinality(h) = k - 1
          BY ONLY <2>3, <2>4, x \in g, FS_RemoveElement
        <4>2. h \in SUBSET S /\ Cardinality(h) \in Nat
          BY <1>1
        <4> QED  BY <4>1, <4>2
      <3>3. k - 1 \notin Bad
        BY <2>2, <2>4
      <3> HIDE DEF h
      <3>4. TotalMem(S \ h) = TotalMem(S) - TotalMem(h)
        BY <3>2, <3>3 DEF Bad
      <3>5. /\ S \ h \in SUBSET S /\ x \in S \ h /\ (S \ h) \ {x} = S \ g
            /\ S \ g \in SUBSET S /\ S \in SUBSET S
        BY <3>1 DEF h
      <3>6. TotalMem(S \ h) = MemUsage[x] + TotalMem(S \ g)
        BY <1>1, <3>5, TotalMinusOne
      <3>7. TotalMem(g) = MemUsage[x] + TotalMem(h)
        BY <1>1, TotalMinusOne DEF h
      <3>8. /\ TotalMem(S) \in Nat /\ TotalMem(S \ g) \in Nat /\ TotalMem(g) \in Nat
            /\ TotalMem(h) \in Nat /\ TotalMem(S \ h) \in Nat /\ MemUsage[x] \in Nat
        <4>1. x \in Txs
          BY <3>1
        <4> QED  BY <1>1, <3>2, <3>5, <4>1, MemUsageAssumption
      <3> QED  BY ONLY <2>3, <3>4, <3>6, <3>7, <3>8
    <2> QED  BY <2>5, <2>6
  <1>3. S \cap G \in SUBSET S /\ S \ (S \cap G) = S \ G /\ S \ G \in SUBSET S
    OBVIOUS
  <1>4. Cardinality(S \cap G) \in Nat
    BY <1>1, <1>3
  <1> QED  BY <1>1, <1>2, <1>3, <1>4

(***************************************************************************)
(* The memory total: by_hash is finite, as import adds one transaction at  *)
(* a time, and the total is that of its transactions.                      *)
(***************************************************************************)
MemInv == IsFiniteSet(DOMAIN by_hash) /\ MemUsageExact

(* finalize_remove: what is subtracted was counted. *)
LEMMA RemovalKeepsMem ==
    ASSUME IInv, MemInv, NEW G, FinalizeRemove(G)
    PROVE  /\ MemInv' /\ DOMAIN by_hash' = DOMAIN by_hash \ G
           /\ mem_usage \in Nat /\ mem_usage' \in Nat /\ mem_usage' <= mem_usage
  <1> DEFINE D == DOMAIN by_hash
  <1>1. D \in SUBSET Txs /\ IsFiniteSet(D) /\ mem_usage = TotalMem(D)
    BY DEF IInv, HashGood, MemInv, MemUsageExact
  <1>2. DOMAIN by_hash' = D \ G /\ D \ G \in SUBSET Txs
    <2>1. by_hash' = [h \in DOMAIN by_hash \ G |-> by_hash[h]]
      BY FinalizeRemoveDomain
    <2> QED  BY <1>1, <2>1
  <1>3. mem_usage' = mem_usage - TotalMem(D \cap G)
    <2>1. G \cap D = D \cap G
      OBVIOUS
    <2> QED  BY <2>1 DEF FinalizeRemove, Known
  <1> HIDE DEF D
  <1>4. /\ IsFiniteSet(D \ G) /\ TotalMem(D \cap G) \in Nat
        /\ TotalMem(D \ G) = TotalMem(D) - TotalMem(D \cap G)
    BY <1>1, TotalWithout
  <1>5. TotalMem(D) \in Nat /\ TotalMem(D \ G) \in Nat
    BY <1>1, <1>2, <1>4, TotalMinusOne
  <1>6. MemInv'
    BY <1>1, <1>2, <1>3, <1>4 DEF MemInv, MemUsageExact
  <1> QED  BY <1>1, <1>2, <1>3, <1>4, <1>5, <1>6 DEF D

(* finalize_insert: the transactions pushed out or replaced were counted, the new one was not. *)
LEMMA InsertionKeepsMem ==
    ASSUME IInv, MemInv, NEW t \in Transaction, t.tx \notin DOMAIN by_hash,
           NEW old, old \subseteq Pooled, FinalizeInsert(t, old)
    PROVE  /\ MemInv'
           /\ DOMAIN by_hash' = (DOMAIN by_hash \cup {t.tx}) \ {o.tx : o \in old}
           /\ mem_usage \in Nat /\ mem_usage' \in Nat /\ mem_usage' <= mem_usage + MemUsage[t.tx]
  <1> DEFINE D == DOMAIN by_hash
             U == D \cup {t.tx}
             G == {o.tx : o \in old}
  <1>1. D \in SUBSET Txs /\ IsFiniteSet(D) /\ mem_usage = TotalMem(D) /\ t.tx \in Txs
    BY DEF IInv, HashGood, MemInv, MemUsageExact, Transaction
  <1>2. G \subseteq D
    BY DEF IInv, HashGood
  <1>3. DOMAIN by_hash' = U \ G /\ mem_usage' = mem_usage + MemUsage[t.tx] - TotalMem(G \cap D)
    BY DEF FinalizeInsert, Known
  <1>4. t.tx \notin D
    OBVIOUS
  <1> HIDE DEF D, G
  <1>5. IsFiniteSet(U) /\ TotalMem(U) = TotalMem(D) + MemUsage[t.tx]
    BY <1>1, <1>4, TotalPlusOne
  <1>6. U \in SUBSET Txs /\ U \cap G = G \cap D
    BY <1>1, <1>2, <1>4
  <1> HIDE DEF U
  <1>7. /\ IsFiniteSet(U \ G) /\ TotalMem(U \cap G) \in Nat
        /\ TotalMem(U \ G) = TotalMem(U) - TotalMem(U \cap G)
    BY <1>5, <1>6, TotalWithout
  <1>8. TotalMem(D) \in Nat /\ TotalMem(U \ G) \in Nat /\ MemUsage[t.tx] \in Nat
    <2>1. TotalMem(D) \in Nat /\ MemUsage[t.tx] \in Nat
      BY <1>1, TotalMinusOne, MemUsageAssumption
    <2>2. U \ G \in SUBSET Txs
      BY <1>6
    <2>3. TotalMem(U \ G) \in Nat
      BY ONLY <1>7, <2>2, TotalMinusOne
    <2> QED  BY <2>1, <2>3
  <1>9. mem_usage' = TotalMem(U \ G)
    <2>1. TotalMem(U \cap G) = TotalMem(G \cap D)
      BY <1>6
    <2>2. TotalMem(G \cap D) \in Nat
      BY <1>7, <2>1
    <2>3. mem_usage' = TotalMem(D) + MemUsage[t.tx] - TotalMem(G \cap D)
      BY ONLY <1>1, <1>3
    <2>4. TotalMem(U \ G) = TotalMem(D) + MemUsage[t.tx] - TotalMem(G \cap D)
      <3>1. TotalMem(U \ G) = TotalMem(U) - TotalMem(G \cap D)
        BY <1>7, <2>1
      <3>2. TotalMem(U) = TotalMem(D) + MemUsage[t.tx]
        BY <1>5
      <3> QED  BY ONLY <1>8, <2>2, <3>1, <3>2
    <2> QED  BY ONLY <2>3, <2>4
  <1>10. MemInv'
    BY <1>3, <1>7, <1>9 DEF MemInv, MemUsageExact
  <1>11. mem_usage' <= mem_usage + MemUsage[t.tx]
    <2>1. TotalMem(G \cap D) \in Nat
      BY <1>6, <1>7
    <2>2. mem_usage \in Nat /\ MemUsage[t.tx] \in Nat
      BY <1>1, <1>8
    <2>3. mem_usage' = mem_usage + MemUsage[t.tx] - TotalMem(G \cap D)
      BY <1>3
    <2> QED  BY ONLY <2>1, <2>2, <2>3
  <1> QED  BY <1>1, <1>3, <1>8, <1>9, <1>10, <1>11 DEF D, U, G

(* What add reports as old was in the sender's queue, and so in the pool. *)
LEMMA AddEffect ==
    ASSUME IInv, NEW t \in new, AddToQueue(t)
    PROVE  /\ t \in Transaction /\ t.tx \in Txs /\ t.tx \notin DOMAIN by_hash
           /\ \E r \in Add(QueueOf(Sender[t.tx]), t, max_per_sender) :
                 /\ GoodQueue(QueueOf(Sender[t.tx]), Sender[t.tx])
                 /\ SetQueue(Sender[t.tx], r.queue)
                 /\ \/ /\ r.result \in {"Ok", "PushedOut", "Replaced"}
                       /\ r.old \subseteq Elems(QueueOf(Sender[t.tx]).transactions)
                       /\ r.old \subseteq Pooled
                       /\ FinalizeInsert(t, r.old)
                    \/ /\ r.result \in {"TooCheap", "TooCheapToEnter"}
                       /\ r.queue = QueueOf(Sender[t.tx])
                       /\ UNCHANGED <<by_hash, mem_usage>>
  <1> DEFINE s == Sender[t.tx]
             q == QueueOf(s)
  <1>1. t \in Transaction /\ t.tx \in Txs /\ s \in Senders /\ t.tx \notin DOMAIN by_hash
    BY SenderAssumption DEF IInv, RestOK, CallConsistent, Transaction
  <1>2. PICK r \in Add(q, t, max_per_sender) :
            /\ SetQueue(s, r.queue)
            /\ \/ /\ r.result \in {"Ok", "PushedOut", "Replaced"}
                  /\ FinalizeInsert(t, r.old)
               \/ /\ r.result \in {"TooCheap", "TooCheapToEnter"}
                  /\ UNCHANGED <<by_hash, mem_usage>>
    BY DEF AddToQueue
  <1>3. GoodQueue(q, s) /\ \A x : x \in Elems(q.transactions) => x \in Pooled
    BY <1>1, PooledBySender DEF IInv
  <1> HIDE DEF q
  <1>4. \/ /\ r.result \in {"Ok", "PushedOut", "Replaced"}
           /\ r.old \subseteq Elems(q.transactions)
        \/ /\ r.result \in {"TooCheap", "TooCheapToEnter"}
           /\ r.queue = q
    BY <1>1, <1>3, AddFacts, OptionsAssumption
  <1>5. CASE r.result \in {"Ok", "PushedOut", "Replaced"}
    <2>1. r.old \subseteq Elems(q.transactions) /\ r.old \subseteq Pooled /\ FinalizeInsert(t, r.old)
      BY <1>2, <1>3, <1>4, <1>5
    <2> QED  BY <1>1, <1>2, <1>3, <1>5, <2>1 DEF q
  <1>6. CASE r.result \in {"TooCheap", "TooCheapToEnter"}
    <2>1. r.queue = q /\ UNCHANGED <<by_hash, mem_usage>>
      BY <1>2, <1>4, <1>6
    <2> QED  BY <1>1, <1>2, <1>3, <1>6, <2>1 DEF q
  <1> QED  BY <1>4, <1>5, <1>6

(* Every step of every operation keeps mem_usage exact. *)
LEMMA NextKeepsMem ==
    ASSUME IInv, MemInv, [Next]_vars
    PROVE  MemInv'
  <1>1. ASSUME UNCHANGED <<by_hash, mem_usage>> PROVE MemInv'
    BY <1>1 DEF MemInv, MemUsageExact
  <1>2. ASSUME NEW t, NEW next, RemoveWorst(t, next) PROVE MemInv'
    <2>1. CASE UNCHANGED pool
      BY <1>1, <2>1 DEF pool
    <2>2. ASSUME NEW G, FinalizeRemove(G) PROVE MemInv'
      BY <2>2, RemovalKeepsMem
    <2> QED  BY <1>2, <2>1, <2>2 DEF RemoveWorst, Rejected, Undecided
  <1>3. ASSUME NEW t \in new, CountLoop(t) \/ MemLoop(t) PROVE MemInv'
    BY <1>1, <1>2, <1>3 DEF CountLoop, MemLoop, pool
  <1>4. ASSUME NEW t \in new, AddToQueue(t) PROVE MemInv'
    <2>1. /\ t \in Transaction /\ t.tx \notin DOMAIN by_hash
          /\ \/ \E old : old \subseteq Pooled /\ FinalizeInsert(t, old)
             \/ UNCHANGED <<by_hash, mem_usage>>
      BY <1>4, AddEffect
    <2> QED  BY <1>1, <2>1, InsertionKeepsMem
  <1>5. ASSUME Clear PROVE MemInv'
    <2>1. DOMAIN by_hash' = {} /\ mem_usage' = 0
      BY <1>5 DEF Clear
    <2>2. IsFiniteSet({}) /\ TotalMem({}) = 0
      BY FS_EmptySet, TotalUnfold
    <2> QED  BY <2>1, <2>2 DEF MemInv, MemUsageExact
  <1>6. ASSUME NEW t \in Txs, Import(t) \/ RemoveByHash(t) PROVE MemInv'
    BY <1>1, <1>6, RemovalKeepsMem DEF Import, RemoveByHash, pool
  <1>7. ASSUME NEW s \in Senders, ScoringEvent(s) \/ RemoveStalled(s) PROVE MemInv'
    <2>1. CASE ScoringEvent(s)
      BY <1>1, <2>1 DEF ScoringEvent
    <2>2. CASE RemoveStalled(s)
      <3>1. \E G : FinalizeRemove(G)
        BY <2>2 DEF RemoveStalled
      <3> QED  BY <3>1, RemovalKeepsMem
    <2> QED  BY <1>7, <2>1, <2>2
  <1>8. ASSUME \E list \in SUBSET Senders : CullSenders(list) PROVE MemInv'
    BY <1>1, <1>8 DEF CullSenders, pool
  <1>9. ASSUME UNCHANGED vars PROVE MemInv'
    BY <1>1, <1>9 DEF vars, pool
  <1> QED  BY <1>3, <1>4, <1>5, <1>6, <1>7, <1>8, <1>9 DEF Next, ImportStep

(***************************************************************************)
(* mem_usage, which finalize_insert and finalize_remove patch, is at all   *)
(* times the total memory of the transactions in the pool, and so never    *)
(* goes below zero, for any transactions, options and order of calls.      *)
(***************************************************************************)
THEOREM MemUsageStaysExact == Spec => []MemUsageExact
  <1>1. Init => MemInv
    <2> SUFFICES ASSUME Init PROVE MemInv
      OBVIOUS
    <2>1. DOMAIN by_hash = {} /\ mem_usage = 0
      BY DEF Init
    <2>2. IsFiniteSet({}) /\ TotalMem({}) = 0
      BY FS_EmptySet, TotalUnfold
    <2> QED  BY <2>1, <2>2 DEF MemInv, MemUsageExact
  <1>2. IInv /\ MemInv /\ [Next]_vars => MemInv'
    BY NextKeepsMem
  <1>3. MemInv => MemUsageExact
    BY DEF MemInv
  <1> QED  BY <1>1, <1>2, <1>3, InitConsistent, NextConsistent, PTL DEF Spec
------------------------------------------------------------------------------
(* No queue is longer than max_per_sender. *)
SendersLimited ==
    \A s \in DOMAIN transactions : Len(transactions[s].transactions) <= max_per_sender

(* Transactions::add takes a queue past max_count only for a transaction that ignores it. *)
LEMMA AddLength ==
    ASSUME IgnoresSenderLimit = {}, NEW s, NEW q, GoodQueue(q, s), NEW m \in Nat \ {0},
           Len(q.transactions) <= m, NEW t \in Transaction, NEW r \in Add(q, t, m)
    PROVE  Len(r.queue.transactions) <= m
  <1> DEFINE txs == q.transactions
  <1>1. txs \in Seq(Transaction) /\ Len(txs) \in Nat /\ DOMAIN txs = 1..Len(txs)
    BY DEF GoodQueue, GoodSeq
  <1>2. PICK i \in SearchOk(q, t.tx) \cup SearchErr(q, t.tx) : r = AddAt(q, t, i, m)
    BY DEF Add
  <1>3. CASE i = Len(txs) + 1
    <2>1. r = PushCheapestTransaction(q, t, m)
      BY <1>2, <1>3 DEF AddAt
    <2>2. CASE Len(txs) = m
      BY <2>1, <2>2 DEF PushCheapestTransaction, AddResult
    <2>3. CASE Len(txs) # m
      <3>1. r.queue.transactions = Append(txs, t)
        BY <2>1, <2>3 DEF PushCheapestTransaction, AddResult, Rescored
      <3>2. Len(Append(txs, t)) = Len(txs) + 1
        BY <1>1
      <3> QED  BY <1>1, <2>3, <3>1, <3>2
    <2> QED  BY <2>2, <2>3
  <1>4. CASE i # Len(txs) + 1
    <2>1. i \in 1..Len(txs)
      BY <1>1, <1>4 DEF SearchOk, SearchErr
    <2> DEFINE choice == Choose(txs[i].tx, t.tx)
    <2>2. choice \in Choice
      <3>1. txs[i] \in Transaction /\ t \in Transaction
        BY ONLY <1>1, <2>1, ElementOfSeq, t \in Transaction
      <3>2. txs[i].tx \in Txs /\ t.tx \in Txs
        BY ONLY <3>1 DEF Transaction
      <3> QED  BY <3>2, ChooseAssumption
    <2>3. CASE choice = "RejectNew"
      BY <1>2, <1>4, <2>3 DEF AddAt, AddResult
    <2>4. CASE choice = "InsertNew"
      <3> DEFINE u == InsertAt(txs, i, t)
      <3>1. u \in Seq(Transaction) /\ Len(u) = Len(txs) + 1
        <4>1. i \in 1..(Len(txs) + 1)
          BY <1>1, <2>1
        <4>2. t \in Transaction
          OBVIOUS
        <4> HIDE DEF txs
        <4> QED  BY ONLY <1>1, <4>1, <4>2, InsertAtFacts
      <3>2. r = InsertNew(q, t, i, m)
        BY <1>2, <1>4, <2>4 DEF AddAt
      <3>3. CASE Len(u) > m
        <4>1. r.queue.transactions = Front(u)
          BY <3>2, <3>3 DEF InsertNew, AddResult, Rescored
        <4>2. u # <<>>
          BY <1>1, <3>1
        <4> HIDE DEF u
        <4>3. Len(Front(u)) = Len(u) - 1
          BY <3>1, <4>2, FrontFacts
        <4> QED  BY <1>1, <3>1, <4>1, <4>3
      <3>4. CASE ~(Len(u) > m)
        <4>1. r.queue.transactions = u
          BY <3>2, <3>4 DEF InsertNew, AddResult, Rescored
        <4> HIDE DEF u
        <4> QED  BY <1>1, <3>1, <3>4, <4>1
      <3> QED  BY <3>3, <3>4
    <2>5. CASE choice = "ReplaceOld"
      <3>1. r.queue.transactions = ReplaceAt(txs, i, t)
        BY <1>2, <1>4, <2>5 DEF AddAt, ReplaceOld, AddResult, Rescored
      <3>2. Len(ReplaceAt(txs, i, t)) = Len(txs)
        BY <1>1 DEF ReplaceAt
      <3> QED  BY <3>1, <3>2
    <2> QED  BY <2>2, <2>3, <2>4, <2>5 DEF Choice
  <1> QED  BY <1>3, <1>4

(* Transactions::remove never lengthens a queue. *)
LEMMA RemoveLength ==
    ASSUME NEW s, NEW q, GoodQueue(q, s), NEW t, NEW p \in RemoveTransaction(q, t)
    PROVE  Len(p.transactions) <= Len(q.transactions)
  <1> DEFINE txs == q.transactions
  <1>1. txs \in Seq(Transaction) /\ Len(txs) \in Nat /\ DOMAIN txs = 1..Len(txs)
    BY DEF GoodQueue, GoodSeq
  <1>2. CASE p = q
    BY <1>1, <1>2
  <1>3. ASSUME NEW i \in SearchOk(q, t), p.transactions = RemoveAt(txs, i)
        PROVE  Len(p.transactions) <= Len(txs)
    <2>1. i \in 1..Len(txs)
      BY <1>1 DEF SearchOk
    <2>2. Len(RemoveAt(txs, i)) = Len(txs) - 1
      BY ONLY <1>1, <2>1, RemoveAtFacts
    <2> QED  BY <1>1, <1>3, <2>2
  <1>4. CASE SearchOk(q, t) # {}
    <2>1. PICK i \in SearchOk(q, t) :
              p = Rescored(RemoveAt(txs, i), RemoveAt(q.scores, i), "RemovedAt", i - 1)
      BY <1>4 DEF RemoveTransaction
    <2>2. p.transactions = RemoveAt(txs, i)
      BY <2>1 DEF Rescored
    <2> QED  BY <1>3, <2>2
  <1> QED  BY <1>2, <1>4 DEF RemoveTransaction

(* Transactions::cull never lengthens a queue. *)
LEMMA CullLength ==
    ASSUME NEW s, NEW q, GoodQueue(q, s), NEW n \in 0..Len(q.transactions)
    PROVE  Len(CullStalled(q, n).transactions) <= Len(q.transactions)
  <1> DEFINE txs == q.transactions
  <1>1. txs \in Seq(Transaction) /\ Len(txs) \in Nat
    BY DEF GoodQueue, GoodSeq
  <1>2. CASE n = 0
    BY <1>1, <1>2 DEF CullStalled
  <1>3. CASE n # 0
    <2>1. CullStalled(q, n).transactions = SubSeq(txs, n + 1, Len(txs))
      BY <1>3 DEF CullStalled, Rescored
    <2>2. Len(SubSeq(txs, n + 1, Len(txs))) = Len(txs) - n
      <3>1. n \in 0..Len(txs)
        OBVIOUS
      <3> HIDE DEF txs
      <3> QED  BY ONLY <1>1, <3>1, SuffixFacts
    <2> QED  BY <1>1, <2>1, <2>2
  <1> QED  BY <1>2, <1>3

(* Replacing one sender's queue by one within the limit keeps every queue within it. *)
LEMMA SetQueueLimited ==
    ASSUME SendersLimited, NEW s, NEW q, Len(q.transactions) <= max_per_sender, SetQueue(s, q)
    PROVE  SendersLimited'
  <1>1. ASSUME NEW x \in DOMAIN transactions'
        PROVE  transactions'[x] = q \/ (x \in DOMAIN transactions /\ transactions'[x] = transactions[x])
    BY DEF SetQueue, Restrict
  <1>2. ASSUME NEW x \in DOMAIN transactions'
        PROVE  Len(transactions'[x].transactions) <= max_per_sender
    BY <1>1 DEF SendersLimited
  <1> QED  BY <1>2 DEF SendersLimited

(* A removal takes nothing past any limit. *)
LEMMA RemovalLimited ==
    ASSUME IInv, MemInv, NEW G, FinalizeRemove(G)
    PROVE  /\ Cardinality(DOMAIN by_hash') \in Nat /\ Cardinality(DOMAIN by_hash) \in Nat
           /\ Cardinality(DOMAIN by_hash') <= Cardinality(DOMAIN by_hash)
           /\ mem_usage \in Nat /\ mem_usage' \in Nat /\ mem_usage' <= mem_usage
  <1>1. /\ IsFiniteSet(DOMAIN by_hash) /\ IsFiniteSet(DOMAIN by_hash')
        /\ DOMAIN by_hash' \subseteq DOMAIN by_hash
    <2>1. MemInv' /\ DOMAIN by_hash' = DOMAIN by_hash \ G
      BY RemovalKeepsMem
    <2> QED  BY <2>1 DEF MemInv
  <1>2. mem_usage \in Nat /\ mem_usage' \in Nat /\ mem_usage' <= mem_usage
    BY RemovalKeepsMem
  <1>3. Cardinality(DOMAIN by_hash') <= Cardinality(DOMAIN by_hash)
    BY <1>1, FS_Subset
  <1> QED  BY <1>1, <1>2, <1>3, FS_CardinalityType

(* What LimInv adds to the limits is what import's loops have established when they end. *)
LimInv ==
    /\ LimitsRespected
    /\ pc \in {"mem", "add"} => Cardinality(DOMAIN by_hash) + 1 <= max_count
    /\ pc = "add" => \A t \in new : mem_usage + MemUsage[t.tx] <= max_mem_usage

(* A removal outside import keeps the limits. *)
LEMMA RemovalKeepsLimits ==
    ASSUME IInv, MemInv, LimInv, NEW G, FinalizeRemove(G), SendersLimited',
           pc' \notin {"mem", "add"}
    PROVE  LimInv'
  <1>1. /\ Cardinality(DOMAIN by_hash') \in Nat /\ Cardinality(DOMAIN by_hash) \in Nat
        /\ Cardinality(DOMAIN by_hash') <= Cardinality(DOMAIN by_hash)
        /\ mem_usage \in Nat /\ mem_usage' \in Nat /\ mem_usage' <= mem_usage
    BY RemovalLimited
  <1>2. Cardinality(DOMAIN by_hash) <= max_count /\ mem_usage <= max_mem_usage
    BY DEF LimInv, LimitsRespected
  <1>3. Cardinality(DOMAIN by_hash') <= max_count /\ mem_usage' <= max_mem_usage
    BY <1>1, <1>2, OptionsAssumption
  <1> QED  BY <1>3 DEF LimInv, LimitsRespected, SendersLimited

(* should_replace decides: whatever two ReplaceTransactions it is shown, not InsertNew. *)
ReplaceTransactions == [transaction : Transaction, pooled_by_sender : Seq(Transaction)]
AlwaysDecides ==
    \A old, tx \in ReplaceTransactions : "InsertNew" \notin ShouldReplace(old, tx)

(* remove_worst asks about the pooled transaction it would evict and the imported one. *)
LEMMA AskedAbout ==
    ASSUME IInv, NEW t \in new, NEW worst \in worst_transactions
    PROVE  /\ ReplaceTransaction(worst.transaction, t) \in ReplaceTransactions
           /\ ReplaceTransaction(t, t) \in ReplaceTransactions
  <1>1. t \in Transaction /\ Sender[t.tx] \in Senders
    BY SenderAssumption DEF IInv, RestOK, Transaction
  <1>2. worst.transaction \in Transaction
    <2>1. worst.transaction \in Pooled
      BY WorstIsPooled DEF Pooled
    <2> QED  BY <2>1 DEF IInv, HashGood
  <1>3. QueueOf(Sender[t.tx]).transactions \in Seq(Transaction)
    BY <1>1, PooledBySender DEF IInv, GoodQueue, GoodSeq
  <1> QED  BY <1>1, <1>2, <1>3 DEF ReplaceTransaction, ReplaceTransactions

(* A round of import's loops: with a ShouldReplace that decides, no loop is left early. *)
LEMMA RemoveWorstKeepsLimits ==
    ASSUME AlwaysDecides,
           IInv, MemInv, LimInv, NEW t \in new, NEW next, pc \in {"count", "mem"},
           RemoveWorst(t, next)
    PROVE  LimInv'
  <1>1. CASE Rejected
    BY <1>1 DEF Rejected, Return, pool, LimInv, LimitsRespected
  <1>2. CASE ~Rejected
    <2>1. PICK worst \in worst_transactions :
              /\ \E q \in RemoveTransaction(QueueOf(Sender[worst.transaction.tx]),
                                            worst.transaction.tx) :
                    SetQueue(Sender[worst.transaction.tx], q)
              /\ FinalizeRemove({worst.transaction.tx})
              /\ UNCHANGED <<pc, new>>
      <3>1. PICK worst \in worst_transactions :
                \E choice \in ShouldReplace(ReplaceTransaction(worst.transaction, t),
                                            ReplaceTransaction(t, t)) :
                    \/ choice = "InsertNew"
                    \/ /\ \E q \in RemoveTransaction(QueueOf(Sender[worst.transaction.tx]),
                                                     worst.transaction.tx) :
                             SetQueue(Sender[worst.transaction.tx], q)
                       /\ FinalizeRemove({worst.transaction.tx})
                       /\ UNCHANGED <<pc, new>>
        BY <1>2 DEF RemoveWorst
      <3>2. "InsertNew" \notin ShouldReplace(ReplaceTransaction(worst.transaction, t),
                                             ReplaceTransaction(t, t))
        BY AskedAbout DEF AlwaysDecides
      <3> QED  BY <3>1, <3>2
    <2> DEFINE old == worst.transaction
               s == Sender[old.tx]
    <2>2. PICK q \in RemoveTransaction(QueueOf(s), old.tx) : SetQueue(s, q)
      BY <2>1
    <2>3. s \in DOMAIN transactions
      BY WorstIsPooled
    <2>4. /\ QueueOf(s) = transactions[s] /\ GoodQueue(transactions[s], s)
          /\ Len(transactions[s].transactions) \in Nat
          /\ Len(transactions[s].transactions) <= max_per_sender
      BY <2>3 DEF QueueOf, IInv, QueuesGood, GoodQueue, GoodSeq, LimInv, LimitsRespected
    <2>5. FinalizeRemove({old.tx})
      BY <2>1
    <2> HIDE DEF old, s
    <2>6. /\ Cardinality(DOMAIN by_hash') \in Nat /\ Cardinality(DOMAIN by_hash) \in Nat
          /\ Cardinality(DOMAIN by_hash') <= Cardinality(DOMAIN by_hash)
          /\ mem_usage \in Nat /\ mem_usage' \in Nat /\ mem_usage' <= mem_usage
      BY <2>5, RemovalLimited
    <2>7. SendersLimited'
      <3>1. Len(q.transactions) <= Len(transactions[s].transactions)
        BY <2>2, <2>4, RemoveLength
      <3>2. Len(q.transactions) <= max_per_sender
        <4>1. QueuesGood /\ s \in Senders
          BY <2>3 DEF IInv, QueuesGood
        <4>2. Len(q.transactions) \in Nat
          <5>1. old \in Elems(transactions[s].transactions)
            BY WorstIsPooled DEF old, s
          <5>2. GoodQueue(q, s)
            BY <2>2, <2>4, <5>1, RemoveFacts
          <5> QED  BY <5>2 DEF GoodQueue, GoodSeq
        <4> QED  BY <2>4, <3>1, <4>2, OptionsAssumption
      <3>3. SendersLimited
        BY DEF LimInv, LimitsRespected, SendersLimited
      <3> QED  BY <2>2, <3>2, <3>3, SetQueueLimited
    <2>8. Cardinality(DOMAIN by_hash) <= max_count /\ mem_usage <= max_mem_usage
      BY DEF LimInv, LimitsRespected
    <2>9. Cardinality(DOMAIN by_hash') <= max_count /\ mem_usage' <= max_mem_usage
      BY <2>6, <2>8, OptionsAssumption
    <2>10. pc' = "mem" => Cardinality(DOMAIN by_hash') + 1 <= max_count
      <3>1. pc' = "mem" => Cardinality(DOMAIN by_hash) + 1 <= max_count
        BY <2>1 DEF LimInv
      <3> QED  BY <2>6, <3>1, OptionsAssumption
    <2>11. pc' # "add"
      BY <2>1
    <2> QED  BY <2>7, <2>9, <2>10, <2>11 DEF LimInv, LimitsRespected, SendersLimited
  <1> QED  BY <1>1, <1>2

(* The end of import: what the loops established is enough room for the new transaction. *)
LEMMA AddKeepsLimits ==
    ASSUME IgnoresSenderLimit = {}, IInv, MemInv, LimInv, NEW t \in new, AddToQueue(t)
    PROVE  LimInv'
  <1> DEFINE s == Sender[t.tx]
             q == QueueOf(s)
  <1>1. t \in Transaction /\ t.tx \in Txs /\ t.tx \notin DOMAIN by_hash
    BY AddEffect
  <1>2. PICK r \in Add(q, t, max_per_sender) :
            /\ GoodQueue(q, s)
            /\ SetQueue(s, r.queue)
            /\ \/ r.old \subseteq Pooled /\ FinalizeInsert(t, r.old)
               \/ UNCHANGED <<by_hash, mem_usage>>
    BY AddEffect
  <1>3. pc = "add" /\ pc' = "idle"
    BY DEF AddToQueue, Return
  <1>4. SendersLimited'
    <2>1. Len(q.transactions) <= max_per_sender
      <3>1. CASE s \in DOMAIN transactions
        BY <3>1 DEF QueueOf, LimInv, LimitsRespected
      <3>2. CASE s \notin DOMAIN transactions
        BY <3>2, OptionsAssumption DEF QueueOf, Default
      <3> QED  BY <3>1, <3>2
    <2>2. SendersLimited
      BY DEF LimInv, LimitsRespected, SendersLimited
    <2> HIDE DEF q, s
    <2>3. Len(r.queue.transactions) <= max_per_sender
      BY <1>1, <1>2, <2>1, AddLength, OptionsAssumption
    <2> QED  BY <1>2, <2>2, <2>3, SetQueueLimited
  <1>5. Cardinality(DOMAIN by_hash) + 1 <= max_count
    BY <1>3 DEF LimInv
  <1>6. mem_usage + MemUsage[t.tx] <= max_mem_usage
    BY <1>3 DEF LimInv
  <1>7. Cardinality(DOMAIN by_hash') <= max_count /\ mem_usage' <= max_mem_usage
    <2>1. CASE UNCHANGED <<by_hash, mem_usage>>
      BY <2>1 DEF LimInv, LimitsRespected
    <2>2. CASE r.old \subseteq Pooled /\ FinalizeInsert(t, r.old)
      <3>1. /\ DOMAIN by_hash' \subseteq DOMAIN by_hash \cup {t.tx}
            /\ mem_usage \in Nat /\ mem_usage' \in Nat /\ mem_usage' <= mem_usage + MemUsage[t.tx]
        BY <1>1, <2>2, InsertionKeepsMem
      <3>2. MemUsage[t.tx] \in Nat
        BY <1>1, MemUsageAssumption
      <3>3. mem_usage' <= max_mem_usage
        BY <1>6, <3>1, <3>2, OptionsAssumption
      <3>4. IsFiniteSet(DOMAIN by_hash)
        BY DEF MemInv
      <3>5. /\ IsFiniteSet(DOMAIN by_hash \cup {t.tx})
            /\ Cardinality(DOMAIN by_hash \cup {t.tx}) = Cardinality(DOMAIN by_hash) + 1
        BY <1>1, <3>4, FS_AddElement
      <3>6. /\ IsFiniteSet(DOMAIN by_hash')
            /\ Cardinality(DOMAIN by_hash') <= Cardinality(DOMAIN by_hash \cup {t.tx})
        BY <3>1, <3>5, FS_Subset
      <3>7. Cardinality(DOMAIN by_hash') \in Nat /\ Cardinality(DOMAIN by_hash) \in Nat
        BY <3>4, <3>6, FS_CardinalityType
      <3>8. Cardinality(DOMAIN by_hash') <= max_count
        BY <1>5, <3>5, <3>6, <3>7, OptionsAssumption
      <3> QED  BY <3>3, <3>8
    <2> QED  BY <1>2, <2>1, <2>2
  <1> QED  BY <1>3, <1>4, <1>7 DEF LimInv, LimitsRespected, SendersLimited

(* Every step of every operation keeps the limits. *)
LEMMA NextKeepsLimits ==
    ASSUME AlwaysDecides, IgnoresSenderLimit = {},
           IInv, MemInv, LimInv, [Next]_vars
    PROVE  LimInv'
  <1>1. ASSUME UNCHANGED pool, pc' \notin {"mem", "add"} PROVE LimInv'
    BY <1>1 DEF pool, LimInv, LimitsRespected
  <1>2. SendersLimited
    BY DEF LimInv, LimitsRespected, SendersLimited
  <1>3. ASSUME NEW t \in new, CountLoop(t) PROVE LimInv'
    <2>1. CASE RemoveWorst(t, "mem")
      BY <1>3, <2>1, RemoveWorstKeepsLimits DEF CountLoop
    <2>2. CASE ~RemoveWorst(t, "mem")
      BY <1>3, <2>2 DEF CountLoop, pool, LimInv, LimitsRespected
    <2> QED  BY <2>1, <2>2
  <1>4. ASSUME NEW t \in new, MemLoop(t) PROVE LimInv'
    <2>1. CASE RemoveWorst(t, "add")
      BY <1>4, <2>1, RemoveWorstKeepsLimits DEF MemLoop
    <2>2. CASE ~RemoveWorst(t, "add")
      <3>1. /\ pc = "mem" /\ mem_usage + MemUsage[t.tx] <= max_mem_usage
            /\ UNCHANGED <<transactions, by_hash, mem_usage, new>>
        BY <1>4, <2>2 DEF MemLoop, pool
      <3>2. \A u \in new : u = t
        BY DEF IInv, CallConsistent
      <3> QED  BY <3>1, <3>2 DEF LimInv, LimitsRespected
    <2> QED  BY <2>1, <2>2
  <1>5. ASSUME NEW t \in new, AddToQueue(t) PROVE LimInv'
    BY <1>5, AddKeepsLimits
  <1>6. ASSUME Clear PROVE LimInv'
    <2>1. /\ DOMAIN by_hash' = {} /\ mem_usage' = 0 /\ DOMAIN transactions' = {}
          /\ pc' = "idle"
      BY <1>6 DEF Clear, idle
    <2>2. Cardinality({}) = 0
      BY FS_EmptySet
    <2> QED  BY <2>1, <2>2, OptionsAssumption DEF LimInv, LimitsRespected
  <1>7. ASSUME NEW t \in Txs, Import(t) PROVE LimInv'
    BY <1>1, <1>7 DEF Import
  <1>8. ASSUME NEW t \in Txs, RemoveByHash(t) PROVE LimInv'
    <2> DEFINE s == Sender[t]
    <2>1. PICK q \in RemoveTransaction(QueueOf(s), t) : SetQueue(s, q)
      BY <1>8 DEF RemoveByHash
    <2>2. t \in DOMAIN by_hash /\ FinalizeRemove({t}) /\ pc' = "idle"
      BY <1>8 DEF RemoveByHash, idle
    <2>3. s \in Senders
      BY SenderAssumption
    <2>4. by_hash[t] \in Pooled /\ by_hash[t].tx = t
      BY <2>2 DEF IInv, HashGood
    <2>5. by_hash[t] \in Elems(QueueOf(s).transactions) /\ GoodQueue(QueueOf(s), s)
      BY <2>3, <2>4, PooledBySender DEF IInv
    <2>6. GoodQueue(q, s) /\ Len(q.transactions) <= Len(QueueOf(s).transactions)
      BY <2>1, <2>4, <2>5, RemoveFacts, RemoveLength
    <2>7. Len(QueueOf(s).transactions) <= max_per_sender
      BY <1>2, <2>5, DefaultFacts DEF SendersLimited, QueueOf
    <2>8. Len(q.transactions) \in Nat /\ Len(QueueOf(s).transactions) \in Nat
      BY <2>5, <2>6 DEF GoodQueue, GoodSeq
    <2>9. Len(q.transactions) <= max_per_sender
      BY <2>6, <2>7, <2>8, OptionsAssumption
    <2>10. SendersLimited'
      BY <1>2, <2>1, <2>9, SetQueueLimited
    <2> QED  BY <2>2, <2>10, RemovalKeepsLimits
  <1>9. ASSUME NEW s \in Senders, ScoringEvent(s) PROVE LimInv'
    <2>1. /\ s \in DOMAIN transactions /\ SetQueue(s, UpdateScores(transactions[s]))
          /\ UNCHANGED <<by_hash, mem_usage>> /\ pc' = "idle"
      BY <1>9 DEF ScoringEvent, idle
    <2>2. UpdateScores(transactions[s]).transactions = transactions[s].transactions
      BY DEF UpdateScores, Rescored
    <2>3. Len(UpdateScores(transactions[s]).transactions) <= max_per_sender
      BY <1>2, <2>1, <2>2 DEF SendersLimited
    <2>4. SendersLimited'
      BY <1>2, <2>1, <2>3, SetQueueLimited
    <2> QED  BY <2>1, <2>4 DEF LimInv, LimitsRespected, SendersLimited
  <1>10. ASSUME NEW s \in Senders, RemoveStalled(s) PROVE LimInv'
    <2>1. PICK n \in 0..Len(QueueOf(s).transactions) :
              /\ IF s \in DOMAIN transactions
                 THEN SetQueue(s, CullStalled(transactions[s], n))
                 ELSE UNCHANGED <<transactions, best_transactions, worst_transactions>>
              /\ FinalizeRemove({QueueOf(s).transactions[i].tx : i \in 1..n})
      BY <1>10 DEF RemoveStalled
    <2>2. pc' \notin {"mem", "add"}
      BY <1>10 DEF RemoveStalled
    <2>3. CASE s \in DOMAIN transactions
      <3>1. QueueOf(s) = transactions[s] /\ GoodQueue(transactions[s], s)
        BY <2>3 DEF QueueOf, IInv, QueuesGood
      <3> DEFINE c == CullStalled(transactions[s], n)
      <3>2. n \in 0..Len(transactions[s].transactions)
        BY <3>1
      <3>3. GoodQueue(c, s) /\ Len(c.transactions) <= Len(transactions[s].transactions)
        BY <3>1, <3>2, CullFacts, CullLength
      <3>4. SetQueue(s, c)
        BY <2>1, <2>3
      <3> HIDE DEF c
      <3>5. Len(c.transactions) \in Nat /\ Len(transactions[s].transactions) \in Nat
        BY <3>1, <3>3 DEF GoodQueue, GoodSeq
      <3>6. Len(c.transactions) <= max_per_sender
        BY <1>2, <2>3, <3>3, <3>5, OptionsAssumption DEF SendersLimited
      <3>7. SendersLimited'
        BY <1>2, <3>4, <3>6, SetQueueLimited
      <3> QED  BY <2>1, <2>2, <3>7, RemovalKeepsLimits
    <2>4. CASE s \notin DOMAIN transactions
      <3>1. SendersLimited'
        BY <1>2, <2>1, <2>4 DEF SendersLimited
      <3> QED  BY <2>1, <2>2, <3>1, RemovalKeepsLimits
    <2> QED  BY <2>3, <2>4
  <1>11. ASSUME \E list \in SUBSET Senders : CullSenders(list) PROVE LimInv'
    BY <1>1, <1>11 DEF CullSenders
  <1>12. ASSUME UNCHANGED vars PROVE LimInv'
    BY <1>12 DEF vars, pool, LimInv, LimitsRespected
  <1> QED
    BY <1>3, <1>4, <1>5, <1>6, <1>7, <1>8, <1>9, <1>10, <1>11, <1>12 DEF Next, ImportStep

(***************************************************************************)
(* max_count, max_mem_usage and max_per_sender hold after every step, also *)
(* in the middle of an import that is still evicting, when should_replace  *)
(* decides every time (Choice::InsertNew lets import through on purpose)   *)
(* and no transaction ignores the sender limit.                            *)
(***************************************************************************)
THEOREM LimitsStayRespected ==
    ASSUME AlwaysDecides, IgnoresSenderLimit = {}
    PROVE  Spec => []LimitsRespected
  <1>1. Init => MemInv /\ LimInv
    <2> SUFFICES ASSUME Init PROVE MemInv /\ LimInv
      OBVIOUS
    <2>1. DOMAIN by_hash = {} /\ mem_usage = 0 /\ DOMAIN transactions = {} /\ pc = "idle"
      BY DEF Init
    <2>2. IsFiniteSet({}) /\ TotalMem({}) = 0 /\ Cardinality({}) = 0
      BY FS_EmptySet, TotalUnfold
    <2> QED
      BY <2>1, <2>2, OptionsAssumption DEF MemInv, MemUsageExact, LimInv, LimitsRespected
  <1>2. IInv /\ MemInv /\ [Next]_vars => MemInv'
    BY NextKeepsMem
  <1>3. IInv /\ MemInv /\ LimInv /\ [Next]_vars => LimInv'
    BY NextKeepsLimits
  <1>4. LimInv => LimitsRespected
    BY DEF LimInv
  <1> QED
    BY <1>1, <1>2, <1>3, <1>4, InitConsistent, NextConsistent, PTL DEF Spec
------------------------------------------------------------------------------
(* Scoring::choose lets a new transaction replace one of the same slot only. *)
ReplacesSameSlot ==
    \A old, tx \in Txs : Choose(old, tx) = "ReplaceOld" => Nonce[old] = Nonce[tx]

(* add pushes out the last transaction of the queue it leaves, or replaces one of equal nonce. *)
LEMMA AddOrder ==
    ASSUME ReplacesSameSlot, NEW s, NEW q, GoodQueue(q, s), NEW m \in Nat \ {0},
           NEW t \in Transaction, Sender[t.tx] = s, NEW r \in Add(q, t, m),
           r.result \in {"Ok", "PushedOut", "Replaced"}, NEW o \in r.old
    PROVE  \/ \A x \in Elems(r.queue.transactions) : Nonce[x.tx] < Nonce[o.tx]
           \/ Nonce[t.tx] = Nonce[o.tx]
  <1> DEFINE txs == q.transactions
  <1>1. /\ GoodSeq(txs, s)
        /\ txs \in Seq(Transaction) /\ Len(txs) \in Nat /\ DOMAIN txs = 1..Len(txs)
    BY DEF GoodQueue, GoodSeq
  <1>2. PICK i \in SearchOk(q, t.tx) \cup SearchErr(q, t.tx) : r = AddAt(q, t, i, m)
    BY DEF Add
  <1>3. i # Len(txs) + 1
    <2>1. PushCheapestTransaction(q, t, m).old = {}
      BY DEF PushCheapestTransaction, AddResult
    <2> QED  BY <1>2, <2>1 DEF AddAt
  <1>4. i \in 1..Len(txs)
    BY <1>1, <1>3 DEF SearchOk, SearchErr
  <1>5. txs[i].tx \in Txs /\ t.tx \in Txs
    <2>1. txs[i] \in Transaction /\ t \in Transaction
      BY <1>1, <1>4, ElementOfSeq
    <2> QED  BY ONLY <2>1 DEF Transaction
  <1> DEFINE choice == Choose(txs[i].tx, t.tx)
  <1>6. choice \in Choice
    BY <1>5, ChooseAssumption
  <1>7. CASE choice = "RejectNew"
    BY <1>2, <1>3, <1>7 DEF AddAt, AddResult
  <1>8. CASE choice = "InsertNew"
    <2> DEFINE u == InsertAt(txs, i, t)
    <2>1. r = InsertNew(q, t, i, m)
      BY <1>2, <1>3, <1>8 DEF AddAt
    <2>2. i \in SearchErr(q, t.tx)
      BY <1>1, <1>4, <1>5, <1>8, ChooseAssumption DEF SearchOk, NonceAt
    <2>3. /\ \A j \in 1..(i - 1) : Nonce[txs[j].tx] < Nonce[t.tx]
          /\ \A j \in i..Len(txs) : Nonce[txs[j].tx] > Nonce[t.tx]
      BY <2>2 DEF SearchErr, NonceAt
    <2>4. GoodSeq(u, s) /\ Len(u) = Len(txs) + 1
      <3>1. i \in 1..(Len(txs) + 1)
        BY <1>1, <1>4
      <3>2. t \in Transaction /\ Sender[t.tx] = s
        OBVIOUS
      <3> HIDE DEF txs
      <3> QED  BY ONLY <1>1, <2>3, <3>1, <3>2, GoodSeqInsert
    <2>5. r.queue.transactions = Front(u) /\ r.old = {Last(u)}
      <3>1. CASE Len(u) > m
        BY <2>1, <3>1 DEF InsertNew, AddResult, Rescored
      <3>2. CASE ~(Len(u) > m)
        BY <2>1, <3>2 DEF InsertNew, AddResult, Rescored
      <3> QED  BY <3>1, <3>2
    <2> HIDE DEF u
    <2>6. u \in Seq(Transaction) /\ u # <<>> /\ Len(u) \in Nat \ {0}
      BY <1>1, <2>4 DEF GoodSeq
    <2>7. /\ Len(Front(u)) = Len(u) - 1
          /\ \A j \in 1..(Len(u) - 1) : Front(u)[j] = u[j]
      BY <2>6, FrontFacts
    <2>8. ASSUME NEW j \in 1..(Len(u) - 1) PROVE Nonce[Front(u)[j].tx] < Nonce[u[Len(u)].tx]
      BY <2>4, <2>6, <2>7 DEF GoodSeq
    <2>9. o = u[Len(u)]
      BY <2>5 DEF Last
    <2> QED  BY <2>5, <2>7, <2>8, <2>9 DEF Elems
  <1>9. CASE choice = "ReplaceOld"
    <2>1. r.old = {txs[i]}
      BY <1>2, <1>3, <1>9 DEF AddAt, ReplaceOld, AddResult
    <2> QED  BY <1>5, <1>9, <2>1 DEF ReplacesSameSlot
  <1> QED  BY <1>6, <1>7, <1>8, <1>9 DEF Choice

(* What by_hash holds of a sender after its queue was replaced is in the new queue. *)
LEMMA NowQueued ==
    ASSUME QueuesGood', HashGood', NEW s, NEW q, SetQueue(s, q),
           NEW u \in DOMAIN by_hash', Sender[u] = s
    PROVE  \E x \in Elems(q.transactions) : x.tx = u
  <1>1. by_hash'[u] \in Pooled' /\ by_hash'[u].tx = u
    BY DEF HashGood
  <1>2. PICK z \in DOMAIN transactions' : by_hash'[u] \in Elems(transactions'[z].transactions)
    BY <1>1 DEF Pooled
  <1>3. z = s
    BY <1>1, <1>2 DEF QueuesGood, GoodQueue, GoodSeq, Elems
  <1>4. s \in DOMAIN transactions' => transactions'[s] = q
    BY DEF SetQueue, Restrict
  <1> QED  BY <1>1, <1>2, <1>3, <1>4

(* An entry of worst_transactions is the last of its sender's queue. *)
LEMMA WorstIsLast ==
    ASSUME IInv, NEW e \in worst_transactions
    PROVE  LET txs == transactions[Sender[e.transaction.tx]].transactions
           IN  e.transaction = txs[Len(txs)]
  <1>1. PICK s \in DOMAIN transactions : e \in WorstOf(transactions[s])
    BY DEF IInv, OrderedSetsExact
  <1>2. GoodQueue(transactions[s], s) /\ Len(transactions[s].transactions) > 0
    BY DEF IInv, QueuesGood
  <1>3. e = EntryAt(transactions[s], Len(transactions[s].transactions))
    BY <1>1, <1>2, EntriesOf DEF GoodQueue
  <1>4. e.transaction \in Elems(transactions[s].transactions)
    BY <1>1, <1>2, EntriesAreRefs
  <1>5. Sender[e.transaction.tx] = s
    BY <1>2, <1>4 DEF GoodQueue, GoodSeq, Elems
  <1> QED  BY <1>3, <1>5 DEF EntryAt

(* A round of import's loops takes out a sender's last transaction, or none. *)
LEMMA EvictionOrder ==
    ASSUME IInv, IInv', NEW t, NEW next, RemoveWorst(t, next), NEW g \in Left
    PROVE  \A u \in SameSender(g) : Nonce[u] < Nonce[g]
  <1>1. CASE UNCHANGED by_hash
    BY <1>1 DEF Left
  <1>2. CASE ~ UNCHANGED by_hash
    <2>1. PICK worst \in worst_transactions :
              /\ \E q \in RemoveTransaction(QueueOf(Sender[worst.transaction.tx]),
                                            worst.transaction.tx) :
                    SetQueue(Sender[worst.transaction.tx], q)
              /\ FinalizeRemove({worst.transaction.tx})
      BY <1>2 DEF RemoveWorst, Rejected, Undecided, pool
    <2> DEFINE old == worst.transaction
               s == Sender[old.tx]
               txs == transactions[s].transactions
    <2>2. PICK q \in RemoveTransaction(QueueOf(s), old.tx) : SetQueue(s, q)
      BY <2>1
    <2>3. /\ s \in DOMAIN transactions /\ old \in Elems(txs) /\ old = txs[Len(txs)]
      BY WorstIsPooled, WorstIsLast
    <2>4. QueueOf(s) = transactions[s] /\ GoodQueue(transactions[s], s)
      BY <2>3 DEF QueueOf, IInv, QueuesGood
    <2>5. g = old.tx
      <3>1. by_hash' = [h \in DOMAIN by_hash \ {old.tx} |-> by_hash[h]]
        BY <2>1, FinalizeRemoveDomain
      <3> QED  BY <3>1 DEF Left
    <2>6. QueuesGood' /\ HashGood'
      BY DEF IInv
    <2> HIDE DEF old, s
    <2>7. Elems(q.transactions) = Elems(txs) \ {old}
      <3>1. /\ q \in RemoveTransaction(transactions[s], old.tx)
            /\ GoodQueue(transactions[s], s) /\ old \in Elems(transactions[s].transactions)
        BY <2>2, <2>3, <2>4
      <3>2. Elems(q.transactions) = Elems(transactions[s].transactions) \ {old}
        BY ONLY <3>1, RemoveFacts
      <3> QED  BY <3>2
    <2>8. ASSUME NEW x \in Elems(txs) \ {old} PROVE Nonce[x.tx] < Nonce[old.tx]
      <3>1. PICK j \in 1..Len(txs) : x = txs[j]
        BY DEF Elems
      <3>2. GoodSeq(txs, s) /\ Len(txs) \in Nat
        BY <2>4 DEF GoodQueue, GoodSeq
      <3>3. j < Len(txs) /\ Len(txs) \in 1..Len(txs)
        BY <2>3, <2>8, <3>1, <3>2
      <3>4. Nonce[txs[j].tx] < Nonce[txs[Len(txs)].tx]
        BY <3>2, <3>3 DEF GoodSeq
      <3> QED  BY <2>3, <3>1, <3>4
    <2>9. ASSUME NEW u \in SameSender(g) PROVE Nonce[u] < Nonce[g]
      <3>1. u \in DOMAIN by_hash' /\ Sender[u] = s
        BY <2>5 DEF SameSender, s
      <3>2. PICK x \in Elems(q.transactions) : x.tx = u
        BY <2>2, <2>6, <3>1, NowQueued
      <3> QED  BY <2>5, <2>7, <2>8, <3>2
    <2> QED  BY <2>9
  <1> QED  BY <1>1, <1>2

(* The end of import drops the sender's last transaction or the one it replaces. *)
LEMMA AddDropsInOrder ==
    ASSUME ReplacesSameSlot, IInv, IInv', NEW t \in new, AddToQueue(t), NEW g \in Left
    PROVE  \/ \A u \in SameSender(g) : Nonce[u] < Nonce[g]
           \/ \E u \in SameSender(g) \ DOMAIN by_hash : Nonce[u] = Nonce[g]
  <1> DEFINE s == Sender[t.tx]
             q == QueueOf(s)
  <1>1. t \in Transaction /\ t.tx \in Txs /\ t.tx \notin DOMAIN by_hash /\ s \in Senders
    BY AddEffect, SenderAssumption
  <1>2. PICK r \in Add(q, t, max_per_sender) :
            /\ GoodQueue(q, s)
            /\ SetQueue(s, r.queue)
            /\ \/ /\ r.result \in {"Ok", "PushedOut", "Replaced"}
                  /\ r.old \subseteq Elems(q.transactions)
                  /\ FinalizeInsert(t, r.old)
               \/ UNCHANGED by_hash
    BY AddEffect
  <1>3. /\ r.result \in {"Ok", "PushedOut", "Replaced"}
        /\ r.old \subseteq Elems(q.transactions)
        /\ FinalizeInsert(t, r.old)
    BY <1>2 DEF Left
  <1>4. DOMAIN by_hash' = (DOMAIN by_hash \cup {t.tx}) \ {o.tx : o \in r.old}
    BY <1>3 DEF FinalizeInsert
  <1>5. PICK o \in r.old : o.tx = g
    BY <1>4 DEF Left
  <1>6. Sender[g] = s /\ g \in DOMAIN by_hash
    <2>1. o \in Elems(q.transactions)
      BY <1>3, <1>5
    <2> QED  BY <1>2, <1>5, <2>1 DEF GoodQueue, GoodSeq, Elems, Left
  <1>7. t.tx \in DOMAIN by_hash'
    <2>1. ASSUME NEW p \in r.old PROVE p.tx \in DOMAIN by_hash
      <3>1. p \in Pooled
        BY <1>1, <1>3, PooledBySender DEF IInv
      <3> QED  BY <3>1 DEF IInv, HashGood
    <2> QED  BY <1>1, <1>4, <2>1
  <1>8. QueuesGood' /\ HashGood'
    BY DEF IInv
  <1>9. t.tx \in SameSender(g) \ DOMAIN by_hash
    BY <1>1, <1>6, <1>7 DEF SameSender
  <1> HIDE DEF q
  <1>10. \/ \A x \in Elems(r.queue.transactions) : Nonce[x.tx] < Nonce[o.tx]
         \/ Nonce[t.tx] = Nonce[o.tx]
    BY <1>1, <1>2, <1>3, <1>5, AddOrder, OptionsAssumption
  <1>11. ASSUME \A x \in Elems(r.queue.transactions) : Nonce[x.tx] < Nonce[o.tx],
                NEW u \in SameSender(g)
         PROVE  Nonce[u] < Nonce[g]
    <2>1. u \in DOMAIN by_hash' /\ Sender[u] = s
      BY <1>6 DEF SameSender
    <2>2. SetQueue(s, r.queue)
      BY <1>2
    <2> HIDE DEF s
    <2>3. \E x \in Elems(r.queue.transactions) : x.tx = u
      BY <1>8, <2>1, <2>2, NowQueued
    <2> QED  BY <1>5, <1>11, <2>3
  <1> QED  BY <1>5, <1>9, <1>10, <1>11

(* remove_stalled takes the transactions before all that stay. *)
LEMMA CullOrder ==
    ASSUME IInv, IInv', NEW s \in Senders, RemoveStalled(s), NEW g \in Left
    PROVE  \A u \in SameSender(g) : Nonce[u] > Nonce[g]
  <1> DEFINE txs == QueueOf(s).transactions
  <1>1. PICK n \in 0..Len(txs) :
            /\ IF s \in DOMAIN transactions
               THEN SetQueue(s, CullStalled(transactions[s], n))
               ELSE UNCHANGED <<transactions, best_transactions, worst_transactions>>
            /\ FinalizeRemove({txs[i].tx : i \in 1..n})
    BY DEF RemoveStalled
  <1>2. PICK k \in 1..n : g = txs[k].tx
    <2>1. by_hash' = [h \in DOMAIN by_hash \ {txs[i].tx : i \in 1..n} |-> by_hash[h]]
      BY <1>1, FinalizeRemoveDomain
    <2> QED  BY <2>1 DEF Left
  <1>3. s \in DOMAIN transactions
    <2>1. s \notin DOMAIN transactions => Len(txs) = 0
      BY DEF QueueOf, Default
    <2> QED  BY <1>1, <1>2, <2>1
  <1>4. QueueOf(s) = transactions[s] /\ GoodQueue(QueueOf(s), s)
    BY <1>3, PooledBySender DEF QueueOf, IInv
  <1> DEFINE c == CullStalled(QueueOf(s), n)
  <1>5. SetQueue(s, c)
    BY <1>1, <1>3, <1>4
  <1>6. Elems(c.transactions) = Elems(txs) \ {txs[i] : i \in 1..n}
    BY <1>4, CullFacts
  <1>7. GoodSeq(txs, s) /\ Len(txs) \in Nat
    BY <1>4 DEF GoodQueue, GoodSeq
  <1> HIDE DEF txs, c
  <1>8. k \in 1..Len(txs) /\ Sender[g] = s
    BY <1>1, <1>2, <1>7 DEF GoodSeq
  <1>9. ASSUME NEW u \in SameSender(g) PROVE Nonce[u] > Nonce[g]
    <2>1. u \in DOMAIN by_hash' /\ Sender[u] = s
      BY <1>8 DEF SameSender
    <2>2. QueuesGood' /\ HashGood'
      BY DEF IInv
    <2>3. PICK x \in Elems(c.transactions) : x.tx = u
      BY <1>5, <2>1, <2>2, NowQueued
    <2>4. PICK j \in 1..Len(txs) : x = txs[j] /\ j \notin 1..n
      BY <1>6, <2>3 DEF Elems
    <2>5. k < j
      BY <1>1, <1>2, <1>7, <2>4
    <2>6. Nonce[txs[k].tx] < Nonce[txs[j].tx]
      BY <1>7, <1>8, <2>4, <2>5 DEF GoodSeq
    <2>7. Nonce[txs[k].tx] \in Int /\ Nonce[txs[j].tx] \in Int
      <3>1. txs[k] \in Transaction /\ txs[j] \in Transaction
        BY <1>7, <1>8, <2>4, ElementOfSeq DEF GoodSeq
      <3> QED  BY <3>1, NonceAssumption DEF Transaction
    <2> QED  BY <1>2, <2>3, <2>4, <2>6, <2>7
  <1> QED  BY <1>9

(***************************************************************************)
(* What leaves the pool leaves a gap-free rest of the sender's             *)
(* transactions: eviction and pushing out take the last one, cull takes    *)
(* those before all that stay, and a replacement fills the slot, for every *)
(* Scoring whose choose replaces within one slot.                          *)
(***************************************************************************)
THEOREM RemovalsStayInOrder ==
    ASSUME ReplacesSameSlot
    PROVE  Spec => RemovalsKeepOrder
  <1> DEFINE InOrder ==
                 \A t \in Left :
                    /\ pc \in {"count", "mem"} => \A u \in SameSender(t) : Nonce[u] < Nonce[t]
                    /\ pc = "add" => \/ \A u \in SameSender(t) : Nonce[u] < Nonce[t]
                                     \/ \E u \in SameSender(t) \ DOMAIN by_hash : Nonce[u] = Nonce[t]
                    /\ pc = "cull" => \A u \in SameSender(t) : Nonce[u] > Nonce[t]
  <1>1. IInv /\ IInv' /\ [Next]_vars => [InOrder]_vars
    <2> SUFFICES ASSUME IInv, IInv', Next, NEW g \in Left
                 PROVE  /\ pc \in {"count", "mem"} => \A u \in SameSender(g) : Nonce[u] < Nonce[g]
                        /\ pc = "add" => \/ \A u \in SameSender(g) : Nonce[u] < Nonce[g]
                                         \/ \E u \in SameSender(g) \ DOMAIN by_hash :
                                               Nonce[u] = Nonce[g]
                        /\ pc = "cull" => \A u \in SameSender(g) : Nonce[u] > Nonce[g]
      OBVIOUS
    <2>1. CASE pc = "idle"
      BY <2>1
    <2>2. ASSUME NEW t \in new, CountLoop(t) \/ MemLoop(t)
          PROVE  pc \in {"count", "mem"} /\ \A u \in SameSender(g) : Nonce[u] < Nonce[g]
      <3>1. \/ \E next : RemoveWorst(t, next)
            \/ UNCHANGED by_hash
        BY <2>2 DEF CountLoop, MemLoop, pool
      <3>2. UNCHANGED by_hash => FALSE
        BY DEF Left
      <3> QED  BY <2>2, <3>1, <3>2, EvictionOrder DEF CountLoop, MemLoop
    <2>3. ASSUME NEW t \in new, AddToQueue(t)
          PROVE  /\ pc = "add"
                 /\ \/ \A u \in SameSender(g) : Nonce[u] < Nonce[g]
                    \/ \E u \in SameSender(g) \ DOMAIN by_hash : Nonce[u] = Nonce[g]
      BY <2>3, AddDropsInOrder DEF AddToQueue
    <2>4. ASSUME NEW s \in Senders, RemoveStalled(s)
          PROVE  pc = "cull" /\ \A u \in SameSender(g) : Nonce[u] > Nonce[g]
      BY <2>4, CullOrder DEF RemoveStalled
    <2>5. \/ pc = "idle" \/ ImportStep \/ \E s \in Senders : RemoveStalled(s)
      BY DEF Next, Import, RemoveByHash, Clear, ScoringEvent, CullSenders, idle
    <2> QED  BY <2>1, <2>2, <2>3, <2>4, <2>5 DEF ImportStep
  <1> HIDE DEF InOrder
  <1>2. Spec => [][InOrder]_vars
    BY <1>1, InitConsistent, NextConsistent, PTL DEF Spec
  <1> QED
    BY <1>2 DEF RemovalsKeepOrder, InOrder
------------------------------------------------------------------------------
(* A Scoring that, as Change's documentation invites, writes a score only where told to. *)
LazyScoring ==
    \A txs \in Seq(Transaction) : \A scores, kind, index :
        \A i \in 1..Len(txs) :
            ScoreAt(txs, scores, [kind |-> kind, index |-> index], i) =
                IF kind \in {"InsertedAt", "ReplacedAt"} /\ index = i - 1
                THEN ScoreOf[txs[i].tx]
                ELSE scores[i]

(* ScoresFollow, for one queue. *)
Follows(q) == \A i \in 1..Len(q.transactions) : q.scores[i] = ScoreOf[q.transactions[i].tx]

(* A queue's scores are a vector as long as its transactions. *)
LEMMA ScoreVector ==
    ASSUME NEW q, IsQueue(q)
    PROVE  \E T : DefaultScore \in T /\ q.scores \in Seq(T) /\ Len(q.scores) = Len(q.transactions)
  <1> DEFINE T == {q.scores[i] : i \in 1..Len(q.transactions)} \cup {DefaultScore}
  <1>1. /\ Len(q.transactions) \in Nat
        /\ q.scores = [i \in 1..Len(q.transactions) |-> q.scores[i]]
    BY DEF IsQueue
  <1>2. \A i \in 1..Len(q.transactions) : q.scores[i] \in T
    OBVIOUS
  <1> HIDE DEF T
  <1>3. q.scores \in [1..Len(q.transactions) -> T]
    BY <1>1, <1>2
  <1>4. q.scores \in Seq(T) /\ Len(q.scores) = Len(q.transactions)
    BY <1>1, <1>3
  <1>5. DefaultScore \in T
    BY DEF T
  <1> QED  BY <1>4, <1>5

(* update_scores leaves a queue whose scores follow, if the shifted scores did where not told. *)
LEMMA RescoredFollows ==
    ASSUME LazyScoring, NEW txs \in Seq(Transaction), NEW scores, NEW kind, NEW index,
           \A i \in 1..Len(txs) : \/ kind \in {"InsertedAt", "ReplacedAt"} /\ index = i - 1
                                  \/ scores[i] = ScoreOf[txs[i].tx]
    PROVE  Follows(Rescored(txs, scores, kind, index))
  <1> DEFINE out == Rescored(txs, scores, kind, index)
  <1>1. /\ out.transactions = txs
        /\ \A i \in 1..Len(txs) :
              out.scores[i] = ScoreAt(txs, scores, [kind |-> kind, index |-> index], i)
    BY DEF Rescored
  <1>2. \A i \in 1..Len(txs) :
            ScoreAt(txs, scores, [kind |-> kind, index |-> index], i) =
                IF kind \in {"InsertedAt", "ReplacedAt"} /\ index = i - 1
                THEN ScoreOf[txs[i].tx]
                ELSE scores[i]
    BY DEF LazyScoring
  <1> HIDE DEF out
  <1> QED  BY <1>1, <1>2 DEF Follows, out

(* Transactions::add shifts the scores along with the transactions. *)
LEMMA AddFollows ==
    ASSUME LazyScoring, NEW s, NEW q, GoodQueue(q, s), Follows(q), NEW m \in Nat \ {0},
           NEW t \in Transaction, NEW r \in Add(q, t, m)
    PROVE  Follows(r.queue)
  <1> DEFINE txs == q.transactions
             scs == q.scores
  <1>1. txs \in Seq(Transaction) /\ Len(txs) \in Nat /\ DOMAIN txs = 1..Len(txs)
    BY DEF GoodQueue, GoodSeq
  <1>2. PICK T : DefaultScore \in T /\ scs \in Seq(T) /\ Len(scs) = Len(txs)
    BY ScoreVector DEF GoodQueue
  <1>3. \A i \in 1..Len(txs) : scs[i] = ScoreOf[txs[i].tx]
    BY DEF Follows
  <1>4. PICK i \in SearchOk(q, t.tx) \cup SearchErr(q, t.tx) : r = AddAt(q, t, i, m)
    BY DEF Add
  <1>5. CASE i = Len(txs) + 1
    <2>1. r = PushCheapestTransaction(q, t, m)
      BY <1>4, <1>5 DEF AddAt
    <2>2. CASE r.queue = q
      BY <2>2
    <2>3. CASE r.queue = Rescored(Append(txs, t), Append(scs, DefaultScore), "InsertedAt", Len(txs))
      <3> HIDE DEF txs, scs
      <3>1. /\ Append(txs, t) \in Seq(Transaction) /\ Len(Append(txs, t)) = Len(txs) + 1
            /\ \A j \in 1..Len(txs) : Append(txs, t)[j] = txs[j]
        BY <1>1
      <3>2. \A j \in 1..Len(txs) : Append(scs, DefaultScore)[j] = scs[j]
        BY <1>1, <1>2
      <3>3. ASSUME NEW j \in 1..(Len(txs) + 1)
            PROVE  \/ Len(txs) = j - 1
                   \/ Append(scs, DefaultScore)[j] = ScoreOf[Append(txs, t)[j].tx]
        <4>1. CASE j \in 1..Len(txs)
          BY <1>3, <3>1, <3>2, <4>1
        <4>2. CASE j \notin 1..Len(txs)
          BY <1>1, <4>2
        <4> QED  BY <4>1, <4>2
      <3> DEFINE u == Append(txs, t)
                 v == Append(scs, DefaultScore)
      <3>4. /\ u \in Seq(Transaction)
            /\ \A j \in 1..Len(u) : \/ "InsertedAt" \in {"InsertedAt", "ReplacedAt"} /\ Len(txs) = j - 1
                                    \/ v[j] = ScoreOf[u[j].tx]
        BY <3>1, <3>3
      <3> HIDE DEF u, v
      <3>5. Follows(Rescored(u, v, "InsertedAt", Len(txs)))
        BY <3>4, RescoredFollows
      <3> QED  BY <2>3, <3>5 DEF u, v
    <2> QED  BY <2>1, <2>2, <2>3 DEF PushCheapestTransaction, AddResult
  <1>6. CASE i # Len(txs) + 1
    <2>1. i \in 1..Len(txs)
      BY <1>1, <1>6 DEF SearchOk, SearchErr
    <2> DEFINE choice == Choose(txs[i].tx, t.tx)
    <2>2. choice \in Choice
      <3>1. txs[i] \in Transaction /\ t \in Transaction
        BY <1>1, <2>1, ElementOfSeq
      <3>2. txs[i].tx \in Txs /\ t.tx \in Txs
        BY ONLY <3>1 DEF Transaction
      <3> QED  BY <3>2, ChooseAssumption
    <2>3. CASE choice = "RejectNew"
      BY <1>4, <1>6, <2>3 DEF AddAt, AddResult
    <2>4. CASE choice = "InsertNew"
      <3> DEFINE u == InsertAt(txs, i, t)
                 v == InsertAt(scs, i, DefaultScore)
                 grown == Rescored(u, v, "InsertedAt", i - 1)
                 w == Front(grown.scores)
      <3>1. i \in 1..(Len(txs) + 1) /\ t \in Transaction
        BY <1>1, <2>1
      <3>2. /\ u \in Seq(Transaction) /\ Len(u) = Len(txs) + 1
            /\ \A j \in 1..(Len(txs) + 1) :
                  u[j] = IF j < i THEN txs[j] ELSE IF j = i THEN t ELSE txs[j - 1]
        <4> HIDE DEF txs
        <4> QED  BY ONLY <1>1, <3>1, InsertAtFacts
      <3>3. \A j \in 1..(Len(txs) + 1) :
                v[j] = IF j < i THEN scs[j] ELSE IF j = i THEN DefaultScore ELSE scs[j - 1]
        <4>1. i \in 1..(Len(scs) + 1)
          BY <1>2, <3>1
        <4> HIDE DEF scs
        <4>2. \A j \in 1..(Len(scs) + 1) :
                  v[j] = IF j < i THEN scs[j] ELSE IF j = i THEN DefaultScore ELSE scs[j - 1]
          BY ONLY <1>2, <4>1, InsertAtFacts
        <4> QED  BY <1>2, <4>2
      <3>4. r = InsertNew(q, t, i, m)
        BY <1>4, <1>6, <2>4 DEF AddAt
      <3>5. /\ Len(u) > m => r.queue = Rescored(Front(u), w, "RemovedAt", Len(u) - 1)
            /\ ~(Len(u) > m) => r.queue = grown
        <4>1. grown.transactions = u
          BY DEF Rescored
        <4>2. CASE Len(u) > m
          <5>1. r = AddResult("PushedOut", Rescored(Front(u), w, "RemovedAt", Len(u) - 1), {Last(u)})
            BY <3>4, <4>1, <4>2 DEF InsertNew
          <5> QED  BY <4>2, <5>1 DEF AddResult
        <4>3. CASE ~(Len(u) > m)
          <5>1. r = AddResult("Ok", grown, {})
            BY <3>4, <4>1, <4>3 DEF InsertNew
          <5> QED  BY <4>3, <5>1 DEF AddResult
        <4> QED  BY <4>2, <4>3
      <3> HIDE DEF txs, scs, u, v
      <3>6. ASSUME NEW j \in 1..Len(u) PROVE i - 1 = j - 1 \/ v[j] = ScoreOf[u[j].tx]
        <4>1. CASE j < i
          BY <1>1, <1>3, <2>1, <3>2, <3>3, <4>1
        <4>2. CASE j > i
          <5>1. j - 1 \in 1..Len(txs) /\ u[j] = txs[j - 1] /\ v[j] = scs[j - 1]
            BY <1>1, <2>1, <3>2, <3>3, <4>2
          <5> QED  BY <1>3, <5>1
        <4>3. CASE j = i
          BY <4>3
        <4> QED  BY <1>1, <2>1, <3>2, <4>1, <4>2, <4>3
      <3>7. Follows(grown)
        BY <3>2, <3>6, RescoredFollows
      <3>8. CASE Len(u) > m
        <4>1. IsQueue(grown) /\ grown.transactions = u
          BY <3>2, RescoredFacts
        <4> HIDE DEF grown
        <4>2. PICK V : grown.scores \in Seq(V) /\ Len(grown.scores) = Len(u)
          BY <4>1, ScoreVector
        <4>3. Len(u) \in Nat \ {0} /\ u # <<>> /\ grown.scores # <<>>
          BY <1>1, <3>2, <4>2
        <4>4. \A j \in 1..(Len(u) - 1) : w[j] = grown.scores[j]
          BY <4>2, <4>3, FrontFacts
        <4>5. /\ Front(u) \in Seq(Transaction) /\ Len(Front(u)) = Len(u) - 1
              /\ \A j \in 1..(Len(u) - 1) : Front(u)[j] = u[j]
          BY <3>2, <4>3, FrontFacts
        <4>6. ASSUME NEW j \in 1..Len(Front(u)) PROVE w[j] = ScoreOf[Front(u)[j].tx]
          <5>1. j \in 1..(Len(u) - 1) /\ j \in 1..Len(u)
            BY <4>3, <4>5
          <5>2. grown.scores[j] = ScoreOf[u[j].tx]
            BY <3>7, <4>1, <5>1 DEF Follows
          <5> QED  BY <4>4, <4>5, <5>1, <5>2
        <4> HIDE DEF w
        <4>7. Follows(Rescored(Front(u), w, "RemovedAt", Len(u) - 1))
          BY <4>5, <4>6, RescoredFollows
        <4> QED  BY <3>5, <3>8, <4>7
      <3> QED  BY <3>5, <3>7, <3>8
    <2>5. CASE choice = "ReplaceOld"
      <3> DEFINE u == ReplaceAt(txs, i, t)
      <3>1. r.queue = Rescored(u, scs, "ReplacedAt", i - 1)
        BY <1>4, <1>6, <2>5 DEF AddAt, ReplaceOld, AddResult
      <3>2. /\ u \in Seq(Transaction) /\ Len(u) = Len(txs)
            /\ \A j \in 1..Len(txs) : u[j] = IF j = i THEN t ELSE txs[j]
        <4>1. t \in Transaction
          OBVIOUS
        <4> HIDE DEF txs
        <4> QED  BY ONLY <1>1, <2>1, <4>1 DEF ReplaceAt
      <3> HIDE DEF txs, scs, u
      <3>3. ASSUME NEW j \in 1..Len(u) PROVE i - 1 = j - 1 \/ scs[j] = ScoreOf[u[j].tx]
        BY <1>3, <3>2
      <3>4. Follows(Rescored(u, scs, "ReplacedAt", i - 1))
        BY <3>2, <3>3, RescoredFollows
      <3> QED  BY <3>1, <3>4
    <2> QED  BY <2>2, <2>3, <2>4, <2>5 DEF Choice
  <1> QED  BY <1>5, <1>6

(* Transactions::remove takes the score of the transaction it takes. *)
LEMMA RemoveFollows ==
    ASSUME LazyScoring, NEW s, NEW q, GoodQueue(q, s), Follows(q), NEW t,
           NEW p \in RemoveTransaction(q, t)
    PROVE  Follows(p)
  <1> DEFINE txs == q.transactions
             scs == q.scores
  <1>1. txs \in Seq(Transaction) /\ Len(txs) \in Nat /\ DOMAIN txs = 1..Len(txs)
    BY DEF GoodQueue, GoodSeq
  <1>2. PICK T : scs \in Seq(T) /\ Len(scs) = Len(txs)
    BY ScoreVector DEF GoodQueue
  <1>3. \A i \in 1..Len(txs) : scs[i] = ScoreOf[txs[i].tx]
    BY DEF Follows
  <1>4. CASE SearchOk(q, t) = {}
    BY <1>4 DEF RemoveTransaction
  <1>5. CASE SearchOk(q, t) # {}
    <2>1. PICK i \in SearchOk(q, t) :
              p = Rescored(RemoveAt(txs, i), RemoveAt(scs, i), "RemovedAt", i - 1)
      BY <1>5 DEF RemoveTransaction
    <2>2. i \in 1..Len(txs) /\ i \in 1..Len(scs)
      BY <1>1, <1>2 DEF SearchOk
    <2> DEFINE u == RemoveAt(txs, i)
               v == RemoveAt(scs, i)
    <2> HIDE DEF txs, scs
    <2>3. /\ u \in Seq(Transaction) /\ Len(u) = Len(txs) - 1
          /\ \A j \in 1..(Len(txs) - 1) : u[j] = IF j < i THEN txs[j] ELSE txs[j + 1]
      BY ONLY <1>1, <2>2, RemoveAtFacts
    <2>4. \A j \in 1..(Len(scs) - 1) : v[j] = IF j < i THEN scs[j] ELSE scs[j + 1]
      BY ONLY <1>2, <2>2, RemoveAtFacts
    <2> HIDE DEF u, v
    <2>5. ASSUME NEW j \in 1..Len(u) PROVE v[j] = ScoreOf[u[j].tx]
      <3>1. j \in 1..(Len(txs) - 1) /\ j \in 1..Len(txs) /\ j + 1 \in 1..Len(txs)
        BY <1>1, <2>3
      <3> QED  BY <1>2, <1>3, <2>3, <2>4, <3>1
    <2>6. Follows(Rescored(u, v, "RemovedAt", i - 1))
      BY <2>3, <2>5, RescoredFollows
    <2> QED  BY <2>1, <2>6 DEF u, v
  <1> QED  BY <1>4, <1>5

(* Transactions::cull takes the scores of the transactions it takes. *)
LEMMA CullFollows ==
    ASSUME LazyScoring, NEW s, NEW q, GoodQueue(q, s), Follows(q),
           NEW n \in 0..Len(q.transactions)
    PROVE  Follows(CullStalled(q, n))
  <1> DEFINE txs == q.transactions
             scs == q.scores
  <1>1. txs \in Seq(Transaction) /\ Len(txs) \in Nat
    BY DEF GoodQueue, GoodSeq
  <1>2. PICK T : scs \in Seq(T) /\ Len(scs) = Len(txs)
    BY ScoreVector DEF GoodQueue
  <1>3. \A i \in 1..Len(txs) : scs[i] = ScoreOf[txs[i].tx]
    BY DEF Follows
  <1>4. CASE n = 0
    BY <1>4 DEF CullStalled
  <1>5. CASE n # 0
    <2> DEFINE u == SubSeq(txs, n + 1, Len(txs))
               v == SubSeq(scs, n + 1, Len(scs))
    <2>1. CullStalled(q, n) = Rescored(u, v, "Culled", n)
      BY <1>5 DEF CullStalled
    <2>2. n \in 0..Len(txs) /\ n \in 0..Len(scs)
      BY <1>2
    <2> HIDE DEF txs, scs
    <2>3. /\ u \in Seq(Transaction) /\ Len(u) = Len(txs) - n
          /\ \A j \in 1..(Len(txs) - n) : u[j] = txs[n + j]
      BY ONLY <1>1, <2>2, SuffixFacts
    <2>4. \A j \in 1..(Len(scs) - n) : v[j] = scs[n + j]
      BY ONLY <1>2, <2>2, SuffixFacts
    <2> HIDE DEF u, v
    <2>5. ASSUME NEW j \in 1..Len(u) PROVE v[j] = ScoreOf[u[j].tx]
      <3>1. j \in 1..(Len(txs) - n) /\ n + j \in 1..Len(txs)
        BY <1>1, <2>2, <2>3
      <3> QED  BY <1>2, <1>3, <2>3, <2>4, <3>1
    <2>6. Follows(Rescored(u, v, "Culled", n))
      BY <2>3, <2>5, RescoredFollows
    <2> QED  BY <2>1, <2>6
  <1> QED  BY <1>4, <1>5

(* An update_scores event leaves the scores of a lazy Scoring where they are. *)
LEMMA EventFollows ==
    ASSUME LazyScoring, NEW s, NEW q, GoodQueue(q, s), Follows(q)
    PROVE  Follows(UpdateScores(q))
  <1>1. /\ q.transactions \in Seq(Transaction)
        /\ \A i \in 1..Len(q.transactions) : q.scores[i] = ScoreOf[q.transactions[i].tx]
    BY DEF GoodQueue, GoodSeq, Follows
  <1> QED  BY <1>1, RescoredFollows DEF UpdateScores

(* Every queue's scores follow. *)
AllFollow == \A s \in DOMAIN transactions : Follows(transactions[s])

(* ScoresFollow, queue by queue. *)
LEMMA AllFollowRecast ==
    ASSUME QueuesGood
    PROVE  ScoresFollow <=> AllFollow
  <1>1. \A s \in DOMAIN transactions :
            DOMAIN transactions[s].scores = 1..Len(transactions[s].transactions)
    BY DEF QueuesGood, GoodQueue, IsQueue
  <1> QED  BY <1>1 DEF ScoresFollow, AllFollow, Follows

(* Replacing one sender's queue by one whose scores follow. *)
LEMMA SetQueueFollows ==
    ASSUME AllFollow, NEW s, NEW q, Follows(q), SetQueue(s, q)
    PROVE  AllFollow'
  <1>1. ASSUME NEW x \in DOMAIN transactions'
        PROVE  transactions'[x] = q \/ (x \in DOMAIN transactions /\ transactions'[x] = transactions[x])
    BY DEF SetQueue, Restrict
  <1> QED  BY <1>1 DEF AllFollow

(* Every step of every operation shifts the scores with the transactions. *)
LEMMA NextFollows ==
    ASSUME LazyScoring, IInv, AllFollow, [Next]_vars
    PROVE  AllFollow'
  <1>1. CASE UNCHANGED transactions
    BY <1>1 DEF AllFollow
  <1>2. ASSUME NEW s \in Senders PROVE GoodQueue(QueueOf(s), s) /\ Follows(QueueOf(s))
    <2>1. GoodQueue(QueueOf(s), s)
      BY PooledBySender DEF IInv
    <2>2. Follows(Default)
      BY DEF Follows, Default
    <2> QED  BY <2>1, <2>2 DEF QueueOf, AllFollow
  <1>3. ASSUME NEW s \in Senders, NEW h, \E q \in RemoveTransaction(QueueOf(s), h) : SetQueue(s, q)
        PROVE  AllFollow'
    <2>1. PICK q \in RemoveTransaction(QueueOf(s), h) : SetQueue(s, q)
      BY <1>3
    <2>2. Follows(q)
      BY <1>2, <2>1, RemoveFollows
    <2> QED  BY <2>1, <2>2, SetQueueFollows
  <1>4. ASSUME NEW t, NEW next, RemoveWorst(t, next) PROVE AllFollow'
    <2>1. ASSUME NEW worst \in worst_transactions PROVE Sender[worst.transaction.tx] \in Senders
      BY WorstIsPooled DEF IInv, QueuesGood
    <2> QED  BY <1>1, <1>3, <1>4, <2>1 DEF RemoveWorst, Rejected, Undecided, pool
  <1>5. ASSUME NEW t \in new, CountLoop(t) \/ MemLoop(t) PROVE AllFollow'
    BY <1>1, <1>4, <1>5 DEF CountLoop, MemLoop, pool
  <1>6. ASSUME NEW t \in new, AddToQueue(t) PROVE AllFollow'
    <2> DEFINE s == Sender[t.tx]
    <2>1. t \in Transaction /\ s \in Senders
      BY <1>6, AddEffect, SenderAssumption
    <2>2. PICK r \in Add(QueueOf(s), t, max_per_sender) : SetQueue(s, r.queue)
      BY <1>6 DEF AddToQueue
    <2> HIDE DEF s
    <2>3. Follows(r.queue)
      BY <1>2, <2>1, <2>2, AddFollows, OptionsAssumption
    <2> QED  BY <2>2, <2>3, SetQueueFollows
  <1>7. ASSUME Clear PROVE AllFollow'
    BY <1>7 DEF Clear, AllFollow
  <1>8. ASSUME NEW t \in Txs, Import(t) \/ RemoveByHash(t) PROVE AllFollow'
    <2>1. Sender[t] \in Senders
      BY SenderAssumption
    <2> QED  BY <1>1, <1>3, <1>8, <2>1 DEF Import, RemoveByHash, pool
  <1>9. ASSUME NEW s \in Senders, ScoringEvent(s) PROVE AllFollow'
    <2>1. s \in DOMAIN transactions /\ SetQueue(s, UpdateScores(transactions[s]))
      BY <1>9 DEF ScoringEvent
    <2>2. Follows(UpdateScores(transactions[s]))
      BY <1>2, <2>1, EventFollows DEF QueueOf
    <2> QED  BY <2>1, <2>2, SetQueueFollows
  <1>10. ASSUME NEW s \in Senders, RemoveStalled(s) PROVE AllFollow'
    <2>1. PICK n \in 0..Len(QueueOf(s).transactions) :
              IF s \in DOMAIN transactions
              THEN SetQueue(s, CullStalled(transactions[s], n))
              ELSE UNCHANGED transactions
      BY <1>10 DEF RemoveStalled
    <2>2. CASE s \in DOMAIN transactions
      <3>1. QueueOf(s) = transactions[s]
        BY <2>2 DEF QueueOf
      <3>2. Follows(CullStalled(QueueOf(s), n))
        BY <1>2, <2>1, CullFollows
      <3> QED  BY <2>1, <2>2, <3>1, <3>2, SetQueueFollows
    <2> QED  BY <1>1, <2>1, <2>2
  <1>11. ASSUME \E list \in SUBSET Senders : CullSenders(list) PROVE AllFollow'
    BY <1>1, <1>11 DEF CullSenders, pool
  <1>12. ASSUME UNCHANGED vars PROVE AllFollow'
    BY <1>1, <1>12 DEF vars, pool
  <1> QED
    BY <1>5, <1>6, <1>7, <1>8, <1>9, <1>10, <1>11, <1>12 DEF Next, ImportStep

(***************************************************************************)
(* Under a Scoring that writes a score on insertion and replacement only,  *)
(* each pooled transaction keeps the score it was given: every insert,     *)
(* remove, pop and cull shifts the scores with the transactions, and the   *)
(* index that Change carries is the new transaction's.                     *)
(***************************************************************************)
THEOREM ScoresKeepFollowing ==
    ASSUME LazyScoring
    PROVE  Spec => []ScoresFollow
  <1>1. Init => AllFollow
    BY DEF Init, AllFollow
  <1>2. IInv /\ AllFollow /\ [Next]_vars => AllFollow'
    BY NextFollows
  <1>3. IInv /\ AllFollow => ScoresFollow
    BY AllFollowRecast DEF IInv
  <1> QED
    BY <1>1, <1>2, <1>3, InitConsistent, NextConsistent, PTL DEF Spec
------------------------------------------------------------------------------
(* The sender of a ScoreWithRef. *)
SenderOf(e) == Sender[e.transaction.tx]

(* e is entry i of its sender's queue, and the entries before it were ready or stale. *)
InQueue(e, i) ==
    /\ SenderOf(e) \in asked \cap DOMAIN transactions
    /\ i \in 1..Len(transactions[SenderOf(e)].transactions)
    /\ e = EntryAt(transactions[SenderOf(e)], i)
    /\ \A j \in 1..(i - 1) :
          Nonce[transactions[SenderOf(e)].transactions[j].tx] < ready[SenderOf(e)]

(* The heap holds at most one entry of every sender. *)
HeapInv ==
    /\ \A e \in heap : \E i : InQueue(e, i)
    /\ \A e, f \in heap : SenderOf(e) = SenderOf(f) => e = f

(* A sender that is no longer on the heap has no transaction that would be ready. *)
DoneInv ==
    \A s \in asked :
        \/ \E e \in heap : SenderOf(e) = s
        \/ \A u \in DOMAIN by_hash : Sender[u] = s => Nonce[u] # ready[s]

(***************************************************************************)
(* y, returned by a Ready that began with st and is now at r, is sender by *)
(* sender all nonces from st up to r, in order, each once.                 *)
(***************************************************************************)
Yields(y, st, r, senders, hashes) ==
    /\ \A i \in 1..Len(y) :
          /\ y[i] \in hashes
          /\ Sender[y[i]] \in senders
          /\ st[Sender[y[i]]] <= Nonce[y[i]]
          /\ Nonce[y[i]] < r[Sender[y[i]]]
          /\ \A n \in st[Sender[y[i]]]..(Nonce[y[i]] - 1) :
                \E j \in 1..(i - 1) : Sender[y[j]] = Sender[y[i]] /\ Nonce[y[j]] = n
    /\ \A i, j \in 1..Len(y) : y[i] = y[j] => i = j
    /\ \A s \in senders :
          /\ st[s] <= r[s]
          /\ \A n \in st[s]..(r[s] - 1) :
                \E j \in 1..Len(y) : Sender[y[j]] = s /\ Nonce[y[j]] = n

YieldInv == Yields(yielded, start, ready, asked, DOMAIN by_hash)

ReadTypes ==
    /\ start \in [Senders -> Int] /\ ready \in [Senders -> Int]
    /\ asked \subseteq Senders /\ yielded \in Seq(Txs)
    /\ reader \in {"none", "running", "exhausted"}
    /\ reader = "none" => yielded = <<>> /\ heap = {} /\ asked = {}
    /\ reader = "exhausted" => heap = {}

ReadInv == ReadTypes /\ HeapInv /\ DoneInv /\ YieldInv

(* One pooled transaction per sender and nonce. *)
LEMMA SlotsUnique ==
    ASSUME IInv, NEW g \in DOMAIN by_hash, NEW h \in DOMAIN by_hash,
           Sender[g] = Sender[h], Nonce[g] = Nonce[h]
    PROVE  g = h
  <1> DEFINE s == Sender[g]
             txs == QueueOf(s).transactions
  <1>1. g \in Txs /\ h \in Txs /\ s \in Senders /\ Nonce[g] \in Int
    BY SenderAssumption, NonceAssumption DEF IInv, HashGood
  <1>2. /\ by_hash[g] \in Pooled /\ by_hash[g].tx = g
        /\ by_hash[h] \in Pooled /\ by_hash[h].tx = h
    BY DEF IInv, HashGood
  <1>3. by_hash[g] \in Elems(txs) /\ by_hash[h] \in Elems(txs) /\ GoodQueue(QueueOf(s), s)
    BY <1>1, <1>2, PooledBySender DEF IInv
  <1>4. PICK i \in 1..Len(txs), j \in 1..Len(txs) : txs[i] = by_hash[g] /\ txs[j] = by_hash[h]
    BY <1>3 DEF Elems
  <1>5. i = j
    BY <1>1, <1>2, <1>3, <1>4 DEF GoodQueue, GoodSeq
  <1> QED  BY <1>2, <1>4, <1>5

(* A queue's entry is found by its nonce: find_next returns the entry after it, if any. *)
LEMMA FindNextFacts ==
    ASSUME NEW s, NEW q, GoodQueue(q, s), NEW i \in 1..Len(q.transactions)
    PROVE  /\ i < Len(q.transactions) => FindNext(q, q.transactions[i].tx) = {EntryAt(q, i + 1)}
           /\ i = Len(q.transactions) => FindNext(q, q.transactions[i].tx) = {}
  <1> DEFINE txs == q.transactions
             t == txs[i].tx
  <1>1. /\ txs \in Seq(Transaction) /\ Len(txs) \in Nat /\ DOMAIN txs = 1..Len(txs)
        /\ GoodSeq(txs, s)
    BY DEF GoodQueue, GoodSeq
  <1>2. Len(q.scores) = Len(txs)
    BY ScoreVector DEF GoodQueue
  <1>3. SearchOk(q, t) = {i}
    <2>1. i \in SearchOk(q, t)
      BY <1>1 DEF SearchOk, NonceAt
    <2>2. ASSUME NEW j \in SearchOk(q, t) PROVE j = i
      <3>1. j \in 1..Len(txs) /\ Nonce[txs[j].tx] = Nonce[txs[i].tx]
        BY <1>1 DEF SearchOk, NonceAt
      <3>2. Nonce[txs[i].tx] \in Int
        <4>1. txs[i] \in Transaction
          BY <1>1, ElementOfSeq
        <4> QED  BY <4>1, NonceAssumption DEF Transaction
      <3> QED  BY <1>1, <3>1, <3>2 DEF GoodSeq
    <2> QED  BY <2>1, <2>2
  <1> HIDE DEF txs, t
  <1>4. FindNext(q, t) = {EntryAt(q, k + 1) : k \in {j \in {i} : j + 1 <= Len(q.scores)}}
    BY <1>3 DEF FindNext
  <1>5. i < Len(txs) => {j \in {i} : j + 1 <= Len(q.scores)} = {i}
    BY <1>1, <1>2 DEF txs
  <1>6. i = Len(txs) => {j \in {i} : j + 1 <= Len(q.scores)} = {}
    BY <1>1, <1>2 DEF txs
  <1>7. i < Len(txs) => FindNext(q, t) = {EntryAt(q, i + 1)}
    BY <1>4, <1>5
  <1>8. i = Len(txs) => FindNext(q, t) = {}
    BY <1>4, <1>6
  <1> QED  BY <1>7, <1>8 DEF t, txs

(* A new iterator: every sender asked for begins with its first entry. *)
LEMMA IterateKeepsRead ==
    ASSUME IInv, ReadInv, NEW refs, NEW senders \in SUBSET Senders, NEW from \in Starts,
           Iterate(refs, senders, from),
           refs = UNION {BestOf(QueueOf(s)) : s \in senders}
    PROVE  ReadInv'
  <1>1. /\ reader' = "running" /\ heap' = refs /\ asked' = senders /\ start' = from
        /\ ready' = from /\ yielded' = <<>>
        /\ by_hash' = by_hash /\ transactions' = transactions
    BY DEF Iterate, vars, pool
  <1>2. from \in [Senders -> Int]
    BY StartsAssumption
  <1>3. ReadTypes'
    BY <1>1, <1>2 DEF ReadTypes
  <1>4. ASSUME NEW s \in senders
        PROVE  /\ s \in DOMAIN transactions =>
                     /\ BestOf(QueueOf(s)) = {EntryAt(transactions[s], 1)}
                     /\ SenderOf(EntryAt(transactions[s], 1)) = s
                     /\ 1 \in 1..Len(transactions[s].transactions)
               /\ s \notin DOMAIN transactions => BestOf(QueueOf(s)) = {}
    <2>1. CASE s \in DOMAIN transactions
      <3>1. /\ GoodQueue(transactions[s], s) /\ Len(transactions[s].transactions) > 0
            /\ QueueOf(s) = transactions[s] /\ Len(transactions[s].transactions) \in Nat
        BY <2>1 DEF IInv, QueuesGood, QueueOf, GoodQueue, GoodSeq
      <3>2. BestOf(QueueOf(s)) = {EntryAt(transactions[s], 1)}
        BY <3>1, EntriesOf DEF GoodQueue
      <3>3. 1 \in 1..Len(transactions[s].transactions)
        BY <3>1
      <3>4. Sender[transactions[s].transactions[1].tx] = s
        BY <3>1, <3>3 DEF GoodQueue, GoodSeq
      <3> QED  BY <2>1, <3>2, <3>3, <3>4 DEF SenderOf, EntryAt
    <2>2. CASE s \notin DOMAIN transactions
      BY <2>2, DefaultFacts DEF QueueOf
    <2> QED  BY <2>1, <2>2
  <1>5. ASSUME NEW e \in refs
        PROVE  /\ SenderOf(e) \in senders \cap DOMAIN transactions
               /\ e = EntryAt(transactions[SenderOf(e)], 1)
               /\ 1 \in 1..Len(transactions[SenderOf(e)].transactions)
    BY <1>4
  <1>6. HeapInv'
    <2>1. ASSUME NEW e \in heap' PROVE InQueue(e, 1)'
      BY <1>1, <1>5 DEF InQueue, SenderOf
    <2>2. ASSUME NEW e \in heap', NEW f \in heap', SenderOf(e) = SenderOf(f) PROVE e = f
      BY <1>1, <1>5, <2>2
    <2> QED  BY <2>1, <2>2 DEF HeapInv, SenderOf
  <1>7. DoneInv'
    <2>1. ASSUME NEW s \in senders, s \in DOMAIN transactions PROVE \E e \in refs : SenderOf(e) = s
      BY <1>4, <2>1
    <2>2. ASSUME NEW s \in senders, s \notin DOMAIN transactions, NEW u \in DOMAIN by_hash, Sender[u] = s
          PROVE  FALSE
      <3>1. by_hash[u] \in Pooled /\ Sender[by_hash[u].tx] = s
        BY <2>2 DEF IInv, HashGood
      <3>2. by_hash[u] \in Elems(QueueOf(s).transactions)
        BY <3>1, PooledBySender DEF IInv
      <3> QED  BY <2>2, <3>2, DefaultFacts DEF QueueOf
    <2> QED  BY <1>1, <2>1, <2>2 DEF DoneInv, SenderOf
  <1>8. YieldInv'
    <2>1. DOMAIN yielded' = {}
      BY <1>1
    <2>2. \A s \in senders : from[s] \in Int /\ from[s]..(from[s] - 1) = {}
      BY <1>2
    <2> QED  BY <1>1, <2>1, <2>2 DEF YieldInv, Yields
  <1> QED  BY <1>3, <1>6, <1>7, <1>8 DEF ReadInv

(* by_hash's transactions of a sender are the entries of its queue. *)
LEMMA HashInQueue ==
    ASSUME IInv, NEW s \in DOMAIN transactions, NEW u \in DOMAIN by_hash, Sender[u] = s
    PROVE  \E j \in 1..Len(transactions[s].transactions) : transactions[s].transactions[j].tx = u
  <1>1. by_hash[u] \in Pooled /\ by_hash[u].tx = u /\ s \in Senders
    BY DEF IInv, HashGood, QueuesGood
  <1>2. by_hash[u] \in Elems(QueueOf(s).transactions)
    BY <1>1, PooledBySender DEF IInv
  <1> QED  BY <1>1, <1>2 DEF QueueOf, Elems

(* NonceReady: a transaction is ready when its nonce is the next one of its sender. *)
LEMMA ReadinessFacts ==
    ASSUME NEW r \in [Senders -> Int], NEW t \in Txs
    PROVE  LET s == Sender[t]
               after == AfterAsking(r, t)
           IN  /\ s \in Senders /\ Nonce[t] \in Int
               /\ after \in [Senders -> Int]
               /\ \A x \in Senders \ {s} : after[x] = r[x]
               /\ \/ Readiness(r, t) = "Future" /\ Nonce[t] > r[s] /\ after = r
                  \/ Readiness(r, t) = "Ready" /\ Nonce[t] = r[s] /\ after[s] = r[s] + 1
                  \/ Readiness(r, t) = "Stale" /\ Nonce[t] < r[s] /\ after = r
  <1> DEFINE s == Sender[t]
             after == AfterAsking(r, t)
  <1>1. s \in Senders /\ Nonce[t] \in Int /\ r[s] \in Int
    BY SenderAssumption, NonceAssumption
  <1>2. CASE Nonce[t] > r[s]
    <2>1. Readiness(r, t) = "Future"
      BY <1>1, <1>2 DEF Readiness
    <2>2. after = r
      BY <2>1 DEF AfterAsking
    <2> QED  BY <1>1, <1>2, <2>1, <2>2
  <1>3. CASE Nonce[t] = r[s]
    <2>1. Readiness(r, t) = "Ready"
      BY <1>1, <1>3 DEF Readiness
    <2>2. after = [r EXCEPT ![s] = @ + 1]
      BY <2>1 DEF AfterAsking
    <2>3. /\ after \in [Senders -> Int] /\ after[s] = r[s] + 1
          /\ \A x \in Senders \ {s} : after[x] = r[x]
      BY <1>1, <2>2
    <2> QED  BY <1>1, <1>3, <2>1, <2>3
  <1>4. CASE Nonce[t] < r[s]
    <2>1. Readiness(r, t) = "Stale"
      BY <1>1, <1>4 DEF Readiness
    <2>2. after = r
      BY <2>1 DEF AfterAsking
    <2> QED  BY <1>1, <1>4, <2>1, <2>2
  <1> QED  BY <1>1, <1>2, <1>3, <1>4

(* YieldInv, by the length of what was yielded. *)
LEMMA YieldFacts ==
    ASSUME ReadTypes, YieldInv
    PROVE  /\ Len(yielded) \in Nat /\ DOMAIN yielded = 1..Len(yielded)
           /\ \A k \in 1..Len(yielded) :
                 /\ yielded[k] \in Txs /\ Nonce[yielded[k]] \in Int
                 /\ Sender[yielded[k]] \in asked /\ Sender[yielded[k]] \in Senders
           /\ \A x \in asked : x \in Senders /\ start[x] \in Int /\ ready[x] \in Int
  <1>1. /\ yielded \in Seq(Txs) /\ Len(yielded) \in Nat /\ DOMAIN yielded = 1..Len(yielded)
        /\ start \in [Senders -> Int] /\ ready \in [Senders -> Int] /\ asked \subseteq Senders
    BY DEF ReadTypes
  <1>2. ASSUME NEW k \in 1..Len(yielded)
        PROVE  /\ yielded[k] \in Txs /\ Nonce[yielded[k]] \in Int
               /\ Sender[yielded[k]] \in asked /\ Sender[yielded[k]] \in Senders
    <2>1. yielded[k] \in Txs
      BY <1>1, ElementOfSeq
    <2>2. Sender[yielded[k]] \in asked
      BY DEF YieldInv, Yields
    <2> QED  BY <2>1, <2>2, NonceAssumption, SenderAssumption
  <1> QED  BY <1>1, <1>2

(* One round of next(): the heap moves on past ready and stale entries, and ends at a gap. *)
LEMMA NextKeepsHeap ==
    ASSUME IInv, ReadTypes, HeapInv, DoneInv, NEW best \in heap,
           NEW state, state = Readiness(ready, best.transaction.tx),
           heap' = InsertRefs(heap \ {best}, Successor(best, state)),
           ready' = AfterAsking(ready, best.transaction.tx),
           UNCHANGED <<transactions, by_hash, asked>>
    PROVE  HeapInv' /\ DoneInv'
  <1> DEFINE s == SenderOf(best)
             q == transactions[s]
             txs == q.transactions
             t == best.transaction.tx
  <1>1. PICK i : InQueue(best, i)
    BY DEF HeapInv
  <1>2. /\ s \in asked /\ s \in DOMAIN transactions /\ s \in Senders
        /\ i \in 1..Len(txs) /\ best = EntryAt(q, i)
        /\ \A j \in 1..(i - 1) : Nonce[txs[j].tx] < ready[s]
    BY <1>1 DEF InQueue, ReadTypes
  <1>3. /\ GoodQueue(q, s) /\ GoodSeq(txs, s) /\ txs \in Seq(Transaction) /\ Len(txs) \in Nat
        /\ QueueOf(s) = q
    BY <1>2 DEF IInv, QueuesGood, GoodQueue, GoodSeq, QueueOf
  <1>4. t = txs[i].tx /\ Sender[t] = s
    BY <1>2 DEF EntryAt, SenderOf
  <1>5. \A j \in 1..Len(txs) : Nonce[txs[j].tx] \in Int
    <2>1. \A j \in 1..Len(txs) : txs[j] \in Transaction
      BY <1>3, ElementOfSeq
    <2> QED  BY <2>1, NonceAssumption DEF Transaction
  <1>6. ready \in [Senders -> Int] /\ ready[s] \in Int /\ Nonce[t] \in Int
    BY <1>2, <1>4, <1>5 DEF ReadTypes
  <1>7. /\ \A x \in Senders \ {s} : ready'[x] = ready[x]
        /\ \/ state = "Future" /\ Nonce[t] > ready[s] /\ ready' = ready
           \/ state = "Ready" /\ Nonce[t] = ready[s] /\ ready'[s] = ready[s] + 1
           \/ state = "Stale" /\ Nonce[t] < ready[s] /\ ready' = ready
    <2>1. t \in Txs
      <3>1. txs[i] \in Transaction
        BY <1>2, <1>3, ElementOfSeq
      <3> QED  BY <1>4, <3>1 DEF Transaction
    <2>2. state = Readiness(ready, t) /\ ready' = AfterAsking(ready, t)
      OBVIOUS
    <2> HIDE DEF t, s
    <2>3. /\ \A x \in Senders \ {s} : ready'[x] = ready[x]
          /\ \/ state = "Future" /\ Nonce[t] > ready[s] /\ ready' = ready
             \/ state = "Ready" /\ Nonce[t] = ready[s] /\ ready'[s] = ready[s] + 1
             \/ state = "Stale" /\ Nonce[t] < ready[s] /\ ready' = ready
      BY ONLY <1>4, <1>6, <2>1, <2>2, ReadinessFacts
    <2> QED  BY <2>3
  <1>8. /\ \A x \in Senders \ {s} : ready'[x] = ready[x]
        /\ ready'[s] \in Int /\ ready[s] <= ready'[s]
        /\ state # "Future" => Nonce[t] < ready'[s]
        /\ state = "Future" => ready'[s] < Nonce[t]
    BY ONLY <1>6, <1>7
  <1> DEFINE rest == heap \ {best}
  <1>9. ASSUME NEW e \in rest
        PROVE  SenderOf(e) # s /\ \E k : InQueue(e, k) /\ InQueue(e, k)'
    <2>1. SenderOf(e) # s
      BY DEF HeapInv
    <2>2. PICK k : InQueue(e, k)
      BY DEF HeapInv
    <2>3. SenderOf(e) \in Senders \ {s}
      BY <2>1, <2>2 DEF InQueue, ReadTypes
    <2>4. ready'[SenderOf(e)] = ready[SenderOf(e)]
      BY <1>8, <2>3
    <2>5. InQueue(e, k)'
      BY <2>2, <2>4 DEF InQueue, SenderOf
    <2> QED  BY <2>1, <2>2, <2>5
  <1>10. ASSUME NEW x \in asked, x # s
         PROVE  \/ \E e \in rest : SenderOf(e) = x
                \/ \A u \in DOMAIN by_hash' : Sender[u] = x => Nonce[u] # ready'[x]
    <2>1. ready'[x] = ready[x]
      BY <1>8, <1>10 DEF ReadTypes
    <2> QED  BY <1>10, <2>1 DEF DoneInv
  <1>11. CASE state # "Future" /\ i < Len(txs)
    <2> DEFINE e == EntryAt(q, i + 1)
    <2>1. Successor(best, state) = {e}
      <3>1. state \in {"Ready", "Stale"}
        BY <1>7, <1>11
      <3>2. FindNext(q, txs[i].tx) = {e}
        BY <1>2, <1>3, <1>11, FindNextFacts
      <3> QED  BY <1>3, <1>4, <3>1, <3>2 DEF Successor, SenderOf
    <2>2. SenderOf(e) = s
      <3>1. i + 1 \in 1..Len(txs)
        BY <1>2, <1>3, <1>11
      <3>2. Sender[txs[i + 1].tx] = s
        BY <1>3, <3>1 DEF GoodSeq
      <3> QED  BY <3>2 DEF EntryAt, SenderOf
    <2>3. InQueue(e, i + 1)'
      <3>1. ASSUME NEW j \in 1..i PROVE Nonce[txs[j].tx] < ready'[s]
        <4>1. CASE j = i
          BY <1>4, <1>8, <1>11, <4>1
        <4>2. CASE j # i
          <5>1. j \in 1..(i - 1) /\ j \in 1..Len(txs)
            BY <1>2, <1>3, <4>2
          <5> QED  BY <1>2, <1>5, <1>6, <1>8, <5>1
        <4> QED  BY <4>1, <4>2
      <3>2. i + 1 \in 1..Len(txs) /\ (i + 1) - 1 = i
        BY <1>2, <1>3, <1>11
      <3>3. SenderOf(e)' = s
        BY <2>2 DEF SenderOf, EntryAt
      <3>4. e' = e
        BY DEF EntryAt
      <3> HIDE DEF e
      <3> QED  BY <1>2, <2>2, <3>1, <3>2, <3>3 DEF InQueue, SenderOf, e, EntryAt
    <2> HIDE DEF e
    <2>4. heap' = rest \cup {e}
      <3>1. ASSUME NEW x \in rest PROVE ~SameRef(x, e)
        <4>1. SenderOf(x) # s /\ x.transaction \in Pooled
          <5>1. PICK k : InQueue(x, k)
            BY <1>9
          <5>2. x.transaction = transactions[SenderOf(x)].transactions[k]
            BY <5>1 DEF InQueue, EntryAt
          <5> QED  BY <1>9, <5>1, <5>2 DEF InQueue, Pooled, Elems
        <4>2. e.transaction \in Pooled
          <5>1. i + 1 \in 1..Len(txs) /\ e.transaction = txs[i + 1]
            BY <1>2, <1>3, <1>11 DEF e, EntryAt
          <5> QED  BY <1>2, <5>1 DEF Pooled, Elems
        <4>3. Distinct(Pooled \cup new)
          BY PooledDistinct
        <4>4. SameRef(x, e) => x.transaction = e.transaction
          BY <4>1, <4>2, <4>3 DEF Distinct, SameRef
        <4> QED  BY <2>2, <4>1, <4>4 DEF SenderOf
      <3> QED  BY <2>1, <3>1 DEF InsertRefs
    <2> HIDE DEF rest, s
    <2>5. HeapInv'
      <3>1. ASSUME NEW x \in heap' PROVE \E k : InQueue(x, k)'
        <4>1. CASE x \in rest
          BY <1>9, <4>1
        <4>2. CASE x = e
          <5>1. InQueue(x, i + 1)'
            BY <2>3, <4>2 DEF InQueue, SenderOf, e, EntryAt
          <5> QED  BY <5>1
        <4> QED  BY <2>4, <4>1, <4>2
      <3>2. ASSUME NEW x \in heap', NEW y \in heap', SenderOf(x) = SenderOf(y) PROVE x = y
        <4>1. \A z \in rest : z \in heap
          BY DEF rest
        <4> QED  BY <1>9, <2>2, <2>4, <3>2, <4>1 DEF HeapInv
      <3> QED  BY <3>1, <3>2 DEF HeapInv, SenderOf
    <2>6. DoneInv'
      <3>1. \E x \in heap' : SenderOf(x) = s
        BY <2>2, <2>4
      <3> QED  BY <1>10, <2>4, <3>1 DEF DoneInv, SenderOf
    <2> QED  BY <2>5, <2>6
  <1>12. CASE state = "Future" \/ i = Len(txs)
    <2>1. Successor(best, state) = {}
      <3>1. CASE state = "Future"
        BY <3>1 DEF Successor
      <3>2. CASE i = Len(txs)
        <4>1. FindNext(q, txs[i].tx) = {}
          BY <1>2, <1>3, <3>2, FindNextFacts
        <4> QED  BY <1>3, <1>4, <4>1 DEF Successor, SenderOf
      <3> QED  BY <1>12, <3>1, <3>2
    <2>2. heap' = rest
      BY <2>1 DEF InsertRefs
    <2>3. ASSUME NEW u \in DOMAIN by_hash, Sender[u] = s PROVE Nonce[u] # ready'[s]
      <3>1. PICK j \in 1..Len(txs) : txs[j].tx = u
        BY <1>2, <2>3, HashInQueue
      <3>2. CASE j < i
        <4>1. j \in 1..(i - 1)
          BY <1>2, <1>3, <3>2
        <4>2. Nonce[u] < ready[s] /\ Nonce[u] \in Int
          BY <1>2, <1>5, <3>1, <4>1
        <4> QED  BY <1>6, <1>8, <4>2
      <3>3. CASE j = i
        BY <1>4, <1>6, <1>8, <3>1, <3>3, SMTT(40)
      <3>4. CASE j > i
        <4>1. Nonce[t] < Nonce[u] /\ Nonce[u] \in Int /\ i # Len(txs)
          BY <1>2, <1>3, <1>4, <1>5, <3>1, <3>4 DEF GoodSeq
        <4> QED  BY <1>6, <1>8, <1>12, <4>1
      <3> QED  BY <1>2, <1>3, <3>2, <3>3, <3>4
    <2> HIDE DEF rest, s
    <2>4. HeapInv'
      <3>1. \A z \in rest : z \in heap
        BY DEF rest
      <3> QED  BY <1>9, <2>2, <3>1 DEF HeapInv, SenderOf
    <2>5. DoneInv'
      <3>1. \A u \in DOMAIN by_hash' : Sender[u] = s => Nonce[u] # ready'[s]
        BY <2>3
      <3> QED  BY <1>10, <2>2, <3>1 DEF DoneInv, SenderOf
    <2> QED  BY <2>4, <2>5
  <1> QED  BY <1>2, <1>3, <1>11, <1>12

(* One round of next(): a transaction is yielded exactly when its nonce is the next one. *)
LEMMA NextKeepsYield ==
    ASSUME IInv, ReadTypes, HeapInv, YieldInv, NEW best \in heap,
           NEW t, t = best.transaction.tx,
           NEW state, state = Readiness(ready, t),
           ready' = AfterAsking(ready, t),
           yielded' = IF state = "Ready" THEN Append(yielded, t) ELSE yielded,
           UNCHANGED <<transactions, by_hash, asked, start>>
    PROVE  /\ YieldInv'
           /\ ready' \in [Senders -> Int] /\ yielded' \in Seq(Txs)
  <1> DEFINE s == Sender[t]
  <1>1. PICK i : InQueue(best, i)
    BY DEF HeapInv
  <1>2. t \in DOMAIN by_hash /\ t \in Txs /\ s \in asked /\ s \in Senders
    <2>1. best.transaction = transactions[SenderOf(best)].transactions[i]
      BY <1>1 DEF InQueue, EntryAt
    <2>2. best.transaction \in Pooled
      BY <1>1, <2>1 DEF InQueue, Pooled, Elems
    <2>3. t \in DOMAIN by_hash /\ t \in Txs
      BY <2>2 DEF IInv, HashGood
    <2> QED  BY <1>1, <2>3 DEF InQueue, SenderOf, ReadTypes
  <1>3. /\ ready \in [Senders -> Int] /\ ready[s] \in Int /\ Nonce[t] \in Int
        /\ start \in [Senders -> Int] /\ start[s] \in Int
        /\ yielded \in Seq(Txs) /\ Len(yielded) \in Nat /\ DOMAIN yielded = 1..Len(yielded)
        /\ asked \subseteq Senders
    BY <1>2, NonceAssumption DEF ReadTypes
  <1>4. CASE state # "Ready"
    <2>1. ready' = ready /\ yielded' = yielded
      BY <1>4 DEF AfterAsking
    <2>2. by_hash' = by_hash /\ asked' = asked /\ start' = start /\ YieldInv
      OBVIOUS
    <2>3. YieldInv'
      BY ONLY <2>1, <2>2 DEF YieldInv
    <2> QED  BY <1>3, <2>1, <2>3
  <1>5. CASE state = "Ready"
    <2>1. /\ Nonce[t] = ready[s] /\ yielded' = Append(yielded, t)
          /\ ready' \in [Senders -> Int] /\ ready'[s] = ready[s] + 1
          /\ \A x \in Senders \ {s} : ready'[x] = ready[x]
      <3>1. t \in Txs /\ Readiness(ready, t) = "Ready" /\ ready' = AfterAsking(ready, t)
        BY <1>2, <1>5
      <3>2. /\ Nonce[t] = ready[s]
            /\ ready' \in [Senders -> Int] /\ ready'[s] = ready[s] + 1
            /\ \A x \in Senders \ {s} : ready'[x] = ready[x]
        BY ONLY <1>3, <3>1, ReadinessFacts
      <3> QED  BY <1>5, <3>2
    <2> DEFINE y == Append(yielded, t)
               m == Len(yielded)
    <2>2. /\ y \in Seq(Txs) /\ DOMAIN y = 1..(m + 1) /\ m \in Nat
          /\ y[m + 1] = t /\ \A k \in 1..m : y[k] = yielded[k]
      BY <1>2, <1>3
    <2>3. /\ ready' \in [Senders -> Int] /\ ready'[s] = ready[s] + 1
          /\ \A x \in Senders \ {s} : ready'[x] = ready[x]
      BY <2>1
    <2>4. yielded' = y
      BY <2>1
    <2> HIDE DEF y, m
    <2>5. /\ \A k \in 1..m :
                /\ yielded[k] \in DOMAIN by_hash
                /\ Sender[yielded[k]] \in asked
                /\ start[Sender[yielded[k]]] <= Nonce[yielded[k]]
                /\ Nonce[yielded[k]] < ready[Sender[yielded[k]]]
                /\ \A n \in start[Sender[yielded[k]]]..(Nonce[yielded[k]] - 1) :
                      \E j \in 1..(k - 1) : Sender[yielded[j]] = Sender[yielded[k]] /\ Nonce[yielded[j]] = n
          /\ \A k, l \in 1..m : yielded[k] = yielded[l] => k = l
          /\ \A x \in asked :
                /\ start[x] <= ready[x]
                /\ \A n \in start[x]..(ready[x] - 1) :
                      \E j \in 1..m : Sender[yielded[j]] = x /\ Nonce[yielded[j]] = n
      BY DEF YieldInv, Yields, m
    <2>51. /\ \A k \in 1..m : Nonce[yielded[k]] \in Int /\ Sender[yielded[k]] \in Senders
           /\ \A x \in asked : start[x] \in Int /\ ready[x] \in Int
      BY YieldFacts DEF m
    <2>6. start[s] <= ready[s] /\ \A n \in start[s]..(ready[s] - 1) :
              \E j \in 1..m : Sender[yielded[j]] = s /\ Nonce[yielded[j]] = n
      BY ONLY <1>2, <2>5
    <2>7. ASSUME NEW k \in 1..(m + 1)
          PROVE  /\ y[k] \in DOMAIN by_hash /\ Sender[y[k]] \in asked
                 /\ start[Sender[y[k]]] <= Nonce[y[k]]
                 /\ Nonce[y[k]] < ready'[Sender[y[k]]]
                 /\ \A n \in start[Sender[y[k]]]..(Nonce[y[k]] - 1) :
                       \E j \in 1..(k - 1) : Sender[y[j]] = Sender[y[k]] /\ Nonce[y[j]] = n
      <3>1. CASE k = m + 1
        <4>1. ASSUME NEW n \in start[s]..(Nonce[t] - 1)
              PROVE  \E j \in 1..(k - 1) : Sender[y[j]] = s /\ Nonce[y[j]] = n
          <5>1. PICK j \in 1..m : Sender[yielded[j]] = s /\ Nonce[yielded[j]] = n
            BY <2>1, <2>6
          <5>2. j \in 1..(k - 1) /\ y[j] = yielded[j]
            BY <2>2, <3>1
          <5> QED  BY <5>1, <5>2
        <4>2. y[k] = t
          BY <2>2, <3>1
        <4>3. t \in DOMAIN by_hash /\ s \in asked /\ start[s] <= Nonce[t] /\ Nonce[t] < ready'[s]
          BY <1>2, <1>3, <2>1, <2>3, <2>6
        <4> QED  BY ONLY <4>1, <4>2, <4>3
      <3>2. CASE k # m + 1
        <4>1. k \in 1..m /\ y[k] = yielded[k]
          BY <2>2, <3>2
        <4>2. \A n \in start[Sender[yielded[k]]]..(Nonce[yielded[k]] - 1) :
                  \E j \in 1..(k - 1) : Sender[yielded[j]] = Sender[yielded[k]] /\ Nonce[yielded[j]] = n
          BY ONLY <2>5, <4>1
        <4>3. \A j \in 1..(k - 1) : y[j] = yielded[j]
          BY <2>2, <4>1
        <4>4. Nonce[yielded[k]] < ready'[Sender[yielded[k]]]
          <5>1. CASE Sender[yielded[k]] = s
            <6>1. Nonce[yielded[k]] < ready[s] /\ Nonce[yielded[k]] \in Int
              BY ONLY <2>5, <2>51, <4>1, <5>1
            <6> QED  BY ONLY <1>3, <2>3, <5>1, <6>1
          <5>2. CASE Sender[yielded[k]] # s
            BY <2>3, <2>5, <2>51, <4>1, <5>2
          <5> QED  BY <5>1, <5>2
        <4>5. \A n \in start[Sender[y[k]]]..(Nonce[y[k]] - 1) :
                  \E j \in 1..(k - 1) : Sender[y[j]] = Sender[y[k]] /\ Nonce[y[j]] = n
          BY ONLY <4>1, <4>2, <4>3
        <4>6. /\ yielded[k] \in DOMAIN by_hash /\ Sender[yielded[k]] \in asked
              /\ start[Sender[yielded[k]]] <= Nonce[yielded[k]]
          BY ONLY <2>5, <4>1
        <4> QED  BY ONLY <4>1, <4>4, <4>5, <4>6
      <3> QED  BY <3>1, <3>2
    <2>8. ASSUME NEW k \in 1..(m + 1), NEW l \in 1..(m + 1), y[k] = y[l] PROVE k = l
      <3>1. ASSUME NEW j \in 1..m PROVE y[j] # t
        <4>1. y[j] = yielded[j]
          BY <2>2
        <4>2. yielded[j] = t => Nonce[t] < ready[s]
          BY <2>5
        <4> QED  BY <1>3, <2>1, <4>1, <4>2
      <3>2. CASE k \in 1..m /\ l \in 1..m
        <4>1. y[k] = yielded[k] /\ y[l] = yielded[l]
          BY <2>2, <3>2
        <4> QED  BY ONLY <2>5, <2>8, <3>2, <4>1, ZenonT(60)
      <3>3. k \notin 1..m => k = m + 1
        BY ONLY <2>2, k \in 1..(m + 1)
      <3>4. l \notin 1..m => l = m + 1
        BY ONLY <2>2, l \in 1..(m + 1)
      <3> QED  BY <2>2, <2>8, <3>1, <3>2, <3>3, <3>4
    <2>9. ASSUME NEW x \in asked
          PROVE  /\ start[x] <= ready'[x]
                 /\ \A n \in start[x]..(ready'[x] - 1) :
                       \E j \in 1..(m + 1) : Sender[y[j]] = x /\ Nonce[y[j]] = n
      <3>1. /\ start[x] <= ready[x] /\ start[x] \in Int /\ ready[x] \in Int
            /\ \A n \in start[x]..(ready[x] - 1) :
                  \E j \in 1..m : Sender[yielded[j]] = x /\ Nonce[yielded[j]] = n
        BY ONLY <2>5, <2>51, <2>9
      <3>2. ASSUME NEW n \in start[x]..(ready[x] - 1)
            PROVE  \E j \in 1..(m + 1) : Sender[y[j]] = x /\ Nonce[y[j]] = n
        <4>1. PICK j \in 1..m : Sender[yielded[j]] = x /\ Nonce[yielded[j]] = n
          BY <3>1
        <4>2. j \in 1..(m + 1) /\ y[j] = yielded[j]
          BY <2>2
        <4> QED  BY <4>1, <4>2
      <3>3. CASE x = s
        <4>1. ASSUME NEW n \in start[x]..(ready'[x] - 1)
              PROVE  \E j \in 1..(m + 1) : Sender[y[j]] = x /\ Nonce[y[j]] = n
          <5>1. CASE n = ready[s]
            <6>1. m + 1 \in 1..(m + 1) /\ Sender[y[m + 1]] = x /\ Nonce[y[m + 1]] = n
              BY <2>1, <2>2, <3>3, <5>1
            <6> QED  BY <6>1
          <5>2. CASE n # ready[s]
            <6>1. n \in start[x]..(ready[x] - 1)
              BY <1>3, <2>3, <3>1, <3>3, <5>2
            <6> QED  BY <3>2, <6>1
          <5> QED  BY <5>1, <5>2
        <4> QED  BY <1>3, <2>3, <3>1, <3>3, <4>1
      <3>4. CASE x # s
        <4>1. ready'[x] = ready[x]
          BY <1>3, <2>3, <3>4
        <4> QED  BY <3>1, <3>2, <4>1
      <3> QED  BY <3>3, <3>4
    <2>10. YieldInv'
      <3>1. by_hash' = by_hash /\ asked' = asked /\ start' = start
        OBVIOUS
      <3>2. Len(y) = m + 1
        BY <2>2
      <3> QED  BY ONLY <2>4, <2>7, <2>8, <2>9, <3>1, <3>2 DEF YieldInv, Yields
    <2> QED  BY <2>2, <2>3, <2>4, <2>10
  <1> QED  BY <1>4, <1>5

(* A step of the reader or of the pool keeps what the pending iterator relies on. *)
LEMMA ReadNextKeeps ==
    ASSUME IInv, ReadInv, [ReadNext]_allVars
    PROVE  ReadInv'
  <1>1. CASE reader = "none" /\ Next /\ UNCHANGED readVars
    <2>1. /\ reader' = reader /\ start' = start /\ ready' = ready /\ heap' = heap
          /\ asked' = asked /\ yielded' = yielded
      BY <1>1 DEF readVars
    <2>2. heap = {} /\ asked = {} /\ yielded = <<>>
      BY <1>1 DEF ReadInv, ReadTypes
    <2>3. ReadTypes'
      BY <2>1 DEF ReadInv, ReadTypes
    <2>4. HeapInv' /\ DoneInv'
      BY <2>1, <2>2 DEF HeapInv, DoneInv
    <2>5. YieldInv'
      <3>1. Len(yielded') = 0 /\ 1..0 = {}
        BY <2>1, <2>2
      <3> QED  BY <2>1, <2>2, <3>1 DEF YieldInv, Yields
    <2> QED  BY <2>3, <2>4, <2>5 DEF ReadInv
  <1>2. ASSUME NEW from \in Starts, Pending(from) PROVE ReadInv'
    <2>1. Iterate(best_transactions, DOMAIN transactions, from)
      BY <1>2 DEF Pending
    <2>2. DOMAIN transactions \in SUBSET Senders
      BY DEF IInv, QueuesGood
    <2>3. \A s \in DOMAIN transactions : QueueOf(s) = transactions[s]
      BY DEF QueueOf
    <2>4. best_transactions = UNION {BestOf(QueueOf(s)) : s \in DOMAIN transactions}
      BY <2>3 DEF IInv, OrderedSetsExact
    <2> QED  BY <2>1, <2>2, <2>4, IterateKeepsRead
  <1>3. ASSUME NEW from \in Starts, NEW s \in Senders, PendingFromSender(s, from) PROVE ReadInv'
    <2>1. Iterate(BestOf(QueueOf(s)), {s}, from)
      BY <1>3 DEF PendingFromSender
    <2>2. BestOf(QueueOf(s)) = UNION {BestOf(QueueOf(x)) : x \in {s}}
      OBVIOUS
    <2> QED  BY <2>1, <2>2, IterateKeepsRead
  <1>4. CASE PendingNext
    <2>1. PICK best \in heap :
            /\ heap' = InsertRefs(heap \ {best}, Successor(best, Readiness(ready, best.transaction.tx)))
            /\ ready' = AfterAsking(ready, best.transaction.tx)
            /\ yielded' = IF Readiness(ready, best.transaction.tx) = "Ready"
                          THEN Append(yielded, best.transaction.tx) ELSE yielded
      BY <1>4 DEF PendingNext
    <2>2. /\ reader = "running" /\ reader' = reader
          /\ UNCHANGED <<transactions, by_hash, asked, start>>
      BY <1>4 DEF PendingNext, vars, pool
    <2>3. ReadTypes /\ HeapInv /\ DoneInv /\ YieldInv
      BY DEF ReadInv
    <2>4. HeapInv' /\ DoneInv'
      BY <2>1, <2>2, <2>3, NextKeepsHeap
    <2>5. YieldInv' /\ ready' \in [Senders -> Int] /\ yielded' \in Seq(Txs)
      BY <2>1, <2>2, <2>3, NextKeepsYield
    <2>6. ReadTypes'
      BY <2>2, <2>3, <2>5 DEF ReadTypes
    <2> QED  BY <2>4, <2>5, <2>6 DEF ReadInv
  <1>5. CASE UNCHANGED <<vars, start, ready, heap, asked, yielded>>
             /\ reader' \in {reader, "exhausted"} /\ (reader' # reader => heap = {} /\ reader # "none")
    <2>1. /\ start' = start /\ ready' = ready /\ heap' = heap
          /\ asked' = asked /\ yielded' = yielded
          /\ transactions' = transactions /\ by_hash' = by_hash
      BY <1>5 DEF vars, pool
    <2>2. ReadTypes'
      BY <1>5, <2>1 DEF ReadInv, ReadTypes
    <2>3. HeapInv'
      BY <2>1 DEF ReadInv, HeapInv, InQueue, SenderOf
    <2>4. DoneInv'
      BY <2>1 DEF ReadInv, DoneInv, SenderOf
    <2>5. YieldInv'
      BY <2>1 DEF ReadInv, YieldInv
    <2> QED  BY <2>2, <2>3, <2>4, <2>5 DEF ReadInv
  <1>6. CASE PendingNone
    BY <1>5, <1>6 DEF PendingNone
  <1>7. CASE DropIterator
    <2>1. /\ reader' = "none" /\ heap' = {} /\ asked' = {} /\ yielded' = <<>>
          /\ start' \in [Senders -> Int] /\ ready' \in [Senders -> Int]
      BY <1>7 DEF DropIterator
    <2>2. ReadTypes'
      BY <2>1 DEF ReadTypes
    <2>3. HeapInv' /\ DoneInv'
      BY <2>1 DEF HeapInv, DoneInv
    <2>4. YieldInv'
      <3>1. Len(yielded') = 0 /\ 1..0 = {}
        BY <2>1
      <3> QED  BY <2>1, <3>1 DEF YieldInv, Yields
    <2> QED  BY <2>2, <2>3, <2>4 DEF ReadInv
  <1>8. CASE UNCHANGED allVars
    BY <1>5, <1>8 DEF allVars, readVars
  <1> QED  BY <1>1, <1>2, <1>3, <1>4, <1>6, <1>7, <1>8 DEF ReadNext

(* The iterator only reads: to the pool its steps are stuttering. *)
LEMMA ReadsOnly ==
    ASSUME [ReadNext]_allVars
    PROVE  [Next]_vars
  BY DEF ReadNext, Pending, PendingFromSender, Iterate, PendingNext, PendingNone, DropIterator,
         allVars

(* When the heap is empty, what was yielded is what can be executed, each once. *)
LEMMA DrainedIsExact ==
    ASSUME IInv, ReadInv, heap = {}
    PROVE  /\ {yielded[i] : i \in DOMAIN yielded} = Executable(start, asked)
           /\ Len(yielded) = Cardinality(Executable(start, asked))
  <1> DEFINE E == Executable(start, asked)
             m == Len(yielded)
  <1>1. ReadTypes /\ DoneInv /\ YieldInv
    BY DEF ReadInv
  <1>2. /\ m \in Nat /\ DOMAIN yielded = 1..m
        /\ \A k \in 1..m : /\ yielded[k] \in Txs /\ Nonce[yielded[k]] \in Int
                            /\ Sender[yielded[k]] \in asked /\ Sender[yielded[k]] \in Senders
        /\ \A x \in asked : x \in Senders /\ start[x] \in Int /\ ready[x] \in Int
    BY <1>1, YieldFacts
  <1>3. ASSUME NEW k \in 1..m PROVE yielded[k] \in E
    <2> DEFINE t == yielded[k]
               s == Sender[t]
    <2>1. /\ t \in DOMAIN by_hash /\ s \in asked /\ start[s] <= Nonce[t] /\ Nonce[t] < ready[s]
      BY <1>1 DEF YieldInv, Yields
    <2>2. ASSUME NEW n \in start[s]..Nonce[t]
          PROVE  \E u \in DOMAIN by_hash : Sender[u] = s /\ Nonce[u] = n
      <3>1. n \in start[s]..(ready[s] - 1)
        BY <1>2, <2>1
      <3>2. PICK j \in 1..m : Sender[yielded[j]] = s /\ Nonce[yielded[j]] = n
        BY <1>1, <2>1, <3>1 DEF YieldInv, Yields
      <3>3. yielded[j] \in DOMAIN by_hash
        BY <1>1, <3>2 DEF YieldInv, Yields
      <3> QED  BY <3>2, <3>3
    <2> QED  BY <2>1, <2>2 DEF Executable
  <1>4. ASSUME NEW t \in E PROVE \E k \in 1..m : yielded[k] = t
    <2> DEFINE s == Sender[t]
    <2>1. /\ t \in DOMAIN by_hash /\ s \in asked /\ start[s] <= Nonce[t]
          /\ \A n \in start[s]..Nonce[t] : \E u \in DOMAIN by_hash : Sender[u] = s /\ Nonce[u] = n
      BY DEF Executable
    <2>2. Nonce[t] \in Int /\ start[s] \in Int /\ ready[s] \in Int /\ start[s] <= ready[s]
      <3>1. t \in Txs
        BY <2>1 DEF IInv, HashGood
      <3>2. start[s] <= ready[s]
        BY <1>1, <2>1 DEF YieldInv, Yields
      <3> QED  BY <1>2, <2>1, <3>1, <3>2, NonceAssumption
    <2>3. Nonce[t] < ready[s]
      <3>1. SUFFICES ASSUME ready[s] <= Nonce[t] PROVE FALSE
        BY <2>2
      <3>2. ready[s] \in start[s]..Nonce[t]
        BY <2>2, <3>1
      <3>3. PICK u \in DOMAIN by_hash : Sender[u] = s /\ Nonce[u] = ready[s]
        BY <2>1, <3>2
      <3>4. \A u0 \in DOMAIN by_hash : Sender[u0] = s => Nonce[u0] # ready[s]
        BY <1>1, <2>1 DEF DoneInv
      <3> QED  BY <3>3, <3>4
    <2>4. Nonce[t] \in start[s]..(ready[s] - 1)
      BY <2>1, <2>2, <2>3
    <2>5. PICK k \in 1..m : Sender[yielded[k]] = s /\ Nonce[yielded[k]] = Nonce[t]
      BY <1>1, <2>1, <2>4 DEF YieldInv, Yields
    <2>6. yielded[k] \in DOMAIN by_hash
      BY <1>1, <2>5 DEF YieldInv, Yields
    <2>7. yielded[k] = t
      BY <2>1, <2>5, <2>6, SlotsUnique
    <2> QED  BY <2>7
  <1>5. {yielded[i] : i \in DOMAIN yielded} = E
    <2> HIDE DEF E, m
    <2> QED  BY <1>2, <1>3, <1>4
  <1>6. \A i, j \in 1..m : yielded[i] = yielded[j] => i = j
    BY <1>1 DEF YieldInv, Yields
  <1> HIDE DEF E, m
  <1>7. yielded \in Bijection(1..m, E)
    <2>1. yielded = [i \in 1..m |-> yielded[i]]
      BY <1>1, <1>2 DEF ReadTypes
    <2>2. yielded \in [1..m -> E]
      BY <1>3, <2>1
    <2> QED  BY <1>4, <1>6, <2>2 DEF Bijection, Injection, Surjection, IsInjective
  <1>8. IsFiniteSet(1..m) /\ Cardinality(1..m) = m
    <2>1. 1 \in Int /\ m \in Int /\ (1 > m => m = 0) /\ (m - 1) + 1 = m
      BY <1>2
    <2> QED  BY <1>2, <2>1, FS_Interval
  <1>9. Cardinality(E) = m
    <2>1. ExistsBijection(1..m, E)
      BY <1>7 DEF ExistsBijection
    <2> QED  BY <1>8, <2>1, FS_Bijection
  <1> QED  BY <1>5, <1>9 DEF E, m

(***************************************************************************)
(* The pending iterator, for any pool, scoring and next nonces: each       *)
(* transaction it returns can be executed after the ones before it, and    *)
(* when it returns None it has returned every executable one exactly once. *)
(***************************************************************************)
THEOREM PendingStaysExact == ReadSpec => []PendingExact
  <1>1. ReadInit => Init /\ ReadInv
    <2> SUFFICES ASSUME ReadInit PROVE Init /\ ReadInv
      OBVIOUS
    <2>1. /\ reader = "none" /\ heap = {} /\ asked = {} /\ yielded = <<>>
          /\ start \in [Senders -> Int] /\ ready \in [Senders -> Int] /\ Init
      BY DEF ReadInit
    <2>2. Len(yielded) = 0 /\ 1..0 = {}
      BY <2>1
    <2>3. YieldInv
      BY <2>1, <2>2 DEF YieldInv, Yields
    <2> QED  BY <2>1, <2>3 DEF ReadInv, ReadTypes, HeapInv, DoneInv
  <1>2. IInv /\ ReadInv /\ [ReadNext]_allVars => ReadInv'
    BY ReadNextKeeps
  <1>3. [ReadNext]_allVars => [Next]_vars
    BY ReadsOnly
  <1>4. IInv /\ ReadInv => PendingExact
    <2> SUFFICES ASSUME IInv, ReadInv PROVE PendingExact
      OBVIOUS
    <2>1. DOMAIN yielded = 1..Len(yielded)
      BY YieldFacts DEF ReadInv
    <2>2. reader = "exhausted" => heap = {}
      BY DEF ReadInv, ReadTypes
    <2>3. \A i \in 1..Len(yielded) :
             /\ start[Sender[yielded[i]]] <= Nonce[yielded[i]]
             /\ \A n \in start[Sender[yielded[i]]]..(Nonce[yielded[i]] - 1) :
                   \E j \in 1..(i - 1) : Sender[yielded[j]] = Sender[yielded[i]] /\ Nonce[yielded[j]] = n
      BY DEF ReadInv, YieldInv, Yields
    <2>4. \A i \in DOMAIN yielded :
             /\ start[Sender[yielded[i]]] <= Nonce[yielded[i]]
             /\ \A n \in start[Sender[yielded[i]]]..(Nonce[yielded[i]] - 1) :
                   \E j \in 1..(i - 1) : Sender[yielded[j]] = Sender[yielded[i]] /\ Nonce[yielded[j]] = n
      BY ONLY <2>1, <2>3, Zenon
    <2>5. reader = "exhausted" =>
             /\ {yielded[i] : i \in DOMAIN yielded} = Executable(start, asked)
             /\ Len(yielded) = Cardinality(Executable(start, asked))
      BY <2>2, DrainedIsExact
    <2> QED  BY ONLY <2>4, <2>5, Zenon DEF PendingExact
  <1> QED
    BY <1>1, <1>2, <1>3, <1>4, InitConsistent, NextConsistent, PTL DEF ReadSpec
------------------------------------------------------------------------------
(* What the unordered iterator holds after each of a sender's transactions. *)
NoneVisited(from) == [done |-> FALSE, ready |-> from, out |-> {}]

AreVisits(f, txs, from, m) ==
    f = [i \in 0..m |-> IF i = 0 THEN NoneVisited(from) ELSE Visited(f[i - 1], txs[i].tx)]

Visits(txs, from) == CHOOSE f : AreVisits(f, txs, from, Len(txs))

LEMMA VisitsExist ==
    ASSUME NEW txs, Len(txs) \in Nat, NEW from
    PROVE  AreVisits(Visits(txs, from), txs, from, Len(txs))
  <1> DEFINE Good == {m \in Nat : \E f : AreVisits(f, txs, from, m)}
  <1>1. 0 \in Good
    <2> DEFINE f == [i \in 0..0 |-> NoneVisited(from)]
    <2>1. AreVisits(f, txs, from, 0)
      BY DEF AreVisits
    <2> QED  BY <2>1
  <1>2. ASSUME NEW m \in Good PROVE m + 1 \in Good
    <2>1. PICK f : AreVisits(f, txs, from, m)
      BY <1>2
    <2>2. m \in Nat
      OBVIOUS
    <2> DEFINE g == [i \in 0..(m + 1) |-> IF i = 0 THEN NoneVisited(from) ELSE Visited(f[i - 1], txs[i].tx)]
    <2>3. ASSUME NEW i \in 0..m PROVE g[i] = f[i]
      BY <2>1, <2>2 DEF AreVisits
    <2>4. ASSUME NEW i \in 0..(m + 1), i # 0 PROVE g[i - 1] = f[i - 1]
      <3>1. i - 1 \in 0..m
        BY <2>2, <2>4
      <3> HIDE DEF g
      <3> QED  BY <2>3, <3>1
    <2>5. g = [i \in 0..(m + 1) |-> IF i = 0 THEN NoneVisited(from) ELSE Visited(g[i - 1], txs[i].tx)]
      BY <2>4
    <2>6. AreVisits(g, txs, from, m + 1)
      BY <2>5 DEF AreVisits
    <2> QED  BY <2>2, <2>6
  <1>3. Good \in SUBSET Nat
    OBVIOUS
  <1> HIDE DEF Good
  <1>4. Good = Nat
    BY <1>1, <1>2, <1>3, AllNaturals
  <1>5. \E f : AreVisits(f, txs, from, Len(txs))
    BY <1>4 DEF Good
  <1> QED  BY <1>5 DEF Visits

(* The same for status. *)
NoneCounted(from) == [ready |-> from, stalled |-> 0, pending |-> 0, future |-> 0]

AreCounts(f, txs, from, m) ==
    f = [i \in 0..m |-> IF i = 0 THEN NoneCounted(from)
                        ELSE Counted(f[i - 1], txs[i].tx, Len(txs) - (i - 1))]

Counts(txs, from) == CHOOSE f : AreCounts(f, txs, from, Len(txs))

LEMMA CountsExist ==
    ASSUME NEW txs, Len(txs) \in Nat, NEW from
    PROVE  AreCounts(Counts(txs, from), txs, from, Len(txs))
  <1> DEFINE Good == {m \in Nat : \E f : AreCounts(f, txs, from, m)}
  <1>1. 0 \in Good
    <2> DEFINE f == [i \in 0..0 |-> NoneCounted(from)]
    <2>1. AreCounts(f, txs, from, 0)
      BY DEF AreCounts
    <2> QED  BY <2>1
  <1>2. ASSUME NEW m \in Good PROVE m + 1 \in Good
    <2>1. PICK f : AreCounts(f, txs, from, m)
      BY <1>2
    <2>2. m \in Nat
      OBVIOUS
    <2> DEFINE At(i, acc) == Counted(acc, txs[i].tx, Len(txs) - (i - 1))
               g == [i \in 0..(m + 1) |-> IF i = 0 THEN NoneCounted(from) ELSE At(i, f[i - 1])]
    <2>3. ASSUME NEW i \in 0..m PROVE g[i] = f[i]
      BY <2>1, <2>2 DEF AreCounts
    <2>4. ASSUME NEW i \in 0..(m + 1), i # 0 PROVE g[i - 1] = f[i - 1]
      <3>1. i - 1 \in 0..m
        BY <2>2, <2>4
      <3> HIDE DEF g
      <3> QED  BY <2>3, <3>1
    <2>5. g = [i \in 0..(m + 1) |-> IF i = 0 THEN NoneCounted(from) ELSE At(i, g[i - 1])]
      <3> HIDE DEF At
      <3> QED  BY <2>4
    <2>6. AreCounts(g, txs, from, m + 1)
      BY <2>5 DEF AreCounts
    <2> QED  BY <2>2, <2>6
  <1>3. Good \in SUBSET Nat
    OBVIOUS
  <1> HIDE DEF Good
  <1>4. Good = Nat
    BY <1>1, <1>2, <1>3, AllNaturals
  <1>5. \E f : AreCounts(f, txs, from, Len(txs))
    BY <1>4 DEF Good
  <1> QED  BY <1>5 DEF Counts

(* The unordered iterator after i transactions of sender s: it has returned the first k of *)
(* them, whose nonces follow on from s's next nonce, and has left s at the first that does not. *)
VisitsTo(acc, i, k, txs, s, from) ==
    /\ k \in 0..i
    /\ acc = [done |-> acc.done, ready |-> acc.ready, out |-> acc.out]
    /\ acc.done \in BOOLEAN
    /\ acc.ready \in [Senders -> Int] /\ acc.ready[s] = from[s] + k
    /\ acc.out = {txs[j].tx : j \in 1..k}
    /\ \A j \in 1..k : Nonce[txs[j].tx] = from[s] + (j - 1)
    /\ ~acc.done => k = i
    /\ acc.done => k < i /\ Nonce[txs[k + 1].tx] # from[s] + k

(* A transaction of a sender's queue. *)
LEMMA SlotFacts ==
    ASSUME NEW s \in Senders, NEW txs, GoodSeq(txs, s), NEW i \in 1..Len(txs)
    PROVE  /\ Len(txs) \in Nat /\ txs[i].tx \in Txs
           /\ Nonce[txs[i].tx] \in Int /\ Sender[txs[i].tx] = s
  <1>1. txs[i] \in Transaction /\ Len(txs) \in Nat
    BY ElementOfSeq, LenProperties DEF GoodSeq
  <1> QED  BY <1>1, NonceAssumption DEF Transaction, GoodSeq

(* What asking about a transaction of sender s answers and leaves. *)
LEMMA AskFacts ==
    ASSUME NEW r \in [Senders -> Int], NEW t \in Txs, NEW s, Sender[t] = s
    PROVE  /\ AfterAsking(r, t) \in [Senders -> Int]
           /\ \/ Readiness(r, t) = "Future" /\ Nonce[t] > r[s] /\ AfterAsking(r, t)[s] = r[s]
              \/ Readiness(r, t) = "Ready" /\ Nonce[t] = r[s] /\ AfterAsking(r, t)[s] = r[s] + 1
              \/ Readiness(r, t) = "Stale" /\ Nonce[t] < r[s] /\ AfterAsking(r, t)[s] = r[s]
  BY ReadinessFacts

LEMMA VisitStep ==
    ASSUME NEW s \in Senders, NEW txs, GoodSeq(txs, s), NEW from \in [Senders -> Int],
           NEW i \in Nat, i + 1 \in 1..Len(txs), NEW acc, NEW k, VisitsTo(acc, i, k, txs, s, from)
    PROVE  \E m : VisitsTo(Visited(acc, txs[i + 1].tx), i + 1, m, txs, s, from)
  <1> DEFINE t == txs[i + 1].tx
             next == Visited(acc, t)
  <1>1. t \in Txs /\ Nonce[t] \in Int /\ Sender[t] = s /\ from[s] \in Int /\ k \in Nat /\ k <= i
    BY SlotFacts DEF VisitsTo
  <1>2. acc.ready \in [Senders -> Int] /\ acc.ready[s] = from[s] + k /\ acc.done \in BOOLEAN
    BY DEF VisitsTo
  <1>3. acc = [done |-> acc.done, ready |-> acc.ready, out |-> acc.out]
    BY DEF VisitsTo
  <1>4. /\ AfterAsking(acc.ready, t) \in [Senders -> Int]
        /\ Readiness(acc.ready, t) = "Ready" <=> Nonce[t] = acc.ready[s]
        /\ Readiness(acc.ready, t) = "Ready" => AfterAsking(acc.ready, t)[s] = acc.ready[s] + 1
    <2> DEFINE r == acc.ready
    <2>1. r \in [Senders -> Int] /\ r[s] \in Int
      BY <1>2
    <2> HIDE DEF r, t
    <2>2. /\ AfterAsking(r, t) \in [Senders -> Int]
          /\ \/ Readiness(r, t) = "Future" /\ Nonce[t] > r[s] /\ AfterAsking(r, t)[s] = r[s]
             \/ Readiness(r, t) = "Ready" /\ Nonce[t] = r[s] /\ AfterAsking(r, t)[s] = r[s] + 1
             \/ Readiness(r, t) = "Stale" /\ Nonce[t] < r[s] /\ AfterAsking(r, t)[s] = r[s]
      BY ONLY <1>1, <2>1, AskFacts
    <2>3. Readiness(r, t) = "Ready" <=> Nonce[t] = r[s]
      BY ONLY <1>1, <2>1, <2>2
    <2> QED  BY <2>2, <2>3 DEF r
  <1>5. CASE acc.done \/ Readiness(acc.ready, t) # "Ready"
    <2>1. next = [done |-> TRUE, ready |-> acc.ready, out |-> acc.out]
      BY <1>3, <1>5 DEF Visited
    <2>2. k < i + 1 /\ Nonce[txs[k + 1].tx] # from[s] + k
      <3>1. CASE acc.done
        BY <1>1, <3>1 DEF VisitsTo
      <3>2. CASE ~acc.done
        <4>1. k = i /\ Readiness(acc.ready, t) # "Ready"
          BY <1>5, <3>2 DEF VisitsTo
        <4>2. Nonce[t] # acc.ready[s]
          BY <1>2, <1>4, <4>1
        <4> QED  BY <1>1, <1>2, <4>1, <4>2
      <3> QED  BY <3>1, <3>2
    <2>3. VisitsTo(next, i + 1, k, txs, s, from)
      <3> HIDE DEF next
      <3>1. k \in 0..(i + 1)
        BY <1>1
      <3>2. next.done = TRUE /\ next.ready = acc.ready /\ next.out = acc.out
        BY <2>1
      <3> QED  BY <2>1, <2>2, <3>1, <3>2 DEF VisitsTo
    <2> QED  BY <2>3
  <1>6. CASE ~acc.done /\ Readiness(acc.ready, t) = "Ready"
    <2>1. k = i
      BY <1>6 DEF VisitsTo
    <2>2. next = [done |-> FALSE, ready |-> AfterAsking(acc.ready, t), out |-> acc.out \cup {t}]
      BY <1>2, <1>3, <1>6 DEF Visited
    <2>3. /\ AfterAsking(acc.ready, t) \in [Senders -> Int] /\ Nonce[t] = from[s] + k
          /\ AfterAsking(acc.ready, t)[s] = from[s] + (k + 1)
      <3> DEFINE r == AfterAsking(acc.ready, t)
      <3>1. r \in [Senders -> Int] /\ Nonce[t] = acc.ready[s] /\ r[s] = acc.ready[s] + 1
        BY <1>6, <1>4
      <3> HIDE DEF r
      <3>2. r[s] = from[s] + (k + 1) /\ Nonce[t] = from[s] + k
        BY <1>1, <1>2, <3>1
      <3> QED  BY <3>1, <3>2 DEF r
    <2>4. acc.out \cup {t} = {txs[j].tx : j \in 1..(k + 1)}
      <3>1. acc.out = {txs[j].tx : j \in 1..k}
        BY DEF VisitsTo
      <3>2. 1..(k + 1) = (1..k) \cup {k + 1}
        BY <1>1
      <3> QED  BY <2>1, <3>1, <3>2
    <2>5. \A j \in 1..(k + 1) : Nonce[txs[j].tx] = from[s] + (j - 1)
      <3>1. \A j \in 1..k : Nonce[txs[j].tx] = from[s] + (j - 1)
        BY DEF VisitsTo
      <3>2. Nonce[txs[k + 1].tx] = from[s] + ((k + 1) - 1)
        BY <1>1, <2>1, <2>3
      <3>3. \A j \in 1..(k + 1) : j \in 1..k \/ j = k + 1
        BY <1>1
      <3> QED  BY <3>1, <3>2, <3>3
    <2>6. VisitsTo(next, i + 1, k + 1, txs, s, from)
      <3> HIDE DEF next
      <3>1. k + 1 \in 0..(i + 1) /\ k + 1 = i + 1
        BY <1>1, <2>1
      <3>2. next.done = FALSE /\ next.ready = AfterAsking(acc.ready, t) /\ next.out = acc.out \cup {t}
        BY <2>2
      <3> QED  BY <2>2, <2>3, <2>4, <2>5, <3>1, <3>2 DEF VisitsTo
    <2> QED  BY <2>6
  <1> QED  BY <1>2, <1>5, <1>6

(* What the unordered iterator returns of a sender's queue: its first k transactions. *)
Drains(q, s, from, k) ==
    /\ k \in 0..Len(q.transactions)
    /\ UnorderedFrom(q, from) = {q.transactions[j].tx : j \in 1..k}
    /\ \A j \in 1..k : Nonce[q.transactions[j].tx] = from[s] + (j - 1)
    /\ k < Len(q.transactions) => Nonce[q.transactions[k + 1].tx] # from[s] + k

LEMMA VisitsProfile ==
    ASSUME NEW s \in Senders, NEW q, GoodSeq(q.transactions, s), NEW from \in [Senders -> Int]
    PROVE  \E k : Drains(q, s, from, k)
  <1> DEFINE txs == q.transactions
             f == Visits(txs, from)
             len == Len(txs)
  <1>1. len \in Nat
    BY LenProperties DEF GoodSeq
  <1>2. AreVisits(f, txs, from, len)
    BY <1>1, VisitsExist
  <1>3. UnorderedFrom(q, from) = f[len].out
    BY DEF UnorderedFrom, Visits, AreVisits, NoneVisited
  <1> HIDE DEF f
  <1>4. ASSUME NEW i \in 0..len
        PROVE f[i] = IF i = 0 THEN NoneVisited(from) ELSE Visited(f[i - 1], txs[i].tx)
    BY <1>2 DEF AreVisits
  <1> HIDE DEF txs, len
  <1> DEFINE Good == {i \in Nat : i <= len => \E k : VisitsTo(f[i], i, k, txs, s, from)}
  <1>5. 0 \in Good
    <2>1. f[0] = NoneVisited(from)
      BY <1>1, <1>4
    <2>2. VisitsTo(f[0], 0, 0, txs, s, from)
      <3>1. from[s] + 0 = from[s] /\ 1..0 = {} /\ 0 \in 0..0
        OBVIOUS
      <3> QED  BY <2>1, <3>1 DEF VisitsTo, NoneVisited
    <2> QED  BY <2>2
  <1>6. ASSUME NEW i \in Good PROVE i + 1 \in Good
    <2>1. i \in Nat /\ (i <= len => \E k : VisitsTo(f[i], i, k, txs, s, from))
      OBVIOUS
    <2> HIDE DEF Good
    <2>2. SUFFICES ASSUME i + 1 <= len PROVE \E k : VisitsTo(f[i + 1], i + 1, k, txs, s, from)
      BY <2>1 DEF Good
    <2>3. PICK k : VisitsTo(f[i], i, k, txs, s, from)
      BY <1>1, <2>1, <2>2
    <2>4. f[i + 1] = Visited(f[i], txs[i + 1].tx)
      <3>1. i + 1 \in 0..len /\ i + 1 # 0 /\ (i + 1) - 1 = i
        BY <1>1, <2>1, <2>2
      <3> QED  BY <1>4, <3>1
    <2>5. i + 1 \in 1..Len(txs) /\ GoodSeq(txs, s)
      BY <1>1, <2>1, <2>2 DEF len, txs
    <2> QED  BY <2>1, <2>3, <2>4, <2>5, VisitStep
  <1>7. Good \in SUBSET Nat
    OBVIOUS
  <1> HIDE DEF Good
  <1>8. Good = Nat
    BY <1>5, <1>6, <1>7, AllNaturals
  <1>9. PICK k : VisitsTo(f[len], len, k, txs, s, from)
    BY <1>1, <1>8 DEF Good
  <1>10. Drains(q, s, from, k)
    BY <1>1, <1>3, <1>9 DEF VisitsTo, Drains, len, txs
  <1> QED  BY <1>10

(***************************************************************************)
(* status after i transactions of sender s: first the stale ones, then the *)
(* ones that follow on from s's next nonce, and, where that ended early,   *)
(* all the others as future.                                               *)
(***************************************************************************)
Profile(a, b, rest, i, txs, s, from) ==
    /\ a \in Nat /\ b \in Nat /\ rest \in Nat
    /\ a + b <= i
    /\ \A j \in 1..a : Nonce[txs[j].tx] < from[s]
    /\ \A j \in (a + 1)..(a + b) : Nonce[txs[j].tx] = from[s] + (j - a - 1)
    /\ rest = 0 => a + b = i
    /\ rest > 0 => /\ a + b < i /\ rest = Len(txs) - (a + b)
                   /\ Nonce[txs[a + b + 1].tx] > from[s] + b

CountsTo(acc, i, txs, s, from) ==
    /\ acc.ready \in [Senders -> Int] /\ acc.ready[s] = from[s] + acc.pending
    /\ Profile(acc.stalled, acc.pending, acc.future, i, txs, s, from)

LEMMA CountStep ==
    ASSUME NEW s \in Senders, NEW txs, GoodSeq(txs, s), NEW from \in [Senders -> Int],
           NEW i \in Nat, i + 1 \in 1..Len(txs), NEW acc, CountsTo(acc, i, txs, s, from)
    PROVE  CountsTo(Counted(acc, txs[i + 1].tx, Len(txs) - i), i + 1, txs, s, from)
  <1> DEFINE t == txs[i + 1].tx
             rest == Len(txs) - i
             next == Counted(acc, t, rest)
             a == acc.stalled
             b == acc.pending
             n == from[s]
             r == acc.ready
  <1>1. t \in Txs /\ Nonce[t] \in Int /\ Sender[t] = s /\ n \in Int /\ Len(txs) \in Nat /\ rest \in Nat \ {0}
    BY SlotFacts
  <1>2. /\ r \in [Senders -> Int] /\ r[s] = n + b
        /\ a \in Nat /\ b \in Nat /\ acc.future \in Nat /\ a + b <= i
    BY DEF CountsTo, Profile
  <1>3. CASE acc.future > 0
    <2>1. next = acc
      BY <1>3 DEF Counted
    <2>2. Profile(a, b, acc.future, i, txs, s, from)
      BY DEF CountsTo
    <2> HIDE DEF a, b
    <2>3. Profile(a, b, acc.future, i + 1, txs, s, from)
      BY <1>2, <1>3, <2>2 DEF Profile
    <2> QED  BY <1>2, <2>1, <2>3 DEF CountsTo, a, b
  <1>4. CASE acc.future = 0
    <2>1. /\ a + b = i
          /\ \A j \in 1..a : Nonce[txs[j].tx] < n
          /\ \A j \in (a + 1)..(a + b) : Nonce[txs[j].tx] = n + (j - a - 1)
      BY <1>4 DEF CountsTo, Profile
    <2>2. next = [ready   |-> AfterAsking(r, t),
                  stalled |-> a + (IF Readiness(r, t) = "Stale" THEN 1 ELSE 0),
                  pending |-> b + (IF Readiness(r, t) = "Ready" THEN 1 ELSE 0),
                  future  |-> IF Readiness(r, t) = "Future" THEN rest ELSE 0]
      BY <1>4 DEF Counted
    <2> HIDE DEF next, a, b, r
    <2>3. t = txs[i + 1].tx
      OBVIOUS
    <2> HIDE DEF t
    <2>4. /\ AfterAsking(r, t) \in [Senders -> Int]
          /\ \/ Readiness(r, t) = "Future" /\ Nonce[t] > r[s] /\ AfterAsking(r, t)[s] = r[s]
             \/ Readiness(r, t) = "Ready" /\ Nonce[t] = r[s] /\ AfterAsking(r, t)[s] = r[s] + 1
             \/ Readiness(r, t) = "Stale" /\ Nonce[t] < r[s] /\ AfterAsking(r, t)[s] = r[s]
      BY ONLY <1>1, <1>2, AskFacts
    <2>5. CASE Readiness(r, t) = "Future"
      <3>1. Nonce[t] > n + b /\ AfterAsking(r, t)[s] = n + b
        BY <1>2, <2>4, <2>5
      <3>2. /\ next.ready = AfterAsking(r, t) /\ next.stalled = a /\ next.pending = b /\ next.future = rest
        BY <1>2, <2>2, <2>5
      <3>3. a + b <= i + 1 /\ a + b < i + 1 /\ rest = Len(txs) - (a + b) /\ rest > 0
        <4>1. a + b = i
          BY <2>1
        <4> HIDE DEF rest
        <4>2. rest > 0
          BY ONLY <1>1
        <4> QED  BY ONLY <4>1, <4>2, i \in Nat DEF rest
      <3>4. Nonce[txs[a + b + 1].tx] > n + b
        BY <2>1, <2>3, <3>1
      <3> HIDE DEF rest, n
      <3>7. Profile(a, b, rest, i + 1, txs, s, from)
        BY <1>1, <1>2, <2>1, <3>3, <3>4 DEF Profile, n
      <3>8. CountsTo(next, i + 1, txs, s, from)
        BY ONLY <2>4, <3>1, <3>2, <3>7 DEF CountsTo, n
      <3> QED  BY <3>8 DEF next, t, rest
    <2>6. CASE Readiness(r, t) = "Ready"
      <3>1. Nonce[t] = n + b /\ AfterAsking(r, t)[s] = n + (b + 1)
        BY <1>1, <1>2, <2>4, <2>6
      <3>2. /\ next.ready = AfterAsking(r, t) /\ next.stalled = a /\ next.pending = b + 1 /\ next.future = 0
        BY <1>2, <2>2, <2>6
      <3>3. b + 1 \in Nat /\ a + (b + 1) = i + 1 /\ a + (b + 1) <= i + 1
        BY <1>2, <2>1
      <3>4. \A j \in (a + 1)..(a + (b + 1)) : Nonce[txs[j].tx] = n + (j - a - 1)
        <4>1. Nonce[txs[a + (b + 1)].tx] = n + ((a + (b + 1)) - a - 1)
          BY <1>1, <1>2, <2>3, <3>1, <3>3
        <4>2. \A j \in (a + 1)..(a + (b + 1)) : j \in (a + 1)..(a + b) \/ j = a + (b + 1)
          BY <1>2
        <4> QED  BY <2>1, <4>1, <4>2
      <3> HIDE DEF n
      <3>7. Profile(a, b + 1, 0, i + 1, txs, s, from)
        BY <1>2, <2>1, <3>3, <3>4 DEF Profile, n
      <3>8. CountsTo(next, i + 1, txs, s, from)
        BY ONLY <2>4, <3>1, <3>2, <3>7 DEF CountsTo, n
      <3> QED  BY <3>8 DEF next, t, rest
    <2>7. CASE Readiness(r, t) = "Stale"
      <3>1. Nonce[t] < n + b /\ AfterAsking(r, t)[s] = n + b
        BY <1>2, <2>4, <2>7
      <3>2. /\ next.ready = AfterAsking(r, t) /\ next.stalled = a + 1 /\ next.pending = b /\ next.future = 0
        BY <1>2, <2>2, <2>7
      <3>3. b = 0
        <4>1. SUFFICES ASSUME b # 0 PROVE FALSE
          OBVIOUS
        <4>2. i \in (a + 1)..(a + b) /\ i \in 1..Len(txs) /\ i < i + 1
          BY <1>1, <1>2, <2>1, <4>1
        <4>3. Nonce[txs[i].tx] = n + (i - a - 1)
          BY <2>1, <4>2
        <4>4. Nonce[txs[i].tx] < Nonce[t]
          BY <2>3, <4>2 DEF GoodSeq
        <4>5. Nonce[t] < n + b /\ Nonce[t] \in Int /\ n \in Int /\ a \in Nat /\ b \in Nat /\ a + b = i
          BY <1>1, <1>2, <2>1, <3>1
        <4> HIDE DEF n
        <4> QED  BY ONLY <4>3, <4>4, <4>5
      <3>4. a + 1 \in Nat /\ (a + 1) + b = i + 1 /\ (a + 1) + b <= i + 1
        BY <1>2, <2>1
      <3>5. \A j \in 1..(a + 1) : Nonce[txs[j].tx] < n
        <4>1. Nonce[txs[a + 1].tx] < n
          BY <1>1, <1>2, <2>1, <2>3, <3>1, <3>3
        <4>2. \A j \in 1..(a + 1) : j \in 1..a \/ j = a + 1
          BY <1>2
        <4> QED  BY <2>1, <4>1, <4>2
      <3>6. ((a + 1) + 1)..((a + 1) + b) = {}
        BY <1>2, <3>3
      <3> HIDE DEF n
      <3>7. Profile(a + 1, b, 0, i + 1, txs, s, from)
        BY ONLY <1>2, <3>4, <3>5, <3>6 DEF Profile, n
      <3>8. CountsTo(next, i + 1, txs, s, from)
        BY ONLY <2>4, <3>1, <3>2, <3>7 DEF CountsTo, n
      <3> QED  BY <3>8 DEF next, t, rest
    <2> QED  BY <2>4, <2>5, <2>6, <2>7
  <1> QED  BY <1>2, <1>3, <1>4

LEMMA StatusProfile ==
    ASSUME NEW s \in Senders, NEW q, GoodSeq(q.transactions, s), NEW from \in [Senders -> Int]
    PROVE  LET r == StatusOf(q, from)
           IN  Profile(r.stalled, r.pending, r.future, Len(q.transactions), q.transactions, s, from)
  <1> DEFINE txs == q.transactions
             f == Counts(txs, from)
             len == Len(txs)
  <1>1. len \in Nat
    BY LenProperties DEF GoodSeq
  <1>2. AreCounts(f, txs, from, len)
    BY <1>1, CountsExist
  <1>3. StatusOf(q, from) = f[len]
    BY DEF StatusOf, Counts, AreCounts, NoneCounted
  <1> HIDE DEF f
  <1>4. ASSUME NEW i \in 0..len
        PROVE f[i] = IF i = 0 THEN NoneCounted(from) ELSE Counted(f[i - 1], txs[i].tx, len - (i - 1))
    BY <1>2 DEF AreCounts
  <1> HIDE DEF txs, len
  <1> DEFINE Good == {i \in Nat : i <= len => CountsTo(f[i], i, txs, s, from)}
  <1>5. 0 \in Good
    <2>1. f[0] = NoneCounted(from)
      BY <1>1, <1>4
    <2>2. CountsTo(f[0], 0, txs, s, from)
      <3>1. from[s] + 0 = from[s] /\ 1..0 = {} /\ (0 + 1)..(0 + 0) = {}
        OBVIOUS
      <3> QED  BY <2>1, <3>1 DEF CountsTo, Profile, NoneCounted
    <2> QED  BY <2>2
  <1>6. ASSUME NEW i \in Good PROVE i + 1 \in Good
    <2>1. i \in Nat /\ (i <= len => CountsTo(f[i], i, txs, s, from))
      OBVIOUS
    <2> HIDE DEF Good
    <2>2. SUFFICES ASSUME i + 1 <= len PROVE CountsTo(f[i + 1], i + 1, txs, s, from)
      BY <2>1 DEF Good
    <2>3. CountsTo(f[i], i, txs, s, from)
      BY <1>1, <2>1, <2>2
    <2>4. f[i + 1] = Counted(f[i], txs[i + 1].tx, len - i)
      <3>1. i + 1 \in 0..len /\ i + 1 # 0 /\ (i + 1) - 1 = i
        BY <1>1, <2>1, <2>2
      <3> QED  BY <1>4, <3>1
    <2>5. i + 1 \in 1..Len(txs) /\ GoodSeq(txs, s) /\ len = Len(txs)
      BY <1>1, <2>1, <2>2 DEF len, txs
    <2> QED  BY <2>1, <2>3, <2>4, <2>5, CountStep
  <1>7. Good \in SUBSET Nat
    OBVIOUS
  <1> HIDE DEF Good
  <1>8. Good = Nat
    BY <1>5, <1>6, <1>7, AllNaturals
  <1>9. CountsTo(f[len], len, txs, s, from)
    BY <1>1, <1>8 DEF Good
  <1> QED  BY <1>3, <1>9 DEF CountsTo, len, txs

(* The transactions at places a to b of a queue. *)
Segment(txs, a, b) == {txs[j].tx : j \in a..b}

LEMMA SegmentSize ==
    ASSUME NEW s \in Senders, NEW txs, GoodSeq(txs, s),
           NEW a \in Nat, NEW b \in Nat, a <= b, b <= Len(txs)
    PROVE  IsFiniteSet(Segment(txs, a + 1, b)) /\ Cardinality(Segment(txs, a + 1, b)) = b - a
  <1> DEFINE I == (a + 1)..b
             E == Segment(txs, a + 1, b)
             f == [j \in I |-> txs[j].tx]
  <1>0. Len(txs) \in Nat
    BY LenProperties DEF GoodSeq
  <1>1. ASSUME NEW i \in I, NEW j \in I, txs[i].tx = txs[j].tx PROVE i = j
    <2>1. i \in 1..Len(txs) /\ j \in 1..Len(txs)
      BY <1>0
    <2>2. Nonce[txs[i].tx] \in Int
      BY <2>1, SlotFacts
    <2>3. ~(i < j) /\ ~(j < i)
      BY <1>1, <2>1, <2>2 DEF GoodSeq
    <2> QED  BY <2>1, <2>3
  <1>2. f \in [I -> E] /\ \A e \in E : \E j \in I : f[j] = e
    BY DEF Segment
  <1>3. IsFiniteSet(I) /\ Cardinality(I) = b - a
    <2>1. a + 1 \in Int /\ b \in Int /\ (a + 1 > b => b - a = 0) /\ b - (a + 1) + 1 = b - a
      OBVIOUS
    <2> QED  BY <2>1, FS_Interval
  <1>4. \A i, j \in I : f[i] = f[j] => i = j
    BY <1>1
  <1> HIDE DEF f, E, I
  <1>5. f \in Bijection(I, E)
    BY <1>2, <1>4 DEF Bijection, Injection, Surjection, IsInjective
  <1>6. ExistsBijection(I, E)
    BY <1>5 DEF ExistsBijection
  <1>7. IsFiniteSet(E) /\ Cardinality(E) = b - a
    BY <1>3, <1>6, FS_Bijection
  <1> QED  BY <1>7 DEF E

(* What is neither stale nor executable. *)
FutureTxs(from) == DOMAIN by_hash \ (StaleTxs(from) \cup Executable(from, Senders))

OfSender(U, s) == {t \in U : Sender[t] = s}

(* The three classes of a sender's transactions are three parts of its queue. *)
LEMMA Classes ==
    ASSUME IInv, NEW s \in DOMAIN transactions, NEW from \in [Senders -> Int],
           NEW txs, txs = transactions[s].transactions,
           NEW a, NEW b, NEW rest, Profile(a, b, rest, Len(txs), txs, s, from)
    PROVE  /\ OfSender(StaleTxs(from), s) = Segment(txs, 1, a)
           /\ OfSender(Executable(from, Senders), s) = Segment(txs, a + 1, a + b)
           /\ OfSender(FutureTxs(from), s) = Segment(txs, a + b + 1, Len(txs))
           /\ rest = Len(txs) - (a + b) /\ a + b <= Len(txs)
           /\ GoodSeq(txs, s) /\ s \in Senders
  <1> DEFINE len == Len(txs)
             n == from[s]
             k == a + b
             At(j) == Nonce[txs[j].tx]
  <1>1. GoodSeq(txs, s) /\ s \in Senders
    BY DEF IInv, QueuesGood, GoodQueue
  <1>2. /\ len \in Nat /\ n \in Int /\ a \in Nat /\ b \in Nat /\ rest \in Nat /\ k \in Nat /\ k <= len
        /\ rest = len - k
    <2>1. len \in Nat
      BY <1>1, LenProperties DEF GoodSeq
    <2> QED  BY <1>1, <2>1 DEF Profile
  <1>3. ASSUME NEW j \in 1..len
        PROVE  At(j) \in Int /\ txs[j].tx \in DOMAIN by_hash /\ Sender[txs[j].tx] = s
    <2>1. PoolConsistent
      BY Recast
    <2>2. txs[j].tx \in DOMAIN by_hash
      BY <2>1 DEF PoolConsistent, HashIndexExact
    <2> QED  BY <1>1, <2>2, SlotFacts
  <1>4. ASSUME NEW t \in DOMAIN by_hash, Sender[t] = s PROVE \E j \in 1..len : txs[j].tx = t
    BY <1>4, HashInQueue
  <1>5. ASSUME NEW j \in 1..a PROVE j \in 1..len /\ At(j) < n
    BY <1>2 DEF Profile
  <1>6. ASSUME NEW j \in (a + 1)..k PROVE j \in 1..len /\ At(j) = n + (j - a - 1)
    BY <1>2 DEF Profile
  <1>7. ASSUME NEW j \in (k + 1)..len PROVE j \in 1..len /\ At(j) > n + b
    <2>1. rest > 0 /\ k + 1 \in 1..len /\ j \in 1..len
      BY <1>2
    <2>2. At(k + 1) > n + b
      BY <2>1 DEF Profile
    <2>3. CASE j = k + 1
      BY <2>1, <2>2, <2>3
    <2>4. CASE j # k + 1
      <3>1. k + 1 < j
        BY <1>2, <2>4
      <3>2. At(k + 1) < At(j)
        BY <1>1, <2>1, <3>1 DEF GoodSeq
      <3>3. At(k + 1) \in Int /\ At(j) \in Int
        BY <1>3, <2>1
      <3> QED  BY <1>2, <2>1, <2>2, <3>2, <3>3
    <2> QED  BY <2>3, <2>4
  <1>8. \A j \in 1..len : j \in 1..a \/ j \in (a + 1)..k \/ j \in (k + 1)..len
    BY <1>2
  <1> HIDE DEF k, n, At
  <1>9. ASSUME NEW j \in 1..len
        PROVE  /\ txs[j].tx \in StaleTxs(from) <=> j \in 1..a
               /\ txs[j].tx \in Executable(from, Senders) <=> j \in (a + 1)..k
    <2> DEFINE t == txs[j].tx
    <2>1. /\ t \in DOMAIN by_hash /\ Sender[t] = s /\ Nonce[t] = At(j) /\ At(j) \in Int /\ from[s] = n
      BY <1>3 DEF At, n
    <2> HIDE DEF t
    <2>2. t \in StaleTxs(from) <=> At(j) < n
      BY <2>1 DEF StaleTxs
    <2>3. t \in Executable(from, Senders) <=>
             /\ n <= At(j)
             /\ \A m \in n..At(j) : \E u \in DOMAIN by_hash : Sender[u] = s /\ Nonce[u] = m
      BY <1>1, <2>1 DEF Executable
    <2>4. CASE j \in 1..a
      <3>1. At(j) < n /\ ~(n <= At(j)) /\ j \notin (a + 1)..k
        BY <1>2, <1>5, <2>1, <2>4
      <3> QED  BY <2>2, <2>3, <2>4, <3>1 DEF t
    <2>5. CASE j \in (a + 1)..k
      <3>1. At(j) = n + (j - a - 1) /\ n <= At(j) /\ ~(At(j) < n) /\ j \notin 1..a
        BY <1>2, <1>6, <2>5
      <3>2. ASSUME NEW m \in n..At(j)
            PROVE  \E u \in DOMAIN by_hash : Sender[u] = s /\ Nonce[u] = m
        <4> DEFINE i == m - n + a + 1
        <4>1. i \in (a + 1)..k /\ n + (i - a - 1) = m
          BY <1>2, <2>5, <3>1
        <4> HIDE DEF i
        <4>2. i \in 1..len /\ At(i) = m
          BY <1>6, <4>1
        <4>3. txs[i].tx \in DOMAIN by_hash /\ Sender[txs[i].tx] = s /\ Nonce[txs[i].tx] = m
          BY <1>3, <4>2 DEF At
        <4> QED  BY <4>3
      <3> QED  BY <2>2, <2>3, <2>5, <3>1, <3>2 DEF t
    <2>6. CASE j \in (k + 1)..len
      <3>1. At(j) > n + b /\ ~(At(j) < n) /\ j \notin 1..a /\ j \notin (a + 1)..k /\ n + b \in n..At(j)
        BY <1>2, <1>7, <2>1, <2>6 DEF k
      <3>2. ASSUME NEW u \in DOMAIN by_hash, Sender[u] = s, Nonce[u] = n + b PROVE FALSE
        <4>1. PICK i \in 1..len : txs[i].tx = u
          BY <1>4, <3>2
        <4>2. At(i) = n + b
          BY <3>2, <4>1 DEF At
        <4>3. CASE i \in 1..a
          BY <1>2, <1>5, <4>2, <4>3
        <4>4. CASE i \in (a + 1)..k
          BY <1>2, <1>6, <4>2, <4>4 DEF k
        <4>5. CASE i \in (k + 1)..len
          BY <1>2, <1>7, <4>2, <4>5
        <4> QED  BY <1>8, <4>3, <4>4, <4>5
      <3> QED  BY <2>2, <2>3, <3>1, <3>2 DEF t
    <2> QED  BY <1>8, <2>4, <2>5, <2>6
  <1>10. \A j \in 1..len : txs[j].tx \in FutureTxs(from) <=> j \in (k + 1)..len
    <2>1. \A j \in 1..len : j \in (k + 1)..len <=> j \notin 1..a /\ j \notin (a + 1)..k
      BY <1>2 DEF k
    <2> QED  BY <1>3, <1>9, <2>1 DEF FutureTxs
  <1>11. /\ 1..a \subseteq 1..len /\ (a + 1)..k \subseteq 1..len /\ (k + 1)..len \subseteq 1..len
    BY <1>5, <1>6, <1>7
  <1>12. ASSUME NEW U \in SUBSET (DOMAIN by_hash), NEW I \in SUBSET (1..len),
                \A j \in 1..len : txs[j].tx \in U <=> j \in I
         PROVE  OfSender(U, s) = {txs[j].tx : j \in I}
    <2>1. ASSUME NEW j \in I PROVE txs[j].tx \in U /\ Sender[txs[j].tx] = s
      BY <1>3, <1>12
    <2>2. ASSUME NEW t \in U, Sender[t] = s PROVE \E j \in I : txs[j].tx = t
      BY <1>4, <1>12, <2>2
    <2> QED  BY <2>1, <2>2 DEF OfSender
  <1>13. /\ StaleTxs(from) \subseteq DOMAIN by_hash /\ Executable(from, Senders) \subseteq DOMAIN by_hash
         /\ FutureTxs(from) \subseteq DOMAIN by_hash
    BY DEF StaleTxs, Executable, FutureTxs
  <1>14. OfSender(StaleTxs(from), s) = Segment(txs, 1, a)
    BY <1>9, <1>11, <1>12, <1>13 DEF Segment
  <1>15. OfSender(Executable(from, Senders), s) = Segment(txs, a + 1, k)
    BY <1>9, <1>11, <1>12, <1>13 DEF Segment
  <1>16. OfSender(FutureTxs(from), s) = Segment(txs, k + 1, len)
    BY <1>10, <1>11, <1>12, <1>13 DEF Segment
  <1> QED  BY <1>1, <1>2, <1>14, <1>15, <1>16 DEF k

(* The unordered iterator with one sender: its executable transactions, or nothing behind a stale one. *)
LEMMA UnorderedSender ==
    ASSUME IInv, NEW s \in DOMAIN transactions, NEW from \in [Senders -> Int]
    PROVE  /\ UnorderedFrom(transactions[s], from) \subseteq OfSender(Executable(from, Senders), s)
           /\ StaleTxs(from) = {} =>
                 UnorderedFrom(transactions[s], from) = OfSender(Executable(from, Senders), s)
  <1> DEFINE q == transactions[s]
             txs == q.transactions
             len == Len(txs)
             r == StatusOf(q, from)
             a == r.stalled
             b == r.pending
             n == from[s]
             At(j) == Nonce[txs[j].tx]
  <1>1. s \in Senders /\ GoodSeq(txs, s) /\ len \in Nat /\ n \in Int
    <2>1. s \in Senders /\ GoodSeq(txs, s)
      BY DEF IInv, QueuesGood, GoodQueue
    <2> QED  BY <2>1, LenProperties DEF GoodSeq
  <1>2. Profile(a, b, r.future, len, txs, s, from)
    BY <1>1, StatusProfile
  <1>10. PICK k : Drains(q, s, from, k)
    BY <1>1, VisitsProfile
  <1>3. /\ k \in 0..len
        /\ UnorderedFrom(q, from) = {txs[j].tx : j \in 1..k}
        /\ \A j \in 1..k : At(j) = n + (j - 1)
        /\ k < len => At(k + 1) # n + k
    BY <1>10 DEF Drains
  <1>4. /\ OfSender(StaleTxs(from), s) = Segment(txs, 1, a)
        /\ OfSender(Executable(from, Senders), s) = Segment(txs, a + 1, a + b)
        /\ a + b <= len /\ a \in Nat /\ b \in Nat /\ r.future \in Nat /\ r.future = len - (a + b)
    <2>1. a \in Nat /\ b \in Nat /\ r.future \in Nat
      BY <1>2 DEF Profile
    <2>2. /\ OfSender(StaleTxs(from), s) = Segment(txs, 1, a)
          /\ OfSender(Executable(from, Senders), s) = Segment(txs, a + 1, a + b)
          /\ r.future = len - (a + b) /\ a + b <= len
      BY <1>2, Classes
    <2> QED  BY <2>1, <2>2
  <1>5. UnorderedFrom(q, from) = Segment(txs, 1, k) /\ k \in Nat
    BY <1>1, <1>3 DEF Segment
  <1>6. ASSUME NEW j \in 1..len PROVE At(j) \in Int
    BY <1>1, SlotFacts
  <1>7. /\ \A j \in 1..a : At(j) < n
        /\ \A j \in (a + 1)..(a + b) : At(j) = n + (j - a - 1)
        /\ r.future > 0 => At(a + b + 1) > n + b
    BY <1>2 DEF Profile
  <1> DEFINE rest == r.future
  <1> HIDE DEF a, b, rest, r, n, At, txs, len
  <1>8. CASE a > 0
    <2>1. k = 0
      <3>1. SUFFICES ASSUME k > 0 PROVE FALSE
        BY <1>5
      <3>2. 1 \in 1..k /\ 1 \in 1..a /\ 1 \in 1..len
        BY <1>1, <1>3, <1>4, <1>8, <3>1
      <3>3. At(1) = n + (1 - 1) /\ At(1) < n
        BY <1>3, <1>7, <3>2
      <3> QED  BY <1>1, <3>3
    <2>2. Segment(txs, 1, k) = {}
      BY <2>1 DEF Segment
    <2>3. Segment(txs, 1, a) # {}
      <3>1. 1 \in 1..a
        BY <1>4, <1>8
      <3> QED  BY <3>1 DEF Segment
    <2>4. StaleTxs(from) # {}
      BY <1>4, <2>3 DEF OfSender
    <2> QED  BY <1>5, <2>2, <2>4
  <1>9. CASE a = 0
    <2>1. k = b
      <3>1. ~(k < b)
        <4>1. SUFFICES ASSUME k < b PROVE FALSE
          OBVIOUS
        <4>2. k + 1 \in (a + 1)..(a + b) /\ k < len /\ (k + 1) - a - 1 = k
          BY <1>1, <1>4, <1>5, <1>9, <4>1
        <4> QED  BY <1>3, <1>7, <4>2
      <3>2. ~(b < k)
        <4>1. SUFFICES ASSUME b < k PROVE FALSE
          OBVIOUS
        <4>2. b + 1 \in 1..k /\ len - (a + b) > 0 /\ (b + 1) - 1 = b /\ a + b + 1 = b + 1
          BY <1>1, <1>3, <1>4, <1>9, <4>1
        <4>3. At(b + 1) = n + b
          BY <1>3, <4>2
        <4>4. r.future > 0
          BY <1>4, <4>2
        <4>5. At(b + 1) > n + b
          BY <1>7, <4>2, <4>4
        <4> QED  BY <1>1, <1>4, <4>3, <4>5
      <3> QED  BY <1>4, <1>5, <3>1, <3>2
    <2>2. a + 1 = 1 /\ a + b = b
      BY <1>4, <1>9
    <2> QED  BY <1>4, <1>5, <2>1, <2>2
  <1> QED  BY <1>4, <1>8, <1>9

(* Numbers of elements per sender add up to the number of elements. *)
LEMMA SumOfSenders ==
    ASSUME NEW D, IsFiniteSet(D), NEW U, IsFiniteSet(U), NEW f,
           \A s \in D : f[s] = Cardinality(OfSender(U, s)),
           \A t \in U : Sender[t] \in D
    PROVE  SumOf(f, D) = Cardinality(U)
  <1> DEFINE Among(R) == {t \in U : Sender[t] \in R}
             Good == {m \in Nat : \A R \in SUBSET D :
                         Cardinality(R) = m => SumOf(f, R) = Cardinality(Among(R))}
  <1>1. ASSUME NEW R \in SUBSET D PROVE IsFiniteSet(R) /\ Cardinality(R) \in Nat
    BY FS_Subset, FS_CardinalityType
  <1>2. 0 \in Good
    <2> SUFFICES ASSUME NEW R \in SUBSET D, Cardinality(R) = 0 PROVE SumOf(f, R) = Cardinality(Among(R))
      OBVIOUS
    <2>1. R = {}
      BY <1>1, FS_EmptySet
    <2>2. Among(R) = {} /\ SumOf(f, R) = 0
      BY <1>1, <2>1, SumUnfold
    <2>3. Cardinality({}) = 0
      BY FS_EmptySet
    <2> QED  BY <2>2, <2>3
  <1>3. ASSUME NEW m \in Good PROVE m + 1 \in Good
    <2>1. m \in Nat /\ \A R \in SUBSET D : Cardinality(R) = m => SumOf(f, R) = Cardinality(Among(R))
      OBVIOUS
    <2> SUFFICES ASSUME NEW R \in SUBSET D, Cardinality(R) = m + 1
                 PROVE  SumOf(f, R) = Cardinality(Among(R))
      BY <2>1
    <2> HIDE DEF Good
    <2>2. IsFiniteSet(R) /\ R # {}
      <3>1. Cardinality({}) = 0 /\ m + 1 # 0
        BY <2>1, FS_EmptySet
      <3> QED  BY <1>1, <3>1
    <2> DEFINE p == Pick(R)
               Q == R \ {p}
    <2>3. p \in R /\ Cardinality(Q) = (m + 1) - 1 /\ Q \in SUBSET D
      BY <2>2, PickOne
    <2>4. SumOf(f, R) = f[p] + SumOf(f, Q)
      BY <2>2, SumUnfold
    <2> HIDE DEF p, Q
    <2>5. SumOf(f, Q) = Cardinality(Among(Q))
      BY <2>1, <2>3
    <2>6. /\ Among(R) = Among(Q) \cup OfSender(U, p) /\ Among(Q) \cap OfSender(U, p) = {}
      BY <2>3 DEF OfSender, Q
    <2>7. IsFiniteSet(Among(Q)) /\ IsFiniteSet(OfSender(U, p))
      BY FS_Subset DEF OfSender
    <2>8. Cardinality(Among(Q)) \in Nat /\ Cardinality(OfSender(U, p)) \in Nat /\ Cardinality({}) = 0
      BY <2>7, FS_CardinalityType, FS_EmptySet
    <2> HIDE DEF Among
    <2>9. Cardinality(Among(R)) =
             Cardinality(Among(Q)) + Cardinality(OfSender(U, p)) - Cardinality({})
      BY <2>6, <2>7, FS_Union
    <2>10. f[p] = Cardinality(OfSender(U, p))
      BY <2>3
    <2> QED  BY <2>4, <2>5, <2>8, <2>9, <2>10
  <1>4. Good \in SUBSET Nat
    OBVIOUS
  <1>5. Among(D) = U
    OBVIOUS
  <1> HIDE DEF Good
  <1>6. Good = Nat
    BY <1>2, <1>3, <1>4, AllNaturals
  <1>7. SumOf(f, D) = Cardinality(Among(D))
    BY <1>1, <1>6 DEF Good
  <1> QED  BY <1>5, <1>7

(* What status counts for one sender. *)
LEMMA StatusSender ==
    ASSUME IInv, NEW s \in DOMAIN transactions, NEW from \in [Senders -> Int]
    PROVE  LET r == StatusOf(transactions[s], from)
           IN  /\ r.stalled = Cardinality(OfSender(StaleTxs(from), s))
               /\ r.pending = Cardinality(OfSender(Executable(from, Senders), s))
               /\ r.future = Cardinality(OfSender(FutureTxs(from), s))
  <1> DEFINE q == transactions[s]
             txs == q.transactions
             len == Len(txs)
             r == StatusOf(q, from)
             a == r.stalled
             b == r.pending
  <1>1. s \in Senders /\ GoodSeq(txs, s) /\ len \in Nat
    <2>1. s \in Senders /\ GoodSeq(txs, s)
      BY DEF IInv, QueuesGood, GoodQueue
    <2> QED  BY <2>1, LenProperties DEF GoodSeq
  <1>2. Profile(a, b, r.future, len, txs, s, from)
    BY <1>1, StatusProfile
  <1>3. a \in Nat /\ b \in Nat
    BY <1>2 DEF Profile
  <1>4. /\ OfSender(StaleTxs(from), s) = Segment(txs, 1, a)
        /\ OfSender(Executable(from, Senders), s) = Segment(txs, a + 1, a + b)
        /\ OfSender(FutureTxs(from), s) = Segment(txs, a + b + 1, len)
        /\ r.future = len - (a + b) /\ a + b <= len
    BY <1>2, Classes
  <1> HIDE DEF a, b, txs, len
  <1>5. /\ 0 + 1 = 1 /\ 0 <= a /\ a <= len /\ a - 0 = a /\ 0 \in Nat
        /\ a <= a + b /\ (a + b) - a = b /\ a + b \in Nat
    BY <1>1, <1>3, <1>4
  <1>6. Cardinality(Segment(txs, 0 + 1, a)) = a - 0
    BY <1>1, <1>3, <1>5, SegmentSize DEF len
  <1>7. Cardinality(Segment(txs, a + 1, a + b)) = (a + b) - a
    BY <1>1, <1>3, <1>4, <1>5, SegmentSize DEF len
  <1>8. Cardinality(Segment(txs, a + b + 1, len)) = len - (a + b)
    <2> DEFINE c == a + b
    <2>1. c \in Nat /\ c <= len
      BY <1>4, <1>5
    <2> HIDE DEF c
    <2>2. Cardinality(Segment(txs, c + 1, len)) = len - c
      <3>1. len <= Len(txs)
        BY <1>1 DEF len
      <3> QED  BY ONLY <1>1, <2>1, <3>1, SegmentSize
    <2> QED  BY <2>2 DEF c
  <1> QED  BY <1>4, <1>5, <1>6, <1>7, <1>8 DEF a, b

LEMMA StatusTotals ==
    ASSUME IInv, IsFiniteSet(DOMAIN by_hash), NEW from \in [Senders -> Int]
    PROVE  /\ Status(from).stalled = Cardinality(StaleTxs(from))
           /\ Status(from).pending = Cardinality(Executable(from, Senders))
           /\ Status(from).future = Cardinality(FutureTxs(from))
           /\ IsFiniteSet(DOMAIN transactions)
           /\ DOMAIN transactions = {} <=> DOMAIN by_hash = {}
  <1> DEFINE D == DOMAIN transactions
             of == [s \in D |-> StatusOf(transactions[s], from)]
             stalled == [s \in D |-> of[s].stalled]
             pending == [s \in D |-> of[s].pending]
             future == [s \in D |-> of[s].future]
  <1>1. Status(from) = [stalled |-> SumOf(stalled, D), pending |-> SumOf(pending, D), future |-> SumOf(future, D)]
    BY DEF Status
  <1>2. PoolConsistent
    BY Recast
  <1>3. \A t \in DOMAIN by_hash : Sender[t] \in D
    BY <1>2 DEF PoolConsistent, HashIndexExact
  <1>4. \A s \in D : \E t \in DOMAIN by_hash : Sender[t] = s
    <2> SUFFICES ASSUME NEW s \in D PROVE \E t \in DOMAIN by_hash : Sender[t] = s
      OBVIOUS
    <2> DEFINE txs == transactions[s].transactions
    <2>1. Len(txs) \in Nat /\ Len(txs) > 0 /\ \A i \in 1..Len(txs) : Sender[txs[i].tx] = s
      BY <1>2, LenProperties DEF PoolConsistent, QueuesSorted, TypeOK, IsQueue
    <2>2. 1 \in 1..Len(txs)
      BY <2>1
    <2>3. txs[1].tx \in DOMAIN by_hash
      BY <1>2, <2>2 DEF PoolConsistent, HashIndexExact
    <2> QED  BY <2>1, <2>2, <2>3
  <1>5. IsFiniteSet(D)
    <2> DEFINE f == [t \in DOMAIN by_hash |-> Sender[t]]
    <2>1. f \in Surjection(DOMAIN by_hash, D)
      BY <1>3, <1>4 DEF Surjection
    <2> QED  BY <2>1, FS_Surjection
  <1>6. ASSUME NEW s \in D
        PROVE  /\ stalled[s] = Cardinality(OfSender(StaleTxs(from), s))
               /\ pending[s] = Cardinality(OfSender(Executable(from, Senders), s))
               /\ future[s] = Cardinality(OfSender(FutureTxs(from), s))
    <2>1. /\ stalled[s] = StatusOf(transactions[s], from).stalled
          /\ pending[s] = StatusOf(transactions[s], from).pending
          /\ future[s] = StatusOf(transactions[s], from).future
      OBVIOUS
    <2> QED  BY <2>1, StatusSender
  <1>7. /\ StaleTxs(from) \subseteq DOMAIN by_hash /\ Executable(from, Senders) \subseteq DOMAIN by_hash
        /\ FutureTxs(from) \subseteq DOMAIN by_hash
    BY DEF StaleTxs, Executable, FutureTxs
  <1>8. /\ IsFiniteSet(StaleTxs(from)) /\ IsFiniteSet(Executable(from, Senders))
        /\ IsFiniteSet(FutureTxs(from))
    BY <1>7, FS_Subset
  <1> HIDE DEF stalled, pending, future, D
  <1>9. SumOf(stalled, D) = Cardinality(StaleTxs(from))
    BY <1>3, <1>5, <1>6, <1>7, <1>8, SumOfSenders
  <1>10. SumOf(pending, D) = Cardinality(Executable(from, Senders))
    BY <1>3, <1>5, <1>6, <1>7, <1>8, SumOfSenders
  <1>11. SumOf(future, D) = Cardinality(FutureTxs(from))
    BY <1>3, <1>5, <1>6, <1>7, <1>8, SumOfSenders
  <1>12. D = {} <=> DOMAIN by_hash = {}
    BY <1>3, <1>4
  <1> QED  BY <1>1, <1>5, <1>9, <1>10, <1>11, <1>12 DEF D

(* The three classes are all of the pool, each transaction in one of them. *)
LEMMA ClassesAddUp ==
    ASSUME IsFiniteSet(DOMAIN by_hash), DOMAIN by_hash \subseteq Txs, NEW from \in [Senders -> Int]
    PROVE  Cardinality(StaleTxs(from)) + Cardinality(Executable(from, Senders))
             + Cardinality(FutureTxs(from)) = Cardinality(DOMAIN by_hash)
  <1> DEFINE H == DOMAIN by_hash
             S == StaleTxs(from)
             E == Executable(from, Senders)
             F == FutureTxs(from)
  <1>1. S \subseteq H /\ E \subseteq H /\ F = H \ (S \cup E)
    BY DEF StaleTxs, Executable, FutureTxs
  <1>2. S \cap E = {}
    <2> SUFFICES ASSUME NEW t \in S, t \in E PROVE FALSE
      OBVIOUS
    <2>1. t \in Txs /\ Nonce[t] < from[Sender[t]] /\ from[Sender[t]] <= Nonce[t]
      BY DEF StaleTxs, Executable
    <2>2. Nonce[t] \in Int /\ from[Sender[t]] \in Int
      BY <2>1, NonceAssumption, SenderAssumption
    <2> QED  BY <2>1, <2>2
  <1> HIDE DEF H, S, E, F
  <1>3. IsFiniteSet(H) /\ IsFiniteSet(S) /\ IsFiniteSet(E) /\ IsFiniteSet(F) /\ IsFiniteSet(S \cup E)
    <2>1. IsFiniteSet(H)
      BY DEF H
    <2>2. S \cup E \subseteq H /\ F \subseteq H
      BY <1>1
    <2> QED  BY <1>1, <2>1, <2>2, FS_Subset
  <1>4. Cardinality(S \cup E) = Cardinality(S) + Cardinality(E) - Cardinality({})
    BY <1>2, <1>3, FS_Union
  <1>5. (S \cup E) \cup F = H /\ (S \cup E) \cap F = {}
    BY <1>1
  <1>6. Cardinality(H) = Cardinality(S \cup E) + Cardinality(F) - Cardinality({})
    BY <1>3, <1>5, FS_Union
  <1>7. /\ Cardinality({}) = 0 /\ Cardinality(S) \in Nat /\ Cardinality(E) \in Nat
        /\ Cardinality(F) \in Nat /\ Cardinality(S \cup E) \in Nat
    BY <1>3, FS_EmptySet, FS_CardinalityType
  <1>8. Cardinality(S) + Cardinality(E) + Cardinality(F) = Cardinality(H)
    BY <1>4, <1>6, <1>7
  <1> QED  BY <1>8 DEF H, S, E, F

LEMMA ConsistentReads ==
    ASSUME IInv, IsFiniteSet(DOMAIN by_hash)
    PROVE  ReadsAgree
  <1> SUFFICES ASSUME NEW from \in Starts
               PROVE  /\ UnorderedPending(from) \subseteq Executable(from, Senders)
                      /\ StaleTxs(from) = {} => UnorderedPending(from) = Executable(from, Senders)
                      /\ Status(from).stalled = Cardinality(StaleTxs(from))
                      /\ Status(from).pending = Cardinality(Executable(from, Senders))
                      /\ Status(from).stalled + Status(from).pending + Status(from).future
                            = LightStatus.transaction_count
                      /\ (LightStatus.senders = 0) = (LightStatus.transaction_count = 0)
    BY DEF ReadsAgree
  <1> DEFINE E == Executable(from, Senders)
  <1>1. from \in [Senders -> Int]
    BY StartsAssumption
  <1>2. ASSUME NEW s \in DOMAIN transactions
        PROVE  /\ UnorderedFrom(transactions[s], from) \subseteq OfSender(E, s)
               /\ StaleTxs(from) = {} => UnorderedFrom(transactions[s], from) = OfSender(E, s)
    BY <1>1, UnorderedSender
  <1>3. \A t \in E : Sender[t] \in DOMAIN transactions
    <2>1. PoolConsistent
      BY Recast
    <2> QED  BY <2>1 DEF PoolConsistent, HashIndexExact, Executable
  <1>4. UnorderedPending(from) \subseteq E
    BY <1>2 DEF UnorderedPending, OfSender
  <1>5. StaleTxs(from) = {} => E \subseteq UnorderedPending(from)
    <2> SUFFICES ASSUME StaleTxs(from) = {}, NEW t \in E PROVE t \in UnorderedPending(from)
      OBVIOUS
    <2>1. t \in OfSender(E, Sender[t]) /\ Sender[t] \in DOMAIN transactions
      BY <1>3 DEF OfSender
    <2> QED  BY <1>2, <2>1 DEF UnorderedPending
  <1>6. /\ Status(from).stalled = Cardinality(StaleTxs(from))
        /\ Status(from).pending = Cardinality(E)
        /\ Status(from).future = Cardinality(FutureTxs(from))
        /\ IsFiniteSet(DOMAIN transactions)
        /\ DOMAIN transactions = {} <=> DOMAIN by_hash = {}
    BY <1>1, StatusTotals
  <1>7. DOMAIN by_hash \subseteq Txs
    BY DEF IInv, HashGood
  <1>8. Cardinality(StaleTxs(from)) + Cardinality(E) + Cardinality(FutureTxs(from))
           = Cardinality(DOMAIN by_hash)
    BY <1>1, <1>7, ClassesAddUp
  <1>9. /\ LightStatus.transaction_count = Cardinality(DOMAIN by_hash)
        /\ LightStatus.senders = Cardinality(DOMAIN transactions)
    BY DEF LightStatus
  <1>10. Cardinality(DOMAIN transactions) = 0 <=> Cardinality(DOMAIN by_hash) = 0
    BY <1>6, FS_EmptySet
  <1>11. (LightStatus.senders = 0) = (LightStatus.transaction_count = 0)
    BY <1>9, <1>10
  <1>12. Status(from).stalled + Status(from).pending + Status(from).future
            = LightStatus.transaction_count
    BY ONLY <1>6, <1>8, <1>9
  <1> QED  BY <1>4, <1>5, <1>6, <1>11, <1>12

(***************************************************************************)
(* The unordered iterator and status agree with the pending iterator, for  *)
(* any pool and any next nonces: their one-pass answers, with a Ready that *)
(* changes as it is asked, are the classes defined over the whole pool.    *)
(***************************************************************************)
THEOREM ReadsStayAgreed == ReadSpec => []ReadsAgree
  <1>1. ReadInit => Init /\ MemInv
    <2> SUFFICES ASSUME ReadInit PROVE Init /\ MemInv
      OBVIOUS
    <2>1. Init
      BY DEF ReadInit
    <2>2. DOMAIN by_hash = {} /\ mem_usage = 0
      BY <2>1 DEF Init
    <2>3. IsFiniteSet({}) /\ TotalMem({}) = 0
      BY FS_EmptySet, TotalUnfold
    <2> QED  BY <2>1, <2>2, <2>3 DEF MemInv, MemUsageExact
  <1>2. IInv /\ MemInv /\ [Next]_vars => MemInv'
    BY NextKeepsMem
  <1>3. [ReadNext]_allVars => [Next]_vars
    BY ReadsOnly
  <1>4. IInv /\ MemInv => ReadsAgree
    BY ConsistentReads DEF MemInv
  <1> QED
    BY <1>1, <1>2, <1>3, <1>4, InitConsistent, NextConsistent, PTL DEF ReadSpec
==============================================================================
