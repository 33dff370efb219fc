----------------------------- MODULE KvdbRocksdb -----------------------------
(***************************************************************************)
(* kvdb-rocksdb's Database under several threads: write, get and iterators *)
(* hold its RwLock shared, restore takes it exclusively twice, first to    *)
(* close the database and then to put the reopened one in place. Nothing   *)
(* is held in between, so restores of two threads may overlap.             *)
(*                                                                         *)
(* RocksDB, the file system and parking_lot's lock are external.  What is  *)
(* used of them: a batch is applied atomically or fails, an iterator reads *)
(* the content of its creation, a database path can be open once in a      *)
(* process, moving or removing a directory leaves the files that are open  *)
(* to those who opened them, a swap that fails leaves both directories     *)
(* where they were (which fs-swap's swap_nonatomic, three renames, does    *)
(* not promise when the machine fails between them), a thread that waits   *)
(* for the lock exclusively keeps new readers out.                         *)
(***************************************************************************)
EXTENDS DbTransactions

CONSTANTS
    Threads,
    Transactions,       \* what clients write
    IterPrefixes,       \* what they iterate over
    EndLen,             \* 16, the length of the end key of a prefix without an end
    Copies,             \* the databases to restore from: a path and a directory each
    CopyContent,        \* what each of them holds
    MaxRestores,        \* bound on restores
    MaxWrites           \* bound on writes

Live == "live"          \* Database.path

ASSUME PathsAssumption == Live \notin Copies
ASSUME EndLenAssumption == EndLen \in Nat
ASSUME IterPrefixesAssumption == IterPrefixes \subseteq DBKey
ASSUME TransactionsAssumption == Transactions \subseteq Seq({op \in DBOp : op.col = 0})
ASSUME CopyContentAssumption ==
    \A d \in Copies : CopyContent[d] = [c \in {0} |-> CopyContent[d][0]] /\ IsMap(CopyContent[d][0])

VARIABLES
    pc,                 \* thread -> where it is; "idle" between calls
    txn, done, batch,   \* thread -> its transaction, operations batched, WriteBatch
    base,               \* thread -> the keys the database has had since its write began (history)
    iter, ended, seen,  \* thread -> its iterator's prefix and snapshot, what it yielded
    from,               \* thread -> path of the copy it restores from
    offered,            \* thread -> {what that path held when restore had closed} (history)
    overlapped,         \* whether another restore was under way when one began (history)
    db,                 \* {directory of the open database}, or {} when it is closed
    reopened,           \* thread -> {directory of the database restore opened}
    path,               \* path -> {directory}, or {} if there is none
    files,              \* directory -> column -> key -> value
    writes, restores    \* counts (bounds)

vars == <<pc, txn, done, batch, base, iter, ended, seen, from, offered, overlapped, db,
          reopened, path, files, writes, restores>>
disk == <<path, files>>
batching == <<txn, done, batch, base>>
iterating == <<iter, ended, seen>>
restoring == <<from, offered, overlapped, reopened, restores>>

Blank == [c \in {0} |-> EmptyMap]

NoIter == [prefix |-> <<>>, left |-> EmptyMap]

Init ==
    /\ pc = [t \in Threads |-> "idle"]
    /\ txn = [t \in Threads |-> <<>>]
    /\ done = [t \in Threads |-> 0]
    /\ batch = [t \in Threads |-> <<>>]
    /\ base = [t \in Threads |-> {}]
    /\ iter = [t \in Threads |-> NoIter]
    /\ ended = [t \in Threads |-> FALSE]
    /\ seen = [t \in Threads |-> {}]
    /\ from = [t \in Threads |-> Live]
    /\ offered = [t \in Threads |-> {}]
    /\ overlapped = FALSE
    /\ db = {Live}
    /\ reopened = [t \in Threads |-> {}]
    /\ path = [p \in Copies \cup {Live} |-> {p}]
    /\ files = [d \in Copies \cup {Live} |-> IF d = Live THEN Blank ELSE CopyContent[d]]
    /\ writes = 0
    /\ restores = 0
------------------------------------------------------------------------------
(* RwLock: who holds it shared, and who waits for it exclusively. *)
Readers == {t \in Threads : pc[t] \in {"batching", "iterating"}}
Waiting == {t \in Threads : pc[t] \in {"closing", "installing"}}

CanRead == Waiting = {}
CanWrite == Readers = {}

(* The content of the open database. *)
Content == IF db = {} THEN Blank ELSE files[TheOnly(db)]

(* What the directory at a path holds. *)
Held(p) == {files[d] : d \in path[p]}

(* A key in the order of the column, from a start (included). *)
NotBefore(m, start) == {k \in DOMAIN m : ~LexLess(k, start)}
------------------------------------------------------------------------------
(* write: the lock is taken shared; a closed database is an error. *)
StartWrite(t, ops) ==
    /\ pc[t] = "idle"
    /\ CanRead
    /\ writes < MaxWrites
    /\ writes' = writes + 1
    /\ pc' = [pc EXCEPT ![t] = IF db = {} THEN "idle" ELSE "batching"]
    /\ txn' = [txn EXCEPT ![t] = IF db = {} THEN <<>> ELSE ops]
    /\ done' = [done EXCEPT ![t] = 0]
    /\ batch' = [batch EXCEPT ![t] = <<>>]
    /\ base' = [base EXCEPT ![t] = DOMAIN Content[0]]
    /\ UNCHANGED <<iterating, restoring, db, disk>>

Ones(n) == [i \in 1..n |-> MaxByte]

EndRange(prefix) == IF EndPrefix(prefix) = {} THEN {Ones(EndLen)} ELSE EndPrefix(prefix)

(* Where write looks for the keys that the range of a prefix without an end misses. *)
BeyondStart(prefix) == IF Len(prefix) > EndLen THEN prefix ELSE Ones(EndLen)

Put(op) == [do |-> "put", col |-> op.col, key |-> op.key, value |-> op.value]

PointDelete(op) == [do |-> "delete", col |-> op.col, key |-> op.key]

(* A range, and the keys beyond its end that are deleted one by one after it. *)
RangeDelete(op, beyond) ==
    [do |-> "range", col |-> op.col, from |-> op.key, to |-> EndRange(op.key), beyond |-> beyond]

(* Faulty variant of BatchOf: the keys beyond the end key are not looked for. *)
BatchOfRangeOnly(c, op) ==
    CASE op.type = "Insert" -> Put(op)
      [] op.type = "Delete" -> PointDelete(op)
      [] op.type = "DeletePrefix" -> RangeDelete(op, {})

(* What one operation adds to the batch, given the committed content. *)
BatchOf(c, op) ==
    CASE op.type = "Insert" -> Put(op)
      [] op.type = "Delete" -> PointDelete(op)
      [] op.type = "DeletePrefix" ->
            RangeDelete(op, IF EndPrefix(op.key) # {}
                            THEN {}
                            ELSE NotBefore(c[op.col], BeyondStart(op.key)))

(* Faulty variant of BatchOp: the keys beyond the end are read through the locking iterator. *)
BatchOpLockingTwice(t) ==
    /\ pc[t] = "batching"
    /\ done[t] < Len(txn[t])
    /\ LET op == txn[t][done[t] + 1]
       IN  /\ op.type = "DeletePrefix" /\ EndPrefix(op.key) = {} => CanRead
           /\ batch' = [batch EXCEPT ![t] = Append(@, BatchOf(Content, op))]
    /\ done' = [done EXCEPT ![t] = @ + 1]
    /\ UNCHANGED <<pc, txn, base, iterating, restoring, db, disk, writes>>

BatchOp(t) ==
    /\ pc[t] = "batching"
    /\ done[t] < Len(txn[t])
    /\ batch' = [batch EXCEPT ![t] = Append(@, BatchOf(Content, txn[t][done[t] + 1]))]
    /\ done' = [done EXCEPT ![t] = @ + 1]
    /\ UNCHANGED <<pc, txn, base, iterating, restoring, db, disk, writes>>

(* RocksDB applies the entries of a batch in order: the last that covers a key decides it. *)
Covers(e, col, key) ==
    /\ e.col = col
    /\ IF e.do = "range" THEN InRange(key, e.from, e.to) \/ key \in e.beyond ELSE e.key = key

LastEntry(b, col, key) ==
    {i \in DOMAIN b : /\ Covers(b[i], col, key)
                      /\ \A j \in (i + 1)..Len(b) : ~Covers(b[j], col, key)}

Written(m, b, col) ==
    LET last(k) == LastEntry(b, col, k)
        put == {i \in DOMAIN b : b[i].do = "put" /\ i \in last(b[i].key)}
    IN  [k \in {k \in DOMAIN m : last(k) = {}} \cup {b[i].key : i \in put} |->
            IF last(k) = {} THEN m[k] ELSE b[TheOnly(last(k))].value]

WrittenBatch(c, b) == [col \in DOMAIN c |-> Written(c[col], b, col)]

Commit(t) ==
    /\ pc[t] = "batching"
    /\ done[t] = Len(txn[t])
    /\ files' = [d \in DOMAIN files |->
                    IF d \in db THEN WrittenBatch(files[d], batch[t]) ELSE files[d]]
    /\ pc' = [pc EXCEPT ![t] = "idle"]
    /\ txn' = [txn EXCEPT ![t] = <<>>]
    /\ done' = [done EXCEPT ![t] = 0]
    /\ batch' = [batch EXCEPT ![t] = <<>>]
    /\ base' = [u \in Threads |->
                    IF u = t THEN {} ELSE base[u] \cap DOMAIN WrittenBatch(Content, batch[t])[0]]
    /\ UNCHANGED <<iterating, restoring, db, path, writes>>

(* write_opt returns an error: nothing is written, and write returns it. *)
CommitFails(t) ==
    /\ pc[t] = "batching"
    /\ done[t] = Len(txn[t])
    /\ pc' = [pc EXCEPT ![t] = "idle"]
    /\ txn' = [txn EXCEPT ![t] = <<>>]
    /\ done' = [done EXCEPT ![t] = 0]
    /\ batch' = [batch EXCEPT ![t] = <<>>]
    /\ base' = [base EXCEPT ![t] = {}]
    /\ UNCHANGED <<iterating, restoring, db, disk, writes>>
------------------------------------------------------------------------------
(* Faulty variant of Bounded: the upper bound is left out. *)
BoundedBelow(m, prefix) == NotBefore(m, prefix)

(* What an iterator over a prefix reads: from the prefix to the bound, if it has one. *)
Bounded(m, prefix) == {k \in DOMAIN m : InRange(k, prefix, EndPrefix(prefix))}

(* iter_with_prefix (iter is the empty prefix): the lock is held until the iterator is dropped. *)
StartIter(t, prefix) ==
    /\ pc[t] = "idle"
    /\ CanRead
    /\ db # {}
    /\ pc' = [pc EXCEPT ![t] = "iterating"]
    /\ iter' = [iter EXCEPT ![t] = [prefix |-> prefix, left |-> Content[0]]]
    /\ ended' = [ended EXCEPT ![t] = FALSE]
    /\ seen' = [seen EXCEPT ![t] = {}]
    /\ UNCHANGED <<batching, restoring, db, disk, writes>>

(* next: the first key that was not returned yet. *)
IterNext(t) ==
    /\ pc[t] = "iterating"
    /\ ~ended[t]
    /\ LET m == iter[t].left
           rest == Bounded(m, iter[t].prefix) \ {kv[1] : kv \in seen[t]}
       IN  /\ ended' = [ended EXCEPT ![t] = rest = {}]
           /\ seen' = [seen EXCEPT ![t] = @ \cup Pairs(m, FirstOf(rest))]
    /\ UNCHANGED <<pc, iter, batching, restoring, db, disk, writes>>

DropIter(t) ==
    /\ pc[t] = "iterating"
    /\ ended[t]
    /\ pc' = [pc EXCEPT ![t] = "idle"]
    /\ iter' = [iter EXCEPT ![t] = NoIter]
    /\ ended' = [ended EXCEPT ![t] = FALSE]
    /\ seen' = [seen EXCEPT ![t] = {}]
    /\ UNCHANGED <<batching, restoring, db, disk, writes>>
------------------------------------------------------------------------------
Restorers == {t \in Threads : pc[t] \notin {"idle", "batching", "iterating"}}

Returns(t) ==
    /\ pc' = [pc EXCEPT ![t] = "idle"]
    /\ from' = [from EXCEPT ![t] = Live]
    /\ offered' = [offered EXCEPT ![t] = {}]

(* restore, which begins with close. *)
StartRestore(t, p) ==
    /\ pc[t] = "idle"
    /\ restores < MaxRestores
    /\ restores' = restores + 1
    /\ pc' = [pc EXCEPT ![t] = "closing"]
    /\ from' = [from EXCEPT ![t] = p]
    /\ overlapped' = (Restorers # {})
    /\ UNCHANGED <<batching, iterating, offered, reopened, db, disk, writes>>

(* Faulty variant of Close: readers are not waited for. *)
CloseAtOnce(t) ==
    /\ pc[t] = "closing"
    /\ db' = {}
    /\ offered' = [offered EXCEPT ![t] = Held(from[t])]
    /\ pc' = [pc EXCEPT ![t] = "swapping"]
    /\ UNCHANGED <<batching, iterating, from, overlapped, reopened, restores, disk, writes>>

Close(t) ==
    /\ pc[t] = "closing"
    /\ CanWrite
    /\ db' = {}
    /\ offered' = [offered EXCEPT ![t] = Held(from[t])]
    /\ pc' = [pc EXCEPT ![t] = "swapping"]
    /\ UNCHANGED <<batching, iterating, from, overlapped, reopened, restores, disk, writes>>

(* The directories change places, by swap or, when that fails, by swap_nonatomic. *)
Swap(t) ==
    /\ pc[t] = "swapping"
    /\ path[from[t]] # {}
    /\ path' = [path EXCEPT ![Live] = path[from[t]], ![from[t]] = path[Live]]
    /\ pc' = [pc EXCEPT ![t] = "removing"]
    /\ UNCHANGED <<batching, iterating, restoring, db, files, writes>>

(* Faulty variant of SwapFails: restore goes on with the directories as they are. *)
SwapFailsIgnored(t) ==
    /\ pc[t] = "swapping"
    /\ pc' = [pc EXCEPT ![t] = "removing"]
    /\ UNCHANGED <<batching, iterating, restoring, db, disk, writes>>

(* Neither works: restore returns an error and the database stays closed. *)
SwapFails(t) ==
    /\ pc[t] = "swapping"
    /\ Returns(t)
    /\ UNCHANGED <<batching, iterating, overlapped, reopened, restores, db, disk, writes>>

(* What is at the copy's path, the former database, is removed. *)
RemoveOld(t) ==
    /\ pc[t] = "removing"
    /\ path' = [path EXCEPT ![from[t]] = {}]
    /\ pc' = [pc EXCEPT ![t] = "opening"]
    /\ UNCHANGED <<batching, iterating, restoring, db, files, writes>>

(* Removing it failed, which is ignored. *)
KeepOld(t) ==
    /\ pc[t] = "removing"
    /\ pc' = [pc EXCEPT ![t] = "opening"]
    /\ UNCHANGED <<batching, iterating, restoring, db, disk, writes>>

(* A path that is open in this process cannot be opened again. *)
Locked == db # {} \/ \E t \in Threads : reopened[t] # {}

(* open at Database.path. *)
Reopen(t) ==
    /\ pc[t] = "opening"
    /\ ~Locked
    /\ reopened' = [reopened EXCEPT ![t] = path[Live]]
    /\ pc' = [pc EXCEPT ![t] = "installing"]
    /\ UNCHANGED <<batching, iterating, from, offered, overlapped, restores, db, disk, writes>>

(* open returns an error, as it does when the path is locked, and so does restore. *)
ReopenFails(t) ==
    /\ pc[t] = "opening"
    /\ Returns(t)
    /\ UNCHANGED <<batching, iterating, overlapped, reopened, restores, db, disk, writes>>

(* The handle of the reopened database becomes this one's. *)
Install(t) ==
    /\ pc[t] = "installing"
    /\ CanWrite
    /\ db' = reopened[t]
    /\ reopened' = [reopened EXCEPT ![t] = {}]
    /\ Returns(t)
    /\ UNCHANGED <<batching, iterating, overlapped, restores, disk, writes>>
------------------------------------------------------------------------------
Step(t) ==
    \/ BatchOp(t) \/ Commit(t) \/ CommitFails(t)
    \/ IterNext(t) \/ DropIter(t)
    \/ Close(t) \/ Swap(t) \/ SwapFails(t) \/ RemoveOld(t) \/ KeepOld(t)
    \/ Reopen(t) \/ ReopenFails(t) \/ Install(t)

Next ==
    \E t \in Threads :
        \/ \E ops \in Transactions : StartWrite(t, ops)
        \/ \E p \in IterPrefixes : StartIter(t, p)
        \/ \E p \in Copies : StartRestore(t, p)
        \/ Step(t)

(* A thread that is inside a call goes on; one with an iterator drains and drops it. *)
Spec == Init /\ [][Next]_vars /\ \A t \in Threads : WF_vars(Step(t))
------------------------------------------------------------------------------
(***************************************************************************)
(* An iterator that has ended yielded exactly the pairs whose keys start   *)
(* with its prefix in the content of its creation, although other threads  *)
(* have written since: the range it reads is that of the prefix.           *)
(***************************************************************************)
IterExact ==
    \A t \in Threads : ended[t] =>
        seen[t] = Pairs(iter[t].left, WithPrefix(iter[t].left, iter[t].prefix))

(* A key at or beyond the end key that the content write looks at may not have: it was  *)
(* put by the transaction itself, or by another one since this one began.               *)
Overlooked(t) ==
    \E i \in 1..Len(txn[t]) :
        /\ txn[t][i].type = "DeletePrefix"
        /\ EndPrefix(txn[t][i].key) = {}
        /\ \E k \in (DOMAIN Content[0] \ base[t]) \cup {txn[t][j].key : j \in 1..(i - 1)} :
              ~LexLess(k, BeyondStart(txn[t][i].key))

(***************************************************************************)
(* A transaction leaves what the trait says it does, in the content at the *)
(* time it is committed, although its batch was built before, except for   *)
(* keys that begin with sixteen 0xff bytes and were put meanwhile.         *)
(***************************************************************************)
WrittenAsDocumented ==
    [][\A t \in Threads :
          Commit(t) /\ ~Overlooked(t) => Content' = After(Content, txn[t], Len(txn[t]))]_vars

(***************************************************************************)
(* While a thread writes or iterates, the database it does so in is open:  *)
(* close waits for it. There is a database at the path to open, however    *)
(* many restores are under way and wherever they fail. Once they are over, *)
(* an open database is the one at its path, unless two of them overlapped: *)
(* then the first may have installed what the other moves away or removes  *)
(* (nothing is locked from close, lib.rs:614, to the end of restore).      *)
(***************************************************************************)
HandleSound ==
    /\ Readers # {} => db # {}
    /\ path[Live] # {}
    /\ Restorers = {} /\ ~overlapped /\ db # {} => path[Live] = db

(***************************************************************************)
(* restore that succeeds leaves the content the copy had when restore had  *)
(* closed the database, whatever earlier restores, failed or overlapping,  *)
(* did to the paths; if another was under way with it, it may be the       *)
(* other's copy or the former content (lib.rs:616-641).                    *)
(***************************************************************************)
RestoredContent ==
    [][\A t \in Threads : Install(t) /\ ~overlapped => offered[t] = {Content'}]_vars

(* Every call returns: nobody waits for the lock, or in restore, for ever. *)
CallsReturn == \A t \in Threads : (pc[t] # "idle") ~> (pc[t] = "idle")
==============================================================================
