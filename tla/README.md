# A TLA+ model of parity-common

parity-common is a workspace of Rust crates used by Ethereum clients. Most of
them are libraries without threads of their own, yet they hold state that has to
stay coherent over long sequences of calls (the transaction pool), that is shared
between threads or with a browser's event queue (the key-value stores), or that
is computed by arithmetic nobody can test exhaustively (RLP, big integers). This
directory models those, checks the models with TLC on small instances, and proves
the most important facts with TLAPS for every instance.

All line references are to the repository's files.

## 1. Inventory

| Component | State it keeps | Operations | Interacts with |
|---|---|---|---|
| transaction-pool | queues by sender, `by_hash`, `best_transactions`, `worst_transactions`, `mem_usage`, `insertion_id` | import, remove, clear, cull, update_scores; find, pending, pending_from_sender, unordered_pending, worst_transaction, status, light_status | calls back the client's Scoring, ShouldReplace, Ready and Listener |
| kvdb | none | DBTransaction (put, delete, delete_prefix), end_prefix; the trait `KeyValueDB` and what it promises | implemented by the three stores |
| kvdb-memorydb | a BTreeMap per column behind one RwLock | write, get, get_by_prefix, iter, iter_with_prefix | threads share it |
| kvdb-rocksdb | an optional open RocksDB behind a RwLock, its path | open, write, get, iter, iter_with_prefix, close, restore, add/remove column, io_stats | threads share it; RocksDB; the file system |
| kvdb-web | an in-memory copy, an IndexedDB connection, version and columns | open (with upgrade), write, reads, drop | the browser's callbacks and transaction queue |
| rlp | stream: buffer, unfinished lists, finished flag; view: slice, offset cache, count cache | append, begin_list, begin_unbounded_list, append_raw, finalize, clear, estimate_size; at, item_count, iter, data, decoding | nested `rlp_append` callbacks re-enter the stream |
| uint | none (arrays of words) | add, sub, mul, div_mod, shifts, integer_sqrt, pow, decimal and byte conversions | rlp, primitive-types |
| fixed-hash, primitive-types, ethereum-types | none | copies, comparisons, conversions between lengths, between hashes and integers, to and from text | rlp, uint, serde |
| triehash | none | trie_root, sec_trie_root, ordered_trie_root | writes nested RlpStreams |
| ethbloom | a filter of 2048 bits | accrue, accrue_bloom, contains_input, contains_bloom, is_empty | keccak-hash |
| parity-crypto | none; keys are values | arithmetic of secrets and public keys, derivation of extended keys, sign, recover, verify, agree, encrypt, decrypt | the secp256k1 library |
| contract-address, plain_hasher, keccak-hash | none | pure functions over hashes | rlp |
| parity-bytes, parity-path, parity-util-mem, trace-time, rlp-derive | none of their own | I/O, macros, allocator bindings | |

What is hard about them:

* **The pool keeps one fact in five places.** A transaction is in its sender's
  queue, in `by_hash`, perhaps first in `best_transactions` and last in
  `worst_transactions`, and counted in `mem_usage`; the listener has been told of
  it. Every operation patches each of these separately, in its own order, and the
  two ordered sets are never recomputed. `import` is a loop that evicts, consults
  a client-supplied policy with three answers and may give up half way.
* **The ordered sets compare only a score and an insertion id**, so a wrong score
  passed to a removal silently leaves an entry behind.
* **The iterators interleave the senders' queues by score** while each sender's
  transactions may only come out by nonce.
* **The stores promise atomic writes** but apply them operation by operation
  (memory), by a batch that is built before it is committed (RocksDB), or in a
  browser transaction that runs after `write` has returned (web).
* **A prefix is turned into a range of keys** by incrementing its last byte that
  can be incremented; a prefix of 0xff bytes has no upper end.
* **`restore` closes, swaps, reopens and installs** a database that other threads
  write, iterate and restore, and each of its steps may fail; it takes `&self` and
  holds no lock from one step to the next.
* **RocksDB's statistics are counted without a lock** by every write and get,
  while `io_stats` empties the counters one by one into totals that have one.
* **`open` of kvdb-rocksdb is a chain of attempts**: repair if a mark was left,
  open all the column families, open none and create them one by one, repair
  after all. Each can fail, and the process can die between any two.
* **kvdb-web's `open` takes several turns of the event loop**; earlier databases
  may still be connected, transactions may still be queued, and the page may go
  away at any time.
* **RLP lists are written before their length is known**: the prefix is inserted
  later, and completing one item may complete the lists around it.
* **The view caches the offset of the last item read**, behind a `&self` method.
* **Long division corrects a guessed quotient digit** up to twice; the case where
  the second correction happens is rare among random operands.

* **Tries are hashed without being built**: children are found by counting
  neighbours in the sorted input, and a node shorter than a hash stands in its
  parent itself.
* **The curve library knows no zero**, so every operation on secrets tells zero
  apart by hand; the public derivation of a child key refuses an HMAC that is no
  key, the private one does not look, and yet they have to agree.
* **Text is decoded by the parity of its length**, blanks included.

What makes each correct is stated in the properties of section 4. The complete
list of hazards, with the line at which each bites, is in `PROJECT.json`.

## 2. Modules

| Module | Models | Composes |
|---|---|---|
| `Transactions` | `transactions.rs`: one sender's queue, add, update_scores, cull, remove, find_next, worst_and_best | |
| `Pool` | `pool.rs`, mutating operations, `scoring.rs`, `replace.rs`, `options.rs`, `listener.rs` as callbacks | `Transactions` |
| `PoolReads` | `pool.rs`, the iterators and the statuses; `ready.rs`, `status.rs` | `Pool` |
| `PoolProofs` | theorems about `Pool`, the pending iterator and the other reads | `PoolReads` |
| `DbKeys` | keys, operations, `end_prefix` | |
| `DbTransactions` | what a transaction means (reference semantics), what a query answers | `DbKeys` |
| `DbTransactionsProofs` | `end_prefix`, and a transaction operation by operation: lemmas the three stores share | `DbTransactions` |
| `KeyValueDB` | the abstract specification of the trait: `write` and the reads are atomic | `DbTransactions` |
| `KvdbMemory` | `kvdb-memorydb/src/lib.rs` | `DbTransactions`; refines `KeyValueDB` |
| `KvdbRocksdb` | `kvdb-rocksdb/src/lib.rs`, `iter.rs`: write, iterate, restore | `DbTransactions` |
| `KvdbRocksdbProofs` | theorems about `KvdbRocksdb` | `KvdbRocksdb`, `DbTransactionsProofs` |
| `RocksOpen` | `kvdb-rocksdb/src/lib.rs`: open, repair, column families | |
| `DbStats` | `kvdb-rocksdb/src/stats.rs`, `io_stats`, and the tallies of `write` and `get` | |
| `OpenStatsProofs` | theorems about `RocksOpen` and `DbStats`, side by side | `RocksOpen`, `DbStats` |
| `KvdbWeb` | `kvdb-web/src/lib.rs`, `indexed_db.rs` | `DbTransactions` |
| `KvdbWebProofs` | theorems about `KvdbWeb` | `KvdbWeb`, `DbTransactionsProofs` |
| `KvdbProofs` | theorems about `KvdbMemory` | `KvdbMemory`, `DbTransactionsProofs` |
| `RlpFormat` | the byte format: prefixes, sizes, `PayloadInfo` | |
| `RlpStream` | `rlp/src/stream.rs`, `impls.rs` | `RlpFormat` |
| `RlpReader` | `rlp/src/rlpin.rs`, the decoding of `impls.rs` | `RlpStream` |
| `Uint` | the algorithms of `uint/src/uint.rs` | |
| `UintCalls` | one action per operation of a big integer | `Uint` |
| `TrieHash` | `triehash/src/lib.rs`, with the trie it should hash as a reference | `RlpFormat` |
| `TrieCalls` | clients of the stream, the view and the roots | `RlpReader`, `TrieHash` |
| `FixedHash` | `fixed-hash/src/hash.rs`, `primitive-types/src/lib.rs`, `ethereum-types/src/hash.rs`, `impls/serde/src/serialize.rs` | `Uint` |
| `Bloom` | `ethbloom/src/lib.rs` | |
| `EncodingProofs` | theorems about `Bloom`, `RlpStream` and `RlpReader` | `Bloom`, `RlpReader` |
| `HashCalls` | clients of integers, hashes, text and blooms | `UintCalls`, `FixedHash`, `Bloom` |
| `SecretKeys` | `parity-crypto/src/publickey/secret_key.rs`, `ec_math_utils.rs`, `ecdh.rs` | |
| `ExtendedKeys` | `extended_keys.rs` | `SecretKeys` |
| `Signatures` | `ecdsa_signature.rs`, `ecies.rs` | `SecretKeys` |
| `KeyCalls` | an owner, a watcher and one call of the above | `ExtendedKeys`, `Signatures` |
| `KeyProofs` | theorems about `KeyCalls` | `KeyCalls` |
| `MC*` | values of the constants for TLC | |

Definitions keep the source's names in TLA+ spelling (`finalize_insert` is
`FinalizeInsert`); state variables have the fields' names. A definition whose
comment begins "Faulty variant of" is not part of the model: it states what a
plausible mistake in that function would be, and the property named in
`PROJECT.json` fails when it takes the function's place.

### Transaction pool

`transactions` is the map from senders to queues, `by_hash`,
`best_transactions`, `worst_transactions`, `mem_usage` and `insertion_id` are the
fields of `Pool`. `notified` counts, per transaction, what the listener was told:
additions minus drops, rejections excluded. A transaction is a model of a verified
transaction: its hash is its identity, `Sender`, `Nonce` and `MemUsage` give its
attributes. Scoring, ShouldReplace and Ready are constants: `Choose`, `ScoreAt`,
`ShouldReplace`, `IgnoresSenderLimit`, so the theorems hold for every client
policy that satisfies the named assumptions. `ScoreOf` is what a Scoring gives a
transaction by itself; `ScoresFollow` compares the scores kept beside a queue with
it. `TotalMem` is the reference for `mem_usage`: the sum over a set of transactions.

`import` (pool.rs:146) is `Import`, which answers a known hash and hands out the
insertion id, then `ImportStep`: rounds of `CountLoop`, rounds of `MemLoop`, then
`AddToQueue`. Every round calls `RemoveWorst`, whose outcome follows
`ShouldReplace`: evict (`remove`, listener, next round), reject (return), or
insert anyway (`Undecided`). The pool is used through `&mut self`, so no other
operation starts between the rounds; they are separate steps because the
invariants have to hold for each of the callbacks that the rounds make. `cull` is
`CullSenders` and a `RemoveStalled` per sender; `remove`, `clear` and
`update_scores` are single steps.

An ordered set is a set of records compared by `Before` (higher score first, then
the older insertion id); `InsertRefs` and `RemoveRefs` behave as BTreeSet does,
by comparison and not by identity, so an entry with a stale score is really left
behind in the model.

`PoolReads` adds one reader. `pending` borrows the pool, so no mutation happens
while an iterator lives; its `next` is `PendingNext`, one step per round of its
loop.

### Key-value stores

A key is a sequence of bytes `0..MaxByte`, so `MaxByte` stands for 0xff and
`end_prefix` is computed on real sequences with its carry. `After(content, ops, n)`
defines, without reference to any algorithm, what the first `n` operations of a
transaction leave: for each key the last operation that touches it decides.

`KvdbMemory` takes the write lock in `StartWrite`, applies one operation per
`WriteOp` and releases the lock in `EndWrite`; a read needs that no thread
writes. The refinement maps the trait's content to the columns before the write
while one is under way.

`KvdbRocksdb` has threads that write (`StartWrite`, `BatchOp` for each
operation, `Commit` or `CommitFails`; a batch has one entry per operation, and that of a prefix is a
range with the keys beyond its end that `BatchOp` found; `base` remembers which keys
the database has had since the write began), iterate (`StartIter`, `IterNext`, `DropIter`) and restore
(`StartRestore`, `Close`, `Swap` or `SwapFails`, `RemoveOld` or `KeepOld`,
`Reopen` or `ReopenFails`, `Install`). The lock is parking_lot's: readers share it, a
waiting writer keeps new readers out. Which thread holds it is read off `pc`.
Restores may overlap, as `restore(&self)` lets them: every step of one may come between
any two of another. `overlapped` is history: whether one was under way when the last
one began.
RocksDB and the file system are external: a database is the content of a
directory, a path names a directory, a rename moves it, an open database keeps
its directory even when the path has moved, a range tombstone deletes the keys of
its range, an iterator sees the content of its creation. A database that is open
keeps its files when its directory is removed, as they do on Unix, and cannot be
opened a second time. A swap that fails leaves the directories where they were.

`RocksOpen` is one process and what it leaves on disk: column families, which of
them have table files, damage that open sees or does not see, and the file
CORRUPTED. `StartOpen` looks for that file; `RepairMarked` and `RemoveMarker`
are the repair it asks for; `OpenAll`, `OpenNone`, `CreateNext` (once per
column), `RepairInOpen` and `OpenAgain` are open_primary, `OpenSecondary` with
the last two open_secondary. `FailOrCrash` ends a call anywhere. `AddColumn`,
`RemoveLastColumn`, `WriteOk`, `WriteReports` (check_for_corruption), `CloseDb`
and `Restore` are calls on the open database, `Damage` is the medium's. Restore
is one step here, since `KvdbRocksdb` has its parts. RocksDB's answers
are three: an open names exactly the families there are, or too few, or one too
many; a repair keeps the families that have table files. A secondary beside a
running primary is not modelled.

`DbStats` has threads that tally (`StartWrite`, `TallyTransactions`,
`TallyBytesWritten`; `StartGet`, `TallyBytesRead` or `GetFails`) and threads in
`io_stats`: `StartIoStats` asks RocksDB for its cache hits, `BeginPeek`,
`PeekField` six times and `EndPeekOld` read the old total, `TallyCache` adds the
difference (or `CachePanics`), and the answer is another peek or a `BeginTake`,
`TakeField` six times and `EndTake`. Each atomic operation is a step. `tallied`,
`returned` and `before` are history: what was ever added, what `since_previous`
returned, and what was tallied when a peek began. A tally is a number and does
not wrap; a negative difference of cache hits stands for its residue.

`KvdbWeb` has one page. `Open`, `OnOpened`, `OnUpgraded`, `LoadColumn` and
`OpenReturns` are the turns of the event loop `open` takes; `RunTransaction` and
`AbortTransaction` are the browser's; `RequestFails` is a request of `open` that
fails, or is blocked for good: only its success is listened for (indexed_db.rs:54-73,
234), so the future is never resolved. `Drop` drops a Database, `CollectGarbage` is
the JavaScript collector closing the connection that `open` has dropped, which it may
never do, `Crash` is the page going away. A transaction of IndexedDB runs one request at a time on
`staged`, and `stores` changes when it completes. IndexedDB is external: transactions run in the order of
their creation, an upgrade waits for the other connections to close.

### RLP

Bytes are numbers below a small base: `Single` plays 128 (the bytes that are
their own encoding), `Short` plays 55 (the longest payload with a one-byte header),
`Wide` plays 8, the longest size a header can have, and `Narrow` plays 4, the bytes
of the `u32` to which `insert_size` cuts a size before it writes it. So each branch
of the format is met with items of a few bytes. The stream's state is that of `RlpStream`; `append` is `EnterAppend`,
the calls the value's `rlp_append` makes, and `LeaveAppend`. `NoteAppended` does
one level of the recursion of `note_appended`. `written` records what the client
appended as a tree, from which the reference encoding is computed.

`RlpReader` starts on what a finished stream wrote (`Out` is the whole buffer, and
`ReadBack` leaves off what was in it before) or on any slice of `Received`: any bytes,
well formed or not, with or without more of them behind the first item (`Exact` says
that there are none). `At`, `Descend`, `ItemCount` and `IterNext` read it through the
caches.

### Tries

`TrieHash` follows triehash function by function: the sorted map of nibbles, the
length of the shared prefix, `hash256rlp` with its leaf, extension and branch,
`hash256aux` with the choice between a node and its hash. A node is the item it
encodes; its length, on which that choice depends, is computed with the format
of `RlpFormat` in the same small base. The reference does not build a trie
either: a root is right if walking it along each key (`Lookup`) finds the key's
value or none, and if it has the one form a trie has (`Canonical`: no branch with
a single use, no empty path, and exactly the long nodes hashed).
`TrieCalls` gathers pairs in any order with repeated keys.

### Big integers

A number is an array of `n_words` words of `2 * HalfBits` bits. The algorithms are
translated loop for loop with the carry of each word; `Number` gives the integer
an array stands for, and the properties compare with TLA+'s integers.

### Hashes, text and blooms

In `FixedHash` half a word is a byte, so that hashes and integers have the same
bytes; a byte is two digits. Conversions are between hashes of even lengths, as the
code asserts (hash.rs:761-763, 776-778). A text is a flag for `0x` and a sequence of digits,
a blank or another character. `FromHexRaw` decodes it with the running
parity of the code, and writing past the slice is a panic that the property
excludes. In `Bloom` a byte is the set of its set bits, and the three indexes of
an input are computed from the bytes of its hash as in accrue.

### Keys

The secp256k1 library is a parameter: `Affine` lists the coordinates of the
multiples of the base point, so a curve of 13 points takes the place of the real
one. A secret is any number below `Size`, valid (1 to `Order - 1`) or not; zero is
a Secret that the library refuses. An operation in place gives its success and
what it leaves. HMAC is a table that meets the order itself, zero and
numbers above it. `KeyCalls` derives along a path twice, with the secret and with
the public key only, and makes one calculation, agreement, signature or sealed
message from each combination of arguments. Tags and key derivation are terms, equal
only for equal arguments; that of a tag is the cipher text and the authenticated data
one after the other, as they are fed to the HMAC. AES in counter mode (`Ctr128`)
combines each byte with one of the key stream, and a second time takes it off again.

## 3. Where the model abstracts

* Payloads of transactions, values, wording of errors and logging are left out.
* A transaction's score is a number; a Scoring may rewrite all scores of a queue
  at each event (`ScoreAt`).
* Pool memory and counters are unbounded integers, `insertion_id` is bounded by
  `MaxInsertions` (its 64 bits do not wrap in practice).
* RocksDB's 16-byte end key for prefixes without an end is `EndLen` bytes.
* A RocksDB column is one map; the columns differ in nothing the properties see.
* RLP lengths need at most one or two bytes at the chosen bases.
* Hashing is injective in tries and a table in blooms and keys.
* `swap_nonatomic` of the fs-swap crate is a sequence of renames and can fail after the
  first (kvdb-rocksdb lib.rs:624); `SwapFails` has no such half-way state.
* A sealed message is a record of its parts with its length. An empty slice, whose
  first byte `decrypt` looks at before the length (ecies.rs:57), panics in the code
  and is not among them.
* Values of a trie are not empty: an empty one in a branch encodes as no value at
  all (triehash lib.rs:240).

## 4. Runs

| Run | Question | States |
|---|---|---|
| `pool_any` | Do the pool's five structures agree after every step when ShouldReplace answers anything, scores lag behind and some transactions ignore the sender's limit; does each operation return? | 50,130 |
| `pool_reads` | With a policy like the tests' (DummyScoring): do the iterators yield exactly the executable transactions, in an executable order, and end; do the statuses add up; are the limits kept, the memory counted, and does each removal leave a usable rest? | 281,710 |
| `kvdb_memory` | Is the in-memory store an implementation of the trait with two threads? | 80,355 |
| `kvdb_rocksdb` | Writes, iterators and restores of two threads, overlapping or not, with failures of every step. | 245,651 |
| `rocks_open` | Does a database open, repaired if need be, after crashes, failures, damage and changes of its columns? | 66,014 |
| `db_stats` | Are statistics lost, or counted twice, when several threads add to them and take them? | 278,194 |
| `kvdb_web` | Opens, upgrades, writes, drops, failed requests, aborted transactions and crashes in any order. | 148,476 |
| `rlp` | Is what the stream writes the encoding of what was appended, does the view read it back, and are the roots those of the trie? | 368,921 |
| `uint` | Is each operation on integers, hashes, their text and blooms exact, and is each overflow reported? | 211,405 |
| `keys` | Are secrets calculated with as in the field, do both derivations meet, are signatures accepted and sealed messages opened by the right key only? | 3,200 |
| `pool_sender_limit`, `kvdb_web_prefix` | Two statements of the documentation the code does not keep (section 6). | |

**pool_any, pool_reads.** Six transactions of two senders, among them one with
the nonce of another (replacement) and different memory sizes. Two senders are
needed for the ordered sets to interleave, three transactions of a sender so that
a first, a middle and a last one can leave. The limits are below the number of
transactions, so that every loop of `import` runs more than once. `MaxInsertions`
of 6 and 5 allows the pool to fill, evict and take back an evicted transaction.
`LimitsRespected` presupposes a policy that always decides, as an undecided
ShouldReplace explicitly lets the pool grow; it is checked with the strict policy.
`PoolConsistent` includes the order of the queues and the uniqueness of insertion
ids. In `pool_reads` the next nonces are 0 and 1 for each sender, so stale, ready
and future transactions occur together.

**kvdb_memory.** Keys of at most two bytes over {0, 1}, hence prefixes with and
without an end; transactions that overwrite a key of their own, delete a prefix
they inserted under, and touch a missing column (an error half way).

**kvdb_rocksdb.** Two threads, two copies to restore from, at most two restores
and two writes. Two restores in a row meet the paths the first one left behind,
including those of a failed one; two at once, from the same copy or from two, take
each other's directories. `HandleSound` keeps the last of its three parts, and
`RestoredContent` all it says, to restores that did not overlap: section 6 says what
can happen to the others.

**rocks_open.** Up to three columns, so that a creation can stop after the first
and after the second; five crashes, failures, damages or restores and three
changes of configuration, which suffice for a crash inside the repair of what an
earlier crash left. The copies to restore have fewer columns than configured, one
of them without files, or none at all.

**db_stats.** Two threads and three calls, so that two calls overlap and one
comes after, with sizes 1 and 2 to tell one tally from two. `OverallSound`
leaves out `bytes_read` and the cache hits, for the reasons in section 6.

**kvdb_web.** Four opens, four writes, one or two columns: an open after a
drop whose connection is still there, an upgrade over queued transactions, and an
open that needs no upgrade after one that did.

**rlp.** At most four items or lists begun, nested three deep, with payloads on
both sides of each length boundary, onto a buffer that is empty or holds a
prefix (`new_with_buffer`). Every written item is then read at each index up to
three, with every history of cached offsets. So is every slice of up to three
bytes and every list in a slice of four, well formed inside or not, with or without
bytes behind it. `CacheTransparent` tells these apart: an item that a fresh view finds
is found always, a refusal is kept where the slice ends with its list; section 6 says
what happens elsewhere. No buffer gets as long as a size that `insert_size`
would cut (256 bytes here, 4 GiB in rlp). The roots are those of up to four pairs over six
keys of up to two bytes and values on both sides of the length at which a
node is hashed (12 for 32), with nibbles of two bits, so that leaves, extensions,
branches with and without a value, and nodes of either kind inside them occur.

**uint.** Three words of four bits with words from {0, 1, 7, 8, 15}: the values
around which carries, borrows and the corrections of the quotient digit happen,
in every position, for both operands; every shift up to more than the width.
Hashes of 1, 2, 3, 6 and 8 bytes, shorter and longer than a u64 (two bytes here) and
as long as the integers or longer; every text of up to five characters; two blooms of four bytes
of two bits and inputs whose indexes collide.

**keys.** A curve of order 13 in numbers below 20, so that there are secrets above
the order and points whose x is; indexes below and above the first hard one;
every secret with every other in each calculation, every nonce of a signature.

Deadlock checking is off in the rocksdb, web, statistics, rlp and uint runs. Their clients
are bounded: after the last permitted write, restore, open or item nothing more
needs to happen, and a caller that has its answer may stop. Their liveness
properties, where stated, say that no call is left hanging.

**Fairness.** `Pool`: `ImportStep` and `RemoveStalled` are weakly fair, since a
call that has begun runs on in its thread and waits for nobody. `PoolReads`: the
rounds of an iterator's loop. `KvdbRocksdb`: each thread's next step inside its
call; the lock's own fairness is not assumed beyond parking_lot's rule that a
waiting writer keeps later readers out. A thread that holds an iterator is
assumed to drain and drop it, without which `restore` may wait for ever, in the
code as well. `KvdbWeb`: the browser delivers its events and the executor polls
`open`. Nothing is assumed of the JavaScript collector, nor that a request succeeds:
`OpenFinishes` excepts an `open` one of whose requests has failed, and one that waits
for the connection of the handle it has itself dropped (lib.rs:58). What it says is
that `open` waits for ever for nothing else. `RocksOpen`: whoever
finds the database closed calls `open` again, and a call goes on; failures are
bounded, as endless ones would prevent any open. No liveness property assumes
strong fairness.

## 5. Proofs

`PoolProofs` proves, for every set of transactions and senders, every Options
with `max_per_sender > 0`, and every Scoring, ShouldReplace and Ready:

* `PoolStaysConsistent`: `Spec => []PoolConsistent`;
* `PoolTypeCorrect`, `OrderedSetsStayExact`, `HashIndexStaysExact`,
  `ListenerStaysExact`: its most important conjuncts by themselves;
* `MemUsageStaysExact`: `Spec => []MemUsageExact`;
* `PendingStaysExact`: `ReadSpec => []PendingExact`, for any next nonces the Ready
  begins with;
* `ReadsStayAgreed`: `ReadSpec => []ReadsAgree`: what the unordered iterator, `status`
  and `light_status` answer in any pool, for any next nonces.

and, for the client policies the statement is about,

* `LimitsStayRespected`: `Spec => []LimitsRespected`, if no transaction ignores its
  sender's limit and ShouldReplace always decides (`AlwaysDecides`). Both are
  needed: `InsertNew` lets the pool grow past its limits on purpose (replace.rs),
  and so does a sender's limit that does not apply;
* `RemovalsStayInOrder`: `Spec => RemovalsKeepOrder`, if a transaction replaces only
  one of its own nonce (`ReplacesSameSlot`; scoring.rs asks `choose` about
  transactions "that seem to occupy the same slot");
* `ScoresKeepFollowing`: `Spec => []ScoresFollow`, if scores are written on insertion
  and replacement only (`LazyScoring`, the Scoring that depends most on the pool
  shifting scores and transactions together).

None of these is inductive alone. That the ordered sets are exact needs that
insertion ids are unique (a removal is by comparison, and must hit the one entry
meant), which needs that no pooled id is above `insertion_id` and the one being
imported is not pooled (`CallConsistent`); that `by_hash` matches the queues
needs that the queues are sorted strictly and hold their sender's transactions
only (else the search finds another entry); the listener's count needs that a
hash is imported only if it is unknown. `PoolConsistent` is their conjunction and
is inductive. The proof goes operation by operation; for each the change of one queue is
related to the change of the sets by lemmas on `Add`, `RemoveTransaction`, `CullStalled`,
`UpdateScores` and on the sets' insertion and removal.

The memory total is a recursive sum over a set. That adding a transaction adds its
memory, and that a part of a set weighs no more than the whole, is proved by least
counterexample on the size of the set, which needs no induction theorem with an
operator as parameter. `MemInv` adds that `by_hash` is finite. `LimInv` adds what
each loop of `import` has established when it ends: below the count after the
first, and below the memory after the second, which the eviction of the second
must not undo. For the order of removals it is `Add` that takes work: the
transaction it pushes out is the last one of the queue it leaves. For the scores,
`Follows` is kept by each helper of `Transactions`, `insert` and `remove` of two
vectors at one index included.

The iterator's invariant is `ReadInv`: the heap holds at most one entry per sender,
and everything before that entry was ready or stale (`HeapInv`); a sender asked for
that is no longer on the heap has no pooled transaction with its next nonce, be it
because the queue ended or because of a gap (`DoneInv`); what was yielded is, sender
by sender, every nonce from the first up to the next one, in order and once
(`YieldInv`). That the heap never mixes two senders' entries up needs the uniqueness
of insertion ids again, and that a yielded nonce is the transaction meant needs the
strict order of the queues.

The other reads drain a queue in one go. A queue is sorted strictly by nonce and has
no two entries of one nonce, so whatever the next nonce of its sender is, it falls
into three parts (`Profile`): stale entries, then the consecutive nonces from the
next one on, then entries beyond a gap. `VisitsProfile` and `StatusProfile` go along
the queue, entry by entry, and say what the unordered iterator and the loop of
`status` have collected so far; the pieces are counted in `SegmentSize`. `Classes`
relates the three parts to the sets `ReadsAgree` is stated with, and
`SumOfSenders` adds the senders up, by the sums already used for the memory.

`OptionsAssumption` excludes `max_per_sender = 0`: with it the first import of a
sender indexes an empty vector. `ChooseAssumption` says that a Scoring does not
answer InsertNew for two transactions that compare as equal.

`DbTransactionsProofs` proves `PrefixRangeExact`, for every alphabet: the range from
a prefix up to `end_prefix` of it (or without end) contains exactly the keys that
start with the prefix. It also has the lemmas on `After` that the three stores share:
one more operation, and one more transaction, is what the operation does.

`KvdbProofs` proves, for every alphabet, number of columns, set of transactions
and of threads:

* `MemoryTypeCorrect` and `MemoryPartWayExact`: after `n` operations under the
  lock the columns are `After(before, txn, n)`. This is the inductive invariant
  the refinement needs, and rests on lemmas about the last operation that touches a key;
* `MemoryImplementsTrait`: `Spec => ImplementsKeyValueDB`, the refinement.

`OpenStatsProofs` proves about the statistics, for every set of threads and of sizes (natural numbers),
and without a bound on the calls:

* `TalliesStayReportedOnce`: `StatsSpec => []TalliesReportedOnce`;
* `OverallStaysSound`: `StatsSpec => []OverallSound`.

Their invariant `StatsInv` adds what the lock gives (`LockExclusive`: who takes
is alone), that what has not been taken yet is zero in the taker's hands
(`UntakenZero`), that the totals are what was returned (`OverallReported`), and
that each counter already peeked at fits the totals, which stay as they are while
a peek holds the lock (`PeekedSound`).

It proves about `open`, for any number of columns, whatever is restored, and
without a bound on crashes, failures and damage:

* `NamesStayOpen`: `Spec => []NamesOpen`;
* `RepairComesFirst`: `Spec => RepairedBeforeReopened`.

Their invariant `OpenInv` adds that the names are numbered without gaps, so that
`add_column` makes a new one (`NamesNumbered`), that a family which could not be
dropped has no name (`HandleInv`), that during the creation the families are those
below `made` (`CreatingInv`), and that what a write has reported is still marked,
and repaired once open is past its repair (`MarkerInv`).

`KvdbRocksdbProofs` proves, for every finite set of threads, all transactions,
copies and numbers of writes and restores, one at a time or several at once:

* `HandleStaysSound`: `Spec => []HandleSound`;
* `RestoreBringsCopy`: `Spec => RestoredContent`;
* `WritesAsDocumented`: `Spec => WrittenAsDocumented`;
* `IteratorsStayExact`: `Spec => []IterExact`.

`HandleInv` is inductive for the first two. Whatever overlaps, there is a directory at
the database's path and a restore never removes that one, since its copy is at
another path (`PathsSound`), and a reader's database is open (`OpenWhileRead`). While
the restore under way is alone (`~overlapped => Undisturbed`), there is one restorer
(`OneRestorer`), the database is closed from its close to its install and what it has
reopened is what is at the path (`HandleLive`), and the content of the copy is at its
own path until the swap and live from then on (`OfferedThere`), untouched by writes,
which go to the open directory only. A restore that begins when no other is under way
establishes this anew, whatever overlapping ones have left before it.
`DataInv` says entry by entry what a batch is made of (`BatchSound`) and that what
an iterator has yielded and what it has left are together the pairs of its prefix
(`IterSound`); `PrefixRangeExact` turns its range into the prefix. `WriteInv` adds
that no key of the open database is missing from a writer's `base` (`BaseKept`). The
proof of the write then finds the last operation that touches a key, and the entry of
the batch that decides it.

`KvdbWebProofs` proves, for any number of columns, opens and transactions, if no
prefix is deleted (`NoPrefixes`; section 6 says why that is needed):

* `IndexedDBStaysWhole`: `Spec => []StoredWhole`;
* `OpenDatabaseComplete`: `Spec => []OpenComplete`.

`WebInv` is inductive: the queue is the end of what was written (`LogInv`), stores are
as many as the widest open asked for and versions count the growth (`WidthInv`), the
transaction under way has done its first `ran` requests to `staged` (`RunInv`), the
columns read so far hold what the stores had (`LoadInv`) and the open Database holds
what was written unless a transaction of its own was aborted (`MemoryInv`). Leaving an
aborted transaction out of the middle of the log is a lemma about `LastWriter`.

`EncodingProofs` proves `BloomForgetsNothing`, `BloomSpec => []BloomExact`, for every
size of the filter, every set of inputs and every hash. Its invariant `BloomInv`
says of each byte which bits it has: those that the accrued inputs set in it. The
indexes stay uninterpreted: their range would need an induction over the bytes of
the hash, and nothing depends on it.

It also proves `CountsStayExact`, `Spec => []CountsExact` for `RlpReader`'s `Spec`, in
which a stream is written and then read: for any data, any format and any depth. Its
invariant `CountInv` says what holds within a call. All lists but the innermost have
counted their items, and the innermost lags behind by what `note_appended` was called
with, or by the data `append` has yet to count (`Lists`, `Lag`). The calls of
`append` under way are at growing depths, each but the last waits for a list, and as
soon as that list is closed `finished_list` is true or the `note_appended` under way
will make it so (`FramesInv`): this is what keeps `append` from counting a list
twice. This theorem depends on nothing about the encoding of the items.

Three more theorems about the same `Spec` are about the bytes, for any data, prior
contents of the buffer, depth and numbers of the format:

* `StreamStaysExact`: `Spec /\ []BufferFits => []StreamExact`;
* `ViewStaysImmutable`: `Spec /\ []BufferFits => []CacheTransparent`;
* `ReadsStayExact`: `Spec /\ []BufferFits => []ReadsExact`.

`BufferFits` says that the buffer is shorter than the first size that does not fit the
`u32` of `insert_size`, 4 GiB in rlp: from there on the code writes a header with the
size modulo 2^32, and what was written is not what is read. The run stays below that
size (section 4). The
assumptions on the constants are what the code gives: data are bytes, each shorter than
that (`DataAssumption`); pre-serialised pieces were written by an `RlpStream`, so that
each is data or a list of such items (`RawAssumption`); a slice that was received is
any sequence of bytes (`ReceivedAssumption`).

The invariants:

* `StreamInv` adds to `CountInv` where everything is (`Laid`, `Positions`): the buffer is
  a prior content and then, level by level, a placeholder and the encodings of the items
  of that level, each item being data or a list of such items; and each open list
  remembers the place of its own placeholder, counted from the start of the stream. Both
  are needed when a list is closed: the header goes to the remembered place, and what is
  behind it is the payload that the header counts, which makes the level one item of the
  level below. That no header of an inner list moves a placeholder of an outer one is
  the fact that the levels below are a prefix of the buffer.
* `ViewInv` says that the offset cached for an index is the one a walk over the items
  from the first one arrives at after so many steps, if that walk stays within the list
  (`AnyView`); and, on a slice that ends with its list, that it does arrive
  (`ViewOf`). `at` continues the walk from there, so it has to be shown that a walk can
  be cut at any item. A fresh view walks over the list's payload and one with a cached
  offset over the rest of the slice: as long as the first finds an item, so does the
  second, and the same, as `PayloadInfo` reads the same header whatever bytes are behind
  it (`InfoInFront`, `ConsumeInFront`). Errors are kept on slices that end with their
  list only, where a walk that fails behind the cached item fails from the start as well.
* `ReadInv` says of a view of a finished stream which item it views: its bytes are that
  item's, and the item is data or a list of items that were written.

The last theorem rests on the format itself. A size is given back by its big-endian
bytes without leading zeros (`Number` of `BigEndian`), the headers of the five kinds of
items have disjoint first bytes, and `PayloadInfo` reads from the bytes of an item,
whatever is behind it, exactly its header and its payload. A walk over the payload of a list
therefore visits the items that were appended, one by one, by an induction over their number.

`KeyProofs` proves, for every curve of prime order (`FieldAssumption`: each number
below the order but zero has an inverse), all messages, nonces and plain texts:

* `SecretMathStaysExact`: `Spec => []SecretMathExact`, all six operations;
* `DerivationStaysCommuting`: `Spec => []DerivationCommutes`, if HMAC gives numbers
  (`HmacIsNumber`);
* `SignaturesStayAccepted`: `Spec => []SignaturesAccepted`;
* `SealedStaysForOwner`: `Spec => []SealedOpensForOwner`.

What is assumed of the curve (`CurveAssumption`) is what holds of secp256k1: a number
of 256 bits is below twice the order, two points with the same x are a point and its
negation, and the y of these differ in parity. The rest is residue arithmetic, which
the module builds up from `%`: sums and products of residues, inverses, and the power
by repeated multiplication (`Power`, against which `pow` is compared for every
exponent). A signature is recovered because its `s` is the nonce's inverse times
`message + r * secret`, or the negation of that with the parity flipped, which gives
back the nonce's point in both cases; two keys agree on an x only if they are equal
or each other's negation. A sealed message opens to its text because a key stream
combined with twice cancels (`StreamsCancel`), and with no other authenticated data
because a tag of the same cipher text tells the data (`TagTells`). Only the derivation has an invariant of several steps,
`DeriveInv`: the owner's key is a valid one and the watcher's its multiple.

Induction over the natural numbers is done with one lemma, `AllNaturals`: a set that
holds zero and the successor of each of its members holds every natural number. It is
about a set, not an operator, so the provers can use it.

Only model-checked: all liveness properties, as fairness is out of the prover's
reach; the roots of tries (`TrieRootsExact`), which are defined by RECURSIVE operators
over trees; hashes and their text (`HashesExact`, `HexExact`), which use `Bitwise`; and
big integers (`ArithmeticExact`, `DivModExact`, `PowersExact`, `ConversionsExact`),
which are loops over words and powers of two of variable width, where the provers know
nothing of `^`.

## 6. Where code and documentation differ

With a run that shows it:

* `pool_sender_limit`: `push_cheapest_transaction` compares the index with
  `max_per_sender` for equality (transactions.rs:86). Once a transaction exempt
  from the limit has taken the queue past it, ordinary transactions are accepted
  without bound (options.rs:14, scoring.rs:93).
* `kvdb_web_prefix`: DeletePrefix deletes one key from IndexedDB
  (indexed_db.rs:166) and all keys with the prefix from memory; after the next
  open the others are back (kvdb/src/lib.rs:87).

Noted while modelling, without a run of their own:

* `import` may evict a transaction in its first loop and reject the new one in
  its second (pool.rs:163).
* The replacement candidate is looked up under the new transaction's sender for
  both arguments of `ShouldReplace` (pool.rs:290, replace.rs:17).
* The unordered iterator leaves a sender at the first transaction that is not
  ready, stale ones included (pool.rs:553), unlike the pending iterator.
  `ReadsAgree` states what remains true.
* kvdb-rocksdb's DeletePrefix without an end looks for keys beyond the end key
  in the content of that moment, and so misses keys of the same transaction and
  of writes committed before its own (lib.rs:527). `WrittenAsDocumented` excludes
  exactly these.
* Two concurrent calls of `restore` can leave a handle on a directory that has
  been removed, and one can install the other's copy (lib.rs:641-642), as the lock is
  released between the steps. The model has both; `HandleSound` and `RestoredContent`
  say what remains true.
* kvdb-web's `drop(db)` before an upgrade does not close the JavaScript
  connection by itself (lib.rs:58), though the comment says so (lib.rs:53), and a
  request of `open` that fails is never reported: the future waits for ever
  (indexed_db.rs:54-73, 234). `OpenFinishes` excepts these two and no others.
* `insert_size` cuts a size to 32 bits (stream.rs:356), while `estimate_size` counts the
  bytes of 64 (stream.rs:228) and the reader accepts 8: data or a list of 4 GiB or more
  is written with a header that says less. The theorems about RLP exclude exactly this.
* `estimate_size` can be one too small when a list's payload crosses a length
  boundary by an addition to an inner list (stream.rs:222).
* On a slice with bytes behind its list, `at` past the last item is an error on a
  fresh view and an item made of those bytes once an earlier item is cached
  (rlpin.rs:216 searches the whole slice), though the view calls itself immutable
  (rlpin.rs:101). `CacheTransparent` says of these slices what stays true: an item
  that a fresh view finds is found with any cache.
* `overflowing_neg` returns the complement (uint.rs:1166).
* `pow` masks the highest bit of an odd exponent instead of the lowest
  (uint.rs:1024): two to the power of 2^255 + 1 is 8, where the documentation
  promises a panic (uint.rs:1005). `PowersExact` compares `pow` with the power for
  exponents without their top bit, and `overflowing_pow` for all.
* A repair loses the column families without table files. With some of them left
  the next open names one too many in its first attempt and too few in its
  second, and repairs again: it fails until the configuration is changed
  (`Unopenable`, lib.rs:430-460).
* The mark of a corruption is created without looking at the result (lib.rs:302),
  and `remove_last_column` takes the name away before `drop_cf` can fail
  (lib.rs:675): the family stays on disk, and `add_column` fails from then on.
* `from_low_u64_be` of a hash shorter than 8 bytes keeps the most significant
  bytes (fixed-hash hash.rs:413), which its comment says are ignored (hash.rs:422).
  `HashesExact` leaves these lengths out.
* `decrypt` looks at the first byte of the message before its length, and so panics on
  an empty one (ecies.rs:57). Its tag covers the cipher text and the authenticated
  data without a mark between them (ecies.rs:43-46, 79-80), so it does not fix where
  the one ends and the other begins; the callers have to.
* `into_electrum` adds 27 to `v` in a byte (ecdsa_signature.rs:49), which overflows for a
  `v` above 228; `Signature` takes any (`from_rsv`).
* impl-serde accepts blanks, and counts them: an odd number of them moves the
  pairing of the digits, and a hash with blanks ends in zero bytes
  (serialize.rs:115).
* ethbloom's `log2` is the number of binary digits, 12 for 2048, which makes no
  difference to the two bytes of an index.
* Sums of secrets that become zero are errors, though zero is a Secret; zero to
  the power of zero is zero; subtracting an invalid secret from zero leaves the
  invalid one (secret_key.rs:123). A private derivation can end in the zero
  secret, and a public one panics for an HMAC of zero or a sum at infinity, where
  the code says "qed" (extended_keys.rs:338, 344). `is_low_s` accepts zero
  (ecdsa_signature.rs:84, against line 76). A sealed message also opens for the
  negated secret, since only the x coordinate is agreed on.
* The index 0 of `ordered_trie_root` encodes as 0x80 and sorts behind 1 to 127;
  `TrieRootsExact` covers it.
* `io_stats` of kvdb-rocksdb: `combine` adds written bytes to read ones
  (stats.rs:80, `Combine`); two calls at once add the same cache hits twice, and
  the next one subtracts the larger from the smaller (lib.rs:771, `CachePanics`);
  the average batch size is inverted (kvdb/src/io_stats.rs:58).

## 7. Plan

Built so far, in this order: the pool and its proof; the trait with the in-memory
store and the refinement proof; the two other stores; RLP; big integers; opening
and repair of RocksDB with its proof; tries; hashes, text and blooms with the
proof about blooms; keys; the proofs about the pool's
memory, limits, order, scores and iterators, about the stores' iterators and
writes, about kvdb-web, about the counts and the bytes of RLP's lists and their
reading, and about keys. Still to do:

1. **Proofs**: kvdb-web's in-memory part as another implementation of
   `KeyValueDB`; addition and multiplication of big integers, word by word.
2. **kvdb-rocksdb**: a secondary instance that catches up with its primary, a
   non-atomic swap that fails half way, and which of the directories two overlapping
   restores may leave.

### Not modelled

* keccak-hash, and the ciphers and digests of parity-crypto: external primitives.
* parity-path, trace-time: I/O; parity-bytes: formatting and a copy.
* parity-util-mem: allocator bindings, and an instance per container that adds up
  what the allocator answers; there is no state, and the size of a heap block it
  would have to be compared with is outside the code.
* contract-address, plain_hasher: single formulas over a hash.
* rlp-derive: a macro that emits calls of what `RlpStream` and `RlpReader` model.
* The parsing of RocksDB's statistics, compaction profiles and memory budgets of
  kvdb-rocksdb; `IoStats` of kvdb, a record with averages.
* kvdb-shared-tests: test code, read as evidence.
