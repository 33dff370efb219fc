------------------------------- MODULE DbStats -------------------------------
(***************************************************************************)
(* The statistics of kvdb-rocksdb: RunningDbStats, whose counters every    *)
(* write and get adds to without a lock, and io_stats, which takes them    *)
(* counter by counter while others go on adding.  Only the totals that     *)
(* were taken before, OverallDbStats, are behind a lock.  An atomic        *)
(* operation is a step; the properties relate each counter only to itself  *)
(* and to what the lock orders, which Relaxed operations respect.          *)
(***************************************************************************)
EXTENDS Integers, Sequences, FiniteSets

CONSTANTS
    Threads,
    Sizes,      \* the numbers of operations of a transaction, and of bytes of a call
    MaxCalls    \* bound on the calls made

ASSUME SizesAssumption == Sizes \subseteq Nat

(* The fields of RawDbStats in the order take_current and peek_current visit them. *)
Fields ==
    <<"reads", "writes", "bytes_written", "bytes_read", "transactions", "cache_hit_count">>
Counters == {Fields[i] : i \in 1..6}

VARIABLES
    running,        \* RunningDbStats: counter -> value
    overall,        \* OverallDbStats.stats
    stage,          \* thread -> where it is in write, get or io_stats
    kind,           \* thread -> IoStatsKind it was asked for
    hits,           \* thread -> what get_statistics told it of block.cache.hit
    old,            \* thread -> old_cache_hit_count
    current,        \* thread -> the RawDbStats it is taking or peeking at
    visited,        \* thread -> how many fields of it are filled in
    block_cache_hit,\* RocksDB's own count
    calls,          \* count (bound)
    tallied,        \* counter -> all that was ever added to it (history)
    returned,       \* counter -> all that since_previous returned (history)
    before          \* thread -> tallied when it began to peek (history)

stats == <<running, overall>>
history == <<tallied, returned, before>>
statsVars == <<stats, stage, kind, hits, old, current, visited, block_cache_hit, calls, history>>

None == [c \in Counters |-> 0]

StatsInit ==
    /\ running = None
    /\ overall = None
    /\ stage = [t \in Threads |-> "idle"]
    /\ kind = [t \in Threads |-> "Overall"]
    /\ hits = [t \in Threads |-> 0]
    /\ old = [t \in Threads |-> 0]
    /\ current = [t \in Threads |-> None]
    /\ visited = [t \in Threads |-> 0]
    /\ block_cache_hit = 0
    /\ calls = 0
    /\ tallied = None
    /\ returned = None
    /\ before = [t \in Threads |-> None]
------------------------------------------------------------------------------
(* tally_reads and its siblings: one fetch_add. *)
Tally(c, val) ==
    /\ running' = [running EXCEPT ![c] = @ + val]
    /\ tallied' = [tallied EXCEPT ![c] = @ + val]

Goto(t, from, to) == stage[t] = from /\ stage' = [stage EXCEPT ![t] = to]

StartCall == calls < MaxCalls /\ calls' = calls + 1

looking == <<kind, hits, old, current, visited>>

(* write counts its operations, then itself, then its bytes. *)
StartWrite(t) ==
    /\ Goto(t, "idle", "tally_transactions")
    /\ StartCall
    /\ \E ops \in Sizes : Tally("writes", ops)
    /\ UNCHANGED <<overall, looking, block_cache_hit, returned, before>>

TallyTransactions(t) ==
    /\ Goto(t, "tally_transactions", "tally_bytes_written")
    /\ Tally("transactions", 1)
    /\ UNCHANGED <<overall, looking, block_cache_hit, calls, returned, before>>

TallyBytesWritten(t) ==
    /\ Goto(t, "tally_bytes_written", "idle")
    /\ \E bytes \in Sizes : Tally("bytes_written", bytes)
    /\ UNCHANGED <<overall, looking, block_cache_hit, calls, returned, before>>

(* get counts itself and then, when RocksDB has answered, its bytes. *)
StartGet(t) ==
    /\ Goto(t, "idle", "tally_bytes_read")
    /\ StartCall
    /\ Tally("reads", 1)
    /\ UNCHANGED <<overall, looking, block_cache_hit, returned, before>>

TallyBytesRead(t) ==
    /\ Goto(t, "tally_bytes_read", "idle")
    /\ \E bytes \in Sizes : Tally("bytes_read", bytes)
    /\ block_cache_hit' \in {block_cache_hit, block_cache_hit + 1}
    /\ UNCHANGED <<overall, looking, calls, returned, before>>

(* RocksDB's answer was an error: no bytes are counted. *)
GetFails(t) ==
    /\ Goto(t, "tally_bytes_read", "idle")
    /\ UNCHANGED <<stats, looking, block_cache_hit, calls, history>>
------------------------------------------------------------------------------
(* The lock of OverallDbStats. *)
Reading(t) == stage[t] \in {"peek_old", "peek"}
Taking(t) == stage[t] = "take"
CanRead == \A t \in Threads : ~Taking(t)
CanWrite == \A t \in Threads : ~Taking(t) /\ ~Reading(t)

(* io_stats, as far as get_statistics. *)
StartIoStats(t, k) ==
    /\ Goto(t, "idle", "overall_old")
    /\ StartCall
    /\ kind' = [kind EXCEPT ![t] = k]
    /\ hits' = [hits EXCEPT ![t] = block_cache_hit]
    /\ UNCHANGED <<stats, old, current, visited, block_cache_hit, history>>

StartLooking(t) ==
    /\ current' = [current EXCEPT ![t] = None]
    /\ visited' = [visited EXCEPT ![t] = 0]

(* overall takes the lock for reading: first for the cache hits, then for the answer. *)
BeginPeek(t) ==
    /\ \/ Goto(t, "overall_old", "peek_old")
       \/ kind[t] = "Overall" /\ Goto(t, "answer", "peek")
    /\ CanRead
    /\ StartLooking(t)
    /\ before' = [before EXCEPT ![t] = tallied]
    /\ UNCHANGED <<stats, kind, hits, old, block_cache_hit, calls, tallied, returned>>

(* peek_current loads the next counter. *)
PeekField(t) ==
    /\ Reading(t)
    /\ visited[t] < 6
    /\ visited' = [visited EXCEPT ![t] = @ + 1]
    /\ current' = [current EXCEPT ![t][Fields[visited[t] + 1]] = running[Fields[visited[t] + 1]]]
    /\ UNCHANGED <<stats, stage, kind, hits, old, block_cache_hit, calls, history>>

(* RawDbStats::combine, which adds the bytes written to the bytes read. *)
Combine(one, other) ==
    [c \in Counters |-> one[c] + (IF c = "bytes_read" THEN other["bytes_written"] ELSE other[c])]

(* What overall answers. *)
Peeked(t) == Combine(overall, current[t])

EndPeekOld(t) ==
    /\ visited[t] = 6
    /\ Goto(t, "peek_old", "tally_cache")
    /\ old' = [old EXCEPT ![t] = Peeked(t)["cache_hit_count"]]
    /\ UNCHANGED <<stats, kind, hits, current, visited, block_cache_hit, calls, history>>

EndPeek(t) ==
    /\ visited[t] = 6
    /\ Goto(t, "peek", "idle")
    /\ UNCHANGED <<stats, looking, block_cache_hit, calls, history>>

(* The cache hits since, by u64 subtraction: a negative one stands for its residue. *)
TallyCache(t) ==
    /\ Goto(t, "tally_cache", "answer")
    /\ Tally("cache_hit_count", hits[t] - old[t])
    /\ UNCHANGED <<overall, looking, block_cache_hit, calls, returned, before>>

(* A build that checks for overflow panics instead. *)
CachePanics(t) ==
    /\ hits[t] < old[t]
    /\ Goto(t, "tally_cache", "idle")
    /\ UNCHANGED <<stats, looking, block_cache_hit, calls, history>>
------------------------------------------------------------------------------
(* Faulty variant of BeginTake: take_current is called before the lock is taken. *)
BeginTakeUnlocked(t) ==
    /\ kind[t] = "SincePrevious"
    /\ Goto(t, "answer", "take")
    /\ StartLooking(t)
    /\ UNCHANGED <<stats, kind, hits, old, block_cache_hit, calls, history>>

(* since_previous takes the lock for writing. *)
BeginTake(t) ==
    /\ kind[t] = "SincePrevious"
    /\ Goto(t, "answer", "take")
    /\ CanWrite
    /\ StartLooking(t)
    /\ UNCHANGED <<stats, kind, hits, old, block_cache_hit, calls, history>>

(* Faulty variant of TakeField: the counter is loaded and not reset. *)
TakeFieldLoading(t) ==
    /\ Taking(t)
    /\ visited[t] < 6
    /\ visited' = [visited EXCEPT ![t] = @ + 1]
    /\ current' = [current EXCEPT ![t][Fields[visited[t] + 1]] = running[Fields[visited[t] + 1]]]
    /\ UNCHANGED <<stats, stage, kind, hits, old, block_cache_hit, calls, history>>

(* take_current swaps the next counter for zero. *)
TakeField(t) ==
    /\ Taking(t)
    /\ visited[t] < 6
    /\ visited' = [visited EXCEPT ![t] = @ + 1]
    /\ current' = [current EXCEPT ![t][Fields[visited[t] + 1]] = running[Fields[visited[t] + 1]]]
    /\ running' = [running EXCEPT ![Fields[visited[t] + 1]] = 0]
    /\ UNCHANGED <<overall, stage, kind, hits, old, block_cache_hit, calls, history>>

EndTake(t) ==
    /\ visited[t] = 6
    /\ Goto(t, "take", "idle")
    /\ overall' = Combine(overall, current[t])
    /\ returned' = [c \in Counters |-> returned[c] + current[t][c]]
    /\ UNCHANGED <<running, looking, block_cache_hit, calls, tallied, before>>

Step(t) ==
    \/ TallyTransactions(t) \/ TallyBytesWritten(t)
    \/ TallyBytesRead(t) \/ GetFails(t)
    \/ BeginPeek(t) \/ PeekField(t) \/ EndPeekOld(t) \/ EndPeek(t)
    \/ TallyCache(t) \/ CachePanics(t)
    \/ BeginTake(t) \/ TakeField(t) \/ EndTake(t)

StatsNext ==
    \E t \in Threads :
        \/ StartWrite(t)
        \/ StartGet(t)
        \/ \E k \in {"Overall", "SincePrevious"} : StartIoStats(t, k)
        \/ Step(t)

StatsSpec == StatsInit /\ [][StatsNext]_statsVars
------------------------------------------------------------------------------
StatsTypeOK ==
    /\ running \in [Counters -> Int]
    /\ overall \in [Counters -> Int]
    /\ stage \in [Threads -> {"idle", "tally_transactions", "tally_bytes_written", "tally_bytes_read",
                              "overall_old", "peek_old", "tally_cache", "answer", "peek", "take"}]
    /\ kind \in [Threads -> {"Overall", "SincePrevious"}]
    /\ hits \in [Threads -> Int]
    /\ old \in [Threads -> Int]
    /\ current \in [Threads -> [Counters -> Int]]
    /\ visited \in [Threads -> 0..6]
    /\ block_cache_hit \in Int
    /\ calls \in Nat
    /\ tallied \in [Counters -> Int]
    /\ returned \in [Counters -> Int]
    /\ before \in [Threads -> [Counters -> Int]]

(***************************************************************************)
(* Whatever write, get and io_stats add while since_previous goes from     *)
(* counter to counter, each tally is in exactly one place: still running,  *)
(* in the hands of the thread that took it, or returned, once.             *)
(***************************************************************************)
TalliesReportedOnce ==
    \A c \in Counters :
        /\ CanRead => returned[c] + running[c] = tallied[c]
        /\ \A t \in Threads : Taking(t) => returned[c] + current[t][c] + running[c] = tallied[c]

(***************************************************************************)
(* The overall statistics contain what was tallied before they were asked  *)
(* for and nothing that was not tallied yet, although since_previous of    *)
(* another thread moves the counts about.  (bytes_read is not what it      *)
(* says, see combine, and cache_hit_count may run backwards.)              *)
(***************************************************************************)
OverallSound ==
    \A t \in Threads : Reading(t) /\ visited[t] = 6 =>
        \A c \in Counters \ {"bytes_read", "cache_hit_count"} :
            before[t][c] <= Peeked(t)[c] /\ Peeked(t)[c] <= tallied[c]
==============================================================================
