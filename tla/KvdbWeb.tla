------------------------------- MODULE KvdbWeb -------------------------------
(***************************************************************************)
(* kvdb-web: a Database keeps its content in an InMemory database and      *)
(* copies every transaction to the browser's IndexedDB, whose transactions *)
(* run later and one after another.  write does not wait for them, and an  *)
(* error is only logged.  open reads the content back, after a second open *)
(* with a higher version if stores are missing.  (What write does to the   *)
(* InMemory database is After: KvdbProofs.)                                *)
(*                                                                         *)
(* IndexedDB is external.  What is used of it: transactions over the same  *)
(* stores run in the order they were created in, across connections, one   *)
(* request after another, and are seen and kept whole or not at all; close *)
(* lets the pending ones finish; a page that goes away loses them; an open *)
(* with a higher version waits until no connection is left.                *)
(***************************************************************************)
EXTENDS DbTransactions, FiniteSets

CONSTANTS
    ColumnCounts,       \* arguments of open
    Transactions,       \* what the application writes
    MaxOpens,           \* bound on opens
    MaxWrites           \* bound on writes

ASSUME ColumnCountsAssumption == ColumnCounts \subseteq Nat \ {0}
ASSUME TransactionsAssumption == Transactions \subseteq Seq(DBOp)

VARIABLES
    phase,              \* of the Database: "closed", "opening", "reopening", "loading" or "open";
                        \* "unanswered": open waits for a request that has failed
    columns,            \* Database.columns, the argument of open
    in_memory,          \* Database.in_memory
    loaded,             \* the columns open has read so far
    version,            \* of the IndexedDB; 0 before it exists
    stores,             \* its object stores: number -> key -> value
    queue,              \* its read-write transactions that have not completed yet
    ran, staged,        \* requests of the first that have run, and the stores as it sees them
    connections,        \* the Databases (opens) whose connection is not closed
    opens, writes,      \* counts (bounds)
    log,                \* the transactions written and not lost (for the properties)
    widest,             \* the most columns a database was opened with, and
    grown,              \* how many opens needed more than any before them
    diverged            \* a transaction of the open Database was aborted

vars == <<phase, columns, in_memory, loaded, version, stores, queue, ran, staged, connections,
          opens, writes, log, widest, grown, diverged>>

dbVars == <<version, stores>>
running == <<ran, staged>>
history == <<opens, writes, log, widest, grown, diverged>>

Init ==
    /\ phase = "closed"
    /\ columns = 0
    /\ in_memory = [c \in {} |-> EmptyMap]
    /\ loaded = 0
    /\ version = 0
    /\ stores = [c \in {} |-> EmptyMap]
    /\ queue = <<>>
    /\ ran = 0
    /\ staged = stores
    /\ connections = {}
    /\ opens = 0
    /\ writes = 0
    /\ log = <<>>
    /\ widest = 0
    /\ grown = 0
    /\ diverged = FALSE
------------------------------------------------------------------------------
(* Faulty variant of CreateMissingStores: every store is created anew. *)
CreateMissingStoresAnew(n) == [c \in DOMAIN stores \cup 0..n |-> EmptyMap]

(* Stores previous_columns..=columns are added to those there are. *)
CreateMissingStores(n) ==
    [c \in DOMAIN stores \cup Cardinality(DOMAIN stores)..n |->
        IF c \in DOMAIN stores THEN stores[c] ELSE EmptyMap]

(* For the properties: the database got wider. *)
NoteWidth(wider) ==
    /\ widest' = IF wider THEN columns ELSE widest
    /\ grown' = IF wider THEN grown + 1 ELSE grown

(* open: the latest version of the database is requested. *)
Open(n) ==
    /\ phase = "closed"
    /\ opens < MaxOpens
    /\ opens' = opens + 1
    /\ phase' = "opening"
    /\ columns' = n
    /\ loaded' = 0
    /\ diverged' = FALSE
    /\ UNCHANGED <<in_memory, dbVars, queue, running, connections, writes, log, widest, grown>>

(***************************************************************************)
(* The request succeeds, after the stores of a new database were created.  *)
(* If stores are missing the handle is dropped, which does not close the   *)
(* connection, and the next version is requested.                          *)
(***************************************************************************)
OnOpened ==
    /\ phase = "opening"
    /\ version' = IF version = 0 THEN 1 ELSE version
    /\ stores' = IF version = 0 THEN CreateMissingStores(columns) ELSE stores
    /\ phase' = IF columns + 1 > Cardinality(DOMAIN stores') THEN "reopening" ELSE "loading"
    /\ connections' = connections \cup {opens}
    /\ in_memory' = [c \in 0..(columns - 1) |-> EmptyMap]
    /\ NoteWidth(version = 0)
    /\ UNCHANGED <<columns, loaded, queue, running, opens, writes, log, diverged>>

(* The handle that open dropped is collected, and with it its connection; no browser must. *)
CollectGarbage ==
    /\ phase = "reopening"
    /\ opens \in connections
    /\ connections' = connections \ {opens}
    /\ UNCHANGED <<phase, columns, in_memory, loaded, dbVars, queue, running, history>>

OnUpgraded ==
    /\ phase = "reopening"
    /\ connections = {}
    /\ queue = <<>>
    /\ version' = version + 1
    /\ stores' = CreateMissingStores(columns)
    /\ connections' = {opens}
    /\ phase' = "loading"
    /\ NoteWidth(columns > widest)
    /\ UNCHANGED <<columns, in_memory, loaded, queue, running, opens, writes, log, diverged>>

(* A request of open, or its cursor, fails: only onsuccess is listened to, and open waits on. *)
RequestFails ==
    /\ phase \in {"opening", "reopening", "loading"}
    /\ phase' = "unanswered"
    /\ UNCHANGED <<columns, in_memory, loaded, dbVars, queue, running, connections, history>>

(* A cursor reads a whole store, once the writes queued before it have run. *)
LoadColumn ==
    /\ phase = "loading"
    /\ loaded < columns
    /\ queue = <<>>
    /\ in_memory' = [in_memory EXCEPT ![loaded] = stores[loaded]]
    /\ loaded' = loaded + 1
    /\ UNCHANGED <<phase, columns, dbVars, queue, running, connections, history>>

(* Faulty variant of OpenReturns: the last column is not read. *)
OpenReturnsEarly ==
    /\ phase = "loading"
    /\ loaded >= columns - 1
    /\ phase' = "open"
    /\ UNCHANGED <<columns, in_memory, loaded, dbVars, queue, running, connections, history>>

OpenReturns ==
    /\ phase = "loading"
    /\ loaded = columns
    /\ phase' = "open"
    /\ UNCHANGED <<columns, in_memory, loaded, dbVars, queue, running, connections, history>>
------------------------------------------------------------------------------
(* write: the IndexedDB transaction is created, the future it returns is dropped. *)
Write(ops) ==
    /\ phase = "open"
    /\ writes < MaxWrites
    /\ \A i \in DOMAIN ops : ops[i].col < columns
    /\ queue' = Append(queue, ops)
    /\ in_memory' = After(in_memory, ops, Len(ops))
    /\ writes' = writes + 1
    /\ log' = Append(log, ops)
    /\ UNCHANGED <<phase, columns, loaded, dbVars, running, connections, opens, widest, grown, diverged>>

(* What a request does to its store: DeletePrefix deletes the range from the prefix to itself. *)
Request(s, op) ==
    [s EXCEPT ![op.col] =
        IF op.type = "Insert" THEN WithKey(@, op.key, op.value) ELSE Without(@, {op.key})]

(* The next request of the first transaction runs. *)
RunRequest ==
    /\ queue # <<>>
    /\ ran < Len(Head(queue))
    /\ staged' = Request(IF ran = 0 THEN stores ELSE staged, Head(queue)[ran + 1])
    /\ ran' = ran + 1
    /\ UNCHANGED <<phase, columns, in_memory, loaded, dbVars, queue, connections, history>>

(* The first transaction is over, and what it ran is forgotten. *)
Leave ==
    /\ queue # <<>>
    /\ queue' = Tail(queue)
    /\ ran' = 0
    /\ staged' = [c \in {} |-> EmptyMap]

(* on_complete: all of its requests have run. *)
RunTransaction ==
    /\ Leave
    /\ ran = Len(Head(queue))
    /\ stores' = IF ran = 0 THEN stores ELSE staged
    /\ UNCHANGED <<phase, columns, in_memory, loaded, version, connections, history>>

(* The transactions that have completed are the first of log. *)
Applied == Len(log) - Len(queue)

(* on_error: a warning is logged.  Nothing of the transaction is stored. *)
AbortTransaction ==
    /\ Leave
    /\ log' = SubSeq(log, 1, Applied) \o SubSeq(log, Applied + 2, Len(log))
    /\ diverged' = (phase = "open" \/ diverged)
    /\ UNCHANGED <<phase, columns, in_memory, loaded, dbVars, connections,
                   opens, writes, widest, grown>>

(* Faulty variant of Drop: without Drop for Database the connection stays open. *)
DropUnclosed ==
    /\ phase = "open"
    /\ phase' = "closed"
    /\ in_memory' = [c \in {} |-> EmptyMap]
    /\ UNCHANGED <<columns, loaded, dbVars, queue, running, connections, history>>

(* Drop: the connection is closed and the content in memory goes. *)
Drop ==
    /\ phase = "open"
    /\ phase' = "closed"
    /\ in_memory' = [c \in {} |-> EmptyMap]
    /\ connections' = connections \ {opens}
    /\ UNCHANGED <<columns, loaded, dbVars, queue, running, history>>

(* The page goes away, in whatever state: what has not run is lost. *)
Crash ==
    /\ phase # "closed" \/ queue # <<>>
    /\ phase' = "closed"
    /\ in_memory' = [c \in {} |-> EmptyMap]
    /\ queue' = <<>>
    /\ ran' = 0
    /\ staged' = [c \in {} |-> EmptyMap]
    /\ log' = SubSeq(log, 1, Applied)
    /\ connections' = {}
    /\ UNCHANGED <<columns, loaded, dbVars, opens, writes, widest, grown, diverged>>

Next ==
    \/ \E n \in ColumnCounts : Open(n)
    \/ OnOpened
    \/ CollectGarbage
    \/ OnUpgraded
    \/ RequestFails
    \/ LoadColumn
    \/ OpenReturns
    \/ \E ops \in Transactions : Write(ops)
    \/ RunRequest
    \/ RunTransaction
    \/ AbortTransaction
    \/ Drop
    \/ Crash

(* The browser delivers its events, of which a collection is none; open's future is polled. *)
Spec ==
    /\ Init
    /\ [][Next]_vars
    /\ WF_vars(OnOpened)
    /\ WF_vars(OnUpgraded)
    /\ WF_vars(LoadColumn)
    /\ WF_vars(OpenReturns)
    /\ WF_vars(RunRequest)
    /\ WF_vars(RunTransaction)
------------------------------------------------------------------------------
Emptied(cols) == [c \in cols |-> EmptyMap]

(* What a transaction leaves in columns that were empty, and whether it touches a key at all. *)
Alone(cols, ops) == After(Emptied(cols), ops, Len(ops))

TouchedBy(ops, col, key) == LastTouch(ops, Len(ops), col, key) # {}

(* The last of the first n transactions that touches the key, if there is one. *)
LastWriter(txns, n, col, key) ==
    {i \in 1..n : /\ TouchedBy(txns[i], col, key)
                  /\ \A j \in (i + 1)..n : ~TouchedBy(txns[j], col, key)}

(* What the first n transactions leave in columns that were empty: the last on a key decides. *)
Leaves(cols, txns, n) ==
    [col \in cols |->
        [k \in UNION {{k \in DOMAIN Alone(cols, txns[i])[col] : i \in LastWriter(txns, n, col, k)} :
                         i \in 1..n} |->
            Alone(cols, txns[TheOnly(LastWriter(txns, n, col, k))])[col][k]]]

Replay(n) == Leaves(DOMAIN stores, log, n)

(***************************************************************************)
(* IndexedDB holds what the transactions that have run leave, each of them *)
(* whole: a crash, an aborted transaction and an upgrade lose the others   *)
(* and nothing else.                                                       *)
(***************************************************************************)
StoredWhole == stores = Replay(Applied)

(***************************************************************************)
(* What an open Database answers from is what was written to it and to the *)
(* Databases before it, although open did not wait for their transactions  *)
(* explicitly and the new one's have not run yet. The stores that it reads *)
(* and writes exist ("The stores were created on open", indexed_db.rs:198  *)
(* and 131), and its version counts the opens that needed more of them:    *)
(* reopening with the same or fewer columns does not bump it.              *)
(***************************************************************************)
OpenComplete ==
    /\ phase = "open" /\ ~diverged => in_memory = [c \in 0..(columns - 1) |-> Replay(Len(log))[c]]
    /\ phase \in {"loading", "open"} => 0..(columns - 1) \subseteq DOMAIN stores
    /\ phase = "open" => version = grown

(***************************************************************************)
(* open finishes, whatever was pending when it was called and from each of *)
(* its waits, unless the page goes away, one of its requests fails, which  *)
(* nobody listens for (indexed_db.rs:70 and 234), or the browser does not  *)
(* collect the handle that open has dropped without closing it, although   *)
(* "we close the database" (lib.rs:53 and 58): the next version waits for  *)
(* that connection, and for no other.                                      *)
(***************************************************************************)
OpenFinishes ==
    phase \in {"opening", "reopening", "loading"} ~>
        \/ phase \in {"open", "closed", "unanswered"}
        \/ phase = "reopening" /\ opens \in connections
==============================================================================
