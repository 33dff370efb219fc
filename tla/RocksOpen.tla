------------------------------ MODULE RocksOpen ------------------------------
(***************************************************************************)
(* Opening a kvdb-rocksdb Database: the repair of a database that was      *)
(* marked as corrupted, the attempts of open_primary and open_secondary,   *)
(* the creation of the column families one by one, and the operations that *)
(* change the columns of an open database.  Any call can fail and the      *)
(* process can die between any two steps.  One process uses the path at a  *)
(* time.                                                                   *)
(*                                                                         *)
(* RocksDB is external.  What is used of it: an open has to name every     *)
(* column family there is, and only those; it notices some damage and not  *)
(* other damage; repair rebuilds the database from its table files, so a   *)
(* column family that has none is gone afterwards.                         *)
(***************************************************************************)
EXTENDS Naturals, Sequences

CONSTANTS
    MaxColumns,         \* bound on the number of columns
    Copies,             \* what restore can be given: the column families and those with files
    MaxConfigs,         \* bound on changes of the configuration between two opens
    MaxEvents           \* bound on crashes, failed calls, damage and restores

ASSUME ColumnsAssumption == MaxColumns \in Nat \ {0}

Columns == 0..(MaxColumns - 1)

(* DatabaseConfig: the number of columns must not be zero. *)
Configs == [columns : 1..MaxColumns, secondary : BOOLEAN]

VARIABLES
    config,             \* what the process opens the database with
    pc,                 \* "closed", a step of open, or "open"
    made,               \* how many column families this open has created
    cfs,                \* the column families the process has a handle of
    column_names,       \* DBAndColumns.column_names
    families,           \* the column families on disk, the default one apart
    tables,             \* the ones among them that have table files
    damage,             \* "none", "seen" by open, or "hidden" from it
    marker,             \* is there a file CORRUPTED?
    reported,           \* was it made since the last repair? (history)
    leftover,           \* families drop_cf failed to drop since open (history)
    configs, events     \* counts (bounds)

disk == <<families, tables, damage, marker, reported>>
handle == <<cfs, column_names, leftover>>
vars == <<config, pc, made, handle, disk, configs, events>>

Wanted == 0..(config.columns - 1)

Names == {column_names[i] : i \in DOMAIN column_names}

Init ==
    /\ config \in Configs
    /\ pc = "closed"
    /\ made = 0
    /\ cfs = {}
    /\ column_names = <<>>
    /\ families = {}
    /\ tables = {}
    /\ damage = "none"
    /\ marker = FALSE
    /\ reported = FALSE
    /\ leftover = {}
    /\ configs = 0
    /\ events = 0

Counted ==
    /\ events < MaxEvents
    /\ events' = events + 1
------------------------------------------------------------------------------
(* What RocksDB answers to an open that names the given families. *)
OpenResult(cols) ==
    CASE damage = "seen" -> "Corruption:"
      [] damage # "seen" /\ ~(cols \subseteq families) -> "Invalid argument: Column family not found"
      [] damage # "seen" /\ cols \subseteq families /\ cols # families ->
            "Invalid argument: You have to open all column families"
      [] damage # "seen" /\ cols = families -> "ok"

(* A secondary may leave families out. *)
SecondaryResult(cols) ==
    IF damage # "seen" /\ cols \subseteq families THEN "ok" ELSE OpenResult(cols)

(* DB::repair: what has table files is kept. *)
Repaired ==
    /\ families' = tables
    /\ damage' = "none"
    /\ reported' = FALSE
    /\ UNCHANGED tables

(* Faulty variant of IsCorrupted: families that were not named are not a reason to repair. *)
IsCorruptedStrictly(err) == err = "Corruption:"

IsCorrupted(err) ==
    err \in {"Corruption:", "Invalid argument: You have to open all column families"}

(* The process gets its handle, with the columns it configured. *)
Opened ==
    /\ pc' = "open"
    /\ made' = 0
    /\ cfs' = Wanted
    /\ column_names' = [i \in 1..config.columns |-> i - 1]
    /\ leftover' = {}

(* open returns an error, or the handle is dropped. *)
Closed ==
    /\ pc' = "closed"
    /\ made' = 0
    /\ cfs' = {}
    /\ column_names' = <<>>
    /\ leftover' = {}

Goes(step) ==
    /\ pc' = step
    /\ UNCHANGED <<made, handle>>
------------------------------------------------------------------------------
(* Faulty variant of StartOpen: the mark is removed as soon as it is found. *)
StartOpenUnmarking ==
    /\ pc = "closed"
    /\ Goes(IF marker THEN "repairing" ELSE "opening")
    /\ marker' = FALSE
    /\ UNCHANGED <<config, families, tables, damage, reported, configs, events>>

StartOpen ==
    /\ pc = "closed"
    /\ Goes(IF marker THEN "repairing" ELSE "opening")
    /\ UNCHANGED <<config, disk, configs, events>>

RepairMarked ==
    /\ pc = "repairing"
    /\ Repaired
    /\ Goes("unmarking")
    /\ UNCHANGED <<config, marker, configs, events>>

RemoveMarker ==
    /\ pc = "unmarking"
    /\ marker' = FALSE
    /\ Goes("opening")
    /\ UNCHANGED <<config, families, tables, damage, reported, configs, events>>

(* open_primary: any error leads to the second attempt. *)
OpenAll ==
    /\ pc = "opening"
    /\ ~config.secondary
    /\ IF OpenResult(Wanted) = "ok" THEN Opened ELSE Goes("retrying")
    /\ UNCHANGED <<config, disk, configs, events>>

(* It names no families, so that they can be created. *)
OpenNone ==
    /\ pc = "retrying"
    /\ LET result == OpenResult({})
       IN  \/ result = "ok" /\ Goes("creating")
           \/ IsCorrupted(result) /\ Goes("rebuilding")
           \/ result # "ok" /\ ~IsCorrupted(result) /\ Closed
    /\ UNCHANGED <<config, disk, configs, events>>

CreateNext ==
    /\ pc = "creating"
    /\ families' = families \cup {made}
    /\ IF made + 1 = config.columns
       THEN Opened
       ELSE made' = made + 1 /\ UNCHANGED <<pc, handle>>
    /\ UNCHANGED <<config, tables, damage, marker, reported, configs, events>>

OpenSecondary ==
    /\ pc = "opening"
    /\ config.secondary
    /\ LET result == SecondaryResult(Wanted)
       IN  \/ result = "ok" /\ Opened
           \/ IsCorrupted(result) /\ Goes("rebuilding")
           \/ result # "ok" /\ ~IsCorrupted(result) /\ Closed
    /\ UNCHANGED <<config, disk, configs, events>>

RepairInOpen ==
    /\ pc = "rebuilding"
    /\ Repaired
    /\ Goes("reopening")
    /\ UNCHANGED <<config, marker, configs, events>>

(* The attempt after the repair, the last one. *)
OpenAgain ==
    /\ pc = "reopening"
    /\ LET result == IF config.secondary THEN SecondaryResult(Wanted) ELSE OpenResult(Wanted)
       IN  IF result = "ok" THEN Opened ELSE Closed
    /\ UNCHANGED <<config, disk, configs, events>>

(* A repair, a removal, a creation or an open that fails ends the call; so does a crash. *)
FailOrCrash ==
    /\ pc \notin {"closed", "open"}
    /\ Counted
    /\ Closed
    /\ UNCHANGED <<config, disk, configs>>
------------------------------------------------------------------------------
(* The process closes the database, or dies with it open. *)
CloseDb ==
    /\ pc = "open"
    /\ Closed
    /\ UNCHANGED <<config, disk, configs, events>>

(* The next open uses another configuration. *)
Reconfigure(c) ==
    /\ pc = "closed"
    /\ configs < MaxConfigs
    /\ configs' = configs + 1
    /\ config' = c
    /\ UNCHANGED <<pc, made, handle, disk, events>>

(* The medium is damaged. *)
Damage(which) ==
    /\ Counted
    /\ damage' = which
    /\ UNCHANGED <<config, pc, made, handle, families, tables, marker, reported, configs>>

Writable(c) ==
    /\ pc = "open"
    /\ ~config.secondary
    /\ c \in Names

(* write, the data of which reaches a table file. *)
WriteOk(c) ==
    /\ Writable(c)
    /\ tables' = tables \cup {c}
    /\ UNCHANGED <<config, pc, made, handle, families, damage, marker, reported, configs, events>>

(* check_for_corruption: a write that meets the damage leaves the mark. *)
WriteReports(c) ==
    /\ Writable(c)
    /\ damage # "none"
    /\ marker' = TRUE
    /\ reported' = TRUE
    /\ UNCHANGED <<config, pc, made, handle, families, tables, damage, configs, events>>

(* Faulty variant of AddColumn: the name is added before the column family. *)
AddColumnNameFirst(ok) ==
    /\ pc = "open"
    /\ LET col == Len(column_names)
       IN  /\ col \in Columns
           /\ IF ok /\ ~config.secondary /\ col \notin families
              THEN /\ families' = families \cup {col}
                   /\ cfs' = cfs \cup {col}
                   /\ UNCHANGED events
              ELSE (IF ok THEN UNCHANGED events ELSE Counted) /\ UNCHANGED <<families, cfs>>
           /\ column_names' = Append(column_names, col)
    /\ UNCHANGED <<config, pc, made, leftover, tables, damage, marker, reported, configs>>

(* add_column; create_cf fails for a family that is there, and on a secondary. *)
AddColumn(ok) ==
    /\ pc = "open"
    /\ LET col == Len(column_names)
       IN  /\ col \in Columns
           /\ IF ok /\ ~config.secondary /\ col \notin families
              THEN /\ families' = families \cup {col}
                   /\ cfs' = cfs \cup {col}
                   /\ column_names' = Append(column_names, col)
                   /\ UNCHANGED events
              ELSE (IF ok THEN UNCHANGED events ELSE Counted) /\ UNCHANGED <<families, cfs, column_names>>
    /\ UNCHANGED <<config, pc, made, leftover, tables, damage, marker, reported, configs>>

(* remove_last_column: the name goes first, and stays away when drop_cf fails. *)
RemoveLastColumn(ok) ==
    /\ pc = "open"
    /\ column_names # <<>>
    /\ LET col == column_names[Len(column_names)]
       IN  /\ column_names' = SubSeq(column_names, 1, Len(column_names) - 1)
           /\ IF ok /\ ~config.secondary
              THEN /\ families' = families \ {col}
                   /\ tables' = tables \ {col}
                   /\ cfs' = cfs \ {col}
                   /\ UNCHANGED <<leftover, events>>
              ELSE /\ leftover' = leftover \cup {col}
                   /\ IF ok THEN UNCHANGED events ELSE Counted
                   /\ UNCHANGED <<families, tables, cfs>>
    /\ UNCHANGED <<config, pc, made, damage, marker, reported, configs>>

(* restore: close, another directory at the path, and open with the configured columns. *)
Restore(copy) ==
    /\ pc = "open"
    /\ Closed
    /\ Counted
    /\ families' = copy.families
    /\ tables' = copy.tables
    /\ damage' = "none"
    /\ marker' = FALSE
    /\ reported' = FALSE
    /\ UNCHANGED <<config, configs>>
------------------------------------------------------------------------------
OpenStep ==
    \/ StartOpen
    \/ RepairMarked \/ RemoveMarker
    \/ OpenAll \/ OpenNone \/ CreateNext \/ OpenSecondary
    \/ RepairInOpen \/ OpenAgain

Next ==
    \/ OpenStep
    \/ FailOrCrash
    \/ CloseDb
    \/ \E c \in Configs : Reconfigure(c)
    \/ \E which \in {"seen", "hidden"} : Damage(which)
    \/ \E c \in Columns : WriteOk(c) \/ WriteReports(c)
    \/ \E ok \in BOOLEAN : AddColumn(ok) \/ RemoveLastColumn(ok)
    \/ \E copy \in Copies : Restore(copy)

(* Somebody calls open again whenever the database is closed, and the call goes on. *)
Spec == Init /\ [][Next]_vars /\ WF_vars(OpenStep)
------------------------------------------------------------------------------
(***************************************************************************)
(* Every name of an open database is a column family it has a handle of,   *)
(* which is what cf() relies on ("the specified column name is correct;    *)
(* qed"), after any sequence of additions and removals that may fail; and  *)
(* a primary's names are all the families on disk but those that drop_cf   *)
(* has failed to drop.                                                     *)
(***************************************************************************)
NamesOpen ==
    pc = "open" =>
        /\ Names \subseteq cfs
        /\ ~config.secondary => families = Names \cup leftover

(***************************************************************************)
(* A database that a write has marked as corrupted is never open again     *)
(* before it was repaired ("Repair will be triggered on next restart"),    *)
(* wherever open failed or the process died, during the repair itself too. *)
(***************************************************************************)
RepairedBeforeReopened == [][pc # "open" /\ pc' = "open" => ~reported']_vars

(* Repair has dropped columns without files, and kept others: no open can succeed. *)
Unopenable == tables \notin {{}, Wanted} /\ families # Wanted

(***************************************************************************)
(* Whoever keeps calling open as a primary gets the database open, however *)
(* an earlier creation of the column families, repair or open ended, but   *)
(* for one case: some columns have table files, others had none and were   *)
(* lost, or other columns than those on disk are asked for.                *)
(***************************************************************************)
OpenRecovers == []<>(pc = "open" \/ config.secondary \/ Unopenable)
==============================================================================
