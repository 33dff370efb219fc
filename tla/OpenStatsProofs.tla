--------------------------- MODULE OpenStatsProofs ---------------------------
(***************************************************************************)
(* Theorems about two parts of kvdb-rocksdb that do not touch each other:  *)
(* how a database is opened and repaired, for any number of columns,       *)
(* whatever is restored, and without a bound on failures, crashes and      *)
(* damage; and the statistics, for every set of threads and every size of  *)
(* transaction.                                                            *)
(***************************************************************************)
EXTENDS RocksOpen, DbStats, SequenceTheorems, TLAPS

Steps == {"closed", "repairing", "unmarking", "opening", "retrying", "creating",
          "rebuilding", "reopening", "open"}

TypeOK ==
    /\ config \in Configs
    /\ pc \in Steps
    /\ made \in Nat
    /\ column_names \in Seq(Nat)
    /\ marker \in BOOLEAN
    /\ reported \in BOOLEAN

(* The names are col0, col1 and so on, so that the next one is new. *)
NamesNumbered == \A i \in 1..Len(column_names) : column_names[i] = i - 1

(* What NamesOpen needs of the handle: a family that could not be dropped has lost its name. *)
HandleInv ==
    /\ NamesNumbered
    /\ pc = "open" => Names \cap leftover = {}

(* While the families are created those below made exist, and only a primary creates them. *)
CreatingInv ==
    /\ pc \in {"retrying", "creating"} => ~config.secondary
    /\ pc = "creating" => made < config.columns /\ families = 0..(made - 1)
    /\ pc # "creating" => made = 0

(* The steps of an open after the mark was looked for, and its repair made. *)
AfterRepair == {"unmarking", "opening", "retrying", "creating", "rebuilding", "reopening"}

(* The mark outlives what it reports: past the repair nothing is reported. *)
MarkerInv ==
    /\ reported => marker
    /\ pc \in AfterRepair => ~reported

OpenInv == TypeOK /\ HandleInv /\ CreatingInv /\ MarkerInv /\ NamesOpen
------------------------------------------------------------------------------
(* A vector of numbered names holds the numbers below its length. *)
LEMMA NumberedNames ==
    ASSUME column_names \in Seq(Nat), NamesNumbered
    PROVE  Names = 0..(Len(column_names) - 1)
  <1>1. DOMAIN column_names = 1..Len(column_names) /\ Len(column_names) \in Nat
    OBVIOUS
  <1>2. \A c \in Names : c \in 0..(Len(column_names) - 1)
    BY <1>1 DEF Names, NamesNumbered
  <1>3. \A c \in 0..(Len(column_names) - 1) : c \in Names
    <2> SUFFICES ASSUME NEW c \in 0..(Len(column_names) - 1) PROVE c \in Names
      OBVIOUS
    <2>1. c + 1 \in DOMAIN column_names /\ column_names[c + 1] = c
      BY <1>1 DEF NamesNumbered
    <2> QED  BY <2>1 DEF Names
  <1> QED  BY <1>2, <1>3

(* Opened establishes what is said of an open handle when the families are the wanted ones. *)
LEMMA OpenedNames ==
    ASSUME Opened, config \in Configs, config' = config
    PROVE  /\ column_names' \in Seq(Nat) /\ NamesNumbered'
           /\ Names' = Wanted /\ cfs' = Wanted /\ leftover' = {}
           /\ made' = 0 /\ pc' = "open"
  <1>1. config.columns \in Nat \ {0}
    BY ColumnsAssumption DEF Configs
  <1>2. column_names' = [i \in 1..config.columns |-> i - 1]
    BY DEF Opened
  <1>3. column_names' \in Seq(Nat) /\ Len(column_names') = config.columns
    BY <1>1, <1>2
  <1>4. NamesNumbered'
    BY <1>2, <1>3 DEF NamesNumbered
  <1>5. Names' = Wanted
    <2>1. DOMAIN column_names' = 1..config.columns
      BY <1>2
    <2>2. \A c \in Names' : c \in Wanted
      BY <1>1, <1>2, <2>1 DEF Names, Wanted
    <2>3. \A c \in Wanted : c + 1 \in DOMAIN column_names' /\ column_names'[c + 1] = c
      BY <1>1, <1>2, <2>1 DEF Wanted
    <2>4. \A c \in Wanted : c \in Names'
      BY <2>3 DEF Names
    <2> QED  BY <2>2, <2>4
  <1> QED  BY <1>3, <1>4, <1>5 DEF Opened

(* A step of open that neither ends it nor creates a family. *)
LEMMA GoesOn ==
    ASSUME OpenInv, NEW step \in Steps \ {"open", "creating"}, Goes(step), made = 0,
           UNCHANGED config, marker' \in BOOLEAN, reported' \in BOOLEAN,
           step = "retrying" => ~config.secondary,
           reported' => marker', step \in AfterRepair => ~reported'
    PROVE  OpenInv'
  <1>1. pc' = step /\ made' = made /\ column_names' = column_names /\ leftover' = leftover
    BY DEF Goes, handle
  <1> QED  BY <1>1 DEF OpenInv, TypeOK, HandleInv, NamesNumbered, CreatingInv, MarkerInv, NamesOpen, Steps

(* A step that ends with a closed database. *)
LEMMA ClosedFine ==
    ASSUME OpenInv, Closed, config' \in Configs, marker' \in BOOLEAN, reported' \in BOOLEAN,
           reported' => marker'
    PROVE  OpenInv'
  <1>1. pc' = "closed" /\ made' = 0 /\ column_names' = <<>>
    BY DEF Closed
  <1>2. column_names' \in Seq(Nat) /\ Len(column_names') = 0
    BY <1>1
  <1> QED  BY <1>1, <1>2 DEF OpenInv, TypeOK, HandleInv, NamesNumbered, CreatingInv, MarkerInv,
                             NamesOpen, Steps, AfterRepair

(* A step that ends with an open database of the wanted families. *)
LEMMA OpenedFine ==
    ASSUME OpenInv, Opened, UNCHANGED <<config, marker, reported>>,
           ~config.secondary => families' = Wanted
    PROVE  OpenInv'
  <1>1. /\ column_names' \in Seq(Nat) /\ NamesNumbered'
        /\ Names' = Wanted /\ cfs' = Wanted /\ leftover' = {}
        /\ made' = 0 /\ pc' = "open"
    BY OpenedNames DEF OpenInv, TypeOK
  <1>2. TypeOK' /\ HandleInv' /\ CreatingInv'
    BY <1>1 DEF OpenInv, TypeOK, HandleInv, CreatingInv, Steps
  <1>3. MarkerInv'
    BY <1>1 DEF OpenInv, MarkerInv, AfterRepair
  <1>4. NamesOpen'
    BY <1>1 DEF NamesOpen
  <1> QED  BY <1>2, <1>3, <1>4 DEF OpenInv
------------------------------------------------------------------------------
(* The steps of open keep the invariant. *)
LEMMA OpenStepKeeps ==
    ASSUME OpenInv, OpenStep
    PROVE  OpenInv'
  <1> USE DEF disk
  <1>0. /\ pc # "creating" => made = 0
        /\ marker \in BOOLEAN /\ reported \in BOOLEAN /\ (reported => marker)
        /\ pc \in AfterRepair => ~reported
        /\ config \in Configs
    BY DEF OpenInv, TypeOK, CreatingInv, MarkerInv
  <1>1. CASE StartOpen
    <2> DEFINE step == IF marker THEN "repairing" ELSE "opening"
    <2>1. Goes(step) /\ pc = "closed" /\ UNCHANGED <<config, marker, reported>>
      BY <1>1 DEF StartOpen
    <2>2. step \in Steps \ {"open", "creating"} /\ step # "retrying"
      BY DEF Steps
    <2>3. step \in AfterRepair => ~reported
      BY <1>0 DEF AfterRepair
    <2> HIDE DEF step
    <2> QED  BY <1>0, <2>1, <2>2, <2>3, GoesOn
  <1>2. CASE RepairMarked
    <2>1. Goes("unmarking") /\ pc = "repairing" /\ UNCHANGED <<config, marker>> /\ reported' = FALSE
      BY <1>2 DEF RepairMarked, Repaired
    <2> QED  BY <1>0, <2>1, GoesOn DEF Steps
  <1>3. CASE RemoveMarker
    <2>1. Goes("opening") /\ pc = "unmarking" /\ marker' = FALSE /\ UNCHANGED <<config, reported>>
      BY <1>3 DEF RemoveMarker
    <2> QED  BY <1>0, <2>1, GoesOn DEF Steps, AfterRepair
  <1>4. CASE OpenAll
    <2>1. /\ pc = "opening" /\ ~config.secondary
          /\ IF OpenResult(Wanted) = "ok" THEN Opened ELSE Goes("retrying")
          /\ UNCHANGED <<config, families, marker, reported>>
      BY <1>4 DEF OpenAll
    <2>2. CASE OpenResult(Wanted) = "ok"
      <3>1. families = Wanted
        BY <2>2 DEF OpenResult
      <3> QED  BY <2>1, <2>2, <3>1, OpenedFine
    <2>3. CASE OpenResult(Wanted) # "ok"
      BY <1>0, <2>1, <2>3, GoesOn DEF Steps, AfterRepair
    <2> QED  BY <2>2, <2>3
  <1>5. CASE OpenNone
    <2>1. /\ pc = "retrying" /\ ~config.secondary
          /\ UNCHANGED <<config, families, marker, reported>>
      BY <1>5 DEF OpenNone, OpenInv, CreatingInv
    <2>2. CASE OpenResult({}) = "ok" /\ Goes("creating")
      <3>1. families' = {}
        BY <2>1, <2>2 DEF OpenResult
      <3>2. /\ pc' = "creating" /\ made' = 0
            /\ column_names' = column_names /\ config' = config
        BY <1>0, <2>1, <2>2 DEF Goes, handle
      <3>3. config.columns \in Nat /\ config.columns > 0
        BY <1>0, ColumnsAssumption DEF Configs
      <3>4. families' = 0..(made' - 1)
        BY <3>1, <3>2
      <3> QED  BY <1>0, <2>1, <3>2, <3>3, <3>4
               DEF OpenInv, TypeOK, HandleInv, NamesNumbered, CreatingInv, MarkerInv, NamesOpen,
                   Steps, AfterRepair
    <2>3. CASE Goes("rebuilding")
      BY <1>0, <2>1, <2>3, GoesOn DEF Steps, AfterRepair
    <2>4. CASE Closed
      BY <1>0, <2>1, <2>4, ClosedFine
    <2> QED  BY <1>5, <2>2, <2>3, <2>4 DEF OpenNone
  <1>6. CASE CreateNext
    <2>1. /\ pc = "creating" /\ ~config.secondary /\ made \in Nat /\ made < config.columns
          /\ families = 0..(made - 1) /\ families' = families \cup {made}
          /\ UNCHANGED <<config, marker, reported>>
      BY <1>6 DEF CreateNext, OpenInv, TypeOK, CreatingInv
    <2>2. families' = 0..made
      BY <2>1
    <2>3. config.columns \in Nat
      BY <1>0, ColumnsAssumption DEF Configs
    <2>4. CASE made + 1 = config.columns
      <3>1. Opened
        BY <1>6, <2>4 DEF CreateNext
      <3>2. families' = Wanted
        BY <2>1, <2>2, <2>3, <2>4 DEF Wanted
      <3> QED  BY <2>1, <3>1, <3>2, OpenedFine
    <2>5. CASE made + 1 # config.columns
      <3>1. made' = made + 1 /\ pc' = pc /\ column_names' = column_names
        BY <1>6, <2>5 DEF CreateNext, handle
      <3>2. made' < config.columns /\ families' = 0..(made' - 1)
        BY <2>1, <2>2, <2>3, <2>5, <3>1
      <3> QED  BY <1>0, <2>1, <3>1, <3>2
               DEF OpenInv, TypeOK, HandleInv, NamesNumbered, CreatingInv, MarkerInv, NamesOpen,
                   Steps, AfterRepair
    <2> QED  BY <2>4, <2>5
  <1>7. CASE OpenSecondary
    <2>1. pc = "opening" /\ config.secondary /\ UNCHANGED <<config, marker, reported>>
      BY <1>7 DEF OpenSecondary
    <2>2. CASE Opened
      BY <2>1, <2>2, OpenedFine
    <2>3. CASE Goes("rebuilding")
      BY <1>0, <2>1, <2>3, GoesOn DEF Steps, AfterRepair
    <2>4. CASE Closed
      BY <1>0, <2>1, <2>4, ClosedFine
    <2> QED  BY <1>7, <2>2, <2>3, <2>4 DEF OpenSecondary
  <1>8. CASE RepairInOpen
    <2>1. Goes("reopening") /\ pc = "rebuilding" /\ UNCHANGED <<config, marker>> /\ reported' = FALSE
      BY <1>8 DEF RepairInOpen, Repaired
    <2> QED  BY <1>0, <2>1, GoesOn DEF Steps
  <1>9. CASE OpenAgain
    <2>1. pc = "reopening" /\ UNCHANGED <<config, families, marker, reported>>
      BY <1>9 DEF OpenAgain
    <2>2. CASE Opened /\ (~config.secondary => OpenResult(Wanted) = "ok")
      <3>1. ~config.secondary => families = Wanted
        BY <2>2 DEF OpenResult
      <3> QED  BY <2>1, <2>2, <3>1, OpenedFine
    <2>3. CASE Closed
      BY <1>0, <2>1, <2>3, ClosedFine
    <2> QED  BY <1>9, <2>2, <2>3 DEF OpenAgain
  <1> QED  BY <1>1, <1>2, <1>3, <1>4, <1>5, <1>6, <1>7, <1>8, <1>9 DEF OpenStep
------------------------------------------------------------------------------
(* add_column keeps the invariant: the new name is that of the family it has created. *)
LEMMA AddColumnKeeps ==
    ASSUME OpenInv, NEW ok \in BOOLEAN, AddColumn(ok)
    PROVE  OpenInv'
  <1> DEFINE col == Len(column_names)
             made_it == ok /\ ~config.secondary /\ col \notin families
  <1>1. /\ pc = "open" /\ col \in Nat /\ column_names \in Seq(Nat)
        /\ UNCHANGED <<config, pc, made, leftover, marker, reported>>
    BY DEF AddColumn, OpenInv, TypeOK
  <1>2. Names = 0..(col - 1) /\ Names \subseteq cfs /\ Names \cap leftover = {}
    BY <1>1, NumberedNames DEF OpenInv, TypeOK, HandleInv, NamesOpen
  <1>3. CASE made_it
    <2>1. /\ families' = families \cup {col} /\ cfs' = cfs \cup {col}
          /\ column_names' = Append(column_names, col)
      BY <1>3 DEF AddColumn
    <2>2. column_names' \in Seq(Nat) /\ Len(column_names') = col + 1
      BY <1>1, <2>1
    <2>3. NamesNumbered'
      BY <1>1, <2>1, <2>2 DEF NamesNumbered, OpenInv, HandleInv
    <2>4. Names' = Names \cup {col}
      <3>1. Names' = 0..col
        <4>1. DOMAIN column_names' = 1..(col + 1)
          BY <1>1, <2>2
        <4>2. \A i \in 1..(col + 1) : column_names'[i] = i - 1
          BY <2>2, <2>3 DEF NamesNumbered
        <4>3. \A c \in 0..col : c + 1 \in 1..(col + 1) /\ column_names'[c + 1] = c
          BY <1>1, <4>2
        <4>4. \A c \in 0..col : c \in Names'
          BY <4>1, <4>3 DEF Names
        <4>5. \A c \in Names' : c \in 0..col
          BY <1>1, <4>1, <4>2 DEF Names
        <4> QED  BY <4>4, <4>5
      <3> QED  BY <1>1, <1>2, <3>1
    <2>5. families = Names \cup leftover
      BY <1>1, <1>3 DEF OpenInv, NamesOpen
    <2>6. NamesOpen'
      BY <1>1, <1>2, <2>1, <2>4, <2>5 DEF NamesOpen
    <2>7. HandleInv'
      BY <1>1, <1>2, <1>3, <2>3, <2>4, <2>5 DEF HandleInv
    <2> QED  BY <1>1, <2>2, <2>6, <2>7 DEF OpenInv, TypeOK, CreatingInv, MarkerInv, AfterRepair
  <1>4. CASE ~made_it
    <2>1. UNCHANGED <<families, cfs, column_names>>
      BY <1>4 DEF AddColumn
    <2> QED  BY <1>1, <2>1 DEF OpenInv, TypeOK, HandleInv, NamesNumbered, Names, CreatingInv, MarkerInv,
                               NamesOpen, AfterRepair
  <1> QED  BY <1>3, <1>4

(* A vector that loses its last element. *)
LEMMA WithoutLast ==
    ASSUME NEW s \in Seq(Nat), Len(s) > 0
    PROVE  /\ SubSeq(s, 1, Len(s) - 1) \in Seq(Nat)
           /\ Len(SubSeq(s, 1, Len(s) - 1)) = Len(s) - 1
           /\ \A i \in 1..(Len(s) - 1) : SubSeq(s, 1, Len(s) - 1)[i] = s[i]
  <1>1. PICK m \in Int : m = Len(s) - 1 /\ m >= 0 /\ \A i \in 1..m : s[i] \in Nat
    OBVIOUS
  <1>2. \A i \in 1..m : s[i] \in Nat
    BY <1>1
  <1>3. /\ SubSeq(s, 1, m) \in Seq(Nat)
        /\ Len(SubSeq(s, 1, m)) = IF 1 <= m THEN m - 1 + 1 ELSE 0
        /\ \A i \in 1..(m - 1 + 1) : SubSeq(s, 1, m)[i] = s[1 + i - 1]
    BY <1>2, SubSeqProperties
  <1>4. Len(SubSeq(s, 1, m)) = m /\ \A i \in 1..m : SubSeq(s, 1, m)[i] = s[i]
    BY <1>1, <1>3
  <1> QED  BY <1>1, <1>3, <1>4

(* remove_last_column does: a family that is not dropped loses its name only. *)
LEMMA RemoveLastColumnKeeps ==
    ASSUME OpenInv, NEW ok \in BOOLEAN, RemoveLastColumn(ok)
    PROVE  OpenInv'
  <1> DEFINE n == Len(column_names)
             col == column_names[n]
  <1>1. /\ pc = "open" /\ n \in Nat \ {0} /\ column_names \in Seq(Nat)
        /\ UNCHANGED <<config, pc, made, marker, reported>>
        /\ column_names' = SubSeq(column_names, 1, n - 1)
    BY DEF RemoveLastColumn, OpenInv, TypeOK
  <1>2. /\ Names = 0..(n - 1) /\ Names \subseteq cfs /\ Names \cap leftover = {}
        /\ ~config.secondary => families = Names \cup leftover
    BY <1>1, NumberedNames DEF OpenInv, TypeOK, HandleInv, NamesOpen
  <1>3. col = n - 1
    BY <1>1 DEF OpenInv, HandleInv, NamesNumbered
  <1>4. /\ column_names' \in Seq(Nat) /\ Len(column_names') = n - 1
        /\ \A i \in 1..(n - 1) : column_names'[i] = column_names[i]
    <2>1. /\ SubSeq(column_names, 1, n - 1) \in Seq(Nat)
          /\ Len(SubSeq(column_names, 1, n - 1)) = n - 1
          /\ \A i \in 1..(n - 1) : SubSeq(column_names, 1, n - 1)[i] = column_names[i]
      BY <1>1, WithoutLast
    <2> QED  BY <1>1, <2>1
  <1>5. NamesNumbered'
    BY <1>1, <1>4 DEF NamesNumbered, OpenInv, HandleInv
  <1>6. Names' = Names \ {col}
    <2>1. DOMAIN column_names' = 1..(n - 1)
      BY <1>1, <1>4
    <2>2. \A i \in 1..(n - 1) : column_names'[i] = i - 1
      BY <1>4, <1>5 DEF NamesNumbered
    <2>3. \A c \in 0..(n - 2) : c + 1 \in 1..(n - 1) /\ column_names'[c + 1] = c
      BY <1>1, <2>2
    <2>4. \A c \in 0..(n - 2) : c \in Names'
      BY <2>1, <2>3 DEF Names
    <2>5. \A c \in Names' : c \in 0..(n - 2)
      BY <1>1, <2>1, <2>2, SMTT(40) DEF Names
    <2> QED  BY <1>1, <1>2, <1>3, <2>4, <2>5
  <1> HIDE DEF n, col
  <1>7. CASE ok /\ ~config.secondary
    <2>1. families' = families \ {col} /\ cfs' = cfs \ {col} /\ leftover' = leftover
      BY <1>7 DEF RemoveLastColumn, n, col
    <2>2. col \in Names
      BY <1>1, <1>2, <1>3
    <2>3. NamesOpen' /\ HandleInv'
      BY <1>1, <1>2, <1>5, <1>6, <2>1, <2>2 DEF NamesOpen, HandleInv
    <2> QED  BY <1>1, <1>4, <2>3 DEF OpenInv, TypeOK, CreatingInv, MarkerInv, AfterRepair
  <1>8. CASE ~(ok /\ ~config.secondary)
    <2>1. families' = families /\ cfs' = cfs /\ leftover' = leftover \cup {col}
      BY <1>8 DEF RemoveLastColumn, n, col
    <2>2. col \in Names
      BY <1>1, <1>2, <1>3
    <2>3. NamesOpen' /\ HandleInv'
      BY <1>1, <1>2, <1>5, <1>6, <2>1, <2>2 DEF NamesOpen, HandleInv
    <2> QED  BY <1>1, <1>4, <2>3 DEF OpenInv, TypeOK, CreatingInv, MarkerInv, AfterRepair
  <1> QED  BY <1>7, <1>8
------------------------------------------------------------------------------
(* The invariant holds at first. *)
LEMMA OpenInvInitially == Init => OpenInv
  <1> SUFFICES ASSUME Init PROVE OpenInv
    OBVIOUS
  <1>1. column_names \in Seq(Nat) /\ Len(column_names) = 0
    BY DEF Init
  <1>2. TypeOK
    BY <1>1 DEF Init, TypeOK, Steps
  <1>3. HandleInv /\ NamesOpen
    BY <1>1 DEF Init, HandleInv, NamesNumbered, NamesOpen
  <1>4. CreatingInv /\ MarkerInv
    BY DEF Init, CreatingInv, MarkerInv, AfterRepair
  <1> QED  BY <1>2, <1>3, <1>4 DEF OpenInv

(* Every step keeps the invariant. *)
LEMMA OpenInvKept == OpenInv /\ [Next]_vars => OpenInv'
  <1> SUFFICES ASSUME OpenInv, [Next]_vars PROVE OpenInv'
    OBVIOUS
  <1> USE DEF disk, handle
  <1>0. /\ marker \in BOOLEAN /\ reported \in BOOLEAN /\ (reported => marker)
        /\ config \in Configs
    BY DEF OpenInv, TypeOK, MarkerInv
  <1>1. CASE OpenStep
    BY <1>1, OpenStepKeeps
  <1>2. CASE FailOrCrash
    BY <1>0, <1>2, ClosedFine DEF FailOrCrash
  <1>3. CASE CloseDb
    BY <1>0, <1>3, ClosedFine DEF CloseDb
  <1>4. ASSUME NEW c \in Configs, Reconfigure(c) PROVE OpenInv'
    BY <1>4 DEF Reconfigure, OpenInv, TypeOK, HandleInv, NamesNumbered, CreatingInv, MarkerInv,
                NamesOpen, AfterRepair
  <1>5. ASSUME NEW which \in {"seen", "hidden"}, Damage(which) PROVE OpenInv'
    BY <1>5 DEF Damage, OpenInv, TypeOK, HandleInv, NamesNumbered, Names, CreatingInv, MarkerInv,
                NamesOpen, AfterRepair
  <1>6. ASSUME NEW c \in Columns, WriteOk(c) PROVE OpenInv'
    BY <1>6 DEF WriteOk, OpenInv, TypeOK, HandleInv, NamesNumbered, Names, CreatingInv, MarkerInv,
                NamesOpen, AfterRepair
  <1>7. ASSUME NEW c \in Columns, WriteReports(c) PROVE OpenInv'
    BY <1>7 DEF WriteReports, Writable, OpenInv, TypeOK, HandleInv, NamesNumbered, Names,
                CreatingInv, MarkerInv, NamesOpen, AfterRepair
  <1>8. ASSUME NEW ok \in BOOLEAN, AddColumn(ok) PROVE OpenInv'
    BY <1>8, AddColumnKeeps
  <1>9. ASSUME NEW ok \in BOOLEAN, RemoveLastColumn(ok) PROVE OpenInv'
    BY <1>9, RemoveLastColumnKeeps
  <1>10. ASSUME NEW copy \in Copies, Restore(copy) PROVE OpenInv'
    BY <1>0, <1>10, ClosedFine DEF Restore
  <1>11. CASE UNCHANGED vars
    BY <1>11 DEF vars, OpenInv, TypeOK, HandleInv, NamesNumbered, Names, CreatingInv, MarkerInv,
                 NamesOpen, AfterRepair
  <1> QED  BY <1>1, <1>2, <1>3, <1>4, <1>5, <1>6, <1>7, <1>8, <1>9, <1>10, <1>11 DEF Next

(***************************************************************************)
(* cf() always finds the column family of a name (lib.rs:264), and a       *)
(* primary has a name for every family but those that drop_cf left,        *)
(* whatever open, add_column and remove_last_column met.                   *)
(***************************************************************************)
THEOREM NamesStayOpen == Spec => []NamesOpen
  <1>1. OpenInv => NamesOpen
    BY DEF OpenInv
  <1> QED  BY <1>1, OpenInvInitially, OpenInvKept, PTL DEF Spec

(***************************************************************************)
(* A database that a write has marked as corrupted (lib.rs:302) is not     *)
(* opened again before a repair, wherever an open failed or the process    *)
(* died.                                                                   *)
(***************************************************************************)
THEOREM RepairComesFirst == Spec => RepairedBeforeReopened
  <1>1. ASSUME OpenInv, OpenInv', [Next]_vars
        PROVE  [pc # "open" /\ pc' = "open" => ~reported']_vars
    <2> SUFFICES ASSUME pc # "open", pc' = "open", Next PROVE ~reported'
      BY <1>1 DEF vars
    <2> USE DEF disk
    <2>1. pc \in AfterRepair => ~reported
      BY <1>1 DEF OpenInv, MarkerInv
    <2>2. OpenAll \/ CreateNext \/ OpenSecondary \/ OpenAgain
      BY DEF Next, OpenStep, StartOpen, RepairMarked, RemoveMarker, OpenNone, RepairInOpen,
             FailOrCrash, CloseDb, Reconfigure, Damage, WriteOk, WriteReports, Writable, AddColumn,
             RemoveLastColumn, Restore, Goes, Closed
    <2>3. pc \in AfterRepair /\ reported' = reported
      BY <2>2 DEF OpenAll, CreateNext, OpenSecondary, OpenAgain, AfterRepair
    <2> QED  BY <2>1, <2>3
  <1> QED  BY <1>1, OpenInvInitially, OpenInvKept, PTL DEF Spec, RepairedBeforeReopened
------------------------------------------------------------------------------
(* The counters that only ever grow and that combine adds to themselves. *)
Plain == Counters \ {"bytes_read", "cache_hit_count"}

(* The read-write lock: a thread that takes is alone. *)
LockExclusive ==
    \A t, u \in Threads : Taking(t) /\ t # u => ~Taking(u) /\ ~Reading(u)

(* What take_current has not come to yet is still zero in its result. *)
UntakenZero ==
    \A t \in Threads : Taking(t) =>
        \A i \in 1..6 : i > visited[t] => current[t][Fields[i]] = 0

(* The overall totals are what was returned, bytes_read apart. *)
OverallReported == \A c \in Counters \ {"bytes_read"} : overall[c] = returned[c]

(* What a thread saw when it began to peek is not more than what there is now. *)
BeforeBelow ==
    \A t \in Threads : Reading(t) => \A c \in Plain : before[t][c] <= tallied[c]

(* Each counter that was peeked at fits the totals. *)
PeekedSound ==
    \A t \in Threads : Reading(t) =>
        \A i \in 1..6 : i <= visited[t] /\ Fields[i] \in Plain =>
            /\ before[t][Fields[i]] <= overall[Fields[i]] + current[t][Fields[i]]
            /\ overall[Fields[i]] + current[t][Fields[i]] <= tallied[Fields[i]]

StatsInv ==
    /\ StatsTypeOK
    /\ LockExclusive
    /\ UntakenZero
    /\ TalliesReportedOnce
    /\ OverallReported
    /\ BeforeBelow
    /\ PeekedSound
-----------------------------------------------------------------------------
(* The six fields are the counters, each of them once. *)
LEMMA FieldsFacts ==
    /\ \A i \in 1..6 : Fields[i] \in Counters
    /\ \A i, j \in 1..6 : Fields[i] = Fields[j] => i = j
    /\ \A c \in Counters : \E i \in 1..6 : Fields[i] = c
BY DEF Fields, Counters

LEMMA NamedCounters ==
    Counters = {"reads", "writes", "bytes_written", "bytes_read", "transactions", "cache_hit_count"}
<1>1. 1..6 = {1, 2, 3, 4, 5, 6}
  OBVIOUS
<1> QED
  BY <1>1 DEF Counters, Fields

(* What combine adds. *)
LEMMA CombineFacts ==
    ASSUME NEW one \in [Counters -> Int], NEW other \in [Counters -> Int]
    PROVE  /\ Combine(one, other) \in [Counters -> Int]
           /\ \A c \in Counters \ {"bytes_read"} : Combine(one, other)[c] = one[c] + other[c]
BY NamedCounters DEF Combine

(* The initial counters are zero. *)
LEMMA NoneFacts == None \in [Counters -> Int] /\ \A c \in Counters : None[c] = 0
BY DEF None

(* Nothing has been tallied, taken or peeked at in the beginning. *)
LEMMA StatsInitHolds == StatsInit => StatsInv
<1> SUFFICES ASSUME StatsInit PROVE StatsInv
  OBVIOUS
<1> USE NoneFacts
<1>1. StatsTypeOK
  BY DEF StatsInit, StatsTypeOK
<1>2. \A t \in Threads : ~Taking(t) /\ ~Reading(t)
  BY DEF StatsInit, Taking, Reading
<1>3. TalliesReportedOnce
  BY <1>2 DEF StatsInit, TalliesReportedOnce
<1>4. OverallReported
  BY DEF StatsInit, OverallReported
<1> QED
  BY <1>1, <1>2, <1>3, <1>4 DEF StatsInv, LockExclusive, UntakenZero, BeforeBelow, PeekedSound

-----------------------------------------------------------------------------
(* Every step leaves the state well formed. *)
LEMMA StepTypes == StatsTypeOK /\ [StatsNext]_statsVars => StatsTypeOK'
<1> SUFFICES ASSUME StatsTypeOK, [StatsNext]_statsVars PROVE StatsTypeOK'
  OBVIOUS
<1> USE NamedCounters, NoneFacts, SizesAssumption DEF StatsTypeOK, Goto, stats, looking, history
<1>1. CASE UNCHANGED statsVars
  BY <1>1 DEF statsVars
<1>2. CASE StatsNext
  <2> PICK t \in Threads :
        \/ StartWrite(t)
        \/ StartGet(t)
        \/ \E k \in {"Overall", "SincePrevious"} : StartIoStats(t, k)
        \/ Step(t)
    BY <1>2 DEF StatsNext
  <2>1. CASE StartWrite(t)
    BY <2>1 DEF StartWrite, StartCall, Tally
  <2>2. CASE StartGet(t)
    BY <2>2 DEF StartGet, StartCall, Tally
  <2>3. ASSUME NEW k \in {"Overall", "SincePrevious"}, StartIoStats(t, k) PROVE StatsTypeOK'
    BY <2>3 DEF StartIoStats, StartCall
  <2>4. CASE TallyTransactions(t)
    BY <2>4 DEF TallyTransactions, Tally
  <2>5. CASE TallyBytesWritten(t)
    BY <2>5 DEF TallyBytesWritten, Tally
  <2>6. CASE TallyBytesRead(t)
    BY <2>6 DEF TallyBytesRead, Tally
  <2>7. CASE GetFails(t)
    BY <2>7 DEF GetFails
  <2>8. CASE BeginPeek(t)
    BY <2>8, SMTT(40) DEF BeginPeek, StartLooking
  <2>9. CASE PeekField(t)
    <3>1. visited[t] \in 0..6 /\ visited[t] < 6
      BY <2>9 DEF PeekField
    <3>2. Fields[visited[t] + 1] \in Counters
      BY <3>1, FieldsFacts
    <3>3. running[Fields[visited[t] + 1]] \in Int
      BY <3>2
    <3>4. current' \in [Threads -> [Counters -> Int]]
      BY <2>9, <3>2, <3>3 DEF PeekField
    <3>5. visited' \in [Threads -> 0..6]
      BY <2>9, <3>1 DEF PeekField
    <3> QED
      BY <2>9, <3>2, <3>4, <3>5 DEF PeekField
  <2>10. CASE EndPeekOld(t)
    <3>1. Peeked(t) \in [Counters -> Int]
      BY CombineFacts DEF Peeked
    <3> QED
      BY <2>10, <3>1 DEF EndPeekOld
  <2>11. CASE EndPeek(t)
    BY <2>11 DEF EndPeek
  <2>12. CASE TallyCache(t)
    BY <2>12 DEF TallyCache, Tally
  <2>13. CASE CachePanics(t)
    BY <2>13 DEF CachePanics
  <2>14. CASE BeginTake(t)
    BY <2>14 DEF BeginTake, StartLooking
  <2>15. CASE TakeField(t)
    <3>1. visited[t] \in 0..6 /\ visited[t] < 6
      BY <2>15 DEF TakeField
    <3>2. Fields[visited[t] + 1] \in Counters
      BY <3>1, FieldsFacts
    <3>3. running[Fields[visited[t] + 1]] \in Int
      BY <3>2
    <3>4. current' \in [Threads -> [Counters -> Int]]
      BY <2>15, <3>2, <3>3 DEF TakeField
    <3>5. visited' \in [Threads -> 0..6]
      BY <2>15, <3>1 DEF TakeField
    <3> QED
      BY <2>15, <3>2, <3>4, <3>5 DEF TakeField
  <2>16. CASE EndTake(t)
    <3>1. Combine(overall, current[t]) \in [Counters -> Int]
      BY CombineFacts
    <3> QED
      BY <2>16, <3>1 DEF EndTake
  <2> QED
    BY <2>1, <2>2, <2>3, <2>4, <2>5, <2>6, <2>7, <2>8, <2>9, <2>10, <2>11, <2>12, <2>13, <2>14,
       <2>15, <2>16 DEF Step
<1> QED
  BY <1>1, <1>2

(* A tally disturbs nobody: what is taken and what is reported stay, and totals only grow. *)
LEMMA TallyKeeps ==
    ASSUME StatsInv, StatsTypeOK',
           NEW c \in Counters, NEW val \in Int, Tally(c, val),
           val >= 0 \/ c = "cache_hit_count",
           UNCHANGED <<overall, current, visited, returned, before>>,
           \A t \in Threads : Taking(t)' = Taking(t) /\ Reading(t)' = Reading(t)
    PROVE  StatsInv'
<1> USE DEF StatsInv
<1>1. \A d \in Counters :
        \/ running'[d] = running[d] /\ tallied'[d] = tallied[d]
        \/ running'[d] = running[d] + val /\ tallied'[d] = tallied[d] + val
  BY DEF Tally, StatsTypeOK
<1>2. \A d \in Plain : tallied[d] <= tallied'[d]
  BY DEF Tally, StatsTypeOK, Plain
<1>3. LockExclusive' /\ UntakenZero' /\ OverallReported'
  BY DEF LockExclusive, UntakenZero, OverallReported
<1>4. CanRead' = CanRead
  BY DEF CanRead
<1>5. TalliesReportedOnce'
  <2>0. /\ returned' = returned
        /\ \A d \in Counters : /\ returned[d] \in Int
                               /\ running[d] \in Int /\ running'[d] \in Int
                               /\ tallied[d] \in Int /\ tallied'[d] \in Int
    BY DEF StatsTypeOK
  <2>1. ASSUME NEW d \in Counters, CanRead' PROVE returned'[d] + running'[d] = tallied'[d]
    <3>1. returned[d] + running[d] = tallied[d]
      BY <2>1, <1>4 DEF TalliesReportedOnce
    <3> QED
      BY <3>1, <1>1, <2>0
  <2>2. ASSUME NEW d \in Counters, NEW t \in Threads, Taking(t)'
        PROVE  returned'[d] + current'[t][d] + running'[d] = tallied'[d]
    <3>1. returned[d] + current[t][d] + running[d] = tallied[d]
      BY <2>2 DEF TalliesReportedOnce
    <3>2. current[t][d] \in Int /\ current' = current
      BY DEF StatsTypeOK
    <3> QED
      BY <3>1, <3>2, <1>1, <2>0
  <2> QED
    BY <2>1, <2>2 DEF TalliesReportedOnce
<1>6. BeforeBelow'
  BY <1>2 DEF BeforeBelow, StatsTypeOK, Plain
<1>7. PeekedSound'
  BY <1>2 DEF PeekedSound, StatsTypeOK, Plain
<1> QED
  BY <1>3, <1>5, <1>6, <1>7

(* A step that touches no count and starts no look at them keeps the invariant. *)
LEMMA QuietKeeps ==
    ASSUME StatsInv, StatsTypeOK',
           UNCHANGED <<running, overall, current, visited, tallied, returned, before>>,
           \A t \in Threads : Taking(t)' = Taking(t) /\ (Reading(t)' => Reading(t))
    PROVE  StatsInv'
<1>1. CanRead' = CanRead
  BY DEF CanRead
<1> QED
  BY <1>1 DEF StatsInv, LockExclusive, UntakenZero, TalliesReportedOnce, OverallReported,
              BeforeBelow, PeekedSound

(* overall takes the read lock when nobody takes, with nothing peeked at yet. *)
LEMMA BeginPeekKeeps ==
    ASSUME StatsInv, StatsTypeOK', NEW t \in Threads, BeginPeek(t)
    PROVE  StatsInv'
<1> USE DEF StatsInv, stats
<1>1. \A u \in Threads : ~Taking(u) /\ ~Taking(u)'
  BY DEF BeginPeek, CanRead, Goto, Taking, StatsTypeOK
<1>2. \A u \in Threads : u # t =>
        Reading(u)' = Reading(u) /\ visited'[u] = visited[u] /\ before'[u] = before[u] /\ current'[u] = current[u]
  BY DEF BeginPeek, Goto, StartLooking, Reading, StatsTypeOK
<1>3. visited'[t] = 0 /\ before'[t] = tallied
  BY DEF BeginPeek, StartLooking, StatsTypeOK
<1>4. UNCHANGED <<running, overall, tallied, returned>>
  BY DEF BeginPeek
<1>5. LockExclusive' /\ UntakenZero' /\ OverallReported'
  BY <1>1, <1>4 DEF LockExclusive, UntakenZero, OverallReported
<1>6. TalliesReportedOnce'
  BY <1>1, <1>4 DEF TalliesReportedOnce, CanRead
<1>7. BeforeBelow'
  <2> SUFFICES ASSUME NEW u \in Threads, Reading(u)', NEW c \in Plain
               PROVE  before'[u][c] <= tallied[c]
    BY <1>4 DEF BeforeBelow
  <2>1. CASE u = t
    <3>1. tallied[c] \in Int
      BY DEF StatsTypeOK, Plain
    <3> QED
      BY <1>3, <2>1, <3>1
  <2>2. CASE u # t
    BY <1>2, <2>2 DEF BeforeBelow
  <2> QED
    BY <2>1, <2>2
<1>8. PeekedSound'
  BY <1>2, <1>3, <1>4 DEF PeekedSound
<1> QED
  BY <1>5, <1>6, <1>7, <1>8

(* With the read lock held the counter that is loaded completes the reported total. *)
LEMMA PeekFieldKeeps ==
    ASSUME StatsInv, StatsTypeOK', NEW t \in Threads, PeekField(t)
    PROVE  StatsInv'
<1> USE DEF StatsInv, stats, history
<1> DEFINE f == Fields[visited[t] + 1]
<1>0. visited[t] + 1 \in 1..6 /\ f \in Counters
  <2>1. visited[t] \in 0..6 /\ visited[t] < 6
    BY DEF PeekField, StatsTypeOK
  <2> QED
    BY <2>1, FieldsFacts
<1>1. \A u \in Threads : ~Taking(u) /\ ~Taking(u)' /\ Reading(u)' = Reading(u)
  BY DEF PeekField, LockExclusive, Taking, Reading, StatsTypeOK
<1>2. UNCHANGED <<running, overall, tallied, returned, before>>
  BY DEF PeekField
<1>3. LockExclusive' /\ UntakenZero' /\ OverallReported'
  BY <1>1, <1>2 DEF LockExclusive, UntakenZero, OverallReported
<1>4. TalliesReportedOnce'
  BY <1>1, <1>2 DEF TalliesReportedOnce, CanRead
<1>5. BeforeBelow'
  BY <1>1, <1>2 DEF BeforeBelow
<1>6. PeekedSound'
  <2> SUFFICES ASSUME NEW u \in Threads, Reading(u), NEW i \in 1..6, i <= visited'[u], Fields[i] \in Plain
               PROVE  /\ before[u][Fields[i]] <= overall[Fields[i]] + current'[u][Fields[i]]
                      /\ overall[Fields[i]] + current'[u][Fields[i]] <= tallied[Fields[i]]
    BY <1>1, <1>2 DEF PeekedSound
  <2>1. CASE u = t /\ i = visited[t] + 1
    <3>1. current'[u][f] = running[f]
      BY <1>0, <2>1 DEF PeekField, StatsTypeOK
    <3>2. overall[f] + running[f] = tallied[f]
      BY <1>0, <1>1, <2>1 DEF TalliesReportedOnce, CanRead, OverallReported, Plain
    <3>3. before[u][f] <= tallied[f] /\ tallied[f] \in Int
      BY <1>0, <2>1 DEF BeforeBelow, StatsTypeOK
    <3> QED
      BY <2>1, <3>1, <3>2, <3>3
  <2>2. CASE ~(u = t /\ i = visited[t] + 1)
    <3>1. i <= visited[u]
      <4>1. visited[u] \in 0..6 /\ visited'[u] = IF u = t THEN visited[u] + 1 ELSE visited[u]
        BY DEF PeekField, StatsTypeOK
      <4> QED
        BY <2>2, <4>1
    <3>2. current'[u][Fields[i]] = current[u][Fields[i]]
      BY <1>0, <2>2, FieldsFacts DEF PeekField, StatsTypeOK
    <3> QED
      BY <3>1, <3>2 DEF PeekedSound
  <2> QED
    BY <2>1, <2>2
<1> QED
  BY <1>3, <1>4, <1>5, <1>6

(* since_previous takes the write lock when nobody takes or peeks, with nothing taken yet. *)
LEMMA BeginTakeKeeps ==
    ASSUME StatsInv, StatsTypeOK', NEW t \in Threads, BeginTake(t)
    PROVE  StatsInv'
<1> USE DEF StatsInv, stats, history
<1>1. \A u \in Threads : ~Taking(u) /\ ~Reading(u) /\ ~Reading(u)' /\ (Taking(u)' => u = t)
  BY DEF BeginTake, CanWrite, Goto, Taking, Reading, StatsTypeOK
<1>2. \A c \in Counters : current'[t][c] = 0
  BY NoneFacts DEF BeginTake, StartLooking, StatsTypeOK
<1>3. UNCHANGED <<running, overall, tallied, returned>>
  BY DEF BeginTake
<1>4. LockExclusive' /\ BeforeBelow' /\ PeekedSound' /\ OverallReported'
  BY <1>1, <1>3 DEF LockExclusive, BeforeBelow, PeekedSound, OverallReported
<1>5. UntakenZero'
  BY <1>1, <1>2, FieldsFacts DEF UntakenZero
<1>6. TalliesReportedOnce'
  <2>1. \A c \in Counters : /\ returned[c] + running[c] = tallied[c]
                            /\ returned[c] \in Int /\ running[c] \in Int
    BY <1>1 DEF TalliesReportedOnce, CanRead, StatsTypeOK
  <2> QED
    BY <1>1, <1>2, <1>3, <2>1 DEF TalliesReportedOnce
<1> QED
  BY <1>4, <1>5, <1>6

(* The swap moves the whole counter to the thread that takes, which had none of it. *)
LEMMA TakeFieldKeeps ==
    ASSUME StatsInv, StatsTypeOK', NEW t \in Threads, TakeField(t)
    PROVE  StatsInv'
<1> USE DEF StatsInv, history
<1> DEFINE f == Fields[visited[t] + 1]
<1>0. visited[t] \in 0..6 /\ visited[t] + 1 \in 1..6 /\ f \in Counters
  <2>1. visited[t] \in 0..6 /\ visited[t] < 6
    BY DEF TakeField, StatsTypeOK
  <2> QED
    BY <2>1, FieldsFacts
<1>1. \A u \in Threads : /\ Taking(u) <=> u = t
                         /\ Taking(u)' <=> u = t
                         /\ ~Reading(u) /\ ~Reading(u)'
  BY DEF TakeField, LockExclusive, Taking, Reading
<1>2. UNCHANGED <<overall, tallied, returned>>
  BY DEF TakeField
<1>3. LockExclusive' /\ BeforeBelow' /\ PeekedSound' /\ OverallReported'
  BY <1>1, <1>2 DEF LockExclusive, BeforeBelow, PeekedSound, OverallReported
<1>4. /\ current'[t][f] = running[f] /\ running'[f] = 0
      /\ \A c \in Counters : c # f => current'[t][c] = current[t][c] /\ running'[c] = running[c]
  BY <1>0 DEF TakeField, StatsTypeOK
<1>5. UntakenZero'
  <2> SUFFICES ASSUME NEW i \in 1..6, i > visited'[t] PROVE current'[t][Fields[i]] = 0
    BY <1>1 DEF UntakenZero
  <2>1. visited'[t] = visited[t] + 1
    BY DEF TakeField, StatsTypeOK
  <2>2. Fields[i] # f /\ Fields[i] \in Counters
    BY <1>0, <2>1, FieldsFacts
  <2>3. i > visited[t]
    BY <1>0, <2>1
  <2> QED
    BY <1>1, <1>4, <2>2, <2>3 DEF UntakenZero
<1>6. TalliesReportedOnce'
  <2>1. ~CanRead'
    BY <1>1 DEF CanRead
  <2>2. current[t][f] = 0
    BY <1>0, <1>1 DEF UntakenZero
  <2>3. ASSUME NEW c \in Counters
        PROVE  returned[c] + current'[t][c] + running'[c] = tallied[c]
    <3>1. /\ returned[c] + current[t][c] + running[c] = tallied[c]
          /\ returned[c] \in Int /\ running[c] \in Int
      BY <1>1 DEF TalliesReportedOnce, StatsTypeOK
    <3>2. CASE c = f
      BY <1>4, <2>2, <3>1, <3>2
    <3>3. CASE c # f
      BY <1>4, <3>1, <3>3
    <3> QED
      BY <3>2, <3>3
  <2> QED
    BY <1>1, <1>2, <2>1, <2>3 DEF TalliesReportedOnce
<1> QED
  BY <1>3, <1>5, <1>6

(* When all is taken it is added to the totals and reported in one step of the lock's holder. *)
LEMMA EndTakeKeeps ==
    ASSUME StatsInv, StatsTypeOK', NEW t \in Threads, EndTake(t)
    PROVE  StatsInv'
<1> USE DEF StatsInv
<1>1. \A u \in Threads : ~Reading(u) /\ ~Reading(u)' /\ ~Taking(u)'
  BY DEF EndTake, Goto, LockExclusive, Taking, Reading, StatsTypeOK
<1>2. Taking(t)
  BY DEF EndTake, Goto, Taking
<1>3. /\ running' = running /\ tallied' = tallied
      /\ \A c \in Counters : returned'[c] = returned[c] + current[t][c]
  BY DEF EndTake
<1>4. LockExclusive' /\ UntakenZero' /\ BeforeBelow' /\ PeekedSound'
  BY <1>1 DEF LockExclusive, UntakenZero, BeforeBelow, PeekedSound
<1>5. TalliesReportedOnce'
  BY <1>1, <1>2, <1>3 DEF TalliesReportedOnce
<1>6. OverallReported'
  <2>1. overall \in [Counters -> Int] /\ current[t] \in [Counters -> Int]
    BY DEF StatsTypeOK
  <2>2. \A c \in Counters \ {"bytes_read"} : overall'[c] = overall[c] + current[t][c]
    BY <2>1, CombineFacts DEF EndTake
  <2> QED
    BY <1>3, <2>2 DEF OverallReported
<1> QED
  BY <1>4, <1>5, <1>6

(* StatsInv is inductive. *)
LEMMA StatsStep == StatsInv /\ [StatsNext]_statsVars => StatsInv'
<1> SUFFICES ASSUME StatsInv, [StatsNext]_statsVars PROVE StatsInv'
  OBVIOUS
<1>0. StatsTypeOK'
  BY StepTypes DEF StatsInv
<1>1. CASE UNCHANGED statsVars
  <2>1. UNCHANGED <<running, overall, current, visited, tallied, returned, before>> /\ stage' = stage
    BY <1>1 DEF statsVars, stats, history
  <2>2. \A u \in Threads : Taking(u)' = Taking(u) /\ (Reading(u)' => Reading(u))
    BY <2>1 DEF Taking, Reading
  <2> QED
    BY <1>0, <2>1, <2>2, QuietKeeps
<1>2. CASE StatsNext
  <2> PICK t \in Threads :
        \/ StartWrite(t)
        \/ StartGet(t)
        \/ \E k \in {"Overall", "SincePrevious"} : StartIoStats(t, k)
        \/ Step(t)
    BY <1>2 DEF StatsNext
  <2>1. CASE StartWrite(t)
    <3> PICK n \in Sizes : Tally("writes", n)
      BY <2>1 DEF StartWrite
    <3>1. n \in Int /\ n >= 0
      BY SizesAssumption
    <3>2. UNCHANGED <<overall, current, visited, returned, before>>
      BY <2>1 DEF StartWrite, looking
    <3>3. \A u \in Threads : Taking(u)' = Taking(u) /\ Reading(u)' = Reading(u)
      BY <2>1 DEF StartWrite, Goto, Taking, Reading, StatsTypeOK, StatsInv
    <3> QED
      BY <1>0, <3>1, <3>2, <3>3, TallyKeeps, NamedCounters
  <2>2. CASE StartGet(t)
    <3> DEFINE n == 1
    <3>1. n \in Int /\ Tally("reads", n)
      BY <2>2 DEF StartGet, StatsTypeOK, StatsInv
    <3>2. UNCHANGED <<overall, current, visited, returned, before>>
      BY <2>2 DEF StartGet, looking
    <3>3. \A u \in Threads : Taking(u)' = Taking(u) /\ Reading(u)' = Reading(u)
      BY <2>2 DEF StartGet, Goto, Taking, Reading, StatsTypeOK, StatsInv
    <3> QED
      BY <1>0, <3>1, <3>2, <3>3, TallyKeeps, NamedCounters
  <2>3. ASSUME NEW k \in {"Overall", "SincePrevious"}, StartIoStats(t, k) PROVE StatsInv'
    <3>1. UNCHANGED <<running, overall, current, visited, tallied, returned, before>>
      BY <2>3 DEF StartIoStats, stats, looking, history
    <3>2. \A u \in Threads : Taking(u)' = Taking(u) /\ (Reading(u)' => Reading(u))
      BY <2>3 DEF StartIoStats, Goto, Taking, Reading, StatsTypeOK, StatsInv
    <3> QED
      BY <1>0, <3>1, <3>2, QuietKeeps
  <2>4. CASE TallyTransactions(t)
    <3> DEFINE n == 1
    <3>1. n \in Int /\ Tally("transactions", n)
      BY <2>4 DEF TallyTransactions, StatsTypeOK, StatsInv
    <3>2. UNCHANGED <<overall, current, visited, returned, before>>
      BY <2>4 DEF TallyTransactions, looking
    <3>3. \A u \in Threads : Taking(u)' = Taking(u) /\ Reading(u)' = Reading(u)
      BY <2>4 DEF TallyTransactions, Goto, Taking, Reading, StatsTypeOK, StatsInv
    <3> QED
      BY <1>0, <3>1, <3>2, <3>3, TallyKeeps, NamedCounters
  <2>5. CASE TallyBytesWritten(t)
    <3> PICK n \in Sizes : Tally("bytes_written", n)
      BY <2>5 DEF TallyBytesWritten
    <3>1. n \in Int /\ n >= 0
      BY SizesAssumption
    <3>2. UNCHANGED <<overall, current, visited, returned, before>>
      BY <2>5 DEF TallyBytesWritten, looking
    <3>3. \A u \in Threads : Taking(u)' = Taking(u) /\ Reading(u)' = Reading(u)
      BY <2>5 DEF TallyBytesWritten, Goto, Taking, Reading, StatsTypeOK, StatsInv
    <3> QED
      BY <1>0, <3>1, <3>2, <3>3, TallyKeeps, NamedCounters
  <2>6. CASE TallyBytesRead(t)
    <3> PICK n \in Sizes : Tally("bytes_read", n)
      BY <2>6 DEF TallyBytesRead
    <3>1. n \in Int /\ n >= 0
      BY SizesAssumption
    <3>2. UNCHANGED <<overall, current, visited, returned, before>>
      BY <2>6 DEF TallyBytesRead, looking
    <3>3. \A u \in Threads : Taking(u)' = Taking(u) /\ Reading(u)' = Reading(u)
      BY <2>6 DEF TallyBytesRead, Goto, Taking, Reading, StatsTypeOK, StatsInv
    <3> QED
      BY <1>0, <3>1, <3>2, <3>3, TallyKeeps, NamedCounters
  <2>7. CASE GetFails(t)
    <3>1. UNCHANGED <<running, overall, current, visited, tallied, returned, before>>
      BY <2>7 DEF GetFails, stats, looking, history
    <3>2. \A u \in Threads : Taking(u)' = Taking(u) /\ (Reading(u)' => Reading(u))
      BY <2>7 DEF GetFails, Goto, Taking, Reading, StatsTypeOK, StatsInv
    <3> QED
      BY <1>0, <3>1, <3>2, QuietKeeps
  <2>8. CASE EndPeekOld(t)
    <3>1. UNCHANGED <<running, overall, current, visited, tallied, returned, before>>
      BY <2>8 DEF EndPeekOld, stats, looking, history
    <3>2. \A u \in Threads : Taking(u)' = Taking(u) /\ (Reading(u)' => Reading(u))
      BY <2>8 DEF EndPeekOld, Goto, Taking, Reading, StatsTypeOK, StatsInv
    <3> QED
      BY <1>0, <3>1, <3>2, QuietKeeps
  <2>9. CASE EndPeek(t)
    <3>1. UNCHANGED <<running, overall, current, visited, tallied, returned, before>>
      BY <2>9 DEF EndPeek, stats, looking, history
    <3>2. \A u \in Threads : Taking(u)' = Taking(u) /\ (Reading(u)' => Reading(u))
      BY <2>9 DEF EndPeek, Goto, Taking, Reading, StatsTypeOK, StatsInv
    <3> QED
      BY <1>0, <3>1, <3>2, QuietKeeps
  <2>10. CASE TallyCache(t)
    <3> DEFINE n == hits[t] - old[t]
    <3>1. n \in Int /\ Tally("cache_hit_count", n)
      BY <2>10 DEF TallyCache, StatsTypeOK, StatsInv
    <3>2. UNCHANGED <<overall, current, visited, returned, before>>
      BY <2>10 DEF TallyCache, looking
    <3>3. \A u \in Threads : Taking(u)' = Taking(u) /\ Reading(u)' = Reading(u)
      BY <2>10 DEF TallyCache, Goto, Taking, Reading, StatsTypeOK, StatsInv
    <3> QED
      BY <1>0, <3>1, <3>2, <3>3, TallyKeeps, NamedCounters
  <2>11. CASE CachePanics(t)
    <3>1. UNCHANGED <<running, overall, current, visited, tallied, returned, before>>
      BY <2>11 DEF CachePanics, stats, looking, history
    <3>2. \A u \in Threads : Taking(u)' = Taking(u) /\ (Reading(u)' => Reading(u))
      BY <2>11 DEF CachePanics, Goto, Taking, Reading, StatsTypeOK, StatsInv
    <3> QED
      BY <1>0, <3>1, <3>2, QuietKeeps
  <2> QED
    BY <1>0, <2>1, <2>2, <2>3, <2>4, <2>5, <2>6, <2>7, <2>8, <2>9, <2>10, <2>11, BeginPeekKeeps,
       PeekFieldKeeps, BeginTakeKeeps, TakeFieldKeeps, EndTakeKeeps DEF Step
<1> QED
  BY <1>1, <1>2

(* StatsInv holds in every reachable state. *)
LEMMA StatsAlways == StatsSpec => []StatsInv
BY StatsInitHolds, StatsStep, PTL DEF StatsSpec

(***************************************************************************)
(* No tally of write, get or io_stats is lost or reported twice by         *)
(* since_previous, however many threads there are and whatever they add.   *)
(***************************************************************************)
THEOREM TalliesStayReportedOnce == StatsSpec => []TalliesReportedOnce
<1>1. StatsInv => TalliesReportedOnce
  BY DEF StatsInv
<1> QED
  BY <1>1, StatsAlways, PTL

(***************************************************************************)
(* What overall answers contains all that was tallied before the call and  *)
(* nothing that was not tallied when it ends.                              *)
(***************************************************************************)
THEOREM OverallStaysSound == StatsSpec => []OverallSound
<1>1. StatsInv => OverallSound
  <2> SUFFICES ASSUME StatsInv, NEW t \in Threads, Reading(t), visited[t] = 6,
                      NEW c \in Plain
               PROVE  before[t][c] <= Peeked(t)[c] /\ Peeked(t)[c] <= tallied[c]
    BY DEF OverallSound, Plain
  <2>1. PICK i \in 1..6 : Fields[i] = c
    BY FieldsFacts DEF Plain
  <2>2. overall \in [Counters -> Int] /\ current[t] \in [Counters -> Int]
    BY DEF StatsInv, StatsTypeOK
  <2>3. Peeked(t)[c] = overall[c] + current[t][c]
    BY <2>2, CombineFacts DEF Peeked, Plain
  <2> QED
    BY <2>1, <2>3 DEF StatsInv, PeekedSound
<1> QED
  BY <1>1, StatsAlways, PTL
==============================================================================
