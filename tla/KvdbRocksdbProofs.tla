-------------------------- MODULE KvdbRocksdbProofs --------------------------
(***************************************************************************)
(* Theorems about the handle of KvdbRocksdb, for any number of threads,    *)
(* transactions, copies, writes and restores, overlapping or not.          *)
(***************************************************************************)
EXTENDS KvdbRocksdb, DbTransactionsProofs

Dirs == Copies \cup {Live}

Places == {"idle", "batching", "iterating", "closing", "swapping", "removing", "opening", "installing"}

(* Where a thread is in restore, with the database closed. *)
ClosedPlaces == {"swapping", "removing", "opening", "installing"}

TypeOK ==
    /\ pc \in [Threads -> Places]
    /\ from \in [Threads -> Dirs]
    /\ db \subseteq Dirs
    /\ reopened \in [Threads -> SUBSET Dirs]
    /\ path \in [Dirs -> SUBSET Dirs]
    /\ DOMAIN files = Dirs
    /\ DOMAIN offered = Threads
    /\ overlapped \in BOOLEAN

(* close waits for those who hold the lock shared, and they only enter an open database. *)
OpenWhileRead == Readers # {} => db # {}

AtMostOne(S) == \A x, y \in S : x = y

(* A path and a handle have one directory at most, and there is a live one, *)
(* which no copy's path is.                                                  *)
PathsSound ==
    /\ \A p \in Dirs : AtMostOne(path[p])
    /\ AtMostOne(db)
    /\ \A t \in Threads : AtMostOne(reopened[t])
    /\ path[Live] # {}
    /\ \A t \in Restorers : from[t] \in Copies

OneRestorer == AtMostOne(Restorers)

(* The open database, or the one about to be installed, is the live one. *)
HandleLive ==
    /\ Restorers = {} /\ db # {} => db = path[Live]
    /\ \A t \in Threads : pc[t] \in ClosedPlaces => db = {}
    /\ \A t \in Threads : pc[t] = "installing" => reopened[t] = path[Live]

(* What the copy held is at its path before the swap and live after it. *)
OfferedThere ==
    \A t \in Threads :
        /\ pc[t] = "swapping" => offered[t] = Held(from[t])
        /\ pc[t] \in {"removing", "opening", "installing"} => offered[t] = Held(Live)

(* What holds while a restore has the directories for itself. *)
Undisturbed == OneRestorer /\ HandleLive /\ OfferedThere

HandleInv == TypeOK /\ OpenWhileRead /\ PathsSound /\ (~overlapped => Undisturbed)
------------------------------------------------------------------------------
(* The invariant holds at first. *)
LEMMA HandleInvInitially == Init => HandleInv
  <1> SUFFICES ASSUME Init PROVE HandleInv
    OBVIOUS
  <1>1. TypeOK
    BY DEF Init, TypeOK, Places, Dirs
  <1>2. Readers = {} /\ Restorers = {}
    BY DEF Init, Readers, Restorers
  <1>3. PathsSound
    BY <1>2 DEF Init, PathsSound, AtMostOne, Dirs
  <1>4. HandleLive /\ OfferedThere
    BY DEF Init, HandleLive, OfferedThere, ClosedPlaces
  <1> QED  BY <1>1, <1>2, <1>3, <1>4 DEF HandleInv, OpenWhileRead, Undisturbed, OneRestorer, AtMostOne

(* Directories stay directories. *)
LEMMA TypeKept ==
    ASSUME TypeOK, [Next]_vars
    PROVE  TypeOK'
  <1> USE DEF TypeOK, disk, batching, iterating, restoring, Dirs, Places
  <1>1. ASSUME NEW t \in Threads, NEW ops \in Transactions, StartWrite(t, ops) PROVE TypeOK'
    <2>1. pc' = [pc EXCEPT ![t] = "idle"] \/ pc' = [pc EXCEPT ![t] = "batching"]
      BY <1>1 DEF StartWrite
    <2> QED  BY <1>1, <2>1 DEF StartWrite
  <1>2. ASSUME NEW t \in Threads, NEW p \in IterPrefixes, StartIter(t, p) PROVE TypeOK'
    BY <1>2 DEF StartIter
  <1>3. ASSUME NEW t \in Threads, NEW p \in Copies, StartRestore(t, p) PROVE TypeOK'
    BY <1>3 DEF StartRestore
  <1>4. ASSUME NEW t \in Threads, BatchOp(t) \/ Commit(t) \/ CommitFails(t) \/ IterNext(t) \/ DropIter(t)
        PROVE  TypeOK'
    BY <1>4 DEF BatchOp, Commit, CommitFails, IterNext, DropIter
  <1>5. ASSUME NEW t \in Threads, Close(t) \/ KeepOld(t) PROVE TypeOK'
    BY <1>5 DEF Close, KeepOld
  <1>6. ASSUME NEW t \in Threads, SwapFails(t) \/ ReopenFails(t) PROVE TypeOK'
    BY <1>6 DEF SwapFails, ReopenFails, Returns
  <1>7. ASSUME NEW t \in Threads, Swap(t) \/ RemoveOld(t) PROVE TypeOK'
    BY <1>7 DEF Swap, RemoveOld
  <1>8. ASSUME NEW t \in Threads, Reopen(t) \/ Install(t) PROVE TypeOK'
    BY <1>8 DEF Reopen, Install, Returns
  <1>9. CASE UNCHANGED vars
    BY <1>9 DEF vars
  <1> QED  BY <1>1, <1>2, <1>3, <1>4, <1>5, <1>6, <1>7, <1>8, <1>9 DEF Next, Step

(* A step of a thread that does not restore, and leaves the paths and the handle as they are. *)
LEMMA ReaderKeeps ==
    ASSUME HandleInv, TypeOK', NEW t \in Threads, NEW to \in {"idle", "batching", "iterating"},
           pc[t] \in {"idle", "batching", "iterating"}, pc' = [pc EXCEPT ![t] = to],
           to # "idle" => db # {},
           (~overlapped /\ db = {}) => files' = files,
           UNCHANGED <<from, db, reopened, path, offered, overlapped>>
    PROVE  HandleInv'
  <1>1. Restorers' = Restorers
    BY DEF HandleInv, TypeOK, Restorers
  <1>2. OpenWhileRead'
    <2> SUFFICES ASSUME NEW u \in Threads, pc'[u] \in {"batching", "iterating"} PROVE db # {}
      BY DEF OpenWhileRead, Readers
    <2>1. CASE u = t
      BY <2>1 DEF HandleInv, TypeOK
    <2>2. CASE u # t
      BY <2>2 DEF HandleInv, TypeOK, OpenWhileRead, Readers
    <2> QED  BY <2>1, <2>2
  <1>3. PathsSound'
    BY <1>1 DEF HandleInv, PathsSound
  <1>4. ASSUME ~overlapped PROVE Undisturbed'
    <2>1. Undisturbed /\ \A u \in Threads : pc'[u] \in ClosedPlaces => pc'[u] = pc[u]
      BY <1>4 DEF HandleInv, TypeOK, ClosedPlaces
    <2>2. OneRestorer' /\ HandleLive'
      BY <1>1, <2>1 DEF Undisturbed, OneRestorer, HandleLive, ClosedPlaces
    <2>3. ASSUME NEW u \in Threads, pc'[u] \in ClosedPlaces PROVE pc[u] = pc'[u] /\ files' = files
      BY <1>4, <2>1, <2>3 DEF Undisturbed, HandleLive
    <2>4. OfferedThere'
      BY <2>1, <2>3 DEF Undisturbed, OfferedThere, Held, ClosedPlaces
    <2> QED  BY <2>2, <2>4 DEF Undisturbed
  <1> QED  BY <1>2, <1>3, <1>4 DEF HandleInv

(* The invariant is kept by every step. *)
LEMMA HandleInvKept ==
    ASSUME HandleInv, [Next]_vars
    PROVE  HandleInv'
  <1> USE DEF disk, batching, iterating, restoring
  <1>0. TypeOK /\ TypeOK' /\ OpenWhileRead /\ PathsSound
    BY TypeKept DEF HandleInv
  <1>1. ASSUME NEW t \in Threads, NEW ops \in Transactions, StartWrite(t, ops) PROVE HandleInv'
    <2>1. CASE db = {}
      BY <1>0, <1>1, <2>1, ReaderKeeps DEF StartWrite
    <2>2. CASE db # {}
      BY <1>0, <1>1, <2>2, ReaderKeeps DEF StartWrite
    <2> QED  BY <2>1, <2>2
  <1>2. ASSUME NEW t \in Threads, NEW p \in IterPrefixes, StartIter(t, p) PROVE HandleInv'
    BY <1>0, <1>2, ReaderKeeps DEF StartIter
  <1>3. ASSUME NEW t \in Threads, BatchOp(t) PROVE HandleInv'
    <2>1. pc' = [pc EXCEPT ![t] = "batching"] /\ db # {}
      BY <1>0, <1>3 DEF BatchOp, TypeOK, OpenWhileRead, Readers
    <2> QED  BY <1>0, <1>3, <2>1, ReaderKeeps DEF BatchOp
  <1>4. ASSUME NEW t \in Threads, Commit(t) \/ CommitFails(t) PROVE HandleInv'
    <2>1. pc[t] = "batching"
      BY <1>4 DEF Commit, CommitFails
    <2>2. db # {}
      BY <1>0, <2>1 DEF OpenWhileRead, Readers
    <2> QED  BY <1>0, <1>4, <2>1, <2>2, ReaderKeeps DEF Commit, CommitFails
  <1>5. ASSUME NEW t \in Threads, IterNext(t) PROVE HandleInv'
    <2>1. pc' = [pc EXCEPT ![t] = "iterating"] /\ db # {}
      BY <1>0, <1>5 DEF IterNext, TypeOK, OpenWhileRead, Readers
    <2> QED  BY <1>0, <1>5, <2>1, ReaderKeeps DEF IterNext
  <1>6. ASSUME NEW t \in Threads, DropIter(t) PROVE HandleInv'
    BY <1>0, <1>6, ReaderKeeps DEF DropIter
  <1>7. ASSUME NEW t \in Threads, NEW p \in Copies, StartRestore(t, p) PROVE HandleInv'
    <2>1. /\ pc[t] = "idle" /\ pc' = [pc EXCEPT ![t] = "closing"]
          /\ from' = [from EXCEPT ![t] = p] /\ overlapped' = (Restorers # {})
          /\ UNCHANGED <<db, reopened, path, files, offered>>
      BY <1>7 DEF StartRestore
    <2>2. Readers' = Readers /\ Restorers' = Restorers \cup {t} /\ t \notin Restorers
      BY <1>0, <2>1 DEF Readers, Restorers, TypeOK
    <2>3. PathsSound'
      BY <1>0, <2>1, <2>2 DEF PathsSound, TypeOK, Restorers
    <2>4. ASSUME Restorers = {} PROVE Undisturbed'
      <3>1. \A u \in Threads : pc'[u] \notin ClosedPlaces
        BY <1>0, <2>1, <2>4 DEF Restorers, ClosedPlaces, TypeOK
      <3> QED  BY <2>2, <2>4, <3>1
               DEF Undisturbed, OneRestorer, AtMostOne, HandleLive, OfferedThere, ClosedPlaces
    <2> QED  BY <1>0, <2>1, <2>2, <2>3, <2>4 DEF HandleInv, OpenWhileRead
  <1>8. ASSUME NEW t \in Threads, t \in Restorers, Step(t) PROVE HandleInv'
    <2>0. from[t] \in Copies /\ from[t] # Live /\ from[t] \in Dirs /\ Live \in Dirs
      BY <1>0, <1>8, PathsAssumption DEF PathsSound, Dirs
    <2>1. ASSUME ~overlapped
          PROVE  Undisturbed /\ \A u \in Threads : u # t => u \notin Restorers /\ pc[u] \notin ClosedPlaces
      BY <1>8, <2>1 DEF HandleInv, Undisturbed, OneRestorer, AtMostOne, Restorers, ClosedPlaces
    <2>2. CASE Close(t)
      <3>1. /\ Readers = {} /\ db' = {} /\ pc[t] = "closing" /\ pc' = [pc EXCEPT ![t] = "swapping"]
            /\ offered' = [offered EXCEPT ![t] = Held(from[t])]
            /\ UNCHANGED <<from, overlapped, reopened, path, files>>
        BY <2>2 DEF Close, CanWrite
      <3>2. Readers' = {} /\ Restorers' = Restorers
        BY <1>0, <3>1 DEF Readers, Restorers, TypeOK
      <3>3. PathsSound'
        BY <1>0, <3>1, <3>2 DEF PathsSound, AtMostOne
      <3>4. ASSUME ~overlapped PROVE Undisturbed'
        <4>1. pc'[t] = "swapping" /\ offered'[t] = Held(from[t])' /\ from' = from
          BY <1>0, <3>1 DEF TypeOK, Held
        <4>2. \A u \in Threads : u # t => pc'[u] \notin ClosedPlaces
          BY <1>0, <2>1, <3>1, <3>4 DEF TypeOK
        <4>3. OfferedThere'
          BY <4>1, <4>2 DEF OfferedThere, ClosedPlaces
        <4>4. HandleLive'
          BY <1>8, <3>1, <3>2, <4>1, <4>2 DEF HandleLive, ClosedPlaces
        <4> QED  BY <2>1, <3>2, <3>4, <4>3, <4>4 DEF Undisturbed, OneRestorer
      <3> QED  BY <1>0, <3>1, <3>2, <3>3, <3>4 DEF HandleInv, OpenWhileRead
    <2>3. CASE Swap(t)
      <3>1. /\ path' = [path EXCEPT ![Live] = path[from[t]], ![from[t]] = path[Live]]
            /\ pc[t] = "swapping" /\ pc' = [pc EXCEPT ![t] = "removing"]
            /\ path[from[t]] # {} /\ UNCHANGED <<from, offered, overlapped, db, reopened, files>>
        BY <2>3 DEF Swap
      <3>2. /\ path'[Live] = path[from[t]] /\ path'[from[t]] = path[Live]
            /\ \A p \in Dirs : p \notin {Live, from[t]} => path'[p] = path[p]
        BY <1>0, <2>0, <3>1 DEF TypeOK
      <3>3. Readers' = Readers /\ Restorers' = Restorers
        BY <1>0, <3>1 DEF TypeOK, Readers, Restorers
      <3>4. PathsSound'
        <4>1. ASSUME NEW p \in Dirs PROVE \E q \in Dirs : path'[p] = path[q]
          BY <2>0, <3>2
        <4>2. \A p \in Dirs : AtMostOne(path'[p])
          BY <1>0, <4>1 DEF PathsSound
        <4> QED  BY <1>0, <3>1, <3>2, <3>3, <4>2 DEF PathsSound
      <3>5. ASSUME ~overlapped PROVE Undisturbed'
        <4>1. Held(Live)' = Held(from[t])
          BY <3>1, <3>2 DEF Held
        <4>2. offered'[t] = Held(Live)' /\ pc'[t] = "removing" /\ db' = {}
          BY <1>0, <2>1, <3>1, <3>5, <4>1 DEF Undisturbed, HandleLive, OfferedThere, ClosedPlaces, TypeOK
        <4>3. \A u \in Threads : u # t => pc'[u] \notin ClosedPlaces
          BY <1>0, <2>1, <3>1, <3>5 DEF TypeOK
        <4>4. HandleLive' /\ OfferedThere'
          BY <4>2, <4>3 DEF HandleLive, OfferedThere, ClosedPlaces
        <4> QED  BY <2>1, <3>3, <3>5, <4>4 DEF Undisturbed, OneRestorer
      <3> QED  BY <1>0, <3>1, <3>3, <3>4, <3>5 DEF HandleInv, OpenWhileRead
    <2>4. CASE SwapFails(t) \/ ReopenFails(t)
      <3>1. /\ pc[t] \in ClosedPlaces /\ pc' = [pc EXCEPT ![t] = "idle"]
            /\ UNCHANGED <<overlapped, db, reopened, path, files>>
            /\ from' = [from EXCEPT ![t] = Live]
        BY <2>4 DEF SwapFails, ReopenFails, Returns, ClosedPlaces
      <3>2. Readers' = Readers /\ Restorers' = Restorers \ {t}
        BY <1>0, <3>1 DEF TypeOK, Readers, Restorers, ClosedPlaces
      <3>3. PathsSound'
        BY <1>0, <3>1, <3>2 DEF PathsSound, TypeOK, Restorers
      <3>4. ASSUME ~overlapped PROVE Undisturbed'
        <4>1. db' = {} /\ Restorers' = {} /\ \A u \in Threads : pc'[u] \notin ClosedPlaces
          BY <1>0, <2>1, <3>1, <3>2, <3>4 DEF Undisturbed, HandleLive, TypeOK, ClosedPlaces, Restorers
        <4> QED  BY <4>1 DEF Undisturbed, OneRestorer, AtMostOne, HandleLive, OfferedThere, ClosedPlaces
      <3> QED  BY <1>0, <3>1, <3>2, <3>3, <3>4 DEF HandleInv, OpenWhileRead
    <2>5. CASE RemoveOld(t)
      <3>1. /\ path' = [path EXCEPT ![from[t]] = {}]
            /\ pc[t] = "removing" /\ pc' = [pc EXCEPT ![t] = "opening"]
            /\ UNCHANGED <<from, offered, overlapped, db, reopened, files>>
        BY <2>5 DEF RemoveOld
      <3>2. /\ path'[Live] = path[Live]
            /\ \A p \in Dirs : path'[p] = IF p = from[t] THEN {} ELSE path[p]
        BY <1>0, <2>0, <3>1 DEF TypeOK
      <3>3. Readers' = Readers /\ Restorers' = Restorers
        BY <1>0, <3>1 DEF TypeOK, Readers, Restorers
      <3>4. PathsSound'
        BY <1>0, <3>1, <3>2, <3>3 DEF PathsSound, AtMostOne
      <3>5. ASSUME ~overlapped PROVE Undisturbed'
        <4>1. Held(Live)' = Held(Live)
          BY <3>1, <3>2 DEF Held
        <4>2. offered'[t] = Held(Live)' /\ pc'[t] = "opening" /\ db' = {}
          BY <1>0, <2>1, <3>1, <3>5, <4>1 DEF Undisturbed, HandleLive, OfferedThere, ClosedPlaces, TypeOK
        <4>3. \A u \in Threads : u # t => pc'[u] \notin ClosedPlaces
          BY <1>0, <2>1, <3>1, <3>5 DEF TypeOK
        <4>4. HandleLive' /\ OfferedThere'
          BY <4>2, <4>3 DEF HandleLive, OfferedThere, ClosedPlaces
        <4> QED  BY <2>1, <3>3, <3>5, <4>4 DEF Undisturbed, OneRestorer
      <3> QED  BY <1>0, <3>1, <3>3, <3>4, <3>5 DEF HandleInv, OpenWhileRead
    <2>6. CASE KeepOld(t) \/ Reopen(t)
      <3>1. /\ pc[t] \in {"removing", "opening"}
            /\ \/ pc' = [pc EXCEPT ![t] = "opening"] /\ reopened' = reopened
               \/ /\ pc' = [pc EXCEPT ![t] = "installing"]
                  /\ reopened' = [reopened EXCEPT ![t] = path[Live]]
            /\ UNCHANGED <<from, offered, overlapped, db, path, files>>
        BY <2>6 DEF KeepOld, Reopen
      <3>2. Readers' = Readers /\ Restorers' = Restorers
        BY <1>0, <3>1 DEF TypeOK, Readers, Restorers
      <3>3. PathsSound'
        <4>1. \A u \in Threads : reopened'[u] \in {reopened[u], path[Live]}
          BY <1>0, <3>1 DEF TypeOK
        <4>2. \A u \in Threads : AtMostOne(reopened'[u])
          BY <1>0, <2>0, <4>1 DEF PathsSound
        <4> QED  BY <1>0, <3>1, <3>2, <4>2 DEF PathsSound
      <3>4. ASSUME ~overlapped PROVE Undisturbed'
        <4>1. /\ offered'[t] = Held(Live)' /\ db' = {} /\ pc'[t] \in {"opening", "installing"}
              /\ pc'[t] = "installing" => reopened'[t] = path'[Live]
          BY <1>0, <2>1, <3>1, <3>4 DEF Undisturbed, HandleLive, OfferedThere, ClosedPlaces, TypeOK, Held
        <4>2. \A u \in Threads : u # t => pc'[u] \notin ClosedPlaces
          BY <1>0, <2>1, <3>1, <3>4 DEF TypeOK
        <4>3. HandleLive' /\ OfferedThere'
          BY <4>1, <4>2 DEF HandleLive, OfferedThere, ClosedPlaces
        <4> QED  BY <2>1, <3>2, <3>4, <4>3 DEF Undisturbed, OneRestorer
      <3> QED  BY <1>0, <3>1, <3>2, <3>3, <3>4 DEF HandleInv, OpenWhileRead
    <2>7. CASE Install(t)
      <3>1. /\ pc[t] = "installing" /\ pc' = [pc EXCEPT ![t] = "idle"] /\ Readers = {}
            /\ db' = reopened[t] /\ reopened' = [reopened EXCEPT ![t] = {}]
            /\ from' = [from EXCEPT ![t] = Live] /\ UNCHANGED <<overlapped, path, files>>
        BY <2>7 DEF Install, CanWrite, Returns
      <3>2. Readers' = {} /\ Restorers' = Restorers \ {t}
        BY <1>0, <3>1 DEF TypeOK, Readers, Restorers
      <3>3. PathsSound'
        BY <1>0, <3>1, <3>2 DEF PathsSound, AtMostOne, TypeOK, Restorers
      <3>4. ASSUME ~overlapped PROVE Undisturbed'
        <4>1. db' = path'[Live] /\ Restorers' = {} /\ \A u \in Threads : pc'[u] \notin ClosedPlaces
          BY <1>0, <2>1, <3>1, <3>2, <3>4 DEF Undisturbed, HandleLive, TypeOK, ClosedPlaces, Restorers
        <4> QED  BY <4>1 DEF Undisturbed, OneRestorer, AtMostOne, HandleLive, OfferedThere, ClosedPlaces
      <3> QED  BY <1>0, <3>1, <3>2, <3>3, <3>4 DEF HandleInv, OpenWhileRead
    <2> QED  BY <1>8, <2>2, <2>3, <2>4, <2>5, <2>6, <2>7
             DEF Step, BatchOp, Commit, CommitFails, IterNext, DropIter, Restorers
  <1>9. CASE UNCHANGED vars
    BY <1>0, <1>9 DEF vars, HandleInv, OpenWhileRead, Readers, PathsSound, Undisturbed, OneRestorer, Restorers,
                HandleLive, OfferedThere, Held
  <1>10. ASSUME NEW t \in Threads, Step(t) PROVE HandleInv'
    <2>1. CASE t \notin Restorers
      BY <1>3, <1>4, <1>5, <1>6, <1>10, <2>1
         DEF Step, Close, Swap, SwapFails, RemoveOld, KeepOld, Reopen, ReopenFails, Install, Restorers
    <2> QED  BY <1>8, <1>10, <2>1
  <1> QED  BY <1>1, <1>2, <1>7, <1>9, <1>10 DEF Next

(***************************************************************************)
(* A thread that writes or iterates has an open database (close waits for  *)
(* it, lib.rs:608), and there is always one at the path, with any number   *)
(* of restores under way; after restores that did not overlap, however     *)
(* they ended, an open handle is that of the database at the path.         *)
(***************************************************************************)
THEOREM HandleStaysSound == Spec => []HandleSound
  <1>1. HandleInv => HandleSound
    BY DEF HandleInv, TypeOK, OpenWhileRead, PathsSound, Undisturbed, HandleLive, HandleSound
  <1>2. HandleInv /\ [Next]_vars => HandleInv'
    BY HandleInvKept
  <1> QED  BY <1>1, <1>2, HandleInvInitially, PTL DEF Spec
------------------------------------------------------------------------------
(* The open database has one directory. *)
LEMMA OpenContent ==
    ASSUME HandleInv, db # {}
    PROVE  \E d \in Dirs : db = {d} /\ Content = files[d]
  <1>1. PICK d : d \in db
    OBVIOUS
  <1>2. db = {d} /\ d \in Dirs
    BY <1>1 DEF HandleInv, TypeOK, PathsSound, AtMostOne
  <1>3. TheOnly(db) = d
    BY <1>2 DEF TheOnly
  <1> QED  BY <1>2, <1>3 DEF Content

(***************************************************************************)
(* A restore that succeeds (lib.rs:642) leaves the content its copy had    *)
(* when the database was closed, although earlier restores may have failed *)
(* or overlapped and left the paths changed, if it ran by itself.          *)
(***************************************************************************)
THEOREM RestoreBringsCopy == Spec => RestoredContent
  <1>1. HandleInv /\ [Next]_vars => HandleInv'
    BY HandleInvKept
  <1>2. ASSUME HandleInv, HandleInv', NEW t \in Threads, Install(t), ~overlapped
        PROVE  offered[t] = {Content'}
    <2>1. pc[t] = "installing" /\ db' = reopened[t] /\ files' = files
      BY <1>2 DEF Install, disk
    <2>2. db' = path[Live] /\ path[Live] # {} /\ offered[t] = Held(Live)
      BY <1>2, <2>1 DEF HandleInv, Undisturbed, HandleLive, OfferedThere, PathsSound
    <2>3. PICK d : d \in db'
      BY <2>2
    <2>4. db' = {d}
      BY <1>2, <2>3 DEF HandleInv, PathsSound, AtMostOne
    <2>5. TheOnly(db') = d
      BY <2>4 DEF TheOnly
    <2>6. Content' = files[d]
      BY <2>1, <2>4, <2>5 DEF Content
    <2> QED  BY <2>2, <2>4, <2>6 DEF Held
  <1>3. HandleInv /\ HandleInv' /\ [Next]_vars =>
           [\A t \in Threads : Install(t) /\ ~overlapped => offered[t] = {Content'}]_vars
    BY <1>2
  <1> QED  BY <1>1, <1>3, HandleInvInitially, PTL DEF Spec, RestoredContent
------------------------------------------------------------------------------
(* What a database can hold: one column, a map from keys to values. *)
SoundContent(c) == c = [x \in {0} |-> c[0]] /\ IsMap(c[0])

FilesSound == \A d \in DOMAIN files : SoundContent(files[d])

(* What write adds to the batch for an operation, whichever keys it found beyond the end. *)
Follows(e, op) ==
    \/ op.type = "Insert" /\ e = Put(op)
    \/ op.type = "Delete" /\ e = PointDelete(op)
    \/ /\ op.type = "DeletePrefix"
       /\ e = RangeDelete(op, e.beyond)
       /\ \A k \in e.beyond : /\ k \in DBKey
                              /\ EndPrefix(op.key) = {}
                              /\ ~LexLess(k, BeyondStart(op.key))

(* A batch has one entry for each operation that was looked at. *)
BatchSound(t) ==
    /\ txn[t] \in Seq({op \in DBOp : op.col = 0})
    /\ done[t] \in 0..Len(txn[t])
    /\ batch[t] = [i \in 1..done[t] |-> batch[t][i]]
    /\ \A i \in 1..done[t] : Follows(batch[t][i], txn[t][i])

(* An iterator yields pairs of its range, and ends with the last of them. *)
IterSound(t) ==
    /\ iter[t].prefix \in DBKey
    /\ IsMap(iter[t].left)
    /\ seen[t] \subseteq Pairs(iter[t].left, Bounded(iter[t].left, iter[t].prefix))
    /\ ended[t] => seen[t] = Pairs(iter[t].left, Bounded(iter[t].left, iter[t].prefix))

PerThread ==
    /\ DOMAIN txn = Threads /\ DOMAIN done = Threads /\ DOMAIN batch = Threads
    /\ DOMAIN iter = Threads /\ DOMAIN ended = Threads /\ DOMAIN seen = Threads

DataInv ==
    /\ PerThread
    /\ FilesSound
    /\ \A t \in Threads : BatchSound(t)
    /\ \A t \in Threads : IterSound(t)
------------------------------------------------------------------------------
(* Append, by what it gives at each index. *)
LEMMA Appended ==
    ASSUME NEW s, NEW n \in Nat, s = [i \in 1..n |-> s[i]], NEW e
    PROVE  Append(s, e) = [i \in 1..(n + 1) |-> IF i = n + 1 THEN e ELSE s[i]]
  <1> DEFINE S == {s[i] : i \in 1..n} \cup {e}
  <1>1. s \in [1..n -> S] /\ e \in S
    OBVIOUS
  <1> HIDE DEF S
  <1>2. s \in Seq(S) /\ Len(s) = n
    BY <1>1
  <1>3. Append(s, e) \in Seq(S) /\ Len(Append(s, e)) = n + 1
    BY <1>1, <1>2
  <1>4. \A i \in 1..(n + 1) : Append(s, e)[i] = IF i = n + 1 THEN e ELSE s[i]
    BY <1>1, <1>2
  <1>5. Append(s, e) = [i \in 1..(n + 1) |-> Append(s, e)[i]]
    BY <1>3
  <1> QED  BY <1>4, <1>5

(* Such a sequence has its length. *)
LEMMA IndexedLen ==
    ASSUME NEW s, NEW n \in Nat, s = [i \in 1..n |-> s[i]]
    PROVE  Len(s) = n /\ DOMAIN s = 1..n
  <1> DEFINE S == {s[i] : i \in 1..n}
  <1>1. s \in [1..n -> S]
    OBVIOUS
  <1> HIDE DEF S
  <1> QED  BY <1>1

(* Which keys a batch leaves. *)
LEMMA WrittenMember ==
    ASSUME NEW m, NEW b, NEW col, NEW key
    PROVE  key \in DOMAIN Written(m, b, col) <=>
              \/ key \in DOMAIN m /\ LastEntry(b, col, key) = {}
              \/ \E i \in LastEntry(b, col, key) : b[i].do = "put"
  <1>1. ASSUME NEW i \in DOMAIN b, b[i].do = "put", i \in LastEntry(b, col, key)
        PROVE  b[i].key = key
    BY <1>1 DEF LastEntry, Covers
  <1>2. LastEntry(b, col, key) \subseteq DOMAIN b
    BY DEF LastEntry
  <1>3. DOMAIN Written(m, b, col) =
           {k \in DOMAIN m : LastEntry(b, col, k) = {}}
              \cup {b[i].key : i \in {i \in DOMAIN b : b[i].do = "put" /\ i \in LastEntry(b, col, b[i].key)}}
    BY DEF Written
  <1>4. ASSUME NEW i \in LastEntry(b, col, key), b[i].do = "put"
        PROVE  key \in DOMAIN Written(m, b, col)
    BY <1>1, <1>2, <1>3, <1>4
  <1> QED  BY <1>2, <1>3, <1>4

(* And what it leaves in them. *)
LEMMA WrittenValue ==
    ASSUME NEW m, NEW b, NEW col, NEW key \in DOMAIN Written(m, b, col)
    PROVE  Written(m, b, col)[key] =
              IF LastEntry(b, col, key) = {} THEN m[key] ELSE b[TheOnly(LastEntry(b, col, key))].value
  BY DEF Written

(* One entry decides. *)
LEMMA LastEntryUnique ==
    ASSUME NEW b, NEW n \in Nat, b = [i \in 1..n |-> b[i]], NEW col, NEW key,
           NEW i \in LastEntry(b, col, key)
    PROVE  LastEntry(b, col, key) = {i} /\ TheOnly(LastEntry(b, col, key)) = i /\ i \in 1..n
  <1>1. Len(b) = n /\ DOMAIN b = 1..n
    BY IndexedLen
  <1>2. ASSUME NEW j \in LastEntry(b, col, key) PROVE j = i
    <2>1. i \in 1..n /\ j \in 1..n /\ Covers(b[i], col, key) /\ Covers(b[j], col, key)
      BY <1>1 DEF LastEntry
    <2>2. j \notin (i + 1)..n /\ i \notin (j + 1)..n
      BY <1>1, <2>1 DEF LastEntry
    <2> QED  BY <2>1, <2>2
  <1>3. LastEntry(b, col, key) = {i} /\ i \in 1..n
    <2>1. i \in 1..n
      BY <1>1 DEF LastEntry
    <2> QED  BY <1>2, <2>1
  <1> QED  BY <1>3 DEF TheOnly

(* Writing a batch leaves a column of keys and values. *)
LEMMA WrittenSound ==
    ASSUME NEW c, SoundContent(c), NEW t \in Threads, BatchSound(t)
    PROVE  SoundContent(WrittenBatch(c, batch[t]))
  <1> DEFINE b == batch[t]
             n == done[t]
             w == Written(c[0], b, 0)
  <1>1. n \in Nat /\ b = [i \in 1..n |-> b[i]] /\ \A i \in 1..n : Follows(b[i], txn[t][i])
    <2>1. Len(txn[t]) \in Nat /\ done[t] \in 0..Len(txn[t])
      BY DEF BatchSound
    <2>2. done[t] \in Nat
      BY <2>1
    <2> QED  BY <2>2 DEF BatchSound
  <1>2. \A i \in 1..n : txn[t][i] \in DBOp
    BY DEF BatchSound
  <1> HIDE DEF b, n
  <1>3. ASSUME NEW i \in 1..n, b[i].do = "put" PROVE b[i].key \in DBKey /\ b[i].value \in DBValue
    <2>1. b[i] = Put(txn[t][i])
      BY <1>1, <1>3 DEF Follows, PointDelete, RangeDelete
    <2> QED  BY <1>2, <2>1 DEF Put, DBOp
  <1>4. ASSUME NEW k \in DOMAIN w PROVE k \in DBKey /\ w[k] \in DBValue
    <2>1. CASE LastEntry(b, 0, k) = {}
      <3>1. k \in DOMAIN c[0] /\ w[k] = c[0][k]
        BY <1>4, <2>1, WrittenMember, WrittenValue
      <3> QED  BY <3>1 DEF SoundContent, IsMap
    <2>2. CASE LastEntry(b, 0, k) # {}
      <3>1. PICK i \in LastEntry(b, 0, k) : b[i].do = "put"
        BY <1>4, <2>2, WrittenMember
      <3>2. TheOnly(LastEntry(b, 0, k)) = i /\ i \in 1..n
        BY <1>1, LastEntryUnique
      <3>3. w[k] = b[i].value
        BY <1>4, <2>2, <3>2, WrittenValue
      <3>4. b[i].key = k
        BY <3>1 DEF LastEntry, Covers
      <3> QED  BY <1>3, <3>1, <3>2, <3>3, <3>4
    <2> QED  BY <2>1, <2>2
  <1>5. w = [k \in DOMAIN w |-> w[k]]
    BY DEF Written
  <1> HIDE DEF w
  <1>6. IsMap(w)
    BY <1>4, <1>5 DEF IsMap
  <1>7. DOMAIN c = {0}
    BY DEF SoundContent
  <1>8. WrittenBatch(c, b) = [x \in {0} |-> w]
    BY <1>7 DEF WrittenBatch, w
  <1> QED  BY <1>6, <1>8 DEF SoundContent, b

(* What the open database holds is sound, also when there is none. *)
LEMMA ContentSound ==
    ASSUME HandleInv, FilesSound
    PROVE  SoundContent(Content)
  <1>1. CASE db = {}
    BY <1>1 DEF Content, SoundContent, Blank, IsMap, EmptyMap
  <1>2. CASE db # {}
    BY <1>2, OpenContent DEF FilesSound, HandleInv, TypeOK
  <1> QED  BY <1>1, <1>2

(* The empty batch has no entries. *)
LEMMA NothingBatched ==
    /\ <<>> = [i \in 1..0 |-> <<>>[i]]
    /\ \A S : <<>> \in Seq(S)
    /\ 0 \in 0..Len(<<>>)
  <1>1. <<>> \in [1..0 -> {}]
    OBVIOUS
  <1> QED  BY <1>1

(* The invariant on the data holds at first. *)
LEMMA DataInvInitially == Init => DataInv
  <1> SUFFICES ASSUME Init PROVE DataInv
    OBVIOUS
  <1>1. SoundContent(Blank) /\ IsMap(EmptyMap)
    BY DEF SoundContent, Blank, IsMap, EmptyMap
  <1>2. \A d \in Copies : SoundContent(CopyContent[d])
    BY CopyContentAssumption DEF SoundContent
  <1>3. FilesSound
    BY <1>1, <1>2 DEF Init, FilesSound
  <1>4. ASSUME NEW t \in Threads PROVE BatchSound(t)
    BY NothingBatched DEF Init, BatchSound
  <1>5. ASSUME NEW t \in Threads PROVE IterSound(t)
    <2>1. iter[t] = NoIter /\ ~ended[t] /\ seen[t] = {} /\ <<>> \in DBKey
      BY DEF Init, DBKey
    <2> QED  BY <1>1, <2>1 DEF IterSound, NoIter
  <1> QED  BY <1>3, <1>4, <1>5 DEF DataInv, PerThread, Init

(* A step of one thread leaves the others' batches and iterators alone. *)
LEMMA DataKept ==
    ASSUME DataInv, NEW t \in Threads, PerThread', FilesSound', BatchSound(t)', IterSound(t)',
           \A u \in Threads \ {t} :
              /\ txn'[u] = txn[u] /\ done'[u] = done[u] /\ batch'[u] = batch[u]
              /\ iter'[u] = iter[u] /\ ended'[u] = ended[u] /\ seen'[u] = seen[u]
    PROVE  DataInv'
  <1>1. ASSUME NEW u \in Threads PROVE BatchSound(u)' /\ IterSound(u)'
    <2>1. CASE u = t
      BY <2>1
    <2>2. CASE u # t
      BY <2>2 DEF DataInv, BatchSound, IterSound
    <2> QED  BY <2>1, <2>2
  <1> QED  BY <1>1 DEF DataInv

(* What write adds for an operation follows it. *)
LEMMA BatchOfFollows ==
    ASSUME NEW op \in DBOp, op.col = 0, NEW c, SoundContent(c)
    PROVE  Follows(BatchOf(c, op), op)
  <1>1. CASE op.type = "Insert"
    BY <1>1 DEF BatchOf, Follows
  <1>2. CASE op.type = "Delete"
    BY <1>2 DEF BatchOf, Follows
  <1>3. CASE op.type = "DeletePrefix"
    <2> DEFINE beyond == IF EndPrefix(op.key) # {} THEN {} ELSE NotBefore(c[op.col], BeyondStart(op.key))
    <2>1. BatchOf(c, op) = RangeDelete(op, beyond)
      BY <1>3 DEF BatchOf
    <2>2. \A k \in beyond : k \in DBKey /\ EndPrefix(op.key) = {} /\ ~LexLess(k, BeyondStart(op.key))
      BY DEF NotBefore, SoundContent, IsMap
    <2>3. RangeDelete(op, beyond).beyond = beyond
      BY DEF RangeDelete
    <2> HIDE DEF beyond
    <2> QED  BY <1>3, <2>1, <2>2, <2>3 DEF Follows
  <1> QED  BY <1>1, <1>2, <1>3 DEF DBOp

(* The invariant on the data is kept by every step. *)
LEMMA DataInvKept ==
    ASSUME HandleInv, DataInv, [Next]_vars
    PROVE  DataInv'
  <1> USE DEF disk, batching, iterating, restoring
  <1>0. /\ SoundContent(Content) /\ IsMap(Content[0]) /\ PerThread /\ FilesSound
        /\ \A t \in Threads : BatchSound(t) /\ IterSound(t)
    BY ContentSound DEF DataInv, SoundContent
  <1>1. ASSUME NEW t \in Threads, NEW ops \in Transactions, StartWrite(t, ops) PROVE DataInv'
    <2>1. /\ txn'[t] = <<>> \/ txn'[t] = ops
          /\ done'[t] = 0 /\ batch'[t] = <<>>
          /\ \A u \in Threads \ {t} : txn'[u] = txn[u] /\ done'[u] = done[u] /\ batch'[u] = batch[u]
          /\ UNCHANGED <<iter, ended, seen, files>>
      BY <1>0, <1>1 DEF StartWrite, PerThread
    <2>2. ops \in Seq({op \in DBOp : op.col = 0})
      BY TransactionsAssumption
    <2>3. 0 \in 0..Len(ops)
      BY <2>2
    <2>4. BatchSound(t)'
      <3>1. txn'[t] \in Seq({op \in DBOp : op.col = 0}) /\ 0 \in 0..Len(txn'[t])
        BY <2>1, <2>2, <2>3, NothingBatched
      <3> QED  BY <2>1, <3>1, NothingBatched DEF BatchSound
    <2>5. IterSound(t)' /\ FilesSound' /\ PerThread'
      BY <1>0, <1>1, <2>1 DEF IterSound, FilesSound, PerThread, StartWrite
    <2> QED  BY <2>1, <2>4, <2>5, DataKept
  <1>2. ASSUME NEW t \in Threads, BatchOp(t) PROVE DataInv'
    <2> DEFINE n == done[t]
               op == txn[t][n + 1]
    <2>1. /\ txn[t] \in Seq({o \in DBOp : o.col = 0}) /\ n \in 0..Len(txn[t])
          /\ batch[t] = [i \in 1..n |-> batch[t][i]]
          /\ \A i \in 1..n : Follows(batch[t][i], txn[t][i])
      BY <1>0 DEF BatchSound
    <2>2. Len(txn[t]) \in Nat /\ n \in Nat /\ n < Len(txn[t])
      BY <1>2, <2>1 DEF BatchOp
    <2>3. op \in DBOp /\ op.col = 0
      BY <2>1, <2>2
    <2>4. /\ batch'[t] = Append(batch[t], BatchOf(Content, op)) /\ done'[t] = n + 1
          /\ \A u \in Threads \ {t} : done'[u] = done[u] /\ batch'[u] = batch[u]
          /\ UNCHANGED <<txn, iter, ended, seen, files>>
      BY <1>0, <1>2 DEF BatchOp, PerThread
    <2>5. Follows(BatchOf(Content, op), op)
      BY <1>0, <2>3, BatchOfFollows
    <2>6. batch'[t] = [i \in 1..(n + 1) |-> IF i = n + 1 THEN BatchOf(Content, op) ELSE batch[t][i]]
      BY <2>1, <2>2, <2>4, Appended
    <2> HIDE DEF n
    <2>7. batch'[t] = [i \in 1..(n + 1) |-> batch'[t][i]]
      BY <2>6
    <2>8. \A i \in 1..(n + 1) : Follows(batch'[t][i], txn[t][i])
      BY <2>1, <2>2, <2>5, <2>6
    <2>9. BatchSound(t)'
      BY <2>1, <2>2, <2>4, <2>7, <2>8 DEF BatchSound
    <2>10. IterSound(t)' /\ FilesSound' /\ PerThread'
      BY <1>0, <1>2, <2>4 DEF IterSound, FilesSound, PerThread, BatchOp
    <2> QED  BY <2>4, <2>9, <2>10, DataKept
  <1>3. ASSUME NEW t \in Threads, Commit(t) PROVE DataInv'
    <2>1. /\ txn'[t] = <<>> /\ done'[t] = 0 /\ batch'[t] = <<>>
          /\ \A u \in Threads \ {t} : txn'[u] = txn[u] /\ done'[u] = done[u] /\ batch'[u] = batch[u]
          /\ UNCHANGED <<iter, ended, seen>>
      BY <1>0, <1>3 DEF Commit, PerThread
    <2>2. FilesSound'
      <3>1. /\ DOMAIN files' = DOMAIN files
            /\ \A d \in DOMAIN files :
                  files'[d] = IF d \in db THEN WrittenBatch(files[d], batch[t]) ELSE files[d]
        BY <1>3 DEF Commit
      <3>2. ASSUME NEW d \in DOMAIN files PROVE SoundContent(files'[d])
        <4>1. SoundContent(files[d])
          BY <1>0 DEF FilesSound
        <4>2. SoundContent(WrittenBatch(files[d], batch[t]))
          BY <1>0, <4>1, WrittenSound
        <4> QED  BY <3>1, <4>1, <4>2
      <3> QED  BY <3>1, <3>2 DEF FilesSound
    <2>3. BatchSound(t)'
      BY <2>1, NothingBatched DEF BatchSound
    <2>4. IterSound(t)' /\ PerThread'
      BY <1>0, <1>3, <2>1 DEF IterSound, PerThread, Commit
    <2> QED  BY <2>1, <2>2, <2>3, <2>4, DataKept
  <1>4. ASSUME NEW t \in Threads, NEW p \in IterPrefixes, StartIter(t, p) PROVE DataInv'
    <2>1. /\ iter'[t] = [prefix |-> p, left |-> Content[0]] /\ ~ended'[t] /\ seen'[t] = {}
          /\ \A u \in Threads \ {t} : iter'[u] = iter[u] /\ ended'[u] = ended[u] /\ seen'[u] = seen[u]
          /\ UNCHANGED <<txn, done, batch, files>>
      BY <1>0, <1>4 DEF StartIter, PerThread
    <2>2. IterSound(t)'
      BY <1>0, <2>1, IterPrefixesAssumption DEF IterSound
    <2>3. BatchSound(t)' /\ FilesSound' /\ PerThread'
      <3>1. BatchSound(t)'
        BY <1>0, <2>1 DEF BatchSound
      <3>2. FilesSound'
        BY <1>0, <2>1 DEF FilesSound
      <3> QED  BY <1>0, <1>4, <2>1, <3>1, <3>2 DEF PerThread, StartIter
    <2> QED  BY <2>1, <2>2, <2>3, DataKept
  <1>5. ASSUME NEW t \in Threads, IterNext(t) PROVE DataInv'
    <2> DEFINE m == iter[t].left
               within == Bounded(m, iter[t].prefix)
               rest == within \ {kv[1] : kv \in seen[t]}
    <2>1. /\ ended'[t] = (rest = {}) /\ seen'[t] = seen[t] \cup Pairs(m, FirstOf(rest))
          /\ \A u \in Threads \ {t} : ended'[u] = ended[u] /\ seen'[u] = seen[u]
          /\ UNCHANGED <<txn, done, batch, iter, files>>
      BY <1>0, <1>5 DEF IterNext, PerThread
    <2>2. FirstOf(rest) \subseteq rest /\ rest \subseteq within
      BY DEF FirstOf
    <2>3. seen[t] \subseteq Pairs(m, within)
      BY <1>0 DEF IterSound
    <2> HIDE DEF m, within, rest
    <2>4. seen'[t] \subseteq Pairs(m, within)
      BY <2>1, <2>2, <2>3 DEF Pairs
    <2>5. ASSUME rest = {} PROVE seen'[t] = Pairs(m, within)
      <3>1. \A k \in within : \E kv \in seen[t] : k = kv[1]
        BY <2>5 DEF rest
      <3>2. \A kv \in seen[t] : kv = <<kv[1], m[kv[1]]>>
        BY <2>3 DEF Pairs
      <3>3. Pairs(m, within) \subseteq seen[t]
        BY <3>1, <3>2 DEF Pairs
      <3> QED  BY <2>1, <2>4, <3>3
    <2>6. IterSound(t)'
      <3>1. /\ iter'[t].left = m /\ iter'[t].prefix = iter[t].prefix
            /\ Bounded(iter'[t].left, iter'[t].prefix) = within
        BY <2>1 DEF m, within
      <3> QED  BY <1>0, <2>1, <2>4, <2>5, <3>1 DEF IterSound
    <2>7. BatchSound(t)' /\ FilesSound' /\ PerThread'
      <3>1. BatchSound(t)'
        BY <1>0, <2>1 DEF BatchSound
      <3>2. FilesSound'
        BY <1>0, <2>1 DEF FilesSound
      <3> QED  BY <1>0, <1>5, <2>1, <3>1, <3>2 DEF PerThread, IterNext
    <2> QED  BY <2>1, <2>6, <2>7, DataKept
  <1>6. ASSUME NEW t \in Threads, DropIter(t) PROVE DataInv'
    <2>1. /\ iter'[t] = NoIter /\ ~ended'[t] /\ seen'[t] = {}
          /\ \A u \in Threads \ {t} : iter'[u] = iter[u] /\ ended'[u] = ended[u] /\ seen'[u] = seen[u]
          /\ UNCHANGED <<txn, done, batch, files>>
      BY <1>0, <1>6 DEF DropIter, PerThread
    <2>2. IterSound(t)'
      <3>1. IsMap(EmptyMap) /\ <<>> \in DBKey
        BY DEF IsMap, EmptyMap, DBKey
      <3> QED  BY <2>1, <3>1 DEF IterSound, NoIter
    <2>3. BatchSound(t)' /\ FilesSound' /\ PerThread'
      <3>1. BatchSound(t)'
        BY <1>0, <2>1 DEF BatchSound
      <3>2. FilesSound'
        BY <1>0, <2>1 DEF FilesSound
      <3> QED  BY <1>0, <1>6, <2>1, <3>1, <3>2 DEF PerThread, DropIter
    <2> QED  BY <2>1, <2>2, <2>3, DataKept
  <1>7. ASSUME NEW t \in Threads, CommitFails(t) PROVE DataInv'
    <2>1. /\ txn'[t] = <<>> /\ done'[t] = 0 /\ batch'[t] = <<>>
          /\ \A u \in Threads \ {t} : txn'[u] = txn[u] /\ done'[u] = done[u] /\ batch'[u] = batch[u]
          /\ UNCHANGED <<iter, ended, seen, files>>
      BY <1>0, <1>7 DEF CommitFails, PerThread
    <2>2. BatchSound(t)'
      BY <2>1, NothingBatched DEF BatchSound
    <2>3. IterSound(t)' /\ FilesSound' /\ PerThread'
      BY <1>0, <1>7, <2>1 DEF IterSound, FilesSound, PerThread, CommitFails
    <2> QED  BY <2>1, <2>2, <2>3, DataKept
  <1>8. ASSUME UNCHANGED <<batching, iterating, files>> PROVE DataInv'
    BY <1>0, <1>8 DEF DataInv, PerThread, BatchSound, IterSound, FilesSound
  <1>9. ASSUME NEW t \in Threads, NEW p \in Copies, StartRestore(t, p) PROVE DataInv'
    BY <1>8, <1>9 DEF StartRestore
  <1>10. ASSUME NEW t \in Threads,
                \/ Close(t) \/ Swap(t) \/ SwapFails(t) \/ RemoveOld(t) \/ KeepOld(t)
                \/ Reopen(t) \/ ReopenFails(t) \/ Install(t)
         PROVE  DataInv'
    BY <1>8, <1>10 DEF Close, Swap, SwapFails, RemoveOld, KeepOld, Reopen, ReopenFails, Install
  <1>11. CASE UNCHANGED vars
    BY <1>8, <1>11 DEF vars
  <1> QED  BY <1>1, <1>2, <1>3, <1>4, <1>5, <1>6, <1>7, <1>9, <1>10, <1>11 DEF Next, Step

(***************************************************************************)
(* iter_with_prefix (lib.rs:594) reads from the prefix up to its end, if   *)
(* it has one: an iterator that has ended yielded exactly the pairs whose  *)
(* keys start with its prefix, of the content at its creation, for every   *)
(* prefix and whatever other threads wrote or restored meanwhile.          *)
(***************************************************************************)
THEOREM IteratorsStayExact == Spec => []IterExact
  <1>1. DataInv => IterExact
    <2> SUFFICES ASSUME DataInv, NEW t \in Threads, ended[t]
                 PROVE  seen[t] = Pairs(iter[t].left, WithPrefix(iter[t].left, iter[t].prefix))
      BY DEF IterExact
    <2> DEFINE m == iter[t].left
               p == iter[t].prefix
    <2>1. /\ p \in DBKey /\ DOMAIN m \subseteq DBKey /\ seen[t] = Pairs(m, Bounded(m, p))
      BY DEF DataInv, IterSound, IsMap
    <2>2. \A k \in DOMAIN m : InRange(k, p, EndPrefix(p)) <=> StartsWith(k, p)
      BY <2>1, PrefixRangeExact
    <2>3. Bounded(m, p) = WithPrefix(m, p)
      BY <2>2 DEF Bounded, WithPrefix
    <2> QED  BY <2>1, <2>3
  <1>2. HandleInv /\ DataInv /\ [Next]_vars => HandleInv' /\ DataInv'
    BY HandleInvKept, DataInvKept
  <1> QED  BY <1>1, <1>2, HandleInvInitially, DataInvInitially, PTL DEF Spec
------------------------------------------------------------------------------
(* The end key of a prefix without an end bounds nothing it starts. *)
LEMMA OnesKey == Ones(EndLen) \in DBKey /\ EndPrefix(Ones(EndLen)) = {} /\ Len(Ones(EndLen)) = EndLen
  <1>1. Ones(EndLen) \in [1..EndLen -> Byte]
    BY MaxByteAssumption DEF Ones, Byte
  <1>2. Ones(EndLen) \in DBKey /\ Len(Ones(EndLen)) = EndLen
    BY <1>1, EndLenAssumption DEF DBKey
  <1>3. \A i \in 1..EndLen : Ones(EndLen)[i] = MaxByte
    BY DEF Ones
  <1> QED  BY <1>2, <1>3 DEF EndPrefix

(***************************************************************************)
(* An entry covers no key that its operation does not touch, and misses    *)
(* one it touches only at or beyond the end key of a prefix without an end.*)
(***************************************************************************)
LEMMA CoversTouches ==
    ASSUME NEW op \in DBOp, NEW e, Follows(e, op), NEW key \in DBKey
    PROVE  /\ Covers(e, 0, key) => Touches(op, 0, key)
           /\ Touches(op, 0, key) /\ ~Covers(e, 0, key) =>
                 /\ op.type = "DeletePrefix"
                 /\ EndPrefix(op.key) = {}
                 /\ ~LexLess(key, BeyondStart(op.key))
                 /\ key \notin e.beyond
  <1>1. CASE op.type = "Insert"
    BY <1>1 DEF Follows, Put, Covers, Touches
  <1>2. CASE op.type = "Delete"
    BY <1>2 DEF Follows, PointDelete, Covers, Touches
  <1>3. CASE op.type = "DeletePrefix"
    <2> DEFINE p == op.key
               ones == Ones(EndLen)
    <2>0. p \in DBKey /\ ones \in DBKey
      BY OnesKey DEF DBOp
    <2>1. /\ Covers(e, 0, key) <=> op.col = 0 /\ (InRange(key, p, EndRange(p)) \/ key \in e.beyond)
          /\ Touches(op, 0, key) <=> op.col = 0 /\ StartsWith(key, p)
          /\ \A k \in e.beyond : EndPrefix(p) = {} /\ ~LexLess(k, BeyondStart(p))
      BY <1>3 DEF Follows, RangeDelete, Covers, Touches
    <2>2. InRange(key, p, EndPrefix(p)) <=> StartsWith(key, p)
      BY <2>0, PrefixRangeExact
    <2>3. CASE EndPrefix(p) # {}
      BY <1>3, <2>1, <2>2, <2>3 DEF EndRange
    <2>4. CASE EndPrefix(p) = {}
      <3>1. StartsWith(key, p) <=> ~LexLess(key, p)
        BY <2>2, <2>4 DEF InRange
      <3>2. StartsWith(key, ones) <=> ~LexLess(key, ones)
        BY <2>0, OnesKey, PrefixRangeExact DEF InRange
      <3>3. InRange(key, p, EndRange(p)) <=> ~LexLess(key, p) /\ LexLess(key, ones)
        BY <2>4 DEF EndRange, InRange
      <3>4. CASE Len(p) > EndLen
        <4>1. BeyondStart(p) = p
          BY <3>4 DEF BeyondStart
        <4> QED  BY <1>3, <2>1, <2>4, <3>1, <3>3, <4>1
      <3>5. CASE ~(Len(p) > EndLen)
        <4>1. BeyondStart(p) = ones
          BY <3>5 DEF BeyondStart
        <4>2. StartsWith(key, ones) => StartsWith(key, p)
          <5>1. Len(ones) = EndLen /\ \A i \in 1..EndLen : ones[i] = MaxByte
            BY OnesKey DEF Ones
          <5>2. \A i \in 1..Len(p) : p[i] = MaxByte
            BY <2>0, <2>4, NoEndAllMax
          <5>3. Len(p) \in Nat /\ Len(key) \in Nat /\ EndLen \in Nat
            BY <2>0, EndLenAssumption DEF DBKey
          <5> HIDE DEF ones, p
          <5> QED  BY <3>5, <5>1, <5>2, <5>3 DEF StartsWith
        <4> QED  BY <1>3, <2>1, <2>4, <3>1, <3>2, <3>3, <4>1, <4>2
      <3> QED  BY <3>4, <3>5
    <2> QED  BY <2>3, <2>4
  <1> QED  BY <1>1, <1>2, <1>3 DEF DBOp

(***************************************************************************)
(* A batch decides a key as its transaction does, if every key the batch   *)
(* misses was neither there nor put by an earlier operation.               *)
(***************************************************************************)
LEMMA SameFate ==
    ASSUME NEW ops \in Seq(DBOp), NEW n \in Nat, n = Len(ops),
           NEW b, b = [i \in 1..n |-> b[i]], \A i \in 1..n : Follows(b[i], ops[i]),
           NEW m, NEW key \in DBKey,
           \A i \in 1..n : Touches(ops[i], 0, key) /\ ~Covers(b[i], 0, key) =>
              key \notin DOMAIN m /\ \A j \in 1..(i - 1) : ops[j].key # key
    PROVE  /\ key \in DOMAIN Written(m, b, 0) <=> key \in KeysAfter(m, ops, n, 0)
           /\ key \in DOMAIN Written(m, b, 0) =>
                 Written(m, b, 0)[key] = ValueAfter(m, ops, n, 0, key)
  <1>0. Len(b) = n /\ DOMAIN b = 1..n /\ \A i \in 1..n : ops[i] \in DBOp
    BY IndexedLen
  <1>1. key \in KeysAfter(m, ops, n, 0) <=>
           \/ key \in DOMAIN m /\ LastTouch(ops, n, 0, key) = {}
           \/ \E i \in LastTouch(ops, n, 0, key) : ops[i].type = "Insert"
    BY ONLY n \in Nat, KeysAfterMember
  <1>5. key \in DOMAIN Written(m, b, 0) <=>
           \/ key \in DOMAIN m /\ LastEntry(b, 0, key) = {}
           \/ \E i \in LastEntry(b, 0, key) : b[i].do = "put"
    BY ONLY WrittenMember
  <1>2. \A i \in 1..n : Covers(b[i], 0, key) => Touches(ops[i], 0, key)
    BY <1>0, CoversTouches
  <1>3. CASE LastTouch(ops, n, 0, key) = {}
    <2>1. \A i \in 1..n : ~Touches(ops[i], 0, key)
      BY <1>3, LastTouchEmpty
    <2>2. LastEntry(b, 0, key) = {}
      BY <1>0, <1>2, <2>1 DEF LastEntry
    <2>3. key \in DOMAIN Written(m, b, 0) => Written(m, b, 0)[key] = m[key]
      BY <2>2, WrittenValue
    <2>4. ValueAfter(m, ops, n, 0, key) = m[key]
      BY <1>3 DEF ValueAfter
    <2> QED  BY <1>1, <1>3, <1>5, <2>2, <2>3, <2>4
  <1>4. ASSUME NEW i \in LastTouch(ops, n, 0, key)
        PROVE  /\ key \in DOMAIN Written(m, b, 0) <=> key \in KeysAfter(m, ops, n, 0)
               /\ key \in DOMAIN Written(m, b, 0) =>
                     Written(m, b, 0)[key] = ValueAfter(m, ops, n, 0, key)
    <2>1. /\ i \in 1..n /\ Touches(ops[i], 0, key) /\ LastTouch(ops, n, 0, key) = {i}
          /\ \A j \in (i + 1)..n : ~Touches(ops[j], 0, key)
          /\ TheOnly(LastTouch(ops, n, 0, key)) = i
      BY LastTouchUnique
    <2>2. \A j \in (i + 1)..n : ~Covers(b[j], 0, key)
      BY <1>2, <2>1
    <2>3. CASE Covers(b[i], 0, key)
      <3>1. i \in LastEntry(b, 0, key)
        BY <1>0, <2>1, <2>2, <2>3 DEF LastEntry
      <3>2. LastEntry(b, 0, key) = {i} /\ TheOnly(LastEntry(b, 0, key)) = i
        BY <3>1, LastEntryUnique, SMTT(40)
      <3>3. ops[i].type = "Insert" <=> b[i].do = "put"
        BY <2>1 DEF Follows, Put, PointDelete, RangeDelete
      <3>4. b[i].do = "put" => b[i].value = ops[i].value
        BY <2>1 DEF Follows, Put, PointDelete, RangeDelete
      <3>5. ValueAfter(m, ops, n, 0, key) = ops[i].value
        BY <2>1 DEF ValueAfter
      <3>6. key \in DOMAIN Written(m, b, 0) => Written(m, b, 0)[key] = b[i].value
        BY <3>2, WrittenValue, SMTT(40)
      <3> QED  BY <1>1, <1>5, <2>1, <3>2, <3>3, <3>4, <3>5, <3>6
    <2>4. CASE ~Covers(b[i], 0, key)
      <3>1. ops[i].type = "DeletePrefix"
        BY <1>0, <2>1, <2>4, CoversTouches
      <3>2. key \notin KeysAfter(m, ops, n, 0)
        BY <1>1, <2>1, <3>1
      <3>3. key \notin DOMAIN m /\ \A j \in 1..(i - 1) : ops[j].key # key
        BY <2>1, <2>4
      <3>4. ASSUME NEW j \in LastEntry(b, 0, key), b[j].do = "put" PROVE FALSE
        <4>1. j \in 1..n /\ Covers(b[j], 0, key)
          BY <1>0 DEF LastEntry
        <4>2. b[j] = Put(ops[j])
          BY <3>4, <4>1 DEF Follows, PointDelete, RangeDelete
        <4>3. ops[j].key = key
          BY <4>1, <4>2 DEF Covers, Put
        <4>4. j # i /\ j \notin (i + 1)..n
          BY <2>2, <2>4, <4>1
        <4>5. j \in 1..(i - 1)
          BY <2>1, <4>1, <4>4
        <4> QED  BY <3>3, <4>3, <4>5
      <3> QED  BY <1>1, <1>5, <3>2, <3>3, <3>4
    <2> QED  BY <2>3, <2>4
  <1> QED  BY <1>3, <1>4
------------------------------------------------------------------------------
(* The keys that were there all along are, and a batch deletes those its prefixes start. *)
BaseKept(t) ==
    /\ base[t] \subseteq DOMAIN Content[0]
    /\ \A i \in 1..done[t] :
          txn[t][i].type = "DeletePrefix" /\ EndPrefix(txn[t][i].key) = {} =>
             \A k \in base[t] : ~LexLess(k, BeyondStart(txn[t][i].key)) => k \in batch[t][i].beyond

WriteInv ==
    /\ HandleInv
    /\ DataInv
    /\ DOMAIN base = Threads
    /\ \A t \in Threads : pc[t] = "batching" => BaseKept(t)

(* Committing a batch writes it to the content of the open database. *)
LEMMA CommitWrites ==
    ASSUME HandleInv, NEW t \in Threads, Commit(t)
    PROVE  Content' = WrittenBatch(Content, batch[t])
  <1>1. pc[t] = "batching" /\ db' = db
    BY DEF Commit
  <1>2. db # {}
    BY <1>1 DEF HandleInv, OpenWhileRead, Readers
  <1>3. PICK d \in Dirs : db = {d} /\ Content = files[d]
    BY <1>2, OpenContent
  <1>4. d \in DOMAIN files /\ TheOnly(db) = d
    BY <1>3 DEF HandleInv, TypeOK, TheOnly
  <1>5. files'[d] = WrittenBatch(files[d], batch[t])
    BY <1>3, <1>4 DEF Commit
  <1>6. Content' = files'[d]
    BY <1>1, <1>2, <1>4 DEF Content
  <1> QED  BY <1>3, <1>5, <1>6

(* Every step keeps what a batch must cover. *)
LEMMA WriteInvKept ==
    ASSUME WriteInv, [Next]_vars
    PROVE  WriteInv'
  <1> USE DEF disk, batching, iterating, restoring
  <1>0. DataInv /\ HandleInv /\ TypeOK /\ PerThread /\ DOMAIN base = Threads
    BY DEF WriteInv, HandleInv, DataInv
  <1>1. HandleInv' /\ DataInv'
    BY <1>0, HandleInvKept, DataInvKept
  <1>2. ASSUME UNCHANGED <<batching, files, db>>, \A u \in Threads : pc'[u] = "batching" => pc[u] = "batching"
        PROVE  WriteInv'
    <2>1. Content' = Content
      BY <1>2 DEF Content
    <2> QED  BY <1>0, <1>1, <1>2, <2>1 DEF WriteInv, BaseKept
  <1>3. ASSUME \A u \in Threads : pc'[u] # "batching", DOMAIN base' = Threads
        PROVE  WriteInv'
    BY <1>1, <1>3 DEF WriteInv
  <1>4. ASSUME NEW t \in Threads, NEW ops \in Transactions, StartWrite(t, ops) PROVE WriteInv'
    <2>1. /\ done'[t] = 0 /\ base'[t] = DOMAIN Content[0] /\ UNCHANGED <<files, db>>
          /\ \A u \in Threads \ {t} :
                /\ txn'[u] = txn[u] /\ done'[u] = done[u] /\ batch'[u] = batch[u]
                /\ base'[u] = base[u] /\ pc'[u] = pc[u]
          /\ DOMAIN base' = Threads
      BY <1>0, <1>4 DEF StartWrite, PerThread, TypeOK
    <2>2. Content' = Content
      BY <2>1 DEF Content
    <2>3. BaseKept(t)'
      BY <2>1, <2>2 DEF BaseKept
    <2>4. ASSUME NEW u \in Threads \ {t}, pc'[u] = "batching" PROVE BaseKept(u)'
      BY <2>1, <2>2, <2>4 DEF WriteInv, BaseKept
    <2> QED  BY <1>1, <2>1, <2>3, <2>4 DEF WriteInv
  <1>5. ASSUME NEW t \in Threads, BatchOp(t) PROVE WriteInv'
    <2> DEFINE n == done[t]
               op == txn[t][n + 1]
    <2>1. /\ batch'[t] = Append(batch[t], BatchOf(Content, op)) /\ done'[t] = n + 1
          /\ pc[t] = "batching" /\ n < Len(txn[t])
          /\ \A u \in Threads \ {t} : done'[u] = done[u] /\ batch'[u] = batch[u]
          /\ UNCHANGED <<pc, txn, base, files, db>>
      BY <1>0, <1>5 DEF BatchOp, PerThread
    <2>2. Content' = Content
      BY <2>1 DEF Content
    <2>3. BaseKept(t) /\ BatchSound(t)
      BY <1>0, <2>1 DEF WriteInv, DataInv
    <2>4. Len(txn[t]) \in Nat /\ n \in Nat /\ batch[t] = [i \in 1..n |-> batch[t][i]]
      <3>1. Len(txn[t]) \in Nat /\ n \in 0..Len(txn[t])
        BY <2>3 DEF BatchSound
      <3>2. n \in Nat
        BY <3>1
      <3> QED  BY <2>3, <3>1, <3>2 DEF BatchSound
    <2>5. batch'[t] = [i \in 1..(n + 1) |-> IF i = n + 1 THEN BatchOf(Content, op) ELSE batch[t][i]]
      BY <2>1, <2>4, Appended
    <2>6. op.col = 0
      BY <2>1, <2>3, <2>4 DEF BatchSound
    <2>7. ASSUME op.type = "DeletePrefix", EndPrefix(op.key) = {},
                 NEW k \in base[t], ~LexLess(k, BeyondStart(op.key))
          PROVE  k \in BatchOf(Content, op).beyond
      <3>1. BatchOf(Content, op) = RangeDelete(op, NotBefore(Content[0], BeyondStart(op.key)))
        BY <2>6, <2>7 DEF BatchOf
      <3>2. k \in NotBefore(Content[0], BeyondStart(op.key))
        BY <2>3, <2>7 DEF BaseKept, NotBefore
      <3> QED  BY <3>1, <3>2 DEF RangeDelete
    <2> HIDE DEF n
    <2>8. BaseKept(t)'
      <3>1. ASSUME NEW i \in 1..(n + 1), txn[t][i].type = "DeletePrefix", EndPrefix(txn[t][i].key) = {},
                   NEW k \in base[t], ~LexLess(k, BeyondStart(txn[t][i].key))
            PROVE  k \in batch'[t][i].beyond
        <4>1. CASE i = n + 1
          BY <2>4, <2>5, <2>7, <3>1, <4>1
        <4>2. CASE i \in 1..n
          <5>1. batch'[t][i] = batch[t][i]
            BY <2>4, <2>5, <4>2
          <5> QED  BY <2>3, <3>1, <4>2, <5>1 DEF BaseKept, n
        <4> QED  BY <2>4, <4>1, <4>2
      <3> QED  BY <2>1, <2>2, <2>3, <3>1 DEF BaseKept
    <2>9. ASSUME NEW u \in Threads \ {t}, pc'[u] = "batching" PROVE BaseKept(u)'
      BY <2>1, <2>2, <2>9 DEF WriteInv, BaseKept
    <2> QED  BY <1>0, <1>1, <2>1, <2>8, <2>9 DEF WriteInv
  <1>6. ASSUME NEW t \in Threads, Commit(t) PROVE WriteInv'
    <2>1. Content' = WrittenBatch(Content, batch[t])
      BY <1>0, <1>6, CommitWrites
    <2>2. /\ pc'[t] = "idle" /\ DOMAIN base' = Threads
          /\ \A u \in Threads \ {t} :
                /\ txn'[u] = txn[u] /\ done'[u] = done[u] /\ batch'[u] = batch[u] /\ pc'[u] = pc[u]
                /\ base'[u] = base[u] \cap DOMAIN WrittenBatch(Content, batch[t])[0]
      BY <1>0, <1>6 DEF Commit, PerThread, TypeOK
    <2>3. ASSUME NEW u \in Threads \ {t}, pc'[u] = "batching" PROVE BaseKept(u)'
      BY <2>1, <2>2, <2>3 DEF WriteInv, BaseKept
    <2> QED  BY <1>1, <2>2, <2>3 DEF WriteInv
  <1>7. ASSUME NEW t \in Threads, CommitFails(t) PROVE WriteInv'
    <2>1. /\ pc'[t] = "idle" /\ DOMAIN base' = Threads /\ UNCHANGED <<files, db>>
          /\ \A u \in Threads \ {t} :
                /\ txn'[u] = txn[u] /\ done'[u] = done[u] /\ batch'[u] = batch[u]
                /\ base'[u] = base[u] /\ pc'[u] = pc[u]
      BY <1>0, <1>7 DEF CommitFails, PerThread, TypeOK
    <2>2. Content' = Content
      BY <2>1 DEF Content
    <2>3. ASSUME NEW u \in Threads \ {t}, pc'[u] = "batching" PROVE BaseKept(u)'
      BY <2>1, <2>2, <2>3 DEF WriteInv, BaseKept
    <2> QED  BY <1>1, <2>1, <2>3 DEF WriteInv
  <1>8. ASSUME NEW t \in Threads, NEW p \in IterPrefixes, StartIter(t, p) PROVE WriteInv'
    BY <1>0, <1>2, <1>8 DEF StartIter, TypeOK
  <1>9. ASSUME NEW t \in Threads, NEW p \in Copies, StartRestore(t, p) PROVE WriteInv'
    BY <1>0, <1>2, <1>9 DEF StartRestore, TypeOK
  <1>10. ASSUME NEW t \in Threads, IterNext(t) \/ DropIter(t) \/ Swap(t) \/ SwapFails(t) \/ RemoveOld(t)
                                   \/ KeepOld(t) \/ Reopen(t) \/ ReopenFails(t)
         PROVE  WriteInv'
    BY <1>0, <1>2, <1>10 DEF IterNext, DropIter, Swap, SwapFails, RemoveOld, KeepOld, Reopen, ReopenFails,
                             Returns, TypeOK
  <1>11. ASSUME NEW t \in Threads, Close(t) \/ Install(t) PROVE WriteInv'
    <2>1. \A u \in Threads : pc'[u] # "batching"
      BY <1>0, <1>11 DEF Close, Install, Returns, CanWrite, Readers, TypeOK
    <2> QED  BY <1>0, <1>3, <1>11, <2>1 DEF Close, Install
  <1>12. ASSUME NEW t \in Threads, Step(t) PROVE WriteInv'
    BY <1>5, <1>6, <1>7, <1>10, <1>11, <1>12 DEF Step
  <1>13. CASE UNCHANGED vars
    BY <1>2, <1>13 DEF vars
  <1> QED  BY <1>4, <1>8, <1>9, <1>12, <1>13 DEF Next

(* A commit of which nothing was overlooked does what its transaction says. *)
LEMMA CommitAsDocumented ==
    ASSUME WriteInv, NEW t \in Threads, Commit(t), ~Overlooked(t)
    PROVE  Content' = After(Content, txn[t], Len(txn[t]))
  <1> DEFINE ops == txn[t]
             n == Len(ops)
             b == batch[t]
             m == Content[0]
             w == Written(m, b, 0)
             a == After(Content, ops, n)
  <1>1. HandleInv /\ DataInv /\ pc[t] = "batching" /\ done[t] = n
    BY DEF WriteInv, Commit
  <1>2. SoundContent(Content) /\ BatchSound(t) /\ BaseKept(t)
    BY <1>1, ContentSound DEF WriteInv, DataInv
  <1>3. /\ ops \in Seq(DBOp) /\ n \in Nat /\ b = [i \in 1..n |-> b[i]]
        /\ \A i \in 1..n : Follows(b[i], ops[i])
        /\ \A i \in 1..n : ops[i] \in DBOp
    <2>1. ops \in Seq({op \in DBOp : op.col = 0})
      BY <1>2 DEF BatchSound
    <2>2. n \in Nat /\ ops \in [1..n -> DBOp]
      BY <2>1
    <2>3. ops \in Seq(DBOp)
      BY <2>2
    <2> QED  BY <1>1, <1>2, <2>2, <2>3 DEF BatchSound
  <1>4. /\ base[t] \subseteq DOMAIN m
        /\ \A i \in 1..n : ops[i].type = "DeletePrefix" /\ EndPrefix(ops[i].key) = {} =>
              \A k \in base[t] : ~LexLess(k, BeyondStart(ops[i].key)) => k \in b[i].beyond
    BY <1>1, <1>2 DEF BaseKept
  <1>5. \A i \in 1..n : ops[i].type = "DeletePrefix" /\ EndPrefix(ops[i].key) = {} =>
           \A k \in (DOMAIN m \ base[t]) \cup {ops[j].key : j \in 1..(i - 1)} :
              LexLess(k, BeyondStart(ops[i].key))
    BY DEF Overlooked
  <1>6. AreColumns(Content) /\ DOMAIN Content = {0}
    BY <1>2 DEF SoundContent, AreColumns
  <1>7. AreColumns(a) /\ DOMAIN a = {0}
    BY <1>3, <1>6, AfterAreColumns
  <1>8. a[0] = [k \in KeysAfter(m, ops, n, 0) |-> ValueAfter(m, ops, n, 0, k)]
    BY <1>6 DEF After
  <1>9. WrittenBatch(Content, b) = [x \in {0} |-> w] /\ SoundContent(WrittenBatch(Content, b))
    BY <1>2, <1>6, WrittenSound DEF WrittenBatch
  <1>10. /\ IsMap(w) /\ IsMap(a[0]) /\ w = [k \in DOMAIN w |-> w[k]]
         /\ DOMAIN w \subseteq DBKey /\ KeysAfter(m, ops, n, 0) \subseteq DBKey
    <2>1. WrittenBatch(Content, b)[0] = w
      BY <1>9
    <2>2. IsMap(w)
      BY <1>9, <2>1 DEF SoundContent
    <2>3. IsMap(a[0]) /\ DOMAIN a[0] = KeysAfter(m, ops, n, 0)
      BY <1>7, <1>8 DEF AreColumns
    <2> HIDE DEF w, a
    <2> QED  BY <2>2, <2>3 DEF IsMap
  <1> HIDE DEF n, ops, b, m, w, a
  <1>11. ASSUME NEW k \in DBKey
         PROVE  /\ k \in DOMAIN w <=> k \in KeysAfter(m, ops, n, 0)
                /\ k \in DOMAIN w => w[k] = ValueAfter(m, ops, n, 0, k)
    <2>1. ASSUME NEW i \in 1..n, Touches(ops[i], 0, k), ~Covers(b[i], 0, k)
          PROVE  k \notin DOMAIN m /\ \A j \in 1..(i - 1) : ops[j].key # k
      <3>1. /\ ops[i].type = "DeletePrefix" /\ EndPrefix(ops[i].key) = {}
            /\ ~LexLess(k, BeyondStart(ops[i].key)) /\ k \notin b[i].beyond
        BY <1>3, <2>1, CoversTouches
      <3>2. k \notin base[t]
        BY <1>4, <3>1
      <3>3. k \notin (DOMAIN m \ base[t]) \cup {ops[j].key : j \in 1..(i - 1)}
        BY <1>5, <3>1
      <3> QED  BY <3>2, <3>3
    <2>2. n = Len(ops)
      BY DEF n
    <2> QED  BY <1>3, <2>1, <2>2, SameFate, SMTT(40) DEF w
  <1>12. DOMAIN w = KeysAfter(m, ops, n, 0)
    BY <1>10, <1>11
  <1>13. w = a[0]
    BY <1>8, <1>10, <1>11, <1>12
  <1>14. a = [x \in {0} |-> a[0]]
    BY <1>7 DEF AreColumns
  <1>15. Content' = WrittenBatch(Content, b)
    BY <1>1, CommitWrites DEF b
  <1> QED  BY <1>9, <1>13, <1>14, <1>15 DEF a, ops, n

(***************************************************************************)
(* write (lib.rs:490) does what its transaction says in the content at the *)
(* time of the commit, for any operations in any order, although it built  *)
(* the batch before, out of ranges that miss keys beginning with sixteen   *)
(* 0xff bytes: only such a key, put since the write began, can survive.    *)
(***************************************************************************)
THEOREM WritesAsDocumented == Spec => WrittenAsDocumented
  <1>1. Init => WriteInv
    <2> SUFFICES ASSUME Init PROVE WriteInv
      OBVIOUS
    <2>1. DOMAIN base = Threads /\ \A t \in Threads : pc[t] # "batching"
      BY DEF Init
    <2> QED  BY <2>1, HandleInvInitially, DataInvInitially DEF WriteInv
  <1>2. WriteInv /\ [Next]_vars => WriteInv'
    BY WriteInvKept
  <1>3. WriteInv /\ [Next]_vars =>
           [\A t \in Threads :
              Commit(t) /\ ~Overlooked(t) => Content' = After(Content, txn[t], Len(txn[t]))]_vars
    BY CommitAsDocumented
  <1> QED  BY <1>1, <1>2, <1>3, PTL DEF Spec, WrittenAsDocumented
==============================================================================
