----------------------------- MODULE LockProofs -----------------------------
(***************************************************************************)
(* One publisher per ring, and an exact in-process set, for any number of  *)
(* threads and processes, with clean_topic running beside them.            *)
(*                                                                         *)
(* The argument: a lock file is unlinked only by a clean_topic that holds  *)
(* the flock on it.  Unless another thread had it open at that moment, the *)
(* only open lock files that are not the one in the directory belong to    *)
(* calls of clean_topic that have unlinked theirs and are leaving.  All    *)
(* others have the same inode open, the flock on it has one holder, and a  *)
(* thread maps the ring only while it holds it.  Neither the in-process    *)
(* set nor the bound on inodes is needed for that.                         *)
(***************************************************************************)
EXTENDS ProducerLock, FiniteSetTheorems, TLAPS

LEMMA InitType == Init => TypeOK
  <1> SUFFICES ASSUME Init PROVE TypeOK
    OBVIOUS
  <1>1. inProcess \in SUBSET Nat
    BY DEF Init
  <1> QED
    BY <1>1 DEF Init, TypeOK, LockPC

LEMMA NextType == TypeOK /\ [Next]_vars => TypeOK'
  <1> SUFFICES ASSUME TypeOK, [Next]_vars PROVE TypeOK'
    OBVIOUS
  <1> USE LockConstantsOK DEF TypeOK, LockPC, Goto, disk, local
  <1>1. ASSUME NEW t \in Threads, ThreadStep(t) PROVE TypeOK'
    <2>1. CASE Create(t)
      BY <2>1 DEF Create
    <2>2. CASE Clean(t)
      BY <2>2 DEF Clean
    <2>3. CASE InsertPath(t)
      <3>1. Process[t] \in Nat
        OBVIOUS
      <3>2. inProcess \cup {Process[t]} \in SUBSET Nat
        BY <3>1
      <3>3. inProcess' \in SUBSET Nat
        BY <2>3, <3>2 DEF InsertPath
      <3> QED
        BY <2>3, <3>3 DEF InsertPath
    <2>4. CASE OpenLock(t)
      <3>1. inProcess' \in SUBSET Nat
        BY <2>4 DEF OpenLock
      <3> QED
        BY <2>4, <3>1 DEF OpenLock
    <2>5. CASE TryLockExclusive(t)
      <3>1. inProcess' \in SUBSET Nat
        BY <2>5 DEF TryLockExclusive
      <3>2. CASE Contended(t)
        BY <2>5, <3>1, <3>2 DEF TryLockExclusive
      <3>3. CASE ~Contended(t)
        BY <2>5, <3>1, <3>3 DEF TryLockExclusive
      <3> QED
        BY <3>2, <3>3
    <2>6. CASE MapRing(t)
      BY <2>6 DEF MapRing
    <2>7. CASE Close(t)
      BY <2>7 DEF Close
    <2>8. CASE DropPath(t)
      BY <2>8 DEF DropPath
    <2>9. CASE CloseFile(t)
      BY <2>9 DEF CloseFile
    <2>10. CASE UnlinkFiles(t)
      BY <2>10 DEF UnlinkFiles
    <2>11. CASE RemoveDir(t)
      BY <2>11 DEF RemoveDir
    <2> QED
      BY <1>1, <2>1, <2>2, <2>3, <2>4, <2>5, <2>6, <2>7, <2>8, <2>9, <2>10, <2>11
      DEF ThreadStep
  <1>2. ASSUME NEW p \in {Process[t] : t \in Threads}, Killed(p) PROVE TypeOK'
    BY <1>2 DEF Killed
  <1>3. CASE UNCHANGED vars
    BY <1>3 DEF vars
  <1> QED
    BY <1>1, <1>2, <1>3 DEF Next

\* acquire_producer_lock and clean_topic keep every variable of its type.
THEOREM LockTypeCorrect == Spec => []TypeOK
  BY InitType, NextType, PTL DEF Spec

-----------------------------------------------------------------------------
Holding == {"map", "publishing", "unlink", "rmdir", "drop", "close"}

\* A clean_topic that has unlinked the files and not yet closed its own.
Leaving(t) == clean[t] /\ pc[t] \in {"rmdir", "drop", "close"}

\* Where a thread is tells what it has open and locked.
Held ==
  \A t \in Threads :
    /\ pc[t] \in {"idle", "insert", "open"} => file[t] = 0
    /\ pc[t] \in {"unlink", "rmdir"} => clean[t]
    /\ pc[t] = "flock" => file[t] # 0
    /\ locked[t] <=> pc[t] \in Holding
    /\ locked[t] => file[t] # 0

\* Every open lock file is the one in the directory, but for those leaving.
SameFile == \A t \in Threads : file[t] # 0 => file[t] = lockIno \/ Leaving(t)

\* The lock has one holder, but for those leaving.
OneHolder ==
  \A t, u \in Threads :
    locked[t] /\ locked[u] /\ ~Leaving(t) /\ ~Leaving(u) => t = u

LockInv == TypeOK /\ Held /\ (~raced => SameFile /\ OneHolder)

LEMMA InitLock == Init => LockInv
  BY InitType DEF Init, LockInv, SameFile, OneHolder, Held, Holding

LEMMA NextLock == LockInv /\ [Next]_vars => LockInv'
  <1> SUFFICES ASSUME LockInv, [Next]_vars PROVE LockInv'
    OBVIOUS
  <1>0. TypeOK'
    BY NextType DEF LockInv
  <1> USE DEF LockInv, SameFile, OneHolder, Held, Holding, Leaving, Goto, disk, local
  <1>1. ASSUME NEW t \in Threads, ThreadStep(t) PROVE LockInv'
    <2>1. CASE Create(t)
      BY <1>0, <2>1 DEF Create, TypeOK
    <2>2. CASE Clean(t)
      BY <1>0, <2>2 DEF Clean, TypeOK
    <2>3. CASE InsertPath(t)
      BY <1>0, <2>3 DEF InsertPath, TypeOK
    <2>4. CASE OpenLock(t)
      <3>1. lockIno # 0 => lockIno' = lockIno
        BY <2>4 DEF OpenLock
      <3>2. ~raced /\ lockIno = 0 => \A u \in Threads : file[u] # 0 => Leaving(u)
        OBVIOUS
      <3>3. pc'[t] = "flock" => file'[t] = lockIno' /\ lockIno' # 0
        BY <2>4 DEF OpenLock, TypeOK
      <3> QED
        BY <1>0, <2>4, <3>1, <3>2, <3>3 DEF OpenLock, TypeOK
    <2>5. CASE TryLockExclusive(t)
      <3>1. CASE Contended(t)
        BY <1>0, <2>5, <3>1 DEF TryLockExclusive, TypeOK
      <3>2. CASE ~Contended(t)
        <4>1. ~raced => \A u \in Threads : locked[u] => Leaving(u)
          BY <2>5, <3>2 DEF TryLockExclusive, Contended
        <4> QED
          BY <1>0, <2>5, <3>2, <4>1 DEF TryLockExclusive, TypeOK
      <3> QED
        BY <3>1, <3>2
    <2>6. CASE MapRing(t)
      BY <1>0, <2>6 DEF MapRing, TypeOK
    <2>7. CASE Close(t)
      BY <1>0, <2>7 DEF Close, TypeOK
    <2>8. CASE DropPath(t)
      BY <1>0, <2>8 DEF DropPath, TypeOK
    <2>9. CASE CloseFile(t)
      BY <1>0, <2>9 DEF CloseFile, TypeOK
    <2>10. CASE UnlinkFiles(t)
      <3>1. ~raced' => \A u \in Threads \ {t} : file[u] # 0 => Leaving(u)
        BY <2>10 DEF UnlinkFiles, TypeOK, LockPC
      <3> QED
        BY <1>0, <2>10, <3>1 DEF UnlinkFiles, TypeOK
    <2>11. CASE RemoveDir(t)
      BY <1>0, <2>11 DEF RemoveDir, TypeOK
    <2> QED
      BY <1>1, <2>1, <2>2, <2>3, <2>4, <2>5, <2>6, <2>7, <2>8, <2>9, <2>10, <2>11
      DEF ThreadStep
  <1>2. ASSUME NEW p \in {Process[t] : t \in Threads}, Killed(p) PROVE LockInv'
    BY <1>0, <1>2 DEF Killed, TypeOK
  <1>3. CASE UNCHANGED vars
    BY <1>0, <1>3 DEF vars
  <1> QED
    BY <1>1, <1>2, <1>3 DEF Next

\* flock and the order of acquire_producer_lock, Publisher::create and Drop
\* keep publishers apart, for any number of threads and processes, killed or
\* not, and clean_topic does not disturb it unless it unlinks the lock file
\* of a thread between that thread's open and its flock.
THEOREM OnePublisher == Spec => []OnePublisherPerRing
  <1>1. LockInv => OnePublisherPerRing
    BY DEF LockInv, Held, OneHolder, Holding, Leaving, OnePublisherPerRing
  <1> QED
    BY <1>1, InitLock, NextLock, PTL DEF Spec

-----------------------------------------------------------------------------
(* The in-process set *)

\* Thread t acquires or owns the lock of process p.
Owns(t, p) == Process[t] = p /\ pc[t] \notin {"idle", "insert", "close"}

SetInv ==
  /\ TypeOK
  /\ \A t \in Threads : Owns(t, Process[t]) => Process[t] \in inProcess
  /\ \A p \in inProcess : \E t \in Threads : Owns(t, p)
  /\ \A t, u \in Threads :
       Owns(t, Process[t]) /\ Owns(u, Process[t]) => t = u

LEMMA InitSet == Init => SetInv
  BY InitType DEF Init, SetInv, Owns

LEMMA NextSet == SetInv /\ [Next]_vars => SetInv'
  <1> SUFFICES ASSUME SetInv, [Next]_vars PROVE SetInv'
    OBVIOUS
  <1>0. TypeOK'
    BY NextType DEF SetInv
  <1> USE DEF SetInv, Owns, Goto, disk, local
  <1>1. ASSUME NEW t \in Threads, ThreadStep(t) PROVE SetInv'
    <2>1. CASE Create(t)
      BY <1>0, <2>1 DEF Create, TypeOK
    <2>2. CASE Clean(t)
      BY <1>0, <2>2 DEF Clean, TypeOK
    <2>3. CASE InsertPath(t)
      <3>1. CASE Process[t] \in inProcess
        BY <1>0, <2>3, <3>1 DEF InsertPath, TypeOK
      <3>2. CASE Process[t] \notin inProcess
        BY <1>0, <2>3, <3>2 DEF InsertPath, TypeOK
      <3> QED
        BY <3>1, <3>2
    <2>4. CASE OpenLock(t)
      <3>1. CASE dir
        BY <1>0, <2>4, <3>1 DEF OpenLock, TypeOK
      <3>2. CASE ~dir
        BY <1>0, <2>4, <3>2 DEF OpenLock, TypeOK
      <3> QED
        BY <3>1, <3>2
    <2>5. CASE TryLockExclusive(t)
      <3>1. CASE Contended(t)
        BY <1>0, <2>5, <3>1 DEF TryLockExclusive, TypeOK
      <3>2. CASE ~Contended(t)
        BY <1>0, <2>5, <3>2 DEF TryLockExclusive, TypeOK
      <3> QED
        BY <3>1, <3>2
    <2>6. CASE MapRing(t)
      BY <1>0, <2>6 DEF MapRing, TypeOK
    <2>7. CASE Close(t)
      BY <1>0, <2>7 DEF Close, TypeOK
    <2>8. CASE DropPath(t)
      BY <1>0, <2>8 DEF DropPath, TypeOK
    <2>9. CASE CloseFile(t)
      BY <1>0, <2>9 DEF CloseFile, TypeOK
    <2>10. CASE UnlinkFiles(t)
      BY <1>0, <2>10 DEF UnlinkFiles, TypeOK
    <2>11. CASE RemoveDir(t)
      BY <1>0, <2>11 DEF RemoveDir, TypeOK
    <2> QED
      BY <1>1, <2>1, <2>2, <2>3, <2>4, <2>5, <2>6, <2>7, <2>8, <2>9, <2>10, <2>11
      DEF ThreadStep
  <1>2. ASSUME NEW p \in {Process[t] : t \in Threads}, Killed(p) PROVE SetInv'
    <2>1. \A t \in Threads : Process[t] = p => pc'[t] = "idle"
      BY <1>2 DEF Killed, TypeOK
    <2>2. \A t \in Threads : Process[t] # p => pc'[t] = pc[t]
      BY <1>2 DEF Killed, TypeOK
    <2>3. inProcess' = inProcess \ {p}
      BY <1>2 DEF Killed
    <2> QED
      BY <1>0, <2>1, <2>2, <2>3
  <1>3. CASE UNCHANGED vars
    BY <1>0, <1>3 DEF vars
  <1> QED
    BY <1>1, <1>2, <1>3 DEF Next

\* On every path through acquire_producer_lock, its errors, clean_topic and a
\* kill included, IN_PROCESS_LOCKS holds the path exactly while one thread of
\* the process acquires or owns the lock.
THEOREM InProcessSetExact == Spec => []InProcessExact
  <1>1. SetInv => InProcessExact
    <2> SUFFICES ASSUME SetInv, NEW p \in {Process[t] : t \in Threads}
                 PROVE  LET owners == {t \in Threads : Process[t] = p
                                /\ pc[t] \notin {"idle", "insert", "close"}} IN
                        (p \in inProcess <=> owners # {}) /\ Cardinality(owners) <= 1
      BY DEF InProcessExact
    <2> DEFINE owners == {t \in Threads : Process[t] = p
                                /\ pc[t] \notin {"idle", "insert", "close"}}
    <2>1. p \in inProcess <=> owners # {}
      BY DEF SetInv, Owns
    <2>2. Cardinality(owners) <= 1
      <3>1. CASE owners = {}
        BY <3>1, FS_EmptySet
      <3>2. CASE owners # {}
        <4>1. PICK x : x \in owners
          BY <3>2
        <4>2. owners = {x}
          BY <4>1 DEF SetInv, Owns
        <4>3. Cardinality({x}) = 1
          BY FS_Singleton
        <4> QED
          BY <4>2, <4>3
      <3> QED
        BY <3>1, <3>2
    <2> QED
      BY <2>1, <2>2
  <1> QED
    BY <1>1, InitSet, NextSet, PTL DEF Spec

=============================================================================
