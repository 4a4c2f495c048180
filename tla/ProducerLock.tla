---------------------------- MODULE ProducerLock ----------------------------
(***************************************************************************)
(* One publisher per topic: acquire_producer_lock and Drop for             *)
(* ProducerLock (producer_lock.rs), as Publisher::create and               *)
(* Bus::clean_topic (bus.rs) use them on one topic directory.              *)
(*                                                                         *)
(* A caller is a thread of a process.  The lock file and the ring file are *)
(* identified by their inodes, numbered in the order of their creation: a  *)
(* file that clean_topic unlinked lives on for whoever has it open.        *)
(* flock(2) locks belong to the open file, so two files opened by one      *)
(* process exclude each other too.                                         *)
(***************************************************************************)
EXTENDS Integers, FiniteSets

CONSTANTS
  Threads,     \* callers
  Process,     \* Process[t]: the process thread t runs in
  MaxInodes    \* bound: files created

ASSUME LockConstantsOK ==
  /\ MaxInodes \in Nat
  /\ Process \in [Threads -> Nat]

VARIABLES
  dir,         \* does the topic directory exist?
  lockIno,     \* inode of producer.lock in it, 0 if there is none
  ringIno,     \* inode of ring.mmap in it, 0 if there is none
  inodes,      \* inodes created so far
  inProcess,   \* IN_PROCESS_LOCKS: the processes whose set holds the path
  pc,          \* per thread: where it is
  clean,       \* per thread: is the call clean_topic?
  file,        \* per thread: inode of the lock file it has open, 0 if none
  locked,      \* per thread: does its open file hold the flock?
  ring,        \* per thread: inode of the ring its Publisher maps, 0 if none
  raced        \* history: has clean_topic unlinked a lock file that another
               \* thread had opened and not yet locked?

disk  == <<dir, lockIno, ringIno, inodes>>
local == <<clean, file, locked, ring>>
vars  == <<disk, inProcess, pc, local, raced>>

Init ==
  /\ dir = FALSE /\ lockIno = 0 /\ ringIno = 0 /\ inodes = 0
  /\ inProcess = {}
  /\ pc = [t \in Threads |-> "idle"]
  /\ clean = [t \in Threads |-> FALSE]
  /\ file = [t \in Threads |-> 0]
  /\ locked = [t \in Threads |-> FALSE]
  /\ ring = [t \in Threads |-> 0]
  /\ raced = FALSE

Goto(t, l) == pc' = [pc EXCEPT ![t] = l]

-----------------------------------------------------------------------------
\* Publisher::create: create_dir_all, then acquire_producer_lock.
Create(t) ==
  /\ pc[t] = "idle"
  /\ dir' = TRUE
  /\ clean' = [clean EXCEPT ![t] = FALSE]
  /\ Goto(t, "insert")
  /\ UNCHANGED <<lockIno, ringIno, inodes, inProcess, file, locked, ring, raced>>

\* clean_topic, past the removal of its own publisher (Close).
Clean(t) ==
  /\ pc[t] = "idle"
  /\ dir
  /\ clean' = [clean EXCEPT ![t] = TRUE]
  /\ Goto(t, "insert")
  /\ UNCHANGED <<disk, inProcess, file, locked, ring, raced>>

\* The in-process check, under the mutex of IN_PROCESS_LOCKS.
InsertPath(t) ==
  /\ pc[t] = "insert"
  /\ IF Process[t] \in inProcess
       THEN inProcess' = inProcess /\ Goto(t, "idle")
       ELSE inProcess' = inProcess \cup {Process[t]} /\ Goto(t, "open")
  /\ UNCHANGED <<disk, local, raced>>

\* Mutant of OpenLock: an open that fails leaves the path in the set.
OpenLockLeaks(t) ==
  /\ pc[t] = "open"
  /\ lockIno = 0 => inodes < MaxInodes
  /\ IF dir
       THEN /\ inodes' = IF lockIno = 0 THEN inodes + 1 ELSE inodes
            /\ lockIno' = IF lockIno = 0 THEN inodes + 1 ELSE lockIno
            /\ file' = [file EXCEPT ![t] = lockIno']
            /\ Goto(t, "flock")
       ELSE UNCHANGED <<inodes, lockIno, file>> /\ Goto(t, "idle")
  /\ UNCHANGED <<dir, ringIno, inProcess, clean, locked, ring, raced>>

\* OpenOptions::create(true).open: fails if the directory is gone.
OpenLock(t) ==
  /\ pc[t] = "open"
  /\ lockIno = 0 => inodes < MaxInodes
  /\ IF dir
       THEN /\ inodes' = IF lockIno = 0 THEN inodes + 1 ELSE inodes
            /\ lockIno' = IF lockIno = 0 THEN inodes + 1 ELSE lockIno
            /\ file' = [file EXCEPT ![t] = lockIno']
            /\ Goto(t, "flock")
            /\ UNCHANGED inProcess
       ELSE /\ UNCHANGED <<inodes, lockIno, file>>
            /\ inProcess' = inProcess \ {Process[t]}
            /\ Goto(t, "idle")
  /\ UNCHANGED <<dir, ringIno, clean, locked, ring, raced>>

\* Some other open file holds the flock on the inode t has open.
Contended(t) == \E u \in Threads \ {t} : locked[u] /\ file[u] = file[t]

\* Mutants of TryLockExclusive: no flock; a refusal leaves the path behind.
TryLockIgnored(t) ==
  /\ pc[t] = "flock"
  /\ locked' = [locked EXCEPT ![t] = TRUE]
  /\ Goto(t, IF clean[t] THEN "unlink" ELSE "map")
  /\ UNCHANGED <<disk, inProcess, clean, file, ring, raced>>
TryLockLeaks(t) ==
  /\ pc[t] = "flock"
  /\ IF Contended(t)
       THEN /\ file' = [file EXCEPT ![t] = 0]
            /\ Goto(t, "idle")
            /\ UNCHANGED locked
       ELSE /\ locked' = [locked EXCEPT ![t] = TRUE]
            /\ Goto(t, IF clean[t] THEN "unlink" ELSE "map")
            /\ UNCHANGED file
  /\ UNCHANGED <<disk, inProcess, clean, ring, raced>>

\* flock(LOCK_EX | LOCK_NB); refused, the path leaves the set before the
\* file closes.
TryLockExclusive(t) ==
  /\ pc[t] = "flock"
  /\ IF Contended(t)
       THEN /\ file' = [file EXCEPT ![t] = 0]
            /\ inProcess' = inProcess \ {Process[t]}
            /\ Goto(t, "idle")
            /\ UNCHANGED locked
       ELSE /\ locked' = [locked EXCEPT ![t] = TRUE]
            /\ Goto(t, IF clean[t] THEN "unlink" ELSE "map")
            /\ UNCHANGED <<file, inProcess>>
  /\ UNCHANGED <<disk, clean, ring, raced>>

-----------------------------------------------------------------------------
\* RingBuffer::create_or_reuse on the ring file of the directory; without a
\* directory the call fails and the lock is dropped.
MapRing(t) ==
  /\ pc[t] = "map"
  /\ ringIno = 0 => inodes < MaxInodes
  /\ IF dir
       THEN /\ inodes' = IF ringIno = 0 THEN inodes + 1 ELSE inodes
            /\ ringIno' = IF ringIno = 0 THEN inodes + 1 ELSE ringIno
            /\ ring' = [ring EXCEPT ![t] = ringIno']
            /\ Goto(t, "publishing")
       ELSE UNCHANGED <<inodes, ringIno, ring>> /\ Goto(t, "drop")
  /\ UNCHANGED <<dir, lockIno, inProcess, clean, file, locked, raced>>

\* The Publisher is dropped: the ring is unmapped, _lock goes last.
Close(t) ==
  /\ pc[t] = "publishing"
  /\ ring' = [ring EXCEPT ![t] = 0]
  /\ Goto(t, "drop")
  /\ UNCHANGED <<disk, inProcess, clean, file, locked, raced>>

\* Drop for ProducerLock takes the path out of the set...
DropPath(t) ==
  /\ pc[t] = "drop"
  /\ inProcess' = inProcess \ {Process[t]}
  /\ Goto(t, "close")
  /\ UNCHANGED <<disk, local, raced>>

\* ...and then its field _file closes, which ends the flock.
CloseFile(t) ==
  /\ pc[t] = "close"
  /\ file' = [file EXCEPT ![t] = 0]
  /\ locked' = [locked EXCEPT ![t] = FALSE]
  /\ Goto(t, "idle")
  /\ UNCHANGED <<disk, inProcess, clean, ring, raced>>

\* remove_dir_all: the entries are unlinked, then the directory is removed,
\* which fails if a file was created in it meanwhile.
UnlinkFiles(t) ==
  /\ pc[t] = "unlink"
  /\ lockIno' = 0 /\ ringIno' = 0
  /\ raced' = (raced \/ \E u \in Threads \ {t} : pc[u] = "flock")
  /\ Goto(t, "rmdir")
  /\ UNCHANGED <<dir, inodes, inProcess, local>>

RemoveDir(t) ==
  /\ pc[t] = "rmdir"
  /\ dir' = (lockIno # 0 \/ ringIno # 0)
  /\ Goto(t, "drop")
  /\ UNCHANGED <<lockIno, ringIno, inodes, inProcess, local, raced>>

\* The process is killed: the kernel closes its files, its memory is gone.
Killed(p) ==
  LET mine(t) == Process[t] = p IN
  /\ \E t \in Threads : mine(t) /\ pc[t] # "idle"
  /\ inProcess' = inProcess \ {p}
  /\ pc' = [t \in Threads |-> IF mine(t) THEN "idle" ELSE pc[t]]
  /\ file' = [t \in Threads |-> IF mine(t) THEN 0 ELSE file[t]]
  /\ locked' = [t \in Threads |-> IF mine(t) THEN FALSE ELSE locked[t]]
  /\ ring' = [t \in Threads |-> IF mine(t) THEN 0 ELSE ring[t]]
  /\ UNCHANGED <<disk, clean, raced>>

-----------------------------------------------------------------------------
ThreadStep(t) ==
  \/ Create(t) \/ Clean(t) \/ InsertPath(t) \/ OpenLock(t) \/ TryLockExclusive(t)
  \/ MapRing(t) \/ Close(t) \/ DropPath(t) \/ CloseFile(t)
  \/ UnlinkFiles(t) \/ RemoveDir(t)

Next ==
  \/ \E t \in Threads : ThreadStep(t)
  \/ \E p \in {Process[t] : t \in Threads} : Killed(p)

Spec == Init /\ [][Next]_vars

-----------------------------------------------------------------------------
(* Properties *)

LockPC == {"idle", "insert", "open", "flock", "map", "publishing", "unlink",
           "rmdir", "drop", "close"}

\* Every variable has its type.
TypeOK ==
  /\ dir \in BOOLEAN /\ lockIno \in Nat /\ ringIno \in Nat /\ inodes \in Nat
  /\ inProcess \in SUBSET Nat
  /\ pc \in [Threads -> LockPC]
  /\ clean \in [Threads -> BOOLEAN]
  /\ file \in [Threads -> Nat]
  /\ locked \in [Threads -> BOOLEAN]
  /\ ring \in [Threads -> Nat]
  /\ raced \in BOOLEAN

\* "Single-publisher is enforced at the FS boundary by flock": two publishers
\* never write one ring, in one process or in several, whichever of them is
\* opening, closing or being killed, and while clean_topic removes files,
\* unless a removal hit a thread between its open and its flock.
OnePublisherPerRing ==
  ~raced => \A t, u \in Threads :
    pc[t] = "publishing" /\ pc[u] = "publishing" /\ ring[t] = ring[u] => t = u

\* The set and the calls agree: the path is in the set of a process exactly
\* while one of its threads acquires or owns the lock, on every error path
\* too.  Otherwise the process could never publish on the topic again.
InProcessExact ==
  \A p \in {Process[t] : t \in Threads} :
    LET owners == {t \in Threads : Process[t] = p
                     /\ pc[t] \notin {"idle", "insert", "close"}} IN
    (p \in inProcess <=> owners # {}) /\ Cardinality(owners) <= 1

=============================================================================
