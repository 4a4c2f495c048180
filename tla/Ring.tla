-------------------------------- MODULE Ring --------------------------------
(***************************************************************************)
(* The memory-mapped ring of one topic: crates/mmbus/src/ring.rs, driven   *)
(* by Publisher::create / publish (publisher.rs) and by                    *)
(* Subscriber::connect_with / try_receive / Drop (subscriber.rs).          *)
(*                                                                         *)
(* One step is one access to the shared mapping: a load or a store of the  *)
(* tail, of a cursor slot, of a slot's seq, or of one word of a slot.  The *)
(* publisher and every subscriber are separate processes, so any two steps *)
(* interleave, and the publisher may die between any two of them.          *)
(*                                                                         *)
(* A message is the pair of the generation and the number it was published *)
(* under.  A slot holds Words words (the length, then the payload); a word *)
(* is identified with the message it was stored for, so that a torn copy   *)
(* is one whose words name different messages.                             *)
(*                                                                         *)
(* Wakeups (flags, eventfd, client list) are in module Wakeup.             *)
(***************************************************************************)
EXTENDS Integers, FiniteSets

CONSTANTS
  Capacity,    \* slots in the ring
  MaxSubs,     \* entries of the cursor table
  Subs,        \* subscriber processes
  Words,       \* separately stored words of a slot: length, then payload
  MaxRetries,  \* MAX_RETRIES of try_receive (16 in the code)
  Modulus,     \* 2^64: cursors are u64
  Policy,      \* BackpressurePolicy
  Wal,         \* is the write-ahead log enabled?
  Buffered,    \* does it buffer records in the process (FsyncPolicy None, Batched)?
  TSO,         \* do plain accesses stay in program order (x86-64)?
  SubKill,     \* may a subscriber process be killed?
  Starts,      \* the StartPos values subscribers connect with
  MaxTail,     \* bound: messages published
  MaxGen       \* bound: publisher generations

StartPos == [kind : {"Now", "HistoryBack", "Explicit"}, n : Nat]

ASSUME ConstantsOK ==
  /\ Capacity \in Nat \ {0}
  /\ MaxSubs \in Nat \ {0}
  /\ Words \in Nat \ {0}
  /\ MaxRetries \in Nat \ {0}
  /\ MaxTail \in Nat
  /\ MaxGen \in Nat \ {0}
  /\ Modulus \in Nat /\ MaxTail + Capacity + 1 < Modulus
  /\ Policy \in {"Error", "DropOldest"}
  /\ Wal \in BOOLEAN /\ Buffered \in BOOLEAN /\ TSO \in BOOLEAN /\ SubKill \in BOOLEAN
  /\ Starts \subseteq StartPos

VARIABLES
  \* the mapping
  tail, gen,   \* header: producer cursor and publisher generation
  curs,        \* cursor table
  seq,         \* per slot: message number n and the WRITING bit w
  word,        \* per slot: its words
  \* the log
  wal,         \* Wal::pending_cursor: the number of the next record
  filed,       \* records in its files: a replay sees them, a kill spares them
  reused,      \* history: did a death send the numbering back?
  \* the publisher process
  ppc, pi, pmin, pdone,
  \* the subscriber processes
  pc, idx, cursor, live, goal, sgen, eff, tries, rdone, buf, after,
  got          \* history: the last message each subscriber was handed

logvars == <<wal, filed, reused>>
shared  == <<tail, gen, curs, seq, word, logvars>>
pubvars == <<ppc, pi, pmin, pdone>>
readvars == <<eff, tries, rdone, buf, after>>
connvars == <<idx, live, goal, sgen>>
subvars == <<pc, cursor, connvars, readvars, got>>
vars    == <<shared, pubvars, subvars>>

-----------------------------------------------------------------------------
(* u64 arithmetic and slot indices *)

\* u64::MAX marks a free cursor slot; it is also larger than every cursor.
Unclaimed == Modulus - 1

WrappingSub(a, b) == IF a >= b THEN a - b ELSE a - b + Modulus
\* Mutant of SaturatingSub: plain subtraction.
UnsaturatedSub(a, b) == a - b
SaturatingSub(a, b) == IF a >= b THEN a - b ELSE 0
Lesser(a, b) == IF a <= b THEN a ELSE b
Greater(a, b) == IF a >= b THEN a ELSE b

Slot(n) == n % Capacity
SlotIdx == 0..(Capacity - 1)
SubIdx  == 0..(MaxSubs - 1)
WordIdx == 1..Words

Msg(g, n) == [gen |-> g, n |-> n]
Zero      == Msg(0, 0)      \* the zero bytes of a fresh mapping
Clean(n)  == [n |-> n, w |-> FALSE]
Writing(n) == [n |-> n, w |-> TRUE]

NoBuf == [k \in WordIdx |-> Zero]
NoGot == [seq |-> -1, from |-> -1, words |-> NoBuf]

-----------------------------------------------------------------------------
(* RingBuffer::create on a fresh file, by a publisher that has started up. *)
Init ==
  /\ tail = 0 /\ gen = 1 /\ wal = 0 /\ filed = 0 /\ reused = FALSE
  /\ curs = [i \in SubIdx |-> Unclaimed]
  /\ seq  = [i \in SlotIdx |-> Clean(0)]
  /\ word = [i \in SlotIdx |-> NoBuf]
  /\ ppc = "idle" /\ pi = 0 /\ pmin = Unclaimed /\ pdone = {}
  /\ pc     = [r \in Subs |-> "off"]
  /\ idx    = [r \in Subs |-> 0]
  /\ cursor = [r \in Subs |-> 0]
  /\ live   = [r \in Subs |-> 0]
  /\ goal   = [r \in Subs |-> 0]
  /\ sgen   = [r \in Subs |-> 0]
  /\ eff    = [r \in Subs |-> 0]
  /\ tries  = [r \in Subs |-> 0]
  /\ rdone  = [r \in Subs |-> {}]
  /\ buf    = [r \in Subs |-> NoBuf]
  /\ after  = [r \in Subs |-> Clean(0)]
  /\ got    = [r \in Subs |-> NoGot]

-----------------------------------------------------------------------------
(* Publisher::publish.  Under Error with a WAL: is_full, append,           *)
(* try_publish; each scan of the cursor table loads one slot at a time.    *)

PubGoto(l) == ppc' = l /\ pi' = 0 /\ pmin' = Unclaimed /\ pdone' = {}

RingPublish == IF Policy = "Error" THEN "scan" ELSE "write"

Publish ==
  /\ ppc = "idle"
  /\ tail < MaxTail
  /\ PubGoto(IF ~Wal THEN RingPublish
             ELSE IF Policy = "Error" THEN "precheck" ELSE "append")
  /\ UNCHANGED <<shared, subvars>>

\* One iteration of the loop of min_active_cursor.
ScanCursor ==
  /\ ppc \in {"precheck", "scan"}
  /\ pi < MaxSubs
  /\ pmin' = Lesser(pmin, curs[pi])
  /\ pi' = pi + 1
  /\ UNCHANGED <<ppc, pdone, shared, subvars>>

ScanDone == ppc \in {"precheck", "scan"} /\ pi = MaxSubs

\* Mutant of IsFull: off by one.
IsFullLate ==
  WrappingSub(tail, IF pmin = Unclaimed THEN tail ELSE pmin) > Capacity

\* The comparison of is_full and try_publish, on the minimum just scanned.
IsFull ==
  WrappingSub(tail, IF pmin = Unclaimed THEN tail ELSE pmin) >= Capacity

Reject ==
  /\ ScanDone /\ IsFull
  /\ PubGoto("idle")
  /\ UNCHANGED <<shared, subvars>>

Admit ==
  /\ ScanDone /\ ~IsFull
  /\ PubGoto(IF ppc = "precheck" THEN "append" ELSE "write")
  /\ UNCHANGED <<shared, subvars>>

\* Wal::append(cursor = tail): refused with CursorRegressed unless the log's
\* next record is that very cursor.  The record is in the file when append
\* returns (FsyncPolicy Each, or the mapped log), or in a BufWriter.
Append ==
  /\ ppc = "append"
  /\ IF wal = tail THEN wal' = tail + 1 /\ PubGoto(RingPublish)
                   ELSE wal' = wal /\ PubGoto("idle")
  /\ filed' = IF Buffered THEN filed ELSE wal'
  /\ UNCHANGED <<tail, gen, curs, seq, word, reused, subvars>>

\* write_slot: store 0 is the WRITING mark, store k > 0 the k-th word.  The
\* mark is a Release store, which does not hold back the plain stores after
\* it: without TSO they may become visible first.
StoreSlot(k) ==
  /\ ppc = "write"
  /\ k \notin pdone
  /\ TSO => \A j \in 0..Words : j < k => j \in pdone
  /\ pdone' = pdone \cup {k}
  /\ IF k = 0
       THEN seq' = [seq EXCEPT ![Slot(tail)] = Writing(tail)] /\ word' = word
       ELSE seq' = seq /\ word' = [word EXCEPT ![Slot(tail)][k] = Msg(gen, tail)]
  /\ UNCHANGED <<tail, gen, curs, logvars, ppc, pi, pmin, subvars>>

\* Mutant of Commit: the final store keeps the WRITING bit.
CommitStillMarked ==
  /\ ppc = "write"
  /\ pdone = 0..Words
  /\ seq' = [seq EXCEPT ![Slot(tail)] = Writing(tail)]
  /\ PubGoto("bump")
  /\ UNCHANGED <<tail, gen, curs, word, logvars, subvars>>

Commit ==
  /\ ppc = "write"
  /\ pdone = 0..Words
  /\ seq' = [seq EXCEPT ![Slot(tail)] = Clean(tail)]
  /\ PubGoto("bump")
  /\ UNCHANGED <<tail, gen, curs, word, logvars, subvars>>

BumpTail ==
  /\ ppc = "bump"
  /\ tail' = tail + 1
  /\ PubGoto("idle")
  /\ UNCHANGED <<gen, curs, seq, word, logvars, subvars>>

-----------------------------------------------------------------------------
(* Publisher death and Publisher::create on the ring it left: generation,  *)
(* tail := 0, then tail := the cursor of the log as its files show it.     *)

Down == {"down", "reset", "align"}

\* The flusher thread, or a full BufWriter, moves records to the file.
FlushLog ==
  /\ Wal /\ Buffered
  /\ ppc \notin Down
  /\ filed' \in (filed + 1)..wal
  /\ UNCHANGED <<tail, gen, curs, seq, word, wal, reused, pubvars, subvars>>

\* The numbers that have been stamped into a slot, wholly or in part.
Used == IF ppc = "bump" \/ (ppc = "write" /\ pdone # {}) THEN tail + 1 ELSE tail

\* The process is gone and its files hold n records.  The next publisher
\* numbers on from n: below Used it gives numbers out again.
Dies(n) ==
  /\ gen < MaxGen
  /\ wal' = n /\ filed' = n
  /\ reused' = (reused \/ n < Used)
  /\ PubGoto("down")
  /\ UNCHANGED <<tail, gen, curs, seq, word, subvars>>

\* Drop of an idle publisher flushes the log; one whose flush fails leaves
\* what a kill leaves.
PublisherDrops == ppc = "idle" /\ Dies(wal)

\* A kill at any point takes the BufWriter along.
PublisherKilled == ppc # "down" /\ Dies(filed)

ReuseRing ==
  /\ ppc = "down"
  /\ gen' = gen + 1
  /\ PubGoto("reset")
  /\ UNCHANGED <<tail, curs, seq, word, logvars, subvars>>

ResetTail ==
  /\ ppc = "reset"
  /\ tail' = 0
  /\ PubGoto(IF Wal THEN "align" ELSE "idle")
  /\ UNCHANGED <<gen, curs, seq, word, logvars, subvars>>

\* Mutant of AlignTail: the log's cursor is not taken over.
AlignTailNot ==
  /\ ppc = "align"
  /\ PubGoto("idle")
  /\ UNCHANGED <<tail, gen, curs, seq, word, logvars, subvars>>

AlignTail ==
  /\ ppc = "align"
  /\ tail' = Greater(tail, wal)
  /\ PubGoto("idle")
  /\ UNCHANGED <<gen, curs, seq, word, logvars, subvars>>

-----------------------------------------------------------------------------
(* Subscriber::connect_with *)

SubGoto(r, l) == pc' = [pc EXCEPT ![r] = l]

Connect(r) ==
  /\ pc[r] = "off"
  /\ SubGoto(r, "claim")
  /\ cursor' = [cursor EXCEPT ![r] = tail]
  /\ idx' = [idx EXCEPT ![r] = 0]
  /\ got' = [got EXCEPT ![r] = NoGot]
  /\ UNCHANGED <<shared, pubvars, live, goal, sgen, readvars>>

\* Mutant of ClaimCursor: a store in place of the compare_exchange.
ClaimCursorUnchecked(r) ==
  /\ pc[r] = "claim"
  /\ curs' = [curs EXCEPT ![idx[r]] = cursor[r]]
  /\ SubGoto(r, "handshake")
  /\ UNCHANGED <<tail, gen, seq, word, logvars, pubvars, cursor, connvars, readvars,
                 got>>

\* One compare_exchange of claim_cursor; past the last slot the subscriber
\* gets TooManySubscribers.
ClaimCursor(r) ==
  /\ pc[r] = "claim"
  /\ IF curs[idx[r]] = Unclaimed
       THEN /\ curs' = [curs EXCEPT ![idx[r]] = cursor[r]]
            /\ SubGoto(r, "handshake")
            /\ idx' = idx
       ELSE /\ curs' = curs
            /\ IF idx[r] + 1 < MaxSubs
                 THEN idx' = [idx EXCEPT ![r] = @ + 1] /\ pc' = pc
                 ELSE idx' = [idx EXCEPT ![r] = 0] /\ SubGoto(r, "off")
  /\ UNCHANGED <<tail, gen, seq, word, logvars, pubvars, cursor, live, goal,
                 sgen, readvars, got>>

\* release_cursor, on a failed connect or in Drop.
Release(r) ==
  /\ curs' = [curs EXCEPT ![idx[r]] = Unclaimed]
  /\ SubGoto(r, "off")
  /\ UNCHANGED <<tail, gen, seq, word, logvars, pubvars, cursor, connvars,
                 readvars, got>>

\* The socket connects only to a publisher that has bound its listener.
Handshake(r) ==
  /\ pc[r] = "handshake"
  /\ ppc \notin Down
  /\ SubGoto(r, "resync")
  /\ UNCHANGED <<shared, pubvars, cursor, connvars, readvars, got>>

\* Deadline passed, or an I/O error on the socket or the eventfd.
HandshakeFails(r) == pc[r] = "handshake" /\ Release(r)

StartCursor(s, t) ==
  CASE s.kind = "Now" -> t
    [] s.kind = "HistoryBack" -> SaturatingSub(t, s.n)
    [] s.kind = "Explicit" -> s.n

BehindRing(s, t) == s.kind = "Explicit" /\ s.n < SaturatingSub(t, Capacity)

\* The second read of the tail fixes the start.  A start behind the ring is
\* replayed from the WAL with the live cursor parked at the tail.
Resync(r, s) ==
  /\ pc[r] = "resync"
  /\ BehindRing(s, tail) => Wal /\ filed > 0
  /\ cursor' = [cursor EXCEPT ![r] = StartCursor(s, tail)]
  /\ live' = [live EXCEPT ![r] = IF BehindRing(s, tail) THEN tail
                                 ELSE StartCursor(s, tail)]
  /\ goal' = [goal EXCEPT ![r] = IF BehindRing(s, tail) THEN filed ELSE 0]
  /\ SubGoto(r, "seat")
  /\ UNCHANGED <<shared, pubvars, idx, sgen, readvars, got>>

\* No log, or one whose retention has dropped the record, or an error in it.
CursorTooOld(r, s) ==
  /\ pc[r] = "resync"
  /\ BehindRing(s, tail)
  /\ Release(r)

SetCursor(r) ==
  /\ pc[r] = "seat"
  /\ curs' = [curs EXCEPT ![idx[r]] = live[r]]
  /\ SubGoto(r, "readgen")
  /\ UNCHANGED <<tail, gen, seq, word, logvars, pubvars, cursor, connvars,
                 readvars, got>>

ReadGeneration(r) ==
  /\ pc[r] = "readgen"
  /\ sgen' = [sgen EXCEPT ![r] = gen]
  /\ SubGoto(r, IF live[r] = cursor[r] THEN "ready" ELSE "replay")
  /\ UNCHANGED <<shared, pubvars, cursor, idx, live, goal, readvars, got>>

-----------------------------------------------------------------------------
(* next_wal_record.  The replayer returns every record that was in the     *)
(* files when it was opened and may return later ones too.                 *)

ReplayRecord(r) ==
  /\ pc[r] = "replay"
  /\ cursor[r] < filed
  /\ cursor' = [cursor EXCEPT ![r] = @ + 1]
  /\ UNCHANGED <<shared, pubvars, pc, connvars, readvars, got>>

\* The files may end below the tail the live cursor was parked at: records
\* between the two are still in the publisher's buffer.
ReplayDrained(r) ==
  /\ pc[r] = "replay"
  /\ cursor[r] >= goal[r]
  /\ curs' = [curs EXCEPT ![idx[r]] = cursor[r]]
  /\ SubGoto(r, "ready")
  /\ UNCHANGED <<tail, gen, seq, word, logvars, pubvars, cursor, connvars,
                 readvars, got>>

\* A record that cannot be read ends the replay with an error; the cursor
\* slot stays parked.  live is not used again: Unclaimed records the failure.
ReplayFails(r) ==
  /\ pc[r] = "replay"
  /\ live' = [live EXCEPT ![r] = Unclaimed]
  /\ SubGoto(r, "ready")
  /\ UNCHANGED <<shared, pubvars, cursor, idx, goal, sgen, readvars, got>>

-----------------------------------------------------------------------------
(* RingBuffer::try_receive and its slice variant *)

\* The reader's local variables when no call is in progress.
ResetReader(r) ==
  /\ eff' = [eff EXCEPT ![r] = 0]
  /\ tries' = [tries EXCEPT ![r] = 0]
  /\ rdone' = [rdone EXCEPT ![r] = {}]
  /\ buf' = [buf EXCEPT ![r] = NoBuf]
  /\ after' = [after EXCEPT ![r] = Clean(0)]

\* With cursor >= tail the call returns None and changes nothing.
BeginReceive(r) ==
  /\ pc[r] = "ready"
  /\ cursor[r] < tail
  /\ SubGoto(r, "load")
  /\ eff' = [eff EXCEPT ![r] = cursor[r]]
  /\ UNCHANGED <<shared, pubvars, cursor, connvars, tries, rdone, buf, after,
                 got>>

ReturnNone(r) ==
  /\ SubGoto(r, "ready")
  /\ ResetReader(r)
  /\ UNCHANGED <<shared, pubvars, cursor, connvars, got>>

\* `continue`: the next iteration at position e, or None after the last one.
Retry(r, e) ==
  IF tries[r] + 1 = MaxRetries THEN ReturnNone(r)
  ELSE /\ SubGoto(r, "load")
       /\ eff' = [eff EXCEPT ![r] = e]
       /\ tries' = [tries EXCEPT ![r] = @ + 1]
       /\ rdone' = [rdone EXCEPT ![r] = {}]
       /\ buf' = [buf EXCEPT ![r] = NoBuf]
       /\ after' = [after EXCEPT ![r] = Clean(0)]
       /\ UNCHANGED <<shared, pubvars, cursor, connvars, got>>

\* The load of seq_before and the branches on it.
LoadSeq(r) ==
  LET s == seq[Slot(eff[r])] IN
  /\ pc[r] = "load"
  /\ \/ s.w /\ Retry(r, eff[r])
     \/ ~s.w /\ s.n > eff[r] /\ Retry(r, s.n)
     \/ ~s.w /\ s.n < eff[r] /\ ReturnNone(r)
     \/ /\ s = Clean(eff[r])
        /\ SubGoto(r, "copy")
        /\ UNCHANGED <<shared, pubvars, cursor, connvars, readvars, got>>

\* Load k <= Words copies the k-th word, load Words + 1 is seq_after.  An
\* Acquire load does not hold back the plain loads before it.
LoadSlot(r, k) ==
  /\ pc[r] = "copy"
  /\ k \notin rdone[r]
  /\ TSO => \A j \in 1..(Words + 1) : j < k => j \in rdone[r]
  /\ rdone' = [rdone EXCEPT ![r] = @ \cup {k}]
  /\ IF k <= Words
       THEN buf' = [buf EXCEPT ![r][k] = word[Slot(eff[r])][k]] /\ after' = after
       ELSE buf' = buf /\ after' = [after EXCEPT ![r] = seq[Slot(eff[r])]]
  /\ UNCHANGED <<shared, pubvars, pc, cursor, connvars, eff, tries, got>>

CopyDone(r) == pc[r] = "copy" /\ rdone[r] = 1..(Words + 1)

\* seq_after differs: retry, at the newer message if there is one.
Overwritten(r) ==
  /\ CopyDone(r)
  /\ after[r] # Clean(eff[r])
  /\ Retry(r, Greater(eff[r], after[r].n))

\* Mutant of StoreCursor: the position stays on the message just taken.
StoreCursorStays(r) ==
  /\ curs' = [curs EXCEPT ![idx[r]] = eff[r]]
  /\ cursor' = [cursor EXCEPT ![r] = eff[r]]
  /\ SubGoto(r, "ready")
  /\ ResetReader(r)
  /\ UNCHANGED <<tail, gen, seq, word, logvars, pubvars, connvars>>

StoreCursor(r) ==
  /\ curs' = [curs EXCEPT ![idx[r]] = eff[r] + 1]
  /\ cursor' = [cursor EXCEPT ![r] = eff[r] + 1]
  /\ SubGoto(r, "ready")
  /\ ResetReader(r)
  /\ UNCHANGED <<tail, gen, seq, word, logvars, pubvars, connvars>>

\* Mutant of Deliver: seq_after is not compared.
DeliverUnchecked(r) ==
  /\ CopyDone(r)
  /\ StoreCursor(r)
  /\ got' = [got EXCEPT ![r] =
               [seq |-> eff[r], from |-> cursor[r], words |-> buf[r]]]

Deliver(r) ==
  /\ CopyDone(r)
  /\ after[r] = Clean(eff[r])
  /\ StoreCursor(r)
  /\ got' = [got EXCEPT ![r] =
               [seq |-> eff[r], from |-> cursor[r], words |-> buf[r]]]

\* try_receive_into_slice with a buffer shorter than the length just read:
\* the cursor moves on, nothing is handed out, and seq is not read again.
RejectOversize(r) ==
  /\ pc[r] = "copy"
  /\ rdone[r] = {1}
  /\ StoreCursor(r)
  /\ got' = got

\* Drop; the caller is in no other method of the subscriber.
Drop(r) == pc[r] \in {"ready", "replay"} /\ Release(r)

\* The process dies without Drop: its cursor slot stays claimed.
Killed(r) ==
  /\ SubKill
  /\ pc[r] \notin {"off", "claim", "dead"}
  /\ SubGoto(r, "dead")
  /\ ResetReader(r)
  /\ UNCHANGED <<shared, pubvars, cursor, connvars, got>>

-----------------------------------------------------------------------------
PublisherStep ==
  \/ Publish \/ ScanCursor \/ Reject \/ Admit \/ Append
  \/ \E k \in 0..Words : StoreSlot(k)
  \/ Commit \/ BumpTail \/ FlushLog

RestartStep ==
  PublisherDrops \/ PublisherKilled \/ ReuseRing \/ ResetTail \/ AlignTail

ConnectStep(r) ==
  \/ Connect(r) \/ ClaimCursor(r) \/ Handshake(r) \/ HandshakeFails(r)
  \/ \E s \in Starts : Resync(r, s) \/ CursorTooOld(r, s)
  \/ SetCursor(r) \/ ReadGeneration(r)

ReceiveStep(r) ==
  \/ ReplayRecord(r) \/ ReplayDrained(r)
  \/ BeginReceive(r) \/ LoadSeq(r)
  \/ \E k \in 1..(Words + 1) : LoadSlot(r, k)
  \/ Overwritten(r) \/ Deliver(r)

Next ==
  \/ PublisherStep
  \/ RestartStep
  \/ \E r \in Subs : \/ ConnectStep(r) \/ ReceiveStep(r)
                     \/ ReplayFails(r) \/ RejectOversize(r)
                     \/ Drop(r) \/ Killed(r)

Spec == Init /\ [][Next]_vars

-----------------------------------------------------------------------------
(* Properties *)

Message == [gen : Nat, n : Nat]
Stamp   == [n : Nat, w : BOOLEAN]

SubPC == {"off", "claim", "handshake", "resync", "seat", "readgen", "replay",
          "ready", "load", "copy", "dead"}
PubPC == Down \cup {"idle", "precheck", "append", "scan", "write", "bump"}

\* Every variable of the mapping and of the processes has its type.
TypeOK ==
  /\ tail \in Nat /\ gen \in Nat /\ wal \in Nat
  /\ filed \in Nat /\ reused \in BOOLEAN
  /\ curs \in [SubIdx -> Nat]
  /\ seq \in [SlotIdx -> Stamp]
  /\ word \in [SlotIdx -> [WordIdx -> Message]]
  /\ ppc \in PubPC /\ pi \in Nat /\ pmin \in Nat /\ pdone \subseteq 0..Words
  /\ pc \in [Subs -> SubPC]
  /\ idx \in [Subs -> SubIdx]
  /\ cursor \in [Subs -> Nat]
  /\ live \in [Subs -> Nat]
  /\ goal \in [Subs -> Nat]
  /\ sgen \in [Subs -> Nat]
  /\ eff \in [Subs -> Nat]
  /\ tries \in [Subs -> Nat]
  /\ rdone \in [Subs -> SUBSET (1..(Words + 1))]
  /\ buf \in [Subs -> [WordIdx -> Message]]
  /\ after \in [Subs -> Stamp]
  /\ got \in [Subs -> [seq : Int, from : Int, words : [WordIdx -> Message]]]

Delivered(r) == got[r].seq >= 0

\* The words w are those that one write stored for message n.
Whole(w, n) == \E g \in 1..gen : \A k \in WordIdx : w[k] = Msg(g, n)

\* The zero bytes of a slot never written carry the stamp of message 0.  They
\* are read as that message when its publisher was killed between log and
\* ring and the next one started its tail beyond it.
BlankFirst(w, n) == gen > 1 /\ n = 0 /\ w = NoBuf

\* The seqlock: whatever the publisher overwrites while try_receive copies
\* the slot, the words handed to the caller were all stored by one write,
\* the write of the very message number the cursor moves past.  No look at
\* the stamps helps once a publisher has given out numbers again.
NoTornDelivery ==
  ~reused => \A r \in Subs : Delivered(r) =>
    \/ Whole(got[r].words, got[r].seq)
    \/ BlankFirst(got[r].words, got[r].seq)

\* Backpressure policy Error loses nothing: while the first publisher lives,
\* try_publish never admits a message that laps an attached subscriber, so
\* every message handed out is the one right at the subscriber's cursor.
NoLossUnderError ==
  Policy = "Error" /\ gen = 1 /\ ppc # "down" =>
    \A r \in Subs : Delivered(r) => got[r].seq = got[r].from

\* The comment in try_receive on a slot older than the cursor: "Should be
\* ruled out by the tail check above".  A reader past the tail check finds
\* its slot written for its position or a later one, never older or blank.
UnwrittenRuledOut ==
  \A r \in Subs : pc[r] = "load" =>
    LET i == Slot(eff[r]) IN
    seq[i].w \/ (seq[i].n >= eff[r] /\ word[i][1] # Zero)

\* A cursor slot has one tenant, whatever the races of claim_cursor and
\* release_cursor, and while its tenant reads the ring the slot shows the
\* publisher exactly the position the tenant reads at (a replay that failed
\* leaves it parked).
CursorSlotsOwned ==
  \A r \in Subs : pc[r] \notin {"off", "claim"} =>
    /\ curs[idx[r]] # Unclaimed
    /\ \A q \in Subs \ {r} : pc[q] \notin {"off", "claim"} => idx[q] # idx[r]
    /\ pc[r] \in {"ready", "load", "copy"} /\ live[r] # Unclaimed
         => curs[idx[r]] = cursor[r]

\* try_publish "Returns `false` if the ring is full (slowest subscriber is
\* too far behind)": publish reports Full only on a cursor that lies at
\* least a whole ring behind the tail.
FullOnlyBehind == ScanDone /\ IsFull => pmin + Capacity <= tail

\* It does so across restarts: never because a publisher that came back set
\* the tail below the cursors of those who stayed, which makes the wrapping
\* difference huge.
FullMeansBehind == ~reused => FullOnlyBehind

\* Publisher::create: the tail follows the log "so subscribers see a monotonic
\* cursor stream across publisher restarts": no number is given out twice.
MonotonicCursors == ~reused

\* "Guards against torn reads", without the two exceptions of NoTornDelivery.
WholeMessages ==
  \A r \in Subs : Delivered(r) => Whole(got[r].words, got[r].seq)

\* subscribe_with_history: the seqlock "will skip forward to the oldest
\* available slot".  Every message stepped over had been overwritten.
SkipsToOldest ==
  \A r \in Subs : Delivered(r) =>
    \A m \in (got[r].from)..(got[r].seq - 1) : seq[Slot(m)].n > m

\* Subscriber::generation: a subscriber of a dead publisher ends with
\* UnexpectedEof "instead of reading from a logically-reset ring": all it is
\* handed was published in the generation it connected to.
SameGeneration ==
  \A r \in Subs : Delivered(r) => got[r].words[1].gen = sgen[r]

\* Publisher::publish: "the on-disk log never contains a record that no
\* subscriber will ever observe via the live ring": between calls the log
\* is not ahead of the ring.
LogMatchesRing == ppc = "idle" => wal <= tail

\* Crash safety, mechanism 5: "an orphaned cursor is force-released the next
\* time the publisher restarts".
OrphansReleased ==
  [][(ppc \in Down) /\ ppc' = "idle" =>
       \A r \in Subs : pc[r] = "dead" => curs'[idx[r]] = Unclaimed]_vars

\* The messages published so far: those in the log's files and those whose
\* slot has been committed.
Published == Greater(filed, IF ppc = "bump" THEN tail + 1 ELSE tail)

Attached(r) == pc[r] \in {"replay", "ready", "load", "copy"}

\* What a subscriber was handed, as a message number; a torn one has none.
Handed(r) ==
  IF ~Delivered(r) THEN -1
  ELSE IF Whole(got[r].words, got[r].seq) \/ BlankFirst(got[r].words, got[r].seq)
         THEN got[r].seq ELSE -2

Log == INSTANCE BroadcastLog WITH
  Readers <- Subs,
  Lossy <- Policy = "DropOldest",
  count <- Published,
  pos <- [r \in Subs |-> IF Attached(r) THEN cursor[r] ELSE -1],
  handed <- [r \in Subs |-> Handed(r)]

\* The ring, its seqlock, the cursor table, the restarts on a log and the
\* replays together are a broadcast log: whole messages, in order, none
\* twice, and none left out unless the policy is DropOldest and a full ring
\* of newer ones was published.  It is one until a death sends the numbering
\* back: from then on one number may be two messages.
ImplementsLog == Log!Init /\ [][~reused' => Log!Next]_(Log!vars)

\* Processes keep running: the publisher finishes the call it is in, and a
\* subscriber finishes its connect and keeps calling receive.
Fairness ==
  /\ WF_vars(ScanCursor \/ Reject \/ Admit \/ Append \/ Commit \/ BumpTail
             \/ \E k \in 0..Words : StoreSlot(k))
  /\ \A r \in Subs : WF_vars(ReceiveStep(r))

FairSpec == Spec /\ Fairness

\* Once the publisher has stopped calling publish, every subscriber that
\* stays gets to the tail: no call leaves a slot marked, no retry or give-up
\* strands a reader behind it, and a replay hands over to the ring.  While it
\* publishes nothing is promised: one that overwrites the reader's slot on
\* every retry keeps try_receive from ever returning a message.
CaughtUpWhenIdle ==
  <>[](ppc = "idle" /\ gen = 1) =>
    \A r \in Subs : []<>(~Attached(r) \/ cursor[r] >= tail)

=============================================================================
