-------------------------------- MODULE Wal --------------------------------
(***************************************************************************)
(* The write-ahead log of one topic: crates/mmbus/src/wal/wal.rs with its  *)
(* segment_writer.rs, segment_reader.rs and reader.rs (the default         *)
(* backend).  The publisher process appends, rotates, deletes old segments *)
(* and flushes; a subscriber process replays the same files.               *)
(*                                                                         *)
(* A record passes through three places: the BufWriter of the active       *)
(* segment (lost when the process dies), the file as the kernel shows it   *)
(* to readers (lost when the machine loses power) and the synced part of   *)
(* the file.  Every change of the directory or of a file is a step of its  *)
(* own, so that the process may die, and a reader look, between any two.   *)
(*                                                                         *)
(* A payload is its size and the opening (inc) of the log that wrote it;   *)
(* bytes with a wrong length or CRC are the value Torn.                    *)
(***************************************************************************)
EXTENDS Integers, SequencesExt

CONSTANTS
  Policies,        \* values of WalConfig::fsync_policy, one per opening
  HeaderLen,       \* SEGMENT_HEADER_LEN
  Sizes,           \* encoded lengths of the records that are published
  SegmentSizeMax,  \* WalConfig::segment_size_max
  RetentionBytes,  \* WalConfig::retention_bytes
  MayKill,         \* may the publisher process die at any point?
  MayLosePower,    \* may the machine?
  MayReplay,       \* does a subscriber replay the log?
  IoErrors,        \* what the file system may refuse: to create, to sync
  MaxCursor,       \* bound: records appended
  MaxOpens         \* bound: openings of the log

ASSUME ConstantsOK ==
  /\ Policies \subseteq {"None", "Batched", "Each"}
  /\ HeaderLen \in Nat \ {0} /\ Sizes \subseteq Nat \ {0}
  /\ SegmentSizeMax \in Nat /\ RetentionBytes \in Nat
  /\ MayKill \in BOOLEAN /\ MayLosePower \in BOOLEAN
  /\ MayReplay \in BOOLEAN /\ IoErrors \subseteq {"create", "sync"}
  /\ MaxCursor \in Nat /\ MaxOpens \in Nat

VARIABLES
  disk,      \* the directory: first cursor -> segment file
  \* Inner: index, sizes of retired segments, byte counts, active writer
  index, sizes, active, retained, writer,
  pending, durable, poisoned,
  policy,    \* WalConfig::fsync_policy of this opening
  tail,      \* the ring's tail, which publish passes as the cursor
  wpc, call, \* where the publisher is; its record's size, has it rotated?
  fpc, fsave,\* the flusher thread, the file and cursor it took
  inc,       \* openings of the log so far
  promised,  \* history: records a sync has reported durable
  broken,    \* history: has a power loss or an append whose sync failed
             \* left the log with a gap or a cursor to give out again?
  \* WalReplayer: segments to open, rest of the open one, first cursor
  rpc, rtodo, rbuf, rfloor,
  rlast,     \* history: the last cursor replayed
  rgoal      \* history: durable_cursor when the replay began

inner   == <<index, sizes, active, retained, writer>>
marks   == <<pending, durable, poisoned, policy, tail>>
flusher == <<fpc, fsave>>
reader  == <<rpc, rtodo, rbuf, rfloor, rlast, rgoal>>
vars    == <<disk, inner, marks, wpc, call, flusher, inc, promised, broken, reader>>

-----------------------------------------------------------------------------
(* Segments *)

Torn == [cursor |-> -1, inc |-> -1, size |-> 1]

EmptyFile == [header |-> FALSE, recs |-> <<>>, synced |-> 0, failed |-> FALSE]
NoWriter  == [first |-> -1, next |-> -1, buf |-> <<>>]
NoSave    == [file |-> -1, pending |-> -1]
OpenCall  == [size |-> 0, rotated |-> FALSE]

\* The records read_one_record accepts: all before the first torn one.
Intact(s) ==
  LET bad == {i \in DOMAIN s : s[i] = Torn} IN
  IF bad = {} THEN s ELSE SubSeq(s, 1, Min(bad) - 1)

RecordBytes(s) == FoldLeft(LAMBDA sum, r : sum + r.size, 0, s)
FileBytes(f) == HeaderLen + RecordBytes(f.recs)
Without(f, k) == [x \in DOMAIN f \ {k} |-> f[x]]

\* BufWriter::flush: the buffered records reach the file.
Flushed(d, w) == [d EXCEPT ![w.first].recs = @ \o w.buf]
\* sync_data: what the file holds reaches the device.  After a failure the
\* kernel has dropped the pages, and a later sync succeeds without them.
SyncedFile(d, f) ==
  IF d[f].failed THEN d ELSE [d EXCEPT ![f].synced = Len(d[f].recs)]

\* What a sync that stores d into durable_cursor promises: the records below
\* d appended since the log was opened.  (A segment whose sync has failed is
\* left out; the code does not remember that it did.)
Promise(d) ==
  LET sound == {f \in DOMAIN disk : ~disk[f].failed}
      logged == (UNION {ToSet(disk[f].recs) : f \in sound})
                \cup (IF writer.first \in sound THEN ToSet(writer.buf) ELSE {})
  IN promised \cup {r \in logged : r.inc = inc /\ r.cursor < d}

Stopped == {"down", "lost"}
Running == wpc \notin Stopped

Init ==
  /\ disk = <<>>
  /\ index = {} /\ sizes = <<>> /\ active = 0 /\ retained = 0
  /\ writer = NoWriter
  /\ pending = 0 /\ durable = 0 /\ poisoned = FALSE /\ policy = "None"
  /\ tail = 0
  /\ wpc = "down" /\ call = OpenCall
  /\ fpc = "idle" /\ fsave = NoSave
  /\ inc = 0 /\ promised = {} /\ broken = FALSE
  /\ rpc = "idle" /\ rtodo = {} /\ rbuf = <<>> /\ rfloor = 0
  /\ rlast = -1 /\ rgoal = 0

\* The Wal is no more; only the files are left.
ProcessGone ==
  /\ index' = {} /\ sizes' = <<>> /\ active' = 0 /\ retained' = 0
  /\ writer' = NoWriter
  /\ pending' = 0 /\ durable' = 0 /\ poisoned' = FALSE
  /\ policy' = "None" /\ tail' = 0
  /\ call' = OpenCall
  /\ fpc' = "idle" /\ fsave' = NoSave
  /\ UNCHANGED inc

NoReplay == rpc' = "idle" /\ rtodo' = {} /\ rbuf' = <<>>
            /\ rfloor' = 0 /\ rlast' = -1 /\ rgoal' = 0

-----------------------------------------------------------------------------
(* Wal::open *)

\* recover_truncate: cut the file at the first bad record and sync it.
RecoverTruncate(f) ==
  IF Torn \in ToSet(f.recs)
    THEN [f EXCEPT !.recs = Intact(@), !.synced = Len(Intact(f.recs))]
    ELSE f

\* Mutant of NextCursor: the cursor of the last record, not one past it.
LastCursor(first, recs) == IF recs = <<>> THEN first ELSE Last(recs).cursor

\* One past the last record of the newest segment, its name when it is empty.
NextCursor(first, recs) == IF recs = <<>> THEN first ELSE Last(recs).cursor + 1

\* Recover every segment and rebuild the index; go on to a new segment unless
\* there is none yet or the newest one is empty.
Open ==
  /\ wpc \in Stopped /\ inc < MaxOpens
  /\ \A f \in DOMAIN disk : disk[f].header
  /\ disk' = [f \in DOMAIN disk |-> RecoverTruncate(disk[f])]
  /\ index' = DOMAIN disk
  /\ sizes' = [f \in DOMAIN disk |-> FileBytes(disk'[f])]
  /\ retained' = SumFunction(sizes')
  /\ active' = 0 /\ writer' = NoWriter
  /\ LET first == Max(index')
         next  == IF index' = {} THEN 0
                                 ELSE NextCursor(first, disk'[first].recs)
     IN /\ pending' = next /\ durable' = next /\ tail' = next
        /\ wpc' = IF index' = {} \/ next = first THEN "idle" ELSE "create"
  /\ poisoned' = FALSE /\ policy' \in Policies /\ call' = OpenCall
  /\ fpc' = "idle" /\ fsave' = NoSave
  /\ inc' = inc + 1
  /\ UNCHANGED <<promised, broken, reader>>

\* A segment without its header fails the open; the segments that were
\* scanned before it have been recovered.
OpenFails ==
  /\ wpc \in Stopped /\ inc < MaxOpens
  /\ \E bad \in DOMAIN disk : ~disk[bad].header
  /\ \E done \in SUBSET {f \in DOMAIN disk : disk[f].header} :
       disk' = [f \in DOMAIN disk |->
                  IF f \in done THEN RecoverTruncate(disk[f]) ELSE disk[f]]
  /\ UNCHANGED <<inner, marks, wpc, call, flusher, inc, promised, broken, reader>>

-----------------------------------------------------------------------------
(* Wal::append, with the mutex held from AppendCall to AppendDone *)

Fits == active + call.size <= SegmentSizeMax

\* A poisoned log refuses the call.
AppendCall ==
  /\ wpc = "idle" /\ ~poisoned /\ tail < MaxCursor
  /\ \E n \in Sizes : call' = [size |-> n, rotated |-> FALSE]
  /\ wpc' = IF writer = NoWriter THEN "create" ELSE "fit"
  /\ UNCHANGED <<disk, inner, marks, flusher, inc, promised, broken, reader>>

\* Rotate before the record that would exceed segment_size_max.
CheckSize ==
  /\ wpc = "fit"
  /\ wpc' = IF Fits THEN "append" ELSE "rotate"
  /\ UNCHANGED <<disk, inner, marks, call, flusher, inc, promised, broken, reader>>

\* rotate_locked, first half: close the segment and count it as retired.
CloseSegment(d) ==
  /\ wpc = "rotate"
  /\ disk' = SyncedFile(d, writer.first)
  /\ writer' = NoWriter
  /\ wpc' = "create" /\ call' = [call EXCEPT !.rotated = TRUE]
  /\ UNCHANGED <<index, active, marks, flusher, inc, promised, broken, reader>>

CountRetired ==
  /\ sizes' = [f \in DOMAIN sizes \cup {writer.first} |->
                 IF f = writer.first THEN active ELSE sizes[f]]
  /\ retained' = retained + active

\* Mutants of Rotate: close does not flush the BufWriter; the closed segment
\* is not counted.
RotateUnflushed == CloseSegment(disk) /\ CountRetired
RotateUncounted ==
  CloseSegment(Flushed(disk, writer)) /\ UNCHANGED <<sizes, retained>>

Rotate == CloseSegment(Flushed(disk, writer)) /\ CountRetired

Collides == tail \in DOMAIN disk

\* SegmentWriter::create: create_new ...
CreateFile ==
  /\ wpc = "create" /\ ~Collides
  /\ disk' = [f \in DOMAIN disk \cup {tail} |->
                IF f = tail THEN EmptyFile ELSE disk[f]]
  /\ wpc' = "header"
  /\ UNCHANGED <<inner, marks, call, flusher, inc, promised, broken, reader>>

\* ... which fails when the name is taken, or when the file system says so,
\* then leaving the file behind, with or without its header.  Outside a call
\* of append it was Wal::open that failed.
CreateFails ==
  /\ \/ wpc = "create" /\ (Collides \/ "create" \in IoErrors) /\ disk' = disk
     \/ /\ wpc = "header" /\ "create" \in IoErrors
        /\ \E written \in BOOLEAN :
             disk' = [disk EXCEPT ![tail].header = written]
  /\ IF call = OpenCall
       THEN wpc' = "down" /\ ProcessGone
       ELSE wpc' = "idle" /\ UNCHANGED <<inner, marks, call, flusher, inc>>
  /\ UNCHANGED <<promised, broken, reader>>

\* ... and the header, written and synced; the segment enters the index.  The
\* first segment of a call has its size checked, one made to rotate has not.
WriteHeader ==
  /\ wpc = "header"
  /\ disk' = [disk EXCEPT ![tail].header = TRUE]
  /\ index' = index \cup {tail}
  /\ active' = HeaderLen
  /\ writer' = [first |-> tail, next |-> tail, buf |-> <<>>]
  /\ wpc' = CASE call = OpenCall -> "idle"
              [] call.rotated -> "append"
              [] OTHER -> "fit"
  /\ UNCHANGED <<sizes, retained, marks, call, flusher, inc, promised, broken, reader>>

\* SegmentWriter::append refuses any other cursor than its next one.
CursorRegressed ==
  /\ wpc = "append" /\ tail # writer.next
  /\ wpc' = "idle"
  /\ UNCHANGED <<disk, inner, marks, call, flusher, inc, promised, broken, reader>>

\* SegmentWriter::append.  BufWriter decides by its capacity whether the
\* record only joins the buffer, pushes the buffered ones out, or goes out
\* behind them.
WriteRecord ==
  /\ wpc = "append" /\ tail = writer.next
  /\ LET rec == [cursor |-> tail, inc |-> inc, size |-> call.size]
         all == Append(writer.buf, rec)
     IN \E out \in {0, Len(writer.buf), Len(all)} :
          /\ disk' = [disk EXCEPT ![writer.first].recs =
                         @ \o SubSeq(all, 1, out)]
          /\ writer' = [writer EXCEPT !.next = tail + 1,
                                      !.buf = SubSeq(all, out + 1, Len(all))]
  /\ active' = active + call.size
  /\ pending' = tail + 1
  /\ wpc' = IF policy = "Each" THEN "sync" ELSE "retain"
  /\ UNCHANGED <<index, sizes, retained, durable, poisoned, policy, tail, call,
                 flusher, inc, promised, broken, reader>>

\* SegmentWriter::fsync and the store of durable_cursor that follows it.
Fsync(d) ==
  /\ disk' = SyncedFile(d, writer.first)
  /\ durable' = writer.next
  /\ promised' = Promise(writer.next)

\* Mutant of SyncEach: sync_data without the flush before it.
SyncEachUnflushed ==
  /\ wpc = "sync"
  /\ Fsync(disk)
  /\ wpc' = "retain"
  /\ UNCHANGED <<broken, inner, pending, poisoned, policy, tail, call, flusher, inc,
                 reader>>

\* FsyncPolicy::Each: before append returns.
SyncEach ==
  /\ wpc = "sync"
  /\ Fsync(Flushed(disk, writer))
  /\ writer' = [writer EXCEPT !.buf = <<>>]
  /\ wpc' = "retain"
  /\ UNCHANGED <<broken, index, sizes, active, retained, pending, poisoned, policy,
                 tail, call, flusher, inc, reader>>

\* A sync that fails ends the call with an error; the record stays where it
\* is, unless it was the close of a rotation, which loses the writer and
\* perhaps what it had buffered.
SyncEachFails ==
  /\ "sync" \in IoErrors /\ wpc = "sync"
  /\ disk' = [Flushed(disk, writer) EXCEPT ![writer.first].failed = TRUE]
  /\ writer' = [writer EXCEPT !.buf = <<>>]
  /\ wpc' = "idle" /\ broken' = TRUE
  /\ UNCHANGED <<index, sizes, active, retained, marks, call, flusher, inc,
                 promised, reader>>

CloseFails ==
  /\ "sync" \in IoErrors /\ wpc = "rotate"
  /\ \E d \in {disk, Flushed(disk, writer)} :
       disk' = [d EXCEPT ![writer.first].failed = TRUE]
  /\ writer' = NoWriter
  /\ wpc' = "idle" /\ broken' = TRUE
  /\ UNCHANGED <<index, sizes, active, retained, marks, call, flusher, inc,
                 promised, reader>>

OverCap == retained + active > RetentionBytes
Retirable == index \ {writer.first}

\* enforce_retention_locked: delete the oldest segment but the active one.
DeleteOldest ==
  /\ wpc = "retain" /\ OverCap /\ Retirable # {}
  /\ LET k == Min(Retirable) IN
       /\ disk' = Without(disk, k)
       /\ index' = index \ {k}
       /\ sizes' = Without(sizes, k)
       /\ retained' = IF k \in DOMAIN sizes THEN Max({0, retained - sizes[k]})
                                            ELSE retained
       /\ promised' = promised \ ToSet(disk[k].recs)
  /\ UNCHANGED <<broken, active, writer, marks, wpc, call, flusher, inc, reader>>

\* append returns Ok, and publish writes the ring.
AppendDone ==
  /\ wpc = "retain" /\ ~(OverCap /\ Retirable # {})
  /\ wpc' = "idle" /\ tail' = tail + 1
  /\ UNCHANGED <<disk, inner, pending, durable, poisoned, policy, call,
                 flusher, inc, promised, broken, reader>>

-----------------------------------------------------------------------------
(* The flusher thread of FsyncPolicy::Batched *)

\* flush_for_external_fsync, under the mutex.
FlushForExternalFsync ==
  /\ policy = "Batched" /\ wpc = "idle" /\ fpc = "idle"
  /\ writer # NoWriter
  /\ disk' = Flushed(disk, writer)
  /\ writer' = [writer EXCEPT !.buf = <<>>]
  /\ fsave' = [file |-> writer.first, pending |-> writer.next]
  /\ fpc' = "sync"
  /\ UNCHANGED <<index, sizes, active, retained, marks, wpc, call, inc,
                 promised, broken, reader>>

\* sync_data on the cloned descriptor, without the mutex: the segment may
\* have been closed or deleted since.
SyncData ==
  /\ fpc = "sync"
  /\ disk' = IF fsave.file \in DOMAIN disk THEN SyncedFile(disk, fsave.file)
                                           ELSE disk
  /\ durable' = fsave.pending
  /\ promised' = Promise(fsave.pending)
  /\ fpc' = "idle" /\ fsave' = NoSave
  /\ UNCHANGED <<broken, inner, pending, poisoned, policy, tail, wpc, call, inc, reader>>

SyncFails ==
  /\ "sync" \in IoErrors /\ fpc = "sync"
  /\ disk' = IF fsave.file \in DOMAIN disk
               THEN [disk EXCEPT ![fsave.file].failed = TRUE] ELSE disk
  /\ poisoned' = TRUE
  /\ fpc' = "stopped" /\ fsave' = NoSave
  /\ UNCHANGED <<inner, pending, durable, policy, tail, wpc, call, inc,
                 promised, broken, reader>>

-----------------------------------------------------------------------------
(* The end of the publisher *)

\* Drop: join the flusher, then a last fsync, whose error is ignored.
Close ==
  /\ wpc = "idle" /\ fpc # "sync"
  /\ wpc' = "down"
  /\ ProcessGone
  /\ IF writer = NoWriter
       THEN UNCHANGED <<disk, promised>>
       ELSE \/ /\ disk' = SyncedFile(Flushed(disk, writer), writer.first)
               /\ promised' = Promise(writer.next)
            \/ /\ "sync" \in IoErrors
               /\ disk' = [Flushed(disk, writer) EXCEPT
                             ![writer.first].failed = TRUE]
               /\ UNCHANGED promised
  /\ UNCHANGED <<broken, reader>>

\* The process dies.  A flush under way may have got some of the buffered
\* records into the file, and a part of the next one.
Kill ==
  /\ MayKill /\ Running
  /\ wpc' = "down"
  /\ ProcessGone
  /\ IF writer = NoWriter
       THEN UNCHANGED disk
       ELSE \E n \in 0..Len(writer.buf), rest \in {<<>>, <<Torn>>} :
              /\ n = Len(writer.buf) => rest = <<>>
              /\ disk' = [disk EXCEPT ![writer.first].recs =
                            @ \o SubSeq(writer.buf, 1, n) \o rest]
  /\ UNCHANGED <<promised, broken, reader>>

Unsynced(f) == ToSet(SubSeq(disk[f].recs, disk[f].synced + 1, Len(disk[f].recs)))

\* What is left of a file: all that was synced, and of the rest any pages, so
\* that a record may be missing, cut, or followed by an intact one.
Remains(f, len, kept) ==
  [f EXCEPT !.recs =
     [i \in 1..len |-> IF i <= f.synced \/ f.recs[i] \in kept THEN f.recs[i]
                                                             ELSE Torn]]

\* The machine loses power: the publisher has been killed (Kill), and now the
\* page cache goes.  A replay that was under way has been given up before; it
\* only reads, so the files are the same with and without it.
PowerLoss ==
  /\ MayLosePower /\ wpc = "down" /\ rpc = "idle"
  /\ wpc' = "lost" /\ broken' = TRUE
  /\ LET dirty == {f \in DOMAIN disk : Unsynced(f) # {}} IN
       \E kept \in SUBSET UNION {Unsynced(f) : f \in dirty},
          len \in {n \in [dirty -> 0..MaxCursor] : \A f \in dirty :
                     n[f] \in disk[f].synced..Len(disk[f].recs)} :
         disk' = [f \in DOMAIN disk |->
                    IF f \in dirty THEN Remains(disk[f], len[f], kept)
                                   ELSE disk[f]]
  /\ UNCHANGED <<inner, marks, call, flusher, inc, promised, reader>>

-----------------------------------------------------------------------------
(* WalReader::read_from and WalReplayer, in a subscriber's process, on a   *)
(* log that is not broken.                                                 *)

\* Mutant of SegmentsFrom: the first segment that starts at or after c.
SegmentsAfter(c) == {f \in DOMAIN disk : f >= c}

\* The segment with the largest first cursor <= c, and all after it.
SegmentsFrom(c) ==
  {f \in DOMAIN disk : f >= Max({g \in DOMAIN disk : g <= c})}

\* Mutant of ReadFrom: the listing leaves out the segment being written.
ReadRetired(c) ==
  /\ MayReplay /\ rpc = "idle" /\ ~broken
  /\ DOMAIN disk # {} /\ c >= Min(DOMAIN disk)
  /\ rtodo' = SegmentsFrom(c) \ {Max(DOMAIN disk)}
  /\ rfloor' = c /\ rlast' = c - 1
  /\ rgoal' = IF Running THEN durable ELSE 0
  /\ rpc' = "next"
  /\ UNCHANGED <<disk, inner, marks, wpc, call, flusher, inc, promised, broken, rbuf>>

\* A cursor below the oldest segment is refused (CursorTooOld).
ReadFrom(c) ==
  /\ MayReplay /\ rpc = "idle" /\ ~broken
  /\ DOMAIN disk # {} /\ c >= Min(DOMAIN disk)
  /\ rtodo' = SegmentsFrom(c)
  /\ rfloor' = c /\ rlast' = c - 1
  /\ rgoal' = IF Running THEN durable ELSE 0
  /\ rpc' = "next"
  /\ UNCHANGED <<disk, inner, marks, wpc, call, flusher, inc, promised, broken, rbuf>>

\* SegmentReader::open: the length of the file as it is now.  A segment that
\* retention has deleted, or that has no header yet, ends the replay.
OpenSegment ==
  /\ rpc = "next" /\ rtodo # {}
  /\ LET f == Min(rtodo) IN
       /\ rtodo' = rtodo \ {f}
       /\ IF f \in DOMAIN disk /\ disk[f].header
            THEN rpc' = "read" /\ rbuf' = disk[f].recs
            ELSE rpc' = "error" /\ UNCHANGED rbuf
  /\ UNCHANGED <<disk, inner, marks, wpc, call, flusher, inc, promised, broken,
                 rfloor, rlast, rgoal>>

\* next: records before the requested cursor are passed over.
ReadRecord ==
  /\ rpc = "read" /\ rbuf # <<>> /\ Head(rbuf) # Torn
  /\ rbuf' = Tail(rbuf)
  /\ rlast' = IF Head(rbuf).cursor < rfloor THEN rlast ELSE Head(rbuf).cursor
  /\ UNCHANGED <<disk, inner, marks, wpc, call, flusher, inc, promised, broken,
                 rpc, rtodo, rfloor, rgoal>>

\* A short or corrupt record is an error, the end of the file is not.
ReadEnds ==
  /\ \/ rpc = "read" /\ rbuf # <<>> /\ Head(rbuf) = Torn /\ rpc' = "error"
     \/ rpc = "read" /\ rbuf = <<>> /\ rpc' = "next"
     \/ rpc = "next" /\ rtodo = {} /\ rpc' = "drained"
  /\ rbuf' = <<>>
  /\ UNCHANGED <<disk, inner, marks, wpc, call, flusher, inc, promised, broken,
                 rtodo, rfloor, rlast, rgoal>>

\* The subscriber drops its replayer and goes on with the ring.
DropReplayer ==
  /\ rpc \in {"drained", "error"}
  /\ NoReplay
  /\ UNCHANGED <<disk, inner, marks, wpc, call, flusher, inc, promised, broken>>

-----------------------------------------------------------------------------
AppendStep ==
  \/ AppendCall \/ CheckSize \/ Rotate \/ CreateFile \/ CreateFails
  \/ WriteHeader \/ CursorRegressed \/ WriteRecord
  \/ SyncEach \/ SyncEachFails \/ CloseFails \/ DeleteOldest \/ AppendDone

FlusherStep == FlushForExternalFsync \/ SyncData \/ SyncFails

ReaderStep ==
  \/ \E c \in 0..MaxCursor : ReadFrom(c)
  \/ OpenSegment \/ ReadRecord \/ ReadEnds \/ DropReplayer

Next ==
  \/ Open \/ OpenFails \/ AppendStep \/ FlusherStep
  \/ Close \/ Kill \/ PowerLoss
  \/ ReaderStep

Spec == Init /\ [][Next]_vars

-----------------------------------------------------------------------------
(* Properties *)

Safe(r) ==
  \E f \in DOMAIN disk : \E i \in 1..disk[f].synced :
    i <= Len(Intact(disk[f].recs)) /\ disk[f].recs[i] = r

\* FsyncPolicy::Each, "nothing lost since the most recent successful publish",
\* and of Batched what its flusher has reported: a record that a sync has put
\* below durable_cursor stays on the device, in front of every torn record,
\* through kills, power losses and recoveries, until retention deletes it.
SyncedSurvive == \A r \in promised : Safe(r)

\* pending_cursor is "one past the highest cursor ever appended": whatever was
\* cut off the log, a cursor that has been reported durable is not given to
\* another record.
CursorsNotReissued ==
  wpc = "append" /\ tail = writer.next => \A r \in promised : r.cursor < tail

\* Until a power loss or a failed sync of append has broken it, the log is one
\* run of cursors: a segment holds the cursors from its name on and ends where
\* the next one starts, although records are buffered, flushed by another
\* thread, cut off by a kill and left behind by a failed rotation.
LogContiguous ==
  ~broken => \A f \in DOMAIN disk :
    LET recs == Intact(disk[f].recs) IN
    /\ \A i \in DOMAIN recs : recs[i].cursor = f + i - 1
    /\ f # Max(DOMAIN disk) =>
         f + Len(recs) = Min({g \in DOMAIN disk : g > f})

\* A replay hands out consecutive cursors from the requested one on, while
\* the publisher rotates and deletes the segments it is walking.
ReplayNoGap ==
  [][rlast' # rlast /\ rpc = "read" /\ ~broken' => rlast' = rlast + 1]_vars

\* A replay that ends without an error has reached every record that was
\* durable when it began.
ReplayReachesDurable == rpc = "drained" => rlast + 1 >= rgoal

Bytes(f) == FileBytes(disk[f])
            + IF f = writer.first THEN RecordBytes(writer.buf) ELSE 0

\* When append returns, the segments it knows of take no more than
\* retention_bytes, or only the active one is left: the byte counts kept
\* across rotations, failed creates, kills and restarts are those of the files.
\* (A segment whose close has failed is in the index and in no count.)
RetentionHolds ==
  [][wpc = "retain" /\ wpc' = "idle" /\ (\A f \in index : ~disk[f].failed) =>
       \/ SumFunction([f \in index |-> Bytes(f)]) <= RetentionBytes
       \/ index = {writer.first}]_vars

\* SegmentWriter::create: names are deterministic, "so collisions indicate a
\* logic bug".
NoCollision == wpc = "create" => ~Collides

=============================================================================
