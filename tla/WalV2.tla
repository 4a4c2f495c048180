------------------------------- MODULE WalV2 -------------------------------
(***************************************************************************)
(* The memory-mapped log that the feature wal_v2 puts in place of module   *)
(* Wal: crates/mmbus/src/wal/v2 (wal.rs, rotation.rs, active.rs,           *)
(* mmap_segment_writer.rs, mmap_segment_reader.rs, durability.rs and       *)
(* reader.rs).                                                             *)
(*                                                                         *)
(* A segment is mapped by its writer and by the readers, so every store is *)
(* visible at once and survives the process; only a power loss undoes what *)
(* flush_sync has not written.  The three stores that make a record (the   *)
(* compare_exchange on the tail, the length with WRITING_BIT, the clean    *)
(* length behind body and CRC) are steps of their own.  One publisher      *)
(* thread appends, one flusher thread syncs, a subscriber replays.         *)
(*                                                                         *)
(* A payload is its size, and the opening (inc) of the log that wrote it   *)
(* with the fsync policy of that opening.                                  *)
(***************************************************************************)
EXTENDS Integers, SequencesExt

CONSTANTS
  Policies,        \* values of WalConfig::fsync_policy, one per opening
  HeaderLen,       \* SEGMENT_HEADER_LEN
  SkipLen,         \* length of the SKIP_TO_END sentinel
  Sizes,           \* align_record_len of the records that are published
  SegmentSizeMax,  \* WalConfig::segment_size_max
  RetentionBytes,  \* WalConfig::retention_bytes
  MayKill,         \* may the publisher process die at any point?
  MayLosePower,    \* may the machine?
  MayReplay,       \* does a subscriber replay the log?
  IoErrors,        \* what may fail: create, sync, or the ring after an append
  MaxCursor,       \* bound: cursors appended
  MaxOpens         \* bound: openings of the log

ASSUME ConstantsOK ==
  /\ Policies \subseteq {"None", "Batched", "Each"}
  /\ HeaderLen \in Nat \ {0} /\ SkipLen \in Nat \ {0}
  /\ Sizes \subseteq Nat \ {0}
  /\ SegmentSizeMax \in Nat /\ RetentionBytes \in Nat
  /\ MayKill \in BOOLEAN /\ MayLosePower \in BOOLEAN /\ MayReplay \in BOOLEAN
  /\ IoErrors \subseteq {"create", "sync", "ring"}
  /\ MaxCursor \in Nat /\ MaxOpens \in Nat

VARIABLES
  disk,      \* the directory: first cursor -> segment file
  coord,     \* first_cursor slot of active.dat, -1 while its generation is 0
  \* Inner and the atomics beside it
  segments, segmentSizes, retainedBytes, activeBytes,
  writer,    \* first cursor of the segment in the writer slot, -1 if None
  pending, durable, poisoned, policy,
  cursor,    \* the ring's tail, which publish passes to append
  wpc, call, \* where the publisher is; the locals of append
  fpc, fsave,\* the flusher thread and its locals
  inc,       \* openings of the log so far
  promised,  \* history: records that durable_cursor has covered
  lost,      \* history: has the machine lost power?
  refused,   \* history: has a publish failed after its record was logged?
  \* WalReplayer: segments to open, the open one, records read of it
  rpc, rtodo, rseg, rpos, rfloor,
  rmap,      \* the open segment's contents once its file is unlinked
  rlast,     \* history: the last cursor replayed
  rgoal      \* history: pending_cursor when the replay began

inner   == <<segments, segmentSizes, retainedBytes, activeBytes, writer>>
marks   == <<pending, durable, poisoned, policy, cursor>>
flusher == <<fpc, fsave>>
history == <<inc, promised, lost, refused>>
reader  == <<rpc, rtodo, rseg, rpos, rfloor, rmap, rlast, rgoal>>
vars    == <<disk, coord, inner, marks, wpc, call, flusher, history, reader>>

-----------------------------------------------------------------------------
(* Segments *)

NoSegment == [header |-> FALSE, recs |-> <<>>, skip |-> FALSE, synced |-> -1,
              failed |-> FALSE]
\* How `append` was entered: by Wal::open, which only creates a segment.
OpenCall  == [size |-> 0, old |-> -1, w |-> -1, retried |-> FALSE]
NoSave    == [pending |-> -1, w |-> -1]

TailOf(s) == HeaderLen + SumFunction([i \in DOMAIN s.recs |-> s.recs[i].size])
                       + IF s.skip THEN SkipLen ELSE 0

\* The records in front of the first that is not committed.
Committed(s) ==
  LET open == {i \in DOMAIN s.recs : s.recs[i].st # "done"} IN
  IF open = {} THEN s.recs ELSE SubSeq(s.recs, 1, Min(open) - 1)

\* flush_sync: msync(MS_SYNC) and fdatasync of one segment.  Of a record that
\* is being written the store that commits it is still to come.  After a
\* failure the kernel has dropped pages, and a later sync of the segment
\* succeeds without them.
FlushSync(d, f) ==
  IF f \in DOMAIN d /\ ~d[f].failed
    THEN [d EXCEPT ![f].synced = Len(Committed(d[f]))] ELSE d
FlushSyncFailed(d, f) ==
  IF f \in DOMAIN d THEN [d EXCEPT ![f].failed = TRUE] ELSE d

\* What storing d into durable_cursor promises: every record below d that was
\* appended since the log was opened.  (A segment with a failed sync is left
\* out; the code does not remember that it failed.)
SoundFiles == {f \in DOMAIN disk : ~disk[f].failed}
Promise(d) ==
  promised \cup {r \in UNION {ToSet(Committed(disk[f])) : f \in SoundFiles} :
                   r.inc = inc /\ r.cursor < d}
\* What FsyncPolicy::Each promises for the record append has just written.
PromiseLast(f) == promised \cup (IF f \in SoundFiles THEN {Last(disk[f].recs)} ELSE {})

Running == wpc # "down"

Init ==
  /\ disk = <<>> /\ coord = -1
  /\ segments = {} /\ segmentSizes = <<>>
  /\ retainedBytes = 0 /\ activeBytes = 0 /\ writer = -1
  /\ pending = 0 /\ durable = 0 /\ poisoned = FALSE /\ policy = "None"
  /\ cursor = 0
  /\ wpc = "down" /\ call = OpenCall
  /\ fpc = "idle" /\ fsave = NoSave
  /\ inc = 0 /\ promised = {} /\ lost = FALSE /\ refused = FALSE
  /\ rpc = "idle" /\ rtodo = {} /\ rseg = -1 /\ rpos = 0 /\ rfloor = 0
  /\ rmap = NoSegment /\ rlast = -1 /\ rgoal = 0

\* The Wal is no more; only the files are left.
ProcessGone ==
  /\ segments' = {} /\ segmentSizes' = <<>>
  /\ retainedBytes' = 0 /\ activeBytes' = 0 /\ writer' = -1
  /\ pending' = 0 /\ durable' = 0 /\ poisoned' = FALSE
  /\ policy' = "None" /\ cursor' = 0
  /\ call' = OpenCall
  /\ fpc' = "idle" /\ fsave' = NoSave
  /\ UNCHANGED inc

NoReplay ==
  /\ rpc' = "idle" /\ rtodo' = {} /\ rseg' = -1 /\ rpos' = 0 /\ rfloor' = 0
  /\ rmap' = NoSegment /\ rlast' = -1 /\ rgoal' = 0

WriterStep == UNCHANGED <<flusher, history, reader>>

-----------------------------------------------------------------------------
(* Wal::open *)

\* Mutant of ScanNewest: the cursor of the last record, not one past it.
ScanNewestLast(f) ==
  IF ~disk[f].header \/ Committed(disk[f]) = <<>> THEN f
  ELSE Last(Committed(disk[f])).cursor

\* The scan of the newest segment: one past its last committed record.  A
\* segment whose header cannot be read counts as empty.
ScanNewest(f) ==
  IF ~disk[f].header \/ Committed(disk[f]) = <<>> THEN f
  ELSE Last(Committed(disk[f])).cursor + 1

\* Nothing is truncated.  The lengths of the files, preallocated to
\* segment_size_max, are the sizes of the retired segments.
Open ==
  /\ ~Running /\ inc < MaxOpens
  /\ segments' = DOMAIN disk
  /\ segmentSizes' = [f \in DOMAIN disk |-> SegmentSizeMax]
  /\ retainedBytes' = SumFunction(segmentSizes')
  /\ activeBytes' = 0 /\ writer' = -1
  /\ LET newest == Max(DOMAIN disk)
         next == IF disk = <<>> THEN 0 ELSE ScanNewest(newest)
         empty == disk # <<>> /\ next = newest
     IN /\ pending' = next /\ durable' = next /\ cursor' = next
        /\ coord' = IF empty THEN newest ELSE coord
        /\ wpc' = IF disk = <<>> \/ empty THEN "idle" ELSE "create"
  /\ poisoned' = FALSE /\ policy' \in Policies /\ call' = OpenCall
  /\ fpc' = "idle" /\ fsave' = NoSave
  /\ inc' = inc + 1
  /\ UNCHANGED <<disk, promised, lost, refused, reader>>

-----------------------------------------------------------------------------
(* Wal::append.  Only this thread changes the writer slot, so the second   *)
(* look at it under the mutex sees what the first one saw.                 *)

AppendCall ==
  /\ wpc = "idle" /\ ~poisoned /\ cursor < MaxCursor
  /\ \E n \in Sizes :
       /\ call' = [size |-> n, old |-> -1, w |-> writer, retried |-> FALSE]
       /\ wpc' = CASE writer = -1 -> "create"
                   [] writer # -1 /\ activeBytes + n <= SegmentSizeMax -> "reserve"
                   [] OTHER -> "rotate"
  /\ UNCHANGED <<disk, coord, inner, marks>> /\ WriterStep

\* rotate_locked takes the writer out of its slot, and rotate writes the
\* SKIP_TO_END sentinel if there is room; flush_async promises nothing.
WriteSkipToEnd ==
  /\ wpc = "rotate"
  /\ disk' = [disk EXCEPT ![writer].skip = TailOf(disk[writer]) + SkipLen
                                             <= SegmentSizeMax]
  /\ call' = [call EXCEPT !.old = writer]
  /\ writer' = -1
  /\ wpc' = "create"
  /\ UNCHANGED <<coord, segments, segmentSizes, retainedBytes, activeBytes, marks>>
  /\ WriterStep

Collides == cursor \in DOMAIN disk

\* MmapSegmentWriter::create: create_new and set_len ...
CreateFile ==
  /\ wpc = "create" /\ ~Collides
  /\ disk' = [f \in DOMAIN disk \cup {cursor} |->
                IF f = cursor THEN NoSegment ELSE disk[f]]
  /\ wpc' = "header"
  /\ UNCHANGED <<coord, inner, marks, call>> /\ WriterStep

\* ... which fails when the name is taken or the file system says so.  The
\* writer slot stays empty.  Outside append it is Wal::open that fails.
CreateFails ==
  /\ \/ wpc = "create" /\ (Collides \/ "create" \in IoErrors)
     \/ wpc = "header" /\ "create" \in IoErrors
  /\ IF call = OpenCall
       THEN wpc' = "down" /\ ProcessGone
       ELSE wpc' = "idle" /\ UNCHANGED <<inner, marks, call, flusher, inc>>
  /\ UNCHANGED <<disk, coord, promised, lost, refused, reader>>

\* ... and the header, the tail last.
WriteHeader ==
  /\ wpc = "header"
  /\ disk' = [disk EXCEPT ![cursor].header = TRUE]
  /\ wpc' = "publish"
  /\ UNCHANGED <<coord, inner, marks, call>> /\ WriterStep

Retire(f, bytes) ==
  /\ segmentSizes' = [g \in DOMAIN segmentSizes \cup {f} |->
                        IF g = f THEN bytes ELSE segmentSizes[g]]
  /\ retainedBytes' = retainedBytes + bytes

SegmentBytes(f) == TailOf([disk[f] EXCEPT !.skip = FALSE])

\* Mutant of CountRetired: the size of the new segment for that of the old.
CountRetiredNew ==
  IF call.old = -1 THEN UNCHANGED <<segmentSizes, retainedBytes>>
                   ELSE Retire(call.old, HeaderLen)

\* The segment a rotation has closed becomes a retired one; its size was read
\* before the sentinel was written.
CountRetired ==
  IF call.old = -1 THEN UNCHANGED <<segmentSizes, retainedBytes>>
                   ELSE Retire(call.old, SegmentBytes(call.old))

PublishSegment ==
  /\ wpc = "publish"
  /\ segments' = segments \cup {cursor}
  /\ activeBytes' = HeaderLen
  /\ writer' = cursor
  /\ call' = [call EXCEPT !.w = IF call.retried \/ call = OpenCall THEN @
                                ELSE cursor,
                          !.old = -1]
  /\ wpc' = IF call = OpenCall THEN "idle" ELSE "reserve"
  /\ UNCHANGED <<disk, marks>> /\ WriterStep

\* store_active, and the bookkeeping that follows it.
StoreActive == PublishSegment /\ coord' = cursor /\ CountRetired

\* The writer that takes the record: `writer`, or writer2 after SegmentFull.
Target == IF call.retried THEN writer ELSE call.w

\* MmapSegmentWriter::append, the compare_exchange on the tail.  When the
\* record does not fit, append rotates and tries once more.
Reserve ==
  /\ wpc = "reserve"
  /\ IF TailOf(disk[Target]) + call.size <= SegmentSizeMax
       THEN /\ disk' = [disk EXCEPT ![Target].recs =
                          Append(@, [cursor |-> cursor, inc |-> inc,
                                     policy |-> policy, size |-> call.size,
                                     st |-> "claimed"])]
            /\ wpc' = "stake" /\ call' = call
       ELSE /\ wpc' = IF call.retried THEN "idle" ELSE "rotate"
            /\ call' = [call EXCEPT !.retried = TRUE]
            /\ disk' = disk
  /\ UNCHANGED <<coord, inner, marks>> /\ WriterStep

SetState(st) ==
  LET n == Len(disk[Target].recs) IN
  disk' = [disk EXCEPT ![Target].recs[n].st = st]

\* record_len | WRITING_BIT.
Stake ==
  /\ wpc = "stake"
  /\ SetState("writing")
  /\ wpc' = "commit"
  /\ UNCHANGED <<coord, inner, marks, call>> /\ WriterStep

\* Body, CRC, and the store that clears WRITING_BIT; then the bookkeeping,
\* which reads the tail of the writer append began with.
Commit ==
  /\ wpc = "commit"
  /\ SetState("done")
  /\ pending' = cursor + 1
  /\ activeBytes' = TailOf(disk[call.w])
  /\ wpc' = "retain"
  /\ UNCHANGED <<coord, segments, segmentSizes, retainedBytes, writer, durable,
                 poisoned, policy, cursor, call>>
  /\ WriterStep

OverCap == retainedBytes + activeBytes > RetentionBytes
Retirable == segments \ {writer}

\* enforce_retention_locked: the oldest segment but the active one.
DeleteOldest ==
  /\ wpc = "retain" /\ OverCap /\ Retirable # {}
  /\ LET k == Min(Retirable)
         known == k \in DOMAIN segmentSizes
     IN /\ disk' = [f \in DOMAIN disk \ {k} |-> disk[f]]
        /\ segments' = segments \ {k}
        /\ segmentSizes' = [f \in DOMAIN segmentSizes \ {k} |-> segmentSizes[f]]
        /\ retainedBytes' = retainedBytes - IF known THEN segmentSizes[k] ELSE 0
        /\ promised' = promised \ ToSet(disk[k].recs)
        /\ rmap' = IF rpc = "read" /\ rseg = k THEN disk[k] ELSE rmap
  /\ UNCHANGED <<coord, activeBytes, writer, marks, wpc, call, flusher, inc, lost,
                 refused, rpc, rtodo, rseg, rpos, rfloor, rlast, rgoal>>

RetainDone == wpc = "retain" /\ ~(OverCap /\ Retirable # {})

\* The call is over (bound: one publish that fails).  After Ok the publisher stores the message in the ring,
\* which moves its tail unless a subscriber has filled the ring meanwhile.
Return(ok) ==
  /\ wpc' = "idle"
  /\ \/ ok /\ cursor' = cursor + 1 /\ UNCHANGED refused
     \/ /\ ~ok \/ "ring" \in IoErrors
        /\ ~refused /\ refused' = TRUE
        /\ cursor' = cursor

\* Mutant of SyncEach: durable_cursor moves on without flush_sync.
SyncEachSkipped ==
  /\ RetainDone /\ policy = "Each"
  /\ durable' = cursor + 1
  /\ promised' = PromiseLast(Target)
  /\ Return(TRUE)
  /\ UNCHANGED <<disk, coord, inner, pending, poisoned, policy, call, flusher,
                 inc, lost, reader>>

\* FsyncPolicy::Each, on the writer append began with.
SyncEach ==
  /\ RetainDone /\ policy = "Each"
  /\ disk' = FlushSync(disk, call.w)
  /\ durable' = cursor + 1
  /\ promised' = PromiseLast(Target)
  /\ Return(TRUE)
  /\ UNCHANGED <<coord, inner, pending, poisoned, policy, call, flusher, inc,
                 lost, reader>>

\* It fails after the record is in the log; the ring's tail stays.
SyncEachFails ==
  /\ RetainDone /\ policy = "Each" /\ "sync" \in IoErrors
  /\ disk' = FlushSyncFailed(disk, call.w)
  /\ Return(FALSE)
  /\ UNCHANGED <<coord, inner, pending, durable, poisoned, policy, call, flusher,
                 inc, promised, lost, reader>>

AppendDone ==
  /\ RetainDone /\ policy # "Each"
  /\ Return(TRUE)
  /\ UNCHANGED <<disk, coord, inner, pending, durable, poisoned, policy, call,
                 flusher, inc, promised, lost, reader>>

-----------------------------------------------------------------------------
(* The flusher thread of FsyncPolicy::Batched.  It takes no lock.          *)

\* "Snapshot the pending cursor BEFORE flushing".
Snapshot ==
  /\ policy = "Batched" /\ Running /\ fpc = "idle"
  /\ fsave' = [pending |-> pending, w |-> -1]
  /\ fpc' = "load"
  /\ UNCHANGED <<disk, coord, inner, marks, wpc, call, history, reader>>

LoadWriter ==
  /\ fpc = "load"
  /\ fsave' = [fsave EXCEPT !.w = writer]
  /\ fpc' = "flush"
  /\ UNCHANGED <<disk, coord, inner, marks, wpc, call, history, reader>>

\* flush_sync of that one segment (nothing if there was none), then the store
\* of the snapshot.
Flush ==
  /\ fpc = "flush"
  /\ disk' = FlushSync(disk, fsave.w)
  /\ durable' = fsave.pending
  /\ promised' = Promise(fsave.pending)
  /\ fpc' = "idle" /\ fsave' = NoSave
  /\ UNCHANGED <<coord, inner, pending, poisoned, policy, cursor, wpc, call, inc,
                 lost, refused, reader>>

FlushFails ==
  /\ "sync" \in IoErrors /\ fpc = "flush" /\ fsave.w # -1
  /\ disk' = FlushSyncFailed(disk, fsave.w)
  /\ poisoned' = TRUE
  /\ fpc' = "stopped" /\ fsave' = NoSave
  /\ UNCHANGED <<coord, inner, pending, durable, policy, cursor, wpc, call,
                 history, reader>>

-----------------------------------------------------------------------------
(* The end of the publisher *)

\* Drop: join the flusher, then fsync, whose error is ignored and whose store
\* into durable_cursor nobody reads any more.
Close ==
  /\ wpc = "idle" /\ fpc \in {"idle", "stopped"}
  /\ wpc' = "down"
  /\ ProcessGone
  /\ \/ disk' = FlushSync(disk, writer)
     \/ "sync" \in IoErrors /\ writer # -1 /\ disk' = FlushSyncFailed(disk, writer)
  /\ UNCHANGED <<coord, promised, lost, refused, reader>>

\* The process dies; every store it made is in the page cache.
Kill ==
  /\ MayKill /\ Running
  /\ wpc' = "down"
  /\ ProcessGone
  /\ UNCHANGED <<disk, coord, promised, lost, refused, reader>>

\* What may be left of a file: what was synced, and of the rest any pages, of
\* which those behind the first missing one are out of reach of the recovery
\* scan.  Without its first page the file has no header.  The page cache is
\* the device's again: no dropped page is left in it.
Remnant(s, first, n) == [s EXCEPT !.header = @ /\ (first \/ s.synced >= 0),
                                  !.recs = SubSeq(@, 1, n), !.failed = FALSE]
Remnants(s) == {Remnant(s, first, n) : first \in BOOLEAN,
                                       n \in Max({s.synced, 0})..Len(s.recs)}

\* The machine loses power: the publisher has been killed (Kill), and now the
\* page cache goes too.  A replay changes nothing on the disk, so that the loss
\* in the middle of one is the loss before it began.
PowerLoss ==
  /\ MayLosePower /\ ~Running /\ ~lost /\ rpc = "idle"
  /\ lost' = TRUE
  /\ LET dirty == {f \in DOMAIN disk : disk[f].synced < Len(disk[f].recs)} IN
       \E left \in [dirty -> UNION {Remnants(disk[f]) : f \in dirty}] :
         /\ \A f \in dirty : left[f] \in Remnants(disk[f])
         /\ disk' = [f \in DOMAIN disk |-> IF f \in dirty THEN left[f] ELSE disk[f]]
  /\ coord' \in {c \in {-1, coord} \cup DOMAIN disk : c <= coord}
  /\ UNCHANGED <<inner, marks, wpc, call, flusher, inc, promised, refused, reader>>

-----------------------------------------------------------------------------
(* WalReader::open and read_from, and WalReplayer, in a subscriber, until  *)
(* the machine loses power.                                                *)

\* Mutant of SegmentsFrom: the first segment that starts at or after c.
SegmentsAfter(c) == {f \in DOMAIN disk : f >= c}

\* The segment with the largest first cursor <= c, and all after it.
SegmentsFrom(c) ==
  {f \in DOMAIN disk : f >= Max({g \in DOMAIN disk : g <= c})}

\* A cursor below the oldest segment is refused (CursorTooOld).
ReadFrom(c) ==
  /\ MayReplay /\ rpc = "idle" /\ ~lost
  /\ DOMAIN disk # {} /\ c >= Min(DOMAIN disk)
  /\ rtodo' = SegmentsFrom(c)
  /\ rfloor' = c /\ rlast' = c - 1
  /\ rgoal' = IF Running THEN pending ELSE 0
  /\ rpc' = "next"
  /\ UNCHANGED <<disk, coord, inner, marks, wpc, call, flusher, history,
                 rseg, rpos, rmap>>

\* MmapSegmentReader::open: a file that retention has unlinked, or that has
\* no header yet, is an error.
OpenSegment ==
  /\ rpc = "next" /\ rtodo # {}
  /\ LET f == Min(rtodo) IN
       /\ rtodo' = rtodo \ {f}
       /\ IF f \in DOMAIN disk /\ disk[f].header
            THEN rpc' = "read" /\ rseg' = f
            ELSE rpc' = "error" /\ rseg' = -1
  /\ rpos' = 0 /\ rmap' = NoSegment
  /\ UNCHANGED <<disk, coord, inner, marks, wpc, call, flusher, history,
                 rfloor, rlast, rgoal>>

\* The mapping outlives the file.
Mapped == IF rmap = NoSegment THEN disk[rseg] ELSE rmap

\* Mutant of NextRecord: WRITING_BIT is not looked at.
NextRecordUnchecked ==
  /\ rpc = "read" /\ rpos < Len(Mapped.recs)
  /\ LET r == Mapped.recs[rpos + 1] IN
       /\ r.st # "claimed"
       /\ rpc' = IF r.st = "done" THEN rpc ELSE "corrupt"
       /\ rlast' = IF r.st # "done" \/ r.cursor < rfloor THEN rlast ELSE r.cursor
  /\ rpos' = rpos + 1
  /\ UNCHANGED <<disk, coord, inner, marks, wpc, call, flusher, history,
                 rtodo, rseg, rfloor, rmap, rgoal>>

\* next_record on a record with a clean length: handed out, passed over when
\* it is before the requested cursor, or an error when the CRC differs.
NextRecord ==
  /\ rpc = "read" /\ rpos < Len(Mapped.recs)
  /\ LET r == Mapped.recs[rpos + 1] IN
       /\ r.st \in {"done", "torn"}
       /\ rpc' = IF r.st = "done" THEN rpc ELSE "corrupt"
       /\ rlast' = IF r.st = "torn" \/ r.cursor < rfloor THEN rlast ELSE r.cursor
  /\ rpos' = rpos + 1
  /\ UNCHANGED <<disk, coord, inner, marks, wpc, call, flusher, history,
                 rtodo, rseg, rfloor, rmap, rgoal>>

\* AwaitMore (the tail, a zero length, WRITING_BIT) and EndOfSegment alike
\* send the replayer to its next segment; past the last one it is drained.
SegmentEnds ==
  /\ \/ /\ rpc = "read"
        /\ rpos < Len(Mapped.recs)
             => Mapped.recs[rpos + 1].st \in {"claimed", "writing"}
        /\ rpc' = "next"
     \/ rpc = "next" /\ rtodo = {} /\ rpc' = "drained"
  /\ rseg' = -1 /\ rpos' = 0 /\ rmap' = NoSegment
  /\ UNCHANGED <<disk, coord, inner, marks, wpc, call, flusher, history,
                 rtodo, rfloor, rlast, rgoal>>

\* The subscriber drops its replayer and goes on with the ring.
DropReplayer ==
  /\ rpc \in {"drained", "error", "corrupt"}
  /\ NoReplay
  /\ UNCHANGED <<disk, coord, inner, marks, wpc, call, flusher, history>>

-----------------------------------------------------------------------------
AppendStep ==
  \/ AppendCall \/ WriteSkipToEnd \/ CreateFile \/ CreateFails \/ WriteHeader
  \/ StoreActive \/ Reserve \/ Stake \/ Commit
  \/ DeleteOldest \/ SyncEach \/ SyncEachFails \/ AppendDone

FlusherStep == Snapshot \/ LoadWriter \/ Flush \/ FlushFails

ReaderStep ==
  \/ \E c \in 0..MaxCursor : ReadFrom(c)
  \/ OpenSegment \/ NextRecord \/ SegmentEnds \/ DropReplayer

Next ==
  \/ Open \/ AppendStep \/ FlusherStep
  \/ Close \/ Kill \/ PowerLoss
  \/ ReaderStep

Spec == Init /\ [][Next]_vars

-----------------------------------------------------------------------------
(* Properties *)

Safe(r) ==
  \E f \in DOMAIN disk : disk[f].header /\ r \in ToSet(Committed(disk[f]))

\* FsyncPolicy::Each, "nothing lost since the most recent successful publish",
\* for records in segments that a rotation only flushed asynchronously too:
\* what durable_cursor has covered can be read after a power loss (records of a
\* segment whose sync has failed are not promised; see Promise).
EachSurvives == \A r \in promised : r.policy = "Each" => Safe(r)

\* durable_cursor is the "Highest cursor msync'd to disk": under every policy
\* what it has covered can be read after a power loss.
DurableSurvives == \A r \in promised : Safe(r)

\* "Highest cursor msync'd to disk" again: durable_cursor moves over no record
\* of a segment whose sync has failed.
DurableOverSound ==
  [][durable' > durable /\ Running =>
       \A f \in DOMAIN disk' : (\E r \in ToSet(disk'[f].recs) :
           durable <= r.cursor /\ r.cursor < durable') => f \in SoundFiles]_vars

\* Without power losses and failed publishes the committed records are one unbroken run of
\* cursors, although a kill may leave a reserved, half-written or headerless
\* place behind at any point, and nothing is truncated.
LogContiguous ==
  ~lost /\ ~refused =>
    \A f \in DOMAIN disk :
      LET recs == Committed(disk[f]) IN
      /\ \A i \in DOMAIN recs : recs[i].cursor = f + i - 1
      /\ f # Max(DOMAIN disk) =>
           f + Len(recs) = Min({g \in DOMAIN disk : g > f})

\* A replay hands out consecutive cursors from the requested one on, over
\* the mapping of a segment that is being written, rotated or unlinked.
ReplayNoGap ==
  [][rlast' # rlast /\ rpc = "read" /\ ~lost' /\ ~refused =>
       rlast' = rlast + 1]_vars

\* A replay that ends without an error has reached every record that had
\* been appended when it began, and it never meets a corrupt one.
ReplayComplete ==
  ~lost /\ ~refused =>
    /\ rpc = "drained" => rlast + 1 >= rgoal
    /\ rpc # "corrupt"

\* When append returns, the records of the segments it knows of take no more
\* than retention_bytes, or only the active segment is left, after any number
\* of rotations and openings.  (A rotation that closes a segment and then fails
\* to create the next one leaves the closed one uncounted.)
RetentionHolds ==
  [][wpc = "retain" /\ wpc' = "idle" /\ Retirable \subseteq DOMAIN segmentSizes =>
       \/ SumFunction([f \in segments |-> SegmentBytes(f)]) <= RetentionBytes
       \/ segments = {writer}]_vars

\* MmapSegmentWriter::append "does NOT enforce cursor monotonicity (the
\* aggregator does)": a cursor is in the log once.
CursorsIncrease ==
  \A f \in DOMAIN disk : \A i, j \in DOMAIN disk[f].recs :
    i < j => disk[f].recs[i].cursor < disk[f].recs[j].cursor

=============================================================================
