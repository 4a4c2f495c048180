# TLA+ verification of mmbus

mmbus is a publish/subscribe bus between processes of one machine: a publisher
writes messages into a memory-mapped ring per topic, subscribers in other
processes read them without locks, sleep on an eventfd (Linux) or a Unix socket
(macOS), and may catch up from a write-ahead log. Beside the core crate there
are a bridge between machines (`mmbus-bridge`) and an asyncio broadcast and
presence layer in Python (`mmcast`).

This directory holds TLA+ modules of all three, the TLC configurations that check
them on small instances, and TLAPS proofs of what matters most for every value
of the constants. Line references are to `src/crates/mmbus/src/` unless they say
otherwise.

| module | models | checked by | proved in |
|---|---|---|---|
| `BroadcastLog` | what a topic promises; abstract | refined by `Ring` | `RingProofs` |
| `Ring` | `ring.rs`; `Publisher::create`/`publish`; `Subscriber::connect_with`, `try_receive`, replay, `Drop` | `MCRing`: `RingDropOldest`, `RingError` | `RingProofs` |
| `Wakeup` | wakeup flags, `wait_readable`, `arm_wakeup`, `accept_clients`, `publish_many`, `broadcast_wakeup` | `MCWakeup`: `Wakeup`, `WakeupProgress`, `WakeupReuse` | `WakeupProofs` |
| `ProducerLock` | `producer_lock.rs`, `Publisher::create`, `Bus::clean_topic` | `MCProducerLock`: `Lock` | `LockProofs` |
| `Wal` | `wal/` (the default backend): open, append, rotate, retain, flush, replay | `MCWal`: `Wal` | `WalProofs` |
| `WalV2` | `wal/v2/` (feature `wal_v2`): the same over memory-mapped segments | `MCWalV2`: `WalV2` | `WalV2Proofs` |
| `Bridge` | `crates/mmbus-bridge`: `bridge.rs`, `queue.rs`, `quic.rs`, the use of `frame.rs` | `MCBridge`: `Bridge` | `BridgeProofs` |
| `Cast` | `crates/mmcast`: `_broadcast.py`, and `AsyncSubscription` of `python/mmbus/__init__.py` | `MCCast`: `Cast`, `CastRestart` | `CastProofs` |
| `Presence` | `crates/mmcast`: `_presence.py` | `MCPresence`: `Presence` | `PresenceProofs` |

Run a configuration with `tlc -config RingError.cfg MCRing`, the proofs of a
module with `tlapm RingProofs.tla` and so on.

## 1. Inventory

**Ring buffer** (`ring.rs`). State: in one mapping the tail, the publisher's
generation, a table of subscriber cursors, a table of wakeup flags, and
`capacity` slots of a sequence number (with a WRITING bit), a length and a
payload. Operations: `create_or_reuse`, `claim_cursor`, `release_cursor`,
`min_active_cursor`, `is_full`, `try_publish`, `publish_drop_oldest`,
`write_slot`, `try_receive`, `try_receive_into_slice`. Hard: every access races
with every other process; the reader takes no lock and finds out afterwards that
it was overtaken; the publisher may die in the middle of a write and the file be
reused; cursor arithmetic wraps. Correct: nothing torn is delivered; nothing is
skipped that is still there; policy Error loses nothing; a cursor slot has one
owner; a reader is not starved.

**Publisher** (`publisher.rs`). State: the ring, the listener, the clients, the
producer lock, the log. Operations: `create`, `publish`, `publish_many`,
`accept_clients`, `broadcast_wakeup`, `wait_for_subscribers`. It appends to the
log before it writes the ring, so that the two can part at a crash.

**Subscriber** (`subscriber.rs`, `subscription.rs`). State: its cursor index and
position, the generation it connected to, the stream, the eventfd, a replayer.
Operations: `connect_with` (claim, handshake, read the tail again, seat the
cursor, read the generation), `receive` in blocking, timed, slice and poll
forms, `arm_wakeup`, `drain_wakeup`, `Drop`. Hard: values read before the
handshake are used after it; the sleep must not miss a publish.

**Wakeups** (`waker.rs`, and the halves in publisher and subscriber). An
eventcount: flag, fence, tail on one side; tail, fence, flag on the other. The
publisher reaps clients that left. Correct: nobody sleeps beside a message; no
live client is reaped; every dead one is.

**Producer lock** (`producer_lock.rs`) **and Bus** (`bus.rs`). A set of paths
within the process, an flock across processes; `clean_topic` removes the
directory under the lock. Correct: one publisher per ring; the set never leaks.

**Write-ahead log** (`wal/`). State: segment files named by first cursor, an
index and byte counts, a buffered writer, `pending_cursor`, `durable_cursor`.
Operations: `open` with `recover_truncate`, `append`, `rotate_locked`,
`enforce_retention_locked`, a flusher thread, `Drop`; `WalReader::read_from` and
`WalReplayer` in other processes. Hard: kills and power losses between any two
writes, torn tails, the flusher syncing without the mutex, deletion under a
reader, failures in the middle of a rotation. Correct: what was synced survives,
cursors are not given out twice, a replay has no gap, the cap holds.

**Write-ahead log v2** (`wal/v2/`, feature-gated). State: preallocated mapped
segments with an atomic tail, `active.dat`, the same counts and cursors as the
default log. Operations: `open` with a scan of the newest segment, `append`
without a lock (reserve, stake, commit), `rotate_locked`,
`enforce_retention_locked`, the flusher, `Drop`; `WalReader::read_from` and
`WalReplayer` over the live mapping. Hard: a kill between any two stores leaves
a place that nothing truncates; a reader walks the segment that is being
written; rotation starts a flush and does not wait for it. Correct: what was
published under `Each` survives, the records are one run of cursors, a replay
is complete and never meets a half-written record, the cap holds.

**Bridge** (`crates/mmbus-bridge`). State: a bounded drop-oldest queue per peer,
a connection, an mpsc channel to the local publisher. Threads: a subscriber per
topic, a forwarder per peer (for QUIC a thread, a tokio channel and a task), a
listener, a reader per connection, a publisher; `shutdown_inner` joins them in
order. Hard: frames between queue and socket, reconnects, the drop of the last
sender, the join order. Correct: nothing is republished twice or, on one
connection, out of order; a full queue keeps the newest; shutdown returns and
leaves nothing running; what is queued goes out.

**mmcast broadcast** (`_broadcast.py`). State per channel: the publisher slot, a
subscription and a fan-out task per shard, the attached consumers with their
bounded queues. Operations: `publish`, `subscribe`, `start_subscriptions` under
a lock, the reconnect loop, `_fanout`, `_enqueue` with three policies,
`__anext__`, leaving and closing. Hard: every await between a check and its use,
cancellation, close during connect. Correct: a shard is seen in order and once;
the drop counter is exact; nobody waits for ever on what was closed; shards that
come up are found.

**mmcast presence** (`_presence.py`). State: a member table with times, a bounded
queue of changes. Operations: enter, exit, heartbeat, consume, evict. Hard: lost
joins and leaves, killed processes, late heartbeats. Correct: the changes add up
to the table, the gone are forgotten, the present become known.

**Bindings, configuration, metrics.** Conversions, parsing and counters without
state that an operation reads back; not modelled.

The hazards, each at its line, and the properties that watch them are in
`PROJECT.json`.

## 2. Ring

One step is one access to shared memory. A slot is its stamp `seq` (number `n`,
WRITING bit `w`) and `Words` separately stored words, the length and the pieces
of the payload; a word is identified with the message it was stored for, so a
torn copy is one whose words name different messages. Messages are a generation
and a number. `ppc` and `pc` are the program counters of the publisher and the
subscribers; `wal` is what the ring sees of the log, its next cursor, and `filed`
how far its files reach: with `Buffered` (`FsyncPolicy` `None` or `Batched`, the
default, of the v1 log) an append leaves the record in a `BufWriter`
(`wal/segment_writer.rs:20`), which a flush empties (`FlushLog`) and a kill takes
along; without it (`Each`, or the mapped log) the record is in the file when
append returns. `goal` is where the files ended when a replay was opened: it may
end there, below the tail, and hands over to the ring.

`reused` is a history variable: a death has sent the numbering back. Below the
first number not yet stamped into a slot (`Used`) the next publisher gives
numbers out again. It becomes true without a log at any restart, and with a log
that buffers when a kill takes records whose messages are in the ring. From then
on one number may be two messages, and even a reader in the middle of a copy may
find the stamp it expects on a slot that was written anew; `NoTornDelivery`,
`FullMeansBehind` and `ImplementsLog` speak of runs until then, `NumbersKept`
says when there is no such death, and section 11 has the documented claim
(`MonotonicCursors`) that it breaks.

| actions | code |
|---|---|
| `Publish`, `ScanCursor`, `IsFull`, `Reject`, `Append`, `Admit` | `Publisher::publish`, `min_active_cursor` one slot at a time, `is_full`, `try_publish` |
| `StoreSlot(k)`, `Commit`, `BumpTail` | `write_slot` store by store (0 is the WRITING mark), and the tail |
| `FlushLog` | the flusher thread, or a full `BufWriter` |
| `PublisherDrops`, `PublisherKilled` | `Drop`, which flushes the log (or fails to); death at any step, of a restart too |
| `ReuseRing`, `ResetTail`, `AlignTail` | `create_or_reuse`; `Publisher::create` moving the tail to the cursor the log's files show |
| `Connect`, `ClaimCursor`, `Handshake`, `HandshakeFails`, `Resync`, `CursorTooOld`, `SetCursor`, `ReadGeneration` | `connect_with` with each `StartPos` |
| `ReplayRecord`, `ReplayDrained`, `ReplayFails` | `next_wal_record` |
| `BeginReceive`, `LoadSeq`, `LoadSlot(k)`, `Overwritten`, `Deliver`, `RejectOversize` | `try_receive` with its bounded retries |
| `Drop`, `Killed` | `Drop`; a kill, which releases nothing |

`TSO` says whether plain accesses keep their program order. On x86-64 they do.
Without it the stores of a slot, and the loads of a copy, are steps in any order
that the Acquire and Release accesses of the code permit. `Modulus` stands for
2^64: `WrappingSub` wraps, `SaturatingSub` stops at zero.

Bounds: `Capacity = 2` lets a subscriber be lapped and lets two messages of one
slot be one lap apart; `MaxTail = 4` is two laps; `Words = 2` is the least
that can be torn between two payload words after the length has been checked;
two subscribers in `RingError` compete for the cursor table and are scanned in
different states; `MaxRetries = 2` makes both a retry and giving up happen
(16 in the code); `MaxGen = 2` is one restart. `Starts` covers the live tail,
a history shorter and longer than the ring, and explicit cursors in and below
the ring. Under policy Error `MaxTail = 3` fills the ring and goes one beyond.

- `RingDropOldest` (over a log that buffers, with a publisher that is dropped or
  killed at any step and restarts, subscribers killed, replays): `TypeOK`,
  `NoTornDelivery`, under `FairSpec` `CaughtUpWhenIdle`, and the refinement
  `ImplementsLog`.
- `RingError` (over a log that syncs each record, with a publisher killed at any
  step that comes back to subscribers who stayed): `NoLossUnderError`,
  `CursorSlotsOwned`, `FullMeansBehind`.

`NoTornDelivery` admits one thing that no write stored: the zero bytes of slot 0
before anything was written to it carry the stamp of message 0 and are read as
that message, when the first publisher was killed between log and ring and the
next one started its tail above (`BlankFirst`; `WholeMessages` in section 11).

`FullMeansBehind` is about the wrapping difference in `is_full` and `try_publish`:
a cursor ahead of the tail makes it huge. A subscriber of the first publisher
that stays seated while the second one resets the tail to 0 and then aligns it
with the log is such a cursor for a while; the property says that no publish
reports Full on it (the mutant leaves out the alignment). With a log that
buffers a kill brings the tail back below it for good (section 11).

`ImplementsLog` says that Ring implements `BroadcastLog`: a growing count of
messages, a position per attached reader, and receives that hand out one whole
message at the position, or under DropOldest one that is at least a whole ring
ahead. The mapping takes the length of the log's files, or the
committed slots where those are ahead, for the count, the cursor of an attached subscriber for its position and the
last copy for what it was handed; a torn copy maps to no message at all, so the
refinement fails on one. A step of the ring is a step of the abstract log or
leaves it alone. `handed` is reset when a new connect begins. Under policy Error
the property can be added to `RingError` with `MaxGen = 1`, where it holds too; its content there
is that of `NoLossUnderError`.

Fairness (`FairSpec`): the publisher finishes a call it has started, a subscriber
keeps calling receive. Nobody has to publish, connect or leave. A thread that
stops between two instructions is a crash, and crashes are not fair steps, so
the assumption is the scheduler's; `try_receive` never waits for the publisher,
it retries and returns.

`CaughtUpWhenIdle` is what is true of starvation: once the publisher has stopped
calling publish and lives, a subscriber gets to the tail, so no finished call
leaves a mark or a stamp behind that its retries cannot get past, and no give-up
or jump strands it. Of a reader whose publisher goes on nothing is promised: one
that overwrites the slot on every retry starves it for as long as it does so,
as `ring.rs:553-554` says. The idle end is the condition of the property and not
an effect of `MaxTail`.

## 3. Wakeup

Steps are the accesses to tail, flags, sockets and eventfds. The SeqCst fences of
`wait_readable` and `broadcast_wakeup` make the flag and tail accesses
sequentially consistent, so interleaving is exact here. A member of `Subs` is
one connection; the receive only moves a cursor, since the contents are Ring's.
`served` is a history variable: whether the last broadcast saw a connection as
the only client with its slot index, as one of several, or not at all.

| actions | code |
|---|---|
| `Publish`, `WaitForSubscribers`, `AcceptClient`, `AcceptFails`, `AcceptDone` | `publish_many`, `wait_for_subscribers`, `accept_clients` |
| `StoreTail`, `EndBatch` | the ring writes of a batch |
| `VisitClient`, `TakeWakeflag`, `Wake`, `BroadcastDone` | `broadcast_wakeup`, with `swap_remove` as it renumbers the vector |
| `ClaimCursor`, `ResetWakeflag`, `ConnectSocket`, `SendFd`, `ConnectFails`, `Resync` | `connect_with` |
| `Receive`, `RingEmpty`, `SetWakeflag`, `Recheck`, `WakeUp`, `HangUp`, `Timeout`, `ClearWakeflag`, `DrainWakeup` | `receive_into`, `wait_readable`, `poll_recv`, `arm_wakeup`; an asyncio caller may cancel a wait and leave its flag set |
| `Drop`, `CloseSocket`, `Killed`, `PublisherExits` | the ends |

- `Wakeup` (both wakers, batches of two, kills, the publisher exits):
  `SoleClientWoken`, `LiveClientsKept`, `NoInheritedFlag`. Two connections and two slots: slots are
  reused, indices shared, the client list shrinks at either end.
  `SoleClientWoken` speaks of eventfds only: on macOS the stale entry of section 11
  is reaped by the failing send after it has taken the tenant's flag, so the
  tenant is alone on its index at the next publish and still asleep.
- `WakeupProgress` (fair): `PublishReturns`, `DropReaped`, `AcceptedReceive`.
  The publisher completes a call, a subscriber completes its connect, keeps
  receiving and, once dropping, closes its socket; nobody must publish,
  subscribe, leave, or time out. Timeouts are not fair steps, so
  `AcceptedReceive` rests on the wakeup alone.
- `WakeupReuse` (violation): `AcceptedWoken`, see section 11.

## 4. ProducerLock

Threads of two processes call `Publisher::create`, `Bus::clean_topic` and drop;
files are inodes, so that one that was unlinked lives on for whoever has it
open, and the flock belongs to the open file. Actions follow
`acquire_producer_lock` step by step (`InsertPath`, `OpenLock`,
`TryLockExclusive`), then `MapRing` or `UnlinkFiles` and `RemoveDir`, then
`Close`, `DropPath`, `CloseFile`, in the order of the fields' drops; `Killed`
ends all threads of a process. `MaxInodes = 5` allows a lock and a ring file
twice over and one more lock. Three threads in two processes are the least with
both a rival inside the process and one outside.

- `Lock` (with `clean_topic`): `OnePublisherPerRing`, `InProcessExact`.

`raced` is a history variable: `clean_topic` has unlinked the lock file while
another thread had it open and had not locked it yet. From then on two
publishers may hold two inodes (section 11), and `OnePublisherPerRing` says
nothing. In every other interleaving, with `clean_topic` running, it holds.

## 5. Wal

A record passes through the `BufWriter` (lost with the process), the file (lost
with the power) and the synced part of the file. `disk` maps first cursors to
files; `Torn` is any bytes with a bad length or CRC. `BufWriter` decides by its
capacity what it writes out, so `WriteRecord` leaves that open.

| actions | code |
|---|---|
| `Open`, `OpenFails` | `Wal::open`: `recover_truncate` of each segment, the next cursor, the counts |
| `AppendCall`, `CheckSize`, `Rotate`, `CreateFile`, `CreateFails`, `WriteHeader`, `CursorRegressed`, `WriteRecord`, `AppendDone` | `Wal::append`, `rotate_locked`, `SegmentWriter::create` and `append` |
| `SyncEach`, `SyncEachFails`, `CloseFails` | `FsyncPolicy::Each`, a failing fsync there and in a rotation |
| `DeleteOldest` | `enforce_retention_locked`, one segment a step |
| `FlushForExternalFsync`, `SyncData`, `SyncFails` | the flusher: flush under the mutex, sync without it |
| `Close`, `Kill`, `PowerLoss` | `Drop`; the process dies, a flush cut anywhere; the machine does, each unsynced record kept, torn or cut off |
| `ReadFrom`, `OpenSegment`, `ReadRecord`, `ReadEnds`, `DropReplayer` | `WalReader::read_from`, `SegmentReader::open`, `WalReplayer::next` |

`promised` is a history variable: the records that a sync of the current opening
has reported below `durable_cursor` and retention has not deleted. A segment
whose sync has failed is left out of later promises, because the kernel drops
the pages of a failed sync and a later one succeeds without them; under policy
Each the code goes on after such an error. Sizes are in units of the header:
a segment has room for two records, the cap (4 or 5) for one or two segments.
Three records and three openings suffice for a rotation, a deletion, and two
recoveries one after the other, with a replay at any point between.

- `Wal` (kills, power losses, failing creates and syncs at any step):
  `SyncedSurvive`, `CursorsNotReissued`, `LogContiguous`, `ReplayNoGap`,
  `ReplayReachesDurable`, `RetentionHolds`.

`broken` is a history variable: a power loss has hit, or an append has returned
an error after its record was in the log. Then the files need not be contiguous
(section 11), so `LogContiguous` says nothing any more and no replay is begun or
followed; the durability properties go on. `RetentionHolds` leaves out indices
with a segment whose close failed, which the code keeps uncounted.

Assumed of the outside: a created or deleted directory entry is durable at once
(the code syncs files, not the directory); a record is one `write(2)` at most
cut by the end of the process; CRCs find every torn record.

## 6. WalV2

A segment is mapped by its writer and its readers: a store is visible to all at
once, outlives the process, and is undone only by a power loss before a
`flush_sync`. A record is three stores (`Reserve` the compare-exchange on the
tail, `Stake` the length with WRITING_BIT, `Commit` the clean length), each a
step; `disk` maps first cursors to segments, `synced` counts the records a
flush has covered (the one being written not among them), `failed` that a sync of
the segment has failed, `coord` is `active.dat`. As in section 5 the kernel drops
the pages of a failed sync and a later one succeeds without them, so a segment
that has failed once gains no synced record any more. (A reboot clears the flag:
what is then in the file is on the disk.)

| actions | code |
|---|---|
| `Open` | `Wal::open`: `ScanNewest` finds the last committed record of the newest segment; nothing is cut |
| `AppendCall`, `WriteSkipToEnd`, `CreateFile`, `CreateFails`, `WriteHeader`, `StoreActive` | `append`, its lazy create, `rotate_locked` and `rotate` |
| `Reserve`, `Stake`, `Commit` | `MmapSegmentWriter::append` |
| `DeleteOldest`, `SyncEach`, `SyncEachFails`, `AppendDone` | retention, `FsyncPolicy::Each` outside the lock, the return to `publish` |
| `Snapshot`, `LoadWriter`, `Flush`, `FlushFails` | the flusher |
| `Close`, `Kill`, `PowerLoss` | `Drop`; the ends |
| `ReadFrom`, `OpenSegment`, `NextRecord`, `SegmentEnds`, `DropReplayer` | `WalReader`, `MmapSegmentReader`, `WalReplayer`; an unlinked file stays readable for whoever has mapped it |

Bounds: a segment has room for two records and the sentinel, the cap for one
segment and the header of the next; three records and two openings give a
rotation, a deletion and a recovery; one power loss and one publish that fails
after its record was logged. `lost` and `refused` are history variables for
those two: `LogContiguous` and the replay properties speak of runs without
them, `EachSurvives` of all. `EachSurvives` promises the records of segments of
which no sync has failed. The code does not make that difference: an append
whose `flush_sync` failed leaves its record committed, and the next append of
policy Each syncs and stores a `durable_cursor` above it (`wal/v2/wal.rs:433`),
with a hole below (`DurableOverSound` in section 11).

- `WalV2`: `EachSurvives`, `LogContiguous`, `ReplayComplete`, `ReplayNoGap`,
  `RetentionHolds`.

Assumed of the outside: directory entries survive a power loss; of what was not
synced any prefix of pages may be left, and the scan stops at the first hole.
`create_new` and `set_len` are one step. The power fails between two replays only
(`PowerLoss` waits for `rpc = "idle"`: a replay changes nothing on the disk, so a
failure in the middle of one leaves what a failure after it leaves).
A record larger than a segment is outside the bounds of the run (`Sizes`), not
of the proofs: its append rotates to an empty segment, finds that too small as
well, rotates again and collides with the name of the empty one. The error is
that of the create and never `PayloadTooLarge` (`RetryInv`), and as the writer
slot is left empty the appends after it collide too.

## 7. Bridge

Two bridges and the link from the first to the second. A step is what a thread
does between two looks at something another thread or process writes. A frame is
its topic and its number; the hello is a frame of its own. The transport and who
the peer is to the receiver (a friend, a stranger with a key that is not
accepted, a twin with the receiver's own origin) are chosen in `Init`.

| actions | code |
|---|---|
| `Publish`, `Subscribe`, `SubRecv`, `SubSend`, `SubDrop` | a local topic and its subscriber thread; `SubDrop` in two steps, the look at the strong count and the decrement (`queue.rs:112`) |
| `QueueBridgePop`, `QueueBridgeSend` | QUIC: the thread between the queue and the tokio channel |
| `Connect`, `WriteHello`, `Pop`, `WriteFrame` | the forwarder; any failure leads to a reconnect, and the frame in hand is gone |
| `Break` | the network ends a connection; what was not read is lost |
| `Accept`, `JoinReaders`, `ReaderStops`, `ReaderFrame` | listener and readers: hello first, own origin dropped, topic filter |
| `PublisherStep` | the publisher thread behind the channel |
| `StopA`, `ClearPeerTx`, `JoinA`, `StopB`, `JoinB` | `shutdown_inner` of either side |

A write timeout and a suffix that a dropped QUIC connection never delivers are
instances of `Break`. The creation of publishers ahead of their first message
and the publisher's `Disconnected` branch are folded. QUIC tasks are not joined
by the code; `NothingOutlives` says so by speaking of readers over TCP only.

Bounds: one topic and a queue of one frame evict at the second message; two
connections are a break and a reconnect; one fault and one shutdown, of either
side.

- `Bridge`: `AtMostOnce`, `OrderedPerConnection`, `NewestKept`,
  `NothingOutlives`, and under `FairSpec` `ShutdownReturns`, `QueueDrains`.

Fairness: every thread and task is scheduled and its timeouts (200 ms on the
queue, the read timeout, the reconnect delay) elapse. Nobody has to publish, to
shut down, or to break. `QueueDrains` ends its promise at the bound on
connections.

## 8. Cast

One channel on one event loop: a step is what a task does between two awaits
that can suspend it. Consumers subscribe, iterate, are cancelled, leave; the
reconnect task retries; fan-out tasks copy from the shard's subscription into
the queues. A message is its shard and its number; what a ring may lose is
Ring's matter.

| actions | code |
|---|---|
| `PeerStarts`, `PeerExits`, `PeerPublishes`, `Publish` | the shards; `Publish` claims the process's own publisher slot at its first call |
| `Subscribe`, `Retry`, `Acquire`, `OpenPeer`, `GatherRaises`, `Register` | `subscribe`, the reconnect loop, `start_subscriptions` under `_start_lock` around its gather |
| `FanRead`, `FanAwait`, `FanWakes` | `_fanout` over `AsyncSubscription.__anext__`; `Enqueue` and `OnFull` with the three policies |
| `GetTask`, `Wake`, `Cancel`, `Leave` | `Subscription.__anext__`: the race of the item and the close event, cancellation, `__aexit__` |
| `Close`, `CloseEnd` | `_Channel.close` |

History variables exempt three behaviours of the code from the properties they
would break: `spoilt`, a consumer whose `__anext__` was cancelled with the item
already in its get task, which is then lost without a count; `raised`, an error
other than a timeout from the gather, which ends the reconnect loop; `orphan`, a
consumer attached by a subscribe that a close overtook.

Bounds: one shard, two consumers, every policy beside another one, a queue of
one, two messages, one upset (exit, leave, cancellation or failure to open).

- `Cast`: `InOrderOnce`, `SlowCountExact`, `DrainedAtStop`, and under `FairSpec`
  `NeverStranded`, `Converges`.
- `CastRestart` (violation): `RestartEndsIterator`, see section 11.

Fairness: the loop runs every task that can run (weak fairness; asyncio's ready
queue is first in, first out). Nobody has to publish, iterate or close.

## 9. Presence

One handle per member id in a process of its own; records travel in order from
one sender to one receiver. `age` is the member table, with the ticks since the
last record. No loop has a deadline: a heartbeat may come late, so false
evictions happen, and must be made good. `Settings` combines `_MAX_MEMBERS`, the
processes that can publish (another process may hold the publisher slot) and
those whose caller iterates.

The records travel over Broadcast, of which the module keeps the fan-out of each
shard in each process: `fan[r][m]` is `"none"` (r waits in its reconnect loop for
m), `"open"`, `"ending"` (m's process was killed, what it sent is still to be
read) or `"ended"`. A fan-out that has ended stays in `_mmbus_subs` and is never
opened again, which is the behaviour of `CastRestart`: a process that starts
again is heard by those who open its shard after that, and by nobody else.

| actions | code |
|---|---|
| `Enter`, `Exit`, `Kill` | `__aenter__`, `__aexit__`; death of the process |
| `Reconnect`, `FanoutEnds` | `_reconnect_loop`; `_fanout` at the `EOFError` of its publisher |
| `Heartbeat`, `Consume`, `Evict`, `Tick`, `Lose` | the three loops with `_apply` and `_emit_change`; time; a record lost to a slow consumer |
| `NextQueued`, `AwaitChange`, `GetTask`, `NextAwaited` | `__anext__`: a change at once, or the wait for the get task |
| `CancelNext`, `Swallow` | a cancelled `__anext__`, a `wait_for` that times out: `get_task` is left among the queue's getters and takes the next change |

A scan of `Evict` emits its changes in the order of the table, which is any.
`Told` is the set a caller has after the first so many changes. `spoilt` is a
history variable: handles of which a cancelled call has swallowed a change;
`ChangesTellMembers` speaks of the others (`OnlyOverflowLoses` in section 11 is
the claim without that exception). `LateJoinerLearns` exempts fan-outs that have
ended (`RestartedLearned` in section 11).

Bounds: two members, three openings (one of them again), two faults, each a kill,
a loss or a cancelled call; a TTL of 0 ticks is one that is shorter than the
tick. The settings are room for everyone; a full table and a process that cannot
publish; and a caller that iterates over the changes.

- `Presence`: `ChangesTellMembers`, and under `FairSpec` `GoneForgotten`,
  `LateJoinerLearns`.

Fairness: the three loops, the fan-outs and the reconnect loop run and time
passes; nobody has to enter, leave or take a change.

## 10. Proofs

`RingProofs`:

- `TypeCorrect`: `Spec => []TypeOK`, from `ConstantsOK` alone; one lemma per
  group of actions.
- `SeqlockSound`: `ASSUME TSO PROVE Spec => []NoTornDelivery`.
  Torn delivery is not excluded by any one state: the reader compares two loads
  of `seq`, and what lies between them must be reconstructed. The inductive
  invariant is `~reused => SeqlockInv`, with these parts: `NumberingInv` (how
  tail, log and files number messages through drops, kills and restarts),
  `StampInv` (no stamp is beyond the `Frontier`, the first number not yet used),
  `WriteInv` (the mark precedes every word), `SlotInv` (an unmarked slot holds
  one whole message, or is slot 0 still blank) and `ReaderInv` (as long as the
  slot is not stamped with a later number, what was copied is what is there; so
  if the second look finds the first stamp, the copy is whole). Stamps must
  grow, and they do until a death sends the numbering back.
- `NumbersKept`: `ASSUME (Wal /\ ~Buffered) \/ MaxGen = 1 PROVE Spec =>
  []MonotonicCursors`: with a log whose records are in the files when append
  returns, no death at any step does, because the record precedes the first
  store to the slot. (`MaxGen = 1`, one publisher for good, is the trivial
  case.) The run `RingDropOldest` buffers, where the claim fails.
- `CursorTableSound`: `ASSUME StartsClaimable PROVE Spec => []CursorSlotsOwned`.
  `SlotsInv` says for every subscriber whether it is a tenant and what its slot
  shows; two subscribers never have one slot. `StartsClaimable` only excludes an
  explicit start at the sentinel `u64::MAX`, with which `set_cursor` would free
  the slot under its tenant.
- `FullSound`: `ASSUME NoExplicit PROVE Spec => []FullMeansBehind`. The scan is
  not atomic, so the invariant (`BehindInv`) bounds every cursor a subscriber may
  still store, and the minimum found so far, by the numbers given out; during a
  restart, when the tail is 0 for a while, by the log. Without `NoExplicit` TLC
  finds an explicit start beyond the tail, and without `~reused` the row of
  section 11.
- `ErrorLosesNothing`: `ASSUME StartsNow PROVE Spec => []NoLossUnderError`.
  `KeptInv`: while a subscriber is seated, its cursor was part of every scan that
  decides a write, or the write cannot reach its slot; the case that makes it
  hard is a claim that the scan has already passed, and what settles it is the
  second read of the tail (`Resync`). The property is about the first publisher:
  with a second generation TLC finds a loss even with a log, as a subscriber may
  resync between `ResetTail` and `AlignTail`.
- `RingImplementsLog`: `ASSUME TSO, ErrorStarts PROVE Spec => ImplementsLog`.
  Initial states map to initial states; every step until a death sends the
  numbering back is, under the mapping of section 2, a publish, a receive, an
  attach, a detach or a stutter of `BroadcastLog`. It uses `SeqlockInv` for what
  a delivered copy is and under policy Error `KeptInv` (`ErrorStarts`: under that
  policy one publisher, and subscribers of the live tail). `ReachInv` bounds
  where a cursor may be, a replay's too.

`LockProofs`:

- `OnePublisher`: `Spec => []OnePublisherPerRing`, for any threads and processes.
  `LockInv` adds `SameFile` (every open lock file is the one in the directory,
  until `clean_topic` has raced) and `Held` (past the flock exactly the holder,
  and one of them, also while a `clean_topic` that has unlinked the files has
  not closed its own). Without `SameFile` two holders of two inodes are
  possible, which is what the race of `clean_topic` brings about.
- `InProcessSetExact`: `Spec => []InProcessExact`. `SetInv` says that a process
  is in the set exactly while one of its threads is past the insertion and not
  past the removal, and that it is one thread; every error path of
  `acquire_producer_lock` and `Drop` has to restore it.

`WakeupProofs`:

- `WakeupTypeCorrect`: `Spec => []TypeOK`. Not a formality: the client list is
  a sequence that `swap_remove` renumbers under a running index, and `CallInv`
  is what keeps the index inside.
- `FlagsNotInherited` and `LiveClientsStay`: `Spec => []NoInheritedFlag`, `Spec =>
  []LiveClientsKept`, both from `BaseInv`: a slot has one tenant, and which
  entries, sockets and eventfds a connection has at every point of its life. The
  claim of a slot and the reset of its flag are two steps, between which the old
  tenant's entry may still take the flag.
- `SoleClientsWoken`: `Spec => []SoleClientWoken`. `WakeInv` follows one sole
  client through a publish: after the tail store either its flag is set and its
  entry is still to be visited (`VisitOK`), or its eventfd is signalled, or it
  will see the tail at its recheck (`FlagOK`, `QuietOK`). `swap_remove` moves
  the last entry, so "still to be visited" is about positions in the list.

`BridgeProofs`:

- `ShutdownJoinsAll`: `Spec => []NothingOutlives`; `JoinInv` says which threads
  may still run at each stage of either shutdown.
- `NoMessageTwice`, `ConnectionsKeepOrder`, `QueueKeepsNewest`: `Spec =>
  []AtMostOnce`, `[]OrderedPerConnection`, `[]NewestKept`, from one inductive
  invariant `BridgeInv`. On its way a frame passes seven stages (the ring, the
  subscriber thread, the queue, the tokio channel, the forwarder's hand, the
  connection, the receiver). `UpstreamInv` reads the stages before the
  connection as one line per topic: what stands further on is older. So
  whatever is evicted, lost in hand or lost with a connection, nothing appears
  twice and nothing is overtaken. `DownstreamInv` says the same of every
  connection and its reader. `HelloFirst` keeps hellos out of the comparison.

`CastProofs`:

- `IterationsDrain` and `SlowCountHolds`: `Spec => []DrainedAtStop`, `Spec =>
  []SlowCountExact`, from `IterationInv` (an opener has no consumer yet, only a
  wait holds an item, an ended iteration was closed, so nothing is queued for
  it any more) and `CountInv`.
- `ConsumersSeeOrder`: `Spec => []InOrderOnce`. `ConsumerSorted` orders what was
  delivered, held and queued. It is kept by a new message only if that is newer
  than all the consumer has had of the shard, which is `FanInv`: a shard has
  one subscription, whose unread messages are newer than anything had. A second
  subscription with its history would break it; `OpeningInv` says why there is
  none: the task that gathers holds `_start_lock`, and what it wants to open,
  or has opened, nobody is subscribed to and nobody has heard of. `CloseInv`
  covers the end: `_mmbus_subs` is cleared on a closed channel only, where
  `start_subscriptions` opens nothing more.

`WalProofs`, from `ConstantsOK` alone: every policy, size, cap, failure and
number of openings.

- `PromisesKept` and `CursorsStayUsed`: `Spec => []SyncedSurvive`, `Spec =>
  []CursorsNotReissued`. `PromisedInv` says more than either: a promised record
  lies in the synced part of its file, and every later segment starts above it,
  so recovery cannot reopen below it. A promise is made from `durable_cursor`
  and covers files the sync never touched; `ClosedInv` says that those are
  synced, unless their close failed. The flusher syncs without the mutex a file
  that may have been rotated, closed or deleted since: `FlushInv` and `TakenInv`
  keep what it is about to report inside what that file held. `WriterInv` joins
  the buffer to its file, `FileInv` keeps a record where its cursor says and
  torn bytes out of the synced part.
- `LogStaysContiguous`: `Spec => []LogContiguous`. `ChainInv` adds that while
  the log is open, what is durable and the tail lie at the end of the newest
  segment.
- `ReplaysReachDurable` and `ReplaysWithoutGap`: `Spec =>
  []ReplayReachesDurable`, `Spec => ReplayNoGap`. The reader has listed segments
  once and opens them later: `TodoInv` says that those retention has left are
  still joined and that the last one holds what was durable at the start, even
  when the publisher has died and cut its file; `PlaceInv` says at which cursor
  the replayer stands.
- `CoreInv` joins the parts up to `ChainInv` with the types, `PcInv` (what the
  program counters imply) and `LiveInv` (an open log has nothing torn and no
  name beyond the tail); `ReplayInv` joins the last two. Most actions append to one file, move its
  synced mark or fail its sync: that is one predicate, `Edit`, and what it keeps
  is proved once. Power loss and recovery shorten files (`Shrunk`) and keep
  their synced parts.

`WalV2Proofs`, from `ConstantsOK` alone: every policy, size, cap, failure and
number of openings, records larger than a segment included.

- `EachRecordSurvives`: `Spec => []EachSurvives`. A flush of policy Each is
  outside the lock and for the writer loaded when the append began, so it must
  be shown that this writer has the record. It has, because the retry after
  `SegmentFull` never succeeds: `RetryInv` says that the byte count an append
  decides by is that of the writer's file, unless the file is empty, so a record
  that does not fit after all is too large for an empty segment, and the new one
  would have that segment's name. `EachInv` then puts every promised record in
  the synced part of a file with a header, where a power loss cannot reach it,
  and which a later failure does not shorten (`FailedKept`);
  `FileInv` and `WriterInv` keep an unfinished record the last of its file and
  of the writer.
- `LogIsContiguous`: `Spec => []LogContiguous`. Nothing is cut here: a kill
  leaves a claimed or staked record, a file without header or an empty one.
  `ChainInv` says that a segment with another above it ends where the next one
  starts, counting committed records only, and that the newest ends at the next
  cursor, also between `Commit` and the return of the append. That `Wal::open`
  names its new segment by the last committed record keeps it.
- `ReplayReachesGoal` and `ReplayHasNoGap`: `Spec => []ReplayComplete`, `Spec =>
  ReplayNoGap`. As in `WalProofs`, `TodoInv` is about the listed segments that
  are still there, `PlaceInv` about the cursor the replayer stands at. The file
  it reads may have been unlinked under its mapping: then no segment starts at
  or below it any more, and what it mapped is final (`Reading`).

`PresenceProofs`:

- `ChangesAreTheStory`: `Spec => []ChangesTellMembers`, assuming only what
  `PresenceConstantsOK` says, that the members are finite among it.
  `ChangesTellMembers` is inductive with the types: what the caller has not been
  told is what its get task holds followed by the queue. What it needs is how `Told`
  behaves when changes are appended and when the first is taken (`ToldLast`,
  `ToldSame`, `ToldTail`); both follow from the last change about a member,
  without an induction. One lemma, `EmitTells`, serves every step that emits:
  the changes of one step are about different members, each is news (`Fresh`),
  and together they make the table what it is next (`Explains`). A join, a
  leave and a scan that evicts several members are then instances.

TLC checked every inductive invariant on the bounds of the runs before it was
proved. The hypotheses of the theorems hold in the runs that check the same
property, so no theorem is about an empty set of systems.

Only model-checked, and why: the temporal properties `CaughtUpWhenIdle`,
`PublishReturns`, `DropReaped`, `AcceptedReceive`, `ShutdownReturns`,
`QueueDrains`, `NeverStranded`, `Converges` and the others under `FairSpec`
(fairness and `ENABLED` are out of the prover's reach); and `RetentionHolds` of
both logs, which adds up the sizes of records and files: what a sum over a set
or a sequence is after an element has come or gone is an induction over data.
All other properties of the passing runs are theorems.

`CHECK_DEADLOCK FALSE` stands where the modelled system really may stop:
`RingDropOldest` and `Wakeup` (subscribers killed, the publisher gone for good),
`Wal` and `WalV2` (the number of openings is bounded), `Bridge`, `Cast` and
`CastRestart` (everything shut down or closed, the bound on messages reached),
`Presence` (the last handle closed and its openings used up). All other runs
check for deadlock.

## 11. Where the code and its documents part

Two of these are kept as runs whose property TLC must refute.

- `WakeupReuse` / `AcceptedWoken` (`publisher.rs:390`): the client entry of a
  subscriber that dropped still carries its slot index; when another has taken
  the slot, the old entry takes the new tenant's flag and signals a dead
  eventfd, and the tenant sleeps beside a message
  (`tests/wakeup_coalescing.rs:7-8` promises the opposite).
- `CastRestart` / `RestartEndsIterator` (`crates/mmcast/python/mmbus_cast/_broadcast.py:491`):
  when a shard's publisher goes away, the fan-out ends without an error; no
  consumer is told, and the shard stays in `_mmbus_subs`, where the reconnect
  loop does not look at it (`docs/spec-mmcast-v0.1.md:242` promises
  `BroadcastClosedError`).

The others can be seen by changing a configuration as the last column says and
checking the property alone, under `Spec` and with `CHECK_DEADLOCK FALSE`.

| claim | what the code does | property | constants |
|---|---|---|---|
| "the standard seqlock pattern" (`docs/architecture.md:118-130`) | the plain stores of a slot may pass the WRITING mark, and the plain loads the second look, on a CPU without total store order (`ring.rs:452`, `535`) | `NoTornDelivery` | `RingDropOldest`, `TSO = FALSE` |
| the seqlock "will skip forward to the oldest available slot" (`bus.rs:107-110`) | a lapped reader jumps to the newest message of its slot (`ring.rs:508`) | `SkipsToOldest` | `RingDropOldest` |
| subscribers of a dead publisher end "instead of reading from the logically-reset ring" (`docs/architecture.md:169-172`) | `try_receive` never looks at the generation (`ring.rs:478`) | `SameGeneration` | `RingDropOldest` |
| "a monotonic cursor stream across publisher restarts" (`publisher.rs:151-154`) | the log's `BufWriter` dies with the process, `pending_cursor` comes back smaller than the ring's tail was, and numbers are given out again (`publisher.rs:158`) | `MonotonicCursors` | `RingDropOldest` |
| "Guards against torn reads" (`ring.rs`, on `try_receive`) | the blank slot 0 is delivered as message 0 after a crash between log and ring | `WholeMessages` | `RingDropOldest` |
| Full means "slowest subscriber is too far behind" (`ring.rs:391`) | after a kill has taken buffered records a cursor stays ahead of the tail and makes the wrapping difference huge (`ring.rs:403`) | `FullOnlyBehind` | `RingError`, `Buffered = TRUE` |
| the log "never contains a record that no subscriber will ever observe via the live ring" (`publisher.rs:219-222`) | a stale cursor claimed between `is_full` and `try_publish` | `LogMatchesRing` | `RingError` |
| an unwritten slot "Should be ruled out by the tail check above" (`ring.rs:512-513`) | after a crash between log and ring the tail starts beyond a slot that was never written | `UnwrittenRuledOut` | `RingDropOldest` |
| "an orphaned cursor is force-released the next time the publisher restarts" (`docs/architecture.md:179-182`) | `create_or_reuse` leaves the cursor table alone (`ring.rs:245`) | `OrphansReleased` | `RingDropOldest` |
| "Together they guarantee no missed wakeup" (`subscriber.rs:468-470`) | a subscriber that connects after `accept_clients` is not woken by that publish (`publisher.rs:231`) | `NoMissedWakeup` | `WakeupReuse` |
| "Single-publisher is enforced at the FS boundary" (`docs/architecture.md:102-104`) | `clean_topic` unlinks a lock file another caller has opened (`bus.rs:214`) | `OnePublisherPerRing` without `~raced` | `Lock` |
| an empty newest segment is left to the next append, and a name that exists would "indicate a logic bug" (`wal/wal.rs:167-168`, `wal/segment_writer.rs:53-55`) | that append collides with it (`wal/wal.rs:169`) | `NoCollision` | `Wal` |
| `durable_cursor` is the "Highest cursor msync'd to disk" (`wal/v2/wal.rs:91`) | a rotation starts the flush of the old segment and does not wait (`wal/v2/rotation.rs:67`); the flusher syncs the new one and covers both | `DurableSurvives` | `WalV2` |
| the same | an append after one whose sync has failed stores a `durable_cursor` above the record of that one (`wal/v2/wal.rs:433`) | `DurableOverSound` | `WalV2` |
| cursor monotonicity is enforced by the aggregator (`wal/v2/mmap_segment_writer.rs`, on `append`) | a publish that fails after its record was logged is logged again under the same cursor | `CursorsIncrease` | `WalV2` |
| a topic's messages arrive in order | the reader of a broken connection races the reader of the next | `OrderedPerTopic` | `Bridge`, `MaxMsgs = 3` |
| members "includes self" (`_presence.py:162`) | a handle reopened in the same process may read the leave of the one before | `IncludesSelf` | `Presence`, `MaxLink = 2` |
| a worker that starts late is "picked up", "instead of being dropped forever" (`_broadcast.py:353-355`) | nobody whose fan-out of a shard has ended hears the process that starts it again (`_broadcast.py:491`) | `RestartedLearned` | `Presence`, under `FairSpec` |
| changes are lost to a full queue only (`_presence.py:243`) | a cancelled `__anext__` leaves its get task, which takes the next change (`_presence.py:386`) | `OnlyOverflowLoses` | `Presence` |

Found while modelling and not a property of their own. In mmcast a subscribe that
a close overtakes leaves a channel nobody closes (`CHANGELOG.md:66-67` says it
cannot). The bridge's module comment says that it drops messages while
disconnected (`bridge.rs:24`), where the queue keeps the newest. In the mapped
log a rotation whose create fails leaves the closed segment uncounted, and
`fsync` loads `pending_cursor` after the flush; the code calls it from `Drop`
only, when nobody appends.

Of the log, found while stating its properties: `Wal::open` takes all it finds
for durable but syncs only the segments it cuts (`wal/wal.rs:188`), so after a
kill, a restart and a power loss `durable_cursor` has covered records that are
gone, and the files have a hole (hence `broken`);
`SyncedSurvive` is therefore about the records of the current opening. A crash
between `create_new` and the header leaves a file that fails every later open
(`OpenFails`). Replay is not clamped to `durable_cursor`, as `wal/config.rs:22-24`
says it is under Batched: it reads whatever the file shows.

## 12. Plan

1. Ring, Wakeup, ProducerLock, Wal, WalV2, Bridge, Cast, Presence, and the
   abstract BroadcastLog: done, with the proofs above.
2. `Topic`: Ring and Wal composed, replay handing over to the ring across
   rotation, retention and restart. Ring keeps of the log what the ring sees.
3. The bridge's way back: loops over two bridges that forward and receive one
   topic.

## 13. Not modelled

The Windows backends (named events, `LockFileEx`); TLS identities and the QUIC
library; the byte layout of frames and records; configuration files, command
line and bindings; argument checks and the FastAPI glue; metrics and logging;
the tables of `Bus` and of `Broadcast`, which hold one publisher or channel per
name behind a single owner; `bump_generation` of both logs, which has no caller.
Payload bytes, timestamps and text are abstracted to identity and size. Segments
that hold a record larger than a segment are outside the bounds of the runs (`Sizes`).
