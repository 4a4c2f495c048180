------------------------------- MODULE Bridge -------------------------------
(***************************************************************************)
(* Two bridge processes and the link from one to the other                 *)
(* (crates/mmbus-bridge: bridge.rs, queue.rs, quic.rs).  The forwarding    *)
(* bridge has a subscriber thread per forwarded topic, one drop-oldest     *)
(* queue for its peer and a forwarder that connects, writes and reconnects *)
(* (for QUIC a queue-bridge thread and a task with a bounded channel       *)
(* between them).  The receiving bridge has a listener, a reader per       *)
(* connection, and one publisher thread behind a channel.  Either may be   *)
(* shut down at any time; the network may break a connection at any time.  *)
(*                                                                         *)
(* One step is what a thread does between two looks at something another   *)
(* thread or process writes; a look at a shutdown flag, which is only ever *)
(* set, is part of the step that follows it.  A frame is its topic and the *)
(* number of the message on it.  A read is cut at the end of a frame, as   *)
(* decode waits for the rest of one; a frame that a broken connection cuts *)
(* never arrives.                                                          *)
(***************************************************************************)
EXTENDS Integers, SequencesExt

CONSTANTS
  Topics,      \* topics with forward = true at the sender
  Receive,     \* topics with receive = true at the receiver
  Links,       \* the links <<transport, peer>> considered: TransportKind is
               \* "tcp" or "quic"; to the receiver the sender is a "friend" whose
               \* key is in accepted_psks, a "stranger", or a "twin" with its
               \* own origin_id
  QueueMax,    \* BridgeConfig::peer_buffer_max
  MaxMsgs,     \* bound: messages published locally per topic
  MaxConns,    \* bound: connections made
  MaxStops,    \* bound: bridges shut down, of the two
  MaxFaults    \* bound: failures of the network and of the local bus

ASSUME BridgeConstantsOK ==
  /\ Links \subseteq {"tcp", "quic"} \X {"friend", "stranger", "twin"}
  /\ QueueMax \in Nat \ {0}
  /\ MaxMsgs \in Nat /\ MaxConns \in Nat /\ MaxStops \in 0..2 /\ MaxFaults \in Nat

VARIABLES
  transport, peer,        \* the peer's transport, and who it is
  \* the forwarding bridge
  src, inbox,             \* local topics: messages so far, unread ones
  spc, shand,             \* subscriber threads, the frame each has in hand
  senders,                \* the holders of a queue::Sender
  queue, closed,          \* queue::Inner
  qpc, qhand, tq,         \* QUIC: queue-bridge thread, tokio channel
  fpc, fhand, fconn,      \* forwarder, its frame, its connection
  stopA, apc,             \* shutdown flag, shutdown_inner
  \* the network
  conns,                  \* connections in the order they were made
  faults,                 \* failures so far
  \* the receiving bridge
  lpc, rpc, authed,       \* listener, readers, their authenticated
  chan, ppc,              \* publish channel, publisher thread
  stopB, bpc,
  \* history
  evicted,                \* frames the queue has thrown out
  out                     \* what was published on the receiver's bus

config  == <<transport, peer>>
local   == <<src, inbox>>
subs    == <<spc, shand, senders>>
peerq   == <<queue, closed, evicted>>
quic    == <<qpc, qhand, tq>>
fwd     == <<fpc, fhand, fconn>>
stoppA  == <<stopA, apc>>
net     == <<conns, faults>>
readers == <<rpc, authed>>
pub     == <<chan, ppc, out>>
stoppB  == <<stopB, bpc>>
sideA   == <<local, subs, peerq, quic, fwd, stoppA>>
sideB   == <<lpc, readers, pub, stoppB>>
vars    == <<config, sideA, net, sideB>>

ConnIds == 1..MaxConns
Hello   == [topic |-> "hello", n |-> 0]
NoFrame == [topic |-> "none", n |-> 0]
NoConn  == 0

\* The bridge's own Sender and the clone of every subscriber thread.
Holders == Topics \cup {"bridge"}

Init ==
  /\ \E l \in Links : transport = l[1] /\ peer = l[2]
  /\ src = [t \in Topics |-> 0] /\ inbox = [t \in Topics |-> <<>>]
  /\ spc = [t \in Topics |-> "outer"] /\ shand = [t \in Topics |-> NoFrame]
  /\ senders = [h \in Holders |-> "held"]
  /\ queue = <<>> /\ closed = FALSE /\ evicted = {}
  /\ qpc = (IF transport = "quic" THEN "loop" ELSE "done")
  /\ qhand = NoFrame /\ tq = <<>>
  /\ fpc = "outer" /\ fhand = NoFrame /\ fconn = NoConn
  /\ stopA = FALSE /\ apc = "run"
  /\ conns = <<>> /\ faults = 0
  /\ lpc = "accept"
  /\ rpc = [c \in ConnIds |-> "none"] /\ authed = [c \in ConnIds |-> FALSE]
  /\ chan = <<>> /\ ppc = "loop" /\ out = <<>>
  /\ stopB = FALSE /\ bpc = "run"

Fault == faults < MaxFaults /\ faults' = faults + 1

-----------------------------------------------------------------------------
(* The sender's local bus *)

Attached(t) == spc[t] \in {"inner", "send"}

\* A message on topic t; a subscription sees what follows its start.
Publish(t) ==
  /\ src[t] < MaxMsgs
  /\ src' = [src EXCEPT ![t] = @ + 1]
  /\ inbox' = IF Attached(t) THEN [inbox EXCEPT ![t] = Append(@, src'[t])]
                             ELSE inbox
  /\ UNCHANGED <<config, subs, peerq, quic, fwd, stoppA, net, sideB>>

-----------------------------------------------------------------------------
(* subscriber_main *)

SubGoto(t, l) == spc' = [spc EXCEPT ![t] = l]
SubFrame(t) == UNCHANGED <<config, src, peerq, quic, fwd, stoppA, sideB>>

\* The outer loop: subscribe_timeout, and again until it succeeds.
Subscribe(t) ==
  /\ spc[t] = "outer"
  /\ \/ stopA /\ SubGoto(t, "drop") /\ UNCHANGED faults
     \/ ~stopA /\ SubGoto(t, "inner") /\ UNCHANGED faults
     \/ ~stopA /\ Fault /\ UNCHANGED spc
  /\ inbox' = [inbox EXCEPT ![t] = <<>>]
  /\ UNCHANGED <<shand, senders, conns>> /\ SubFrame(t)

\* The inner loop: the flag, then recv_timeout, which has a message, times
\* out (and the loop goes on), or finds that the publisher has gone.
SubRecv(t) ==
  /\ spc[t] = "inner"
  /\ \/ stopA /\ SubGoto(t, "drop") /\ UNCHANGED <<shand, inbox, faults>>
     \/ /\ ~stopA /\ inbox[t] # <<>>
        /\ shand' = [shand EXCEPT ![t] = [topic |-> t, n |-> Head(inbox[t])]]
        /\ inbox' = [inbox EXCEPT ![t] = Tail(@)]
        /\ SubGoto(t, "send") /\ UNCHANGED faults
     \/ /\ ~stopA /\ Fault /\ SubGoto(t, "outer")
        /\ inbox' = [inbox EXCEPT ![t] = <<>>] /\ UNCHANGED shand
  /\ UNCHANGED <<senders, conns>> /\ SubFrame(t)

\* Mutant of Send: a full queue drops the frame that comes.
SendDropsNew(f) ==
  /\ evicted' = IF Len(queue) >= QueueMax THEN evicted \cup {f} ELSE evicted
  /\ queue' = IF Len(queue) >= QueueMax THEN queue ELSE Append(queue, f)

\* Sender::send: nothing once closed, else evict the oldest when full.
Send(f) ==
  LET full == Len(queue) >= QueueMax IN
  /\ evicted' = IF full THEN evicted \cup {Head(queue)} ELSE evicted
  /\ queue' = Append(IF full THEN Tail(queue) ELSE queue, f)

SubSend(t) ==
  /\ spc[t] = "send"
  /\ IF closed THEN UNCHANGED <<queue, evicted>> ELSE Send(shand[t])
  /\ shand' = [shand EXCEPT ![t] = NoFrame]
  /\ SubGoto(t, "inner")
  /\ UNCHANGED <<config, local, senders, closed, quic, fwd, stoppA, net, sideB>>

-----------------------------------------------------------------------------
(* Drop for queue::Sender *)

ReceiverAlive == IF transport = "quic" THEN qpc # "done" ELSE fpc # "done"

\* Arc::strong_count: the senders that are not gone, and the receiver.
StrongCount ==
  Cardinality({h \in Holders : senders[h] # "gone"})
  + (IF ReceiverAlive THEN 1 ELSE 0)

\* The body of drop looks at the count, which still includes this sender ...
DropLooks(h) ==
  /\ closed' = (closed \/ StrongCount <= 2)
  /\ senders' = [senders EXCEPT ![h] = "dropping"]

\* ... and the Arc is released after it.
DropReleases(h) ==
  /\ senders' = [senders EXCEPT ![h] = "gone"]
  /\ closed' = closed

SubDrop(t) ==
  /\ spc[t] = "drop"
  /\ \/ senders[t] = "held" /\ DropLooks(t) /\ UNCHANGED spc
     \/ senders[t] = "dropping" /\ DropReleases(t) /\ SubGoto(t, "done")
  /\ UNCHANGED <<config, local, shand, queue, evicted, quic, fwd, stoppA, net,
                 sideB>>

-----------------------------------------------------------------------------
(* spawn_queue_bridge: only for a QUIC peer *)

QuicFrame == UNCHANGED <<config, local, subs, fwd, stoppA, net, sideB>>

\* The flag, then recv_timeout on the queue.
QueueBridgePop ==
  /\ qpc = "loop"
  /\ \/ /\ stopA /\ qpc' = "done" /\ UNCHANGED <<queue, qhand>>
     \/ /\ ~stopA /\ queue # <<>>
        /\ qhand' = Head(queue) /\ queue' = Tail(queue) /\ qpc' = "send"
  /\ UNCHANGED <<closed, evicted, tq>> /\ QuicFrame

\* blocking_send waits for room, and fails when the task has ended.
QueueBridgeSend ==
  /\ qpc = "send"
  /\ \/ fpc = "done" /\ qpc' = "done" /\ UNCHANGED tq
     \/ /\ fpc # "done" /\ Len(tq) < QueueMax
        /\ tq' = Append(tq, qhand) /\ qpc' = "loop"
  /\ qhand' = NoFrame
  /\ UNCHANGED peerq /\ QuicFrame

-----------------------------------------------------------------------------
(* forwarder_main and run_connection; outbound_main and                    *)
(* run_quic_connection of quic.rs take the same steps.                     *)

FwdFrame == UNCHANGED <<config, local, subs, closed, evicted, qpc, qhand, stoppA,
                        sideB>>

\* The stream is dropped: what was written still arrives, then end of file.
Closed(cs) == IF fconn = NoConn THEN cs ELSE [cs EXCEPT ![fconn].eof = TRUE]

\* The outer loop: the flag, then connect with a timeout.  The kernel takes
\* a connection for a listener that is still open.
Connect ==
  /\ fpc = "outer"
  /\ \/ /\ stopA /\ fpc' = "done" /\ tq' = <<>>
        /\ UNCHANGED <<fconn, conns, faults>>
     \/ /\ ~stopA /\ lpc # "done" /\ Len(conns) < MaxConns
        /\ conns' = Append(conns, [up |-> TRUE, eof |-> FALSE, data |-> <<>>])
        /\ fconn' = Len(conns') /\ fpc' = "hello" /\ UNCHANGED <<faults, tq>>
     \/ /\ ~stopA /\ Fault /\ UNCHANGED <<fpc, fconn, conns, tq>>
  /\ UNCHANGED <<queue, fhand>> /\ FwdFrame

\* Mutant of Disconnect: an error ends the forwarder for good.
DisconnectEnds ==
  /\ fpc' = "done" /\ fconn' = NoConn /\ fhand' = NoFrame
  /\ conns' = Closed(conns)

\* run_connection returns, with or without an error.
Disconnect ==
  /\ fpc' = "outer" /\ fconn' = NoConn /\ fhand' = NoFrame
  /\ conns' = Closed(conns)

Written(f) ==
  conns' = IF conns[fconn].up THEN [conns EXCEPT ![fconn].data = Append(@, f)]
                              ELSE conns

\* write_all: on a broken connection an error, now or at a later write.
WriteHello ==
  /\ fpc = "hello"
  /\ \/ Written(Hello) /\ fpc' = "loop" /\ UNCHANGED <<fconn, fhand>>
     \/ ~conns[fconn].up /\ Disconnect
  /\ UNCHANGED <<queue, tq, faults>> /\ FwdFrame

\* The QUIC queue is closed when its only sender, the queue bridge, has gone.
Drained == transport = "quic" /\ qpc = "done" /\ tq = <<>>

\* Mutant of StopSeen: the forwarder goes on until its queue is closed.
StopSeenClosed == (closed /\ queue = <<>>) \/ Drained

\* The loop ends for the flag, at its head or after recv_timeout came back
\* with nothing, or with the QUIC queue; a timeout only goes on.
StopSeen == stopA \/ Drained

\* The frame leaves the queue before it is written.
Pop ==
  /\ fpc = "loop"
  /\ \/ StopSeen /\ Disconnect /\ UNCHANGED <<queue, tq>>
     \/ /\ ~stopA /\ transport = "tcp" /\ queue # <<>> /\ fhand' = Head(queue)
        /\ queue' = Tail(queue) /\ fpc' = "write" /\ UNCHANGED <<fconn, conns, tq>>
     \/ /\ ~stopA /\ transport = "quic" /\ tq # <<>> /\ fhand' = Head(tq)
        /\ tq' = Tail(tq) /\ fpc' = "write" /\ UNCHANGED <<fconn, conns, queue>>
  /\ UNCHANGED faults /\ FwdFrame

\* Mutant of WriteFrame: a write that did not come back in time is retried.
WriteFrameRetries ==
  /\ fpc = "write"
  /\ \/ Written(fhand) /\ fhand' = NoFrame /\ fpc' = "loop" /\ UNCHANGED fconn
     \/ Written(fhand) /\ UNCHANGED <<fpc, fhand, fconn>>
     \/ ~conns[fconn].up /\ Disconnect
  /\ UNCHANGED <<queue, tq, faults>> /\ FwdFrame

\* Mutant of WriteFrame: a frame whose write failed goes back to the queue.
WriteFrameRequeues ==
  /\ fpc = "write"
  /\ \/ /\ Written(fhand) /\ fhand' = NoFrame /\ fpc' = "loop"
        /\ UNCHANGED <<queue, fconn>>
     \/ ~conns[fconn].up /\ Disconnect /\ queue' = Append(queue, fhand)
  /\ UNCHANGED <<tq, faults>> /\ FwdFrame

WriteFrame ==
  /\ fpc = "write"
  /\ \/ Written(fhand) /\ fhand' = NoFrame /\ fpc' = "loop" /\ UNCHANGED fconn
     \/ ~conns[fconn].up /\ Disconnect
  /\ UNCHANGED <<queue, tq, faults>> /\ FwdFrame

-----------------------------------------------------------------------------
(* The network *)

\* A connection breaks; of what is under way the receiver gets a prefix.
Break(c) ==
  /\ c <= Len(conns) /\ conns[c].up /\ Fault
  /\ \E k \in 0..Len(conns[c].data) :
       conns' = [conns EXCEPT ![c].up = FALSE,
                              ![c].data = SubSeq(conns[c].data, 1, k)]
  /\ UNCHANGED <<config, sideA, sideB>>

-----------------------------------------------------------------------------
(* listener_main, reader_main, handle_frame; listener_main,                *)
(* handle_connection and handle_inbound_frame of quic.rs.                  *)

Unaccepted == {c \in ConnIds : c <= Len(conns) /\ rpc[c] = "none"}

\* The connections in cs are closed from this end.
HungUp(cs) ==
  [c \in DOMAIN conns |->
     IF c \in cs THEN [conns[c] EXCEPT !.up = FALSE, !.data = <<>>] ELSE conns[c]]

ReadersDone == \A c \in ConnIds : rpc[c] \in {"none", "done"}

\* Accept the next connection; the listener stops for the flag or an error.
Accept ==
  /\ lpc = "accept"
  /\ \/ /\ ~stopB /\ Unaccepted # {}
        /\ rpc' = [rpc EXCEPT ![Min(Unaccepted)] = "loop"]
        /\ UNCHANGED <<lpc, faults>>
     \/ stopB /\ lpc' = "join" /\ UNCHANGED <<rpc, faults>>
     \/ ~stopB /\ transport = "tcp" /\ Fault /\ lpc' = "join" /\ UNCHANGED rpc
  /\ UNCHANGED <<config, sideA, conns, authed, pub, stoppB>>

\* Mutant of JoinReaders: the listener ends without its readers.
JoinReadersSkipped ==
  /\ lpc = "join"
  /\ lpc' = "done"
  /\ conns' = HungUp(Unaccepted)
  /\ UNCHANGED <<config, sideA, faults, readers, pub, stoppB>>

\* TCP: join the readers, then the listening socket closes.  QUIC: the
\* endpoint closes every connection at once and joins nobody.
JoinReaders ==
  /\ lpc = "join"
  /\ transport = "tcp" => ReadersDone
  /\ lpc' = "done"
  /\ conns' = HungUp(IF transport = "tcp" THEN Unaccepted ELSE DOMAIN conns)
  /\ UNCHANGED <<config, sideA, faults, readers, pub, stoppB>>

ReaderEnds(c) ==
  /\ rpc' = [rpc EXCEPT ![c] = "done"] /\ conns' = HungUp({c})

\* The flag, then a read that ends the loop: an error or the end of file.
ReaderStops(c) ==
  /\ rpc[c] = "loop"
  /\ stopB \/ (conns[c].data = <<>> /\ (conns[c].eof \/ ~conns[c].up))
  /\ ReaderEnds(c)
  /\ UNCHANGED <<config, sideA, faults, lpc, authed, pub, stoppB>>

\* handle_frame: drop what carries our own origin, and what is not received.
Wanted(f) == peer # "twin" /\ f.topic \in Receive

\* The first frame must be a PeerHello with a key from accepted_psks.
Authenticated(f) == f = Hello /\ peer # "stranger"

Took(c) == conns' = [conns EXCEPT ![c].data = Tail(@)]

\* A read that brings one more frame.
ReaderFrame(c) ==
  /\ rpc[c] = "loop" /\ ~stopB /\ conns[c].data # <<>>
  /\ LET f == Head(conns[c].data) IN
     \/ /\ ~authed[c] /\ Authenticated(f) /\ Took(c)
        /\ authed' = [authed EXCEPT ![c] = TRUE] /\ UNCHANGED <<rpc, chan>>
     \/ /\ ~authed[c] /\ ~Authenticated(f) /\ ReaderEnds(c)
        /\ UNCHANGED <<authed, chan>>
     \/ /\ authed[c] /\ Took(c)
        /\ chan' = IF Wanted(f) /\ ppc # "done"
                     THEN Append(chan, [f |-> f, conn |-> c]) ELSE chan
        /\ UNCHANGED <<rpc, authed>>
  /\ UNCHANGED <<config, sideA, faults, lpc, ppc, out, stoppB>>

\* publisher_main: the flag, then recv_timeout and Bus::publish, whose error
\* is only logged.  The channel is disconnected when every sender has gone.
PublisherStep ==
  /\ ppc = "loop"
  /\ \/ /\ stopB /\ ppc' = "done" /\ chan' = <<>> /\ UNCHANGED <<out, faults>>
     \/ /\ ~stopB /\ chan # <<>> /\ chan' = Tail(chan)
        /\ \/ out' = Append(out, Head(chan)) /\ UNCHANGED faults
           \/ Fault /\ UNCHANGED out
        /\ UNCHANGED ppc
  /\ UNCHANGED <<config, sideA, conns, lpc, readers, stoppB>>

-----------------------------------------------------------------------------
(* shutdown_inner of either bridge *)

MayStop == Cardinality({s \in {1, 2} : <<stopA, stopB>>[s]}) < MaxStops

StopA ==
  /\ MayStop /\ apc = "run"
  /\ stopA' = TRUE /\ apc' = "clear"
  /\ UNCHANGED <<config, local, subs, peerq, quic, fwd, net, sideB>>

\* peer_tx.clear() drops the bridge's own sender ...
ClearPeerTx ==
  /\ apc = "clear"
  /\ \/ senders["bridge"] = "held" /\ DropLooks("bridge") /\ UNCHANGED apc
     \/ senders["bridge"] = "dropping" /\ DropReleases("bridge") /\ apc' = "join"
  /\ UNCHANGED <<config, local, spc, shand, queue, evicted, quic, fwd, stopA, net,
                 sideB>>

\* ... and the threads are joined, the QUIC task is not.
JoinA ==
  /\ apc = "join"
  /\ \A t \in Topics : spc[t] = "done"
  /\ transport = "tcp" => fpc = "done"
  /\ qpc = "done"
  /\ apc' = "done"
  /\ UNCHANGED <<config, local, subs, peerq, quic, fwd, stopA, net, sideB>>

StopB ==
  /\ MayStop /\ bpc = "run"
  /\ stopB' = TRUE /\ bpc' = "join"
  /\ UNCHANGED <<config, sideA, net, lpc, readers, pub>>

\* The TCP listener is a thread of rx_threads, the QUIC one a task.
JoinB ==
  /\ bpc = "join"
  /\ transport = "tcp" => lpc = "done"
  /\ ppc = "done"
  /\ bpc' = "done"
  /\ UNCHANGED <<config, sideA, net, lpc, readers, pub, stopB>>

-----------------------------------------------------------------------------
SubStep(t) == Subscribe(t) \/ SubRecv(t) \/ SubSend(t) \/ SubDrop(t)
QueueBridgeStep == QueueBridgePop \/ QueueBridgeSend
FwdStep == Connect \/ WriteHello \/ Pop \/ WriteFrame
ListenerStep == Accept \/ JoinReaders
ReaderStep(c) == ReaderStops(c) \/ ReaderFrame(c)
ShutdownStepA == ClearPeerTx \/ JoinA

Next ==
  \/ \E t \in Topics : Publish(t) \/ SubStep(t)
  \/ QueueBridgeStep \/ FwdStep
  \/ \E c \in ConnIds : Break(c) \/ ReaderStep(c)
  \/ ListenerStep \/ PublisherStep
  \/ StopA \/ ShutdownStepA \/ StopB \/ JoinB

Spec == Init /\ [][Next]_vars

\* Every thread and task is scheduled, its timeouts included.  Nobody has to
\* publish, to shut a bridge down, or to break a connection.
Fairness ==
  /\ \A t \in Topics : WF_vars(SubStep(t))
  /\ WF_vars(QueueBridgeStep) /\ WF_vars(FwdStep)
  /\ WF_vars(ListenerStep) /\ \A c \in ConnIds : WF_vars(ReaderStep(c))
  /\ WF_vars(PublisherStep) /\ WF_vars(ShutdownStepA) /\ WF_vars(JoinB)

FairSpec == Spec /\ Fairness

-----------------------------------------------------------------------------
(* Properties *)

\* A frame is popped before it is written and never written again: whatever
\* connection broke, at whatever byte, no message is republished twice.
AtMostOnce == \A i, j \in DOMAIN out : out[i].f = out[j].f => i = j

\* Evictions, reconnects and the two queues keep a topic's order: what one
\* connection brings is republished in the order it was published.
OrderedPerConnection ==
  \A i, j \in DOMAIN out :
    i < j /\ out[i].conn = out[j].conn /\ out[i].f.topic = out[j].f.topic
      => out[i].f.n < out[j].f.n

\* The order over all connections: a reader that is still draining a broken
\* connection races the reader of the next one.
OrderedPerTopic ==
  \A i, j \in DOMAIN out :
    i < j /\ out[i].f.topic = out[j].f.topic => out[i].f.n < out[j].f.n

\* "evicts the oldest entry": a peer that was away is sent the newest frames;
\* nothing that is still queued is older than anything thrown out.
NewestKept ==
  \A e \in evicted : \A i \in DOMAIN queue :
    queue[i].topic = e.topic => e.n < queue[i].n

\* "drop ... to stop and join all threads": after shutdown of the receiver no
\* thread of it is left that could still read or publish.
NothingOutlives ==
  /\ bpc = "done" => ppc = "done" /\ (transport = "tcp" => ReadersDone)
  /\ apc = "done" => \A t \in Topics : spc[t] = "done" /\ senders[t] = "gone"

\* shutdown returns: no join waits for a thread that waits for something
\* else, even when two senders drop at once and the queue is never closed.
ShutdownReturns ==
  /\ (apc = "clear") ~> (apc = "done")
  /\ (bpc = "join") ~> (bpc = "done")

\* While both bridges run, a queue does not hold a frame for ever: a broken
\* connection is made again, and what is queued goes out.
QueueDrains ==
  (queue # <<>>) ~>
    (queue = <<>> \/ stopA \/ stopB \/ lpc # "accept" \/ Len(conns) = MaxConns)

=============================================================================
