------------------------------- MODULE Wakeup -------------------------------
(***************************************************************************)
(* How a sleeping subscriber learns of a publish: the eventcount handshake *)
(* on the wakeup-flag table (ring.rs, Subscriber::wait_readable and        *)
(* arm_wakeup, Publisher::broadcast_wakeup), the connection handshake that *)
(* fills the publisher's client list (Subscriber::connect_with,            *)
(* Publisher::accept_clients), and the reaping of clients that left.       *)
(*                                                                         *)
(* A member of Subs is one connection: a process that subscribes again is  *)
(* another member.  The SeqCst fences of both sides make the accesses to   *)
(* the tail and to the flags sequentially consistent, so they are plain    *)
(* interleaved steps.  The contents of the ring are in module Ring: here a *)
(* receive only moves the cursor by one.                                   *)
(***************************************************************************)
EXTENDS Integers, Sequences, FiniteSets

CONSTANTS
  Subs,      \* subscriber connections
  MaxSubs,   \* entries of the cursor and wakeup-flag tables
  Wakers,    \* how to wake: "eventfd" (Linux), "socket", a byte on it (macOS)
  MayExit,   \* may the publisher exit?
  MayKill,   \* may a subscriber be killed?
  MaxBatch,  \* bound: messages of one publish_many
  MaxTail    \* bound: messages published

ASSUME WakeupConstantsOK ==
  /\ MaxSubs \in Nat \ {0}
  /\ MaxBatch \in Nat \ {0}
  /\ MaxTail \in Nat
  /\ Wakers \subseteq {"eventfd", "socket"}
  /\ MayExit \in BOOLEAN /\ MayKill \in BOOLEAN

VARIABLES
  waker,                     \* the way the crate was built to wake
  tail, claimed, flag,       \* the mapping: tail, cursor and wakeup-flag tables
  backlog,                   \* connections the listener has not accepted
  clients,                   \* Publisher::clients
  ppc, pi, todo, count,      \* the publisher's call
  pc, idx, cursor,           \* the subscribers
  wakeups,                   \* per connection: eventfd count or unread bytes
  sent,                      \* connections whose handshake has been sent
  served                     \* history: how the last broadcast saw each one

table    == <<tail, claimed, flag>>
pubvars  == <<clients, ppc, pi, todo, count, served>>
subvars  == <<pc, idx, cursor, sent>>
vars     == <<table, backlog, pubvars, subvars, wakeups, waker>>

SubIdx == 0..(MaxSubs - 1)

SubGoto(r, l) == pc' = [pc EXCEPT ![r] = l]

Elems(s) == {s[i] : i \in DOMAIN s}

\* The publisher's end of the connection's socket is open.
Linked(r) == r \in Elems(backlog) \cup Elems(clients)

\* r is the only client entry with r's slot index.
Sole(r) ==
  r \in Elems(clients) /\ \A q \in Elems(clients) : idx[q] = idx[r] => q = r

Standing(r) ==
  CASE Sole(r) -> "sole"
    [] r \in Elems(clients) /\ ~Sole(r) -> "shared"
    [] OTHER -> "late"

Init ==
  /\ waker \in Wakers
  /\ tail = 0
  /\ claimed = [i \in SubIdx |-> FALSE]
  /\ flag = [i \in SubIdx |-> FALSE]
  /\ backlog = <<>> /\ clients = <<>>
  /\ ppc = "idle" /\ pi = 1 /\ todo = 0 /\ count = 0
  /\ pc = [r \in Subs |-> "off"]
  /\ idx = [r \in Subs |-> 0]
  /\ cursor = [r \in Subs |-> 0]
  /\ wakeups = [r \in Subs |-> 0]
  /\ sent = {}
  /\ served = [r \in Subs |-> "late"]

-----------------------------------------------------------------------------
(* The publisher *)

PubGoto(l) == ppc' = l /\ pi' = 1

\* publish (one message) or publish_many.
Publish(n) ==
  /\ ppc = "idle"
  /\ tail + n <= MaxTail
  /\ PubGoto("accept")
  /\ todo' = n /\ count' = 0
  /\ UNCHANGED <<table, backlog, clients, served, subvars, wakeups, waker>>

\* One round of wait_for_subscribers.
WaitForSubscribers ==
  /\ ppc = "idle"
  /\ PubGoto("accept")
  /\ todo' = 0 /\ count' = 0
  /\ UNCHANGED <<table, backlog, clients, served, subvars, wakeups, waker>>

\* accept_clients: recv_fd blocks until the peer has sent its handshake.
AcceptClient ==
  /\ ppc = "accept"
  /\ backlog # <<>>
  /\ Head(backlog) \in sent
  /\ clients' = Append(clients, Head(backlog))
  /\ backlog' = Tail(backlog)
  /\ UNCHANGED <<table, ppc, pi, todo, count, served, subvars, wakeups, waker>>

\* Mutant of AcceptFails: wait again for the handshake of a dead peer.
AcceptRetries ==
  /\ ppc = "accept"
  /\ backlog # <<>>
  /\ Head(backlog) \notin sent /\ pc[Head(backlog)] = "dead"
  /\ UNCHANGED vars

\* The peer died before it sent its handshake: the call returns the error.
AcceptFails ==
  /\ ppc = "accept"
  /\ backlog # <<>>
  /\ Head(backlog) \notin sent /\ pc[Head(backlog)] = "dead"
  /\ backlog' = Tail(backlog)
  /\ PubGoto("idle")
  /\ UNCHANGED <<table, clients, todo, count, served, subvars, wakeups, waker>>

AcceptDone ==
  /\ ppc = "accept"
  /\ backlog = <<>>
  /\ PubGoto(IF todo = 0 THEN "idle" ELSE "write")
  /\ UNCHANGED <<table, backlog, clients, todo, count, served, subvars,
                 wakeups, waker>>

\* try_publish or publish_drop_oldest: the tail store of write_slot.
StoreTail ==
  /\ ppc = "write"
  /\ todo > 0
  /\ tail' = tail + 1
  /\ todo' = todo - 1 /\ count' = count + 1
  /\ UNCHANGED <<claimed, flag, backlog, clients, ppc, pi, served, subvars,
                 wakeups, waker>>

\* End of the batch, or a full ring, an oversize item or a failed WAL append
\* that ends it early.  What was published is broadcast in every case.
EndBatch ==
  /\ ppc = "write"
  /\ PubGoto(IF count > 0 /\ clients # <<>> THEN "visit" ELSE "idle")
  /\ served' = IF count > 0 THEN [r \in Subs |-> Standing(r)] ELSE served
  /\ UNCHANGED <<table, backlog, clients, todo, count, subvars,
                 wakeups, waker>>

\* Mutant of SwapRemove: drops the last client, whichever was asked for.
RemoveLast(s, i) == SubSeq(s, 1, Len(s) - 1)

SwapRemove(s, i) == SubSeq([s EXCEPT ![i] = s[Len(s)]], 1, Len(s) - 1)

\* Mutant of VisitClient: reaping is left to a failing wake.
VisitClientNoReap ==
  /\ ppc = "visit"
  /\ pi <= Len(clients)
  /\ ppc' = "take"
  /\ UNCHANGED <<table, backlog, clients, pi, todo, count, served, subvars,
                 wakeups, waker>>

\* broadcast_wakeup, client i: reap it if its cursor slot is released...
VisitClient ==
  /\ ppc = "visit"
  /\ pi <= Len(clients)
  /\ IF claimed[idx[clients[pi]]]
       THEN ppc' = "take" /\ clients' = clients
       ELSE ppc' = ppc /\ clients' = SwapRemove(clients, pi)
  /\ UNCHANGED <<table, backlog, pi, todo, count, served, subvars,
                 wakeups, waker>>

\* ...skip it unless its wakeup flag is set...
TakeWakeflag ==
  /\ ppc = "take"
  /\ LET i == idx[clients[pi]] IN
     /\ flag' = [flag EXCEPT ![i] = FALSE]
     /\ IF flag[i] THEN ppc' = "wake" /\ pi' = pi
                   ELSE ppc' = "visit" /\ pi' = pi + 1
  /\ UNCHANGED <<tail, claimed, backlog, clients, todo, count, served, subvars,
                 wakeups, waker>>

Gone(r) == pc[r] \in {"closed", "dead"}

\* ...and wake it.  An eventfd write succeeds whatever the reader did; a
\* send on the socket fails once the peer has closed, and reaps the client.
Wake ==
  /\ ppc = "wake"
  /\ ppc' = "visit"
  /\ LET r == clients[pi] IN
     IF waker = "eventfd" \/ ~Gone(r)
       THEN /\ wakeups' = [wakeups EXCEPT ![r] = @ + 1]
            /\ pi' = pi + 1 /\ clients' = clients
       ELSE /\ clients' = SwapRemove(clients, pi)
            /\ pi' = pi /\ wakeups' = wakeups
  /\ UNCHANGED <<table, backlog, todo, count, served, subvars, waker>>

BroadcastDone ==
  /\ ppc = "visit"
  /\ pi > Len(clients)
  /\ PubGoto("idle")
  /\ UNCHANGED <<table, backlog, clients, todo, count, served, subvars,
                 wakeups, waker>>

\* The publisher is dropped or dies: its sockets and its listener close.
PublisherExits ==
  /\ MayExit
  /\ ppc # "exited"
  /\ PubGoto("exited")
  /\ backlog' = <<>> /\ clients' = <<>>
  /\ UNCHANGED <<table, todo, count, served, subvars, wakeups, waker>>

-----------------------------------------------------------------------------
(* Subscriber::connect_with *)

\* claim_cursor takes the first free slot with a compare-exchange...
ClaimCursor(r) ==
  /\ pc[r] = "off"
  /\ \E i \in SubIdx :
       /\ ~claimed[i] /\ \A j \in SubIdx : j < i => claimed[j]
       /\ claimed' = [claimed EXCEPT ![i] = TRUE]
       /\ idx' = [idx EXCEPT ![r] = i]
  /\ SubGoto(r, "claiming")
  /\ UNCHANGED <<tail, flag, backlog, pubvars, cursor, sent, wakeups, waker>>

\* Mutant of ResetWakeflag: the flag of the previous tenant stays.
KeepWakeflag(r) ==
  /\ pc[r] = "claiming"
  /\ SubGoto(r, "claimed")
  /\ UNCHANGED <<table, backlog, pubvars, idx, cursor, sent, wakeups, waker>>

\* ...and then clears a stale wakeup flag.
ResetWakeflag(r) ==
  /\ pc[r] = "claiming"
  /\ flag' = [flag EXCEPT ![idx[r]] = FALSE]
  /\ SubGoto(r, "claimed")
  /\ UNCHANGED <<tail, claimed, backlog, pubvars, idx, cursor, sent,
                 wakeups, waker>>

ConnectSocket(r) ==
  /\ pc[r] = "claimed"
  /\ ppc # "exited"
  /\ backlog' = Append(backlog, r)
  /\ SubGoto(r, "linked")
  /\ UNCHANGED <<table, pubvars, idx, cursor, sent, wakeups, waker>>

\* send_fd: the eventfd and the slot index.
SendFd(r) ==
  /\ pc[r] = "linked"
  /\ Linked(r)
  /\ sent' = sent \cup {r}
  /\ SubGoto(r, "sent")
  /\ UNCHANGED <<table, backlog, pubvars, idx, cursor, wakeups, waker>>

\* The deadline passed without a listener, or the send failed.
ConnectFails(r) ==
  /\ pc[r] \in {"claimed", "linked"}
  /\ ~Linked(r) /\ ppc = "exited"
  /\ claimed' = [claimed EXCEPT ![idx[r]] = FALSE]
  /\ SubGoto(r, "closed")
  /\ UNCHANGED <<tail, flag, backlog, pubvars, idx, cursor, sent,
                 wakeups, waker>>

\* The second read of the tail seats the cursor (StartPos::Now).
Resync(r) ==
  /\ pc[r] = "sent"
  /\ cursor' = [cursor EXCEPT ![r] = tail]
  /\ SubGoto(r, "ready")
  /\ UNCHANGED <<table, backlog, pubvars, idx, sent, wakeups, waker>>

-----------------------------------------------------------------------------
(* The receive loop: receive_into, receive_timeout_into, and the asyncio   *)
(* recv that awaits the wakeup fd.                                         *)

Receive(r) ==
  /\ pc[r] = "ready"
  /\ cursor[r] < tail
  /\ cursor' = [cursor EXCEPT ![r] = @ + 1]
  /\ UNCHANGED <<table, backlog, pubvars, pc, idx, sent, wakeups, waker>>

\* try_receive returned None.
RingEmpty(r) ==
  /\ pc[r] = "ready"
  /\ cursor[r] >= tail
  /\ SubGoto(r, "empty")
  /\ UNCHANGED <<table, backlog, pubvars, idx, cursor, sent, wakeups, waker>>

SetWakeflag(r) ==
  /\ pc[r] = "empty"
  /\ flag' = [flag EXCEPT ![idx[r]] = TRUE]
  /\ SubGoto(r, "recheck")
  /\ UNCHANGED <<tail, claimed, backlog, pubvars, idx, cursor, sent,
                 wakeups, waker>>

\* Mutant of Recheck: sleep on the first look at the ring.
RecheckSkipped(r) ==
  /\ pc[r] = "recheck"
  /\ \E l \in {"asleep", "awaiting"} : SubGoto(r, l)
  /\ UNCHANGED <<table, backlog, pubvars, idx, cursor, sent, wakeups, waker>>

\* Behind the fence: read again if the tail moved, else sleep in poll
\* (wait_readable) or await the fd (arm_wakeup).
Recheck(r) ==
  /\ pc[r] = "recheck"
  /\ IF cursor[r] < tail THEN SubGoto(r, "unflag")
                         ELSE \E l \in {"asleep", "awaiting"} : SubGoto(r, l)
  /\ UNCHANGED <<table, backlog, pubvars, idx, cursor, sent, wakeups, waker>>

Sleeping(r) == pc[r] \in {"asleep", "awaiting"}

\* Woken: one unit is drained.  poll_wakeup looks at the socket's hangup
\* first; a socket read returns the bytes before the end of file.
WakeUp(r) ==
  /\ Sleeping(r)
  /\ wakeups[r] > 0
  /\ pc[r] = "asleep" /\ waker = "eventfd" => Linked(r)
  /\ wakeups' = [wakeups EXCEPT ![r] = @ - 1]
  /\ SubGoto(r, IF pc[r] = "asleep" THEN "unflag" ELSE "ready")
  /\ UNCHANGED <<table, backlog, pubvars, idx, cursor, sent, waker>>

\* The publisher's end of the socket closed: UnexpectedEof.
HangUp(r) ==
  /\ Sleeping(r)
  /\ ~Linked(r)
  /\ waker = "eventfd" \/ wakeups[r] = 0
  /\ flag' = IF pc[r] = "asleep" THEN [flag EXCEPT ![idx[r]] = FALSE] ELSE flag
  /\ SubGoto(r, "eof")
  /\ UNCHANGED <<tail, claimed, backlog, pubvars, idx, cursor, sent,
                 wakeups, waker>>

\* poll timed out, or the awaiting task was cancelled, which leaves the flag.
Timeout(r) ==
  /\ Sleeping(r)
  /\ SubGoto(r, IF pc[r] = "asleep" THEN "unflag" ELSE "ready")
  /\ UNCHANGED <<table, backlog, pubvars, idx, cursor, sent, wakeups, waker>>

ClearWakeflag(r) ==
  /\ pc[r] = "unflag"
  /\ flag' = [flag EXCEPT ![idx[r]] = FALSE]
  /\ SubGoto(r, "ready")
  /\ UNCHANGED <<tail, claimed, backlog, pubvars, idx, cursor, sent,
                 wakeups, waker>>

\* poll_recv or drain_wakeup outside a wait.
DrainWakeup(r) ==
  /\ pc[r] = "ready"
  /\ wakeups[r] > 0
  /\ wakeups' = [wakeups EXCEPT ![r] = @ - 1]
  /\ UNCHANGED <<table, backlog, pubvars, subvars, waker>>

\* Drop releases the cursor slot; the fields, sockets included, go after it.
Drop(r) ==
  /\ pc[r] \in {"ready", "eof"}
  /\ claimed' = [claimed EXCEPT ![idx[r]] = FALSE]
  /\ SubGoto(r, "closing")
  /\ UNCHANGED <<tail, flag, backlog, pubvars, idx, cursor, sent,
                 wakeups, waker>>

CloseSocket(r) ==
  /\ pc[r] = "closing"
  /\ SubGoto(r, "closed")
  /\ UNCHANGED <<table, backlog, pubvars, idx, cursor, sent, wakeups, waker>>

\* The process is killed: the kernel closes its socket, its slot stays.
Killed(r) ==
  /\ MayKill
  /\ pc[r] \notin {"off", "closing", "closed", "dead"}
  /\ SubGoto(r, "dead")
  /\ UNCHANGED <<table, backlog, pubvars, idx, cursor, sent, wakeups, waker>>

-----------------------------------------------------------------------------
CallStep ==
  \/ AcceptClient \/ AcceptFails \/ AcceptDone \/ StoreTail \/ EndBatch
  \/ VisitClient \/ TakeWakeflag \/ Wake \/ BroadcastDone

ConnectStep(r) ==
  \/ ClaimCursor(r) \/ ResetWakeflag(r) \/ ConnectSocket(r) \/ SendFd(r)
  \/ ConnectFails(r) \/ Resync(r)

ReceiveStep(r) ==
  \/ Receive(r) \/ RingEmpty(r) \/ SetWakeflag(r) \/ Recheck(r)
  \/ WakeUp(r) \/ HangUp(r) \/ ClearWakeflag(r)

Next ==
  \/ \E n \in 1..MaxBatch : Publish(n)
  \/ WaitForSubscribers \/ CallStep \/ PublisherExits
  \/ \E r \in Subs :
       \/ ConnectStep(r) \/ ReceiveStep(r)
       \/ Timeout(r) \/ DrainWakeup(r) \/ Drop(r) \/ CloseSocket(r) \/ Killed(r)

Spec == Init /\ [][Next]_vars

\* The publisher finishes the call it is in, and a subscriber that started
\* to connect finishes and keeps receiving.  Nobody has to publish, to
\* subscribe, to leave, or to time out.
Fairness ==
  /\ WF_vars(CallStep)
  /\ \A r \in Subs :
       /\ WF_vars(\/ ResetWakeflag(r) \/ ConnectSocket(r) \/ SendFd(r)
                  \/ ConnectFails(r) \/ Resync(r))
       /\ WF_vars(ReceiveStep(r))
       /\ WF_vars(CloseSocket(r))

FairSpec == Spec /\ Fairness

-----------------------------------------------------------------------------
(* Properties *)

SubPC == {"off", "claiming", "claimed", "linked", "sent", "ready", "empty",
          "recheck", "asleep", "awaiting", "unflag", "eof", "closing", "closed",
          "dead"}
PubPC == {"idle", "accept", "write", "visit", "take", "wake", "exited"}

\* Every variable has its type.
TypeOK ==
  /\ waker \in Wakers /\ tail \in Nat
  /\ claimed \in [SubIdx -> BOOLEAN] /\ flag \in [SubIdx -> BOOLEAN]
  /\ backlog \in Seq(Subs) /\ clients \in Seq(Subs)
  /\ ppc \in PubPC /\ pi \in Nat \ {0} /\ todo \in Nat /\ count \in Nat
  /\ pc \in [Subs -> SubPC]
  /\ idx \in [Subs -> SubIdx]
  /\ cursor \in [Subs -> Nat]
  /\ wakeups \in [Subs -> Nat]
  /\ sent \subseteq Subs
  /\ served \in [Subs -> {"sole", "shared", "late"}]

\* A subscriber that went to sleep with a message in the ring and has no
\* wakeup on its way: it sleeps until somebody publishes again.
Overslept(r) == Sleeping(r) /\ cursor[r] < tail /\ wakeups[r] = 0

BroadcastOver == ppc \in {"idle", "accept"}

\* The eventcount handshake of wait_readable and broadcast_wakeup: whatever
\* the order of the flag store, the tail store, the re-check and the flag
\* swap, a subscriber whose slot index only its own client entry carries is
\* never left asleep next to an unread message once publish has returned.
\* (Over a socket the entry of an older tenant may have taken its flag, failed
\* to wake and been removed one broadcast earlier.)
SoleClientWoken ==
  BroadcastOver /\ waker = "eventfd" => \A r \in Subs : served[r] = "sole" => ~Overslept(r)

\* The same for every subscriber the publisher had accepted when it
\* broadcast, also one whose slot index an older client entry still carries.
AcceptedWoken ==
  BroadcastOver => \A r \in Subs : served[r] # "late" => ~Overslept(r)

\* wait_readable: "Together they guarantee no missed wakeup - either we
\* observe the new tail here, or the publisher observes our flag and wakes
\* us", for every subscriber that has finished connecting.
NoMissedWakeup == BroadcastOver => \A r \in Subs : ~Overslept(r)

\* The reaping in broadcast_wakeup, swap_remove included, never throws out a
\* live subscriber: its socket hangs up only when the publisher is gone.
LiveClientsKept ==
  ppc # "exited" =>
    \A r \in Subs :
      pc[r] \in SubPC \ {"off", "claiming", "claimed", "closing", "closed", "dead"}
        => Linked(r)

\* claim_cursor resets "any stale wakeup flag left by a previous tenant": the
\* flag of a cancelled wait does not outlive the subscriber that set it.
NoInheritedFlag ==
  \A r \in Subs : pc[r] \in {"claimed", "linked", "sent"} => ~flag[idx[r]]

\* publish returns: neither a subscriber that connects slowly, nor one that
\* dies half way through the handshake, nor the reaping loop blocks it.
PublishReturns == (ppc # "idle") ~> (ppc \in {"idle", "exited"})

\* A clean disconnect is reaped by the next broadcast, although an eventfd
\* write to it would succeed, unless its slot is taken again first.
DropReaped ==
  \A r \in Subs :
    (/\ ppc = "visit" /\ pi = 1
     /\ r \in Elems(clients) /\ pc[r] = "closed" /\ ~claimed[idx[r]])
      ~> (r \notin Elems(clients) \/ claimed[idx[r]])

\* A subscriber the publisher knows when it publishes message n receives it,
\* however it sleeps, times out or is woken, unless it leaves first.
AcceptedReceive ==
  \A r \in Subs, n \in 0..(MaxTail - 1) :
    (/\ ppc = "visit" /\ served[r] = "sole"
     /\ pc[r] \in {"ready", "empty", "recheck", "asleep", "awaiting", "unflag"}
     /\ cursor[r] <= n /\ n < tail)
      ~> (cursor[r] > n \/ pc[r] \in {"eof", "closing", "closed", "dead"})

=============================================================================
