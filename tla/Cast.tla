-------------------------------- MODULE Cast --------------------------------
(***************************************************************************)
(* One channel of an mmcast Broadcast (crates/mmcast, _broadcast.py) with  *)
(* the AsyncSubscription it reads from (python/mmbus/__init__.py).  The    *)
(* channel opens one mmbus subscription per peer shard, under its          *)
(* _start_lock, and a fan-out task per subscription copies what it reads   *)
(* into the bounded queue of every consumer.  A reconnect task retries the *)
(* shards that were offline.                                               *)
(*                                                                         *)
(* Everything runs on one event loop: a step is what a task does between   *)
(* two awaits that can suspend it.  A message is the shard it came from    *)
(* and its number there; what a ring may lose is the Ring module's matter. *)
(***************************************************************************)
EXTENDS Integers, SequencesExt, FiniteSetsExt

CONSTANTS
  Peers,       \* shards to fan in from (_peers_or_default)
  Self,        \* the shard of this process, worker_id
  Subs,        \* consumers: tasks that call subscribe and iterate
  Policies,    \* the assignments of a slow_policy to consumers considered
  QueueDepth,  \* queue_depth
  ReplayLast,  \* replay_last of the first subscribe
  MaxMsgs,     \* bound: messages per shard
  MaxUpsets    \* bound: publishers that exit, subscriptions left, calls of
               \* __anext__ cancelled and failures to open a shard, together

SlowPolicies == {"drop_oldest", "drop_newest", "disconnect"}

ASSUME CastConstantsOK ==
  /\ Self \in Peers /\ {"reconnect", "free"} \cap Subs = {}
  /\ Policies \subseteq [Subs -> SlowPolicies]
  /\ QueueDepth \in Nat \ {0} /\ ReplayLast \in Nat
  /\ MaxMsgs \in Nat /\ MaxUpsets \in Nat

VARIABLES
  \* the shards
  online, sent, born,      \* has a publisher? messages so far, its first one
  \* _Channel
  closed, cpc,             \* _closed, progress of close
  mine, attempted,         \* _publisher is ours, _publisher_attempted
  lock, tpc, want,         \* _start_lock; tasks in start_subscriptions, their pending
  mmsubs,                  \* keys of _mmbus_subs
  fan,                     \* mmbus subscriptions with their fan-out task
  attached,                \* _subs
  \* Subscription
  policy, queue, shut, ev, \* _slow_policy, _queue, _closed, _close_event
  cons, hold,              \* the consumer in __anext__, the item of its get_task
  slow,                    \* slow_count
  \* history
  got, offered,            \* what a consumer has had; fanned out to it
  spoilt, orphan,          \* consumers cancelled with an item; attached too late
  raised, upsets           \* has opening a shard raised?

shards   == <<online, sent, born>>
slot     == <<mine, attempted>>
starting == <<lock, tpc, want, mmsubs>>
subState == <<policy, queue, shut, ev, slow, offered>>
consumer == <<cons, hold, got, spoilt>>
tally    == <<raised, upsets>>
vars == <<shards, closed, cpc, slot, starting, fan, attached, subState, consumer,
          tally, orphan>>

Tasks == Subs \cup {"reconnect"}
NoFan == [st |-> "none", todo |-> <<>>, cut |-> FALSE]
NoItem == [peer |-> "none", n |-> 0]

Init ==
  /\ online = [p \in Peers |-> FALSE] /\ sent = [p \in Peers |-> 0]
  /\ born = [p \in Peers |-> 1]
  /\ closed = FALSE /\ cpc = "open" /\ mine = FALSE /\ attempted = FALSE
  /\ lock = "free" /\ tpc = [t \in Tasks |-> "none"]
  /\ want = [t \in Tasks |-> {}] /\ mmsubs = {}
  /\ fan = [p \in Peers |-> [t \in Tasks |-> NoFan]] /\ attached = {}
  /\ policy \in Policies /\ queue = [s \in Subs |-> <<>>]
  /\ shut = [s \in Subs |-> FALSE] /\ ev = [s \in Subs |-> FALSE]
  /\ cons = [s \in Subs |-> "none"] /\ hold = [s \in Subs |-> NoItem]
  /\ slow = [s \in Subs |-> 0] /\ upsets = 0 /\ raised = FALSE
  /\ got = [s \in Subs |-> <<>>] /\ offered = [s \in Subs |-> 0]
  /\ spoilt = {} /\ orphan = {}

-----------------------------------------------------------------------------
(* The shards *)

Upset == upsets < MaxUpsets /\ upsets' = upsets + 1

Reading(p, t) == fan[p][t].st \notin {"none", "ended"}

\* A live subscription of shard p has one more message to read.
Fed(p, n) ==
  [fan EXCEPT ![p] =
     [t \in Tasks |-> IF Reading(p, t) /\ ~fan[p][t].cut
                        THEN [fan[p][t] EXCEPT !.todo = Append(@, n)]
                        ELSE fan[p][t]]]

\* The publisher of shard p has hung up on every subscription.
Cut(p) ==
  [fan EXCEPT ![p] =
     [t \in Tasks |-> IF Reading(p, t) THEN [fan[p][t] EXCEPT !.cut = TRUE]
                                       ELSE fan[p][t]]]

\* Another process opens shard p, for the first time or again.
PeerStarts(p) ==
  /\ ~online[p]
  /\ online' = [online EXCEPT ![p] = TRUE]
  /\ born' = [born EXCEPT ![p] = sent[p] + 1]
  /\ UNCHANGED <<sent, closed, cpc, slot, starting, fan, attached, subState,
                 consumer, tally, orphan>>

PeerExits(p) ==
  /\ online[p] /\ ~(p = Self /\ mine) /\ Upset
  /\ online' = [online EXCEPT ![p] = FALSE]
  /\ fan' = Cut(p)
  /\ UNCHANGED <<sent, born, closed, cpc, slot, starting, attached, subState,
                 consumer, raised, orphan>>

PeerPublishes(p) ==
  /\ online[p] /\ ~(p = Self /\ mine) /\ sent[p] < MaxMsgs
  /\ sent' = [sent EXCEPT ![p] = @ + 1] /\ fan' = Fed(p, sent'[p])
  /\ UNCHANGED <<online, born, closed, cpc, slot, starting, attached,
                 subState, consumer, tally, orphan>>

\* ensure_publisher: the slot is ours unless another process has it.
Claimed == mine \/ ~online[Self]

\* Broadcast.publish raises when closed or when the slot is taken.
Publish ==
  /\ ~closed /\ Claimed /\ sent[Self] < MaxMsgs
  /\ mine' = TRUE /\ online' = [online EXCEPT ![Self] = TRUE]
  /\ born' = IF mine THEN born ELSE [born EXCEPT ![Self] = sent[Self] + 1]
  /\ sent' = [sent EXCEPT ![Self] = @ + 1] /\ fan' = Fed(Self, sent'[Self])
  /\ UNCHANGED <<closed, cpc, attempted, starting, attached, subState, consumer,
                 tally, orphan>>

-----------------------------------------------------------------------------
(* subscribe, start_subscriptions and _reconnect_loop *)

Goto(t, l) == tpc' = [tpc EXCEPT ![t] = l]

\* The opener of subscribe gets the channel, or raises when closed.
Subscribe(s) ==
  /\ tpc[s] = "none" /\ cons[s] = "none" /\ ~closed
  /\ Goto(s, "lock")
  /\ UNCHANGED <<shards, closed, cpc, slot, lock, want, mmsubs, fan, attached,
                 subState, consumer, tally, orphan>>

\* The sleep of the reconnect loop is over.
Retry ==
  /\ tpc["reconnect"] = "sleep" /\ ~closed
  /\ Goto("reconnect", "lock")
  /\ UNCHANGED <<shards, closed, cpc, slot, lock, want, mmsubs, fan, attached,
                 subState, consumer, tally, orphan>>

\* Mutant of Returns: the loop is left to itself, and nobody starts it.
ReturnsUnwatched(t, keys) ==
  LET loop == Peers \ keys # {} /\ ~closed IN
  /\ tpc' = [tpc EXCEPT ![t] = IF t = "reconnect" /\ loop THEN "sleep" ELSE "none"]
  /\ attached' = IF t \in Subs THEN attached \cup {t} ELSE attached
  /\ cons' = IF t \in Subs THEN [cons EXCEPT ![t] = "idle"] ELSE cons
  /\ orphan' = IF t \in Subs /\ cpc = "done" THEN orphan \cup {t} ELSE orphan

\* What follows start_subscriptions when the keys are keys: the opener attaches
\* its Subscription, the loop goes round while a peer is missing.  Whoever
\* leaves a peer missing behind sees to it that the loop is running; a loop
\* started on a closed channel ends at once.
Returns(t, keys) ==
  LET loop == Peers \ keys # {} /\ ~closed IN
  /\ tpc' = [tpc EXCEPT ![t] = "none",
                        !["reconnect"] = CASE t = "reconnect" /\ loop -> "sleep"
                                           [] t = "reconnect" -> "none"
                                           [] @ = "none" /\ loop -> "sleep"
                                           [] OTHER -> @]
  /\ attached' = IF t \in Subs THEN attached \cup {t} ELSE attached
  /\ cons' = IF t \in Subs THEN [cons EXCEPT ![t] = "idle"] ELSE cons
  /\ orphan' = IF t \in Subs /\ cpc = "done" THEN orphan \cup {t} ELSE orphan

\* Mutant of LockFree: start_subscriptions does not wait for its lock.
LockIgnored == TRUE

LockFree == lock = "free"

\* The lock is ours: nothing to do when closed or when every peer is there,
\* else claim the publisher, once, and set out to open the missing peers.
Acquire(t) ==
  /\ tpc[t] = "lock" /\ LockFree
  /\ attempted' = (attempted \/ ~closed)
  /\ mine' = (mine \/ (~closed /\ ~attempted /\ Claimed))
  /\ online' = [online EXCEPT ![Self] = @ \/ mine']
  /\ born' = IF mine' /\ ~mine THEN [born EXCEPT ![Self] = sent[Self] + 1] ELSE born
  /\ LET pending == Peers \ mmsubs IN
     IF closed \/ pending = {}
       THEN Returns(t, Peers) /\ UNCHANGED <<lock, want>>
       ELSE /\ lock' = t /\ want' = [want EXCEPT ![t] = pending]
            /\ Goto(t, "gather") /\ UNCHANGED <<attached, cons, orphan>>
  /\ UNCHANGED <<sent, closed, cpc, mmsubs, fan, subState, hold, got, spoilt,
                 tally>>

\* The messages of shard p that subscribe_with_history begins with.
History(p) ==
  LET first == Max({born[p], sent[p] - ReplayLast + 1})
  IN  [i \in 1..(sent[p] - first + 1) |-> first + i - 1]

\* _open_mmbus_sub: the subscription, or None when nobody answers in time.
OpenPeer(t, p) ==
  /\ tpc[t] = "gather" /\ p \in want[t]
  /\ fan' = IF online[p]
              THEN [fan EXCEPT ![p][t] = [st |-> "opened", todo |-> History(p),
                                          cut |-> FALSE]]
              ELSE fan
  /\ want' = [want EXCEPT ![t] = @ \ {p}]
  /\ UNCHANGED <<shards, closed, cpc, slot, lock, tpc, mmsubs, attached, subState,
                 consumer, tally, orphan>>

\* The subscriptions that gather had before it was given up.
Dropped(t) ==
  [p \in Peers |-> IF fan[p][t].st = "opened" THEN [fan[p] EXCEPT ![t] = NoFan]
                                             ELSE fan[p]]

\* Any other error, such as TooManySubscribersError, comes out of gather: the
\* caller of subscribe gets it, the reconnect loop logs it and ends.
GatherRaises(t) ==
  /\ tpc[t] = "gather" /\ Upset
  /\ Goto(t, "none") /\ lock' = "free" /\ want' = [want EXCEPT ![t] = {}]
  /\ fan' = Dropped(t) /\ raised' = TRUE
  /\ UNCHANGED <<shards, closed, cpc, slot, mmsubs, attached, subState, consumer,
                 orphan>>

\* gather is complete: register what was opened and start its fan-out tasks.
Register(t) ==
  /\ tpc[t] = "gather" /\ want[t] = {}
  /\ LET opened == {p \in Peers : fan[p][t].st = "opened"} IN
     /\ mmsubs' = mmsubs \cup opened
     /\ fan' = [p \in Peers |-> IF p \in opened
                                  THEN [fan[p] EXCEPT ![t].st = "read"] ELSE fan[p]]
  /\ lock' = "free" /\ Returns(t, mmsubs')
  /\ UNCHANGED <<shards, closed, cpc, slot, want, subState, hold, got, spoilt, tally>>

-----------------------------------------------------------------------------
(* _fanout over AsyncSubscription, and Subscription._enqueue *)

\* Mutant of OnFull: the oldest goes, and the newcomer with it.
OnFullBoth(s, m) ==
  CASE policy[s] = "drop_oldest" -> Tail(queue[s])
    [] OTHER -> queue[s]

\* What a full queue is left with when m comes; "disconnect" also closes.
OnFull(s, m) ==
  CASE policy[s] = "drop_oldest" -> Append(Tail(queue[s]), m)
    [] OTHER -> queue[s]

\* Mutant of CloseFromFanout: the flag without the event.
CloseFromFanoutSilent(ss) ==
  /\ shut' = [s \in Subs |-> shut[s] \/ s \in ss]
  /\ ev' = ev

\* _close_from_fanout for the consumers in ss.
CloseFromFanout(ss) ==
  /\ shut' = [s \in Subs |-> shut[s] \/ s \in ss]
  /\ ev' = [s \in Subs |-> ev[s] \/ s \in ss]

\* _enqueue, for every attached consumer that is not closed.
Enqueue(m) ==
  LET open == {s \in attached : ~shut[s]}
      full == {s \in open : Len(queue[s]) = QueueDepth} IN
  /\ queue' = [s \in Subs |-> CASE s \in full -> OnFull(s, m)
                                [] s \in open \ full -> Append(queue[s], m)
                                [] OTHER -> queue[s]]
  /\ slow' = [s \in Subs |-> IF s \in full THEN slow[s] + 1 ELSE slow[s]]
  /\ offered' = [s \in Subs |-> IF s \in open THEN offered[s] + 1 ELSE offered[s]]
  /\ CloseFromFanout({s \in full : policy[s] = "disconnect"})

FanFrame == UNCHANGED <<shards, closed, cpc, slot, starting, attached, policy,
                        consumer, tally, orphan>>

\* recv: try_recv while there is something, and fan it out ...
FanRead(p, t) ==
  /\ fan[p][t].st = "read" /\ fan[p][t].todo # <<>>
  /\ Enqueue([peer |-> p, n |-> Head(fan[p][t].todo)])
  /\ fan' = [fan EXCEPT ![p][t].todo = Tail(@)]
  /\ FanFrame

\* ... else arm_wakeup, which looks again, and await the two descriptors.
FanAwait(p, t) ==
  /\ fan[p][t].st = "read" /\ fan[p][t].todo = <<>>
  /\ fan' = [fan EXCEPT ![p][t].st = "await"]
  /\ UNCHANGED <<queue, slow, offered, shut, ev>> /\ FanFrame

\* on_data reads again; on_disconnect is EOFError, which __anext__ turns into
\* StopAsyncIteration: the loop of _fanout and its task are over.  When the
\* publisher has written and gone, either callback may come first.
FanWakes(p, t) ==
  /\ fan[p][t].st = "await"
  /\ \/ fan[p][t].todo # <<>> /\ fan' = [fan EXCEPT ![p][t].st = "read"]
     \/ fan[p][t].cut /\ fan' = [fan EXCEPT ![p][t] = [NoFan EXCEPT !.st = "ended"]]
  /\ UNCHANGED <<queue, slow, offered, shut, ev>> /\ FanFrame

-----------------------------------------------------------------------------
(* Subscription.__anext__ and __aexit__ *)

ConsFrame == UNCHANGED <<shards, closed, cpc, slot, starting, fan, attached, policy,
                         shut, ev, slow, offered, orphan>>

\* An item is there: it is delivered; closed: the iteration ends; else race a
\* get against the close event.
Next1(s) ==
  /\ cons[s] = "idle"
  /\ \/ /\ queue[s] # <<>> /\ got' = [got EXCEPT ![s] = Append(@, Head(queue[s]))]
        /\ queue' = [queue EXCEPT ![s] = Tail(@)] /\ UNCHANGED cons
     \/ /\ queue[s] = <<>>
        /\ cons' = [cons EXCEPT ![s] = IF shut[s] THEN "stopped" ELSE "wait"]
        /\ UNCHANGED <<got, queue>>
  /\ UNCHANGED <<hold, spoilt, tally>> /\ ConsFrame

\* get_task takes an item.
GetTask(s) ==
  /\ cons[s] = "wait" /\ hold[s] = NoItem /\ queue[s] # <<>>
  /\ hold' = [hold EXCEPT ![s] = Head(queue[s])]
  /\ queue' = [queue EXCEPT ![s] = Tail(@)]
  /\ UNCHANGED <<cons, got, spoilt, tally>> /\ ConsFrame

\* Mutant of Wake: the close ends the iteration without a last look.
WakeStops(s) ==
  /\ cons[s] = "wait"
  /\ \/ /\ hold[s] # NoItem /\ got' = [got EXCEPT ![s] = Append(@, hold[s])]
        /\ cons' = [cons EXCEPT ![s] = "idle"]
     \/ /\ hold[s] = NoItem /\ ev[s]
        /\ cons' = [cons EXCEPT ![s] = "stopped"] /\ UNCHANGED got
  /\ hold' = [hold EXCEPT ![s] = NoItem]
  /\ UNCHANGED <<queue, spoilt, tally>> /\ ConsFrame

\* The race is decided: the item of get_task, or the close event; then get_task
\* is cancelled, which leaves an item it has not taken in the queue, and one
\* more look at the queue.
Wake(s) ==
  /\ cons[s] = "wait"
  /\ \/ /\ hold[s] # NoItem /\ got' = [got EXCEPT ![s] = Append(@, hold[s])]
        /\ cons' = [cons EXCEPT ![s] = "idle"] /\ UNCHANGED queue
     \/ /\ hold[s] = NoItem /\ ev[s] /\ queue[s] # <<>>
        /\ got' = [got EXCEPT ![s] = Append(@, Head(queue[s]))]
        /\ queue' = [queue EXCEPT ![s] = Tail(@)]
        /\ cons' = [cons EXCEPT ![s] = "idle"]
     \/ /\ hold[s] = NoItem /\ ev[s] /\ queue[s] = <<>>
        /\ cons' = [cons EXCEPT ![s] = "stopped"] /\ UNCHANGED <<got, queue>>
  /\ hold' = [hold EXCEPT ![s] = NoItem]
  /\ UNCHANGED <<spoilt, tally>> /\ ConsFrame

\* The consumer is cancelled in its wait (a wait_for that times out): get_task
\* is cancelled too, but one that is done keeps its item for nobody.
Cancel(s) ==
  /\ cons[s] = "wait" /\ Upset
  /\ cons' = [cons EXCEPT ![s] = "idle"] /\ hold' = [hold EXCEPT ![s] = NoItem]
  /\ spoilt' = IF hold[s] = NoItem THEN spoilt ELSE spoilt \cup {s}
  /\ UNCHANGED raised
  /\ UNCHANGED <<queue, got>> /\ ConsFrame

\* __aexit__ of the subscription, from whichever task.
Leave(s) ==
  /\ s \in attached /\ Upset
  /\ attached' = attached \ {s}
  /\ shut' = [shut EXCEPT ![s] = TRUE] /\ ev' = [ev EXCEPT ![s] = TRUE]
  /\ UNCHANGED <<shards, closed, cpc, slot, starting, fan, policy, queue, slow,
                 offered, consumer, raised, orphan>>

-----------------------------------------------------------------------------
(* Broadcast.__aexit__ and _Channel.close *)

\* The flag, and every task is cancelled: the fan-outs, and the reconnect loop
\* wherever it is.  An opener is nobody's task: it goes on.
Close ==
  /\ cpc = "open"
  /\ closed' = TRUE /\ cpc' = "await"
  /\ fan' = [p \in Peers |-> [t \in Tasks |->
               IF fan[p][t].st \in {"read", "await"} \/ t = "reconnect"
                 THEN NoFan ELSE fan[p][t]]]
  /\ Goto("reconnect", "none") /\ want' = [want EXCEPT !["reconnect"] = {}]
  /\ lock' = IF lock = "reconnect" THEN "free" ELSE lock
  /\ UNCHANGED <<shards, slot, mmsubs, attached, subState, consumer, tally, orphan>>

\* The tasks have ended: close every consumer, let the publisher go.
CloseEnd ==
  /\ cpc = "await"
  /\ cpc' = "done" /\ mmsubs' = {}
  /\ CloseFromFanout(attached)
  /\ mine' = FALSE
  /\ online' = [online EXCEPT ![Self] = @ /\ ~mine]
  /\ fan' = IF mine THEN Cut(Self) ELSE fan
  /\ UNCHANGED <<sent, born, closed, attempted, lock, tpc, want, attached,
                 policy, queue, slow, offered, consumer, tally, orphan>>

-----------------------------------------------------------------------------
OpenStep(t) == Register(t) \/ \E p \in Peers : OpenPeer(t, p)
FanStep(p, t) == FanRead(p, t) \/ FanAwait(p, t) \/ FanWakes(p, t)
WaitStep(s) == GetTask(s) \/ Wake(s)

Next ==
  \/ \E p \in Peers : PeerStarts(p) \/ PeerExits(p) \/ PeerPublishes(p)
  \/ Publish
  \/ \E t \in Tasks : Acquire(t) \/ OpenStep(t) \/ GatherRaises(t)
  \/ Retry
  \/ \E p \in Peers, t \in Tasks : FanStep(p, t)
  \/ \E s \in Subs : Subscribe(s) \/ Next1(s) \/ WaitStep(s) \/ Cancel(s) \/ Leave(s)
  \/ Close \/ CloseEnd

Spec == Init /\ [][Next]_vars

\* The event loop runs every task that can run, timeouts included.  Nobody has
\* to publish, to subscribe, to call __anext__ again, or to close.
Fairness ==
  /\ \A t \in Tasks : WF_vars(Acquire(t) \/ OpenStep(t))
  /\ WF_vars(Retry) /\ WF_vars(CloseEnd)
  /\ \A p \in Peers, t \in Tasks : WF_vars(FanStep(p, t))
  /\ \A s \in Subs : WF_vars(WaitStep(s))

FairSpec == Spec /\ Fairness

-----------------------------------------------------------------------------
(* Properties *)

\* What a consumer has had, holds and has queued.
Taken(s) ==
  got[s] \o (IF hold[s] = NoItem THEN <<>> ELSE <<hold[s]>>) \o queue[s]

\* "Serialises start_subscriptions so concurrent subscribe() calls can't open
\* duplicate mmbus subscriptions": however openers, the reconnect loop, drops
\* and cancellations interleave, a consumer sees every shard in the order it
\* was published, no message twice.
InOrderOnce ==
  \A s \in Subs : \A i, j \in DOMAIN Taken(s) :
    i < j /\ Taken(s)[i].peer = Taken(s)[j].peer => Taken(s)[i].n < Taken(s)[j].n

\* slow_count tells the truth: what a consumer was offered it has had or will
\* have, or slow_count has counted it.
SlowCountExact ==
  \A s \in Subs \ spoilt : offered[s] = Len(Taken(s)) + slow[s]

\* "Drain-then-close": the iteration ends with nothing left behind, whichever
\* of a last item and the close came first.
DrainedAtStop ==
  \A s \in Subs : cons[s] = "stopped" => queue[s] = <<>> /\ hold[s] = NoItem

\* "a full queue can never strand the consumer": once a consumer is closed, by
\* overflow, by leaving or with the channel, its wait ends; and the close of
\* the channel reaches everyone who had attached.
NeverStranded ==
  \A s \in Subs :
    (cons[s] = "wait" /\ (shut[s] \/ closed)) ~>
      (cons[s] # "wait" \/ (s \in orphan /\ ~shut[s]))

\* "retried by a background reconnect loop until convergence": with a consumer
\* attached, a shard that has come up is subscribed to, unless opening a shard
\* raised something else.
Converges ==
  \A p \in Peers :
    (attached # {} /\ online[p] /\ p \notin mmsubs) ~>
      (p \in mmsubs \/ ~online[p] \/ attached = {} \/ closed \/ raised)

\* What docs/spec-mmcast-v0.1.md says of a publisher's restart: the iterator
\* of a consumer that had that shard ends, so that the caller can reconnect.
RestartEndsIterator ==
  \A s \in Subs, p \in Peers :
    (s \in attached /\ p \in mmsubs /\ \A t \in Tasks : ~Reading(p, t))
      ~> (s \notin attached \/ shut[s] \/ closed)

=============================================================================
