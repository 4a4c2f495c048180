------------------------------ MODULE Presence ------------------------------
(***************************************************************************)
(* The presence handles of one channel (crates/mmcast, _presence.py), one  *)
(* process per member.  A handle keeps a table of members with the time it *)
(* last heard of each; a heartbeat loop, a consume loop and an eviction    *)
(* loop run beside each other on the process's event loop, and a bounded   *)
(* queue tells the caller what has changed.                                *)
(*                                                                         *)
(* The records travel over the shards of a Broadcast, each of which a      *)
(* process reads with a fan-out of its own: in order from one sender to    *)
(* one receiver, and a slow receiver may lose some.  No loop is            *)
(* given a deadline: a heartbeat may come late and a scan too, so a member *)
(* may be evicted that is there.  A publish never suspends its caller (the *)
(* lock it takes is never held across an await), so the leave of __aexit__ *)
(* and the flag before it are one step.                                    *)
(***************************************************************************)
EXTENDS Integers, SequencesExt, FiniteSets

CONSTANTS
  Members,     \* the member ids; one handle at a time for each
  Settings,    \* the combinations considered of _MAX_MEMBERS, of the members
               \* whose process has the publisher slot that it needs, and of
               \* those whose caller iterates over the changes
  TTL,         \* ttl_secs in ticks, rounded down
  ChangesMax,  \* changes_queue_max
  MaxOpens,    \* bound: handles opened, all members together
  MaxLink,     \* bound: records under way from one member to another
  MaxFaults    \* bound: processes killed, records lost, __anext__ cancelled

ASSUME PresenceConstantsOK ==
  /\ IsFiniteSet(Members)
  /\ Settings \subseteq (Nat \ {0}) \X (SUBSET Members) \X (SUBSET Members)
  /\ TTL \in Nat /\ ChangesMax \in Nat \ {0}
  /\ MaxOpens \in Nat /\ MaxLink \in Nat \ {0} /\ MaxFaults \in Nat

VARIABLES
  cap,        \* _MAX_MEMBERS
  speakers,   \* the members that can publish
  listeners,  \* the members whose caller takes changes
  open,       \* the members with an open handle
  heard,      \* the members whose process has subscribed to the presence topic
  fan,        \* the fan-out in one process of the shard of another
  age,        \* _members: age of the last record of a member, or Absent
  changes,    \* _changes
  waiting,    \* the callers that wait in __anext__, for
  got,        \* what their get_task has taken
  orphans,    \* get tasks whose __anext__ was cancelled
  link,       \* records under way
  opens, faults,
  \* history
  view,       \* the members as told by the changes the caller has taken
  overrun,    \* handles whose change queue has overflowed
  spoilt      \* handles of which a cancelled __anext__ has swallowed a change

setting == <<cap, speakers, listeners>>
shards == <<link, heard, fan>>
iter   == <<waiting, got, orphans, spoilt>>
bounds == <<opens, faults>>
notes  == <<view, overrun>>
vars   == <<setting, open, age, changes, iter, shards, bounds, notes>>

Absent == -1

MembersOf(r) == {m \in Members : age[r][m] # Absent}

Init ==
  /\ \E x \in Settings : cap = x[1] /\ speakers = x[2] /\ listeners = x[3]
  /\ open = {} /\ heard = {}
  /\ fan = [r \in Members |-> [m \in Members |-> "none"]]
  /\ age = [r \in Members |-> [m \in Members |-> Absent]]
  /\ changes = [r \in Members |-> <<>>]
  /\ waiting = {} /\ got = [r \in Members |-> <<>>]
  /\ orphans = [r \in Members |-> 0] /\ spoilt = {}
  /\ link = [s \in Members |-> [r \in Members |-> <<>>]]
  /\ opens = 0 /\ faults = 0
  /\ view = [r \in Members |-> {}] /\ overrun = {}

Fault == faults < MaxFaults /\ faults' = faults + 1

\* _publish: a record to every process that reads the shard, the own included;
\* it fails when another process has the publisher slot.
Published(m, kind, readers) ==
  IF m \notin speakers THEN link
  ELSE [link EXCEPT ![m] = [r \in Members |->
          IF readers[r][m] \in {"open", "ending"} THEN Append(@[r], kind) ELSE @[r]]]

Room(m) == \A r \in Members : Len(link[m][r]) < MaxLink

-----------------------------------------------------------------------------
(* __aenter__ and __aexit__ *)

\* A handle is a new one, or no more: nothing is queued, nobody waits, and its
\* caller knows of ms.
Reset(m, ms) ==
  /\ changes' = [changes EXCEPT ![m] = <<>>]
  /\ waiting' = waiting \ {m} /\ got' = [got EXCEPT ![m] = <<>>]
  /\ orphans' = [orphans EXCEPT ![m] = 0] /\ spoilt' = spoilt \ {m}
  /\ view' = [view EXCEPT ![m] = ms]
  /\ overrun' = overrun \ {m}

\* A new handle: subscribe, count oneself in, publish the join.  A process that
\* has subscribed before still has what its fan-out has not yet read.
Enter(m) ==
  /\ m \notin open /\ opens < MaxOpens /\ Room(m)
  /\ opens' = opens + 1 /\ open' = open \cup {m}
  /\ heard' = heard \cup {m}
  /\ fan' = IF m \in speakers THEN [fan EXCEPT ![m][m] = "open"] ELSE fan
  /\ age' = [age EXCEPT ![m] = [x \in Members |-> IF x = m THEN 0 ELSE Absent]]
  /\ link' = Published(m, "join", fan')
  /\ Reset(m, {m})
  /\ UNCHANGED <<setting, faults>>

\* The handle of m is no more.  (Its caller may still drain the changes that
\* are queued, which nothing here is about.)
Forget(m) ==
  /\ open' = open \ {m}
  /\ age' = [age EXCEPT ![m] = [x \in Members |-> Absent]]
  /\ Reset(m, {})

\* The flag, the leave, and the loops are cancelled.  The fan-outs go on.
Exit(m) ==
  /\ m \in open /\ Room(m) /\ Forget(m)
  /\ link' = Published(m, "leave", fan)
  /\ UNCHANGED <<setting, heard, fan, bounds>>

\* The process is killed: no leave; what it sent is still under way, and the
\* fan-outs of its shard have it ahead of them to find the publisher gone.
Kill(m) ==
  /\ m \in heard /\ Fault /\ Forget(m)
  /\ heard' = heard \ {m}
  /\ fan' = [r \in Members |-> [x \in Members |->
       IF r = m THEN "none"
       ELSE IF x = m /\ fan[r][x] = "open" THEN "ending" ELSE fan[r][x]]]
  /\ link' = [s \in Members |-> [link[s] EXCEPT ![m] = <<>>]]
  /\ UNCHANGED <<setting, opens>>

-----------------------------------------------------------------------------
(* The fan-outs of Broadcast, one for each shard a process has opened *)

\* start_subscriptions, of a handle or of the reconnect loop: a shard that is
\* not in _mmbus_subs is opened once its publisher is there.
Reconnect(r, m) ==
  /\ r \in heard /\ m \in heard \cap speakers /\ fan[r][m] = "none"
  /\ fan' = [fan EXCEPT ![r][m] = "open"]
  /\ UNCHANGED <<setting, open, age, changes, iter, link, heard, bounds, notes>>

\* recv finds nothing more and the socket closed: _fanout returns, its shard
\* stays in _mmbus_subs, and nobody opens it again.
FanoutEnds(r, m) ==
  /\ fan[r][m] = "ending" /\ link[m][r] = <<>>
  /\ fan' = [fan EXCEPT ![r][m] = "ended"]
  /\ UNCHANGED <<setting, open, age, changes, iter, link, heard, bounds, notes>>

-----------------------------------------------------------------------------
(* The loops *)

\* _heartbeat_loop; bounded by what is under way.
Heartbeat(m) ==
  /\ m \in open /\ Room(m)
  /\ link' = Published(m, "heartbeat", fan)
  /\ UNCHANGED <<setting, open, heard, fan, age, changes, iter, bounds, notes>>

\* _emit_change for the changes cs, in some order: the oldest goes when full.
Emit(r, cs) ==
  LET all  == changes[r] \o cs
      lost == Len(all) - ChangesMax IN
  /\ changes' = [changes EXCEPT ![r] = IF lost > 0 THEN SubSeq(all, lost + 1, Len(all))
                                                   ELSE all]
  /\ overrun' = IF lost > 0 THEN overrun \cup {r} ELSE overrun

Change(m, joined) == [member |-> m, joined |-> joined]

\* Mutant of ApplyPresent: a heartbeat only refreshes a member one has.
ApplyPresentKnown(r, m, kind) ==
  IF m \in MembersOf(r) \/ (kind = "join" /\ Cardinality(MembersOf(r)) < cap)
    THEN /\ age' = [age EXCEPT ![r][m] = 0]
         /\ Emit(r, IF m \in MembersOf(r) THEN <<>> ELSE <<Change(m, TRUE)>>)
    ELSE UNCHANGED <<age, changes, overrun>>

\* _apply of a join or a heartbeat: either adds a member, up to the cap.
ApplyPresent(r, m, kind) ==
  IF m \in MembersOf(r) \/ Cardinality(MembersOf(r)) < cap
    THEN /\ age' = [age EXCEPT ![r][m] = 0]
         /\ Emit(r, IF m \in MembersOf(r) THEN <<>> ELSE <<Change(m, TRUE)>>)
    ELSE UNCHANGED <<age, changes, overrun>>

\* Mutant of ApplyLeave: a change whether or not there was such a member.
ApplyLeaveAlways(r, m) ==
  /\ age' = [age EXCEPT ![r][m] = Absent]
  /\ Emit(r, <<Change(m, FALSE)>>)

\* _apply of a leave, one's own id included.
ApplyLeave(r, m) ==
  /\ age' = [age EXCEPT ![r][m] = Absent]
  /\ Emit(r, IF m \in MembersOf(r) THEN <<Change(m, FALSE)>> ELSE <<>>)

\* _consume_loop takes the next record of m; without an open handle the
\* fan-out reads it for nobody.
Consume(r, m) ==
  /\ link[m][r] # <<>>
  /\ LET kind == Head(link[m][r]) IN
     IF r \notin open THEN UNCHANGED <<age, changes, overrun>>
     ELSE IF kind = "leave" THEN ApplyLeave(r, m)
     ELSE ApplyPresent(r, m, kind)
  /\ link' = [link EXCEPT ![m][r] = Tail(@)]
  /\ UNCHANGED <<setting, open, heard, fan, iter, bounds, view>>

\* A record is lost to a slow consumer, or is malformed and ignored.
Lose(r, m) ==
  /\ link[m][r] # <<>> /\ Fault
  /\ link' = [link EXCEPT ![m][r] = Tail(@)]
  /\ UNCHANGED <<setting, open, heard, fan, age, changes, iter, opens, notes>>

\* Time passes.
Tick ==
  /\ age' = [r \in Members |-> [m \in Members |->
       IF age[r][m] = Absent \/ age[r][m] > TTL THEN age[r][m] ELSE age[r][m] + 1]]
  /\ UNCHANGED <<setting, open, changes, iter, shards, bounds, notes>>

\* Mutant of Expired: the time of the handle's own last record is compared.
ExpiredOwnTime(r) == {m \in MembersOf(r) \ {r} : age[r][r] > TTL}

Expired(r) == {m \in Members \ {r} : age[r][m] > TTL}

\* One scan of _eviction_loop, in the order of the table.
Evict(r) ==
  /\ r \in open /\ Expired(r) # {}
  /\ age' = [age EXCEPT ![r] = [m \in Members |-> IF m \in Expired(r) THEN Absent
                                                                    ELSE age[r][m]]]
  /\ \E ms \in Bijection(1..Cardinality(Expired(r)), Expired(r)) :
       Emit(r, [i \in DOMAIN ms |-> Change(ms[i], FALSE)])
  /\ UNCHANGED <<setting, open, iter, shards, bounds, view>>

-----------------------------------------------------------------------------
(* __anext__ *)

\* The member set ms after the first n changes of cs: the last change about a
\* member counts.
Told(ms, cs, n) ==
  {m \in Members :
     \/ \E i \in 1..n : /\ cs[i] = Change(m, TRUE)
                        /\ \A j \in 1..n : cs[j].member = m => j <= i
     \/ m \in ms /\ \A j \in 1..n : cs[j].member # m}

\* Something is queued: the call returns it at once.
NextQueued(r) ==
  /\ r \in (open \cap listeners) \ waiting /\ changes[r] # <<>>
  /\ view' = [view EXCEPT ![r] = Told(@, changes[r], 1)]
  /\ changes' = [changes EXCEPT ![r] = Tail(@)]
  /\ UNCHANGED <<setting, open, age, iter, shards, bounds, overrun>>

\* Nothing is: the call starts get_task and waits for it (or for the close).
AwaitChange(r) ==
  /\ r \in (open \cap listeners) \ waiting /\ changes[r] = <<>>
  /\ waiting' = waiting \cup {r}
  /\ UNCHANGED <<setting, open, age, changes, got, orphans, spoilt, shards, bounds, notes>>

\* get_task takes a change.  A queue serves those who wait in their order.
GetTask(r) ==
  /\ r \in waiting /\ got[r] = <<>> /\ orphans[r] = 0 /\ changes[r] # <<>>
  /\ got' = [got EXCEPT ![r] = <<Head(changes[r])>>]
  /\ changes' = [changes EXCEPT ![r] = Tail(@)]
  /\ UNCHANGED <<setting, open, age, waiting, orphans, spoilt, shards, bounds, notes>>

\* ... and the call returns it.
NextAwaited(r) ==
  /\ got[r] # <<>>
  /\ waiting' = waiting \ {r} /\ got' = [got EXCEPT ![r] = <<>>]
  /\ view' = [view EXCEPT ![r] = Told(@, got[r], 1)]
  /\ UNCHANGED <<setting, open, age, changes, orphans, spoilt, shards, bounds, overrun>>

\* The call is cancelled, by a wait_for that times out: close_wait is cancelled
\* and get_task is not, so that what it has taken, or will take, is lost.
CancelNext(r) ==
  /\ r \in waiting /\ Fault
  /\ waiting' = waiting \ {r} /\ got' = [got EXCEPT ![r] = <<>>]
  /\ IF got[r] = <<>>
       THEN orphans' = [orphans EXCEPT ![r] = @ + 1] /\ UNCHANGED spoilt
       ELSE spoilt' = spoilt \cup {r} /\ UNCHANGED orphans
  /\ UNCHANGED <<setting, open, age, changes, shards, opens, notes>>

\* A get_task nobody waits for takes a change.
Swallow(r) ==
  /\ orphans[r] > 0 /\ changes[r] # <<>>
  /\ orphans' = [orphans EXCEPT ![r] = @ - 1]
  /\ changes' = [changes EXCEPT ![r] = Tail(@)]
  /\ spoilt' = spoilt \cup {r}
  /\ UNCHANGED <<setting, open, age, waiting, got, shards, bounds, notes>>

AnextStep(r) ==
  \/ NextQueued(r) \/ AwaitChange(r) \/ GetTask(r) \/ NextAwaited(r)
  \/ CancelNext(r) \/ Swallow(r)

-----------------------------------------------------------------------------
Next ==
  \/ \E m \in Members : Enter(m) \/ Exit(m) \/ Kill(m) \/ Heartbeat(m)
  \/ \E r, m \in Members :
       Reconnect(r, m) \/ FanoutEnds(r, m) \/ Consume(r, m) \/ Lose(r, m)
  \/ Tick
  \/ \E r \in Members : Evict(r) \/ AnextStep(r)

Spec == Init /\ [][Next]_vars

\* The loops run and time passes.  Nobody has to enter, to leave, or to
\* iterate over the changes.
Fairness ==
  /\ \A m \in Members : WF_vars(Heartbeat(m)) /\ WF_vars(Evict(m))
  /\ \A r, m \in Members :
       WF_vars(Consume(r, m)) /\ WF_vars(Reconnect(r, m)) /\ WF_vars(FanoutEnds(r, m))
  /\ WF_vars(Tick)

FairSpec == Spec /\ Fairness

-----------------------------------------------------------------------------
(* Properties *)

\* What the handle has emitted and the caller has not been told.
Untold(r) == got[r] \o changes[r]

\* The changes tell the whole story: a caller that applies them to the set it
\* began with, itself, arrives at "members", unless its queue has overflowed or
\* a call it cancelled has swallowed one; and none tells what it already knew.
ChangesTellMembers ==
  \A r \in Members : r \in open /\ r \notin overrun \cup spoilt =>
    /\ Told(view[r], Untold(r), Len(Untold(r))) = MembersOf(r)
    /\ \A i \in DOMAIN Untold(r) :
         Untold(r)[i].joined
           = (Untold(r)[i].member \notin Told(view[r], Untold(r), i - 1))

\* "async iterator over PresenceChange", with a bounded queue that drops the
\* oldest: a change is lost only to an overflow.
OnlyOverflowLoses ==
  \A r \in Members : r \in open /\ r \notin overrun =>
    Told(view[r], Untold(r), Len(Untold(r))) = MembersOf(r)

\* "Snapshot of currently-active members (includes self)": an open handle is
\* among its own members.
IncludesSelf == \A r \in open : r \in MembersOf(r)

\* Eviction makes up for what is lost: a member that has gone, killed or with
\* its leave lost, is forgotten by every handle that stays open.
GoneForgotten ==
  \A r, m \in Members : r # m =>
    (r \in open /\ m \notin open) ~>
      (m \notin MembersOf(r) \/ r \notin open \/ m \in open)

\* Everyone is known in the end, also to a handle opened after the join: any
\* heartbeat adds a member, so a lost join or a false eviction is made good.
\* (A process that was killed and comes back is known to those who opened its
\* shard since, not to those whose fan-out of it has ended.)
LateJoinerLearns ==
  \A r, m \in Members : r # m =>
    (r \in open /\ m \in open /\ m \in speakers /\ cap >= Cardinality(Members)) ~>
      (m \in MembersOf(r) \/ r \notin open \/ m \notin open \/ fan[r][m] = "ended")

\* A worker that starts late is "picked up", and so is one that starts again.
RestartedLearned ==
  \A r, m \in Members : r # m =>
    (r \in open /\ m \in open /\ m \in speakers /\ cap >= Cardinality(Members)) ~>
      (m \in MembersOf(r) \/ r \notin open \/ m \notin open)

=============================================================================
