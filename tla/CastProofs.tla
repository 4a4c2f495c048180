----------------------------- MODULE CastProofs -----------------------------
(***************************************************************************)
(* Proofs about Cast, for every number of peer shards, consumers, messages *)
(* and upsets, every queue depth and replay: what slow_count tells, how an *)
(* iteration ends, and the order a consumer sees.                          *)
(***************************************************************************)
EXTENDS Cast, SequenceTheorems, TLAPS

Messages == [peer : Peers, n : Nat \ {0}]
FanState == [st : {"none", "opened", "read", "await", "ended"},
             todo : Seq(Nat \ {0}), cut : BOOLEAN]

-----------------------------------------------------------------------------
(* Types *)

ConsumerType ==
  /\ attached \subseteq Subs
  /\ policy \in [Subs -> SlowPolicies]
  /\ queue \in [Subs -> Seq(Messages)] /\ got \in [Subs -> Seq(Messages)]
  /\ hold \in [Subs -> Messages \cup {NoItem}]
  /\ shut \in [Subs -> BOOLEAN] /\ ev \in [Subs -> BOOLEAN]
  /\ cons \in [Subs -> {"none", "idle", "wait", "stopped"}]
  /\ slow \in [Subs -> Nat] /\ offered \in [Subs -> Nat]

ChannelType ==
  /\ sent \in [Peers -> Nat] /\ born \in [Peers -> Nat \ {0}]
  /\ \A p \in Peers : born[p] <= sent[p] + 1
  /\ online \in [Peers -> BOOLEAN]
  /\ tpc \in [Tasks -> {"none", "lock", "gather", "sleep"}]
  /\ want \in [Tasks -> SUBSET Peers]
  /\ fan \in [Peers -> [Tasks -> FanState]]

-----------------------------------------------------------------------------
(* The end of an iteration *)

\* An opener has no consumer yet; only a wait holds an item; an iteration that
\* has ended was closed, so that nothing is queued for it any more.
IterationInv ==
  \A s \in Subs :
    /\ tpc[s] # "none" => cons[s] = "none"
    /\ cons[s] # "wait" => hold[s] = NoItem
    /\ ev[s] => shut[s]
    /\ cons[s] = "stopped" => queue[s] = <<>> /\ shut[s]

HeldCount(s) == IF hold[s] = NoItem THEN 0 ELSE 1

\* SlowCountExact without the concatenation.
CountInv ==
  \A s \in Subs \ spoilt :
    offered[s] = Len(got[s]) + HeldCount(s) + Len(queue[s]) + slow[s]

-----------------------------------------------------------------------------
(* The order a consumer sees *)

Before(x, y) == x.peer = y.peer => x.n < y.n

AllBefore(A, B) == \A x \in A : \A y \in B : Before(x, y)

Sorted(q) == \A i, j \in DOMAIN q : i < j => Before(q[i], q[j])

Elems(q) == {q[i] : i \in DOMAIN q}

HeldSet(h) == {x \in {h} : x # NoItem}

\* What was delivered, is held by get_task and is queued: as a set, and in order.
Together(g, h, q) == Elems(g) \cup HeldSet(h) \cup Elems(q)

Ordered(g, h, q) ==
  /\ Sorted(g) /\ Sorted(q)
  /\ AllBefore(Elems(g), HeldSet(h)) /\ AllBefore(Elems(g), Elems(q))
  /\ AllBefore(HeldSet(h), Elems(q))

Have(s) == Together(got[s], hold[s], queue[s])

ConsumerSorted == \A s \in Subs : Ordered(got[s], hold[s], queue[s])

\* Nobody has had anything of shard p, and nobody is subscribed to it.
Unseen(p) == \A s \in Subs : \A x \in Have(s) : x.peer # p
Unopened(p) == \A t \in Tasks : fan[p][t].st = "none"

\* One task at a time is opening shards, and only shards nobody has had.
OpeningInv ==
  /\ \A t \in Tasks : tpc[t] = "gather" => lock = t
  /\ \A t \in Tasks : \A p \in want[t] : tpc[t] = "gather" => Unseen(p) /\ Unopened(p)
  /\ \A p \in Peers, t \in Tasks :
       fan[p][t].st = "opened" =>
         tpc[t] = "gather" /\ p \notin want[t] /\ Unseen(p)
  /\ \A p \in Peers \ mmsubs :
       ~closed => Unseen(p) /\ \A t \in Tasks : fan[p][t].st \in {"none", "opened"}

\* _mmbus_subs is cleared on a closed channel only.
CloseInv == cpc = "await" => closed

\* A shard has one subscription; what that one has still to read is newer
\* than what the consumers have had.
SoleFan ==
  \A p \in Peers, t, u \in Tasks :
    t # u => fan[p][t].st = "none" \/ fan[p][u].st = "none"

FreshTodo(p, t) ==
  /\ fan[p][t].st = "none" => fan[p][t].todo = <<>>
  /\ \A i \in DOMAIN fan[p][t].todo : fan[p][t].todo[i] <= sent[p]
  /\ \A i, j \in DOMAIN fan[p][t].todo : i < j => fan[p][t].todo[i] < fan[p][t].todo[j]
  /\ \A s \in Subs : \A x \in Have(s) : \A i \in DOMAIN fan[p][t].todo :
       x.peer = p => x.n < fan[p][t].todo[i]

SeenSent == \A s \in Subs : \A x \in Have(s) : x.n <= sent[x.peer]

FanInv == SoleFan /\ (\A p \in Peers, t \in Tasks : FreshTodo(p, t)) /\ SeenSent

-----------------------------------------------------------------------------
(* Sequences *)

LEMMA TailFacts ==
  ASSUME NEW S, NEW s \in Seq(S), s # <<>>
  PROVE  /\ Head(s) \in S /\ Head(s) = s[1] /\ Tail(s) \in Seq(S)
         /\ Len(s) \in Nat \ {0} /\ Len(Tail(s)) = Len(s) - 1
         /\ DOMAIN s = 1..Len(s) /\ DOMAIN Tail(s) = 1..(Len(s) - 1)
         /\ \A i \in 1..(Len(s) - 1) : Tail(s)[i] = s[i + 1]
  BY HeadTailProperties, LenProperties, EmptySeq

LEMMA AppendFacts ==
  ASSUME NEW S, NEW s \in Seq(S), NEW x \in S
  PROVE  /\ Append(s, x) \in Seq(S) /\ Len(s) \in Nat
         /\ Len(Append(s, x)) = Len(s) + 1
         /\ DOMAIN s = 1..Len(s) /\ DOMAIN Append(s, x) = 1..(Len(s) + 1)
         /\ \A i \in 1..Len(s) : Append(s, x)[i] = s[i]
         /\ Append(s, x)[Len(s) + 1] = x
  BY AppendProperties, LenProperties

LEMMA EmptyFacts ==
  ASSUME NEW S
  PROVE  <<>> \in Seq(S) /\ Len(<<>>) = 0 /\ DOMAIN <<>> = {} /\ Elems(<<>>) = {}
  BY EmptySeq DEF Elems

-----------------------------------------------------------------------------
(***************************************************************************)
(* What the operators do to the subscriptions of the channel, one by one.  *)
(***************************************************************************)
FanType == fan \in [Peers -> [Tasks -> FanState]]

SameFan(q, u) == fan'[q][u].st = fan[q][u].st /\ fan'[q][u].todo = fan[q][u].todo

LEMMA NoFanState == NoFan \in FanState /\ NoFan.st = "none" /\ NoFan.todo = <<>>
  BY EmptyFacts DEF NoFan, FanState

LEMMA FanFields ==
  ASSUME NEW f \in FanState
  PROVE  /\ f.st \in {"none", "opened", "read", "await", "ended"}
         /\ f.todo \in Seq(Nat \ {0}) /\ f.cut \in BOOLEAN
  BY DEF FanState

LEMMA FanCut ==
  ASSUME NEW f \in FanState, NEW g, g = [f EXCEPT !.cut = TRUE]
  PROVE  g \in FanState /\ g.st = f.st /\ g.todo = f.todo
  BY DEF FanState

LEMMA FanGoes ==
  ASSUME NEW f \in FanState, NEW l \in {"none", "opened", "read", "await", "ended"},
         NEW g, g = [f EXCEPT !.st = l]
  PROVE  g \in FanState /\ g.st = l /\ g.todo = f.todo
  BY DEF FanState

LEMMA FanTodo ==
  ASSUME NEW f \in FanState, NEW q \in Seq(Nat \ {0})
  PROVE  /\ [f EXCEPT !.todo = q] \in FanState
         /\ [f EXCEPT !.todo = q].st = f.st /\ [f EXCEPT !.todo = q].todo = q
  BY DEF FanState

LEMMA CutFacts ==
  ASSUME FanType, NEW p \in Peers, fan' = Cut(p)
  PROVE  FanType' /\ \A q \in Peers, u \in Tasks : SameFan(q, u)
  <1>1. fan' = [fan EXCEPT ![p] = [t \in Tasks |-> IF Reading(p, t)
                                     THEN [fan[p][t] EXCEPT !.cut = TRUE] ELSE fan[p][t]]]
    BY DEF Cut
  <1>2. ASSUME NEW q \in Peers, NEW u \in Tasks
        PROVE  fan'[q][u] \in FanState /\ SameFan(q, u)
    <2>1. fan[q][u] \in FanState
      BY DEF FanType
    <2>2. \/ fan'[q][u] = fan[q][u]
          \/ fan'[q][u] = [fan[q][u] EXCEPT !.cut = TRUE]
      <3>1. CASE q # p
        BY <1>1, <3>1 DEF FanType
      <3>2. CASE q = p
        <4>1. fan'[p] = [t \in Tasks |-> IF Reading(p, t)
                           THEN [fan[p][t] EXCEPT !.cut = TRUE] ELSE fan[p][t]]
          BY <1>1 DEF FanType
        <4> QED
          BY <3>2, <4>1
      <3> QED
        BY <3>1, <3>2
    <2> QED
      BY <2>1, <2>2, FanCut DEF SameFan
  <1>3. \A q \in Peers : fan'[q] = [u \in Tasks |-> fan'[q][u]]
    BY <1>1 DEF FanType
  <1>4. fan' = [q \in Peers |-> fan'[q]]
    BY <1>1 DEF FanType
  <1>5. \A q \in Peers : fan'[q] \in [Tasks -> FanState]
    BY <1>2, <1>3
  <1> QED
    BY <1>2, <1>4, <1>5 DEF FanType

LEMMA FedFacts ==
  ASSUME FanType, NEW p \in Peers, NEW n \in Nat \ {0}, fan' = Fed(p, n)
  PROVE  /\ FanType'
         /\ \A q \in Peers, u \in Tasks :
              \/ SameFan(q, u)
              \/ /\ q = p /\ fan[q][u].st # "none" /\ fan'[q][u].st = fan[q][u].st
                 /\ fan'[q][u].todo = Append(fan[q][u].todo, n)
  <1>1. fan' = [fan EXCEPT ![p] = [t \in Tasks |->
                   IF Reading(p, t) /\ ~fan[p][t].cut
                     THEN [fan[p][t] EXCEPT !.todo = Append(fan[p][t].todo, n)]
                     ELSE fan[p][t]]]
    BY DEF Fed
  <1>2. ASSUME NEW q \in Peers, NEW u \in Tasks
        PROVE  /\ fan'[q][u] \in FanState
               /\ \/ SameFan(q, u)
                  \/ /\ q = p /\ fan[q][u].st # "none" /\ fan'[q][u].st = fan[q][u].st
                     /\ fan'[q][u].todo = Append(fan[q][u].todo, n)
    <2>1. fan[q][u] \in FanState
      BY DEF FanType
    <2>2. \/ fan'[q][u] = fan[q][u]
          \/ /\ q = p /\ fan[q][u].st # "none"
             /\ fan'[q][u] = [fan[q][u] EXCEPT !.todo = Append(fan[q][u].todo, n)]
      <3>1. CASE q # p
        BY <1>1, <3>1 DEF FanType
      <3>2. CASE q = p
        <4>1. fan'[p] = [t \in Tasks |->
                           IF Reading(p, t) /\ ~fan[p][t].cut
                             THEN [fan[p][t] EXCEPT !.todo = Append(fan[p][t].todo, n)]
                             ELSE fan[p][t]]
          BY <1>1 DEF FanType
        <4> QED
          BY <3>2, <4>1 DEF Reading
      <3> QED
        BY <3>1, <3>2
    <2>3. Append(fan[q][u].todo, n) \in Seq(Nat \ {0})
      BY <2>1, FanFields, AppendFacts
    <2>4. CASE fan'[q][u] = fan[q][u]
      BY <2>1, <2>4 DEF SameFan
    <2>5. CASE /\ q = p /\ fan[q][u].st # "none"
               /\ fan'[q][u] = [fan[q][u] EXCEPT !.todo = Append(fan[q][u].todo, n)]
      <3> DEFINE z == Append(fan[q][u].todo, n)
                 f == fan[q][u]
      <3>1. fan'[q][u] = [f EXCEPT !.todo = z] /\ f \in FanState /\ z \in Seq(Nat \ {0})
        BY <2>1, <2>3, <2>5
      <3> HIDE DEF z, f
      <3>2. fan'[q][u] \in FanState /\ fan'[q][u].st = f.st /\ fan'[q][u].todo = z
        BY <3>1, FanTodo
      <3> QED
        BY <2>5, <3>2 DEF f, z
    <2> QED
      BY <2>2, <2>4, <2>5
  <1>3. \A q \in Peers : fan'[q] = [u \in Tasks |-> fan'[q][u]]
    BY <1>1 DEF FanType
  <1>4. fan' = [q \in Peers |-> fan'[q]]
    BY <1>1 DEF FanType
  <1>5. \A q \in Peers : fan'[q] \in [Tasks -> FanState]
    BY <1>2, <1>3
  <1> QED
    BY <1>2, <1>4, <1>5 DEF FanType

\* One subscription is replaced.
FanPut(p, t, v) == [fan EXCEPT ![p][t] = v]

LEMMA FanSet ==
  ASSUME FanType, NEW p \in Peers, NEW t \in Tasks, NEW v \in FanState,
         fan' = FanPut(p, t, v)
  PROVE  /\ FanType' /\ fan'[p][t] = v
         /\ \A q \in Peers, u \in Tasks : (q = p /\ u = t) \/ fan'[q][u] = fan[q][u]
  <1>1. fan' = [fan EXCEPT ![p] = [fan[p] EXCEPT ![t] = v]]
    BY DEF FanPut
  <1>2. [fan[p] EXCEPT ![t] = v] \in [Tasks -> FanState]
    BY DEF FanType
  <1> QED
    BY <1>1, <1>2 DEF FanType

LEMMA DroppedFacts ==
  ASSUME FanType, NEW t \in Tasks, fan' = Dropped(t)
  PROVE  /\ FanType' /\ \A q \in Peers : fan'[q][t].st # "opened"
         /\ \A q \in Peers, u \in Tasks :
              \/ fan'[q][u] = fan[q][u]
              \/ u = t /\ fan[q][u].st = "opened" /\ fan'[q][u] = NoFan
  <1>1. ASSUME NEW q \in Peers
        PROVE  /\ fan'[q] \in [Tasks -> FanState] /\ fan'[q][t].st # "opened"
               /\ \A u \in Tasks : \/ fan'[q][u] = fan[q][u]
                                   \/ u = t /\ fan[q][u].st = "opened" /\ fan'[q][u] = NoFan
    <2>1. fan[q] \in [Tasks -> FanState]
      BY DEF FanType
    <2>2. \/ fan[q][t].st = "opened" /\ fan'[q] = [fan[q] EXCEPT ![t] = NoFan]
          \/ fan[q][t].st # "opened" /\ fan'[q] = fan[q]
      BY DEF Dropped
    <2> QED
      BY <2>1, <2>2, NoFanState
  <1>2. fan' = [q \in Peers |-> fan'[q]]
    BY DEF Dropped
  <1> QED
    BY <1>1, <1>2 DEF FanType

LEMMA RegisterFacts ==
  ASSUME FanType, NEW t \in Tasks, Register(t)
  PROVE  /\ FanType' /\ \A q \in Peers : fan'[q][t].st # "opened"
         /\ \A q \in Peers, u \in Tasks :
              \/ fan'[q][u] = fan[q][u]
              \/ /\ u = t /\ q \in mmsubs' /\ fan[q][u].st = "opened"
                 /\ fan'[q][u].st = "read" /\ fan'[q][u].todo = fan[q][u].todo
         /\ mmsubs \subseteq mmsubs'
         /\ \A q \in Peers : q \in mmsubs' => q \in mmsubs \/ fan[q][t].st = "opened"
  <1> DEFINE opened == {p \in Peers : fan[p][t].st = "opened"}
  <1>1. /\ mmsubs' = mmsubs \cup opened
        /\ fan' = [p \in Peers |-> IF p \in opened THEN [fan[p] EXCEPT ![t].st = "read"]
                                                   ELSE fan[p]]
    BY DEF Register
  <1>2. ASSUME NEW q \in Peers
        PROVE  /\ fan'[q] \in [Tasks -> FanState] /\ fan'[q][t].st # "opened"
               /\ \A u \in Tasks :
                    \/ fan'[q][u] = fan[q][u]
                    \/ /\ u = t /\ q \in mmsubs' /\ fan[q][u].st = "opened"
                       /\ fan'[q][u].st = "read" /\ fan'[q][u].todo = fan[q][u].todo
    <2>1. fan[q] \in [Tasks -> FanState]
      BY DEF FanType
    <2>2. CASE q \notin opened
      BY <1>1, <2>1, <2>2
    <2>3. CASE q \in opened
      <3> DEFINE v == [fan[q][t] EXCEPT !.st = "read"]
      <3>1. v \in FanState /\ v.st = "read" /\ v.todo = fan[q][t].todo
        BY <2>1, FanGoes
      <3>2. fan'[q] = [fan[q] EXCEPT ![t] = v]
        BY <1>1, <2>3
      <3> HIDE DEF v
      <3> QED
        BY <1>1, <2>1, <2>3, <3>1, <3>2
    <2> QED
      BY <2>2, <2>3
  <1>3. fan' = [q \in Peers |-> fan'[q]]
    BY <1>1
  <1> QED
    BY <1>1, <1>2, <1>3 DEF FanType

LEMMA FanReadFacts ==
  ASSUME FanType, NEW p \in Peers, NEW t \in Tasks, FanRead(p, t)
  PROVE  /\ FanType' /\ fan[p][t].st = "read" /\ fan[p][t].todo # <<>>
         /\ fan'[p][t].st = "read" /\ fan'[p][t].todo = Tail(fan[p][t].todo)
         /\ \A q \in Peers, u \in Tasks : (q = p /\ u = t) \/ fan'[q][u] = fan[q][u]
  <1>1. /\ fan[p][t] \in FanState /\ fan[p][t].todo # <<>> /\ fan[p][t].st = "read"
        /\ fan' = [fan EXCEPT ![p][t].todo = Tail(fan[p][t].todo)]
    BY DEF FanType, FanRead
  <1> DEFINE v == [fan[p][t] EXCEPT !.todo = Tail(fan[p][t].todo)]
  <1>2. Tail(fan[p][t].todo) \in Seq(Nat \ {0})
    BY <1>1, FanFields, TailFacts
  <1>3. v \in FanState /\ v.st = "read" /\ v.todo = Tail(fan[p][t].todo)
    BY <1>1, <1>2, FanTodo
  <1>4. fan' = FanPut(p, t, v)
    BY <1>1 DEF FanPut
  <1> HIDE DEF v
  <1> QED
    BY <1>1, <1>3, <1>4, FanSet

LEMMA FanTurnFacts ==
  ASSUME FanType, NEW p \in Peers, NEW t \in Tasks, FanAwait(p, t) \/ FanWakes(p, t)
  PROVE  /\ FanType'
         /\ fan[p][t].st \in {"read", "await"}
         /\ \/ fan'[p][t].st \in {"read", "await"} /\ fan'[p][t].todo = fan[p][t].todo
            \/ fan'[p][t].st = "ended" /\ fan'[p][t].todo = <<>>
         /\ \A q \in Peers, u \in Tasks : (q = p /\ u = t) \/ fan'[q][u] = fan[q][u]
  <1>1. fan[p][t] \in FanState
    BY DEF FanType
  <1>2. fan[p][t].st \in {"read", "await"}
    BY DEF FanAwait, FanWakes
  <1>3. ASSUME NEW l \in {"read", "await"}, fan' = [fan EXCEPT ![p][t].st = l]
        PROVE  /\ FanType' /\ fan'[p][t].st = l /\ fan'[p][t].todo = fan[p][t].todo
               /\ \A q \in Peers, u \in Tasks : (q = p /\ u = t) \/ fan'[q][u] = fan[q][u]
    <2> DEFINE v == [fan[p][t] EXCEPT !.st = l]
    <2>1. v \in FanState /\ v.st = l /\ v.todo = fan[p][t].todo
      BY <1>1, FanGoes
    <2>2. fan' = FanPut(p, t, v)
      BY <1>3 DEF FanPut
    <2> HIDE DEF v
    <2> QED
      BY <2>1, <2>2, FanSet
  <1>4. ASSUME fan' = [fan EXCEPT ![p][t] = [NoFan EXCEPT !.st = "ended"]]
        PROVE  /\ FanType' /\ fan'[p][t].st = "ended" /\ fan'[p][t].todo = <<>>
               /\ \A q \in Peers, u \in Tasks : (q = p /\ u = t) \/ fan'[q][u] = fan[q][u]
    <2> DEFINE v == [NoFan EXCEPT !.st = "ended"]
    <2>1. v \in FanState /\ v.st = "ended" /\ v.todo = <<>>
      BY NoFanState, FanGoes
    <2> HIDE DEF v
    <2>2. fan' = FanPut(p, t, v)
      BY <1>4 DEF FanPut, v
    <2> QED
      BY <2>1, <2>2, FanSet
  <1> QED
    BY <1>2, <1>3, <1>4 DEF FanAwait, FanWakes

LEMMA CloseFacts ==
  ASSUME FanType, Close
  PROVE  /\ FanType'
         /\ \A q \in Peers, u \in Tasks :
              /\ fan'[q][u] = fan[q][u] \/ fan'[q][u] = NoFan
              /\ fan'[q][u].st \notin {"read", "await"}
              /\ u = "reconnect" => fan'[q][u] = NoFan
  <1>1. fan' = [p \in Peers |-> [t \in Tasks |->
                  IF fan[p][t].st \in {"read", "await"} \/ t = "reconnect"
                    THEN NoFan ELSE fan[p][t]]]
    BY DEF Close
  <1>2. \A q \in Peers, u \in Tasks : fan[q][u] \in FanState
    BY DEF FanType
  <1> QED
    BY <1>1, <1>2, NoFanState DEF FanType

\* subscribe_with_history begins with the newest messages, in their order.
LEMMA HistoryFacts ==
  ASSUME NEW p \in Peers, sent[p] \in Nat, born[p] \in Nat \ {0}, born[p] <= sent[p] + 1
  PROVE  /\ History(p) \in Seq(Nat \ {0})
         /\ \A i \in DOMAIN History(p) : History(p)[i] <= sent[p]
         /\ \A i, j \in DOMAIN History(p) : i < j => History(p)[i] < History(p)[j]
  <1> DEFINE S == {born[p], sent[p] - ReplayLast + 1}
             first == Max(S)
             n == sent[p] - first + 1
             e(i) == first + i - 1
  <1>1. ReplayLast \in Nat
    BY CastConstantsOK
  <1>2. first \in S /\ \A y \in S : first >= y
    <2>1. \E x \in S : \A y \in S : x >= y
      BY <1>1
    <2>2. first = CHOOSE x \in S : \A y \in S : x >= y
      BY DEF Max
    <2> QED
      BY <2>1, <2>2
  <1>3. first \in Nat \ {0} /\ first <= sent[p] + 1
    BY <1>1, <1>2
  <1> HIDE DEF first
  <1>4. n \in Nat /\ \A i \in 1..n : e(i) \in Nat \ {0} /\ e(i) <= sent[p]
    BY <1>3
  <1>5. \A i, j \in 1..n : i < j => e(i) < e(j)
    BY <1>3
  <1>6. History(p) = [i \in 1..n |-> e(i)]
    BY DEF History, first
  <1> HIDE DEF n, e
  <1>7. [i \in 1..n |-> e(i)] \in Seq(Nat \ {0})
    BY <1>4, IsASeq
  <1> QED
    BY <1>4, <1>5, <1>6, <1>7

-----------------------------------------------------------------------------
(***************************************************************************)
(* The kinds of steps, and what each does to the consumers.                *)
(***************************************************************************)
CastType == ConsumerType /\ ChannelType

ShardStep ==
  \/ \E p \in Peers : PeerStarts(p) \/ PeerExits(p) \/ PeerPublishes(p)
  \/ Publish

OpeningStep ==
  \/ \E s \in Subs : Subscribe(s)
  \/ \E t \in Tasks : GatherRaises(t) \/ \E p \in Peers : OpenPeer(t, p)
  \/ Retry \/ Close

StartStep(t) == Acquire(t) \/ Register(t)
ConsStep(s) == Next1(s) \/ GetTask(s) \/ Wake(s) \/ Cancel(s)
ShutStep == (\E s \in Subs : Leave(s)) \/ CloseEnd

LEMMA StepCases ==
  Next => \/ ShardStep \/ OpeningStep \/ ShutStep
          \/ \E t \in Tasks : StartStep(t)
          \/ \E p \in Peers, t \in Tasks : FanStep(p, t)
          \/ \E s \in Subs : ConsStep(s)
  BY Zenon DEF Next, ShardStep, OpeningStep, ShutStep, StartStep, OpenStep, ConsStep, WaitStep

LEMMA ShardFrame ==
  ASSUME ShardStep
  PROVE  UNCHANGED <<closed, lock, tpc, want, mmsubs, attached, policy, queue, shut, ev, slow,
                     offered, cons, hold, got, spoilt>>
  BY DEF ShardStep, PeerStarts, PeerExits, PeerPublishes, Publish, starting, subState, consumer

LEMMA OpeningFrame ==
  ASSUME OpeningStep
  PROVE  UNCHANGED <<online, sent, born, mmsubs, attached, policy, queue, shut, ev, slow,
                     offered, cons, hold, got, spoilt>>
  BY DEF OpeningStep, Subscribe, GatherRaises, OpenPeer, Retry, Close, shards, subState, consumer

LEMMA StartFrame ==
  ASSUME NEW t \in Tasks, StartStep(t)
  PROVE  UNCHANGED <<sent, closed, policy, queue, shut, ev, slow, offered, hold, got, spoilt>>
  BY DEF StartStep, Acquire, Register, shards, subState

LEMMA FanFrames ==
  ASSUME NEW p \in Peers, NEW t \in Tasks, FanStep(p, t)
  PROVE  UNCHANGED <<online, sent, born, closed, lock, tpc, want, mmsubs, attached, policy,
                     cons, hold, got, spoilt>>
  BY DEF FanStep, FanRead, FanAwait, FanWakes, FanFrame, shards, starting, consumer

LEMMA ConsFrames ==
  ASSUME NEW s \in Subs, ConsStep(s)
  PROVE  UNCHANGED <<online, sent, born, closed, lock, tpc, want, mmsubs, fan, attached, policy,
                     shut, ev, slow, offered>>
  BY DEF ConsStep, Next1, GetTask, Wake, Cancel, ConsFrame, shards, starting

LEMMA ShutFrame ==
  ASSUME ShutStep
  PROVE  UNCHANGED <<sent, born, closed, lock, tpc, want, policy, queue, slow, offered, cons,
                     hold, got, spoilt>>
  BY DEF ShutStep, Leave, CloseEnd, shards, starting, consumer

LEMMA TaskNames ==
  /\ Subs \subseteq Tasks /\ "reconnect" \in Tasks
  /\ "reconnect" \notin Subs /\ "free" \notin Tasks
  BY CastConstantsOK DEF Tasks

\* start_subscriptions returns: an opener becomes a consumer.
LEMMA ReturnsFacts ==
  ASSUME ConsumerType, tpc \in [Tasks -> {"none", "lock", "gather", "sleep"}],
         NEW t \in Tasks, NEW keys, Returns(t, keys)
  PROVE  /\ tpc' \in [Tasks -> {"none", "lock", "gather", "sleep"}]
         /\ \A u \in Tasks : tpc'[u] = "gather" => u # t /\ tpc[u] = "gather"
         /\ \A s \in Subs : tpc'[s] = IF s = t THEN "none" ELSE tpc[s]
         /\ cons' \in [Subs -> {"none", "idle", "wait", "stopped"}]
         /\ \A s \in Subs : cons'[s] = IF s = t THEN "idle" ELSE cons[s]
         /\ attached' \subseteq Subs
  <1>0. /\ cons \in [Subs -> {"none", "idle", "wait", "stopped"}] /\ attached \subseteq Subs
        /\ "reconnect" \notin Subs /\ Subs \subseteq Tasks
    BY TaskNames DEF ConsumerType
  <1> DEFINE a == [tpc EXCEPT ![t] = "none"]
             loop == Peers \ keys # {} /\ ~closed
             v == CASE t = "reconnect" /\ loop -> "sleep"
                    [] t = "reconnect" -> "none"
                    [] tpc["reconnect"] = "none" /\ loop -> "sleep"
                    [] OTHER -> tpc["reconnect"]
  <1>1. tpc' = [a EXCEPT !["reconnect"] = v]
    BY DEF Returns
  <1>2. /\ v \in {"none", "sleep"} \/ (t # "reconnect" /\ v = tpc["reconnect"])
        /\ tpc' = [a EXCEPT !["reconnect"] = v]
    BY <1>1
  <1> HIDE DEF v
  <1>3. a \in [Tasks -> {"none", "lock", "gather", "sleep"}] /\ "reconnect" \in Tasks
    BY TaskNames
  <1>4. \A u \in Tasks : tpc'[u] = IF u = "reconnect" THEN v ELSE a[u]
    BY <1>2, <1>3
  <1>5. \A u \in Tasks : a[u] = IF u = t THEN "none" ELSE tpc[u]
    OBVIOUS
  <1> HIDE DEF a
  <1>6. v \in {"none", "sleep"} \/ (t # "reconnect" /\ v = tpc["reconnect"])
    BY <1>2, <1>3, <1>5
  <1>7. tpc' \in [Tasks -> {"none", "lock", "gather", "sleep"}]
    BY <1>2, <1>3, <1>6
  <1>8. /\ \A u \in Tasks : tpc'[u] = "gather" => u # t /\ tpc[u] = "gather"
        /\ \A s \in Subs : tpc'[s] = IF s = t THEN "none" ELSE tpc[s]
    BY <1>0, <1>3, <1>4, <1>5, <1>6
  <1>9. cons' = (IF t \in Subs THEN [cons EXCEPT ![t] = "idle"] ELSE cons)
        /\ attached' = (IF t \in Subs THEN attached \cup {t} ELSE attached)
    BY DEF Returns
  <1> QED
    BY <1>0, <1>7, <1>8, <1>9

LEMMA StartEffect ==
  ASSUME ConsumerType, tpc \in [Tasks -> {"none", "lock", "gather", "sleep"}],
         NEW t \in Tasks, StartStep(t)
  PROVE  /\ tpc' \in [Tasks -> {"none", "lock", "gather", "sleep"}]
         /\ cons' \in [Subs -> {"none", "idle", "wait", "stopped"}]
         /\ attached' \subseteq Subs
         /\ tpc[t] \in {"lock", "gather"}
         /\ \A s \in Subs : \/ tpc'[s] = tpc[s] /\ cons'[s] = cons[s]
                            \/ s = t /\ tpc'[s] = "none" /\ cons'[s] = "idle"
                            \/ s = t /\ tpc'[s] = "gather" /\ cons'[s] = cons[s]
  <1>1. ASSUME NEW keys, Returns(t, keys), tpc[t] \in {"lock", "gather"}
        PROVE  /\ tpc' \in [Tasks -> {"none", "lock", "gather", "sleep"}]
               /\ cons' \in [Subs -> {"none", "idle", "wait", "stopped"}]
               /\ attached' \subseteq Subs
               /\ \A s \in Subs : \/ tpc'[s] = tpc[s] /\ cons'[s] = cons[s]
                                  \/ s = t /\ tpc'[s] = "none" /\ cons'[s] = "idle"
    BY <1>1, ReturnsFacts
  <1>2. ASSUME Goto(t, "gather"), UNCHANGED <<attached, cons>>, tpc[t] = "lock"
        PROVE  /\ tpc' \in [Tasks -> {"none", "lock", "gather", "sleep"}]
               /\ cons' \in [Subs -> {"none", "idle", "wait", "stopped"}]
               /\ attached' \subseteq Subs
               /\ \A s \in Subs : \/ tpc'[s] = tpc[s] /\ cons'[s] = cons[s]
                                  \/ s = t /\ tpc'[s] = "gather" /\ cons'[s] = cons[s]
    BY <1>2, TaskNames DEF Goto, ConsumerType
  <1>3. CASE Acquire(t)
    <2>1. tpc[t] = "lock"
      BY <1>3 DEF Acquire
    <2>2. \/ Returns(t, Peers)
          \/ Goto(t, "gather") /\ UNCHANGED <<attached, cons>>
      BY <1>3 DEF Acquire
    <2> QED
      BY <1>1, <1>2, <2>1, <2>2
  <1>4. CASE Register(t)
    <2>1. tpc[t] = "gather" /\ Returns(t, mmsubs')
      BY <1>4 DEF Register
    <2> QED
      BY <1>1, <2>1
  <1> QED
    BY <1>3, <1>4 DEF StartStep

\* _enqueue, seen by one consumer.
Passed(s) == queue'[s] = queue[s] /\ slow'[s] = slow[s] /\ offered'[s] = offered[s]
Queued(s, m) ==
  /\ ~shut[s] /\ queue'[s] = Append(queue[s], m)
  /\ slow'[s] = slow[s] /\ offered'[s] = offered[s] + 1
Refused(s) ==
  /\ ~shut[s] /\ queue'[s] = queue[s]
  /\ slow'[s] = slow[s] + 1 /\ offered'[s] = offered[s] + 1
Replaced(s, m) ==
  /\ ~shut[s] /\ queue[s] # <<>> /\ queue'[s] = Append(Tail(queue[s]), m)
  /\ slow'[s] = slow[s] + 1 /\ offered'[s] = offered[s] + 1

LEMMA EnqueueEffect ==
  ASSUME ConsumerType, NEW m \in Messages, Enqueue(m)
  PROVE  /\ queue' \in [Subs -> Seq(Messages)]
         /\ slow' \in [Subs -> Nat] /\ offered' \in [Subs -> Nat]
         /\ shut' \in [Subs -> BOOLEAN] /\ ev' \in [Subs -> BOOLEAN]
         /\ \A s \in Subs : Passed(s) \/ Queued(s, m) \/ Refused(s) \/ Replaced(s, m)
         /\ \A s \in Subs : /\ shut[s] => shut'[s]
                            /\ ev'[s] => ev[s] \/ shut'[s]
  <1> DEFINE open == {s \in attached : ~shut[s]}
             full == {s \in open : Len(queue[s]) = QueueDepth}
             gone == {s \in full : policy[s] = "disconnect"}
  <1>0. /\ queue \in [Subs -> Seq(Messages)] /\ attached \subseteq Subs
        /\ slow \in [Subs -> Nat] /\ offered \in [Subs -> Nat]
        /\ shut \in [Subs -> BOOLEAN] /\ ev \in [Subs -> BOOLEAN]
    BY DEF ConsumerType
  <1>1. /\ queue' = [s \in Subs |-> CASE s \in full -> OnFull(s, m)
                                      [] s \in open \ full -> Append(queue[s], m)
                                      [] OTHER -> queue[s]]
        /\ slow' = [s \in Subs |-> IF s \in full THEN slow[s] + 1 ELSE slow[s]]
        /\ offered' = [s \in Subs |-> IF s \in open THEN offered[s] + 1 ELSE offered[s]]
        /\ CloseFromFanout(gone)
    BY DEF Enqueue
  <1>2. /\ \A s \in Subs : s \in open => ~shut[s]
        /\ \A s \in Subs : s \in full => s \in open /\ Len(queue[s]) = QueueDepth
    OBVIOUS
  <1>3. ASSUME NEW s \in Subs, s \in full PROVE queue[s] # <<>>
    <2>1. QueueDepth # 0 /\ Len(<<>>) = 0
      BY CastConstantsOK, EmptyFacts
    <2> QED
      BY <1>2, <1>3, <2>1
  <1>4. /\ shut' = [s \in Subs |-> shut[s] \/ s \in gone]
        /\ ev' = [s \in Subs |-> ev[s] \/ s \in gone]
    BY <1>1 DEF CloseFromFanout
  <1> HIDE DEF open, full, gone
  <1>5. ASSUME NEW s \in Subs
        PROVE  /\ Passed(s) \/ Queued(s, m) \/ Refused(s) \/ Replaced(s, m)
               /\ queue'[s] \in Seq(Messages)
    <2>0. queue[s] \in Seq(Messages)
      BY <1>0
    <2>1. CASE s \in full
      <3>1. queue'[s] = OnFull(s, m) /\ slow'[s] = slow[s] + 1 /\ offered'[s] = offered[s] + 1
        BY <1>1, <1>2, <2>1
      <3>2. queue'[s] = queue[s] \/ queue'[s] = Append(Tail(queue[s]), m)
        BY <3>1 DEF OnFull
      <3>3. ~shut[s] /\ queue[s] # <<>>
        BY <1>2, <1>3, <2>1
      <3>4. Append(Tail(queue[s]), m) \in Seq(Messages)
        BY <2>0, <3>3, TailFacts, AppendFacts
      <3> QED
        BY <2>0, <3>1, <3>2, <3>3, <3>4 DEF Refused, Replaced
    <2>2. CASE s \in open /\ s \notin full
      <3>1. Append(queue[s], m) \in Seq(Messages)
        BY <2>0, AppendFacts
      <3> QED
        BY <1>1, <1>2, <2>2, <3>1 DEF Queued
    <2>3. CASE s \notin open
      <3>1. s \notin full
        BY <1>2, <2>3
      <3> QED
        BY <1>1, <2>0, <2>3, <3>1 DEF Passed
    <2> QED
      BY <2>1, <2>2, <2>3
  <1>6. queue' \in [Subs -> Seq(Messages)]
    <2>1. queue' = [s \in Subs |-> queue'[s]]
      BY <1>1
    <2> QED
      BY <1>5, <2>1
  <1>7. slow' \in [Subs -> Nat] /\ offered' \in [Subs -> Nat]
    BY <1>0, <1>1
  <1>8. shut' \in [Subs -> BOOLEAN] /\ ev' \in [Subs -> BOOLEAN]
    BY <1>0, <1>4
  <1> QED
    BY <1>4, <1>5, <1>6, <1>7, <1>8

\* __anext__, seen by its consumer.
Takes(s) ==
  /\ queue[s] # <<>> /\ queue'[s] = Tail(queue[s])
  /\ hold[s] = NoItem /\ hold'[s] = NoItem
  /\ got'[s] = Append(got[s], Head(queue[s]))
Gets(s) ==
  /\ queue[s] # <<>> /\ queue'[s] = Tail(queue[s])
  /\ hold[s] = NoItem /\ hold'[s] = Head(queue[s]) /\ got'[s] = got[s]
Delivers(s) ==
  /\ hold[s] # NoItem /\ hold'[s] = NoItem
  /\ got'[s] = Append(got[s], hold[s]) /\ queue'[s] = queue[s]
Forgets(s) ==
  /\ hold'[s] = NoItem /\ got'[s] = got[s] /\ queue'[s] = queue[s]
  /\ s \notin spoilt' => hold[s] = NoItem

LEMMA ConsEffect ==
  ASSUME ConsumerType, IterationInv, NEW s \in Subs, ConsStep(s)
  PROVE  /\ Takes(s) \/ Gets(s) \/ Delivers(s) \/ Forgets(s)
         /\ \A u \in Subs \ {s} : /\ queue'[u] = queue[u] /\ hold'[u] = hold[u]
                                  /\ got'[u] = got[u] /\ cons'[u] = cons[u]
         /\ spoilt \subseteq spoilt'
         /\ cons[s] # "none" /\ cons[s] # "stopped"
         /\ cons'[s] # "wait" => hold'[s] = NoItem
         /\ cons'[s] = "stopped" => queue'[s] = <<>> /\ (shut[s] \/ ev[s])
         /\ queue' = [u \in Subs |-> queue'[u]] /\ got' = [u \in Subs |-> got'[u]]
         /\ hold' = [u \in Subs |-> hold'[u]]
         /\ cons' \in [Subs -> {"none", "idle", "wait", "stopped"}]
  <1>0. /\ queue \in [Subs -> Seq(Messages)] /\ got \in [Subs -> Seq(Messages)]
        /\ hold \in [Subs -> Messages \cup {NoItem}]
        /\ cons \in [Subs -> {"none", "idle", "wait", "stopped"}]
    BY DEF ConsumerType
  <1>1. cons[s] # "wait" => hold[s] = NoItem
    BY DEF IterationInv
  <1>2. CASE Next1(s)
    BY <1>0, <1>1, <1>2 DEF Next1, Takes, Forgets
  <1>3. CASE GetTask(s)
    BY <1>0, <1>3 DEF GetTask, Gets
  <1>4. CASE Wake(s)
    BY <1>0, <1>4 DEF Wake, Takes, Delivers, Forgets
  <1>5. CASE Cancel(s)
    BY <1>0, <1>5 DEF Cancel, Forgets
  <1> QED
    BY <1>2, <1>3, <1>4, <1>5 DEF ConsStep

LEMMA ShutEffect ==
  ASSUME ConsumerType, ShutStep
  PROVE  /\ attached' \subseteq Subs
         /\ shut' \in [Subs -> BOOLEAN] /\ ev' \in [Subs -> BOOLEAN]
         /\ \A s \in Subs : /\ shut[s] => shut'[s]
                            /\ ev'[s] => ev[s] \/ shut'[s]
  BY DEF ShutStep, Leave, CloseEnd, CloseFromFanout, ConsumerType

LEMMA FanMessage ==
  ASSUME FanType, NEW p \in Peers, NEW t \in Tasks, FanRead(p, t)
  PROVE  /\ [peer |-> p, n |-> Head(fan[p][t].todo)] \in Messages
         /\ Enqueue([peer |-> p, n |-> Head(fan[p][t].todo)])
  <1>1. fan[p][t] \in FanState /\ fan[p][t].todo # <<>>
    BY FanReadFacts DEF FanType
  <1>2. Head(fan[p][t].todo) \in Nat \ {0}
    BY <1>1, FanFields, TailFacts
  <1> QED
    BY <1>2 DEF Messages, FanRead

LEMMA TypesOfFan == ChannelType => FanType
  BY DEF ChannelType, FanType

LEMMA ConsumerTypeNext ==
  ASSUME CastType, IterationInv, Next
  PROVE  ConsumerType'
  <1>0. ConsumerType /\ FanType /\ tpc \in [Tasks -> {"none", "lock", "gather", "sleep"}]
    BY TypesOfFan DEF CastType, ChannelType
  <1>1. CASE ShardStep
    BY <1>0, <1>1, ShardFrame DEF ConsumerType
  <1>2. CASE OpeningStep
    BY <1>0, <1>2, OpeningFrame DEF ConsumerType
  <1>3. ASSUME NEW t \in Tasks, StartStep(t) PROVE ConsumerType'
    BY <1>0, <1>3, StartFrame, StartEffect DEF ConsumerType
  <1>4. CASE ShutStep
    BY <1>0, <1>4, ShutFrame, ShutEffect DEF ConsumerType
  <1>5. ASSUME NEW p \in Peers, NEW t \in Tasks, FanStep(p, t) PROVE ConsumerType'
    <2>1. CASE FanRead(p, t)
      BY <1>0, <1>5, <2>1, FanMessage, FanFrames, EnqueueEffect DEF ConsumerType
    <2>2. CASE FanAwait(p, t) \/ FanWakes(p, t)
      BY <1>0, <1>5, <2>2, FanFrames DEF ConsumerType, FanAwait, FanWakes
    <2> QED
      BY <1>5, <2>1, <2>2 DEF FanStep
  <1>6. ASSUME NEW s \in Subs, ConsStep(s) PROVE ConsumerType'
    <2>0. /\ queue[s] \in Seq(Messages) /\ got[s] \in Seq(Messages)
          /\ hold[s] \in Messages \cup {NoItem}
          /\ queue \in [Subs -> Seq(Messages)] /\ got \in [Subs -> Seq(Messages)]
          /\ hold \in [Subs -> Messages \cup {NoItem}]
      BY <1>0 DEF ConsumerType
    <2>1. /\ Takes(s) \/ Gets(s) \/ Delivers(s) \/ Forgets(s)
          /\ \A u \in Subs \ {s} : queue'[u] = queue[u] /\ hold'[u] = hold[u] /\ got'[u] = got[u]
          /\ queue' = [u \in Subs |-> queue'[u]] /\ got' = [u \in Subs |-> got'[u]]
          /\ hold' = [u \in Subs |-> hold'[u]]
          /\ cons' \in [Subs -> {"none", "idle", "wait", "stopped"}]
      BY <1>0, <1>6, ConsEffect
    <2>2. queue[s] # <<>> => /\ Head(queue[s]) \in Messages
                             /\ Tail(queue[s]) \in Seq(Messages)
                             /\ Append(got[s], Head(queue[s])) \in Seq(Messages)
      BY <2>0, TailFacts, AppendFacts
    <2>3. hold[s] # NoItem => Append(got[s], hold[s]) \in Seq(Messages)
      BY <2>0, AppendFacts
    <2>4. /\ queue'[s] \in Seq(Messages) /\ got'[s] \in Seq(Messages)
          /\ hold'[s] \in Messages \cup {NoItem}
      BY <2>0, <2>1, <2>2, <2>3 DEF Takes, Gets, Delivers, Forgets
    <2>5. /\ queue' \in [Subs -> Seq(Messages)] /\ got' \in [Subs -> Seq(Messages)]
          /\ hold' \in [Subs -> Messages \cup {NoItem}]
      BY <2>0, <2>1, <2>4
    <2> QED
      BY <1>0, <1>6, <2>1, <2>5, ConsFrames DEF ConsumerType
  <1> QED
    BY <1>1, <1>2, <1>3, <1>4, <1>5, <1>6, StepCases

LEMMA ChannelTypeNext ==
  ASSUME CastType, Next
  PROVE  ChannelType'
  <1>0. /\ sent \in [Peers -> Nat] /\ born \in [Peers -> Nat \ {0}]
        /\ \A p \in Peers : born[p] <= sent[p] + 1
        /\ online \in [Peers -> BOOLEAN] /\ Self \in Peers
        /\ tpc \in [Tasks -> {"none", "lock", "gather", "sleep"}]
        /\ want \in [Tasks -> SUBSET Peers] /\ FanType /\ ConsumerType
    BY CastConstantsOK, TypesOfFan DEF CastType, ChannelType
  <1>1. ASSUME UNCHANGED <<tpc, want>>, FanType',
               sent' \in [Peers -> Nat], born' \in [Peers -> Nat \ {0}],
               \A p \in Peers : born'[p] <= sent'[p] + 1, online' \in [Peers -> BOOLEAN]
        PROVE  ChannelType'
    BY <1>0, <1>1 DEF ChannelType, FanType
  <1>2. CASE ShardStep
    <2>0. UNCHANGED <<tpc, want>>
      BY <1>2, ShardFrame
    <2>1. ASSUME NEW p \in Peers, PeerStarts(p) PROVE ChannelType'
      <3>1. /\ sent' = sent /\ online' = [online EXCEPT ![p] = TRUE]
            /\ born' = [born EXCEPT ![p] = sent[p] + 1] /\ fan' = fan
        BY <2>1 DEF PeerStarts
      <3>2. /\ born' \in [Peers -> Nat \ {0}] /\ \A q \in Peers : born'[q] <= sent'[q] + 1
        BY <1>0, <3>1
      <3>3. FanType'
        BY <1>0, <3>1 DEF FanType
      <3>4. online' \in [Peers -> BOOLEAN] /\ sent' \in [Peers -> Nat]
        BY <1>0, <3>1
      <3> QED
        BY <1>1, <2>0, <3>2, <3>3, <3>4
    <2>2. ASSUME NEW p \in Peers, PeerExits(p) PROVE ChannelType'
      <3>1. /\ UNCHANGED <<sent, born>> /\ fan' = Cut(p)
            /\ online' = [online EXCEPT ![p] = FALSE]
        BY <2>2 DEF PeerExits
      <3>2. FanType'
        BY <1>0, <3>1, CutFacts
      <3> QED
        BY <1>0, <1>1, <2>0, <3>1, <3>2
    <2>3. ASSUME NEW p \in Peers, fan' = Fed(p, sent[p] + 1),
                 sent' = [sent EXCEPT ![p] = sent[p] + 1],
                 born' = born \/ born' = [born EXCEPT ![p] = sent[p] + 1],
                 online' \in [Peers -> BOOLEAN]
          PROVE  ChannelType'
      <3>1. sent[p] + 1 \in Nat \ {0}
        BY <1>0
      <3>2. FanType'
        BY <1>0, <2>3, <3>1, FedFacts
      <3>3. /\ sent' \in [Peers -> Nat] /\ born' \in [Peers -> Nat \ {0}]
            /\ \A q \in Peers : born'[q] <= sent'[q] + 1
        BY <1>0, <2>3
      <3> QED
        BY <1>1, <2>0, <2>3, <3>2, <3>3
    <2>4. ASSUME NEW p \in Peers, PeerPublishes(p) PROVE ChannelType'
      <3>1. sent' = [sent EXCEPT ![p] = sent[p] + 1] /\ sent'[p] = sent[p] + 1
        BY <1>0, <2>4 DEF PeerPublishes
      <3>2. fan' = Fed(p, sent[p] + 1) /\ UNCHANGED <<born, online>>
        BY <2>4, <3>1 DEF PeerPublishes
      <3> QED
        BY <1>0, <2>3, <3>1, <3>2
    <2>5. CASE Publish
      <3>1. sent' = [sent EXCEPT ![Self] = sent[Self] + 1] /\ sent'[Self] = sent[Self] + 1
        BY <1>0, <2>5 DEF Publish
      <3>2. /\ fan' = Fed(Self, sent[Self] + 1) /\ online' = [online EXCEPT ![Self] = TRUE]
            /\ born' = born \/ born' = [born EXCEPT ![Self] = sent[Self] + 1]
        BY <2>5, <3>1 DEF Publish
      <3>3. online' \in [Peers -> BOOLEAN]
        BY <1>0, <3>2
      <3> QED
        BY <1>0, <2>3, <3>1, <3>2, <3>3
    <2> QED
      BY <1>2, <2>1, <2>2, <2>4, <2>5 DEF ShardStep
  <1>3. CASE OpeningStep
    <2>0. UNCHANGED <<sent, born, online>>
      BY <1>3, OpeningFrame
    <2>1. ASSUME FanType', tpc' \in [Tasks -> {"none", "lock", "gather", "sleep"}],
                 want' \in [Tasks -> SUBSET Peers]
          PROVE  ChannelType'
      BY <1>0, <2>0, <2>1 DEF ChannelType, FanType
    <2>2. ASSUME NEW s \in Subs, Subscribe(s) PROVE ChannelType'
      BY <1>0, <2>1, <2>2 DEF Subscribe, Goto, FanType
    <2>3. ASSUME NEW t \in Tasks, GatherRaises(t) PROVE ChannelType'
      <3>1. FanType'
        BY <1>0, <2>3, DroppedFacts DEF GatherRaises
      <3> QED
        BY <1>0, <2>1, <2>3, <3>1 DEF GatherRaises, Goto
    <2>4. ASSUME NEW t \in Tasks, NEW p \in Peers, OpenPeer(t, p) PROVE ChannelType'
      <3> DEFINE v == [st |-> "opened", todo |-> History(p), cut |-> FALSE]
      <3>1. v \in FanState
        BY <1>0, HistoryFacts DEF FanState
      <3>2. fan' = fan \/ fan' = FanPut(p, t, v)
        BY <2>4 DEF OpenPeer, FanPut
      <3> HIDE DEF v
      <3>3. FanType'
        <4>1. CASE fan' = fan
          BY <1>0, <4>1 DEF FanType
        <4>2. CASE fan' = FanPut(p, t, v)
          BY <1>0, <3>1, <4>2, FanSet
        <4> QED
          BY <3>2, <4>1, <4>2
      <3> QED
        BY <1>0, <2>1, <2>4, <3>3 DEF OpenPeer
    <2>5. CASE Retry
      BY <1>0, <2>1, <2>5 DEF Retry, Goto, FanType
    <2>6. CASE Close
      <3>1. FanType'
        BY <1>0, <2>6, CloseFacts
      <3> QED
        BY <1>0, <2>1, <2>6, <3>1 DEF Close, Goto
    <2> QED
      BY <1>3, <2>2, <2>3, <2>4, <2>5, <2>6 DEF OpeningStep
  <1>4. ASSUME NEW t \in Tasks, StartStep(t) PROVE ChannelType'
    <2>1. sent' = sent /\ tpc' \in [Tasks -> {"none", "lock", "gather", "sleep"}]
      BY <1>0, <1>4, StartFrame, StartEffect
    <2>2. CASE Acquire(t)
      <3>1. /\ born' = born \/ born' = [born EXCEPT ![Self] = sent[Self] + 1]
            /\ want' = want \/ want' = [want EXCEPT ![t] = Peers \ mmsubs]
            /\ online' = [online EXCEPT ![Self] = online[Self] \/ mine'] /\ fan' = fan
        BY <2>2 DEF Acquire
      <3>2. /\ born' \in [Peers -> Nat \ {0}] /\ \A q \in Peers : born'[q] <= sent'[q] + 1
        BY <1>0, <2>1, <3>1
      <3>3. want' \in [Tasks -> SUBSET Peers]
        BY <1>0, <3>1
      <3>4. online' \in [Peers -> BOOLEAN]
        BY <1>0, <3>1
      <3> QED
        BY <1>0, <2>1, <3>1, <3>2, <3>3, <3>4 DEF ChannelType, FanType
    <2>3. CASE Register(t)
      <3>1. FanType' /\ UNCHANGED <<born, online, want>>
        BY <1>0, <2>3, RegisterFacts DEF Register, shards
      <3> QED
        BY <1>0, <2>1, <3>1 DEF ChannelType, FanType
    <2> QED
      BY <1>4, <2>2, <2>3 DEF StartStep
  <1>5. CASE ShutStep
    <2>1. FanType'
      BY <1>0, <1>5, CutFacts DEF ShutStep, Leave, CloseEnd, FanType
    <2>2. online' \in [Peers -> BOOLEAN]
      BY <1>0, <1>5 DEF ShutStep, Leave, CloseEnd, shards
    <2> QED
      BY <1>0, <1>1, <1>5, <2>1, <2>2, ShutFrame
  <1>6. ASSUME NEW p \in Peers, NEW t \in Tasks, FanStep(p, t) PROVE ChannelType'
    <2>1. FanType'
      BY <1>0, <1>6, FanReadFacts, FanTurnFacts DEF FanStep
    <2> QED
      BY <1>0, <1>1, <1>6, <2>1, FanFrames
  <1>7. ASSUME NEW s \in Subs, ConsStep(s) PROVE ChannelType'
    BY <1>0, <1>7, ConsFrames DEF ChannelType, FanType
  <1> QED
    BY <1>2, <1>3, <1>4, <1>5, <1>6, <1>7, StepCases

-----------------------------------------------------------------------------
(* The end of an iteration, and slow_count *)

LEMMA IterationNext ==
  ASSUME CastType, IterationInv, Next
  PROVE  IterationInv'
  <1>0. /\ ConsumerType /\ FanType /\ tpc \in [Tasks -> {"none", "lock", "gather", "sleep"}]
        /\ Subs \subseteq Tasks /\ "reconnect" \notin Subs
    BY TypesOfFan, TaskNames DEF CastType, ChannelType
  <1>1. CASE ShardStep
    BY <1>1, ShardFrame DEF IterationInv
  <1>2. CASE OpeningStep
    <2>1. UNCHANGED <<queue, shut, ev, cons, hold>>
      BY <1>2, OpeningFrame
    <2>2. \A s \in Subs : tpc'[s] # "none" => tpc[s] # "none" \/ cons[s] = "none"
      BY <1>0, <1>2 DEF OpeningStep, Subscribe, GatherRaises, OpenPeer, Retry, Close, Goto
    <2> QED
      BY <2>1, <2>2 DEF IterationInv
  <1>3. ASSUME NEW t \in Tasks, StartStep(t) PROVE IterationInv'
    <2>1. UNCHANGED <<queue, shut, ev, hold>>
      BY <1>3, StartFrame
    <2>2. /\ tpc[t] \in {"lock", "gather"}
          /\ \A s \in Subs : \/ tpc'[s] = tpc[s] /\ cons'[s] = cons[s]
                             \/ s = t /\ tpc'[s] = "none" /\ cons'[s] = "idle"
                             \/ s = t /\ tpc'[s] = "gather" /\ cons'[s] = cons[s]
      BY <1>0, <1>3, StartEffect
    <2> QED
      BY <2>1, <2>2 DEF IterationInv
  <1>4. CASE ShutStep
    BY <1>0, <1>4, ShutFrame, ShutEffect DEF IterationInv
  <1>5. ASSUME NEW p \in Peers, NEW t \in Tasks, FanStep(p, t) PROVE IterationInv'
    <2>0. UNCHANGED <<tpc, cons, hold>>
      BY <1>5, FanFrames
    <2>1. CASE FanRead(p, t)
      <3> DEFINE m == [peer |-> p, n |-> Head(fan[p][t].todo)]
      <3>1. m \in Messages /\ Enqueue(m)
        BY <1>0, <2>1, FanMessage
      <3> HIDE DEF m
      <3>2. /\ \A s \in Subs : Passed(s) \/ Queued(s, m) \/ Refused(s) \/ Replaced(s, m)
            /\ \A s \in Subs : /\ shut[s] => shut'[s]
                               /\ ev'[s] => ev[s] \/ shut'[s]
        BY <1>0, <3>1, EnqueueEffect
      <3>3. \A s \in Subs : shut[s] => queue'[s] = queue[s]
        BY <3>2 DEF Passed, Queued, Refused, Replaced
      <3> QED
        BY <2>0, <3>2, <3>3 DEF IterationInv
    <2>2. CASE FanAwait(p, t) \/ FanWakes(p, t)
      BY <2>0, <2>2 DEF IterationInv, FanAwait, FanWakes
    <2> QED
      BY <1>5, <2>1, <2>2 DEF FanStep
  <1>6. ASSUME NEW s \in Subs, ConsStep(s) PROVE IterationInv'
    <2>1. UNCHANGED <<tpc, shut, ev>>
      BY <1>6, ConsFrames
    <2>2. /\ \A u \in Subs \ {s} : /\ queue'[u] = queue[u] /\ hold'[u] = hold[u]
                                   /\ cons'[u] = cons[u]
          /\ cons[s] # "none"
          /\ cons'[s] # "wait" => hold'[s] = NoItem
          /\ cons'[s] = "stopped" => queue'[s] = <<>> /\ (shut[s] \/ ev[s])
      BY <1>0, <1>6, ConsEffect
    <2> QED
      BY <2>1, <2>2 DEF IterationInv
  <1> QED
    BY <1>1, <1>2, <1>3, <1>4, <1>5, <1>6, StepCases

LEMMA CountNext ==
  ASSUME CastType, IterationInv, CountInv, Next
  PROVE  CountInv'
  <1>0. /\ ConsumerType /\ FanType
        /\ tpc \in [Tasks -> {"none", "lock", "gather", "sleep"}]
        /\ queue \in [Subs -> Seq(Messages)] /\ got \in [Subs -> Seq(Messages)]
        /\ hold \in [Subs -> Messages \cup {NoItem}]
        /\ slow \in [Subs -> Nat] /\ offered \in [Subs -> Nat]
    BY TypesOfFan DEF CastType, ChannelType, ConsumerType
  <1>1. ASSUME UNCHANGED <<queue, slow, offered, hold, got, spoilt>> PROVE CountInv'
    BY <1>1 DEF CountInv, HeldCount
  <1>2. CASE ShardStep \/ OpeningStep \/ ShutStep
    BY <1>1, <1>2, ShardFrame, OpeningFrame, ShutFrame
  <1>3. ASSUME NEW t \in Tasks, StartStep(t) PROVE CountInv'
    BY <1>1, <1>3, StartFrame
  <1>4. ASSUME NEW s \in Subs
        PROVE  /\ Len(queue[s]) \in Nat /\ Len(got[s]) \in Nat /\ HeldCount(s) \in Nat
               /\ slow[s] \in Nat /\ offered[s] \in Nat
               /\ queue[s] # <<>> => /\ Head(queue[s]) \in Messages
                                     /\ Len(Tail(queue[s])) = Len(queue[s]) - 1
                                     /\ Len(Append(got[s], Head(queue[s]))) = Len(got[s]) + 1
               /\ hold[s] # NoItem => Len(Append(got[s], hold[s])) = Len(got[s]) + 1
               /\ \A m \in Messages :
                    /\ Len(Append(queue[s], m)) = Len(queue[s]) + 1
                    /\ queue[s] # <<>> => Len(Append(Tail(queue[s]), m)) = Len(queue[s])
    <2>1. /\ queue[s] \in Seq(Messages) /\ got[s] \in Seq(Messages)
          /\ hold[s] \in Messages \cup {NoItem} /\ slow[s] \in Nat /\ offered[s] \in Nat
      BY <1>0
    <2>2. Len(queue[s]) \in Nat /\ Len(got[s]) \in Nat /\ HeldCount(s) \in Nat
      BY <2>1, LenProperties DEF HeldCount
    <2>3. queue[s] # <<>> => /\ Head(queue[s]) \in Messages
                             /\ Tail(queue[s]) \in Seq(Messages)
                             /\ Len(Tail(queue[s])) = Len(queue[s]) - 1
      BY <2>1, TailFacts
    <2>4. queue[s] # <<>> => Len(Append(got[s], Head(queue[s]))) = Len(got[s]) + 1
      BY <2>1, <2>3, AppendFacts
    <2>5. hold[s] # NoItem => Len(Append(got[s], hold[s])) = Len(got[s]) + 1
      BY <2>1, AppendFacts
    <2>6. ASSUME NEW m \in Messages PROVE Len(Append(queue[s], m)) = Len(queue[s]) + 1
      BY <2>1, AppendFacts
    <2>7. ASSUME NEW m \in Messages, queue[s] # <<>>
          PROVE  Len(Append(Tail(queue[s]), m)) = Len(queue[s])
      <3>1. Len(Append(Tail(queue[s]), m)) = Len(Tail(queue[s])) + 1
        BY <2>3, <2>7, AppendFacts
      <3> QED
        BY <2>2, <2>3, <2>7, <3>1
    <2> QED
      BY <2>1, <2>2, <2>3, <2>4, <2>5, <2>6, <2>7
  <1>5. ASSUME NEW p \in Peers, NEW t \in Tasks, FanStep(p, t) PROVE CountInv'
    <2>0. UNCHANGED <<hold, got, spoilt>>
      BY <1>5, FanFrames
    <2>1. CASE FanRead(p, t)
      <3> DEFINE m == [peer |-> p, n |-> Head(fan[p][t].todo)]
      <3>1. m \in Messages /\ Enqueue(m)
        BY <1>0, <2>1, FanMessage
      <3> HIDE DEF m
      <3>2. \A s \in Subs : Passed(s) \/ Queued(s, m) \/ Refused(s) \/ Replaced(s, m)
        BY <1>0, <3>1, EnqueueEffect
      <3>3. ASSUME NEW s \in Subs, s \notin spoilt'
            PROVE  offered'[s] = Len(got'[s]) + HeldCount(s)' + Len(queue'[s]) + slow'[s]
        <4>1. offered[s] = Len(got[s]) + HeldCount(s) + Len(queue[s]) + slow[s]
          BY <2>0, <3>3 DEF CountInv
        <4>2. HeldCount(s)' = HeldCount(s) /\ got'[s] = got[s]
          BY <2>0 DEF HeldCount
        <4> DEFINE o == offered[s]
                   g == Len(got[s])
                   h == HeldCount(s)
                   q == Len(queue[s])
                   w == slow[s]
        <4>3. g \in Nat /\ h \in Nat /\ q \in Nat /\ w \in Nat /\ o = g + h + q + w
          BY <1>4, <4>1
        <4>4. \/ offered'[s] = o /\ Len(queue'[s]) = q /\ slow'[s] = w
              \/ offered'[s] = o + 1 /\ Len(queue'[s]) = q + 1 /\ slow'[s] = w
              \/ offered'[s] = o + 1 /\ Len(queue'[s]) = q /\ slow'[s] = w + 1
          BY <1>4, <3>1, <3>2 DEF Passed, Queued, Refused, Replaced
        <4>5. Len(got'[s]) = g /\ HeldCount(s)' = h
          BY <4>2
        <4> HIDE DEF o, g, h, q, w
        <4>6. o + 1 = g + h + (q + 1) + w /\ o + 1 = g + h + q + (w + 1)
          BY <4>3
        <4>7. CASE offered'[s] = o /\ Len(queue'[s]) = q /\ slow'[s] = w
          BY <4>3, <4>5, <4>7
        <4>8. CASE offered'[s] = o + 1 /\ Len(queue'[s]) = q + 1 /\ slow'[s] = w
          BY <4>5, <4>6, <4>8
        <4>9. CASE offered'[s] = o + 1 /\ Len(queue'[s]) = q /\ slow'[s] = w + 1
          BY <4>5, <4>6, <4>9
        <4> QED
          BY <4>4, <4>7, <4>8, <4>9
      <3> QED
        BY <3>3 DEF CountInv
    <2>2. CASE FanAwait(p, t) \/ FanWakes(p, t)
      BY <1>1, <2>0, <2>2 DEF FanAwait, FanWakes
    <2> QED
      BY <1>5, <2>1, <2>2 DEF FanStep
  <1>6. ASSUME NEW s \in Subs, ConsStep(s) PROVE CountInv'
    <2>1. UNCHANGED <<slow, offered>>
      BY <1>6, ConsFrames
    <2>2. /\ Takes(s) \/ Gets(s) \/ Delivers(s) \/ Forgets(s)
          /\ \A u \in Subs \ {s} : /\ queue'[u] = queue[u] /\ hold'[u] = hold[u]
                                   /\ got'[u] = got[u]
          /\ spoilt \subseteq spoilt'
      BY <1>0, <1>6, ConsEffect
    <2>3. ASSUME NEW u \in Subs, u \notin spoilt', u # s
          PROVE  offered'[u] = Len(got'[u]) + HeldCount(u)' + Len(queue'[u]) + slow'[u]
      BY <2>1, <2>2, <2>3 DEF CountInv, HeldCount
    <2>4. ASSUME s \notin spoilt'
          PROVE  offered'[s] = Len(got'[s]) + HeldCount(s)' + Len(queue'[s]) + slow'[s]
      <3>1. offered[s] = Len(got[s]) + HeldCount(s) + Len(queue[s]) + slow[s]
        BY <2>2, <2>4 DEF CountInv
      <3>2. /\ HeldCount(s) = IF hold[s] = NoItem THEN 0 ELSE 1
            /\ HeldCount(s)' = IF hold'[s] = NoItem THEN 0 ELSE 1
        BY DEF HeldCount
      <3>3. \A m \in Messages : m # NoItem
        BY DEF Messages, NoItem
      <3> DEFINE o == offered[s]
                 g == Len(got[s])
                 h == HeldCount(s)
                 q == Len(queue[s])
                 w == slow[s]
      <3>4. g \in Nat /\ h \in Nat /\ q \in Nat /\ w \in Nat /\ o = g + h + q + w
        BY <1>4, <3>1
      <3>5. offered'[s] = o /\ slow'[s] = w
        BY <2>1
      <3>6. \/ Len(got'[s]) = g + 1 /\ HeldCount(s)' = h /\ Len(queue'[s]) = q - 1
            \/ Len(got'[s]) = g /\ h = 0 /\ HeldCount(s)' = 1 /\ Len(queue'[s]) = q - 1
            \/ Len(got'[s]) = g + 1 /\ h = 1 /\ HeldCount(s)' = 0 /\ Len(queue'[s]) = q
            \/ Len(got'[s]) = g /\ HeldCount(s)' = h /\ Len(queue'[s]) = q
        <4>1. CASE Takes(s)
          BY <1>4, <3>2, <4>1 DEF Takes
        <4>2. CASE Gets(s)
          BY <1>4, <3>2, <3>3, <4>2 DEF Gets
        <4>3. CASE Delivers(s)
          BY <1>4, <3>2, <4>3 DEF Delivers
        <4>4. CASE Forgets(s)
          BY <2>4, <3>2, <4>4 DEF Forgets
        <4> QED
          BY <2>2, <4>1, <4>2, <4>3, <4>4
      <3> HIDE DEF o, g, h, q, w
      <3>7. /\ o = (g + 1) + h + (q - 1) + w
            /\ h = 0 => o = g + 1 + (q - 1) + w
            /\ h = 1 => o = (g + 1) + 0 + q + w
        BY <3>4
      <3> QED
        BY <3>4, <3>5, <3>6, <3>7
    <2> QED
      BY <2>3, <2>4 DEF CountInv
  <1> QED
    BY <1>2, <1>3, <1>5, <1>6, StepCases

LEMMA CountGives == CastType /\ CountInv => SlowCountExact
  <1> SUFFICES ASSUME CastType, CountInv, NEW s \in Subs \ spoilt
               PROVE  offered[s] = Len(Taken(s)) + slow[s]
    BY DEF SlowCountExact
  <1>1. /\ got[s] \in Seq(Messages) /\ queue[s] \in Seq(Messages)
        /\ hold[s] \in Messages \cup {NoItem}
    BY DEF CastType, ConsumerType
  <1> DEFINE h == IF hold[s] = NoItem THEN <<>> ELSE <<hold[s]>>
  <1>2. h \in Seq(Messages) /\ Len(h) = HeldCount(s)
    BY <1>1, EmptyFacts DEF HeldCount
  <1> HIDE DEF h
  <1>3. got[s] \o h \in Seq(Messages) /\ Len(got[s] \o h) = Len(got[s]) + Len(h)
    BY <1>1, <1>2, ConcatProperties
  <1>4. Len((got[s] \o h) \o queue[s]) = Len(got[s]) + Len(h) + Len(queue[s])
    BY <1>1, <1>3, ConcatProperties
  <1>5. Taken(s) = (got[s] \o h) \o queue[s]
    BY DEF Taken, h
  <1> QED
    BY <1>2, <1>4, <1>5 DEF CountInv

LEMMA InitCast == Init => CastType /\ IterationInv /\ CountInv
  <1> SUFFICES ASSUME Init PROVE CastType /\ IterationInv /\ CountInv
    OBVIOUS
  <1>1. policy \in [Subs -> SlowPolicies]
    BY CastConstantsOK DEF Init
  <1>2. ConsumerType
    BY <1>1, EmptyFacts DEF Init, ConsumerType
  <1>3. ChannelType
    BY NoFanState DEF Init, ChannelType
  <1>4. IterationInv
    BY TaskNames DEF Init, IterationInv
  <1>5. CountInv
    BY EmptyFacts DEF Init, CountInv, HeldCount
  <1> QED
    BY <1>2, <1>3, <1>4, <1>5 DEF CastType

LEMMA NextCast ==
  CastType /\ IterationInv /\ CountInv /\ [Next]_vars
    => CastType' /\ IterationInv' /\ CountInv'
  <1> SUFFICES ASSUME CastType, IterationInv, CountInv, [Next]_vars
               PROVE  CastType' /\ IterationInv' /\ CountInv'
    OBVIOUS
  <1>1. CASE Next
    BY <1>1, ConsumerTypeNext, ChannelTypeNext, IterationNext, CountNext DEF CastType
  <1>2. CASE UNCHANGED vars
    <2>1. UNCHANGED <<online, sent, born, tpc, want, fan, attached, policy, queue, shut, ev,
                      slow, offered, cons, hold, got, spoilt>>
      BY <1>2 DEF vars, shards, starting, subState, consumer
    <2> QED
      BY <2>1 DEF CastType, ConsumerType, ChannelType, IterationInv, CountInv, HeldCount
  <1> QED
    BY <1>1, <1>2

LEMMA CastInvHolds == Spec => [](CastType /\ IterationInv /\ CountInv)
  BY InitCast, NextCast, PTL DEF Spec

(***************************************************************************)
(* Drain-then-close: __anext__ raises StopAsyncIteration only when nothing *)
(* is left in the queue or with get_task, whichever of the last item and   *)
(* the close came first.                                                   *)
(***************************************************************************)
THEOREM IterationsDrain == Spec => []DrainedAtStop
  <1>1. IterationInv => DrainedAtStop
    BY DEF IterationInv, DrainedAtStop
  <1> QED
    BY <1>1, CastInvHolds, PTL

(***************************************************************************)
(* Every message _enqueue offered to a consumer was delivered, is on its   *)
(* way, or is counted by slow_count, under every slow_policy and queue     *)
(* depth.                                                                  *)
(***************************************************************************)
THEOREM SlowCountHolds == Spec => []SlowCountExact
  BY CountGives, CastInvHolds, PTL

-----------------------------------------------------------------------------
(* The order a consumer sees: one consumer *)

LEMMA ElemsOfTail ==
  ASSUME NEW q \in Seq(Messages), q # <<>>, Sorted(q)
  PROVE  /\ Head(q) \in Messages /\ Head(q) \in Elems(q)
         /\ Tail(q) \in Seq(Messages) /\ Elems(Tail(q)) \subseteq Elems(q)
         /\ Sorted(Tail(q)) /\ \A x \in Elems(Tail(q)) : Before(Head(q), x)
  <1> DEFINE t == Tail(q)
  <1>1. /\ Head(q) = q[1] /\ Len(q) \in Nat \ {0} /\ DOMAIN q = 1..Len(q)
        /\ Head(q) \in Messages /\ t \in Seq(Messages)
        /\ DOMAIN t = 1..(Len(q) - 1) /\ \A i \in 1..(Len(q) - 1) : t[i] = q[i + 1]
    BY TailFacts
  <1> HIDE DEF t
  <1>2. /\ 1 \in DOMAIN q
        /\ \A i \in DOMAIN t : i \in Int /\ i + 1 \in DOMAIN q /\ 1 < i + 1 /\ t[i] = q[i + 1]
    BY <1>1
  <1>3. \A i, j \in DOMAIN t : i < j => i + 1 < j + 1
    BY <1>2
  <1>4. Head(q) \in Elems(q) /\ Elems(t) \subseteq Elems(q)
    BY <1>1, <1>2 DEF Elems
  <1>5. Sorted(t)
    BY <1>2, <1>3 DEF Sorted
  <1>6. \A x \in Elems(t) : Before(Head(q), x)
    BY <1>1, <1>2 DEF Sorted, Elems
  <1> QED
    BY <1>1, <1>4, <1>5, <1>6 DEF t

LEMMA ElemsOfAppend ==
  ASSUME NEW q \in Seq(Messages), NEW x \in Messages
  PROVE  /\ Elems(Append(q, x)) \subseteq Elems(q) \cup {x}
         /\ Sorted(q) /\ (\A y \in Elems(q) : Before(y, x)) => Sorted(Append(q, x))
  <1> DEFINE t == Append(q, x)
             m == Len(q) + 1
  <1>1. /\ DOMAIN q = 1..Len(q) /\ DOMAIN t = 1..m /\ Len(q) \in Nat
        /\ \A i \in 1..Len(q) : t[i] = q[i]
        /\ t[m] = x
    BY AppendFacts
  <1> HIDE DEF t
  <1>2. \A i \in DOMAIN t : (i \in DOMAIN q /\ t[i] = q[i]) \/ t[i] = x
    BY <1>1
  <1>3. \A i, j \in DOMAIN t : i < j => i \in DOMAIN q /\ t[i] = q[i]
    BY <1>1
  <1>4. Elems(t) \subseteq Elems(q) \cup {x}
    BY <1>2 DEF Elems
  <1>5. ASSUME Sorted(q), \A y \in Elems(q) : Before(y, x),
               NEW i \in DOMAIN t, NEW j \in DOMAIN t, i < j
        PROVE  Before(t[i], t[j])
    <2>1. i \in DOMAIN q /\ t[i] = q[i]
      BY <1>3, <1>5
    <2>2. CASE j \in DOMAIN q /\ t[j] = q[j]
      BY <1>5, <2>1, <2>2 DEF Sorted
    <2>3. CASE t[j] = x
      BY <1>5, <2>1, <2>3 DEF Elems
    <2> QED
      BY <1>2, <2>2, <2>3
  <1>6. Sorted(q) /\ (\A y \in Elems(q) : Before(y, x)) => Sorted(t)
    BY <1>5 DEF Sorted
  <1> QED
    BY <1>4, <1>6 DEF t

LEMMA HeldNothing == HeldSet(NoItem) = {} /\ \A m \in Messages : HeldSet(m) = {m}
  BY DEF HeldSet, Messages, NoItem

LEMMA OrderedTakes ==
  ASSUME NEW g \in Seq(Messages), NEW q \in Seq(Messages), q # <<>>, Ordered(g, NoItem, q)
  PROVE  /\ Ordered(Append(g, Head(q)), NoItem, Tail(q))
         /\ Together(Append(g, Head(q)), NoItem, Tail(q)) \subseteq Together(g, NoItem, q)
  <1> DEFINE x == Head(q)
             t == Tail(q)
             a == Append(g, x)
  <1>0. Sorted(q) /\ Sorted(g) /\ AllBefore(Elems(g), Elems(q))
    BY DEF Ordered
  <1>1. /\ x \in Messages /\ x \in Elems(q) /\ Elems(t) \subseteq Elems(q)
        /\ Sorted(t) /\ \A y \in Elems(t) : Before(x, y)
    BY <1>0, ElemsOfTail
  <1>2. Elems(a) \subseteq Elems(g) \cup {x} /\ Sorted(a)
    BY <1>0, <1>1, ElemsOfAppend DEF AllBefore
  <1> HIDE DEF x, t, a
  <1>3. Ordered(a, NoItem, t) /\ Together(a, NoItem, t) \subseteq Together(g, NoItem, q)
    BY <1>0, <1>1, <1>2, HeldNothing DEF Ordered, Together, AllBefore
  <1> QED
    BY <1>3 DEF x, t, a

LEMMA OrderedGets ==
  ASSUME NEW g \in Seq(Messages), NEW q \in Seq(Messages), q # <<>>, Ordered(g, NoItem, q)
  PROVE  /\ Ordered(g, Head(q), Tail(q))
         /\ Together(g, Head(q), Tail(q)) \subseteq Together(g, NoItem, q)
  <1> DEFINE x == Head(q)
             t == Tail(q)
  <1>0. Sorted(q) /\ Sorted(g) /\ AllBefore(Elems(g), Elems(q))
    BY DEF Ordered
  <1>1. /\ x \in Messages /\ x \in Elems(q) /\ Elems(t) \subseteq Elems(q)
        /\ Sorted(t) /\ \A y \in Elems(t) : Before(x, y)
    BY <1>0, ElemsOfTail
  <1> HIDE DEF x, t
  <1>2. HeldSet(x) = {x}
    BY <1>1, HeldNothing
  <1>3. Ordered(g, x, t) /\ Together(g, x, t) \subseteq Together(g, NoItem, q)
    BY <1>0, <1>1, <1>2 DEF Ordered, Together, AllBefore
  <1> QED
    BY <1>3 DEF x, t

LEMMA OrderedDelivers ==
  ASSUME NEW g \in Seq(Messages), NEW q \in Seq(Messages), NEW h \in Messages,
         Ordered(g, h, q)
  PROVE  /\ Ordered(Append(g, h), NoItem, q)
         /\ Together(Append(g, h), NoItem, q) \subseteq Together(g, h, q)
  <1> DEFINE a == Append(g, h)
  <1>1. HeldSet(h) = {h} /\ HeldSet(NoItem) = {}
    BY HeldNothing
  <1>2. \A y \in Elems(g) : Before(y, h)
    BY <1>1 DEF Ordered, AllBefore
  <1>3. Elems(a) \subseteq Elems(g) \cup {h} /\ Sorted(a)
    BY <1>2, ElemsOfAppend DEF Ordered
  <1> HIDE DEF a
  <1>4. Ordered(a, NoItem, q) /\ Together(a, NoItem, q) \subseteq Together(g, h, q)
    BY <1>1, <1>3 DEF Ordered, Together, AllBefore
  <1> QED
    BY <1>4 DEF a

LEMMA OrderedForgets ==
  ASSUME NEW g, NEW q, NEW h, Ordered(g, h, q)
  PROVE  Ordered(g, NoItem, q) /\ Together(g, NoItem, q) \subseteq Together(g, h, q)
  BY HeldNothing DEF Ordered, Together, AllBefore

LEMMA OrderedQueued ==
  ASSUME NEW g, NEW h, NEW q \in Seq(Messages), NEW m \in Messages, Ordered(g, h, q),
         \A x \in Together(g, h, q) : Before(x, m)
  PROVE  /\ Ordered(g, h, Append(q, m))
         /\ Together(g, h, Append(q, m)) \subseteq Together(g, h, q) \cup {m}
  <1> DEFINE a == Append(q, m)
  <1>1. Elems(a) \subseteq Elems(q) \cup {m} /\ Sorted(a)
    BY ElemsOfAppend DEF Ordered, Together
  <1> HIDE DEF a
  <1>2. Ordered(g, h, a) /\ Together(g, h, a) \subseteq Together(g, h, q) \cup {m}
    BY <1>1 DEF Ordered, Together, AllBefore
  <1> QED
    BY <1>2 DEF a

LEMMA OrderedReplaced ==
  ASSUME NEW g, NEW h, NEW q \in Seq(Messages), q # <<>>, NEW m \in Messages,
         Ordered(g, h, q), \A x \in Together(g, h, q) : Before(x, m)
  PROVE  /\ Ordered(g, h, Append(Tail(q), m))
         /\ Together(g, h, Append(Tail(q), m)) \subseteq Together(g, h, q) \cup {m}
  <1> DEFINE t == Tail(q)
  <1>1. t \in Seq(Messages) /\ Elems(t) \subseteq Elems(q) /\ Sorted(t)
    BY ElemsOfTail DEF Ordered
  <1> HIDE DEF t
  <1>2. Ordered(g, h, t) /\ Together(g, h, t) \subseteq Together(g, h, q)
    BY <1>1 DEF Ordered, Together, AllBefore
  <1>3. /\ Ordered(g, h, Append(t, m))
        /\ Together(g, h, Append(t, m)) \subseteq Together(g, h, t) \cup {m}
    BY <1>1, <1>2, OrderedQueued
  <1> QED
    BY <1>2, <1>3 DEF t

\* A consumer takes nothing that it did not have.
LEMMA ConsOrdered ==
  ASSUME ConsumerType, IterationInv, ConsumerSorted, NEW s \in Subs, ConsStep(s)
  PROVE  ConsumerSorted' /\ \A u \in Subs : Have(u)' \subseteq Have(u)
  <1>1. /\ Takes(s) \/ Gets(s) \/ Delivers(s) \/ Forgets(s)
        /\ \A u \in Subs \ {s} : queue'[u] = queue[u] /\ hold'[u] = hold[u] /\ got'[u] = got[u]
    BY ConsEffect
  <1>2. /\ queue[s] \in Seq(Messages) /\ got[s] \in Seq(Messages)
        /\ hold[s] \in Messages \cup {NoItem} /\ Ordered(got[s], hold[s], queue[s])
    BY DEF ConsumerType, ConsumerSorted
  <1>3. /\ Ordered(got'[s], hold'[s], queue'[s])
        /\ Together(got'[s], hold'[s], queue'[s]) \subseteq Together(got[s], hold[s], queue[s])
    <2>1. CASE Takes(s)
      BY <1>2, <2>1, OrderedTakes DEF Takes
    <2>2. CASE Gets(s)
      BY <1>2, <2>2, OrderedGets DEF Gets
    <2>3. CASE Delivers(s)
      BY <1>2, <2>3, OrderedDelivers DEF Delivers
    <2>4. CASE Forgets(s)
      BY <1>2, <2>4, OrderedForgets DEF Forgets
    <2> QED
      BY <1>1, <2>1, <2>2, <2>3, <2>4
  <1>4. ASSUME NEW u \in Subs
        PROVE  /\ Ordered(got'[u], hold'[u], queue'[u])
               /\ Together(got'[u], hold'[u], queue'[u])
                    \subseteq Together(got[u], hold[u], queue[u])
    BY <1>1, <1>3 DEF ConsumerSorted
  <1> QED
    BY <1>4 DEF ConsumerSorted, Have

LEMMA EnqueueOrdered ==
  ASSUME ConsumerType, ConsumerSorted, NEW m \in Messages, Enqueue(m),
         UNCHANGED <<hold, got>>, \A s \in Subs : \A x \in Have(s) : Before(x, m)
  PROVE  ConsumerSorted' /\ \A s \in Subs : Have(s)' \subseteq Have(s) \cup {m}
  <1>1. ASSUME NEW s \in Subs
        PROVE  /\ Ordered(got[s], hold[s], queue'[s])
               /\ Together(got[s], hold[s], queue'[s])
                    \subseteq Together(got[s], hold[s], queue[s]) \cup {m}
    <2>1. /\ queue[s] \in Seq(Messages) /\ Ordered(got[s], hold[s], queue[s])
          /\ \A x \in Together(got[s], hold[s], queue[s]) : Before(x, m)
      BY DEF ConsumerType, ConsumerSorted, Have
    <2>2. Passed(s) \/ Queued(s, m) \/ Refused(s) \/ Replaced(s, m)
      BY EnqueueEffect
    <2>3. CASE Passed(s) \/ Refused(s)
      BY <2>1, <2>3 DEF Passed, Refused
    <2>4. CASE Queued(s, m)
      BY <2>1, <2>4, OrderedQueued DEF Queued
    <2>5. CASE Replaced(s, m)
      BY <2>1, <2>5, OrderedReplaced DEF Replaced
    <2> QED
      BY <2>2, <2>3, <2>4, <2>5
  <1> QED
    BY <1>1 DEF ConsumerSorted, Have

-----------------------------------------------------------------------------
(* The order a consumer sees: one opener, one subscription per shard *)

LEMMA HaveSame ==
  ASSUME UNCHANGED <<got, hold, queue>>
  PROVE  \A s \in Subs : Have(s)' = Have(s)
  BY DEF Have

LEMMA HaveTyped ==
  ASSUME ConsumerType, NEW s \in Subs
  PROVE  Have(s) \subseteq Messages
  <1>1. /\ got[s] \in Seq(Messages) /\ queue[s] \in Seq(Messages)
        /\ hold[s] \in Messages \cup {NoItem}
    BY DEF ConsumerType
  <1>2. /\ \A i \in DOMAIN got[s] : got[s][i] \in Messages
        /\ \A i \in DOMAIN queue[s] : queue[s][i] \in Messages
    BY <1>1, ElementOfSeq, LenProperties
  <1> QED
    BY <1>1, <1>2 DEF Have, Together, HeldSet, Elems

LEMMA UnseenKept ==
  ASSUME \A s \in Subs : Have(s)' \subseteq Have(s), NEW p, Unseen(p)
  PROVE  Unseen(p)'
  BY DEF Unseen

LEMMA CloseInvNext ==
  ASSUME CloseInv, Next
  PROVE  CloseInv'
  <1>1. CASE Close \/ CloseEnd
    BY <1>1 DEF Close, CloseEnd, CloseInv
  <1>2. CASE UNCHANGED <<closed, cpc>>
    BY <1>2 DEF CloseInv
  <1>3. CASE ShardStep
    BY <1>2, <1>3 DEF ShardStep, PeerStarts, PeerExits, PeerPublishes, Publish
  <1>4. CASE OpeningStep
    BY <1>1, <1>2, <1>4 DEF OpeningStep, Subscribe, GatherRaises, OpenPeer, Retry
  <1>5. ASSUME NEW t \in Tasks, StartStep(t) PROVE CloseInv'
    BY <1>2, <1>5 DEF StartStep, Acquire, Register
  <1>6. ASSUME NEW p \in Peers, NEW t \in Tasks, FanStep(p, t) PROVE CloseInv'
    BY <1>2, <1>6 DEF FanStep, FanRead, FanAwait, FanWakes, FanFrame
  <1>7. ASSUME NEW s \in Subs, ConsStep(s) PROVE CloseInv'
    BY <1>2, <1>7 DEF ConsStep, Next1, GetTask, Wake, Cancel, ConsFrame
  <1>8. CASE ShutStep
    BY <1>1, <1>2, <1>8 DEF ShutStep, Leave
  <1> QED
    BY <1>3, <1>4, <1>5, <1>6, <1>7, <1>8, StepCases

\* Whatever leaves start_subscriptions and the state of the fan-outs alone.
LEMMA OpeningKept ==
  ASSUME ChannelType, OpeningInv, UNCHANGED <<closed, lock, tpc, want, mmsubs>>,
         \A q \in Peers, u \in Tasks : fan'[q][u].st = fan[q][u].st,
         \A s \in Subs : Have(s)' \subseteq Have(s)
  PROVE  OpeningInv'
  <1>1. \A q \in Peers : Unseen(q) => Unseen(q)'
    BY UnseenKept
  <1>2. \A t \in Tasks : want[t] \subseteq Peers
    BY DEF ChannelType
  <1>3. \A q \in Peers : Unopened(q) => Unopened(q)'
    BY DEF Unopened
  <1> QED
    BY <1>1, <1>2, <1>3 DEF OpeningInv

LEMMA SoleOpener ==
  ASSUME OpeningInv, NEW t \in Tasks, lock = "free" \/ tpc[t] = "gather"
  PROVE  /\ \A u \in Tasks : tpc[u] = "gather" => u = t /\ lock = t
         /\ \A q \in Peers, u \in Tasks : fan[q][u].st = "opened" => u = t /\ tpc[t] = "gather"
         /\ lock = "free" => /\ \A u \in Tasks : tpc[u] # "gather"
                             /\ \A q \in Peers, u \in Tasks : fan[q][u].st # "opened"
  BY TaskNames DEF OpeningInv

LEMMA OpenPeerFacts ==
  ASSUME CastType, OpeningInv, NEW t \in Tasks, NEW p \in Peers, OpenPeer(t, p)
  PROVE  /\ \A q \in Peers, u \in Tasks : (q = p /\ u = t) \/ fan'[q][u] = fan[q][u]
         /\ \/ fan'[p][t] = fan[p][t] /\ fan[p][t].st = "none"
            \/ fan'[p][t].st = "opened" /\ fan'[p][t].todo = History(p)
         /\ Unseen(p) /\ Unopened(p)
  <1>0. FanType /\ sent[p] \in Nat /\ born[p] \in Nat \ {0} /\ born[p] <= sent[p] + 1
    BY TypesOfFan DEF CastType, ChannelType
  <1>1. Unseen(p) /\ Unopened(p)
    BY DEF OpeningInv, OpenPeer
  <1>2. CASE fan' = fan
    BY <1>1, <1>2 DEF Unopened
  <1>3. CASE fan' = [fan EXCEPT ![p][t] = [st |-> "opened", todo |-> History(p),
                                           cut |-> FALSE]]
    <2> DEFINE v == [st |-> "opened", todo |-> History(p), cut |-> FALSE]
    <2>1. v \in FanState /\ v.st = "opened" /\ v.todo = History(p)
      BY <1>0, HistoryFacts DEF FanState
    <2>2. fan' = FanPut(p, t, v)
      BY <1>3 DEF FanPut
    <2> HIDE DEF v
    <2> QED
      BY <1>0, <1>1, <2>1, <2>2, FanSet
  <1> QED
    BY <1>2, <1>3 DEF OpenPeer

LEMMA StartOpening ==
  ASSUME CastType, OpeningInv, NEW t \in Tasks, StartStep(t)
  PROVE  OpeningInv'
  <1>0. /\ ConsumerType /\ FanType /\ tpc \in [Tasks -> {"none", "lock", "gather", "sleep"}]
        /\ want \in [Tasks -> SUBSET Peers]
    BY TypesOfFan DEF CastType, ChannelType
  <1>1. UNCHANGED <<closed, queue, hold, got>>
    BY StartFrame
  <1>2. \A q : Unseen(q) => Unseen(q)'
    BY <1>1, HaveSame, UnseenKept
  <1>3. \A q \in Peers \ mmsubs :
          ~closed => Unseen(q) /\ \A u \in Tasks : fan[q][u].st \in {"none", "opened"}
    BY DEF OpeningInv
  <1>4. CASE Acquire(t)
    <2>1. lock = "free" /\ UNCHANGED <<mmsubs, fan>>
      BY <1>4 DEF Acquire, LockFree
    <2>2. /\ \A u \in Tasks : tpc[u] # "gather"
          /\ \A q \in Peers, u \in Tasks : fan[q][u].st # "opened"
      BY <2>1, SoleOpener
    <2>3. CASE Returns(t, Peers)
      <3>1. \A u \in Tasks : tpc'[u] # "gather"
        BY <1>0, <2>2, <2>3, ReturnsFacts
      <3> QED
        BY <1>1, <1>2, <1>3, <2>1, <2>2, <3>1 DEF OpeningInv
    <2>4. CASE /\ ~closed /\ lock' = t /\ want' = [want EXCEPT ![t] = Peers \ mmsubs]
               /\ Goto(t, "gather")
      <3>1. /\ want'[t] = Peers \ mmsubs
            /\ \A u \in Tasks : tpc'[u] = "gather" <=> u = t
        BY <1>0, <2>2, <2>4 DEF Goto
      <3>2. \A q \in Peers \ mmsubs : Unopened(q)' /\ Unseen(q)'
        BY <1>2, <1>3, <2>1, <2>2, <2>4 DEF Unopened
      <3> QED
        BY <1>1, <1>2, <1>3, <2>1, <2>2, <2>4, <3>1, <3>2 DEF OpeningInv
    <2> QED
      BY <1>4, <2>3, <2>4 DEF Acquire
  <1>5. CASE Register(t)
    <2>1. tpc[t] = "gather" /\ Returns(t, mmsubs')
      BY <1>5 DEF Register
    <2>2. \A u \in Tasks : tpc'[u] # "gather"
      BY <1>0, <2>1, ReturnsFacts, SoleOpener
    <2>3. /\ \A q \in Peers : fan'[q][t].st # "opened"
          /\ \A q \in Peers, u \in Tasks :
               \/ fan'[q][u] = fan[q][u]
               \/ /\ u = t /\ q \in mmsubs' /\ fan[q][u].st = "opened"
                  /\ fan'[q][u].st = "read" /\ fan'[q][u].todo = fan[q][u].todo
          /\ mmsubs \subseteq mmsubs'
      BY <1>0, <1>5, RegisterFacts
    <2>4. \A q \in Peers, u \in Tasks : fan'[q][u].st # "opened"
      BY <2>1, <2>3, SoleOpener
    <2>5. \A q \in Peers \ mmsubs' :
            ~closed => Unseen(q)' /\ \A u \in Tasks : fan'[q][u].st \in {"none", "opened"}
      BY <1>2, <1>3, <2>3
    <2> QED
      BY <1>1, <2>2, <2>4, <2>5 DEF OpeningInv
  <1> QED
    BY <1>4, <1>5 DEF StartStep

LEMMA OpeningOpening ==
  ASSUME CastType, OpeningInv, OpeningStep
  PROVE  OpeningInv'
  <1>0. /\ FanType /\ tpc \in [Tasks -> {"none", "lock", "gather", "sleep"}]
        /\ want \in [Tasks -> SUBSET Peers]
    BY TypesOfFan DEF CastType, ChannelType
  <1>1. UNCHANGED <<mmsubs, queue, hold, got>>
    BY OpeningFrame
  <1>2. \A q : Unseen(q) => Unseen(q)'
    BY <1>1, HaveSame, UnseenKept
  <1>3. \A q \in Peers \ mmsubs :
          ~closed => Unseen(q) /\ \A u \in Tasks : fan[q][u].st \in {"none", "opened"}
    BY DEF OpeningInv
  <1>4. ASSUME NEW t \in Tasks, tpc[t] # "gather", Goto(t, "lock"),
               UNCHANGED <<closed, lock, want, mmsubs, fan>>
        PROVE  OpeningInv'
    <2>1. \A u \in Tasks : tpc'[u] = "gather" <=> tpc[u] = "gather"
      BY <1>0, <1>4 DEF Goto
    <2>2. \A q : Unopened(q) => Unopened(q)'
      BY <1>4 DEF Unopened
    <2> QED
      BY <1>2, <1>4, <2>1, <2>2 DEF OpeningInv
  <1>5. ASSUME NEW s \in Subs, Subscribe(s) PROVE OpeningInv'
    BY <1>4, <1>5, TaskNames DEF Subscribe
  <1>6. CASE Retry
    BY <1>4, <1>6, TaskNames DEF Retry
  <1>7. ASSUME NEW t \in Tasks, GatherRaises(t) PROVE OpeningInv'
    <2>1. tpc[t] = "gather" /\ Goto(t, "none") /\ fan' = Dropped(t) /\ closed' = closed
      BY <1>7 DEF GatherRaises
    <2>2. \A u \in Tasks : tpc'[u] # "gather"
      BY <1>0, <2>1, SoleOpener DEF Goto
    <2>3. /\ \A q \in Peers : fan'[q][t].st # "opened"
          /\ \A q \in Peers, u \in Tasks :
               \/ fan'[q][u] = fan[q][u]
               \/ u = t /\ fan[q][u].st = "opened" /\ fan'[q][u] = NoFan
      BY <1>0, <2>1, DroppedFacts
    <2>4. \A q \in Peers, u \in Tasks : fan'[q][u].st # "opened"
      BY <2>1, <2>3, SoleOpener
    <2>5. \A q \in Peers \ mmsubs :
            ~closed => Unseen(q)' /\ \A u \in Tasks : fan'[q][u].st \in {"none", "opened"}
      BY <1>2, <1>3, <2>3, NoFanState
    <2> QED
      BY <1>1, <2>1, <2>2, <2>4, <2>5 DEF OpeningInv
  <1>8. ASSUME NEW t \in Tasks, NEW p \in Peers, OpenPeer(t, p) PROVE OpeningInv'
    <2>1. /\ tpc[t] = "gather" /\ p \in want[t] /\ UNCHANGED <<closed, lock, tpc>>
          /\ want' = [want EXCEPT ![t] = @ \ {p}]
      BY <1>8 DEF OpenPeer
    <2>2. /\ want'[t] = want[t] \ {p} /\ \A u \in Tasks : u # t => want'[u] = want[u]
      BY <1>0, <2>1
    <2>3. /\ \A q \in Peers, u \in Tasks : (q = p /\ u = t) \/ fan'[q][u] = fan[q][u]
          /\ fan'[p][t].st \in {"none", "opened"}
      BY <1>8, OpenPeerFacts
    <2>4. /\ \A u \in Tasks : tpc[u] = "gather" => u = t /\ lock = t
          /\ \A q \in Peers, u \in Tasks : fan[q][u].st = "opened" => u = t
      BY <2>1, SoleOpener
    <2>5. \A q \in Peers : q # p /\ Unopened(q) => Unopened(q)'
      BY <2>3 DEF Unopened
    <2>6. \A q \in want[t] : Unseen(q)' /\ Unopened(q)
      BY <1>2, <2>1 DEF OpeningInv
    <2>7. \A u \in Tasks : \A q \in want'[u] : tpc'[u] = "gather" => Unseen(q)' /\ Unopened(q)'
      BY <1>0, <2>1, <2>2, <2>4, <2>5, <2>6
    <2>8. \A q \in Peers, u \in Tasks :
            fan'[q][u].st = "opened" => tpc'[u] = "gather" /\ q \notin want'[u] /\ Unseen(q)'
      <3>1. ASSUME NEW q \in Peers, NEW u \in Tasks, fan'[q][u].st = "opened"
            PROVE  tpc'[u] = "gather" /\ q \notin want'[u] /\ Unseen(q)'
        <4>1. CASE q = p /\ u = t
          BY <2>1, <2>2, <2>6, <4>1
        <4>2. CASE fan'[q][u] = fan[q][u]
          BY <1>2, <2>1, <2>2, <2>4, <3>1, <4>2 DEF OpeningInv
        <4> QED
          BY <2>3, <4>1, <4>2
      <3> QED
        BY <3>1
    <2>9. \A q \in Peers \ mmsubs :
            ~closed => Unseen(q)' /\ \A u \in Tasks : fan'[q][u].st \in {"none", "opened"}
      BY <1>2, <1>3, <2>3
    <2> QED
      BY <1>1, <2>1, <2>4, <2>7, <2>8, <2>9 DEF OpeningInv
  <1>9. CASE Close
    <2>1. /\ closed' /\ Goto("reconnect", "none") /\ want' = [want EXCEPT !["reconnect"] = {}]
          /\ lock' = IF lock = "reconnect" THEN "free" ELSE lock
      BY <1>9 DEF Close
    <2>2. \A u \in Tasks : tpc'[u] = "gather" => /\ u # "reconnect" /\ tpc[u] = "gather"
                                                 /\ want'[u] = want[u]
      BY <1>0, <2>1, TaskNames DEF Goto
    <2>3. \A q \in Peers, u \in Tasks : /\ fan'[q][u] = fan[q][u] \/ fan'[q][u] = NoFan
                                        /\ u = "reconnect" => fan'[q][u] = NoFan
      BY <1>0, <1>9, CloseFacts
    <2>4. \A q \in Peers : Unopened(q) => Unopened(q)'
      BY <2>3, NoFanState DEF Unopened
    <2>5. \A u \in Tasks : tpc'[u] = "gather" => lock' = u
      BY <2>1, <2>2 DEF OpeningInv
    <2>6. \A u \in Tasks : \A q \in want'[u] : tpc'[u] = "gather" => Unseen(q)' /\ Unopened(q)'
      BY <1>0, <1>2, <2>2, <2>4 DEF OpeningInv
    <2>7. \A q \in Peers, u \in Tasks :
            fan'[q][u].st = "opened" => tpc'[u] = "gather" /\ q \notin want'[u] /\ Unseen(q)'
      <3>1. \A u \in Tasks : u # "reconnect" => tpc'[u] = tpc[u] /\ want'[u] = want[u]
        BY <1>0, <2>1 DEF Goto
      <3> QED
        BY <1>2, <2>3, <3>1, NoFanState DEF OpeningInv
    <2> QED
      BY <2>1, <2>5, <2>6, <2>7 DEF OpeningInv
  <1> QED
    BY <1>5, <1>6, <1>7, <1>8, <1>9 DEF OpeningStep

LEMMA ShutOpening ==
  ASSUME CastType, OpeningInv, CloseInv, ShutStep
  PROVE  OpeningInv'
  <1>0. ChannelType /\ FanType
    BY TypesOfFan DEF CastType
  <1>1. UNCHANGED <<closed, lock, tpc, want, queue, hold, got>>
    BY ShutFrame
  <1>2. \A s \in Subs : Have(s)' = Have(s)
    BY <1>1, HaveSame
  <1>3. ASSUME NEW s \in Subs, Leave(s) PROVE OpeningInv'
    <2>1. UNCHANGED <<mmsubs, fan>>
      BY <1>3 DEF Leave, starting
    <2> QED
      BY <1>0, <1>1, <1>2, <2>1, OpeningKept
  <1>4. CASE CloseEnd
    <2>1. closed /\ (fan' = fan \/ fan' = Cut(Self))
      BY <1>4 DEF CloseEnd, CloseInv
    <2>2. \A q \in Peers, u \in Tasks : fan'[q][u].st = fan[q][u].st
      BY <1>0, <2>1, CutFacts, CastConstantsOK DEF SameFan
    <2>3. \A q : Unseen(q) => Unseen(q)'
      BY <1>2, UnseenKept
    <2>4. \A q \in Peers : Unopened(q) => Unopened(q)'
      BY <2>2 DEF Unopened
    <2>5. \A u \in Tasks : want[u] \subseteq Peers
      BY <1>0 DEF ChannelType
    <2> QED
      BY <1>1, <2>1, <2>2, <2>3, <2>4, <2>5 DEF OpeningInv
  <1> QED
    BY <1>3, <1>4 DEF ShutStep

\* A fan-out adds messages of its own shard only, and nobody is opening that one.
LEMMA FanOpening ==
  ASSUME CastType, OpeningInv, FanInv, NEW p \in Peers, NEW t \in Tasks, FanStep(p, t),
         \A s \in Subs : \A x \in Have(s)' : x \in Have(s) \/ x.peer = p
  PROVE  OpeningInv'
  <1>0. ChannelType /\ FanType
    BY TypesOfFan DEF CastType
  <1>1. UNCHANGED <<closed, lock, tpc, want, mmsubs>>
    BY FanFrames
  <1>2. /\ fan[p][t].st \in {"read", "await"} /\ fan'[p][t].st \in {"read", "await", "ended"}
        /\ \A q \in Peers, u \in Tasks : (q = p /\ u = t) \/ fan'[q][u] = fan[q][u]
    BY <1>0, FanReadFacts, FanTurnFacts DEF FanStep
  <1>3. \A q \in Peers : q # p /\ Unseen(q) => Unseen(q)'
    BY DEF Unseen
  <1>4. \A q \in Peers : q # p /\ Unopened(q) => Unopened(q)'
    BY <1>2 DEF Unopened
  <1>5. \A u \in Tasks : \A q \in want'[u] : tpc'[u] = "gather" => Unseen(q)' /\ Unopened(q)'
    <2>1. ASSUME NEW u \in Tasks, NEW q \in want[u], tpc[u] = "gather"
          PROVE  Unseen(q)' /\ Unopened(q)'
      <3>1. q \in Peers /\ Unseen(q) /\ Unopened(q)
        BY <1>0, <2>1 DEF OpeningInv, ChannelType
      <3>2. q # p
        BY <1>2, <3>1 DEF Unopened
      <3> QED
        BY <1>3, <1>4, <3>1, <3>2
    <2> QED
      BY <1>1, <2>1
  <1>6. \A q \in Peers, u \in Tasks :
          fan'[q][u].st = "opened" => tpc'[u] = "gather" /\ q \notin want'[u] /\ Unseen(q)'
    <2>1. ASSUME NEW q \in Peers, NEW u \in Tasks, fan'[q][u].st = "opened"
          PROVE  tpc[u] = "gather" /\ q \notin want[u] /\ Unseen(q)'
      <3>1. fan[q][u].st = "opened"
        BY <1>2, <2>1
      <3>2. q # p
        BY <1>2, <3>1 DEF FanInv, SoleFan
      <3> QED
        BY <1>3, <3>1, <3>2 DEF OpeningInv
    <2> QED
      BY <1>1, <2>1
  <1>7. \A q \in Peers \ mmsubs :
          ~closed => Unseen(q)' /\ \A u \in Tasks : fan'[q][u].st \in {"none", "opened"}
    BY <1>2, <1>3 DEF OpeningInv
  <1>8. \A u \in Tasks : tpc'[u] = "gather" => lock' = u
    BY <1>1 DEF OpeningInv
  <1> QED
    BY <1>1, <1>5, <1>6, <1>7, <1>8 DEF OpeningInv

-----------------------------------------------------------------------------
(* What a subscription has still to read is newer than what was had of it *)

KeptFan(q, u) ==
  /\ fan'[q][u].todo = fan[q][u].todo \/ fan'[q][u].todo = <<>>
  /\ fan'[q][u].st # "none" => fan[q][u].st # "none"
  /\ fan'[q][u].st = "none" => fan'[q][u].todo = <<>>

LEMMA FanKept ==
  ASSUME CastType, FanInv, sent' \in [Peers -> Nat], \A q \in Peers : sent[q] <= sent'[q],
         \A s \in Subs : Have(s)' \subseteq Have(s),
         \A q \in Peers, u \in Tasks : KeptFan(q, u)
  PROVE  FanInv'
  <1>0. ConsumerType /\ FanType /\ sent \in [Peers -> Nat]
    BY TypesOfFan DEF CastType, ChannelType
  <1>1. SoleFan'
    BY DEF FanInv, SoleFan, KeptFan
  <1>2. ASSUME NEW q \in Peers, NEW u \in Tasks PROVE FreshTodo(q, u)'
    <2>1. FreshTodo(q, u) /\ KeptFan(q, u)
      BY DEF FanInv
    <2>2. CASE fan'[q][u].todo = <<>>
      BY <2>2, EmptyFacts DEF FreshTodo
    <2>3. CASE fan'[q][u].todo = fan[q][u].todo
      <3>1. \A i \in DOMAIN fan[q][u].todo : fan[q][u].todo[i] \in Nat
        BY <1>0, FanFields, ElementOfSeq, LenProperties DEF FanType
      <3>2. \A i \in DOMAIN fan[q][u].todo : fan[q][u].todo[i] <= sent'[q]
        BY <1>0, <2>1, <3>1 DEF FreshTodo
      <3> QED
        BY <2>1, <2>3, <3>2 DEF FreshTodo, KeptFan
    <2> QED
      BY <2>1, <2>2, <2>3 DEF KeptFan
  <1>3. SeenSent'
    <2>1. ASSUME NEW s \in Subs, NEW x \in Have(s)' PROVE x.n <= sent'[x.peer]
      <3>1. x \in Have(s) /\ x \in Messages
        BY <1>0, HaveTyped
      <3>2. x.n <= sent[x.peer] /\ x.peer \in Peers /\ x.n \in Nat
        BY <3>1 DEF FanInv, SeenSent, Messages
      <3> QED
        BY <1>0, <3>2
    <2> QED
      BY <2>1 DEF SeenSent
  <1> QED
    BY <1>1, <1>2, <1>3 DEF FanInv

LEMMA FedFresh ==
  ASSUME CastType, FanInv, NEW p \in Peers, fan' = Fed(p, sent'[p]),
         sent' = [sent EXCEPT ![p] = @ + 1], UNCHANGED <<got, hold, queue>>
  PROVE  FanInv'
  <1>0. ConsumerType /\ FanType /\ sent \in [Peers -> Nat]
    BY TypesOfFan DEF CastType, ChannelType
  <1> DEFINE n == sent[p] + 1
  <1>1. sent'[p] = n /\ n \in Nat \ {0} /\ sent' \in [Peers -> Nat]
        /\ \A q \in Peers : sent[q] <= sent'[q]
    BY <1>0
  <1>2. \A q \in Peers, u \in Tasks :
          \/ SameFan(q, u)
          \/ /\ q = p /\ fan[q][u].st # "none" /\ fan'[q][u].st = fan[q][u].st
             /\ fan'[q][u].todo = Append(fan[q][u].todo, n)
    <2>1. fan' = Fed(p, n)
      BY <1>1
    <2> HIDE DEF n
    <2> QED
      BY <1>0, <1>1, <2>1, FedFacts
  <1>3. \A s \in Subs : Have(s)' = Have(s)
    BY HaveSame
  <1>4. SoleFan'
    BY <1>2 DEF FanInv, SoleFan, SameFan
  <1>5. SeenSent'
    <2>1. ASSUME NEW s \in Subs, NEW x \in Have(s) PROVE x.n <= sent'[x.peer]
      <3>1. x.n <= sent[x.peer] /\ x.peer \in Peers /\ x.n \in Nat
        BY <1>0, HaveTyped DEF FanInv, SeenSent, Messages
      <3> QED
        BY <1>0, <1>1, <3>1
    <2> QED
      BY <1>3, <2>1 DEF SeenSent
  <1>6. ASSUME NEW q \in Peers, NEW u \in Tasks PROVE FreshTodo(q, u)'
    <2> DEFINE d == fan[q][u].todo
    <2>1. FreshTodo(q, u) /\ d \in Seq(Nat \ {0})
      BY <1>0, FanFields DEF FanInv, FanType
    <2>2. DOMAIN d = 1..Len(d) /\ Len(d) \in Nat /\ \A i \in DOMAIN d : d[i] \in Nat
      BY <2>1, ElementOfSeq, LenProperties
    <2>3. \A i \in DOMAIN d : d[i] <= sent[q]
      BY <2>1 DEF FreshTodo
    <2>4. \A i \in DOMAIN d : d[i] <= sent'[q]
      BY <1>0, <1>1, <2>2, <2>3
    <2>5. CASE SameFan(q, u)
      BY <1>3, <2>1, <2>4, <2>5 DEF FreshTodo, SameFan
    <2>6. CASE /\ q = p /\ fan[q][u].st # "none" /\ fan'[q][u].st = fan[q][u].st
               /\ fan'[q][u].todo = Append(fan[q][u].todo, n)
      <3> DEFINE a == Append(d, n)
      <3>1. /\ DOMAIN a = 1..(Len(d) + 1) /\ a[Len(d) + 1] = n
            /\ \A i \in 1..Len(d) : a[i] = d[i]
        BY <1>1, <2>1, AppendFacts
      <3>2. fan'[q][u].todo = a /\ fan'[q][u].st # "none" /\ q = p
        BY <2>6
      <3> HIDE DEF a
      <3>3. \A i \in DOMAIN a : (i \in DOMAIN d /\ a[i] = d[i]) \/ (i = Len(d) + 1 /\ a[i] = n)
        BY <2>2, <3>1
      <3>4. \A i \in DOMAIN d : d[i] < n
        BY <1>0, <2>2, <2>3, <3>2
      <3>5. \A i \in DOMAIN a : a[i] <= sent'[q]
        BY <1>1, <2>4, <3>2, <3>3
      <3>6. ASSUME NEW i \in DOMAIN a, NEW j \in DOMAIN a, i < j PROVE a[i] < a[j]
        <4>1. i \in DOMAIN d /\ a[i] = d[i]
          BY <2>2, <3>1, <3>6
        <4>2. CASE j \in DOMAIN d /\ a[j] = d[j]
          BY <2>1, <3>6, <4>1, <4>2 DEF FreshTodo
        <4>3. CASE a[j] = n
          BY <3>4, <4>1, <4>3
        <4> QED
          BY <3>3, <4>2, <4>3
      <3>7. ASSUME NEW s \in Subs, NEW x \in Have(s), x.peer = q, NEW i \in DOMAIN a
            PROVE  x.n < a[i]
        <4>1. x.n <= sent[p] /\ x.n \in Nat
          BY <1>0, <3>2, <3>7, HaveTyped DEF FanInv, SeenSent, Messages
        <4>2. CASE i \in DOMAIN d /\ a[i] = d[i]
          BY <2>1, <3>7, <4>2 DEF FreshTodo
        <4>3. CASE a[i] = n
          BY <1>0, <4>1, <4>3
        <4> QED
          BY <3>3, <4>2, <4>3
      <3> HIDE DEF d, n
      <3> QED
        BY <1>3, <3>2, <3>5, <3>6, <3>7 DEF FreshTodo
    <2> QED
      BY <1>2, <2>5, <2>6
  <1> QED
    BY <1>4, <1>5, <1>6 DEF FanInv

LEMMA OpenedFresh ==
  ASSUME CastType, OpeningInv, FanInv, NEW t \in Tasks, NEW p \in Peers, OpenPeer(t, p)
  PROVE  FanInv'
  <1>0. sent[p] \in Nat /\ born[p] \in Nat \ {0} /\ born[p] <= sent[p] + 1
    BY DEF CastType, ChannelType
  <1>1. UNCHANGED <<sent, got, hold, queue>>
    BY DEF OpenPeer, shards, subState, consumer
  <1>2. \A s \in Subs : Have(s)' = Have(s)
    BY <1>1, HaveSame
  <1>3. /\ \A q \in Peers, u \in Tasks : (q = p /\ u = t) \/ fan'[q][u] = fan[q][u]
        /\ \/ fan'[p][t] = fan[p][t] /\ fan[p][t].st = "none"
           \/ fan'[p][t].st = "opened" /\ fan'[p][t].todo = History(p)
        /\ Unseen(p) /\ Unopened(p)
    BY OpenPeerFacts
  <1>4. SoleFan'
    BY <1>3 DEF FanInv, SoleFan, Unopened
  <1>5. ASSUME NEW q \in Peers, NEW u \in Tasks PROVE FreshTodo(q, u)'
    <2>1. CASE fan'[q][u] = fan[q][u]
      BY <1>1, <1>2, <2>1 DEF FanInv, FreshTodo
    <2>2. CASE q = p /\ u = t /\ fan'[p][t].st = "opened" /\ fan'[p][t].todo = History(p)
      <3> DEFINE h == History(p)
      <3>1. /\ \A i \in DOMAIN h : h[i] <= sent[p]
            /\ \A i, j \in DOMAIN h : i < j => h[i] < h[j]
        BY <1>0, HistoryFacts
      <3> HIDE DEF h
      <3>2. fan'[p][t].todo = h /\ fan'[p][t].st # "none"
        BY <2>2 DEF h
      <3>3. \A s \in Subs : \A x \in Have(s) : x.peer # p
        BY <1>3 DEF Unseen
      <3> QED
        BY <1>1, <1>2, <2>2, <3>1, <3>2, <3>3 DEF FreshTodo
    <2> QED
      BY <1>3, <2>1, <2>2
  <1>6. SeenSent'
    BY <1>1, <1>2 DEF FanInv, SeenSent
  <1> QED
    BY <1>4, <1>5, <1>6 DEF FanInv

LEMMA ReadFresh ==
  ASSUME CastType, ConsumerSorted, FanInv, NEW p \in Peers, NEW t \in Tasks, FanRead(p, t)
  PROVE  /\ ConsumerSorted' /\ FanInv'
         /\ \A s \in Subs : \A x \in Have(s)' : x \in Have(s) \/ x.peer = p
  <1>0. ConsumerType /\ FanType /\ sent \in [Peers -> Nat]
    BY TypesOfFan DEF CastType, ChannelType
  <1>1. UNCHANGED <<sent, got, hold>>
    BY DEF FanRead, FanFrame, shards, consumer
  <1> DEFINE d == fan[p][t].todo
             e == Tail(d)
             m == [peer |-> p, n |-> Head(d)]
  <1>2. /\ fan[p][t].st = "read" /\ d # <<>> /\ fan'[p][t].st = "read" /\ fan'[p][t].todo = e
        /\ \A q \in Peers, u \in Tasks : (q = p /\ u = t) \/ fan'[q][u] = fan[q][u]
    BY <1>0, FanReadFacts
  <1>3. m \in Messages /\ Enqueue(m)
    BY <1>0, FanMessage
  <1>4. m.peer = p /\ m.n = Head(d)
    OBVIOUS
  <1>5. d \in Seq(Nat \ {0}) /\ FreshTodo(p, t)
    BY <1>0, FanFields DEF FanInv, FanType
  <1>6. /\ Head(d) = d[1] /\ Head(d) \in Nat \ {0} /\ DOMAIN d = 1..Len(d)
        /\ Len(d) \in Nat \ {0} /\ DOMAIN e = 1..(Len(d) - 1)
        /\ \A i \in 1..(Len(d) - 1) : e[i] = d[i + 1]
    BY <1>2, <1>5, TailFacts
  <1> HIDE DEF m, e
  <1>7. /\ 1 \in DOMAIN d
        /\ \A i \in DOMAIN e : i \in Int /\ i + 1 \in DOMAIN d /\ 1 < i + 1 /\ e[i] = d[i + 1]
    BY <1>6
  <1>8. /\ \A i \in DOMAIN d : d[i] <= sent[p]
        /\ \A i, j \in DOMAIN d : i < j => d[i] < d[j]
        /\ \A s \in Subs : \A x \in Have(s) : \A i \in DOMAIN d : x.peer = p => x.n < d[i]
    BY <1>5 DEF FreshTodo
  <1> HIDE DEF d
  <1>9. \A s \in Subs : \A x \in Have(s) : Before(x, m)
    BY <1>4, <1>6, <1>7, <1>8 DEF Before
  <1>10. ConsumerSorted' /\ \A s \in Subs : Have(s)' \subseteq Have(s) \cup {m}
    BY <1>0, <1>1, <1>3, <1>9, EnqueueOrdered
  <1>11. SoleFan'
    BY <1>2 DEF FanInv, SoleFan
  <1>12. ASSUME NEW s \in Subs, NEW x \in Have(s)' PROVE x.n <= sent'[x.peer]
    <2>1. CASE x \in Have(s)
      BY <1>1, <2>1 DEF FanInv, SeenSent
    <2>2. CASE x = m
      BY <1>1, <1>4, <1>6, <1>7, <1>8, <2>2
    <2> QED
      BY <1>10, <2>1, <2>2
  <1>13. ASSUME NEW q \in Peers, NEW u \in Tasks, ~(q = p /\ u = t) PROVE FreshTodo(q, u)'
    <2>1. fan'[q][u] = fan[q][u] /\ FreshTodo(q, u)
      BY <1>2, <1>13 DEF FanInv
    <2>2. CASE q = p
      <3>1. fan[q][u].st = "none"
        BY <1>2, <1>13, <2>2 DEF FanInv, SoleFan
      <3>2. fan'[q][u].todo = <<>>
        BY <2>1, <3>1 DEF FreshTodo
      <3> QED
        BY <3>2, EmptyFacts DEF FreshTodo
    <2>3. CASE q # p
      <3>1. \A s \in Subs : \A x \in Have(s)' : x.peer = q => x \in Have(s)
        BY <1>4, <1>10, <2>3
      <3> QED
        BY <1>1, <2>1, <3>1 DEF FreshTodo
    <2> QED
      BY <2>2, <2>3
  <1>14. FreshTodo(p, t)'
    <2>1. \A i \in DOMAIN e : e[i] <= sent'[p]
      BY <1>1, <1>7, <1>8
    <2>2. \A i, j \in DOMAIN e : i < j => i + 1 < j + 1
      BY <1>7
    <2>3. \A i, j \in DOMAIN e : i < j => e[i] < e[j]
      BY <1>7, <1>8, <2>2
    <2>4. ASSUME NEW s \in Subs, NEW x \in Have(s)', NEW i \in DOMAIN e, x.peer = p
          PROVE  x.n < e[i]
      <3>1. CASE x \in Have(s)
        BY <1>7, <1>8, <2>4, <3>1
      <3>2. CASE x = m
        BY <1>4, <1>6, <1>7, <1>8, <3>2
      <3> QED
        BY <1>10, <3>1, <3>2
    <2> QED
      BY <1>2, <2>1, <2>3, <2>4 DEF FreshTodo
  <1> QED
    BY <1>4, <1>10, <1>11, <1>12, <1>13, <1>14 DEF FanInv, SeenSent

-----------------------------------------------------------------------------
(* The order a consumer sees: every step *)

OrderInv == ConsumerSorted /\ OpeningInv /\ CloseInv /\ FanInv

LEMMA InitOrder == Init => OrderInv
  <1> SUFFICES ASSUME Init PROVE OrderInv
    OBVIOUS
  <1>1. \A p \in Peers, t \in Tasks : fan[p][t] = NoFan
    BY DEF Init
  <1>2. /\ \A s \in Subs : got[s] = <<>> /\ hold[s] = NoItem /\ queue[s] = <<>>
        /\ \A t \in Tasks : tpc[t] = "none"
        /\ cpc = "open"
    BY DEF Init
  <1>3. \A s \in Subs : Have(s) = {}
    BY <1>2, EmptyFacts, HeldNothing DEF Have, Together
  <1>4. ConsumerSorted
    <2>1. Sorted(<<>>)
      BY EmptyFacts DEF Sorted
    <2> QED
      BY <1>2, <2>1, EmptyFacts, HeldNothing DEF ConsumerSorted, Ordered, AllBefore
  <1>5. OpeningInv
    BY <1>1, <1>2, <1>3, NoFanState DEF OpeningInv, Unseen
  <1>6. \A p \in Peers, t \in Tasks : FreshTodo(p, t)
    BY <1>1, NoFanState, EmptyFacts DEF FreshTodo
  <1>7. SoleFan /\ SeenSent
    BY <1>1, <1>3, NoFanState DEF SoleFan, SeenSent
  <1> QED
    BY <1>2, <1>4, <1>5, <1>6, <1>7 DEF OrderInv, FanInv, CloseInv

LEMMA OrderSame ==
  ASSUME OrderInv, UNCHANGED <<closed, cpc, lock, tpc, want, mmsubs, fan, sent, got, hold, queue>>
  PROVE  OrderInv'
  <1>1. \A s \in Subs : Have(s)' = Have(s)
    BY HaveSame
  <1>2. \A p : /\ Unseen(p) <=> Unseen(p)'
               /\ Unopened(p) <=> Unopened(p)'
    BY <1>1 DEF Unseen, Unopened
  <1>3. ConsumerSorted'
    BY DEF OrderInv, ConsumerSorted
  <1>4. OpeningInv' /\ CloseInv'
    BY <1>2 DEF OrderInv, OpeningInv, CloseInv
  <1>5. FanInv'
    BY <1>1 DEF OrderInv, FanInv, SoleFan, FreshTodo, SeenSent
  <1> QED
    BY <1>3, <1>4, <1>5 DEF OrderInv

\* The fan-outs of a step of the channel that reads nothing.
LEMMA OpeningFresh ==
  ASSUME CastType, OpeningInv, FanInv, OpeningStep
  PROVE  FanInv'
  <1>0. FanType /\ sent \in [Peers -> Nat]
    BY TypesOfFan DEF CastType, ChannelType
  <1>1. UNCHANGED <<sent, got, hold, queue>>
    BY OpeningFrame
  <1>2. \A s \in Subs : Have(s)' \subseteq Have(s)
    BY <1>1, HaveSame
  <1>3. \A q \in Peers : sent[q] <= sent'[q]
    BY <1>0, <1>1
  <1>4. ASSUME \A q \in Peers, u \in Tasks : fan'[q][u] = fan[q][u] \/ fan'[q][u] = NoFan
        PROVE  FanInv'
    <2>1. ASSUME NEW q \in Peers, NEW u \in Tasks PROVE KeptFan(q, u)
      BY <1>4, NoFanState DEF FanInv, FreshTodo, KeptFan
    <2> QED
      BY <1>0, <1>1, <1>2, <1>3, <2>1, FanKept
  <1>5. ASSUME NEW t \in Tasks, NEW p \in Peers, OpenPeer(t, p) PROVE FanInv'
    BY <1>5, OpenedFresh
  <1>6. ASSUME NEW t \in Tasks, GatherRaises(t) PROVE FanInv'
    <2>1. fan' = Dropped(t)
      BY <1>6 DEF GatherRaises
    <2> QED
      BY <1>0, <1>4, <2>1, DroppedFacts
  <1>7. CASE Close
    BY <1>0, <1>4, <1>7, CloseFacts
  <1>8. CASE fan' = fan
    BY <1>4, <1>8
  <1> QED
    BY <1>5, <1>6, <1>7, <1>8 DEF OpeningStep, Subscribe, Retry

LEMMA StartFresh ==
  ASSUME CastType, FanInv, NEW t \in Tasks, StartStep(t)
  PROVE  FanInv'
  <1>0. FanType /\ sent \in [Peers -> Nat]
    BY TypesOfFan DEF CastType, ChannelType
  <1>1. UNCHANGED <<sent, got, hold, queue>>
    BY StartFrame
  <1>2. \A s \in Subs : Have(s)' \subseteq Have(s)
    BY <1>1, HaveSame
  <1>3. \A q \in Peers : sent[q] <= sent'[q]
    BY <1>0, <1>1
  <1>4. ASSUME NEW q \in Peers, NEW u \in Tasks PROVE KeptFan(q, u)
    <2>1. FreshTodo(q, u)
      BY DEF FanInv
    <2>2. CASE fan'[q][u] = fan[q][u]
      BY <2>1, <2>2 DEF FreshTodo, KeptFan
    <2>3. CASE Register(t)
      BY <1>0, <2>2, <2>3, RegisterFacts DEF KeptFan
    <2>4. CASE Acquire(t)
      BY <2>2, <2>4 DEF Acquire
    <2> QED
      BY <2>3, <2>4 DEF StartStep
  <1> QED
    BY <1>0, <1>1, <1>2, <1>3, <1>4, FanKept

LEMMA ShutFresh ==
  ASSUME CastType, FanInv, ShutStep
  PROVE  FanInv'
  <1>0. FanType /\ sent \in [Peers -> Nat]
    BY TypesOfFan DEF CastType, ChannelType
  <1>1. UNCHANGED <<sent, got, hold, queue>>
    BY ShutFrame
  <1>2. \A s \in Subs : Have(s)' \subseteq Have(s)
    BY <1>1, HaveSame
  <1>3. \A q \in Peers : sent[q] <= sent'[q]
    BY <1>0, <1>1
  <1>4. fan' = fan \/ fan' = Cut(Self)
    BY DEF ShutStep, Leave, CloseEnd
  <1>5. \A q \in Peers, u \in Tasks : SameFan(q, u)
    BY <1>0, <1>4, CutFacts, CastConstantsOK DEF SameFan
  <1>6. \A q \in Peers, u \in Tasks : KeptFan(q, u)
    BY <1>5 DEF SameFan, KeptFan, FanInv, FreshTodo
  <1> QED
    BY <1>0, <1>1, <1>2, <1>3, <1>6, FanKept

LEMMA ShardOrder ==
  ASSUME CastType, OpeningInv, FanInv, ShardStep
  PROVE  OpeningInv' /\ FanInv'
  <1>0. ChannelType /\ FanType /\ sent \in [Peers -> Nat]
    BY TypesOfFan DEF CastType, ChannelType
  <1>1. UNCHANGED <<closed, lock, tpc, want, mmsubs, got, hold, queue>>
    BY ShardFrame
  <1>2. \A s \in Subs : Have(s)' \subseteq Have(s)
    BY <1>1, HaveSame
  <1>3. ASSUME UNCHANGED sent, \A q \in Peers, u \in Tasks : SameFan(q, u)
        PROVE  OpeningInv' /\ FanInv'
    <2>1. \A q \in Peers, u \in Tasks : KeptFan(q, u)
      BY <1>3 DEF SameFan, KeptFan, FanInv, FreshTodo
    <2>2. \A q \in Peers : sent[q] <= sent'[q]
      BY <1>0, <1>3
    <2>3. FanInv'
      BY <1>0, <1>2, <1>3, <2>1, <2>2, FanKept
    <2> QED
      BY <1>0, <1>1, <1>2, <1>3, <2>3, OpeningKept DEF SameFan
  <1>4. ASSUME NEW p \in Peers, fan' = Fed(p, sent'[p]), sent' = [sent EXCEPT ![p] = @ + 1]
        PROVE  OpeningInv' /\ FanInv'
    <2>1. FanInv'
      BY <1>1, <1>4, FedFresh
    <2>2. sent'[p] \in Nat \ {0}
      BY <1>0, <1>4
    <2>3. \A q \in Peers, u \in Tasks : fan'[q][u].st = fan[q][u].st
      BY <1>0, <1>4, <2>2, FedFacts DEF SameFan
    <2> QED
      BY <1>0, <1>1, <1>2, <2>1, <2>3, OpeningKept
  <1>5. ASSUME NEW p \in Peers, PeerStarts(p) PROVE OpeningInv' /\ FanInv'
    BY <1>3, <1>5 DEF PeerStarts, SameFan
  <1>6. ASSUME NEW p \in Peers, PeerExits(p) PROVE OpeningInv' /\ FanInv'
    <2>1. fan' = Cut(p) /\ UNCHANGED sent
      BY <1>6 DEF PeerExits
    <2> QED
      BY <1>0, <1>3, <2>1, CutFacts
  <1>7. ASSUME NEW p \in Peers, PeerPublishes(p) PROVE OpeningInv' /\ FanInv'
    BY <1>4, <1>7 DEF PeerPublishes
  <1>8. CASE Publish
    BY <1>4, <1>8, CastConstantsOK DEF Publish
  <1> QED
    BY <1>5, <1>6, <1>7, <1>8 DEF ShardStep

LEMMA FanOrder ==
  ASSUME CastType, ConsumerSorted, OpeningInv, FanInv, NEW p \in Peers, NEW t \in Tasks,
         FanStep(p, t)
  PROVE  ConsumerSorted' /\ OpeningInv' /\ FanInv'
  <1>1. CASE FanRead(p, t)
    BY <1>1, ReadFresh, FanOpening
  <1>2. CASE FanAwait(p, t) \/ FanWakes(p, t)
    <2>0. FanType /\ sent \in [Peers -> Nat]
      BY TypesOfFan DEF CastType, ChannelType
    <2>1. UNCHANGED <<sent, got, hold, queue>>
      BY <1>2, FanFrames DEF FanAwait, FanWakes
    <2>2. /\ \A s \in Subs : Have(s)' = Have(s)
          /\ ConsumerSorted'
      BY <2>1, HaveSame DEF ConsumerSorted
    <2>3. \A q \in Peers : sent[q] <= sent'[q]
      BY <2>0, <2>1
    <2>4. ASSUME NEW q \in Peers, NEW u \in Tasks PROVE KeptFan(q, u)
      <3>1. FreshTodo(q, u)
        BY DEF FanInv
      <3>2. CASE fan'[q][u] = fan[q][u]
        BY <3>1, <3>2 DEF FreshTodo, KeptFan
      <3>3. CASE q = p /\ u = t
        BY <1>2, <2>0, <3>3, FanTurnFacts DEF KeptFan
      <3> QED
        BY <1>2, <2>0, <3>2, <3>3, FanTurnFacts
    <2>5. FanInv'
      BY <2>0, <2>1, <2>2, <2>3, <2>4, FanKept
    <2>6. OpeningInv'
      BY <2>2, FanOpening
    <2> QED
      BY <2>2, <2>5, <2>6
  <1> QED
    BY <1>1, <1>2 DEF FanStep

LEMMA ConsOrder ==
  ASSUME CastType, IterationInv, ConsumerSorted, OpeningInv, FanInv, NEW s \in Subs,
         ConsStep(s)
  PROVE  ConsumerSorted' /\ OpeningInv' /\ FanInv'
  <1>0. ConsumerType /\ ChannelType /\ sent \in [Peers -> Nat]
    BY DEF CastType, ChannelType
  <1>1. ConsumerSorted' /\ \A u \in Subs : Have(u)' \subseteq Have(u)
    BY <1>0, ConsOrdered
  <1>2. UNCHANGED <<closed, lock, tpc, want, mmsubs, fan, sent>>
    BY ConsFrames
  <1>3. OpeningInv'
    BY <1>0, <1>1, <1>2, OpeningKept
  <1>4. \A q \in Peers, u \in Tasks : KeptFan(q, u)
    BY <1>2 DEF KeptFan, FanInv, FreshTodo
  <1>5. \A q \in Peers : sent[q] <= sent'[q]
    BY <1>0, <1>2
  <1> QED
    BY <1>0, <1>1, <1>2, <1>3, <1>4, <1>5, FanKept

LEMMA NextOrder ==
  ASSUME CastType, IterationInv, OrderInv, [Next]_vars
  PROVE  OrderInv'
  <1>0. ConsumerSorted /\ OpeningInv /\ CloseInv /\ FanInv
    BY DEF OrderInv
  <1>1. ASSUME UNCHANGED <<got, hold, queue>> PROVE ConsumerSorted'
    BY <1>0, <1>1 DEF ConsumerSorted
  <1>2. CASE Next
    <2>1. CloseInv'
      BY <1>0, <1>2, CloseInvNext
    <2>2. CASE ShardStep
      BY <1>0, <1>1, <2>1, <2>2, ShardFrame, ShardOrder DEF OrderInv
    <2>3. CASE OpeningStep
      BY <1>0, <1>1, <2>1, <2>3, OpeningFrame, OpeningOpening, OpeningFresh DEF OrderInv
    <2>4. CASE ShutStep
      BY <1>0, <1>1, <2>1, <2>4, ShutFrame, ShutOpening, ShutFresh DEF OrderInv
    <2>5. ASSUME NEW t \in Tasks, StartStep(t) PROVE OrderInv'
      BY <1>0, <1>1, <2>1, <2>5, StartFrame, StartOpening, StartFresh DEF OrderInv
    <2>6. ASSUME NEW p \in Peers, NEW t \in Tasks, FanStep(p, t) PROVE OrderInv'
      BY <1>0, <2>1, <2>6, FanOrder DEF OrderInv
    <2>7. ASSUME NEW s \in Subs, ConsStep(s) PROVE OrderInv'
      BY <1>0, <2>1, <2>7, ConsOrder DEF OrderInv
    <2> QED
      BY <1>2, <2>2, <2>3, <2>4, <2>5, <2>6, <2>7, StepCases
  <1>3. CASE UNCHANGED vars
    <2>1. UNCHANGED <<closed, cpc, lock, tpc, want, mmsubs, fan, sent, got, hold, queue>>
      BY <1>3 DEF vars, shards, starting, subState, consumer
    <2> QED
      BY <2>1, OrderSame
  <1> QED
    BY <1>2, <1>3

\* From the three parts of what a consumer has to their concatenation.
LEMMA OrderGives == CastType /\ ConsumerSorted => InOrderOnce
  <1> SUFFICES ASSUME CastType, ConsumerSorted, NEW s \in Subs,
                      NEW i \in DOMAIN Taken(s), NEW j \in DOMAIN Taken(s), i < j
               PROVE  Before(Taken(s)[i], Taken(s)[j])
    BY DEF InOrderOnce, Before
  <1> DEFINE g == got[s]
             h == IF hold[s] = NoItem THEN <<>> ELSE <<hold[s]>>
             q == queue[s]
             a == g \o h
  <1>1. g \in Seq(Messages) /\ q \in Seq(Messages) /\ hold[s] \in Messages \cup {NoItem}
    BY DEF CastType, ConsumerType
  <1>2. h \in Seq(Messages) /\ Len(h) \in {0, 1} /\ Elems(h) \subseteq HeldSet(hold[s])
    <2>1. CASE hold[s] = NoItem
      BY <2>1, EmptyFacts
    <2>2. CASE hold[s] # NoItem
      BY <1>1, <2>2 DEF Elems, HeldSet
    <2> QED
      BY <2>1, <2>2
  <1>3. /\ Sorted(g) /\ Sorted(q) /\ AllBefore(Elems(g), HeldSet(hold[s]))
        /\ AllBefore(Elems(g), Elems(q)) /\ AllBefore(HeldSet(hold[s]), Elems(q))
    BY DEF ConsumerSorted, Ordered
  <1>4. Taken(s) = a \o q
    BY DEF Taken
  <1> HIDE DEF g, h, q
  <1>5. /\ a \in Seq(Messages) /\ Len(a) = Len(g) + Len(h)
        /\ \A k \in 1..Len(a) : a[k] = IF k <= Len(g) THEN g[k] ELSE h[k - Len(g)]
    BY <1>1, <1>2, ConcatProperties
  <1> HIDE DEF a
  <1>6. /\ a \o q \in Seq(Messages) /\ Len(a \o q) = Len(a) + Len(q)
        /\ \A k \in 1..(Len(a) + Len(q)) :
             (a \o q)[k] = IF k <= Len(a) THEN a[k] ELSE q[k - Len(a)]
    <2>1. a \in Seq(Messages) /\ q \in Seq(Messages)
      BY <1>1, <1>5
    <2> QED
      BY <2>1, ConcatProperties
  <1>7. /\ DOMAIN g = 1..Len(g) /\ Len(g) \in Nat /\ DOMAIN h = 1..Len(h)
        /\ DOMAIN q = 1..Len(q) /\ Len(q) \in Nat
        /\ DOMAIN (a \o q) = 1..(Len(a) + Len(q))
    BY <1>1, <1>2, <1>6, LenProperties
  <1> DEFINE z == a \o q
             InGot(k) == k \in DOMAIN g /\ z[k] = g[k]
             InHeld(k) == k = Len(g) + 1 /\ z[k] \in Elems(h)
             InQueue(k) == /\ k > Len(g) + Len(h) /\ k - Len(a) \in DOMAIN q
                           /\ z[k] = q[k - Len(a)]
  <1>8. ASSUME NEW k \in DOMAIN z
        PROVE  InGot(k) \/ InHeld(k) \/ InQueue(k)
    <2>1. CASE k <= Len(g)
      BY <1>2, <1>5, <1>6, <1>7, <1>8, <2>1
    <2>2. CASE k > Len(g) /\ k <= Len(a)
      <3>1. k = Len(g) + 1 /\ k - Len(g) = 1 /\ 1 \in DOMAIN h
        <4>1. k \in Int /\ Len(g) \in Int /\ Len(a) = Len(g) + Len(h)
          BY <1>2, <1>5, <1>7, <1>8
        <4>2. Len(h) = 1
          BY <1>2, <2>2, <4>1
        <4> QED
          BY <1>7, <2>2, <4>1, <4>2
      <3>2. z[k] = h[1]
        BY <1>2, <1>5, <1>6, <1>7, <1>8, <2>2, <3>1
      <3> QED
        BY <3>1, <3>2 DEF Elems
    <2>3. CASE k > Len(a)
      BY <1>2, <1>5, <1>6, <1>7, <1>8, <2>3
    <2> QED
      BY <1>2, <1>5, <1>7, <1>8, <2>1, <2>2, <2>3
  <1>9. i \in DOMAIN z /\ j \in DOMAIN z /\ Taken(s) = z
    BY <1>4
  <1>10. i \in Nat /\ j \in Nat /\ Len(a) \in Nat
    BY <1>2, <1>5, <1>7, <1>9
  <1>11. \A k : InGot(k) => z[k] \in Elems(g)
    BY DEF Elems
  <1>12. \A k : InQueue(k) => z[k] \in Elems(q)
    BY DEF Elems
  <1>13. Before(z[i], z[j])
    <2>1. CASE InGot(i) /\ InGot(j)
      BY <1>3, <2>1 DEF Sorted
    <2>2. CASE InGot(i) /\ InHeld(j)
      BY <1>2, <1>3, <1>11, <2>2 DEF AllBefore
    <2>3. CASE InGot(i) /\ InQueue(j)
      BY <1>3, <1>11, <1>12, <2>3 DEF AllBefore
    <2>4. CASE InHeld(i) /\ InQueue(j)
      BY <1>2, <1>3, <1>12, <2>4 DEF AllBefore
    <2>5. CASE InQueue(i) /\ InQueue(j)
      <3>1. i - Len(a) < j - Len(a)
        BY <1>10
      <3> QED
        BY <1>3, <2>5, <3>1 DEF Sorted
    <2>6. CASE InHeld(i) /\ (InGot(j) \/ InHeld(j))
      BY <1>7, <1>10, <2>6
    <2>7. CASE InQueue(i) /\ (InGot(j) \/ InHeld(j))
      BY <1>2, <1>7, <1>10, <2>7
    <2> QED
      BY <1>8, <1>9, <2>1, <2>2, <2>3, <2>4, <2>5, <2>6, <2>7
  <1> QED
    BY <1>9, <1>13

(***************************************************************************)
(* A consumer sees every shard in the order it was published and nothing   *)
(* twice, however openers, the reconnect loop, closes, drops and           *)
(* cancellations interleave.  It rests on _start_lock: one task opens      *)
(* shards, and only those nobody is subscribed to and nobody has heard of, *)
(* so that a shard has one fan-out, whose unread messages are newer than   *)
(* all that its consumers have had.                                        *)
(***************************************************************************)
THEOREM ConsumersSeeOrder == Spec => []InOrderOnce
  <1> DEFINE I == CastType /\ IterationInv /\ CountInv
  <1>1. I /\ OrderInv /\ [Next]_vars => OrderInv'
    BY NextOrder
  <1>2. I /\ OrderInv => InOrderOnce
    BY OrderGives DEF OrderInv
  <1> QED
    BY <1>1, <1>2, InitOrder, CastInvHolds, PTL DEF Spec

=============================================================================
