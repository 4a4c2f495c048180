---------------------------- MODULE WakeupProofs ----------------------------
(***************************************************************************)
(* Proofs about Wakeup, for every number of connections and of slots in    *)
(* the tables: the client list, the wakeup flags and the eventcount.       *)
(***************************************************************************)
EXTENDS Wakeup, SequenceTheorems, TLAPS

SubscriberStep(r) ==
  \/ ConnectStep(r) \/ ReceiveStep(r)
  \/ Timeout(r) \/ DrainWakeup(r) \/ Drop(r) \/ CloseSocket(r) \/ Killed(r)

PublisherStep ==
  \/ \E n \in 1..MaxBatch : Publish(n)
  \/ WaitForSubscribers \/ CallStep \/ PublisherExits

LEMMA StepCases == Next => PublisherStep \/ \E r \in Subs : SubscriberStep(r)
  BY Zenon DEF Next, PublisherStep, SubscriberStep

-----------------------------------------------------------------------------
(* The lists of the publisher *)

LEMMA ElemsOf ==
  ASSUME NEW S, NEW s \in Seq(S)
  PROVE  /\ \A x : x \in Elems(s) <=> \E i \in 1..Len(s) : s[i] = x
         /\ Elems(s) \subseteq S
  <1>1. DOMAIN s = 1..Len(s)
    OBVIOUS
  <1>2. \A i \in 1..Len(s) : s[i] \in S
    OBVIOUS
  <1> QED
    BY <1>1, <1>2 DEF Elems

LEMMA ElemsEmpty == Elems(<<>>) = {}
  BY DEF Elems

LEMMA ElemsAppend ==
  ASSUME NEW S, NEW s \in Seq(S), NEW x \in S
  PROVE  Append(s, x) \in Seq(S) /\ Elems(Append(s, x)) = Elems(s) \cup {x}
  <1> DEFINE t == Append(s, x)
  <1>1. /\ t \in Seq(S) /\ Len(t) = Len(s) + 1 /\ Len(s) \in Nat
        /\ \A i \in 1..Len(s) : t[i] = s[i]
        /\ t[Len(s) + 1] = x
    BY AppendProperties, LenProperties
  <1> HIDE DEF t
  <1>2. \A y : y \in Elems(t) <=> \E i \in 1..Len(t) : t[i] = y
    BY <1>1, ElemsOf
  <1>3. \A y : y \in Elems(s) <=> \E i \in 1..Len(s) : s[i] = y
    BY ElemsOf
  <1>4. \A y : y \in Elems(t) => y \in Elems(s) \cup {x}
    <2> SUFFICES ASSUME NEW i \in 1..Len(t) PROVE t[i] \in Elems(s) \cup {x}
      BY <1>2
    <2>1. i \in 1..Len(s) \/ i = Len(s) + 1
      BY <1>1
    <2> QED
      BY <1>1, <1>3, <2>1
  <1>5. \A i \in 1..Len(s) : i \in 1..Len(t)
    BY <1>1
  <1>6. Len(s) + 1 \in 1..Len(t)
    BY <1>1
  <1>7. \A y \in Elems(s) \cup {x} : y \in Elems(t)
    BY <1>1, <1>2, <1>3, <1>5, <1>6
  <1> QED
    BY <1>1, <1>4, <1>7 DEF t

LEMMA ElemsTail ==
  ASSUME NEW S, NEW s \in Seq(S), s # <<>>
  PROVE  /\ Head(s) \in S /\ Tail(s) \in Seq(S)
         /\ Elems(s) = Elems(Tail(s)) \cup {Head(s)}
  <1> DEFINE t == Tail(s)
  <1>1. /\ t \in Seq(S) /\ Len(t) = Len(s) - 1 /\ Len(s) \in Nat \ {0}
        /\ \A i \in 1..Len(t) : t[i] = s[i + 1]
        /\ Head(s) = s[1] /\ Head(s) \in S
    BY HeadTailProperties, LenProperties, EmptySeq
  <1> HIDE DEF t
  <1>2. \A y : y \in Elems(t) <=> \E i \in 1..Len(t) : t[i] = y
    BY <1>1, ElemsOf
  <1>3. \A y : y \in Elems(s) <=> \E i \in 1..Len(s) : s[i] = y
    BY ElemsOf
  <1>4. \A i \in 1..Len(s) : i = 1 \/ (i - 1 \in 1..Len(t) /\ t[i - 1] = s[i])
    BY <1>1
  <1>5. \A i \in 1..Len(t) : i + 1 \in 1..Len(s)
    BY <1>1
  <1>6. 1 \in 1..Len(s)
    BY <1>1
  <1>7. \A y \in Elems(s) : y \in Elems(t) \cup {Head(s)}
    BY <1>1, <1>2, <1>3, <1>4
  <1>8. \A y \in Elems(t) \cup {Head(s)} : y \in Elems(s)
    BY <1>1, <1>2, <1>3, <1>5, <1>6
  <1> QED
    BY <1>1, <1>7, <1>8 DEF t

\* Vec::swap_remove: the last entry takes the place of the one removed.
LEMMA SwapRemoveFacts ==
  ASSUME NEW S, NEW s \in Seq(S), NEW i \in 1..Len(s)
  PROVE  /\ SwapRemove(s, i) \in Seq(S)
         /\ Len(SwapRemove(s, i)) = Len(s) - 1
         /\ \A j \in 1..(Len(s) - 1) :
              SwapRemove(s, i)[j] = IF j = i THEN s[Len(s)] ELSE s[j]
  <1> DEFINE t == [s EXCEPT ![i] = s[Len(s)]]
  <1>1. Len(s) \in Nat \ {0} /\ Len(s) \in 1..Len(s)
    BY LenProperties
  <1>2. s[Len(s)] \in S
    BY <1>1, ElementOfSeq
  <1>3. /\ t \in Seq(S) /\ Len(t) = Len(s)
        /\ \A j \in 1..Len(s) : t[j] = IF j = i THEN s[Len(s)] ELSE s[j]
    BY <1>2, ExceptSeq
  <1> HIDE DEF t
  <1> DEFINE n == Len(s) - 1
  <1>4. n \in Nat /\ \A j \in 1..n : j \in 1..Len(t)
    BY <1>1, <1>3
  <1>5. \A j \in 1..n : t[j] \in S
    BY <1>3, <1>4, ElementOfSeq
  <1>6. SwapRemove(s, i) = SubSeq(t, 1, n)
    BY DEF SwapRemove, t
  <1> HIDE DEF n
  <1>7. /\ SubSeq(t, 1, n) \in Seq(S)
        /\ Len(SubSeq(t, 1, n)) = IF 1 <= n THEN n - 1 + 1 ELSE 0
        /\ \A j \in 1..(n - 1 + 1) : SubSeq(t, 1, n)[j] = t[1 + j - 1]
    <2>1. 1 \in Int /\ n \in Int
      BY <1>4
    <2> QED
      BY <1>5, <2>1, SubSeqProperties
  <1>8. /\ SubSeq(t, 1, n) \in Seq(S) /\ Len(SubSeq(t, 1, n)) = n
        /\ \A j \in 1..n : SubSeq(t, 1, n)[j] = t[j]
    BY <1>4, <1>7
  <1>9. \A j \in 1..n : j \in 1..Len(s)
    BY <1>1 DEF n
  <1> QED
    BY <1>3, <1>6, <1>8, <1>9 DEF n

\* It keeps every other entry, at its place or at an earlier one.
LEMMA SwapRemoveKeeps ==
  ASSUME NEW S, NEW s \in Seq(S), NEW i \in 1..Len(s), NEW j \in i..Len(s),
         s[j] # s[i]
  PROVE  \E k \in i..Len(SwapRemove(s, i)) : SwapRemove(s, i)[k] = s[j]
  <1>1. Len(s) \in Nat /\ i \in Nat /\ j \in Nat /\ i < j /\ j <= Len(s)
    BY LenProperties
  <1>2. CASE j = Len(s)
    <2>1. i \in i..(Len(s) - 1) /\ i \in 1..(Len(s) - 1)
      BY <1>1, <1>2
    <2> QED
      BY <1>2, <2>1, SwapRemoveFacts
  <1>3. CASE j # Len(s)
    <2>1. j \in i..(Len(s) - 1) /\ j \in 1..(Len(s) - 1) /\ j # i
      BY <1>1, <1>3
    <2> QED
      BY <2>1, SwapRemoveFacts
  <1> QED
    BY <1>2, <1>3

LEMMA ElemsSwapRemove ==
  ASSUME NEW S, NEW s \in Seq(S), NEW i \in 1..Len(s)
  PROVE  /\ Elems(SwapRemove(s, i)) \subseteq Elems(s)
         /\ \A x \in Elems(s) : x # s[i] => x \in Elems(SwapRemove(s, i))
  <1> DEFINE t == SwapRemove(s, i)
  <1>1. /\ t \in Seq(S) /\ Len(t) = Len(s) - 1 /\ Len(s) \in Nat \ {0}
        /\ \A j \in 1..(Len(s) - 1) : t[j] = IF j = i THEN s[Len(s)] ELSE s[j]
    BY SwapRemoveFacts, LenProperties
  <1> HIDE DEF t
  <1>2. \A y : y \in Elems(t) <=> \E j \in 1..Len(t) : t[j] = y
    BY <1>1, ElemsOf
  <1>3. \A y : y \in Elems(s) <=> \E j \in 1..Len(s) : s[j] = y
    BY ElemsOf
  <1>4. Elems(t) \subseteq Elems(s)
    <2> SUFFICES ASSUME NEW j \in 1..Len(t) PROVE t[j] \in Elems(s)
      BY <1>2
    <2>1. j \in 1..(Len(s) - 1) /\ j \in 1..Len(s) /\ Len(s) \in 1..Len(s)
      BY <1>1
    <2>2. t[j] = s[Len(s)] \/ t[j] = s[j]
      BY <1>1, <2>1
    <2> QED
      BY <1>3, <2>1, <2>2
  <1>5. ASSUME NEW j \in 1..Len(s), s[j] # s[i] PROVE s[j] \in Elems(t)
    <2>1. CASE j = Len(s)
      <3>1. i \in 1..(Len(s) - 1) /\ i \in 1..Len(t)
        BY <1>1, <1>5, <2>1
      <3> QED
        BY <1>1, <1>2, <2>1, <3>1
    <2>2. CASE j # Len(s)
      <3>1. j \in 1..(Len(s) - 1) /\ j \in 1..Len(t) /\ j # i
        BY <1>1, <1>5, <2>2
      <3> QED
        BY <1>1, <1>2, <3>1
    <2> QED
      BY <2>1, <2>2
  <1> QED
    BY <1>3, <1>4, <1>5 DEF t

-----------------------------------------------------------------------------
(* Types *)

LEMMA InitType == Init => TypeOK
  <1> SUFFICES ASSUME Init PROVE TypeOK
    OBVIOUS
  <1>1. 0 \in SubIdx
    BY WakeupConstantsOK DEF SubIdx
  <1> QED
    BY <1>1, EmptySeq DEF Init, TypeOK, SubPC, PubPC

\* A call is in a client's entry only while there is one.
CallInv ==
  /\ ppc \in {"take", "wake"} => pi <= Len(clients)
  /\ ppc = "accept" => count = 0

\* What the publisher does to its lists: it accepts the first connection of
\* the backlog, drops it, removes the client it visits, or closes everything.
LEMMA PublisherLists ==
  ASSUME TypeOK, CallInv, PublisherStep
  PROVE  \/ UNCHANGED <<backlog, clients>>
         \/ AcceptClient \/ AcceptFails \/ PublisherExits
         \/ /\ ppc \in {"visit", "wake"} /\ pi \in 1..Len(clients)
            /\ backlog' = backlog /\ clients' = SwapRemove(clients, pi)
            /\ pi' = pi /\ ppc' = "visit"
            /\ \/ ~claimed[idx[clients[pi]]]
               \/ waker # "eventfd" /\ Gone(clients[pi])
  <1>1. Len(clients) \in Nat /\ pi \in Nat \ {0}
    BY LenProperties DEF TypeOK
  <1>2. pi <= Len(clients) => pi \in 1..Len(clients)
    BY <1>1
  <1>3. CASE VisitClient
    BY <1>2, <1>3 DEF VisitClient
  <1>4. CASE Wake
    BY <1>2, <1>4 DEF Wake, CallInv
  <1> QED
    BY <1>3, <1>4 DEF PublisherStep, Publish, WaitForSubscribers, CallStep,
       AcceptDone, StoreTail, EndBatch, TakeWakeflag, BroadcastDone

LEMMA PublisherType ==
  ASSUME TypeOK, CallInv, PublisherStep
  PROVE  TypeOK' /\ CallInv'
  <1>1. backlog' \in Seq(Subs) /\ clients' \in Seq(Subs)
    <2>1. CASE UNCHANGED <<backlog, clients>>
      BY <2>1 DEF TypeOK
    <2>2. CASE AcceptClient
      BY <2>2, ElemsTail, ElemsAppend DEF AcceptClient, TypeOK
    <2>3. CASE AcceptFails
      BY <2>3, ElemsTail DEF AcceptFails, TypeOK
    <2>4. CASE PublisherExits
      BY <2>4, EmptySeq DEF PublisherExits
    <2>5. CASE /\ pi \in 1..Len(clients)
               /\ backlog' = backlog /\ clients' = SwapRemove(clients, pi)
      BY <2>5, SwapRemoveFacts DEF TypeOK
    <2> QED
      BY <2>1, <2>2, <2>3, <2>4, <2>5, PublisherLists
  <1>2. ppc \in {"take", "wake"} => clients[pi] \in Subs
    <2>1. Len(clients) \in Nat /\ pi \in Nat \ {0}
      BY LenProperties DEF TypeOK
    <2>2. ppc \in {"take", "wake"} => pi \in 1..Len(clients)
      BY <2>1 DEF CallInv
    <2> QED
      BY <2>2, ElementOfSeq DEF TypeOK
  <1>3. \A r \in Subs : Standing(r) \in {"sole", "shared", "late"}
    BY DEF Standing
  <1> USE DEF TypeOK, CallInv, PubPC, PubGoto, table, subvars
  <1>4. ASSUME NEW n \in 1..MaxBatch, Publish(n) PROVE TypeOK' /\ CallInv'
    BY <1>1, <1>4, WakeupConstantsOK DEF Publish
  <1>5. CASE WaitForSubscribers \/ AcceptDone \/ BroadcastDone
    BY <1>1, <1>5 DEF WaitForSubscribers, AcceptDone, BroadcastDone
  <1>6. CASE AcceptClient \/ AcceptFails \/ PublisherExits
    <2>1. CASE AcceptClient
      BY <1>1, <2>1 DEF AcceptClient
    <2>2. CASE AcceptFails
      BY <1>1, <2>2 DEF AcceptFails
    <2>3. CASE PublisherExits
      BY <1>1, <2>3 DEF PublisherExits
    <2> QED
      BY <1>6, <2>1, <2>2, <2>3
  <1>7. CASE StoreTail
    BY <1>1, <1>7 DEF StoreTail
  <1>8. CASE EndBatch
    BY <1>1, <1>3, <1>8 DEF EndBatch
  <1>9. CASE VisitClient
    BY <1>1, <1>9 DEF VisitClient
  <1>10. CASE TakeWakeflag
    BY <1>1, <1>2, <1>10 DEF TakeWakeflag
  <1>11. CASE Wake
    <2>0. clients[pi] \in Subs /\ wakeups[clients[pi]] + 1 \in Nat
      BY <1>2, <1>11 DEF Wake
    <2>1. wakeups' \in [Subs -> Nat]
      <3>1. \/ wakeups' = [wakeups EXCEPT ![clients[pi]] = wakeups[clients[pi]] + 1]
            \/ wakeups' = wakeups
        BY <1>11 DEF Wake
      <3> QED
        BY <2>0, <3>1
    <2>2. ppc = "wake" /\ ppc' = "visit" /\ (pi' = pi \/ pi' = pi + 1)
      BY <1>11 DEF Wake
    <2>3. UNCHANGED <<tail, claimed, flag, backlog, todo, count, served, pc, idx,
                      cursor, sent, waker>>
      BY <1>11 DEF Wake
    <2>4. CallInv'
      BY <2>2, <2>3
    <2>5. pi' \in Nat \ {0}
      BY <2>2
    <2>6. waker' \in Wakers /\ tail' \in Nat /\ todo' \in Nat /\ count' \in Nat /\ ppc' \in PubPC
      BY <2>2, <2>3
    <2>7. /\ claimed' \in [SubIdx -> BOOLEAN] /\ flag' \in [SubIdx -> BOOLEAN]
          /\ pc' \in [Subs -> SubPC] /\ idx' \in [Subs -> SubIdx] /\ cursor' \in [Subs -> Nat]
          /\ sent' \subseteq Subs /\ served' \in [Subs -> {"sole", "shared", "late"}]
      BY <2>3
    <2> QED
      BY <1>1, <2>1, <2>4, <2>5, <2>6, <2>7
  <1> QED
    BY <1>4, <1>5, <1>6, <1>7, <1>8, <1>9, <1>10, <1>11 DEF PublisherStep, CallStep

LEMMA SubscriberType ==
  ASSUME NEW r \in Subs, TypeOK, CallInv, SubscriberStep(r)
  PROVE  TypeOK' /\ CallInv'
  <1>1. backlog' \in Seq(Subs)
    <2>1. CASE ConnectSocket(r)
      BY <2>1, ElemsAppend DEF ConnectSocket, TypeOK
    <2>2. CASE ~ConnectSocket(r)
      <3>1. backlog' = backlog
        BY <2>2 DEF SubscriberStep, ConnectStep, ClaimCursor, ResetWakeflag, SendFd,
           ConnectFails, Resync, ReceiveStep, Receive, RingEmpty, SetWakeflag, Recheck, WakeUp,
           HangUp, ClearWakeflag, Timeout, DrainWakeup, Drop, CloseSocket, Killed
      <3> QED
        BY <3>1 DEF TypeOK
    <2> QED
      BY <2>1, <2>2
  <1> USE DEF TypeOK, CallInv, SubPC, SubGoto, table, pubvars, subvars
  <1>2. CASE ConnectStep(r)
    <2>1. CASE ClaimCursor(r)
      BY <2>1 DEF ClaimCursor
    <2>2. CASE ConnectSocket(r)
      BY <1>1, <2>2 DEF ConnectSocket
    <2>3. CASE ResetWakeflag(r) \/ SendFd(r) \/ ConnectFails(r) \/ Resync(r)
      BY <2>3 DEF ResetWakeflag, SendFd, ConnectFails, Resync
    <2> QED
      BY <1>2, <2>1, <2>2, <2>3 DEF ConnectStep
  <1>3. CASE Receive(r)
    BY <1>3 DEF Receive
  <1>4. CASE RingEmpty(r) \/ SetWakeflag(r) \/ Recheck(r) \/ HangUp(r) \/ ClearWakeflag(r)
    BY <1>4 DEF RingEmpty, SetWakeflag, Recheck, HangUp, ClearWakeflag
  <1>5. CASE WakeUp(r) \/ DrainWakeup(r)
    <2>1. wakeups[r] - 1 \in Nat /\ wakeups' = [wakeups EXCEPT ![r] = wakeups[r] - 1]
      BY <1>5 DEF WakeUp, DrainWakeup
    <2>2. wakeups' \in [Subs -> Nat]
      BY <2>1
    <2>3. pc' \in [Subs -> SubPC]
      BY <1>5 DEF WakeUp, DrainWakeup
    <2> QED
      BY <1>5, <2>2, <2>3 DEF WakeUp, DrainWakeup
  <1>6. CASE Timeout(r) \/ Drop(r) \/ CloseSocket(r) \/ Killed(r)
    BY <1>6 DEF Timeout, Drop, CloseSocket, Killed
  <1> QED
    BY <1>2, <1>3, <1>4, <1>5, <1>6 DEF SubscriberStep, ReceiveStep

LEMMA NextType == TypeOK /\ CallInv /\ [Next]_vars => TypeOK' /\ CallInv'
  <1>1. ASSUME TypeOK, CallInv, UNCHANGED vars PROVE TypeOK' /\ CallInv'
    BY <1>1 DEF TypeOK, CallInv, vars, table, pubvars, subvars
  <1> QED
    BY <1>1, StepCases, PublisherType, SubscriberType

\* Every index into the tables and the client list is in range, for any
\* number of connections: the unchecked accesses of ring.rs and the indexing
\* of broadcast_wakeup.
THEOREM WakeupTypeCorrect == Spec => []TypeOK
  <1>1. Init => TypeOK /\ CallInv
    BY InitType DEF Init, CallInv
  <1> QED
    BY <1>1, NextType, PTL DEF Spec

-----------------------------------------------------------------------------
(***************************************************************************)
(* The connections: a slot has one tenant, who finds its flag clear, and a *)
(* connected subscriber is in the backlog or among the clients.            *)
(***************************************************************************)
Tenant(r) == pc[r] \notin {"off", "closing", "closed"}

OneTenant ==
  \A r \in Subs : \A q \in Subs \ {r} : Tenant(r) /\ Tenant(q) => idx[q] # idx[r]

Connected == SubPC \ {"off", "claiming", "claimed", "closing", "closed", "dead"}

ConnectionOK(r) ==
  /\ Tenant(r) => claimed[idx[r]]
  /\ pc[r] \in {"off", "claiming", "claimed"} => ~Linked(r)
  /\ pc[r] \in {"claimed", "linked", "sent"} => ~flag[idx[r]]
  /\ ppc # "exited" /\ pc[r] \in Connected => Linked(r)

BaseInv ==
  /\ TypeOK /\ CallInv /\ OneTenant
  /\ \A r \in Subs : ConnectionOK(r)

LEMMA BaseInvGives == BaseInv => NoInheritedFlag /\ LiveClientsKept
  BY DEF BaseInv, ConnectionOK, Connected, NoInheritedFlag, LiveClientsKept

LEMMA InitBase == Init => BaseInv
  <1> SUFFICES ASSUME Init PROVE BaseInv
    OBVIOUS
  <1>1. TypeOK /\ CallInv
    BY InitType DEF Init, CallInv
  <1>2. \A r \in Subs : pc[r] = "off" /\ ~Linked(r)
    BY ElemsEmpty DEF Init, Linked
  <1> QED
    BY <1>1, <1>2 DEF BaseInv, OneTenant, ConnectionOK, Tenant, Connected

\* The subscribers are untouched by the publisher, but for their flags, their
\* wakeups and their place in its lists.
LEMMA PublisherFrame ==
  ASSUME PublisherStep
  PROVE  UNCHANGED <<claimed, subvars, waker>>
  BY DEF PublisherStep, Publish, WaitForSubscribers, CallStep, AcceptClient,
     AcceptFails, AcceptDone, StoreTail, EndBatch, VisitClient, TakeWakeflag,
     Wake, BroadcastDone, PublisherExits, table

\* The reaping: only a connection that has left, or a dead one, loses its
\* place, and none is gained.
LEMMA PublisherLinks ==
  ASSUME BaseInv, PublisherStep, NEW r \in Subs
  PROVE  /\ Linked(r)' => Linked(r)
         /\ Linked(r) /\ pc[r] \in Connected /\ ppc' # "exited" => Linked(r)'
  <1>0. TypeOK /\ CallInv /\ ConnectionOK(r)
    BY DEF BaseInv
  <1>1. CASE UNCHANGED <<backlog, clients>>
    BY <1>1 DEF Linked
  <1>2. CASE AcceptClient
    BY <1>0, <1>2, ElemsTail, ElemsAppend DEF AcceptClient, Linked, TypeOK
  <1>3. CASE AcceptFails
    <2>1. /\ Elems(backlog) = Elems(backlog') \cup {Head(backlog)}
          /\ pc[Head(backlog)] = "dead" /\ clients' = clients
      BY <1>0, <1>3, ElemsTail DEF AcceptFails, TypeOK
    <2> QED
      BY <2>1 DEF Linked, Connected
  <1>4. CASE PublisherExits
    BY <1>4, ElemsEmpty DEF PublisherExits, PubGoto, Linked
  <1>5. CASE /\ pi \in 1..Len(clients)
             /\ backlog' = backlog /\ clients' = SwapRemove(clients, pi)
             /\ \/ ~claimed[idx[clients[pi]]]
                \/ waker # "eventfd" /\ Gone(clients[pi])
    <2>1. /\ Elems(clients') \subseteq Elems(clients)
          /\ \A x \in Elems(clients) : x # clients[pi] => x \in Elems(clients')
      BY <1>0, <1>5, ElemsSwapRemove DEF TypeOK
    <2>2. pc[r] \in Connected => r # clients[pi]
      BY <1>0, <1>5 DEF ConnectionOK, Tenant, Connected, Gone
    <2> QED
      BY <1>5, <2>1, <2>2 DEF Linked
  <1> QED
    BY <1>0, <1>1, <1>2, <1>3, <1>4, <1>5, PublisherLists

LEMMA PublisherBase ==
  ASSUME BaseInv, PublisherStep
  PROVE  BaseInv'
  <1>1. TypeOK' /\ CallInv'
    BY PublisherType DEF BaseInv
  <1>2. UNCHANGED <<claimed, pc, idx>>
    BY PublisherFrame DEF subvars
  <1>3. \A i \in SubIdx : flag'[i] => flag[i]
    <2>1. CASE TakeWakeflag
      BY <2>1 DEF TakeWakeflag, BaseInv, TypeOK
    <2>2. CASE ~TakeWakeflag
      BY <2>2 DEF PublisherStep, Publish, WaitForSubscribers, CallStep,
         AcceptClient, AcceptFails, AcceptDone, StoreTail, EndBatch, VisitClient,
         Wake, BroadcastDone, PublisherExits, table
    <2> QED
      BY <2>1, <2>2
  <1>4. ppc = "exited" => ppc' = "exited"
    BY DEF PublisherStep, Publish, WaitForSubscribers, CallStep, AcceptClient,
       AcceptFails, AcceptDone, StoreTail, EndBatch, VisitClient, TakeWakeflag,
       Wake, BroadcastDone, PublisherExits, PubGoto
  <1>5. ASSUME NEW r \in Subs PROVE ConnectionOK(r)'
    <2>1. ConnectionOK(r) /\ idx[r] \in SubIdx
      BY DEF BaseInv, TypeOK
    <2> QED
      BY <1>2, <1>3, <1>4, <2>1, PublisherLinks DEF ConnectionOK, Tenant
  <1> QED
    BY <1>1, <1>2, <1>5 DEF BaseInv, OneTenant, Tenant

\* A subscriber's step stores into its own entries of the tables only.
SubscriberTouches(r) ==
  /\ UNCHANGED <<tail, pubvars, waker>>
  /\ \A q \in Subs \ {r} : /\ pc'[q] = pc[q] /\ idx'[q] = idx[q]
                           /\ cursor'[q] = cursor[q] /\ wakeups'[q] = wakeups[q]
                           /\ q \in Elems(backlog') <=> q \in Elems(backlog)
  /\ \A i \in SubIdx : i # idx'[r] => claimed'[i] = claimed[i] /\ flag'[i] = flag[i]
  /\ pc[r] # "off" => idx'[r] = idx[r]

LEMMA SubscriberFrame ==
  ASSUME NEW r \in Subs, TypeOK, SubscriberStep(r)
  PROVE  SubscriberTouches(r)
  <1>0. /\ claimed \in [SubIdx -> BOOLEAN] /\ flag \in [SubIdx -> BOOLEAN]
        /\ pc \in [Subs -> SubPC] /\ idx \in [Subs -> SubIdx]
        /\ cursor \in [Subs -> Nat] /\ wakeups \in [Subs -> Nat]
        /\ backlog \in Seq(Subs)
    BY DEF TypeOK
  <1> USE <1>0 DEF SubscriberTouches, SubGoto, table, pubvars, subvars
  <1>1. CASE ClaimCursor(r)
    <2>1. PICK i \in SubIdx : /\ claimed' = [claimed EXCEPT ![i] = TRUE]
                              /\ idx' = [idx EXCEPT ![r] = i]
      BY <1>1 DEF ClaimCursor
    <2>2. idx'[r] = i /\ pc[r] = "off"
      BY <1>1, <2>1 DEF ClaimCursor
    <2> QED
      BY <1>1, <2>1, <2>2 DEF ClaimCursor
  <1>2. CASE ConnectSocket(r)
    <2>1. Elems(backlog') = Elems(backlog) \cup {r}
      BY <1>2, ElemsAppend DEF ConnectSocket
    <2> QED
      BY <1>2, <2>1 DEF ConnectSocket
  <1>3. CASE SendFd(r) \/ Resync(r) \/ CloseSocket(r) \/ Killed(r)
    BY <1>3 DEF SendFd, Resync, CloseSocket, Killed
  <1>4. CASE ConnectFails(r) \/ Drop(r)
    BY <1>4 DEF ConnectFails, Drop
  <1>5. CASE Receive(r) \/ RingEmpty(r) \/ Timeout(r) \/ DrainWakeup(r) \/ WakeUp(r)
    BY <1>5 DEF Receive, RingEmpty, Timeout, DrainWakeup, WakeUp
  <1>6. CASE SetWakeflag(r) \/ ClearWakeflag(r) \/ ResetWakeflag(r)
    BY <1>6 DEF SetWakeflag, ClearWakeflag, ResetWakeflag
  <1>7. CASE HangUp(r)
    BY <1>7 DEF HangUp
  <1>8. CASE Recheck(r)
    BY <1>8 DEF Recheck
  <1> QED
    BY <1>1, <1>2, <1>3, <1>4, <1>5, <1>6, <1>7, <1>8
       DEF SubscriberStep, ConnectStep, ReceiveStep

\* What a step of r leaves to be shown.
LEMMA OneConnection ==
  ASSUME NEW r \in Subs, BaseInv, SubscriberStep(r), ConnectionOK(r)',
         \/ Tenant(r)
         \/ ~claimed[idx'[r]]
         \/ ~Tenant(r)' /\ UNCHANGED <<claimed, flag>>
  PROVE  BaseInv'
  <1>0. SubscriberTouches(r) /\ TypeOK' /\ CallInv'
    BY SubscriberFrame, SubscriberType DEF BaseInv
  <1>1. ASSUME NEW q \in Subs \ {r}
        PROVE  /\ idx'[q] = idx[q] /\ (Tenant(q)' <=> Tenant(q)) /\ idx[q] \in SubIdx
               /\ Linked(q)' <=> Linked(q)
    BY <1>0 DEF SubscriberTouches, Tenant, Linked, pubvars, BaseInv, TypeOK
  <1>2. ASSUME NEW q \in Subs \ {r}, Tenant(q), Tenant(r)'
        PROVE  idx'[q] # idx'[r]
    <2>1. CASE Tenant(r)
      BY <1>0, <1>2, <2>1 DEF SubscriberTouches, BaseInv, OneTenant, Tenant
    <2>2. CASE ~claimed[idx'[r]]
      BY <1>1, <1>2, <2>2 DEF BaseInv, ConnectionOK
    <2> QED
      BY <1>2, <2>1, <2>2
  <1>3. ASSUME NEW q \in Subs \ {r}, Tenant(q)
        PROVE  claimed'[idx[q]] = claimed[idx[q]] /\ flag'[idx[q]] = flag[idx[q]]
    <2>1. CASE Tenant(r)
      BY <1>0, <1>1, <1>3, <2>1 DEF SubscriberTouches, BaseInv, OneTenant, Tenant
    <2>2. CASE ~claimed[idx'[r]]
      BY <1>0, <1>1, <1>3, <2>2 DEF SubscriberTouches, BaseInv, ConnectionOK
    <2> QED
      BY <2>1, <2>2
  <1>4. ASSUME NEW q \in Subs \ {r} PROVE ConnectionOK(q)'
    <2>1. ConnectionOK(q) /\ pc'[q] = pc[q] /\ ppc' = ppc
      BY <1>0 DEF BaseInv, SubscriberTouches, pubvars
    <2> QED
      BY <1>1, <1>3, <2>1 DEF ConnectionOK, Tenant
  <1>5. OneTenant'
    BY <1>1, <1>2 DEF BaseInv, OneTenant
  <1> QED
    BY <1>0, <1>4, <1>5 DEF BaseInv

LEMMA SubscriberBase ==
  ASSUME NEW r \in Subs, BaseInv, SubscriberStep(r)
  PROVE  BaseInv'
  <1>0. /\ TypeOK /\ ConnectionOK(r) /\ idx[r] \in SubIdx /\ SubscriberTouches(r)
        /\ pc[r] \in SubPC
    BY SubscriberFrame DEF BaseInv, TypeOK
  <1>1. CASE ClaimCursor(r)
    <2>1. PICK i \in SubIdx : /\ ~claimed[i] /\ claimed' = [claimed EXCEPT ![i] = TRUE]
                              /\ idx' = [idx EXCEPT ![r] = i]
      BY <1>1 DEF ClaimCursor
    <2>2. /\ pc[r] = "off" /\ pc'[r] = "claiming" /\ idx'[r] = i /\ claimed'[i]
          /\ UNCHANGED <<backlog, clients>>
      BY <1>0, <1>1, <2>1 DEF ClaimCursor, SubGoto, TypeOK, pubvars
    <2>3. ConnectionOK(r)'
      BY <1>0, <2>2 DEF ConnectionOK, Tenant, Linked, Connected
    <2> QED
      BY <2>1, <2>2, <2>3, OneConnection
  <1>2. CASE ConnectSocket(r)
    <2>1. /\ pc[r] = "claimed" /\ pc'[r] = "linked" /\ UNCHANGED <<claimed, flag, idx>>
          /\ backlog' = Append(backlog, r)
      BY <1>0, <1>2 DEF ConnectSocket, SubGoto, TypeOK, table
    <2>2. Linked(r)'
      BY <1>0, <2>1, ElemsAppend DEF Linked, TypeOK
    <2>3. ConnectionOK(r)'
      BY <1>0, <2>1, <2>2 DEF ConnectionOK, Tenant
    <2> QED
      BY <2>1, <2>3, OneConnection DEF Tenant
  <1>3. CASE SendFd(r) \/ Resync(r)
    <2>1. /\ \/ pc[r] = "linked" /\ pc'[r] = "sent"
             \/ pc[r] = "sent" /\ pc'[r] = "ready"
          /\ UNCHANGED <<claimed, flag, idx, backlog, clients, ppc>>
      BY <1>0, <1>3 DEF SendFd, Resync, SubGoto, TypeOK, table, pubvars
    <2>2. ConnectionOK(r)'
      BY <1>0, <2>1 DEF ConnectionOK, Tenant, Linked, Connected, SubPC
    <2> QED
      BY <2>1, <2>2, OneConnection DEF Tenant
  <1>4. CASE ConnectFails(r) \/ Drop(r)
    <2>1. Tenant(r) /\ pc'[r] \in {"closed", "closing"}
      BY <1>0, <1>4 DEF ConnectFails, Drop, SubGoto, TypeOK, Tenant
    <2>2. ConnectionOK(r)'
      BY <2>1 DEF ConnectionOK, Tenant, Connected
    <2> QED
      BY <2>1, <2>2, OneConnection
  <1>5. CASE CloseSocket(r)
    <2>1. pc'[r] = "closed" /\ UNCHANGED <<claimed, flag>>
      BY <1>0, <1>5 DEF CloseSocket, SubGoto, TypeOK, table
    <2>2. ConnectionOK(r)'
      BY <2>1 DEF ConnectionOK, Tenant, Connected
    <2> QED
      BY <2>1, <2>2, OneConnection DEF Tenant
  <1>6. CASE Killed(r)
    <2>1. Tenant(r) /\ pc'[r] = "dead" /\ UNCHANGED <<claimed, flag, idx>>
      BY <1>0, <1>6 DEF Killed, SubGoto, TypeOK, Tenant, table
    <2>2. ConnectionOK(r)'
      BY <1>0, <2>1 DEF ConnectionOK, Tenant, Connected
    <2> QED
      BY <2>1, <2>2, OneConnection
  <1>7. CASE ReceiveStep(r) \/ Timeout(r) \/ DrainWakeup(r)
    <2>1. /\ pc[r] \in {"ready", "empty", "recheck", "asleep", "awaiting", "unflag"}
          /\ pc'[r] \in {"ready", "empty", "recheck", "asleep", "awaiting", "unflag", "eof"}
          /\ UNCHANGED <<claimed, idx, backlog, clients, ppc>>
      <3>1. CASE Receive(r) \/ RingEmpty(r) \/ SetWakeflag(r) \/ Recheck(r) \/ DrainWakeup(r)
        BY <1>0, <3>1 DEF Receive, RingEmpty, SetWakeflag, Recheck, DrainWakeup,
           SubGoto, TypeOK, table, pubvars, subvars
      <3>2. CASE WakeUp(r) \/ HangUp(r) \/ ClearWakeflag(r) \/ Timeout(r)
        BY <1>0, <3>2 DEF WakeUp, HangUp, ClearWakeflag, Timeout, Sleeping,
           SubGoto, TypeOK, table, pubvars
      <3> QED
        BY <1>7, <3>1, <3>2 DEF ReceiveStep
    <2>2. ConnectionOK(r)'
      BY <1>0, <2>1 DEF ConnectionOK, Tenant, Linked, Connected, SubPC
    <2> QED
      BY <2>1, <2>2, OneConnection DEF Tenant
  <1>8. CASE ResetWakeflag(r)
    <2>1. /\ pc[r] = "claiming" /\ pc'[r] = "claimed" /\ ~flag'[idx[r]]
          /\ UNCHANGED <<claimed, idx, backlog, clients, ppc>>
      BY <1>0, <1>8 DEF ResetWakeflag, SubGoto, TypeOK, pubvars
    <2>2. ConnectionOK(r)'
      BY <1>0, <2>1 DEF ConnectionOK, Tenant, Linked, Connected
    <2> QED
      BY <2>1, <2>2, OneConnection DEF Tenant
  <1> QED
    BY <1>1, <1>2, <1>3, <1>4, <1>5, <1>6, <1>7, <1>8 DEF SubscriberStep, ConnectStep

LEMMA NextBase == BaseInv /\ [Next]_vars => BaseInv'
  <1>1. ASSUME BaseInv, UNCHANGED vars PROVE BaseInv'
    <2>1. TypeOK' /\ CallInv'
      BY <1>1, NextType DEF BaseInv
    <2> QED
      BY <1>1, <2>1 DEF BaseInv, OneTenant, ConnectionOK, Tenant, Linked, vars,
         table, pubvars, subvars
  <1> QED
    BY <1>1, StepCases, PublisherBase, SubscriberBase

\* claim_cursor hands a slot over with its wakeup flag clear, whatever the
\* previous tenant left in it and whoever sets or swaps flags meanwhile, for
\* any number of connections over any number of slots.
THEOREM FlagsNotInherited == Spec => []NoInheritedFlag
  BY InitBase, NextBase, BaseInvGives, PTL DEF Spec

\* The reaping of broadcast_wakeup never removes a live subscriber from the
\* client list: neither the check of the cursor slot, nor a failed send, nor
\* swap_remove, for any interleaving of connects, drops, kills and reuse of
\* slots.
THEOREM LiveClientsStay == Spec => []LiveClientsKept
  BY InitBase, NextBase, BaseInvGives, PTL DEF Spec

-----------------------------------------------------------------------------
(***************************************************************************)
(* The eventcount.  A subscriber that has set its flag and shares its slot *)
(* index with no client entry keeps the flag until it is on its way to be  *)
(* woken; so whoever sleeps next to an unread message is still ahead of    *)
(* the broadcast in the client list.                                       *)
(***************************************************************************)
Unshared(r) == \A q \in Elems(clients) : idx[q] = idx[r] => q = r

Armed(r) == pc[r] = "recheck" \/ Sleeping(r)

Ahead(r) == \E j \in pi..Len(clients) : clients[j] = r

Broadcasting == ppc \in {"visit", "take", "wake"}

FlagOK(r) ==
  ppc # "exited" /\ Unshared(r) /\ Armed(r) =>
    flag[idx[r]] \/ wakeups[r] > 0 \/ (ppc = "wake" /\ clients[pi] = r)

VisitOK(r) ==
  Broadcasting /\ served[r] = "sole" =>
    /\ Unshared(r) /\ pc[r] # "off"
    /\ Overslept(r) => Ahead(r)

QuietOK(r) ==
  (BroadcastOver \/ (ppc = "write" /\ count = 0)) /\ served[r] = "sole" => ~Overslept(r)

WakeOK(r) == FlagOK(r) /\ VisitOK(r) /\ QuietOK(r)

WakeInv == BaseInv /\ (waker = "eventfd" => \A r \in Subs : WakeOK(r))

LEMMA InitWake == Init => WakeInv
  <1> SUFFICES ASSUME Init PROVE WakeInv
    OBVIOUS
  <1>1. BaseInv
    BY InitBase
  <1>2. ASSUME NEW r \in Subs PROVE pc[r] = "off" /\ served[r] = "late" /\ ppc = "idle"
    BY DEF Init
  <1> QED
    BY <1>1, <1>2 DEF WakeInv, WakeOK, FlagOK, VisitOK, QuietOK, Armed, Sleeping

\* The flag of a tenant is out of the others' reach.
LEMMA FlagFrame ==
  ASSUME BaseInv, NEW q \in Subs, SubscriberStep(q), NEW r \in Subs \ {q}, Tenant(r)
  PROVE  flag'[idx[r]] = flag[idx[r]]
  <1>0. /\ TypeOK /\ ConnectionOK(r) /\ claimed[idx[r]] /\ SubscriberTouches(q)
        /\ idx[r] \in SubIdx
    BY SubscriberFrame DEF BaseInv, TypeOK, ConnectionOK
  <1>1. CASE Tenant(q)
    <2>1. idx'[q] = idx[q] /\ idx[r] # idx[q]
      BY <1>0, <1>1 DEF SubscriberTouches, Tenant, BaseInv, OneTenant
    <2> QED
      BY <1>0, <2>1 DEF SubscriberTouches
  <1>2. CASE ClaimCursor(q)
    BY <1>2 DEF ClaimCursor
  <1>3. CASE ~Tenant(q) /\ ~ClaimCursor(q)
    <2>1. CloseSocket(q)
      BY <1>3 DEF SubscriberStep, ConnectStep, ReceiveStep, Tenant, ResetWakeflag,
         ConnectSocket, SendFd, ConnectFails, Resync, Receive, RingEmpty, SetWakeflag, Recheck,
         WakeUp, HangUp, ClearWakeflag, Timeout, DrainWakeup, Drop, Killed, Sleeping
    <2> QED
      BY <2>1 DEF CloseSocket, table
  <1> QED
    BY <1>1, <1>2, <1>3

\* The client entries of the others say what they said.
LEMMA UnsharedFrame ==
  ASSUME BaseInv, NEW q \in Subs, SubscriberStep(q), NEW r \in Subs, pc[r] # "off"
  PROVE  Unshared(r)' <=> Unshared(r)
  <1>0. TypeOK /\ SubscriberTouches(q) /\ clients' = clients
    BY SubscriberFrame DEF BaseInv, SubscriberTouches, pubvars
  <1>1. ASSUME NEW x \in Elems(clients) PROVE idx'[x] = idx[x]
    <2>1. x \in Subs /\ pc[x] # "off"
      <3>1. x \in Subs
        BY <1>0, ElemsOf DEF TypeOK
      <3> QED
        BY <3>1 DEF BaseInv, ConnectionOK, Linked
    <2> QED
      BY <1>0, <2>1 DEF SubscriberTouches
  <1>2. idx'[r] = idx[r]
    BY <1>0 DEF SubscriberTouches
  <1> QED
    BY <1>0, <1>1, <1>2 DEF Unshared

\* Only the re-check puts a subscriber to sleep, and not next to a message.
LEMMA SubscriberSleeps ==
  ASSUME BaseInv, NEW r \in Subs, SubscriberStep(r)
  PROVE  /\ Overslept(r)' => Overslept(r)
         /\ Armed(r)' => \/ flag'[idx'[r]]
                         \/ Armed(r) /\ UNCHANGED <<flag, idx, wakeups>>
         /\ pc'[r] # "off"
  <1>0. /\ pc \in [Subs -> SubPC] /\ idx \in [Subs -> SubIdx] /\ cursor \in [Subs -> Nat]
        /\ flag \in [SubIdx -> BOOLEAN] /\ wakeups \in [Subs -> Nat] /\ tail \in Nat
    BY DEF BaseInv, TypeOK
  <1> USE <1>0 DEF SubGoto, table, pubvars, subvars
  <1>1. CASE SetWakeflag(r)
    BY <1>1 DEF SetWakeflag, Overslept, Sleeping
  <1>2. CASE Recheck(r)
    <2>1. /\ pc[r] = "recheck" /\ UNCHANGED <<flag, idx, wakeups, cursor, tail>>
          /\ pc'[r] \in {"unflag", "asleep", "awaiting"}
          /\ cursor[r] < tail => pc'[r] = "unflag"
      BY <1>2 DEF Recheck
    <2> QED
      BY <2>1 DEF Overslept, Sleeping, Armed
  <1>3. CASE ~SetWakeflag(r) /\ ~Recheck(r)
    <2>1. pc'[r] \notin {"off", "recheck", "asleep", "awaiting"}
      <3>1. CASE ConnectStep(r)
        BY <3>1 DEF ConnectStep, ClaimCursor, ResetWakeflag, ConnectSocket, SendFd,
           ConnectFails, Resync
      <3>2. CASE Receive(r) \/ RingEmpty(r) \/ WakeUp(r) \/ HangUp(r) \/ ClearWakeflag(r)
        BY <3>2 DEF Receive, RingEmpty, WakeUp, HangUp, ClearWakeflag
      <3>3. CASE Timeout(r) \/ DrainWakeup(r) \/ Drop(r) \/ CloseSocket(r) \/ Killed(r)
        BY <3>3 DEF Timeout, DrainWakeup, Drop, CloseSocket, Killed
      <3> QED
        BY <1>3, <3>1, <3>2, <3>3 DEF SubscriberStep, ReceiveStep
    <2> QED
      BY <2>1 DEF Overslept, Sleeping, Armed
  <1> QED
    BY <1>1, <1>2, <1>3

LEMMA SubscriberWake ==
  ASSUME WakeInv, waker = "eventfd", NEW q \in Subs, SubscriberStep(q), NEW r \in Subs
  PROVE  WakeOK(r)'
  <1>0. /\ BaseInv /\ WakeOK(r) /\ SubscriberTouches(q)
        /\ UNCHANGED <<clients, ppc, pi, count, served, tail>>
    BY SubscriberFrame DEF WakeInv, BaseInv, SubscriberTouches, pubvars
  <1>1. Overslept(r)' => Overslept(r)
    <2>1. CASE r = q
      BY <1>0, <2>1, SubscriberSleeps
    <2>2. CASE r # q
      BY <1>0, <2>2 DEF SubscriberTouches, Overslept, Sleeping
    <2> QED
      BY <2>1, <2>2
  <1>2. pc[r] # "off" => pc'[r] # "off"
    <2>1. CASE r = q
      BY <1>0, <2>1, SubscriberSleeps
    <2>2. CASE r # q
      BY <1>0, <2>2 DEF SubscriberTouches
    <2> QED
      BY <2>1, <2>2
  <1>3. QuietOK(r)'
    BY <1>0, <1>1 DEF WakeOK, QuietOK, BroadcastOver
  <1>4. VisitOK(r)'
    BY <1>0, <1>1, <1>2, UnsharedFrame DEF WakeOK, VisitOK, Ahead, Broadcasting
  <1>5. FlagOK(r)'
    <2>1. CASE r = q
      BY <1>0, <2>1, SubscriberSleeps, UnsharedFrame DEF WakeOK, FlagOK, Armed, Sleeping
    <2>2. CASE r # q
      <3>1. /\ Armed(r)' <=> Armed(r)
            /\ idx'[r] = idx[r] /\ wakeups'[r] = wakeups[r]
        BY <1>0, <2>2 DEF SubscriberTouches, Armed, Sleeping
      <3>2. Armed(r) => Tenant(r) /\ pc[r] # "off"
        BY DEF Armed, Sleeping, Tenant
      <3> QED
        BY <1>0, <2>2, <3>1, <3>2, FlagFrame, UnsharedFrame DEF WakeOK, FlagOK
    <2> QED
      BY <2>1, <2>2
  <1> QED
    BY <1>3, <1>4, <1>5 DEF WakeOK

\* Under an eventfd only the entry of a released slot is removed.
LEMMA PublisherUnshares ==
  ASSUME BaseInv, waker = "eventfd", PublisherStep, ppc' # "exited", NEW r \in Subs
  PROVE  /\ Tenant(r) /\ Unshared(r)' => Unshared(r)
         /\ Broadcasting /\ Unshared(r) => Unshared(r)'
  <1>0. TypeOK /\ CallInv /\ idx' = idx /\ ConnectionOK(r)
    BY PublisherFrame DEF BaseInv, subvars
  <1>1. CASE UNCHANGED clients
    BY <1>0, <1>1 DEF Unshared
  <1>2. CASE AcceptClient
    <2>1. Elems(clients) \subseteq Elems(clients') /\ ~Broadcasting
      BY <1>0, <1>2, ElemsTail, ElemsAppend DEF AcceptClient, TypeOK, Broadcasting
    <2> QED
      BY <1>0, <2>1 DEF Unshared
  <1>3. CASE /\ pi \in 1..Len(clients) /\ clients' = SwapRemove(clients, pi)
             /\ ~claimed[idx[clients[pi]]]
    <2>1. /\ Elems(clients') \subseteq Elems(clients)
          /\ \A x \in Elems(clients) : x # clients[pi] => x \in Elems(clients')
      BY <1>0, <1>3, ElemsSwapRemove DEF TypeOK
    <2>2. Tenant(r) => idx[clients[pi]] # idx[r]
      BY <1>0, <1>3 DEF ConnectionOK
    <2> QED
      BY <1>0, <2>1, <2>2 DEF Unshared
  <1> QED
    BY <1>0, <1>1, <1>2, <1>3, PublisherLists DEF AcceptFails, PublisherExits, PubGoto

\* The flag of an armed subscriber is taken only to wake it.
LEMMA PublisherFlags ==
  ASSUME BaseInv, waker = "eventfd", PublisherStep, NEW r \in Subs, FlagOK(r)
  PROVE  FlagOK(r)'
  <1> SUFFICES ASSUME ppc' # "exited", Unshared(r)', Armed(r)'
               PROVE  \/ flag'[idx'[r]] \/ wakeups'[r] > 0
                      \/ ppc' = "wake" /\ clients'[pi'] = r
    BY DEF FlagOK
  <1>0. /\ TypeOK /\ CallInv /\ idx' = idx /\ pc' = pc /\ idx[r] \in SubIdx
        /\ flag \in [SubIdx -> BOOLEAN] /\ wakeups \in [Subs -> Nat] /\ wakeups[r] \in Nat
    BY PublisherFrame DEF BaseInv, subvars, TypeOK
  <1>1. Armed(r) /\ Tenant(r) /\ ppc # "exited"
    BY <1>0 DEF Armed, Sleeping, Tenant, PublisherStep, Publish, WaitForSubscribers,
       CallStep, AcceptClient, AcceptFails, AcceptDone, StoreTail, EndBatch,
       VisitClient, TakeWakeflag, Wake, BroadcastDone, PublisherExits
  <1>2. Unshared(r)
    BY <1>1, PublisherUnshares
  <1>3. flag[idx[r]] \/ wakeups[r] > 0 \/ (ppc = "wake" /\ clients[pi] = r)
    BY <1>1, <1>2 DEF FlagOK
  <1>4. CASE TakeWakeflag
    <2>1. /\ pi \in 1..Len(clients) /\ clients[pi] \in Elems(clients)
          /\ clients[pi] \in Subs /\ idx[clients[pi]] \in SubIdx
      <3>1. pi \in 1..Len(clients)
        BY <1>0, <1>4, LenProperties DEF TakeWakeflag, CallInv, TypeOK
      <3> QED
        BY <1>0, <3>1, ElemsOf DEF TypeOK
    <2>2. CASE flag[idx[r]] /\ idx[clients[pi]] = idx[r]
      <3>1. clients[pi] = r
        BY <1>2, <2>1, <2>2 DEF Unshared
      <3> QED
        BY <1>4, <2>2, <3>1 DEF TakeWakeflag
    <2>3. CASE flag[idx[r]] /\ idx[clients[pi]] # idx[r]
      BY <1>0, <1>4, <2>1, <2>3 DEF TakeWakeflag
    <2>4. CASE wakeups[r] > 0
      BY <1>4, <2>4 DEF TakeWakeflag
    <2> QED
      BY <1>3, <1>4, <2>2, <2>3, <2>4 DEF TakeWakeflag
  <1>5. CASE Wake
    <2>1. clients[pi] \in Subs /\ flag' = flag
      <3>1. pi \in 1..Len(clients)
        BY <1>0, <1>5, LenProperties DEF Wake, CallInv, TypeOK
      <3> QED
        BY <1>0, <1>5, <3>1, ElementOfSeq DEF TypeOK, Wake, table
    <2>2. wakeups' = [wakeups EXCEPT ![clients[pi]] = wakeups[clients[pi]] + 1]
      BY <1>5 DEF Wake
    <2>3. CASE clients[pi] = r
      BY <1>0, <2>2, <2>3
    <2>4. CASE clients[pi] # r
      BY <1>0, <1>3, <2>1, <2>2, <2>4
    <2> QED
      BY <2>3, <2>4
  <1>6. CASE ~TakeWakeflag /\ ~Wake
    <2>1. UNCHANGED <<flag, wakeups>> /\ ppc # "wake"
      BY <1>6 DEF PublisherStep, Publish, WaitForSubscribers,
       CallStep, AcceptClient, AcceptFails, AcceptDone, StoreTail, EndBatch,
       VisitClient, BroadcastDone, PublisherExits, PubGoto, table
    <2> QED
      BY <1>0, <1>3, <2>1
  <1> QED
    BY <1>4, <1>5, <1>6

\* What the publisher does to r between two broadcasts, and in one.
LEMMA PublisherVisits ==
  ASSUME BaseInv, waker = "eventfd", PublisherStep, NEW r \in Subs, WakeOK(r)
  PROVE  VisitOK(r)' /\ QuietOK(r)'
  <1>0. /\ TypeOK /\ CallInv /\ UNCHANGED <<idx, pc, cursor>> /\ ConnectionOK(r)
        /\ wakeups \in [Subs -> Nat] /\ clients \in Seq(Subs) /\ pi \in Nat \ {0}
        /\ Len(clients) \in Nat /\ served \in [Subs -> {"sole", "shared", "late"}]
    BY PublisherFrame, LenProperties DEF BaseInv, subvars, TypeOK
  <1>1. ASSUME Broadcasting, Broadcasting', served' = served, tail' = tail,
               Overslept(r)' => Overslept(r),
               Ahead(r) /\ Overslept(r)' => Ahead(r)'
        PROVE  VisitOK(r)' /\ QuietOK(r)'
    <2>1. ppc' # "exited"
      BY <1>1 DEF Broadcasting
    <2> QED
      BY <1>0, <1>1, <2>1, PublisherUnshares
         DEF WakeOK, VisitOK, QuietOK, Broadcasting, BroadcastOver
  <1>2. CASE VisitClient
    <2>1. /\ Broadcasting /\ Broadcasting' /\ served' = served /\ tail' = tail
          /\ wakeups' = wakeups /\ pi' = pi /\ pi \in 1..Len(clients)
      BY <1>0, <1>2 DEF VisitClient, Broadcasting, table
    <2>2. Overslept(r)' <=> Overslept(r)
      BY <1>0, <2>1 DEF Overslept, Sleeping
    <2>3. ASSUME Ahead(r), Overslept(r) PROVE Ahead(r)'
      <3>1. CASE clients' = clients
        BY <2>1, <2>3, <3>1 DEF Ahead
      <3>2. CASE ~claimed[idx[clients[pi]]] /\ clients' = SwapRemove(clients, pi)
        <4>1. r # clients[pi]
          BY <1>0, <2>3, <3>2 DEF ConnectionOK, Tenant, Overslept, Sleeping
        <4>2. PICK j \in pi..Len(clients) : clients[j] = r
          BY <2>3 DEF Ahead
        <4>3. \E k \in pi..Len(clients') : clients'[k] = r
          BY <1>0, <2>1, <3>2, <4>1, <4>2, SwapRemoveKeeps
        <4> QED
          BY <2>1, <4>3 DEF Ahead
      <3> QED
        BY <1>2, <3>1, <3>2 DEF VisitClient
    <2> QED
      BY <1>1, <2>1, <2>2, <2>3
  <1>3. CASE TakeWakeflag
    <2>1. /\ Broadcasting /\ Broadcasting' /\ served' = served /\ tail' = tail
          /\ wakeups' = wakeups /\ clients' = clients /\ ppc = "take"
          /\ \/ pi' = pi
             \/ pi' = pi + 1 /\ ~flag[idx[clients[pi]]]
      BY <1>3 DEF TakeWakeflag, Broadcasting
    <2>2. Overslept(r)' <=> Overslept(r)
      BY <1>0, <2>1 DEF Overslept, Sleeping
    <2>3. ASSUME Ahead(r), Overslept(r), Unshared(r) PROVE Ahead(r)'
      <3>1. PICK j \in pi..Len(clients) : clients[j] = r
        BY <2>3 DEF Ahead
      <3>2. CASE pi' = pi
        BY <2>1, <3>1, <3>2 DEF Ahead
      <3>3. CASE pi' = pi + 1 /\ ~flag[idx[clients[pi]]]
        <4>1. flag[idx[r]]
          BY <1>0, <2>1, <2>3 DEF WakeOK, FlagOK, Armed, Overslept
        <4>2. j # pi
          BY <3>1, <3>3, <4>1
        <4>3. j \in (pi + 1)..Len(clients)
          BY <1>0, <4>2
        <4> QED
          BY <2>1, <3>1, <3>3, <4>3 DEF Ahead
      <3> QED
        BY <2>1, <3>2, <3>3
    <2>4. served[r] = "sole" => Unshared(r)
      BY <2>1 DEF WakeOK, VisitOK
    <2>5. QuietOK(r)'
      BY <2>1 DEF QuietOK, Broadcasting, BroadcastOver
    <2>6. Unshared(r) => Unshared(r)'
      BY <1>0, <2>1 DEF Unshared
    <2> QED
      BY <1>0, <2>1, <2>2, <2>3, <2>4, <2>5, <2>6 DEF WakeOK, VisitOK
  <1>4. CASE Wake
    <2>1. /\ Broadcasting /\ Broadcasting' /\ served' = served /\ tail' = tail
          /\ clients' = clients /\ pi' = pi + 1
          /\ wakeups' = [wakeups EXCEPT ![clients[pi]] = wakeups[clients[pi]] + 1]
      BY <1>4 DEF Wake, Broadcasting, table
    <2>2. Overslept(r)' => Overslept(r) /\ r # clients[pi]
      <3>1. CASE r = clients[pi]
        <4>1. wakeups'[r] = wakeups[r] + 1 /\ wakeups[r] \in Nat
          BY <1>0, <2>1, <3>1
        <4> QED
          BY <4>1 DEF Overslept
      <3>2. CASE r # clients[pi]
        <4>1. wakeups'[r] = wakeups[r]
          BY <1>0, <2>1, <3>2
        <4> QED
          BY <1>0, <2>1, <3>2, <4>1 DEF Overslept, Sleeping
      <3> QED
        BY <3>1, <3>2
    <2>3. ASSUME Ahead(r), r # clients[pi] PROVE Ahead(r)'
      <3>1. PICK j \in pi..Len(clients) : clients[j] = r
        BY <2>3 DEF Ahead
      <3>2. j \in (pi + 1)..Len(clients)
        BY <1>0, <2>3, <3>1
      <3> QED
        BY <2>1, <3>1, <3>2 DEF Ahead
    <2> QED
      BY <1>1, <2>1, <2>2, <2>3
  <1>5. CASE BroadcastDone
    <2>1. /\ Broadcasting /\ ppc' = "idle" /\ served' = served /\ tail' = tail
          /\ wakeups' = wakeups /\ pi > Len(clients)
      BY <1>5 DEF BroadcastDone, Broadcasting, PubGoto, table
    <2>2. ~Ahead(r)
      BY <1>0, <2>1 DEF Ahead
    <2>3. Overslept(r)' <=> Overslept(r)
      BY <1>0, <2>1 DEF Overslept, Sleeping
    <2> QED
      BY <2>1, <2>2, <2>3 DEF WakeOK, VisitOK, QuietOK, Broadcasting
  <1>6. CASE EndBatch
    <2>1. /\ ppc = "write" /\ tail' = tail /\ wakeups' = wakeups /\ clients' = clients
          /\ pi' = 1 /\ count' = count
          /\ \/ count > 0 /\ clients # <<>> /\ ppc' = "visit"
             \/ ~(count > 0 /\ clients # <<>>) /\ ppc' = "idle"
          /\ IF count > 0 THEN served'[r] = Standing(r) ELSE served' = served
      BY <1>6 DEF EndBatch, PubGoto, table
    <2>2. Overslept(r)' <=> Overslept(r)
      BY <1>0, <2>1 DEF Overslept, Sleeping
    <2>3. CASE ~(count > 0)
      <3>1. count = 0
        BY <1>0, <2>3 DEF TypeOK
      <3> QED
        BY <2>1, <2>2, <2>3, <3>1 DEF WakeOK, VisitOK, QuietOK, Broadcasting
    <2>4. CASE count > 0 /\ served'[r] # "sole"
      BY <2>4 DEF VisitOK, QuietOK
    <2>5. CASE count > 0 /\ served'[r] = "sole"
      <3>1. Sole(r)
        BY <2>1, <2>5 DEF Standing
      <3>2. r \in Elems(clients) /\ Unshared(r) /\ pc[r] # "off"
        BY <1>0, <3>1 DEF Sole, Unshared, ConnectionOK, Linked
      <3>3. clients # <<>> /\ \E j \in 1..Len(clients) : clients[j] = r
        BY <1>0, <3>2, ElemsEmpty, ElemsOf
      <3>4. Ahead(r)'
        BY <2>1, <3>3 DEF Ahead
      <3>5. Unshared(r)' /\ pc'[r] # "off"
        BY <1>0, <2>1, <3>2 DEF Unshared
      <3> QED
        BY <2>1, <2>5, <3>3, <3>4, <3>5 DEF VisitOK, QuietOK, BroadcastOver
    <2> QED
      BY <2>3, <2>4, <2>5
  <1>7. CASE StoreTail
    <2>1. ppc' = "write" /\ count' # 0
      BY <1>7 DEF StoreTail, TypeOK, BaseInv
    <2> QED
      BY <2>1 DEF VisitOK, QuietOK, Broadcasting, BroadcastOver
  <1>8. CASE PublisherExits
    BY <1>8 DEF PublisherExits, PubGoto, VisitOK, QuietOK, Broadcasting, BroadcastOver
  <1>9. CASE /\ UNCHANGED <<tail, wakeups, served>>
             /\ ppc \in {"idle", "accept"}
             /\ ppc' \in {"idle", "accept", "write"} /\ (ppc' = "write" => count' = 0)
    <2>1. Overslept(r)' <=> Overslept(r)
      BY <1>0, <1>9 DEF Overslept, Sleeping
    <2> QED
      BY <1>9, <2>1 DEF WakeOK, VisitOK, QuietOK, Broadcasting, BroadcastOver
  <1>10. CASE WaitForSubscribers \/ AcceptClient \/ AcceptFails \/ AcceptDone
              \/ \E n \in 1..MaxBatch : Publish(n)
    <2>1. /\ UNCHANGED <<tail, wakeups, served>>
          /\ ppc \in {"idle", "accept"}
          /\ ppc' \in {"idle", "accept", "write"} /\ (ppc' = "write" => count' = 0)
      BY <1>0, <1>10 DEF WaitForSubscribers, AcceptClient, AcceptFails, AcceptDone,
         Publish, PubGoto, table, CallInv
    <2> QED
      BY <1>9, <2>1
  <1> QED
    BY <1>2, <1>3, <1>4, <1>5, <1>6, <1>7, <1>8, <1>10 DEF PublisherStep, CallStep

LEMMA NextWake == WakeInv /\ [Next]_vars => WakeInv'
  <1> SUFFICES ASSUME WakeInv, [Next]_vars PROVE WakeInv'
    OBVIOUS
  <1>1. BaseInv /\ BaseInv'
    BY NextBase DEF WakeInv
  <1>2. CASE UNCHANGED vars
    BY <1>1, <1>2 DEF WakeInv, WakeOK, FlagOK, VisitOK, QuietOK, Unshared, Armed, Ahead,
       Broadcasting, BroadcastOver, Overslept, Sleeping, vars, table, pubvars, subvars
  <1>3. CASE PublisherStep
    BY <1>1, <1>3, PublisherFrame, PublisherFlags, PublisherVisits DEF WakeInv, WakeOK
  <1>4. ASSUME NEW q \in Subs, SubscriberStep(q) PROVE WakeInv'
    <2>1. waker' = waker
      BY <1>1, <1>4, SubscriberFrame DEF SubscriberTouches, BaseInv
    <2> QED
      BY <1>1, <1>4, <2>1, SubscriberWake DEF WakeInv
  <1> QED
    BY <1>2, <1>3, <1>4, StepCases

\* "Together they guarantee no missed wakeup", as far as it holds: for any
\* number of connections, slots and messages, and any interleaving of the flag
\* store, the re-check, the tail store and the flag swap with connects, drops,
\* kills and reaping, publish does not return while a subscriber whose slot
\* index only its own entry carries sleeps next to an unread message.
THEOREM SoleClientsWoken == Spec => []SoleClientWoken
  <1>1. WakeInv => SoleClientWoken
    BY DEF WakeInv, WakeOK, QuietOK, SoleClientWoken
  <1> QED
    BY <1>1, InitWake, NextWake, PTL DEF Spec

=============================================================================
