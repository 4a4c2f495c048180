---------------------------- MODULE BridgeProofs ----------------------------
(***************************************************************************)
(* Proofs about Bridge, for every number of topics, messages, connections, *)
(* faults and sizes of the queues: what becomes of a frame on its way from *)
(* the sender's bus to the receiver's, and what shutdown waits for.        *)
(***************************************************************************)
EXTENDS Bridge, SequenceTheorems, WellFoundedInduction, TLAPS

Frames == [topic : Topics, n : Nat \ {0}]
Wire   == Frames \cup {Hello}
Items  == [f : Frames, conn : ConnIds]
Conns  == [up : BOOLEAN, eof : BOOLEAN, data : Seq(Wire)]

-----------------------------------------------------------------------------
(***************************************************************************)
(* Types, and the control state the order of the frames rests on.          *)
(***************************************************************************)
SenderType ==
  /\ transport \in {"tcp", "quic"}
  /\ src \in [Topics -> Nat] /\ inbox \in [Topics -> Seq(Nat \ {0})]
  /\ spc \in [Topics -> {"outer", "inner", "send", "drop", "done"}]
  /\ shand \in [Topics -> Frames \cup {NoFrame}]
  /\ queue \in Seq(Frames) /\ tq \in Seq(Frames) /\ evicted \subseteq Frames
  /\ qhand \in Frames \cup {NoFrame} /\ fhand \in Frames \cup {NoFrame}
  /\ qpc \in {"loop", "send", "done"}
  /\ fpc \in {"outer", "hello", "loop", "write", "done"}
  /\ \A t \in Topics : spc[t] = "send" => shand[t] \in Frames /\ shand[t].topic = t
  /\ qpc = "send" => qhand \in Frames
  /\ fpc = "write" => fhand \in Frames
  /\ transport = "tcp" => qpc = "done" /\ tq = <<>>

NetType ==
  /\ conns \in Seq(Conns) /\ Len(conns) <= MaxConns
  /\ fconn \in {NoConn, Len(conns)}
  /\ fpc \in {"hello", "loop", "write"} => fconn # NoConn

ReceiverType ==
  /\ rpc \in [ConnIds -> {"none", "loop", "done"}]
  /\ authed \in [ConnIds -> BOOLEAN]
  /\ chan \in Seq(Items) /\ out \in Seq(Items)

BridgeType == SenderType /\ NetType /\ ReceiverType

Data == [c \in DOMAIN conns |-> conns[c].data]

\* The PeerHello is the first frame of a connection, and read before the rest.
HelloFirst ==
  /\ \A c \in ConnIds : rpc[c] = "loop" \/ authed[c] => c <= Len(conns)
  /\ fpc = "hello" => Data[fconn] = <<>> /\ ~authed[fconn]
  /\ \A c \in DOMAIN Data : \A i \in DOMAIN Data[c] :
       Data[c][i].n = 0 => i = 1 /\ ~authed[c]

-----------------------------------------------------------------------------
(* The order of the frames *)

Before(f, g) == f.topic = g.topic /\ f.n > 0 /\ g.n > 0 => f.n < g.n

AllBefore(A, B) == \A f \in A : \A g \in B : Before(f, g)

Sorted(s) == \A i, j \in DOMAIN s : i < j => Before(s[i], s[j])

Elems(s) == {s[i] : i \in DOMAIN s}

Hand(busy, f) == IF busy THEN {f} ELSE {}

\* What has been written to a connection and not been lost since.
Flown ==
  {out[i].f : i \in DOMAIN out} \cup {chan[i].f : i \in DOMAIN chan}
    \cup UNION {Elems(Data[c]) : c \in DOMAIN Data}

InHand == {f \in Frames : spc[f.topic] = "send" /\ shand[f.topic] = f}

Unread == {f \in Frames : \E i \in DOMAIN inbox[f.topic] : inbox[f.topic][i] = f.n}

\* Where a frame can be, from the far end of its way to its start.
Stages ==
  << Flown, Hand(fpc = "write", fhand), Elems(tq), Hand(qpc = "send", qhand),
     Elems(queue), InHand, Unread >>

LineOK(S) == \A j, k \in 1..7 : j < k => AllBefore(S[j], S[k])

Known(f, s) == f.n > 0 => f.topic \in Topics /\ f.n <= s[f.topic]

\* A line of frames that were published, and what was thrown out of it.
UpOK(S, ev, s) ==
  /\ LineOK(S)
  /\ \A k \in 5..7 : AllBefore(ev, S[k])
  /\ \A k \in 1..7 : \A f \in S[k] : Known(f, s)
  /\ \A f \in ev : Known(f, s)

InboxSorted ==
  \A t \in Topics : \A i, j \in DOMAIN inbox[t] : i < j => inbox[t][i] < inbox[t][j]

\* Upstream of the connections everything is one line.
UpstreamInv ==
  UpOK(Stages, evicted, src) /\ Sorted(queue) /\ Sorted(tq) /\ InboxSorted

\* x has come off its connection before y, or the other way round when y's
\* connection is the older one.
Apart(x, y) ==
  x.f.topic = y.f.topic =>
    IF x.conn <= y.conn THEN x.f.n < y.f.n ELSE y.f.n < x.f.n

On(c, f) == [f |-> f, conn |-> c]

\* Downstream the connections race, but each one keeps its order, and all of
\* an older connection is older.
DownOK(o, ch, D) ==
  /\ \A i \in DOMAIN o : o[i].conn \in DOMAIN D
  /\ \A i \in DOMAIN ch : ch[i].conn \in DOMAIN D
  /\ \A i, j \in DOMAIN o : i < j => Apart(o[i], o[j])
  /\ \A i, j \in DOMAIN ch : i < j => Apart(ch[i], ch[j])
  /\ \A i \in DOMAIN o : \A j \in DOMAIN ch : Apart(o[i], ch[j])
  /\ \A c \in DOMAIN D : \A j \in DOMAIN D[c] :
       D[c][j].n > 0 => /\ \A i \in DOMAIN o : Apart(o[i], On(c, D[c][j]))
                        /\ \A i \in DOMAIN ch : Apart(ch[i], On(c, D[c][j]))
  /\ \A c, d \in DOMAIN D : \A i \in DOMAIN D[c] : \A j \in DOMAIN D[d] :
       c < d \/ (c = d /\ i < j) => Before(D[c][i], D[d][j])

DownstreamInv == DownOK(out, chan, Data)

-----------------------------------------------------------------------------
(***************************************************************************)
(* What a shutdown has waited for.                                         *)
(***************************************************************************)
ThreadType ==
  /\ spc \in [Topics -> {"outer", "inner", "send", "drop", "done"}]
  /\ senders \in [Holders -> {"held", "dropping", "gone"}]
  /\ rpc \in [ConnIds -> {"none", "loop", "done"}]

JoinInv ==
  /\ ThreadType
  /\ \A t \in Topics : spc[t] = "done" => senders[t] = "gone"
  /\ lpc = "done" /\ transport = "tcp" => ReadersDone
  /\ bpc = "done" => ppc = "done" /\ (transport = "tcp" => lpc = "done")
  /\ apc = "done" => \A t \in Topics : spc[t] = "done"

LEMMA InitJoin == Init => JoinInv
  BY DEF Init, JoinInv, ThreadType

LEMMA JoinInvGives == JoinInv => NothingOutlives
  BY DEF JoinInv, NothingOutlives

LEMMA NextJoin == JoinInv /\ [Next]_vars => JoinInv'
  <1> SUFFICES ASSUME JoinInv, [Next]_vars PROVE JoinInv'
    OBVIOUS
  <1> USE DEF JoinInv, ThreadType, ReadersDone, config, local, subs, peerq, quic, fwd,
              stoppA, net, readers, pub, stoppB, sideA, sideB
  <1>1. ASSUME NEW t \in Topics, Publish(t) \/ Subscribe(t) \/ SubRecv(t) \/ SubSend(t)
        PROVE  JoinInv'
    BY <1>1 DEF Publish, Subscribe, SubRecv, SubSend, SubGoto, SubFrame
  <1>2. ASSUME NEW t \in Topics, SubDrop(t) PROVE JoinInv'
    BY <1>2 DEF SubDrop, SubGoto, DropLooks, DropReleases, Holders
  <1>3. CASE QueueBridgeStep \/ FwdStep
    BY <1>3 DEF QueueBridgeStep, QueueBridgePop, QueueBridgeSend, QuicFrame, FwdStep,
       Connect, WriteHello, Pop, WriteFrame, FwdFrame
  <1>4. ASSUME NEW c \in ConnIds, Break(c) \/ ReaderStep(c) PROVE JoinInv'
    BY <1>4 DEF Break, ReaderStep, ReaderStops, ReaderFrame, ReaderEnds
  <1>5. CASE Accept
    BY <1>5 DEF Accept
  <1>6. CASE JoinReaders \/ PublisherStep \/ StopA \/ StopB \/ JoinB \/ JoinA
    BY <1>6 DEF JoinReaders, PublisherStep, StopA, StopB, JoinB, JoinA
  <1>7. CASE ClearPeerTx
    BY <1>7 DEF ClearPeerTx, DropLooks, DropReleases, Holders
  <1>8. CASE UNCHANGED vars
    BY <1>8 DEF vars
  <1> QED
    BY <1>1, <1>2, <1>3, <1>4, <1>5, <1>6, <1>7, <1>8 DEF Next, SubStep, ListenerStep,
       ShutdownStepA

\* "drop ... to stop and join all threads": a shutdown that has returned has
\* left no thread behind, however many topics and connections there were and
\* wherever each thread was when the flag was set.
THEOREM ShutdownJoinsAll == Spec => []NothingOutlives
  BY InitJoin, NextJoin, JoinInvGives, PTL DEF Spec

-----------------------------------------------------------------------------
(* Sequences *)

LEMMA TailFacts ==
  ASSUME NEW S, NEW s \in Seq(S), s # <<>>
  PROVE  /\ Head(s) \in S /\ Head(s) = s[1] /\ Tail(s) \in Seq(S)
         /\ Len(s) \in Nat \ {0} /\ Len(Tail(s)) = Len(s) - 1
         /\ DOMAIN s = 1..Len(s) /\ DOMAIN Tail(s) = 1..(Len(s) - 1)
         /\ \A i \in 1..(Len(s) - 1) : Tail(s)[i] = s[i + 1]
  BY HeadTailProperties, LenProperties, EmptySeq

LEMMA AppendFacts ==
  ASSUME NEW S, NEW s \in Seq(S), NEW x \in S
  PROVE  /\ Append(s, x) \in Seq(S) /\ Len(s) \in Nat
         /\ Len(Append(s, x)) = Len(s) + 1
         /\ DOMAIN s = 1..Len(s) /\ DOMAIN Append(s, x) = 1..(Len(s) + 1)
         /\ \A i \in 1..Len(s) : Append(s, x)[i] = s[i]
         /\ Append(s, x)[Len(s) + 1] = x
  BY AppendProperties, LenProperties

LEMMA PrefixFacts ==
  ASSUME NEW S, NEW s \in Seq(S), NEW k \in 0..Len(s)
  PROVE  /\ SubSeq(s, 1, k) \in Seq(S) /\ DOMAIN SubSeq(s, 1, k) = 1..k
         /\ DOMAIN s = 1..Len(s) /\ Len(s) \in Nat
         /\ \A i \in 1..k : i \in 1..Len(s) /\ SubSeq(s, 1, k)[i] = s[i]
  <1>1. Len(s) \in Nat /\ DOMAIN s = 1..Len(s) /\ k \in Nat /\ k <= Len(s)
    BY LenProperties
  <1>2. \A i \in 1..k : i \in 1..Len(s) /\ s[i] \in S
    BY <1>1, ElementOfSeq
  <1>3. 1 \in Int /\ k \in Int
    BY <1>1
  <1>4. /\ SubSeq(s, 1, k) \in Seq(S)
        /\ Len(SubSeq(s, 1, k)) = IF 1 <= k THEN k - 1 + 1 ELSE 0
        /\ \A i \in 1..(k - 1 + 1) : SubSeq(s, 1, k)[i] = s[1 + i - 1]
    BY <1>2, <1>3, SubSeqProperties
  <1>5. Len(SubSeq(s, 1, k)) = k /\ \A i \in 1..k : SubSeq(s, 1, k)[i] = s[i]
    BY <1>1, <1>4
  <1> QED
    BY <1>1, <1>2, <1>4, <1>5, LenProperties

LEMMA EmptyFacts ==
  ASSUME NEW S
  PROVE  <<>> \in Seq(S) /\ Len(<<>>) = 0 /\ DOMAIN <<>> = {} /\ Elems(<<>>) = {}
  BY EmptySeq DEF Elems

LEMMA LeastOf ==
  ASSUME NEW S \in SUBSET Nat, NEW R,
         \E x \in S : \A y \in S : ~(<<y, x>> \in R),
         \A x, y \in Nat : <<y, x>> \in R <=> y < x
  PROVE  \E x \in S : \A y \in S : x <= y
  <1>1. PICK x \in S : \A y \in S : ~(<<y, x>> \in R)
    OBVIOUS
  <1>2. ASSUME NEW y \in S PROVE x <= y
    <2>1. x \in Nat /\ y \in Nat
      OBVIOUS
    <2>2. ~(y < x)
      BY <1>1, <2>1
    <2> QED
      BY <2>1, <2>2
  <1> QED
    BY <1>2

\* The listener accepts a connection that is there.
LEMMA MinIn ==
  ASSUME NEW S \in SUBSET Nat, S # {}
  PROVE  Min(S) \in S
  <1> DEFINE R == OpToRel(<, Nat)
  <1>1. \E x \in S : \A y \in S : ~(<<y, x>> \in R)
    BY NatLessThanWellFounded, WFMin
  <1>2. \A x, y \in Nat : <<y, x>> \in R <=> y < x
    BY DEF OpToRel
  <1> HIDE DEF R
  <1>3. \E x \in S : \A y \in S : x <= y
    BY <1>1, <1>2, LeastOf, Zenon
  <1> QED
    BY <1>3 DEF Min

-----------------------------------------------------------------------------
(* The connections *)

\* Nothing is added to a connection; something may be lost at its end.
Shortened(D, E) ==
  \A d \in DOMAIN E : \A i \in DOMAIN E[d] :
    d \in DOMAIN D /\ i \in DOMAIN D[d] /\ E[d][i] = D[d][i]

LEMMA DataFacts ==
  ASSUME conns \in Seq(Conns)
  PROVE  /\ Len(conns) \in Nat /\ DOMAIN conns = 1..Len(conns)
         /\ DOMAIN Data = 1..Len(conns)
         /\ \A c \in 1..Len(conns) : /\ Data[c] = conns[c].data
                                     /\ Data[c] \in Seq(Wire)
                                     /\ conns[c] \in Conns
  <1>1. Len(conns) \in Nat /\ DOMAIN conns = 1..Len(conns)
    BY LenProperties
  <1>2. \A c \in 1..Len(conns) : conns[c] \in Conns
    BY ElementOfSeq
  <1>3. \A c \in 1..Len(conns) : conns[c].data \in Seq(Wire)
    BY <1>2 DEF Conns
  <1> QED
    BY <1>1, <1>2, <1>3 DEF Data

LEMMA DataFactsNext ==
  ASSUME conns' \in Seq(Conns)
  PROVE  /\ DOMAIN Data' = 1..Len(conns')
         /\ \A c \in 1..Len(conns') : Data'[c] \in Seq(Wire) /\ Data'[c] = conns'[c].data
  <1>1. DOMAIN conns' = 1..Len(conns')
    BY LenProperties
  <1>2. \A c \in 1..Len(conns') : conns'[c] \in Conns
    BY ElementOfSeq
  <1>3. \A c \in 1..Len(conns') : conns'[c].data \in Seq(Wire)
    BY <1>2 DEF Conns
  <1> QED
    BY <1>1, <1>3 DEF Data

\* One connection is set to v.
LEMMA ConnSet ==
  ASSUME conns \in Seq(Conns), NEW c \in 1..Len(conns), NEW v \in Conns,
         conns' = [conns EXCEPT ![c] = v]
  PROVE  /\ conns' \in Seq(Conns) /\ Len(conns') = Len(conns)
         /\ DOMAIN Data' = DOMAIN Data /\ Data'[c] = v.data
         /\ \A d \in DOMAIN Data \ {c} : Data'[d] = Data[d]
  <1>1. /\ conns' \in Seq(Conns) /\ Len(conns') = Len(conns)
        /\ \A d \in 1..Len(conns) : conns'[d] = IF d = c THEN v ELSE conns[d]
    BY ExceptSeq
  <1>2. /\ DOMAIN conns' = 1..Len(conns) /\ DOMAIN conns = 1..Len(conns)
    BY <1>1, LenProperties
  <1> QED
    BY <1>1, <1>2 DEF Data

LEMMA WrittenFacts ==
  ASSUME conns \in Seq(Conns), fconn \in 1..Len(conns), NEW f \in Wire, Written(f)
  PROVE  /\ conns' \in Seq(Conns) /\ Len(conns') = Len(conns)
         /\ DOMAIN Data' = DOMAIN Data
         /\ \A d \in DOMAIN Data \ {fconn} : Data'[d] = Data[d]
         /\ Data'[fconn] = Data[fconn] \/ Data'[fconn] = Append(Data[fconn], f)
  <1>1. CASE ~conns[fconn].up
    <2>1. conns' = conns
      BY <1>1 DEF Written
    <2> QED
      BY <2>1 DEF Data
  <1>2. CASE conns[fconn].up
    <2> DEFINE v == [conns[fconn] EXCEPT !.data = Append(conns[fconn].data, f)]
    <2>1. Data[fconn] = conns[fconn].data /\ conns[fconn] \in Conns
      BY DataFacts
    <2>2. Append(conns[fconn].data, f) \in Seq(Wire)
      BY <2>1, DataFacts, AppendFacts
    <2>3. v \in Conns /\ v.data = Append(conns[fconn].data, f)
      BY <2>1, <2>2 DEF Conns
    <2>4. conns' = [conns EXCEPT ![fconn] = v]
      BY <1>2 DEF Written
    <2> HIDE DEF v
    <2> QED
      BY <2>1, <2>3, <2>4, ConnSet
  <1> QED
    BY <1>1, <1>2

LEMMA ClosedFacts ==
  ASSUME conns \in Seq(Conns), fconn \in {NoConn, Len(conns)}, conns' = Closed(conns)
  PROVE  conns' \in Seq(Conns) /\ Len(conns') = Len(conns) /\ Data' = Data
  <1>1. CASE fconn = NoConn
    BY <1>1 DEF Closed, Data
  <1>2. CASE fconn # NoConn
    <2> DEFINE v == [conns[fconn] EXCEPT !.eof = TRUE]
    <2>0. fconn \in 1..Len(conns)
      <3>1. Len(conns) \in Nat
        BY LenProperties
      <3> QED
        BY <1>2, <3>1 DEF NoConn
    <2>1. Data[fconn] = conns[fconn].data /\ conns[fconn] \in Conns
      BY <2>0, DataFacts
    <2>2. v \in Conns /\ v.data = conns[fconn].data
      BY <2>1 DEF Conns
    <2>3. conns' = [conns EXCEPT ![fconn] = v]
      BY <1>2 DEF Closed
    <2> HIDE DEF v
    <2>4. /\ conns' \in Seq(Conns) /\ Len(conns') = Len(conns)
          /\ DOMAIN Data' = DOMAIN Data /\ \A d \in DOMAIN Data : Data'[d] = Data[d]
      BY <2>0, <2>1, <2>2, <2>3, ConnSet
    <2> QED
      BY <2>4 DEF Data
  <1> QED
    BY <1>1, <1>2

LEMMA TookFacts ==
  ASSUME conns \in Seq(Conns), NEW c \in 1..Len(conns), conns[c].data # <<>>, Took(c)
  PROVE  /\ conns' \in Seq(Conns) /\ Len(conns') = Len(conns)
         /\ DOMAIN Data' = DOMAIN Data
         /\ \A d \in DOMAIN Data \ {c} : Data'[d] = Data[d]
         /\ Data'[c] = Tail(Data[c])
  <1> DEFINE v == [conns[c] EXCEPT !.data = Tail(conns[c].data)]
  <1>1. Data[c] = conns[c].data /\ conns[c] \in Conns /\ Data[c] \in Seq(Wire)
    BY DataFacts
  <1>2. Tail(conns[c].data) \in Seq(Wire)
    BY <1>1, TailFacts
  <1>3. v \in Conns /\ v.data = Tail(conns[c].data)
    BY <1>1, <1>2 DEF Conns
  <1>4. conns' = [conns EXCEPT ![c] = v]
    BY DEF Took
  <1> HIDE DEF v
  <1> QED
    BY <1>1, <1>3, <1>4, ConnSet

LEMMA HungUpFacts ==
  ASSUME conns \in Seq(Conns), NEW cs, conns' = HungUp(cs)
  PROVE  conns' \in Seq(Conns) /\ Len(conns') = Len(conns) /\ Shortened(Data, Data')
  <1>0. Len(conns) \in Nat /\ DOMAIN conns = 1..Len(conns)
    BY DataFacts
  <1> DEFINE e(c) == IF c \in cs THEN [conns[c] EXCEPT !.up = FALSE, !.data = <<>>]
                                 ELSE conns[c]
  <1>1. conns' = [c \in 1..Len(conns) |-> e(c)]
    BY <1>0 DEF HungUp
  <1>2. \A c \in 1..Len(conns) : e(c) \in Conns /\ e(c).data \in {conns[c].data, <<>>}
    BY DataFacts, EmptyFacts DEF Conns
  <1> HIDE DEF e
  <1>3. conns' \in Seq(Conns)
    BY <1>0, <1>1, <1>2, IsASeq
  <1>4. DOMAIN conns' = 1..Len(conns)
    BY <1>1
  <1>5. Len(conns') = Len(conns)
    BY <1>0, <1>3, <1>4, LenProperties
  <1>6. \A d \in DOMAIN Data' : d \in DOMAIN Data /\ Data'[d] \in {Data[d], <<>>}
    BY <1>0, <1>1, <1>2, <1>4 DEF Data
  <1> QED
    BY <1>3, <1>5, <1>6, EmptyFacts DEF Shortened

LEMMA BreakFacts ==
  ASSUME conns \in Seq(Conns), NEW c \in ConnIds, Break(c)
  PROVE  conns' \in Seq(Conns) /\ Len(conns') = Len(conns) /\ Shortened(Data, Data')
  <1>0. c \in 1..Len(conns)
    BY DataFacts DEF Break, ConnIds
  <1>1. Data[c] = conns[c].data /\ conns[c] \in Conns /\ Data[c] \in Seq(Wire)
    BY <1>0, DataFacts
  <1>2. PICK k \in 0..Len(conns[c].data) :
          conns' = [conns EXCEPT ![c].up = FALSE, ![c].data = SubSeq(conns[c].data, 1, k)]
    BY DEF Break
  <1> DEFINE p == SubSeq(conns[c].data, 1, k)
             v == [conns[c] EXCEPT !.up = FALSE, !.data = p]
  <1>3. /\ p \in Seq(Wire) /\ DOMAIN p = 1..k /\ DOMAIN Data[c] = 1..Len(Data[c])
        /\ \A i \in 1..k : i \in 1..Len(Data[c]) /\ p[i] = Data[c][i]
    BY <1>1, PrefixFacts
  <1>4. v \in Conns /\ v.data = p
    BY <1>1, <1>3 DEF Conns
  <1>5. conns' = [conns EXCEPT ![c] = v]
    BY <1>2
  <1> HIDE DEF v, p
  <1>6. /\ conns' \in Seq(Conns) /\ Len(conns') = Len(conns)
        /\ DOMAIN Data' = DOMAIN Data /\ Data'[c] = p
        /\ \A d \in DOMAIN Data \ {c} : Data'[d] = Data[d]
    BY <1>0, <1>4, <1>5, ConnSet
  <1> QED
    BY <1>3, <1>6 DEF Shortened

LEMMA ConnectFacts ==
  ASSUME conns \in Seq(Conns),
         conns' = Append(conns, [up |-> TRUE, eof |-> FALSE, data |-> <<>>])
  PROVE  /\ conns' \in Seq(Conns) /\ Len(conns') = Len(conns) + 1
         /\ Shortened(Data, Data') /\ Data'[Len(conns) + 1] = <<>>
         /\ conns'[Len(conns) + 1].data = <<>>
  <1> DEFINE v == [up |-> TRUE, eof |-> FALSE, data |-> <<>>]
  <1>1. v \in Conns /\ v.data = <<>>
    BY EmptyFacts DEF Conns
  <1> HIDE DEF v
  <1>2. conns' = Append(conns, v)
    BY DEF v
  <1>3. /\ conns' \in Seq(Conns) /\ Len(conns') = Len(conns) + 1 /\ Len(conns) \in Nat
        /\ DOMAIN conns = 1..Len(conns) /\ DOMAIN conns' = 1..(Len(conns) + 1)
        /\ \A i \in 1..Len(conns) : conns'[i] = conns[i]
        /\ conns'[Len(conns) + 1] = v
    BY <1>1, <1>2, AppendFacts
  <1>4. \A d \in DOMAIN Data' : \/ d \in DOMAIN Data /\ Data'[d] = Data[d]
                                \/ Data'[d] = <<>>
    BY <1>1, <1>3 DEF Data
  <1> QED
    BY <1>1, <1>3, <1>4, EmptyFacts DEF Shortened, Data

-----------------------------------------------------------------------------
(* Types *)

\* What the sender's bridge does without its connection, what it does with it,
\* and what the network and the receiver do.
SendingStep ==
  \/ \E t \in Topics : Publish(t) \/ SubStep(t)
  \/ QueueBridgeStep \/ StopA \/ ShutdownStepA

ReceivingStep ==
  \/ \E c \in ConnIds : Break(c) \/ ReaderStep(c)
  \/ ListenerStep \/ PublisherStep \/ StopB \/ JoinB

LEMMA StepCases == Next => SendingStep \/ FwdStep \/ ReceivingStep
  BY Zenon DEF Next, SendingStep, ReceivingStep

LEMMA SendingFrame ==
  ASSUME SendingStep
  PROVE  UNCHANGED <<transport, fpc, fhand, fconn, conns, rpc, authed, chan, out>>
  BY DEF SendingStep, Publish, SubStep, Subscribe, SubRecv, SubSend, SubDrop, SubFrame,
     QueueBridgeStep, QueueBridgePop, QueueBridgeSend, QuicFrame, StopA, ShutdownStepA,
     ClearPeerTx, JoinA, config, fwd, net, sideB, readers, pub

LEMMA FwdFrames ==
  ASSUME FwdStep
  PROVE  UNCHANGED <<transport, src, inbox, spc, shand, evicted, qpc, qhand,
                     rpc, authed, chan, out>>
  BY DEF FwdStep, Connect, WriteHello, Pop, WriteFrame, FwdFrame, config, local, subs,
     sideB, readers, pub

LEMMA ReceivingFrame ==
  ASSUME ReceivingStep
  PROVE  UNCHANGED <<transport, src, inbox, spc, shand, queue, evicted, qpc, qhand, tq,
                     fpc, fhand, fconn>>
  BY DEF ReceivingStep, Break, ReaderStep, ReaderStops, ReaderFrame, ListenerStep, Accept,
     JoinReaders, PublisherStep, StopB, JoinB, config, sideA, local, subs, peerq, quic, fwd

LEMMA SendFacts ==
  ASSUME queue \in Seq(Frames), NEW f \in Frames, Send(f)
  PROVE  \/ /\ queue # <<>> /\ queue' = Append(Tail(queue), f)
            /\ evicted' = evicted \cup {Head(queue)}
         \/ queue' = Append(queue, f) /\ evicted' = evicted
  <1>1. Len(queue) >= QueueMax => queue # <<>>
    <2>1. QueueMax \in Nat \ {0} /\ Len(<<>>) = 0
      BY BridgeConstantsOK, EmptyFacts
    <2> QED
      BY <2>1
  <1> QED
    BY <1>1 DEF Send

LEMMA SendingType ==
  ASSUME SenderType, SendingStep
  PROVE  SenderType'
  <1>0. UNCHANGED <<transport, fpc, fhand>>
    BY SendingFrame
  <1> USE <1>0 DEF SenderType, local, subs, peerq, quic, QuicFrame, SubGoto, SubFrame
  <1>1. ASSUME NEW t \in Topics, Publish(t) PROVE SenderType'
    <2>1. inbox[t] \in Seq(Nat \ {0}) /\ src[t] + 1 \in Nat \ {0}
      OBVIOUS
    <2>2. src' = [src EXCEPT ![t] = src[t] + 1] /\ src'[t] = src[t] + 1
      BY <1>1 DEF Publish
    <2>3. Append(inbox[t], src[t] + 1) \in Seq(Nat \ {0})
      BY <2>1, AppendFacts
    <2>4. src' \in [Topics -> Nat]
      BY <2>1, <2>2
    <2>5. inbox' \in [Topics -> Seq(Nat \ {0})]
      BY <1>1, <2>2, <2>3 DEF Publish
    <2> QED
      BY <1>1, <2>4, <2>5 DEF Publish
  <1>2. ASSUME NEW t \in Topics, Subscribe(t) PROVE SenderType'
    <2>1. inbox' \in [Topics -> Seq(Nat \ {0})]
      BY <1>2, EmptyFacts DEF Subscribe
    <2> QED
      BY <1>2, <2>1 DEF Subscribe
  <1>3. ASSUME NEW t \in Topics, SubRecv(t) PROVE SenderType'
    <2>1. CASE /\ inbox[t] # <<>> /\ SubGoto(t, "send")
               /\ shand' = [shand EXCEPT ![t] = [topic |-> t, n |-> Head(inbox[t])]]
               /\ inbox' = [inbox EXCEPT ![t] = Tail(@)]
      <3>1. Head(inbox[t]) \in Nat \ {0} /\ Tail(inbox[t]) \in Seq(Nat \ {0})
        BY <2>1, TailFacts
      <3>2. [topic |-> t, n |-> Head(inbox[t])] \in Frames
        BY <3>1 DEF Frames
      <3>3. inbox' \in [Topics -> Seq(Nat \ {0})]
        BY <2>1, <3>1
      <3>4. /\ shand' \in [Topics -> Frames \cup {NoFrame}]
            /\ \A u \in Topics \ {t} : shand'[u] = shand[u] /\ spc'[u] = spc[u]
            /\ shand'[t] = [topic |-> t, n |-> Head(inbox[t])]
        BY <2>1, <3>2
      <3>5. ASSUME NEW u \in Topics, spc'[u] = "send"
            PROVE  shand'[u] \in Frames /\ shand'[u].topic = u
        <4>1. CASE u = t
          BY <3>2, <3>4, <4>1
        <4>2. CASE u # t
          BY <3>4, <3>5, <4>2
        <4> QED
          BY <4>1, <4>2
      <3> QED
        BY <1>3, <2>1, <3>3, <3>4, <3>5 DEF SubRecv
    <2>2. CASE /\ UNCHANGED shand /\ (SubGoto(t, "drop") \/ SubGoto(t, "outer"))
               /\ inbox' = inbox \/ inbox' = [inbox EXCEPT ![t] = <<>>]
      <3>1. inbox' \in [Topics -> Seq(Nat \ {0})]
        <4>1. <<>> \in Seq(Nat \ {0})
          BY EmptyFacts
        <4> QED
          BY <2>2, <4>1
      <3> QED
        BY <1>3, <2>2, <3>1 DEF SubRecv
    <2> QED
      BY <1>3, <2>1, <2>2 DEF SubRecv
  <1>4. ASSUME NEW t \in Topics, SubSend(t) PROVE SenderType'
    <2>1. queue' \in Seq(Frames) /\ evicted' \subseteq Frames
      <3>1. shand[t] \in Frames
        BY <1>4 DEF SubSend
      <3>2. CASE closed
        BY <1>4, <3>2 DEF SubSend
      <3>3. CASE ~closed
        <4>1. Send(shand[t])
          BY <1>4, <3>3 DEF SubSend
        <4>2. CASE queue' = Append(queue, shand[t]) /\ evicted' = evicted
          BY <3>1, <4>2, AppendFacts
        <4>3. CASE /\ queue # <<>> /\ queue' = Append(Tail(queue), shand[t])
                   /\ evicted' = evicted \cup {Head(queue)}
          <5>1. Head(queue) \in Frames /\ Tail(queue) \in Seq(Frames)
            BY <4>3, TailFacts
          <5> QED
            BY <3>1, <4>3, <5>1, AppendFacts
        <4> QED
          BY <3>1, <4>1, <4>2, <4>3, SendFacts
      <3> QED
        BY <3>2, <3>3
    <2> QED
      BY <1>4, <2>1 DEF SubSend
  <1>5. ASSUME NEW t \in Topics, SubDrop(t) PROVE SenderType'
    BY <1>5 DEF SubDrop
  <1>6. CASE QueueBridgePop
    <2>1. queue # <<>> => Head(queue) \in Frames /\ Tail(queue) \in Seq(Frames)
      BY TailFacts
    <2> QED
      BY <1>6, <2>1 DEF QueueBridgePop
  <1>7. CASE QueueBridgeSend
    <2>1. tq' \in Seq(Frames)
      <3>1. qhand \in Frames
        BY <1>7 DEF QueueBridgeSend
      <3>2. Append(tq, qhand) \in Seq(Frames)
        BY <3>1, AppendFacts
      <3> QED
        BY <1>7, <3>2 DEF QueueBridgeSend
    <2> QED
      BY <1>7, <2>1 DEF QueueBridgeSend
  <1>8. CASE StopA \/ ShutdownStepA
    BY <1>8 DEF StopA, ShutdownStepA, ClearPeerTx, JoinA
  <1> QED
    BY <1>1, <1>2, <1>3, <1>4, <1>5, <1>6, <1>7, <1>8
       DEF SendingStep, SubStep, QueueBridgeStep

LEMMA FwdType ==
  ASSUME SenderType, NetType, FwdStep
  PROVE  SenderType' /\ NetType'
  <1>0. /\ UNCHANGED <<transport, src, inbox, spc, shand, evicted, qpc, qhand>>
        /\ Len(conns) \in Nat /\ conns \in Seq(Conns) /\ Len(conns) <= MaxConns
        /\ fconn \in {NoConn, Len(conns)}
    BY FwdFrames, LenProperties DEF NetType
  <1>1. ASSUME Disconnect PROVE NetType' /\ fpc' = "outer" /\ fhand' = NoFrame
    BY <1>0, <1>1, ClosedFacts DEF Disconnect, NetType, NoConn
  <1>2. CASE Connect
    <2>1. SenderType'
      BY <1>0, <1>2, EmptyFacts DEF Connect, SenderType
    <2>2. ASSUME UNCHANGED <<fconn, conns>>, fpc' \in {"done", fpc} PROVE NetType'
      BY <2>2 DEF NetType
    <2>3. ASSUME Len(conns) < MaxConns, fconn' = Len(conns'),
                 conns' = Append(conns, [up |-> TRUE, eof |-> FALSE, data |-> <<>>])
          PROVE  NetType'
      <3>1. conns' \in Seq(Conns) /\ Len(conns') = Len(conns) + 1
        BY <1>0, <2>3, ConnectFacts
      <3>2. Len(conns') <= MaxConns /\ Len(conns') # 0
        BY <1>0, <2>3, <3>1, BridgeConstantsOK
      <3> QED
        BY <2>3, <3>1, <3>2 DEF NetType, NoConn
    <2> QED
      BY <1>2, <2>1, <2>2, <2>3 DEF Connect
  <1>3. ASSUME fpc \in {"hello", "loop", "write"} PROVE fconn \in 1..Len(conns)
    BY <1>0, <1>3 DEF NetType, NoConn
  <1>4. CASE WriteHello
    <2>1. SenderType'
      BY <1>0, <1>4 DEF WriteHello, Disconnect, SenderType
    <2>2. ASSUME Written(Hello), UNCHANGED fconn PROVE NetType'
      <3>1. conns' \in Seq(Conns) /\ Len(conns') = Len(conns)
        BY <1>0, <1>3, <1>4, <2>2, WrittenFacts DEF WriteHello, Wire
      <3> QED
        BY <1>0, <1>3, <1>4, <2>2, <3>1 DEF WriteHello, NetType, NoConn
    <2> QED
      BY <1>1, <1>4, <2>1, <2>2 DEF WriteHello
  <1>5. CASE WriteFrame
    <2>1. SenderType'
      BY <1>0, <1>5 DEF WriteFrame, Disconnect, SenderType
    <2>2. ASSUME Written(fhand), UNCHANGED fconn PROVE NetType'
      <3>1. fhand \in Wire
        BY <1>5 DEF WriteFrame, SenderType, Wire
      <3>2. conns' \in Seq(Conns) /\ Len(conns') = Len(conns)
        BY <1>0, <1>3, <1>5, <2>2, <3>1, WrittenFacts DEF WriteFrame
      <3> QED
        BY <1>0, <1>3, <1>5, <2>2, <3>2 DEF WriteFrame, NetType, NoConn
    <2> QED
      BY <1>1, <1>5, <2>1, <2>2 DEF WriteFrame
  <1>6. CASE Pop
    <2>1. /\ queue # <<>> => Head(queue) \in Frames /\ Tail(queue) \in Seq(Frames)
          /\ tq # <<>> => Head(tq) \in Frames /\ Tail(tq) \in Seq(Frames)
      BY TailFacts DEF SenderType
    <2>2. SenderType'
      BY <1>0, <1>6, <2>1 DEF Pop, Disconnect, SenderType
    <2>3. ASSUME UNCHANGED <<fconn, conns>> PROVE NetType'
      BY <1>0, <1>3, <1>6, <2>3 DEF Pop, NetType, NoConn
    <2> QED
      BY <1>1, <1>6, <2>2, <2>3 DEF Pop
  <1> QED
    BY <1>2, <1>4, <1>5, <1>6 DEF FwdStep

-----------------------------------------------------------------------------
(***************************************************************************)
(* What a step does to the frames on their way: it loses some, writes one  *)
(* to the connection, reads one off it, or publishes one.                  *)
(***************************************************************************)
ChanLoses == chan' = chan \/ chan' = <<>> \/ (chan # <<>> /\ chan' = Tail(chan))

Loses == out' = out /\ ChanLoses /\ Shortened(Data, Data')

Writes(f) ==
  /\ out' = out /\ chan' = chan /\ DOMAIN Data' = DOMAIN Data
  /\ fconn \in DOMAIN Data /\ Data'[fconn] = Append(Data[fconn], f)
  /\ \A d \in DOMAIN Data \ {fconn} : Data'[d] = Data[d]

Reads(c) ==
  /\ out' = out /\ DOMAIN Data' = DOMAIN Data
  /\ c \in DOMAIN Data /\ Data[c] # <<>> /\ Data'[c] = Tail(Data[c])
  /\ \A d \in DOMAIN Data \ {c} : Data'[d] = Data[d]
  /\ \/ chan' = chan
     \/ authed[c] /\ chan' = Append(chan, On(c, Head(Data[c])))

Publishes ==
  chan # <<>> /\ chan' = Tail(chan) /\ out' = Append(out, Head(chan)) /\ Data' = Data

LEMMA DataSame ==
  ASSUME conns' = conns
  PROVE  Data' = Data /\ Shortened(Data, Data')
  BY DEF Data, Shortened

\* The forwarder writes to its own connection, the newest one.
LEMMA FwdEffect ==
  ASSUME SenderType, NetType, FwdStep
  PROVE  \/ Loses
         \/ fpc = "hello" /\ fpc' = "loop" /\ Writes(Hello)
         \/ fpc = "write" /\ fpc' = "loop" /\ fhand \in Frames /\ Writes(fhand)
  <1>0. /\ UNCHANGED <<chan, out>> /\ conns \in Seq(Conns) /\ Len(conns) \in Nat
        /\ fconn \in {NoConn, Len(conns)} /\ DOMAIN Data = 1..Len(conns)
    BY FwdFrames, DataFacts DEF NetType
  <1>1. ASSUME conns' = conns \/ conns' = Closed(conns) PROVE Loses
    <2>1. Data' = Data
      BY <1>0, <1>1, DataSame, ClosedFacts
    <2> QED
      BY <1>0, <2>1 DEF Loses, ChanLoses, Shortened
  <1>2. ASSUME fpc \in {"hello", "loop", "write"} PROVE fconn \in 1..Len(conns)
    BY <1>0, <1>2 DEF NetType, NoConn
  <1>3. ASSUME NEW f \in Wire, fpc \in {"hello", "write"}, Written(f)
        PROVE  Loses \/ Writes(f)
    <2>1. /\ DOMAIN Data' = DOMAIN Data /\ fconn \in DOMAIN Data
          /\ \A d \in DOMAIN Data \ {fconn} : Data'[d] = Data[d]
          /\ Data'[fconn] = Data[fconn] \/ Data'[fconn] = Append(Data[fconn], f)
      BY <1>0, <1>2, <1>3, WrittenFacts
    <2> QED
      BY <1>0, <2>1 DEF Loses, ChanLoses, Shortened, Writes
  <1>4. CASE Connect
    <2>1. CASE conns' = conns
      BY <1>1, <2>1
    <2>2. CASE conns' = Append(conns, [up |-> TRUE, eof |-> FALSE, data |-> <<>>])
      BY <1>0, <2>2, ConnectFacts DEF Loses, ChanLoses
    <2> QED
      BY <1>4, <2>1, <2>2 DEF Connect
  <1>5. CASE WriteHello
    BY <1>1, <1>3, <1>5 DEF WriteHello, Disconnect, Wire
  <1>6. CASE WriteFrame
    <2>1. fhand \in Frames /\ fhand \in Wire
      BY <1>6 DEF WriteFrame, SenderType, Wire
    <2> QED
      BY <1>1, <1>3, <1>6, <2>1 DEF WriteFrame, Disconnect
  <1>7. CASE Pop
    BY <1>1, <1>7 DEF Pop, Disconnect
  <1> QED
    BY <1>4, <1>5, <1>6, <1>7 DEF FwdStep


\* The first frame a reader takes is the PeerHello.
Greets(c) ==
  \/ authed[c] /\ authed' = authed
  \/ Head(Data[c]) = Hello /\ authed' = [authed EXCEPT ![c] = TRUE]

LEMMA ReceivingEffect ==
  ASSUME NetType, ReceiverType, HelloFirst, ReceivingStep
  PROVE  /\ conns' \in Seq(Conns) /\ Len(conns') = Len(conns)
         /\ \/ Loses /\ authed' = authed
            \/ Publishes /\ authed' = authed
            \/ \E c \in ConnIds : Reads(c) /\ Greets(c) /\ rpc[c] = "loop"
  <1>0. /\ conns \in Seq(Conns) /\ Len(conns) \in Nat /\ DOMAIN Data = 1..Len(conns)
        /\ \A c \in 1..Len(conns) : Data[c] = conns[c].data
    BY DataFacts DEF NetType
  <1> DEFINE SameConns == conns' \in Seq(Conns) /\ Len(conns') = Len(conns)
  <1>1. ASSUME Shortened(Data, Data'), UNCHANGED <<chan, out>> PROVE Loses
    BY <1>1 DEF Loses, ChanLoses
  <1>2. ASSUME NEW c \in ConnIds, Break(c) PROVE SameConns /\ Loses /\ authed' = authed
    BY <1>0, <1>1, <1>2, BreakFacts DEF Break, sideB, pub, readers
  <1>3. ASSUME NEW c \in ConnIds, ReaderStops(c)
        PROVE  SameConns /\ Loses /\ authed' = authed
    BY <1>0, <1>1, <1>3, HungUpFacts DEF ReaderStops, ReaderEnds, pub
  <1>4. ASSUME NEW c \in ConnIds, ReaderFrame(c)
        PROVE  /\ SameConns /\ rpc[c] = "loop"
               /\ (Loses /\ authed' = authed) \/ (Reads(c) /\ Greets(c))
    <2>1. /\ c \in 1..Len(conns) /\ conns[c].data # <<>> /\ out' = out
          /\ Data[c] = conns[c].data /\ rpc[c] = "loop"
      BY <1>0, <1>4 DEF ReaderFrame, HelloFirst, ConnIds
    <2>2. CASE ReaderEnds(c) /\ UNCHANGED <<authed, chan>>
      <3>1. SameConns /\ Shortened(Data, Data')
        BY <1>0, <2>2, HungUpFacts DEF ReaderEnds
      <3> QED
        BY <1>1, <2>1, <2>2, <3>1
    <2>3. CASE /\ Took(c)
               /\ \/ /\ ~authed[c] /\ Head(Data[c]) = Hello /\ chan' = chan
                     /\ authed' = [authed EXCEPT ![c] = TRUE]
                  \/ /\ authed[c] /\ authed' = authed
                     /\ chan' = chan \/ chan' = Append(chan, On(c, Head(Data[c])))
      <3>1. /\ SameConns /\ DOMAIN Data' = DOMAIN Data
            /\ \A d \in DOMAIN Data \ {c} : Data'[d] = Data[d]
            /\ Data'[c] = Tail(Data[c])
        BY <1>0, <2>1, <2>3, TookFacts
      <3> QED
        BY <1>0, <2>1, <2>3, <3>1 DEF Reads, Greets
    <2> QED
      BY <1>4, <2>1, <2>2, <2>3 DEF ReaderFrame, Authenticated, On
  <1>5. CASE Accept \/ StopB \/ JoinB
    BY <1>0, <1>1, <1>5, DataSame DEF Accept, StopB, JoinB, net, pub, readers
  <1>6. CASE JoinReaders
    BY <1>0, <1>1, <1>6, HungUpFacts DEF JoinReaders, pub, readers
  <1>7. CASE PublisherStep
    BY <1>0, <1>7, DataSame DEF PublisherStep, Loses, ChanLoses, Publishes, readers
  <1> QED
    BY <1>2, <1>3, <1>4, <1>5, <1>6, <1>7 DEF ReceivingStep, ReaderStep, ListenerStep

LEMMA NoElements ==
  ASSUME NEW S, NEW s \in Seq(S), DOMAIN s = {}
  PROVE  s = <<>>
  <1>1. DOMAIN s = 1..Len(s)
    BY LenProperties
  <1> QED
    BY <1>1, EmptySeq

LEMMA OffTheWire ==
  ASSUME NetType, HelloFirst, NEW c \in DOMAIN Data, NEW i \in DOMAIN Data[c]
  PROVE  /\ Data[c][i] \in Wire
         /\ authed[c] \/ i > 1 => Data[c][i] \in Frames /\ Data[c][i].n > 0
  <1>1. Data[c] \in Seq(Wire)
    BY DataFacts DEF NetType
  <1>2. i \in 1..Len(Data[c])
    BY <1>1, LenProperties
  <1>3. Data[c][i] \in Wire
    BY <1>1, <1>2, ElementOfSeq
  <1>4. authed[c] \/ i > 1 => Data[c][i].n # 0
    BY DEF HelloFirst
  <1> QED
    BY <1>3, <1>4 DEF Wire, Hello, Frames

LEMMA ReceivingType ==
  ASSUME BridgeType, HelloFirst, ReceivingStep
  PROVE  NetType' /\ ReceiverType' /\ HelloFirst'
  <1>0. /\ NetType /\ ReceiverType /\ UNCHANGED <<fpc, fconn>>
        /\ conns \in Seq(Conns) /\ conns' \in Seq(Conns) /\ Len(conns') = Len(conns)
        /\ DOMAIN Data = 1..Len(conns) /\ DOMAIN Data' = 1..Len(conns)
        /\ Len(conns) \in Nat
        /\ \A c \in DOMAIN Data : Data[c] \in Seq(Wire) /\ Data'[c] \in Seq(Wire)
    <2>1. /\ NetType /\ ReceiverType /\ UNCHANGED <<fpc, fconn>>
          /\ conns \in Seq(Conns) /\ conns' \in Seq(Conns) /\ Len(conns') = Len(conns)
      BY ReceivingFrame, ReceivingEffect DEF BridgeType, NetType
    <2>2. conns' \in Seq(Conns) => /\ DOMAIN Data' = 1..Len(conns')
                                   /\ \A c \in 1..Len(conns') : Data'[c] \in Seq(Wire)
      BY DataFactsNext
    <2> QED
      BY <2>1, <2>2, DataFacts
  <1>1. NetType'
    BY <1>0 DEF NetType
  <1>2. /\ rpc' \in [ConnIds -> {"none", "loop", "done"}]
        /\ \A c \in ConnIds : rpc'[c] = "loop" => rpc[c] = "loop" \/ c <= Len(conns)
    <2>1. CASE Accept
      <3>1. Unaccepted # {} => Min(Unaccepted) \in Unaccepted
        BY MinIn DEF Unaccepted, ConnIds
      <3>2. Unaccepted # {} => Min(Unaccepted) \in ConnIds /\ Min(Unaccepted) <= Len(conns)
        BY <3>1 DEF Unaccepted
      <3> QED
        BY <1>0, <2>1, <3>2 DEF Accept, ReceiverType
    <2>2. CASE ~Accept
      BY <1>0, <2>2 DEF ReceivingStep, Break, ReaderStep, ReaderStops, ReaderFrame,
         ReaderEnds, ListenerStep, JoinReaders, PublisherStep, StopB, JoinB, ReceiverType,
         sideB, readers
    <2> QED
      BY <2>1, <2>2
  <1>3. CASE Loses /\ authed' = authed
    <2>1. chan' \in Seq(Items)
      <3>1. chan \in Seq(Items) /\ <<>> \in Seq(Items)
        BY <1>0, EmptyFacts DEF ReceiverType
      <3>2. chan # <<>> => Tail(chan) \in Seq(Items)
        BY <3>1, TailFacts
      <3> QED
        BY <1>3, <3>1, <3>2 DEF Loses, ChanLoses
    <2>2. fpc = "hello" => Data'[fconn] = <<>>
      <3>1. fpc = "hello" => fconn \in 1..Len(conns) /\ Data[fconn] = <<>>
        BY <1>0 DEF NetType, NoConn, HelloFirst
      <3>2. fpc = "hello" => DOMAIN Data'[fconn] = {}
        BY <1>0, <1>3, <3>1, EmptyFacts DEF Loses, Shortened
      <3> QED
        BY <1>0, <3>1, <3>2, NoElements
    <2>3. \A c \in DOMAIN Data' : \A i \in DOMAIN Data'[c] :
            Data'[c][i].n = 0 => i = 1 /\ ~authed'[c]
      BY <1>3 DEF Loses, Shortened, HelloFirst
    <2> QED
      BY <1>0, <1>1, <1>2, <1>3, <2>1, <2>2, <2>3 DEF Loses, ReceiverType, HelloFirst
  <1>4. CASE Publishes /\ authed' = authed
    <2>1. chan' \in Seq(Items) /\ out' \in Seq(Items)
      BY <1>0, <1>4, TailFacts, AppendFacts DEF Publishes, ReceiverType
    <2> QED
      BY <1>0, <1>1, <1>2, <1>4, <2>1 DEF Publishes, ReceiverType, HelloFirst
  <1>5. ASSUME NEW c \in ConnIds, Reads(c), Greets(c), rpc[c] = "loop"
        PROVE  ReceiverType' /\ HelloFirst'
    <2>1. /\ c \in DOMAIN Data /\ Data[c] # <<>> /\ Data[c] \in Seq(Wire)
          /\ Head(Data[c]) = Data[c][1] /\ Len(Data[c]) \in Nat \ {0}
          /\ DOMAIN Data[c] = 1..Len(Data[c]) /\ DOMAIN Data'[c] = 1..(Len(Data[c]) - 1)
          /\ \A i \in 1..(Len(Data[c]) - 1) : Data'[c][i] = Data[c][i + 1]
      BY <1>0, <1>5, TailFacts DEF Reads
    <2>2. 1 \in DOMAIN Data[c] /\ \A i \in DOMAIN Data'[c] : i + 1 \in DOMAIN Data[c] /\ i + 1 > 1
      BY <2>1
    <2>3. chan' \in Seq(Items)
      <3>1. CASE chan' = chan
        BY <1>0, <3>1 DEF ReceiverType
      <3>2. CASE authed[c] /\ chan' = Append(chan, On(c, Head(Data[c])))
        <4>1. On(c, Head(Data[c])) \in Items
          BY <1>0, <2>1, <2>2, <3>2, OffTheWire DEF On, Items
        <4> QED
          BY <1>0, <3>2, <4>1, AppendFacts DEF ReceiverType
      <3> QED
        BY <1>5, <3>1, <3>2 DEF Reads
    <2>4. authed' \in [ConnIds -> BOOLEAN] /\ \A d \in ConnIds \ {c} : authed'[d] = authed[d]
      BY <1>0, <1>5 DEF Greets, ReceiverType
    <2>5. \A d \in ConnIds : rpc'[d] = "loop" \/ authed'[d] => d <= Len(conns)
      BY <1>0, <1>2, <1>5, <2>4 DEF HelloFirst
    <2>6. fpc = "hello" => Data'[fconn] = <<>> /\ ~authed'[fconn]
      <3>1. fpc = "hello" => fconn # c /\ fconn \in 1..Len(conns) /\ fconn \in ConnIds
        BY <1>0, <2>1 DEF HelloFirst, NetType, NoConn, ConnIds
      <3> QED
        BY <1>0, <1>5, <2>4, <3>1 DEF HelloFirst, Reads
    <2>7. ASSUME NEW d \in DOMAIN Data', NEW i \in DOMAIN Data'[d], Data'[d][i].n = 0
          PROVE  i = 1 /\ ~authed'[d]
      <3>1. CASE d = c
        BY <1>0, <2>1, <2>2, <2>7, <3>1, OffTheWire
      <3>2. CASE d # c
        <4>1. d \in ConnIds /\ d \in DOMAIN Data /\ Data'[d] = Data[d]
          <5>1. d \in 1..Len(conns) /\ Len(conns) <= MaxConns
            BY <1>0 DEF NetType
          <5>2. d \in ConnIds
            BY <1>0, <5>1, BridgeConstantsOK DEF ConnIds
          <5> QED
            BY <1>0, <1>5, <3>2, <5>2 DEF Reads
        <4> QED
          BY <2>4, <2>7, <3>2, <4>1 DEF HelloFirst
      <3> QED
        BY <3>1, <3>2
    <2> QED
      BY <1>0, <1>2, <1>5, <2>3, <2>4, <2>5, <2>6, <2>7 DEF Reads, ReceiverType, HelloFirst
  <1> QED
    BY <1>0, <1>1, <1>3, <1>4, <1>5, ReceivingEffect

LEMMA FwdHello ==
  ASSUME BridgeType, HelloFirst, FwdStep
  PROVE  HelloFirst'
  <1>0. /\ SenderType /\ NetType /\ NetType' /\ UNCHANGED <<rpc, authed>>
        /\ conns \in Seq(Conns) /\ conns' \in Seq(Conns) /\ Len(conns) \in Nat
        /\ DOMAIN Data = 1..Len(conns) /\ DOMAIN Data' = 1..Len(conns')
        /\ \A c \in 1..Len(conns) : Data[c] \in Seq(Wire)
    BY FwdFrames, FwdType, DataFacts, DataFactsNext DEF BridgeType, NetType
  <1>1. CASE Loses
    <2>1. \A c \in DOMAIN Data' : \A i \in DOMAIN Data'[c] :
            Data'[c][i].n = 0 => i = 1 /\ ~authed'[c]
      BY <1>0, <1>1 DEF Loses, Shortened, HelloFirst
    <2>2. CASE /\ conns' = Append(conns, [up |-> TRUE, eof |-> FALSE, data |-> <<>>])
               /\ fconn' = Len(conns')
      <3>1. Len(conns') = Len(conns) + 1 /\ Data'[fconn'] = <<>>
        BY <1>0, <2>2, ConnectFacts
      <3>2. fconn' \in ConnIds /\ \A c \in ConnIds : c \in Int
        BY <1>0, <2>2, <3>1, BridgeConstantsOK DEF NetType, ConnIds
      <3>3. ~authed[fconn']
        BY <1>0, <2>2, <3>1, <3>2 DEF HelloFirst
      <3>4. \A c \in ConnIds : c <= Len(conns) => c <= Len(conns')
        BY <1>0, <3>1, <3>2
      <3> QED
        BY <1>0, <2>1, <3>1, <3>3, <3>4 DEF HelloFirst
    <2>3. CASE Len(conns') = Len(conns) /\ fpc' # "hello"
      BY <1>0, <2>1, <2>3 DEF HelloFirst
    <2>4. ASSUME conns' = conns \/ conns' = Closed(conns) PROVE Len(conns') = Len(conns)
      BY <1>0, <2>4, ClosedFacts DEF NetType
    <2>5. ASSUME fconn \in 1..Len(conns), NEW f \in Wire, Written(f)
          PROVE  Len(conns') = Len(conns)
      BY <1>0, <2>5, WrittenFacts
    <2>6. fpc \in {"hello", "loop", "write"} => fconn \in 1..Len(conns)
      BY <1>0 DEF NetType, NoConn
    <2>7. fpc = "write" => fhand \in Wire
      BY <1>0 DEF SenderType, Wire
    <2>8. CASE Connect
      BY <2>2, <2>3, <2>4, <2>8 DEF Connect
    <2>9. CASE WriteHello \/ WriteFrame \/ Pop
      BY <2>3, <2>4, <2>5, <2>6, <2>7, <2>9 DEF WriteHello, WriteFrame, Pop, Disconnect,
         Wire
    <2> QED
      BY <2>8, <2>9 DEF FwdStep
  <1>2. ASSUME NEW f \in Wire, Writes(f), fpc' = "loop",
               f.n = 0 => Data[fconn] = <<>> /\ ~authed[fconn]
        PROVE  HelloFirst'
    <2>1. /\ Data[fconn] \in Seq(Wire) /\ DOMAIN Data' = DOMAIN Data
          /\ \A d \in DOMAIN Data \ {fconn} : Data'[d] = Data[d]
      BY <1>0, <1>2 DEF Writes
    <2>2. /\ DOMAIN Data'[fconn] = 1..(Len(Data[fconn]) + 1) /\ Len(Data[fconn]) \in Nat
          /\ DOMAIN Data[fconn] = 1..Len(Data[fconn])
          /\ \A i \in 1..Len(Data[fconn]) : Data'[fconn][i] = Data[fconn][i]
          /\ Data'[fconn][Len(Data[fconn]) + 1] = f
      BY <1>2, <2>1, AppendFacts DEF Writes
    <2>3. Data[fconn] = <<>> => Len(Data[fconn]) = 0
      BY EmptyFacts
    <2>4. ASSUME NEW i \in DOMAIN Data'[fconn], Data'[fconn][i].n = 0
          PROVE  i = 1 /\ ~authed[fconn]
      <3>1. CASE i \in 1..Len(Data[fconn])
        BY <1>0, <1>2, <2>2, <2>4, <3>1 DEF HelloFirst, Writes
      <3>2. CASE i = Len(Data[fconn]) + 1
        BY <1>2, <2>2, <2>3, <2>4, <3>2
      <3> QED
        BY <2>2, <2>4, <3>1, <3>2
    <2>5. 1..Len(conns') = 1..Len(conns) /\ Len(conns') \in Nat
      BY <1>0, <2>1, LenProperties
    <2>6. Len(conns') = Len(conns)
      BY <1>0, <2>5
    <2> QED
      BY <1>0, <1>2, <2>1, <2>4, <2>6 DEF HelloFirst
  <1>3. CASE fpc = "hello" /\ fpc' = "loop" /\ Writes(Hello)
    BY <1>2, <1>3 DEF Wire, HelloFirst
  <1>4. CASE fpc = "write" /\ fpc' = "loop" /\ fhand \in Frames /\ Writes(fhand)
    BY <1>2, <1>4 DEF Wire, Frames
  <1> QED
    BY <1>0, <1>1, <1>3, <1>4, FwdEffect

LEMMA NextType == BridgeType /\ HelloFirst /\ [Next]_vars => BridgeType' /\ HelloFirst'
  <1> SUFFICES ASSUME BridgeType, HelloFirst, [Next]_vars PROVE BridgeType' /\ HelloFirst'
    OBVIOUS
  <1> USE DEF BridgeType
  <1>1. CASE SendingStep
    BY <1>1, SendingFrame, SendingType DEF NetType, ReceiverType, HelloFirst, Data
  <1>2. CASE FwdStep
    <2>1. ReceiverType'
      BY <1>2, FwdFrames DEF ReceiverType
    <2> QED
      BY <1>2, <2>1, FwdType, FwdHello
  <1>3. CASE ReceivingStep
    <2>1. SenderType'
      BY <1>3, ReceivingFrame DEF SenderType
    <2> QED
      BY <1>3, <2>1, ReceivingType
  <1>4. CASE UNCHANGED vars
    BY <1>4 DEF SenderType, NetType, ReceiverType, HelloFirst, Data, vars, config, sideA,
       local, subs, peerq, quic, fwd, net, sideB, readers, pub
  <1> QED
    BY <1>1, <1>2, <1>3, <1>4, StepCases

LEMMA InitType == Init => BridgeType /\ HelloFirst
  <1> SUFFICES ASSUME Init PROVE BridgeType /\ HelloFirst
    OBVIOUS
  <1>1. /\ <<>> \in Seq(Frames) /\ <<>> \in Seq(Nat \ {0}) /\ <<>> \in Seq(Conns)
        /\ <<>> \in Seq(Items) /\ Len(<<>>) = 0 /\ DOMAIN <<>> = {}
    BY EmptyFacts
  <1>2. transport \in {"tcp", "quic"}
    BY BridgeConstantsOK DEF Init
  <1>3. SenderType
    BY <1>1, <1>2 DEF Init, SenderType
  <1>4. NetType /\ ReceiverType
    BY <1>1, BridgeConstantsOK DEF Init, NetType, ReceiverType
  <1>5. HelloFirst
    BY <1>1 DEF Init, HelloFirst, Data
  <1> QED
    BY <1>3, <1>4, <1>5 DEF BridgeType

-----------------------------------------------------------------------------
(* Downstream *)

LEMMA DownLoses ==
  ASSUME NEW o, NEW ch \in Seq(Items), NEW b, NEW D, NEW E, DownOK(o, ch, D),
         b = ch \/ b = <<>> \/ (ch # <<>> /\ b = Tail(ch)),
         Shortened(D, E), DOMAIN D \subseteq DOMAIN E
  PROVE  DownOK(o, b, E)
  <1>1. /\ \A i \in DOMAIN b : i \in Int
        /\ \E k \in {0, 1} : \A i \in DOMAIN b : i + k \in DOMAIN ch /\ b[i] = ch[i + k]
    <2>1. CASE b = ch
      <3>1. \A i \in DOMAIN ch : i \in Int /\ i + 0 = i
        BY LenProperties
      <3> QED
        BY <2>1, <3>1
    <2>2. CASE b = <<>>
      BY <2>2, EmptyFacts
    <2>3. CASE ch # <<>> /\ b = Tail(ch)
      <3>1. /\ DOMAIN b = 1..(Len(ch) - 1) /\ Len(ch) \in Nat /\ DOMAIN ch = 1..Len(ch)
            /\ \A i \in 1..(Len(ch) - 1) : b[i] = ch[i + 1]
        BY <2>3, TailFacts
      <3> QED
        BY <3>1
    <2> QED
      BY <2>1, <2>2, <2>3
  <1>2. PICK k \in {0, 1} : \A i \in DOMAIN b : i + k \in DOMAIN ch /\ b[i] = ch[i + k]
    BY <1>1
  <1>3. \A i, j \in DOMAIN b : i < j => i + k < j + k
    BY <1>1, <1>2
  <1> HIDE DEF Apart, On, Before
  <1>4. \A i, j \in DOMAIN b : i < j => Apart(b[i], b[j])
    BY <1>2, <1>3 DEF DownOK
  <1>5. \A i \in DOMAIN b : b[i].conn \in DOMAIN E
    BY <1>2 DEF DownOK
  <1>6. \A c \in DOMAIN E : \A j \in DOMAIN E[c] :
          E[c][j].n > 0 => \A i \in DOMAIN b : Apart(b[i], On(c, E[c][j]))
    BY <1>2 DEF DownOK, Shortened
  <1> QED
    BY <1>2, <1>4, <1>5, <1>6 DEF DownOK, Shortened

LEMMA DownWrites ==
  ASSUME NEW o \in Seq(Items), NEW ch \in Seq(Items), NEW D, NEW E, NEW f \in Wire,
         NEW c \in DOMAIN D, DownOK(o, ch, D),
         \A d \in DOMAIN D : D[d] \in Seq(Wire) /\ d \in Int /\ d <= c,
         DOMAIN E = DOMAIN D, E[c] = Append(D[c], f),
         \A d \in DOMAIN D \ {c} : E[d] = D[d],
         \A i \in DOMAIN o : Before(o[i].f, f), \A i \in DOMAIN ch : Before(ch[i].f, f),
         \A d \in DOMAIN D : \A i \in DOMAIN D[d] : Before(D[d][i], f)
  PROVE  DownOK(o, ch, E)
  <1> DEFINE m == Len(D[c]) + 1
  <1>1. /\ DOMAIN D[c] = 1..Len(D[c]) /\ DOMAIN E[c] = 1..m /\ Len(D[c]) \in Nat
        /\ \A i \in 1..Len(D[c]) : E[c][i] = D[c][i]
        /\ E[c][m] = f
    BY AppendFacts
  <1>2. ASSUME NEW d \in DOMAIN E, NEW i \in DOMAIN E[d]
        PROVE  \/ i \in DOMAIN D[d] /\ E[d][i] = D[d][i]
               \/ d = c /\ i = m /\ E[d][i] = f
    <2>1. CASE d = c
      BY <1>1, <1>2, <2>1
    <2>2. CASE d # c
      BY <1>2, <2>2
    <2> QED
      BY <2>1, <2>2
  <1>3. \A i \in DOMAIN D[c] : i < m
    BY <1>1
  <1>4. ASSUME NEW x \in Items, Before(x.f, f), x.conn \in DOMAIN D, f.n > 0
        PROVE  Apart(x, On(c, f))
    <2>1. x.f.n > 0 /\ x.conn <= c
      BY <1>4 DEF Items, Frames
    <2> QED
      BY <1>4, <2>1 DEF Apart, On, Before
  <1>5. /\ \A i \in DOMAIN o : o[i] \in Items /\ o[i].conn \in DOMAIN D
        /\ \A i \in DOMAIN ch : ch[i] \in Items /\ ch[i].conn \in DOMAIN D
    <2>1. \A i \in DOMAIN o : o[i] \in Items
      BY LenProperties, ElementOfSeq
    <2>2. \A i \in DOMAIN ch : ch[i] \in Items
      BY LenProperties, ElementOfSeq
    <2> QED
      BY <2>1, <2>2 DEF DownOK
  <1>6. ASSUME NEW d \in DOMAIN E, NEW j \in DOMAIN E[d], E[d][j].n > 0
        PROVE  /\ \A i \in DOMAIN o : Apart(o[i], On(d, E[d][j]))
               /\ \A i \in DOMAIN ch : Apart(ch[i], On(d, E[d][j]))
    <2>1. CASE j \in DOMAIN D[d] /\ E[d][j] = D[d][j]
      BY <1>6, <2>1 DEF DownOK
    <2>2. CASE d = c /\ E[d][j] = f
      BY <1>4, <1>5, <1>6, <2>2
    <2> QED
      BY <1>2, <1>6, <2>1, <2>2
  <1>7. ASSUME NEW d \in DOMAIN E, NEW e \in DOMAIN E, NEW i \in DOMAIN E[d],
               NEW j \in DOMAIN E[e], d < e \/ (d = e /\ i < j)
        PROVE  Before(E[d][i], E[e][j])
    <2>1. CASE j \in DOMAIN D[e] /\ E[e][j] = D[e][j]
      <3>1. ~(d = c /\ i = m)
        BY <1>1, <1>7, <2>1
      <3>2. i \in DOMAIN D[d] /\ E[d][i] = D[d][i]
        BY <1>2, <1>7, <3>1
      <3> QED
        BY <1>7, <2>1, <3>2 DEF DownOK
    <2>2. CASE e = c /\ j = m /\ E[e][j] = f
      <3>1. ~(d = c /\ i = m)
        BY <1>1, <1>7, <2>2
      <3>2. i \in DOMAIN D[d] /\ E[d][i] = D[d][i]
        BY <1>2, <1>7, <3>1
      <3> QED
        BY <1>7, <2>2, <3>2
    <2> QED
      BY <1>2, <1>7, <2>1, <2>2
  <1> QED
    BY <1>6, <1>7 DEF DownOK

LEMMA DownReads ==
  ASSUME NEW o \in Seq(Items), NEW ch \in Seq(Items), NEW b, NEW D, NEW E,
         NEW c \in DOMAIN D, D[c] \in Seq(Wire), D[c] # <<>>, DownOK(o, ch, D),
         \A d \in DOMAIN D : d \in Int,
         DOMAIN E = DOMAIN D, E[c] = Tail(D[c]),
         \A d \in DOMAIN D \ {c} : E[d] = D[d],
         \/ b = ch
         \/ b = Append(ch, On(c, D[c][1])) /\ D[c][1].n > 0 /\ On(c, D[c][1]) \in Items
  PROVE  DownOK(o, b, E)
  <1>1. /\ DOMAIN D[c] = 1..Len(D[c]) /\ DOMAIN E[c] = 1..(Len(D[c]) - 1)
        /\ Len(D[c]) \in Nat \ {0}
        /\ \A i \in 1..(Len(D[c]) - 1) : E[c][i] = D[c][i + 1]
    BY TailFacts
  <1>2. DownOK(o, ch, E)
    <2>1. \A i \in DOMAIN E[c] : i \in Int /\ i + 1 \in DOMAIN D[c] /\ E[c][i] = D[c][i + 1]
      BY <1>1
    <2>2. \A i, j \in DOMAIN E[c] : i < j => i + 1 < j + 1
      BY <2>1
    <2>3. ASSUME NEW d \in DOMAIN E, NEW j \in DOMAIN E[d], E[d][j].n > 0
          PROVE  /\ \A i \in DOMAIN o : Apart(o[i], On(d, E[d][j]))
                 /\ \A i \in DOMAIN ch : Apart(ch[i], On(d, E[d][j]))
      <3>1. CASE d = c
        BY <2>1, <2>3, <3>1 DEF DownOK
      <3>2. CASE d # c
        BY <2>3, <3>2 DEF DownOK
      <3> QED
        BY <3>1, <3>2
    <2>4. ASSUME NEW d \in DOMAIN E, NEW e \in DOMAIN E, NEW i \in DOMAIN E[d],
                 NEW j \in DOMAIN E[e], d < e \/ (d = e /\ i < j)
          PROVE  Before(E[d][i], E[e][j])
      <3>1. CASE d = c /\ e = c
        BY <2>1, <2>2, <2>4, <3>1 DEF DownOK
      <3>2. CASE d = c /\ e # c
        BY <2>1, <2>4, <3>2 DEF DownOK
      <3>3. CASE d # c /\ e = c
        BY <2>1, <2>4, <3>3 DEF DownOK
      <3>4. CASE d # c /\ e # c
        BY <2>4, <3>4 DEF DownOK
      <3> QED
        BY <3>1, <3>2, <3>3, <3>4
    <2> QED
      BY <2>3, <2>4 DEF DownOK
  <1>3. CASE b = ch
    BY <1>2, <1>3
  <1>4. CASE b = Append(ch, On(c, D[c][1])) /\ D[c][1].n > 0 /\ On(c, D[c][1]) \in Items
    <2> DEFINE x == On(c, D[c][1])
               m == Len(ch) + 1
    <2>1. /\ DOMAIN ch = 1..Len(ch) /\ DOMAIN b = 1..m /\ Len(ch) \in Nat
          /\ \A i \in 1..Len(ch) : b[i] = ch[i]
          /\ b[m] = x
      BY <1>4, AppendFacts
    <2>2. 1 \in DOMAIN D[c]
      BY <1>1
    <2>3. x.conn = c /\ x.f = D[c][1] /\ x.f.n > 0
      BY <1>4 DEF On
    <2>4. \A i \in DOMAIN b : (i \in DOMAIN ch /\ b[i] = ch[i]) \/ (i = m /\ b[i] = x)
      BY <2>1
    <2>5. \A i \in DOMAIN b : i = m \/ (i \in DOMAIN ch /\ i < m)
      BY <2>1
    <2>6. /\ \A i \in DOMAIN o : Apart(o[i], x)
          /\ \A i \in DOMAIN ch : Apart(ch[i], x)
      BY <1>4, <2>2 DEF DownOK
    <2>7. ASSUME NEW d \in DOMAIN E, NEW j \in DOMAIN E[d], E[d][j].n > 0
          PROVE  Apart(x, On(d, E[d][j]))
      <3>1. CASE d = c
        <4>1. j + 1 \in DOMAIN D[c] /\ 1 < j + 1 /\ E[c][j] = D[c][j + 1]
          BY <1>1, <2>7, <3>1
        <4>2. Before(D[c][1], D[c][j + 1])
          BY <2>2, <4>1 DEF DownOK
        <4> QED
          BY <2>3, <2>7, <3>1, <4>1, <4>2 DEF Apart, On, Before
      <3>2. CASE d # c
        <4>1. j \in DOMAIN D[d] /\ E[d][j] = D[d][j] /\ d \in DOMAIN D
          BY <2>7, <3>2
        <4>2. /\ c < d => Before(D[c][1], D[d][j])
              /\ d < c => Before(D[d][j], D[c][1])
          BY <2>2, <4>1 DEF DownOK
        <4>3. c < d \/ d < c
          BY <3>2, <4>1
        <4> QED
          BY <2>3, <2>7, <4>1, <4>2, <4>3 DEF Apart, On, Before
      <3> QED
        BY <3>1, <3>2
    <2> HIDE DEF x, m
    <2>8. \A i, j \in DOMAIN b : i < j => Apart(b[i], b[j])
      <3> SUFFICES ASSUME NEW i \in DOMAIN b, NEW j \in DOMAIN b, i < j
                   PROVE  Apart(b[i], b[j])
        OBVIOUS
      <3>1. i \in DOMAIN ch /\ b[i] = ch[i]
        BY <2>1 DEF m
      <3>2. CASE j \in DOMAIN ch /\ b[j] = ch[j]
        BY <3>1, <3>2 DEF DownOK
      <3>3. CASE b[j] = x
        BY <2>6, <3>1, <3>3
      <3> QED
        BY <2>4, <3>2, <3>3
    <2> QED
      BY <1>2, <2>3, <2>4, <2>6, <2>7, <2>8 DEF DownOK
  <1> QED
    BY <1>3, <1>4

LEMMA DownPublishes ==
  ASSUME NEW o \in Seq(Items), NEW ch \in Seq(Items), NEW D, ch # <<>>, DownOK(o, ch, D)
  PROVE  DownOK(Append(o, Head(ch)), Tail(ch), D)
  <1> DEFINE x == Head(ch)
             p == Append(o, x)
             b == Tail(ch)
             m == Len(o) + 1
  <1>1. /\ x \in Items /\ x = ch[1] /\ Len(ch) \in Nat \ {0} /\ DOMAIN ch = 1..Len(ch)
        /\ DOMAIN b = 1..(Len(ch) - 1) /\ \A i \in 1..(Len(ch) - 1) : b[i] = ch[i + 1]
    BY TailFacts
  <1>2. /\ DOMAIN o = 1..Len(o) /\ DOMAIN p = 1..m /\ Len(o) \in Nat
        /\ \A i \in 1..Len(o) : p[i] = o[i]
        /\ p[m] = x
    BY <1>1, AppendFacts
  <1> HIDE DEF x, p, b
  <1>3. /\ 1 \in DOMAIN ch
        /\ \A i \in DOMAIN b : i \in Int /\ i + 1 \in DOMAIN ch /\ 1 < i + 1 /\ b[i] = ch[i + 1]
    BY <1>1
  <1>4. \A i \in DOMAIN p : (i \in DOMAIN o /\ p[i] = o[i]) \/ (i = m /\ p[i] = x)
    BY <1>2
  <1>5. \A i, j \in DOMAIN p : i < j => i \in DOMAIN o /\ p[i] = o[i]
    BY <1>2
  <1>6. \A i, j \in DOMAIN b : i < j => i + 1 < j + 1
    BY <1>3
  <1>7. \A i, j \in DOMAIN p : i < j => Apart(p[i], p[j])
    <2> SUFFICES ASSUME NEW i \in DOMAIN p, NEW j \in DOMAIN p, i < j
                 PROVE  Apart(p[i], p[j])
      OBVIOUS
    <2>1. i \in DOMAIN o /\ p[i] = o[i]
      BY <1>5
    <2>2. CASE j \in DOMAIN o /\ p[j] = o[j]
      BY <2>1, <2>2 DEF DownOK
    <2>3. CASE p[j] = x
      BY <1>1, <1>3, <2>1, <2>3 DEF DownOK
    <2> QED
      BY <1>4, <2>2, <2>3
  <1>8. \A i, j \in DOMAIN b : i < j => Apart(b[i], b[j])
    BY <1>3, <1>6 DEF DownOK
  <1>9. \A i \in DOMAIN p : \A j \in DOMAIN b : Apart(p[i], b[j])
    BY <1>1, <1>3, <1>4 DEF DownOK
  <1>10. ASSUME NEW c \in DOMAIN D, NEW j \in DOMAIN D[c], D[c][j].n > 0
         PROVE  /\ \A i \in DOMAIN p : Apart(p[i], On(c, D[c][j]))
                /\ \A i \in DOMAIN b : Apart(b[i], On(c, D[c][j]))
    BY <1>1, <1>3, <1>4, <1>10 DEF DownOK
  <1>11. /\ \A i \in DOMAIN p : p[i].conn \in DOMAIN D
         /\ \A i \in DOMAIN b : b[i].conn \in DOMAIN D
    BY <1>1, <1>3, <1>4 DEF DownOK
  <1>12. DownOK(p, b, D)
    BY <1>7, <1>8, <1>9, <1>10, <1>11 DEF DownOK
  <1> QED
    BY <1>12 DEF p, b, x

-----------------------------------------------------------------------------
(* Upstream *)

LEMMA LineShrinks ==
  ASSUME NEW S, NEW T, NEW ev, NEW s, UpOK(S, ev, s), \A k \in 1..7 : T[k] \subseteq S[k]
  PROVE  UpOK(T, ev, s)
  <1>1. \A k \in 5..7 : k \in 1..7
    OBVIOUS
  <1> QED
    BY <1>1 DEF UpOK, LineOK, AllBefore

\* The PeerHello is no message.
LEMMA LineGreets ==
  ASSUME NEW S, NEW T, NEW ev, NEW s, UpOK(S, ev, s), T[1] \subseteq S[1] \cup {Hello},
         \A k \in 2..7 : T[k] \subseteq S[k]
  PROVE  UpOK(T, ev, s)
  <1>1. \A f : Before(Hello, f) /\ Known(Hello, s)
    BY DEF Before, Known, Hello
  <1>2. ASSUME NEW j \in 1..7, NEW k \in 1..7, j < k PROVE AllBefore(T[j], T[k])
    <2>1. T[k] \subseteq S[k] /\ T[j] \subseteq S[j] \cup {Hello}
      BY <1>2
    <2> QED
      BY <1>1, <1>2, <2>1 DEF UpOK, LineOK, AllBefore
  <1>3. \A k \in 5..7 : k \in 2..7
    OBVIOUS
  <1>4. \A k \in 1..7 : T[k] \subseteq S[k] \cup {Hello}
    OBVIOUS
  <1>5. \A k \in 5..7 : AllBefore(ev, T[k])
    BY <1>3 DEF UpOK, AllBefore
  <1>6. \A k \in 1..7 : \A f \in T[k] : Known(f, s)
    BY <1>1, <1>4 DEF UpOK
  <1> QED
    BY <1>2, <1>5, <1>6 DEF UpOK, LineOK

\* The oldest frame of a stage moves on, over stages that are empty.
LEMMA LineMoves ==
  ASSUME NEW S, NEW T, NEW ev, NEW s, UpOK(S, ev, s),
         NEW from \in 1..7, NEW to \in 1..7, to < from, NEW f \in S[from],
         \A k \in 1..7 : k # to => T[k] \subseteq S[k],
         T[to] \subseteq S[to] \cup {f},
         \A k \in 1..7 : to < k /\ k < from => T[k] = {},
         \A g \in T[from] : Before(f, g)
  PROVE  UpOK(T, ev, s)
  <1>1. ASSUME NEW j \in 1..7, NEW k \in 1..7, j < k, NEW a \in T[j], NEW b \in T[k]
        PROVE  Before(a, b)
    <2>1. CASE a \in S[j] /\ b \in S[k]
      BY <1>1, <2>1 DEF UpOK, LineOK, AllBefore
    <2>2. CASE k = to /\ b = f
      <3>1. j < from /\ a \in S[j]
        BY <1>1, <2>2
      <3> QED
        BY <2>2, <3>1 DEF UpOK, LineOK, AllBefore
    <2>3. CASE j = to /\ a = f
      <3>1. CASE k < from
        BY <1>1, <2>3, <3>1
      <3>2. CASE k = from
        BY <1>1, <2>3, <3>2
      <3>3. CASE k > from
        <4>1. b \in S[k]
          BY <1>1, <2>3
        <4> QED
          BY <2>3, <3>3, <4>1 DEF UpOK, LineOK, AllBefore
      <3> QED
        BY <3>1, <3>2, <3>3
    <2> QED
      BY <1>1, <2>1, <2>2, <2>3
  <1>2. ASSUME NEW k \in 5..7 PROVE AllBefore(ev, T[k])
    <2>1. k \in 1..7 /\ (k = to => from \in 5..7)
      OBVIOUS
    <2> QED
      BY <2>1 DEF UpOK, AllBefore
  <1>3. \A k \in 1..7 : \A g \in T[k] : Known(g, s)
    BY DEF UpOK
  <1> QED
    BY <1>1, <1>2, <1>3 DEF UpOK, LineOK, AllBefore

\* The oldest frame of the queue is thrown out.
LEMMA LineEvicts ==
  ASSUME NEW S, NEW T, NEW ev, NEW s, UpOK(S, ev, s), NEW f \in S[5],
         \A k \in 1..7 : T[k] \subseteq S[k], \A g \in T[5] : Before(f, g)
  PROVE  UpOK(T, ev \cup {f}, s)
  <1>1. UpOK(T, ev, s)
    BY LineShrinks
  <1>2. ASSUME NEW k \in 5..7, NEW g \in T[k] PROVE Before(f, g)
    <2>1. CASE k = 5
      BY <1>2, <2>1
    <2>2. CASE k > 5
      <3>1. k \in 1..7 /\ 5 \in 1..7 /\ g \in S[k]
        BY <1>2
      <3> QED
        BY <2>2, <3>1 DEF UpOK, LineOK, AllBefore
    <2> QED
      BY <2>1, <2>2
  <1>3. Known(f, s)
    BY DEF UpOK
  <1> QED
    BY <1>1, <1>2, <1>3 DEF UpOK, AllBefore

\* A new frame is newer than everything that was published before.
LEMMA NewerThanAll ==
  ASSUME NEW t \in Topics, NEW f, f = [topic |-> t, n |-> src[t] + 1],
         src \in [Topics -> Nat], src' = [src EXCEPT ![t] = src[t] + 1]
  PROVE  /\ \A x \in Frames \cup {Hello} : Known(x, src) => Before(x, f) /\ Known(x, src')
         /\ Known(f, src')
  <1>1. ASSUME NEW x \in Frames \cup {Hello}, Known(x, src)
        PROVE  Before(x, f) /\ Known(x, src')
    <2>1. CASE x.n > 0
      <3>1. x.topic \in Topics /\ x.n <= src[x.topic] /\ x.n \in Nat
        BY <1>1, <2>1 DEF Known, Frames, Hello
      <3>2. src[x.topic] <= src'[x.topic] /\ src[x.topic] \in Nat /\ src'[x.topic] \in Nat
        BY <3>1
      <3> QED
        BY <3>1, <3>2 DEF Before, Known
    <2>2. CASE ~(x.n > 0)
      BY <2>2 DEF Before, Known
    <2> QED
      BY <2>1, <2>2
  <1>2. Known(f, src')
    BY DEF Known
  <1> QED
    BY <1>1, <1>2

LEMMA LineGrows ==
  ASSUME NEW S, NEW T, NEW ev, NEW s, NEW z, NEW f, UpOK(S, ev, s), Known(f, z),
         \A k \in 1..7 : \A x \in S[k] : Before(x, f) /\ Known(x, z),
         \A x \in ev : Before(x, f) /\ Known(x, z),
         \A k \in 1..6 : T[k] \subseteq S[k], T[7] \subseteq S[7] \cup {f}
  PROVE  UpOK(T, ev, z)
  <1>1. \A k \in 1..7 : T[k] \subseteq S[k] \cup {f}
    OBVIOUS
  <1>2. ASSUME NEW j \in 1..7, NEW k \in 1..7, j < k PROVE AllBefore(T[j], T[k])
    <2>1. T[j] \subseteq S[j] /\ T[k] \subseteq S[k] \cup {f}
      BY <1>1, <1>2
    <2> QED
      BY <1>2, <2>1 DEF UpOK, LineOK, AllBefore
  <1>3. ASSUME NEW k \in 5..7 PROVE AllBefore(ev, T[k])
    <2>1. T[k] \subseteq S[k] \cup {f}
      BY <1>1
    <2> QED
      BY <2>1 DEF UpOK, AllBefore
  <1>4. ASSUME NEW k \in 1..7, NEW x \in T[k] PROVE Known(x, z)
    BY <1>1, <1>4
  <1> QED
    BY <1>2, <1>3, <1>4 DEF UpOK, LineOK

LEMMA StageList ==
  /\ Stages[1] = Flown /\ Stages[2] = Hand(fpc = "write", fhand)
  /\ Stages[3] = Elems(tq) /\ Stages[4] = Hand(qpc = "send", qhand)
  /\ Stages[5] = Elems(queue) /\ Stages[6] = InHand /\ Stages[7] = Unread
  BY DEF Stages

LEMMA StageListNext ==
  /\ Stages'[1] = Flown' /\ Stages'[2] = Hand(fpc' = "write", fhand')
  /\ Stages'[3] = Elems(tq') /\ Stages'[4] = Hand(qpc' = "send", qhand')
  /\ Stages'[5] = Elems(queue') /\ Stages'[6] = InHand' /\ Stages'[7] = Unread'
  BY DEF Stages, Hand

LEMMA ElemsOfTail ==
  ASSUME NEW s \in Seq(Frames), s # <<>>, Sorted(s)
  PROVE  /\ Head(s) \in Elems(s) /\ Elems(Tail(s)) \subseteq Elems(s)
         /\ Sorted(Tail(s)) /\ \A g \in Elems(Tail(s)) : Before(Head(s), g)
  <1> DEFINE t == Tail(s)
  <1>1. /\ Head(s) = s[1] /\ Len(s) \in Nat \ {0} /\ DOMAIN s = 1..Len(s)
        /\ DOMAIN t = 1..(Len(s) - 1) /\ \A i \in 1..(Len(s) - 1) : t[i] = s[i + 1]
    BY TailFacts
  <1> HIDE DEF t
  <1>2. /\ 1 \in DOMAIN s
        /\ \A i \in DOMAIN t : i \in Int /\ i + 1 \in DOMAIN s /\ 1 < i + 1 /\ t[i] = s[i + 1]
    BY <1>1
  <1>3. \A i, j \in DOMAIN t : i < j => i + 1 < j + 1
    BY <1>2
  <1>4. Head(s) \in Elems(s) /\ Elems(t) \subseteq Elems(s)
    BY <1>1, <1>2 DEF Elems
  <1>5. Sorted(t)
    BY <1>2, <1>3 DEF Sorted
  <1>6. \A g \in Elems(t) : Before(Head(s), g)
    BY <1>1, <1>2 DEF Sorted, Elems
  <1> QED
    BY <1>4, <1>5, <1>6 DEF t

LEMMA ElemsOfAppend ==
  ASSUME NEW s \in Seq(Frames), NEW x \in Frames
  PROVE  /\ Elems(Append(s, x)) \subseteq Elems(s) \cup {x}
         /\ Sorted(s) /\ (\A g \in Elems(s) : Before(g, x)) => Sorted(Append(s, x))
  <1> DEFINE t == Append(s, x)
             m == Len(s) + 1
  <1>1. /\ DOMAIN s = 1..Len(s) /\ DOMAIN t = 1..m /\ Len(s) \in Nat
        /\ \A i \in 1..Len(s) : t[i] = s[i]
        /\ t[m] = x
    BY AppendFacts
  <1> HIDE DEF t
  <1>2. \A i \in DOMAIN t : (i \in DOMAIN s /\ t[i] = s[i]) \/ t[i] = x
    BY <1>1
  <1>3. \A i, j \in DOMAIN t : i < j => i \in DOMAIN s /\ t[i] = s[i]
    BY <1>1
  <1>4. Elems(t) \subseteq Elems(s) \cup {x}
    BY <1>2 DEF Elems
  <1>5. ASSUME Sorted(s), \A g \in Elems(s) : Before(g, x),
               NEW i \in DOMAIN t, NEW j \in DOMAIN t, i < j
        PROVE  Before(t[i], t[j])
    <2>1. i \in DOMAIN s /\ t[i] = s[i]
      BY <1>3, <1>5
    <2>2. CASE j \in DOMAIN s /\ t[j] = s[j]
      BY <1>5, <2>1, <2>2 DEF Sorted
    <2>3. CASE t[j] = x
      BY <1>5, <2>1, <2>3 DEF Elems
    <2> QED
      BY <1>2, <2>2, <2>3
  <1>6. Sorted(s) /\ (\A g \in Elems(s) : Before(g, x)) => Sorted(t)
    BY <1>5 DEF Sorted
  <1> QED
    BY <1>4, <1>6 DEF t

\* Everything on its way is a frame or a PeerHello.
LEMMA StageTypes ==
  ASSUME BridgeType
  PROVE  /\ \A k \in 1..6 : Stages[k] \subseteq Frames \cup {Hello}
         /\ Stages[7] \subseteq Frames
  <1> USE DEF BridgeType
  <1>1. Elems(tq) \subseteq Frames /\ Elems(queue) \subseteq Frames
    <2>1. \A s \in Seq(Frames) : Elems(s) \subseteq Frames
      BY LenProperties, ElementOfSeq DEF Elems
    <2> QED
      BY <2>1 DEF SenderType
  <1>2. /\ Hand(fpc = "write", fhand) \subseteq Frames
        /\ Hand(qpc = "send", qhand) \subseteq Frames
    BY DEF SenderType, Hand
  <1>3. Flown \subseteq Frames \cup {Hello}
    <2>1. \A s \in Seq(Items) : \A i \in DOMAIN s : s[i].f \in Frames
      <3>1. \A s \in Seq(Items) : \A i \in DOMAIN s : s[i] \in Items
        BY LenProperties, ElementOfSeq
      <3> QED
        BY <3>1 DEF Items
    <2>2. \A s \in Seq(Wire) : Elems(s) \subseteq Wire
      BY LenProperties, ElementOfSeq DEF Elems
    <2>3. \A c \in DOMAIN Data : Elems(Data[c]) \subseteq Wire
      BY <2>2, DataFacts DEF NetType
    <2>4. out \in Seq(Items) /\ chan \in Seq(Items)
      BY DEF ReceiverType
    <2> QED
      BY <2>1, <2>3, <2>4 DEF Flown, Wire
  <1>4. InHand \subseteq Frames /\ Unread \subseteq Frames
    BY DEF InHand, Unread
  <1> QED
    BY <1>1, <1>2, <1>3, <1>4, StageList

LEMMA FlownLoses ==
  ASSUME ReceiverType, Loses
  PROVE  Flown' \subseteq Flown
  <1>1. \A i \in DOMAIN chan' : \E j \in DOMAIN chan : chan'[i] = chan[j]
    <2>1. CASE chan' = chan
      BY <2>1
    <2>2. CASE chan' = <<>>
      BY <2>2, EmptyFacts
    <2>3. CASE chan # <<>> /\ chan' = Tail(chan)
      <3>1. /\ DOMAIN chan' = 1..(Len(chan) - 1) /\ DOMAIN chan = 1..Len(chan)
            /\ Len(chan) \in Nat
            /\ \A i \in 1..(Len(chan) - 1) : chan'[i] = chan[i + 1]
        BY <2>3, TailFacts DEF ReceiverType
      <3>2. \A i \in DOMAIN chan' : i + 1 \in DOMAIN chan
        BY <3>1
      <3> QED
        BY <3>1, <3>2
    <2> QED
      BY <2>1, <2>2, <2>3 DEF Loses, ChanLoses
  <1> QED
    BY <1>1 DEF Loses, Shortened, Flown, Elems

LEMMA FlownWrites ==
  ASSUME NetType, NEW f \in Wire, Writes(f)
  PROVE  Flown' \subseteq Flown \cup {f}
  <1>1. Data[fconn] \in Seq(Wire)
    BY DataFacts DEF NetType, Writes
  <1>2. /\ DOMAIN Data'[fconn] = 1..(Len(Data[fconn]) + 1) /\ Len(Data[fconn]) \in Nat
        /\ DOMAIN Data[fconn] = 1..Len(Data[fconn])
        /\ \A i \in 1..Len(Data[fconn]) : Data'[fconn][i] = Data[fconn][i]
        /\ Data'[fconn][Len(Data[fconn]) + 1] = f
    BY <1>1, AppendFacts DEF Writes
  <1>3. Elems(Data'[fconn]) \subseteq Elems(Data[fconn]) \cup {f}
    <2>1. \A i \in DOMAIN Data'[fconn] :
            (i \in DOMAIN Data[fconn] /\ Data'[fconn][i] = Data[fconn][i]) \/ Data'[fconn][i] = f
      BY <1>2
    <2> QED
      BY <2>1 DEF Elems
  <1>4. \A d \in DOMAIN Data' : Elems(Data'[d]) \subseteq Elems(Data[d]) \cup {f}
    BY <1>3 DEF Writes
  <1> QED
    BY <1>4 DEF Writes, Flown

LEMMA FlownReads ==
  ASSUME NetType, ReceiverType, HelloFirst, NEW c \in ConnIds, Reads(c)
  PROVE  Flown' \subseteq Flown
  <1>1. c \in DOMAIN Data /\ Data[c] \in Seq(Wire) /\ Data[c] # <<>>
    BY DataFacts DEF NetType, Reads
  <1>2. /\ DOMAIN Data[c] = 1..Len(Data[c]) /\ DOMAIN Data'[c] = 1..(Len(Data[c]) - 1)
        /\ Len(Data[c]) \in Nat \ {0} /\ Head(Data[c]) = Data[c][1]
        /\ \A i \in 1..(Len(Data[c]) - 1) : Data'[c][i] = Data[c][i + 1]
    BY <1>1, TailFacts DEF Reads
  <1>3. /\ \A i \in DOMAIN Data'[c] : i + 1 \in DOMAIN Data[c] /\ Data'[c][i] = Data[c][i + 1]
        /\ 1 \in DOMAIN Data[c]
    BY <1>2
  <1>4. Elems(Data'[c]) \subseteq Elems(Data[c]) /\ Head(Data[c]) \in Elems(Data[c])
    BY <1>2, <1>3 DEF Elems
  <1>5. \A d \in DOMAIN Data' : d \in DOMAIN Data /\ Elems(Data'[d]) \subseteq Elems(Data[d])
    BY <1>4 DEF Reads
  <1>6. \A i \in DOMAIN chan' : \/ \E j \in DOMAIN chan : chan'[i] = chan[j]
                                \/ chan'[i].f = Head(Data[c])
    <2>1. CASE chan' = chan
      BY <2>1
    <2>2. CASE authed[c] /\ chan' = Append(chan, On(c, Head(Data[c])))
      <3> DEFINE x == On(c, Head(Data[c]))
      <3>0. x \in Items /\ x.f = Head(Data[c])
        BY <1>1, <1>2, <1>3, <2>2, OffTheWire DEF On, Items
      <3> HIDE DEF x
      <3>1. /\ DOMAIN chan' = 1..(Len(chan) + 1) /\ DOMAIN chan = 1..Len(chan)
            /\ Len(chan) \in Nat /\ \A i \in 1..Len(chan) : chan'[i] = chan[i]
            /\ chan'[Len(chan) + 1] = x
        BY <2>2, <3>0, AppendFacts DEF ReceiverType, x
      <3>2. \A i \in DOMAIN chan' : i \in DOMAIN chan \/ i = Len(chan) + 1
        BY <3>1
      <3> QED
        BY <3>0, <3>1, <3>2
    <2> QED
      BY <2>1, <2>2 DEF Reads
  <1>7. out' = out
    BY DEF Reads
  <1> QED
    BY <1>1, <1>4, <1>5, <1>6, <1>7 DEF Flown

LEMMA FlownPublishes ==
  ASSUME ReceiverType, Publishes
  PROVE  Flown' \subseteq Flown
  <1>1. /\ Head(chan) = chan[1] /\ Head(chan) \in Items /\ Len(chan) \in Nat \ {0}
        /\ DOMAIN chan = 1..Len(chan) /\ DOMAIN chan' = 1..(Len(chan) - 1)
        /\ \A i \in 1..(Len(chan) - 1) : chan'[i] = chan[i + 1]
    BY TailFacts DEF Publishes, ReceiverType
  <1>2. /\ DOMAIN out' = 1..(Len(out) + 1) /\ DOMAIN out = 1..Len(out) /\ Len(out) \in Nat
        /\ \A i \in 1..Len(out) : out'[i] = out[i]
        /\ out'[Len(out) + 1] = Head(chan)
    BY <1>1, AppendFacts DEF Publishes, ReceiverType
  <1>3. /\ 1 \in DOMAIN chan
        /\ \A i \in DOMAIN chan' : i + 1 \in DOMAIN chan /\ chan'[i] = chan[i + 1]
    BY <1>1
  <1>4. \A i \in DOMAIN out' : (i \in DOMAIN out /\ out'[i] = out[i]) \/ out'[i] = chan[1]
    BY <1>1, <1>2
  <1> QED
    BY <1>3, <1>4 DEF Publishes, Flown

\* A step that puts no frame into another stage.
LEMMA OnlyLoses ==
  ASSUME UpstreamInv, src' = src, evicted' = evicted, Flown' \subseteq Flown,
         Hand(fpc' = "write", fhand') \subseteq Hand(fpc = "write", fhand),
         Hand(qpc' = "send", qhand') \subseteq Hand(qpc = "send", qhand),
         tq' = tq \/ tq' = <<>>, queue' = queue,
         InHand' \subseteq InHand, Unread' \subseteq Unread, InboxSorted'
  PROVE  UpstreamInv'
  <1>1. Elems(tq') \subseteq Elems(tq) /\ Sorted(tq')
    BY EmptyFacts DEF UpstreamInv, Sorted
  <1>2. \A k \in 1..7 : Stages'[k] \subseteq Stages[k]
    BY <1>1, StageList, StageListNext
  <1> QED
    BY <1>1, <1>2, LineShrinks DEF UpstreamInv

LEMMA UnreadOf ==
  ASSUME SenderType, NEW t \in Topics, NEW i \in DOMAIN inbox[t]
  PROVE  /\ inbox[t][i] \in Nat \ {0}
         /\ [topic |-> t, n |-> inbox[t][i]] \in Unread
  <1>1. inbox[t] \in Seq(Nat \ {0})
    BY DEF SenderType
  <1>2. inbox[t][i] \in Nat \ {0}
    BY <1>1, LenProperties, ElementOfSeq
  <1> QED
    BY <1>2 DEF Unread, Frames

LEMMA PublishUpstream ==
  ASSUME BridgeType, UpstreamInv, NEW t \in Topics, Publish(t), Flown' = Flown
  PROVE  UpstreamInv'
  <1>0. /\ src \in [Topics -> Nat] /\ inbox \in [Topics -> Seq(Nat \ {0})]
        /\ src[t] \in Nat /\ evicted \in SUBSET Frames /\ SenderType
    BY DEF BridgeType, SenderType
  <1>1. /\ src' = [src EXCEPT ![t] = src[t] + 1]
        /\ UNCHANGED <<spc, shand, queue, evicted, qpc, qhand, tq, fpc, fhand>>
        /\ \/ inbox' = [inbox EXCEPT ![t] = Append(inbox[t], src[t] + 1)]
           \/ inbox' = inbox
    BY <1>0 DEF Publish, subs, peerq, quic, fwd
  <1> DEFINE f == [topic |-> t, n |-> src[t] + 1]
  <1>2. \A i \in DOMAIN inbox[t] : inbox[t][i] <= src[t]
    <2> SUFFICES ASSUME NEW i \in DOMAIN inbox[t] PROVE inbox[t][i] <= src[t]
      OBVIOUS
    <2> DEFINE g == [topic |-> t, n |-> inbox[t][i]]
    <2>1. g \in Stages[7] /\ g.n \in Nat \ {0}
      BY <1>0, UnreadOf, StageList
    <2>2. Known(g, src)
      BY <2>1 DEF UpstreamInv, UpOK
    <2> QED
      BY <2>1, <2>2 DEF Known
  <1>3. Unread' \subseteq Unread \cup {f} /\ InboxSorted'
    <2>1. CASE inbox' = inbox
      BY <2>1 DEF Unread, InboxSorted, UpstreamInv
    <2>2. CASE inbox' = [inbox EXCEPT ![t] = Append(inbox[t], src[t] + 1)]
      <3> DEFINE m == Len(inbox[t]) + 1
      <3>1. /\ DOMAIN inbox[t] = 1..Len(inbox[t]) /\ Len(inbox[t]) \in Nat
            /\ DOMAIN inbox'[t] = 1..m
            /\ \A i \in 1..Len(inbox[t]) : inbox'[t][i] = inbox[t][i]
            /\ inbox'[t][m] = src[t] + 1
            /\ \A u \in Topics \ {t} : inbox'[u] = inbox[u]
        BY <1>0, <2>2, AppendFacts
      <3>2. \A i \in DOMAIN inbox'[t] : \/ i \in DOMAIN inbox[t] /\ inbox'[t][i] = inbox[t][i]
                                        \/ i = m /\ inbox'[t][i] = src[t] + 1
        BY <3>1
      <3>3. Unread' \subseteq Unread \cup {f}
        <4> SUFFICES ASSUME NEW g \in Frames, NEW i \in DOMAIN inbox'[g.topic],
                            inbox'[g.topic][i] = g.n
                     PROVE  g \in Unread \cup {f}
          BY DEF Unread
        <4>1. CASE g.topic # t
          BY <3>1, <4>1 DEF Unread, Frames
        <4>2. CASE g.topic = t /\ i \in DOMAIN inbox[t] /\ inbox'[t][i] = inbox[t][i]
          BY <4>2 DEF Unread
        <4>3. CASE g.topic = t /\ inbox'[t][i] = src[t] + 1
          BY <4>3 DEF Frames
        <4> QED
          BY <3>2, <4>1, <4>2, <4>3
      <3>4. ASSUME NEW i \in DOMAIN inbox'[t], NEW j \in DOMAIN inbox'[t], i < j
            PROVE  inbox'[t][i] < inbox'[t][j]
        <4>1. i \in DOMAIN inbox[t] /\ inbox'[t][i] = inbox[t][i] /\ inbox[t][i] \in Nat
          BY <1>0, <3>1, <3>4, UnreadOf
        <4>2. CASE j \in DOMAIN inbox[t] /\ inbox'[t][j] = inbox[t][j]
          BY <3>4, <4>1, <4>2 DEF UpstreamInv, InboxSorted
        <4>3. CASE inbox'[t][j] = src[t] + 1
          BY <1>0, <1>2, <4>1, <4>3
        <4> QED
          BY <3>2, <4>2, <4>3
      <3>5. InboxSorted'
        BY <3>1, <3>4 DEF UpstreamInv, InboxSorted
      <3> QED
        BY <3>3, <3>5
    <2> QED
      BY <1>1, <2>1, <2>2
  <1>4. /\ \A k \in 1..6 : Stages'[k] = Stages[k]
        /\ Stages'[7] \subseteq Stages[7] \cup {f}
    <2>1. InHand' = InHand
      BY <1>1 DEF InHand
    <2>2. /\ Hand(fpc' = "write", fhand') = Hand(fpc = "write", fhand)
          /\ Hand(qpc' = "send", qhand') = Hand(qpc = "send", qhand)
      BY <1>1
    <2>3. Elems(tq') = Elems(tq) /\ Elems(queue') = Elems(queue)
      BY <1>1
    <2> HIDE DEF f
    <2> QED
      BY <1>3, <2>1, <2>2, <2>3, StageList, StageListNext
  <1>5. UpOK(Stages', evicted', src')
    <2>1. UpOK(Stages, evicted, src)
      BY DEF UpstreamInv
    <2>2. /\ \A k \in 1..6 : Stages[k] \subseteq Frames \cup {Hello}
          /\ Stages[7] \subseteq Frames
      BY StageTypes
    <2>3. /\ \A x \in Frames \cup {Hello} : Known(x, src) => Before(x, f) /\ Known(x, src')
          /\ Known(f, src')
      <3>1. src' = [src EXCEPT ![t] = src[t] + 1] /\ src \in [Topics -> Nat]
        BY <1>0, <1>1
      <3>2. f = [topic |-> t, n |-> src[t] + 1]
        OBVIOUS
      <3> HIDE DEF f
      <3> QED
        BY <3>1, <3>2, NewerThanAll
    <2> HIDE DEF f
    <2>4. /\ \A k \in 1..7 : \A x \in Stages[k] : Before(x, f) /\ Known(x, src')
          /\ \A x \in evicted : Before(x, f) /\ Known(x, src')
      <3>1. \A k \in 1..7 : Stages[k] \subseteq Frames \cup {Hello}
        BY <2>2
      <3> QED
        BY <1>0, <2>1, <2>3, <3>1 DEF UpOK
    <2>5. UpOK(Stages', evicted, src')
      BY <1>4, <2>1, <2>3, <2>4, LineGrows
    <2> QED
      BY <1>1, <2>5
  <1> QED
    BY <1>1, <1>3, <1>5 DEF UpstreamInv

LEMMA SubscriberUpstream ==
  ASSUME BridgeType, UpstreamInv, NEW t \in Topics, SubStep(t), Flown' = Flown
  PROVE  UpstreamInv'
  <1>0. /\ inbox \in [Topics -> Seq(Nat \ {0})] /\ SenderType
        /\ spc \in [Topics -> {"outer", "inner", "send", "drop", "done"}]
        /\ shand \in [Topics -> Frames \cup {NoFrame}] /\ queue \in Seq(Frames)
        /\ UNCHANGED <<src, qpc, qhand, tq, fpc, fhand>>
    BY DEF BridgeType, SenderType, SubStep, Subscribe, SubRecv, SubSend, SubDrop, SubFrame,
       local, quic, fwd
  <1>1. ASSUME \A u \in Topics : /\ inbox'[u] = inbox[u] \/ inbox'[u] = <<>>
                                 /\ spc'[u] = "send" => spc[u] = "send" /\ shand'[u] = shand[u],
               UNCHANGED <<queue, evicted>>
        PROVE  UpstreamInv'
    <2>1. Unread' \subseteq Unread /\ InboxSorted'
      BY <1>1, EmptyFacts DEF Unread, UpstreamInv, InboxSorted, Frames
    <2>2. InHand' \subseteq InHand
      BY <1>1 DEF InHand, Frames
    <2> QED
      BY <1>0, <1>1, <2>1, <2>2, OnlyLoses
  <1>2. CASE Subscribe(t) \/ SubDrop(t)
    BY <1>0, <1>1, <1>2 DEF Subscribe, SubDrop, SubGoto, SubFrame, local, peerq
  <1>3. CASE SubRecv(t) /\ ~(spc'[t] = "send")
    BY <1>0, <1>1, <1>3 DEF SubRecv, SubGoto, SubFrame, peerq
  <1>4. CASE SubRecv(t) /\ spc'[t] = "send"
    <2> DEFINE f == [topic |-> t, n |-> Head(inbox[t])]
    <2>1. /\ inbox[t] # <<>> /\ shand' = [shand EXCEPT ![t] = f]
          /\ inbox' = [inbox EXCEPT ![t] = Tail(inbox[t])]
          /\ spc' = [spc EXCEPT ![t] = "send"] /\ UNCHANGED <<queue, evicted>>
      BY <1>0, <1>4 DEF SubRecv, SubGoto, SubFrame, peerq
    <2>2. /\ Head(inbox[t]) = inbox[t][1] /\ Head(inbox[t]) \in Nat \ {0}
          /\ Len(inbox[t]) \in Nat \ {0} /\ DOMAIN inbox[t] = 1..Len(inbox[t])
          /\ DOMAIN inbox'[t] = 1..(Len(inbox[t]) - 1)
          /\ \A i \in 1..(Len(inbox[t]) - 1) : inbox'[t][i] = inbox[t][i + 1]
          /\ \A u \in Topics \ {t} : inbox'[u] = inbox[u]
      BY <1>0, <2>1, TailFacts
    <2>3. /\ 1 \in DOMAIN inbox[t]
          /\ \A i \in DOMAIN inbox'[t] : /\ i \in Int /\ i + 1 \in DOMAIN inbox[t] /\ 1 < i + 1
                                         /\ inbox'[t][i] = inbox[t][i + 1]
      BY <2>2
    <2>4. \A i, j \in DOMAIN inbox'[t] : i < j => i + 1 < j + 1
      BY <2>3
    <2>5. \A i \in DOMAIN inbox'[t] : Head(inbox[t]) < inbox'[t][i]
      BY <2>2, <2>3 DEF UpstreamInv, InboxSorted
    <2>6. InboxSorted'
      <3>1. \A i, j \in DOMAIN inbox'[t] : i < j => inbox'[t][i] < inbox'[t][j]
        BY <2>3, <2>4 DEF UpstreamInv, InboxSorted
      <3> QED
        BY <2>2, <3>1 DEF UpstreamInv, InboxSorted
    <2>7. f \in Unread /\ f \in Frames
      BY <1>0, <2>2, <2>3, UnreadOf DEF Unread
    <2> HIDE DEF f
    <2>8. Unread' \subseteq Unread /\ \A g \in Unread' : Before(f, g)
      <3> SUFFICES ASSUME NEW g \in Frames, NEW i \in DOMAIN inbox'[g.topic],
                          inbox'[g.topic][i] = g.n
                   PROVE  g \in Unread /\ Before(f, g)
        BY DEF Unread
      <3>1. CASE g.topic = t
        <4>1. g \in Unread
          BY <2>3, <3>1 DEF Unread
        <4>2. f.n < g.n
          BY <2>5, <3>1 DEF f
        <4> QED
          BY <4>1, <4>2 DEF Before
      <3>2. CASE g.topic # t
        <4>1. g.topic \in Topics /\ inbox'[g.topic] = inbox[g.topic]
          BY <2>2, <3>2 DEF Frames
        <4>2. f.topic = t
          BY DEF f
        <4> QED
          BY <3>2, <4>1, <4>2 DEF Unread, Before
      <3> QED
        BY <3>1, <3>2
    <2>9. InHand' \subseteq InHand \cup {f}
      BY <1>0, <2>1 DEF InHand, Frames
    <2>10. /\ \A k \in 1..7 : k # 6 => Stages'[k] \subseteq Stages[k]
           /\ Stages'[6] \subseteq Stages[6] \cup {f} /\ f \in Stages[7]
           /\ \A g \in Stages'[7] : Before(f, g)
      BY <1>0, <2>1, <2>7, <2>8, <2>9, StageList, StageListNext
    <2>11. UpOK(Stages', evicted, src)
      <3>1. \A k \in 1..7 : 6 < k /\ k < 7 => Stages'[k] = {}
        OBVIOUS
      <3>2. 6 \in 1..7 /\ 7 \in 1..7 /\ 6 < 7 /\ UpOK(Stages, evicted, src)
        BY DEF UpstreamInv
      <3> QED
        BY <2>10, <3>1, <3>2, LineMoves
    <2> QED
      BY <1>0, <2>1, <2>6, <2>11 DEF UpstreamInv
  <1>5. CASE SubSend(t)
    <2> DEFINE f == shand[t]
    <2>1. /\ f \in Frames /\ f.topic = t /\ spc[t] = "send"
          /\ shand' = [shand EXCEPT ![t] = NoFrame] /\ inbox' = inbox
          /\ spc' = [spc EXCEPT ![t] = "inner"]
          /\ (UNCHANGED <<queue, evicted>> \/ Send(f))
      BY <1>0, <1>5 DEF SubSend, SubGoto, SenderType, local
    <2>2. \A u \in Topics : spc'[u] = "send" => u # t /\ spc[u] = "send" /\ shand'[u] = shand[u]
      BY <1>0, <2>1
    <2>3. CASE UNCHANGED <<queue, evicted>>
      BY <1>1, <2>1, <2>2, <2>3
    <2>4. CASE Send(f)
      <3> DEFINE q == IF queue' = Append(queue, f) /\ evicted' = evicted
                        THEN queue ELSE Tail(queue)
                 T == [k \in 1..7 |-> IF k = 5 THEN Elems(q) ELSE Stages[k]]
      <3>1. /\ q \in Seq(Frames) /\ Sorted(q) /\ queue' = Append(q, f)
            /\ UpOK(T, evicted', src)
        <4>1. UpOK(Stages, evicted, src) /\ Sorted(queue)
          BY DEF UpstreamInv
        <4>2. CASE queue' = Append(queue, f) /\ evicted' = evicted
          <5>1. q = queue /\ \A k \in 1..7 : T[k] \subseteq Stages[k]
            BY <4>2, StageList
          <5>2. UpOK(T, evicted, src)
            BY <4>1, <5>1, LineShrinks
          <5> QED
            BY <1>0, <4>1, <4>2, <5>1, <5>2
        <4>3. CASE /\ queue # <<>> /\ queue' = Append(Tail(queue), f)
                   /\ evicted' = evicted \cup {Head(queue)}
                   /\ ~(queue' = Append(queue, f) /\ evicted' = evicted)
          <5>1. /\ q = Tail(queue) /\ Tail(queue) \in Seq(Frames) /\ Sorted(Tail(queue))
                /\ Head(queue) \in Stages[5] /\ Elems(Tail(queue)) \subseteq Stages[5]
                /\ \A g \in Elems(Tail(queue)) : Before(Head(queue), g)
            BY <1>0, <4>1, <4>3, StageList, ElemsOfTail, TailFacts
          <5>2. (\A k \in 1..7 : T[k] \subseteq Stages[k]) /\ T[5] = Elems(Tail(queue))
            BY <5>1
          <5>3. UpOK(T, evicted \cup {Head(queue)}, src)
            BY <4>1, <5>1, <5>2, LineEvicts
          <5> QED
            BY <4>3, <5>1, <5>3
        <4> QED
          BY <1>0, <2>1, <2>4, <4>2, <4>3, SendFacts
      <3>2. f \in InHand /\ InHand' \subseteq InHand /\ \A g \in InHand' : Before(f, g)
        BY <2>1, <2>2 DEF InHand, Before, Frames
      <3>3. T[5] = Elems(q) /\ f \in T[6] /\ T[6] = Stages[6]
        BY <3>2, StageList
      <3>4. \A g \in Elems(q) : Before(g, f)
        <4>1. 5 \in 1..7 /\ 6 \in 1..7 /\ 5 < 6
          OBVIOUS
        <4> QED
          BY <3>1, <3>3, <4>1 DEF UpOK, LineOK, AllBefore
      <3>5. /\ \A k \in 1..7 : k # 5 => Stages'[k] \subseteq T[k]
            /\ Stages'[5] \subseteq T[5] \cup {f}
            /\ \A g \in Stages'[6] : Before(f, g)
        <4>1. Elems(queue') \subseteq Elems(q) \cup {f}
          BY <2>1, <3>1, ElemsOfAppend
        <4>2. Unread' = Unread
          BY <2>1 DEF Unread
        <4> QED
          BY <1>0, <3>2, <3>3, <4>1, <4>2, StageList, StageListNext
      <3>6. Sorted(queue')
        BY <2>1, <3>1, <3>4, ElemsOfAppend
      <3>7. UpOK(Stages', evicted', src)
        <4>1. \A k \in 1..7 : 5 < k /\ k < 6 => Stages'[k] = {}
          OBVIOUS
        <4>2. 5 \in 1..7 /\ 6 \in 1..7 /\ 5 < 6
          OBVIOUS
        <4> HIDE DEF T, q, f
        <4> QED
          BY <3>1, <3>3, <3>5, <4>1, <4>2, LineMoves
      <3> QED
        BY <1>0, <2>1, <3>6, <3>7 DEF UpstreamInv, InboxSorted
    <2> QED
      BY <2>1, <2>3, <2>4
  <1> QED
    BY <1>2, <1>3, <1>4, <1>5 DEF SubStep

LEMMA SameLocal ==
  ASSUME UNCHANGED <<inbox, spc, shand>>
  PROVE  InHand' = InHand /\ Unread' = Unread /\ (InboxSorted => InboxSorted')
  BY DEF InHand, Unread, InboxSorted

LEMMA QueueBridgeUpstream ==
  ASSUME SenderType, UpstreamInv, QueueBridgeStep, Flown' = Flown
  PROVE  UpstreamInv'
  <1>0. /\ UNCHANGED <<src, inbox, spc, shand, evicted, fpc, fhand>>
        /\ queue \in Seq(Frames) /\ tq \in Seq(Frames)
        /\ qpc = "send" => qhand \in Frames
    BY DEF SenderType, QueueBridgeStep, QueueBridgePop, QueueBridgeSend, QuicFrame, local, subs,
       fwd, peerq
  <1>1. /\ InHand' = InHand /\ Unread' = Unread /\ InboxSorted'
        /\ Hand(fpc' = "write", fhand') = Hand(fpc = "write", fhand)
    BY <1>0, SameLocal DEF UpstreamInv
  <1>2. UpOK(Stages, evicted, src) /\ Sorted(queue) /\ Sorted(tq)
    BY DEF UpstreamInv
  <1>3. ASSUME UNCHANGED <<queue, tq>>, qpc' = "done" PROVE UpstreamInv'
    <2>1. Hand(qpc' = "send", qhand') = {}
      BY <1>3 DEF Hand
    <2> QED
      BY <1>0, <1>1, <1>3, <2>1, OnlyLoses
  <1>4. ASSUME qpc = "loop", queue # <<>>, qhand' = Head(queue), queue' = Tail(queue),
               qpc' = "send", tq' = tq
        PROVE  UpstreamInv'
    <2> DEFINE f == Head(queue)
    <2>1. /\ f \in Elems(queue) /\ Elems(queue') \subseteq Elems(queue)
          /\ Sorted(queue') /\ \A g \in Elems(queue') : Before(f, g)
      BY <1>0, <1>2, <1>4, ElemsOfTail
    <2>2. Hand(qpc' = "send", qhand') = {f}
      BY <1>4 DEF Hand
    <2> HIDE DEF f
    <2>3. /\ \A k \in 1..7 : k # 4 => Stages'[k] \subseteq Stages[k]
          /\ Stages'[4] \subseteq Stages[4] \cup {f}
          /\ f \in Stages[5] /\ \A g \in Stages'[5] : Before(f, g)
      BY <1>1, <1>4, <2>1, <2>2, StageList, StageListNext
    <2>4. \A k \in 1..7 : 4 < k /\ k < 5 => Stages'[k] = {}
      OBVIOUS
    <2>5. 4 \in 1..7 /\ 5 \in 1..7 /\ 4 < 5
      OBVIOUS
    <2>6. UpOK(Stages', evicted, src)
      BY <1>2, <2>3, <2>4, <2>5, LineMoves
    <2> QED
      BY <1>0, <1>1, <1>2, <1>4, <2>1, <2>6 DEF UpstreamInv
  <1>5. ASSUME qpc = "send", tq' = Append(tq, qhand), qpc' = "loop", queue' = queue
        PROVE  UpstreamInv'
    <2>1. Hand(qpc = "send", qhand) = {qhand} /\ Hand(qpc' = "send", qhand') = {}
      BY <1>5 DEF Hand
    <2>2. \A g \in Elems(tq) : Before(g, qhand)
      <3>1. 3 \in 1..7 /\ 4 \in 1..7 /\ 3 < 4 /\ qhand \in Stages[4] /\ Stages[3] = Elems(tq)
        BY <2>1, StageList
      <3> QED
        BY <1>2, <3>1 DEF UpOK, LineOK, AllBefore
    <2>3. Elems(tq') \subseteq Elems(tq) \cup {qhand} /\ Sorted(tq')
      BY <1>0, <1>2, <1>5, <2>2, ElemsOfAppend
    <2>4. /\ \A k \in 1..7 : k # 3 => Stages'[k] \subseteq Stages[k]
          /\ Stages'[3] \subseteq Stages[3] \cup {qhand}
          /\ qhand \in Stages[4] /\ Stages'[4] = {}
      BY <1>1, <1>5, <2>1, <2>3, StageList, StageListNext
    <2>5. \A k \in 1..7 : 3 < k /\ k < 4 => Stages'[k] = {}
      OBVIOUS
    <2>6. 3 \in 1..7 /\ 4 \in 1..7 /\ 3 < 4
      OBVIOUS
    <2>7. UpOK(Stages', evicted, src)
      BY <1>2, <2>4, <2>5, <2>6, LineMoves
    <2> QED
      BY <1>0, <1>1, <1>2, <1>5, <2>3, <2>7 DEF UpstreamInv
  <1> QED
    BY <1>3, <1>4, <1>5 DEF QueueBridgeStep, QueueBridgePop, QueueBridgeSend, peerq

LEMMA SendingUpstream ==
  ASSUME BridgeType, UpstreamInv, SendingStep
  PROVE  UpstreamInv'
  <1>1. Flown' = Flown
    BY SendingFrame DEF Flown, Data
  <1>2. CASE StopA \/ ShutdownStepA
    <2>1. UNCHANGED <<src, inbox, spc, shand, queue, evicted, qpc, qhand, tq, fpc, fhand>>
      BY <1>2 DEF StopA, ShutdownStepA, ClearPeerTx, JoinA, local, subs, peerq, quic, fwd
    <2>2. /\ InHand' = InHand /\ Unread' = Unread /\ InboxSorted'
          /\ Hand(fpc' = "write", fhand') = Hand(fpc = "write", fhand)
          /\ Hand(qpc' = "send", qhand') = Hand(qpc = "send", qhand)
      BY <2>1, SameLocal DEF UpstreamInv
    <2> QED
      BY <1>1, <2>1, <2>2, OnlyLoses
  <1> QED
    BY <1>1, <1>2, PublishUpstream, SubscriberUpstream, QueueBridgeUpstream
       DEF SendingStep, BridgeType

LEMMA FwdUpstream ==
  ASSUME BridgeType, UpstreamInv, FwdStep
  PROVE  UpstreamInv'
  <1>0. /\ UNCHANGED <<src, inbox, spc, shand, evicted, qpc, qhand>>
        /\ SenderType /\ NetType /\ ReceiverType
        /\ queue \in Seq(Frames) /\ tq \in Seq(Frames)
    BY FwdFrames DEF BridgeType, SenderType
  <1>1. /\ InHand' = InHand /\ Unread' = Unread /\ InboxSorted'
        /\ Hand(qpc' = "send", qhand') = Hand(qpc = "send", qhand)
    BY <1>0, SameLocal DEF UpstreamInv
  <1>2. UpOK(Stages, evicted, src) /\ Sorted(queue) /\ Sorted(tq)
    BY DEF UpstreamInv
  <1>3. ASSUME Loses, fpc' # "write", queue' = queue, tq' = tq \/ tq' = <<>>
        PROVE  UpstreamInv'
    <2>1. Hand(fpc' = "write", fhand') = {} /\ Flown' \subseteq Flown
      BY <1>0, <1>3, FlownLoses DEF Hand
    <2> QED
      BY <1>0, <1>1, <1>3, <2>1, OnlyLoses
  <1>4. ASSUME Writes(Hello), fpc' # "write", UNCHANGED <<queue, tq>> PROVE UpstreamInv'
    <2>1. Hand(fpc' = "write", fhand') = {}
      BY <1>4 DEF Hand
    <2>2. Flown' \subseteq Flown \cup {Hello}
      BY <1>0, <1>4, FlownWrites DEF Wire
    <2>3. /\ Stages'[1] \subseteq Stages[1] \cup {Hello}
          /\ \A k \in 2..7 : Stages'[k] \subseteq Stages[k]
      BY <1>1, <1>4, <2>1, <2>2, StageList, StageListNext
    <2>4. UpOK(Stages', evicted, src)
      BY <1>2, <2>3, LineGreets
    <2> QED
      BY <1>0, <1>1, <1>2, <1>4, <2>4 DEF UpstreamInv
  <1>5. ASSUME Writes(fhand), fhand \in Frames, fpc = "write", fpc' # "write",
               UNCHANGED <<queue, tq>>
        PROVE  UpstreamInv'
    <2>1. Hand(fpc = "write", fhand) = {fhand} /\ Hand(fpc' = "write", fhand') = {}
      BY <1>5 DEF Hand
    <2>2. Flown' \subseteq Flown \cup {fhand}
      BY <1>0, <1>5, FlownWrites DEF Wire
    <2>3. /\ \A k \in 1..7 : k # 1 => Stages'[k] \subseteq Stages[k]
          /\ Stages'[1] \subseteq Stages[1] \cup {fhand}
          /\ fhand \in Stages[2] /\ Stages'[2] = {}
      BY <1>1, <1>5, <2>1, <2>2, StageList, StageListNext
    <2>4. \A k \in 1..7 : 1 < k /\ k < 2 => Stages'[k] = {}
      OBVIOUS
    <2>5. 1 \in 1..7 /\ 2 \in 1..7 /\ 1 < 2
      OBVIOUS
    <2>6. UpOK(Stages', evicted, src)
      BY <1>2, <2>3, <2>4, <2>5, LineMoves
    <2> QED
      BY <1>0, <1>1, <1>2, <1>5, <2>6 DEF UpstreamInv
  <1>6. CASE Connect
    <2>1. Loses
      BY <1>0, <1>6, FwdEffect DEF Connect
    <2> QED
      BY <1>3, <1>6, <2>1 DEF Connect
  <1>7. CASE WriteHello \/ WriteFrame
    <2>1. fpc' # "write" /\ UNCHANGED <<queue, tq>>
      BY <1>7 DEF WriteHello, WriteFrame, Disconnect
    <2> QED
      BY <1>0, <1>3, <1>4, <1>5, <2>1, FwdEffect
  <1>8. CASE Pop
    <2>1. Loses /\ fpc = "loop"
      BY <1>0, <1>8, FwdEffect DEF Pop
    <2>2. CASE Disconnect /\ UNCHANGED <<queue, tq>>
      BY <1>3, <2>1, <2>2 DEF Disconnect
    <2>3. Flown' \subseteq Flown
      BY <1>0, <2>1, FlownLoses
    <2>4. ASSUME transport = "tcp", queue # <<>>, fhand' = Head(queue), queue' = Tail(queue),
                 fpc' = "write", tq' = tq
          PROVE  UpstreamInv'
      <3> DEFINE f == Head(queue)
      <3>1. /\ f \in Elems(queue) /\ Elems(queue') \subseteq Elems(queue)
            /\ Sorted(queue') /\ \A g \in Elems(queue') : Before(f, g)
        BY <1>0, <1>2, <2>4, ElemsOfTail
      <3>2. Hand(fpc' = "write", fhand') = {f} /\ Hand(qpc = "send", qhand) = {}
        BY <1>0, <2>4 DEF Hand, SenderType
      <3>3. Elems(tq) = {}
        BY <1>0, <2>4, EmptyFacts DEF SenderType, Elems
      <3> HIDE DEF f
      <3>4. /\ \A k \in 1..7 : k # 2 => Stages'[k] \subseteq Stages[k]
            /\ Stages'[2] \subseteq Stages[2] \cup {f}
            /\ f \in Stages[5] /\ \A g \in Stages'[5] : Before(f, g)
            /\ Stages'[3] = {} /\ Stages'[4] = {}
        BY <1>1, <2>3, <2>4, <3>1, <3>2, <3>3, StageList, StageListNext
      <3>5. \A k \in 1..7 : 2 < k /\ k < 5 => Stages'[k] = {}
        <4>1. \A k \in 1..7 : 2 < k /\ k < 5 => k = 3 \/ k = 4
          OBVIOUS
        <4> QED
          BY <3>4, <4>1
      <3>6. 2 \in 1..7 /\ 5 \in 1..7 /\ 2 < 5
        OBVIOUS
      <3>7. UpOK(Stages', evicted, src)
        BY <1>2, <3>4, <3>5, <3>6, LineMoves
      <3> QED
        BY <1>0, <1>1, <1>2, <2>4, <3>1, <3>7 DEF UpstreamInv
    <2>5. ASSUME tq # <<>>, fhand' = Head(tq), tq' = Tail(tq), fpc' = "write", queue' = queue
          PROVE  UpstreamInv'
      <3> DEFINE f == Head(tq)
      <3>1. /\ f \in Elems(tq) /\ Elems(tq') \subseteq Elems(tq)
            /\ Sorted(tq') /\ \A g \in Elems(tq') : Before(f, g)
        BY <1>0, <1>2, <2>5, ElemsOfTail
      <3>2. Hand(fpc' = "write", fhand') = {f}
        BY <2>5 DEF Hand
      <3> HIDE DEF f
      <3>3. /\ \A k \in 1..7 : k # 2 => Stages'[k] \subseteq Stages[k]
            /\ Stages'[2] \subseteq Stages[2] \cup {f}
            /\ f \in Stages[3] /\ \A g \in Stages'[3] : Before(f, g)
        BY <1>1, <2>3, <2>5, <3>1, <3>2, StageList, StageListNext
      <3>4. \A k \in 1..7 : 2 < k /\ k < 3 => Stages'[k] = {}
        OBVIOUS
      <3>5. 2 \in 1..7 /\ 3 \in 1..7 /\ 2 < 3
        OBVIOUS
      <3>6. UpOK(Stages', evicted, src)
        BY <1>2, <3>3, <3>4, <3>5, LineMoves
      <3> QED
        BY <1>0, <1>1, <1>2, <2>5, <3>1, <3>6 DEF UpstreamInv
    <2> QED
      BY <1>8, <2>2, <2>4, <2>5 DEF Pop
  <1> QED
    BY <1>6, <1>7, <1>8 DEF FwdStep

LEMMA ReceivingUpstream ==
  ASSUME BridgeType, HelloFirst, UpstreamInv, ReceivingStep
  PROVE  UpstreamInv'
  <1>0. /\ UNCHANGED <<src, inbox, spc, shand, queue, evicted, qpc, qhand, tq, fpc, fhand>>
        /\ NetType /\ ReceiverType
    BY ReceivingFrame DEF BridgeType
  <1>1. Flown' \subseteq Flown
    BY <1>0, ReceivingEffect, FlownLoses, FlownReads, FlownPublishes
  <1>2. /\ InHand' = InHand /\ Unread' = Unread /\ InboxSorted'
        /\ Hand(fpc' = "write", fhand') = Hand(fpc = "write", fhand)
        /\ Hand(qpc' = "send", qhand') = Hand(qpc = "send", qhand)
    BY <1>0, SameLocal DEF UpstreamInv
  <1> QED
    BY <1>0, <1>1, <1>2, OnlyLoses

-----------------------------------------------------------------------------
(* Every step keeps both lines *)

\* A step of the forwarder makes connections and takes none away.
LEMMA FwdConns ==
  ASSUME NetType, FwdStep
  PROVE  DOMAIN Data \subseteq DOMAIN Data'
  <1>0. /\ conns \in Seq(Conns) /\ Len(conns) \in Nat /\ DOMAIN Data = 1..Len(conns)
        /\ fconn \in {NoConn, Len(conns)}
    BY DataFacts DEF NetType
  <1>1. CASE conns' = conns \/ conns' = Closed(conns)
    <2>1. Data' = Data
      BY <1>0, <1>1, DataSame, ClosedFacts
    <2> QED
      BY <2>1
  <1>2. CASE conns' = Append(conns, [up |-> TRUE, eof |-> FALSE, data |-> <<>>])
    <2>1. conns' \in Seq(Conns) /\ Len(conns') = Len(conns) + 1
      BY <1>0, <1>2, ConnectFacts
    <2>2. DOMAIN Data' = 1..Len(conns')
      BY <2>1, DataFactsNext
    <2> QED
      BY <1>0, <2>1, <2>2
  <1>3. ASSUME NEW f, Written(f) PROVE DOMAIN Data \subseteq DOMAIN Data'
    BY <1>3 DEF Written, Data
  <1> QED
    BY <1>1, <1>2, <1>3 DEF FwdStep, Connect, WriteHello, Pop, WriteFrame, Disconnect

LEMMA FwdDownstream ==
  ASSUME BridgeType, UpstreamInv, DownstreamInv, FwdStep
  PROVE  DownstreamInv'
  <1>0. /\ SenderType /\ NetType /\ out \in Seq(Items) /\ chan \in Seq(Items)
        /\ conns \in Seq(Conns) /\ fconn \in {NoConn, Len(conns)}
        /\ DownOK(out, chan, Data)
    BY DEF BridgeType, ReceiverType, NetType, DownstreamInv
  <1>1. /\ DOMAIN Data = 1..Len(conns) /\ Len(conns) \in Nat
        /\ \A d \in DOMAIN Data : Data[d] \in Seq(Wire)
    BY <1>0, DataFacts
  <1>2. CASE Loses
    <2>1. DOMAIN Data \subseteq DOMAIN Data'
      BY <1>0, FwdConns
    <2> QED
      BY <1>0, <1>2, <2>1, DownLoses DEF Loses, ChanLoses, DownstreamInv
  <1>3. ASSUME NEW f \in Wire, Writes(f), \A g \in Flown : Before(g, f)
        PROVE  DownstreamInv'
    <2>1. /\ \A i \in DOMAIN out : Before(out[i].f, f)
          /\ \A i \in DOMAIN chan : Before(chan[i].f, f)
          /\ \A d \in DOMAIN Data : \A i \in DOMAIN Data[d] : Before(Data[d][i], f)
      BY <1>3 DEF Flown, Elems
    <2>2. fconn \in DOMAIN Data /\ fconn = Len(conns)
      BY <1>0, <1>1, <1>3 DEF Writes, NoConn
    <2>3. \A d \in DOMAIN Data : Data[d] \in Seq(Wire) /\ d \in Int /\ d <= fconn
      BY <1>1, <2>2
    <2>4. /\ DOMAIN Data' = DOMAIN Data /\ Data'[fconn] = Append(Data[fconn], f)
          /\ \A d \in DOMAIN Data \ {fconn} : Data'[d] = Data[d]
          /\ out' = out /\ chan' = chan
      BY <1>3 DEF Writes
    <2>5. DownOK(out, chan, Data')
      BY <1>0, <1>3, <2>1, <2>2, <2>3, <2>4, DownWrites
    <2> QED
      BY <2>4, <2>5 DEF DownstreamInv
  <1>4. CASE Writes(Hello)
    BY <1>3, <1>4 DEF Before, Hello, Wire
  <1>5. CASE fpc = "write" /\ fhand \in Frames /\ Writes(fhand)
    <2>1. fhand \in Stages[2] /\ Flown = Stages[1]
      BY <1>5, StageList DEF Hand
    <2>2. 1 \in 1..7 /\ 2 \in 1..7 /\ 1 < 2
      OBVIOUS
    <2>3. \A g \in Flown : Before(g, fhand)
      BY <2>1, <2>2 DEF UpstreamInv, UpOK, LineOK, AllBefore
    <2> QED
      BY <1>3, <1>5, <2>3 DEF Wire
  <1> QED
    BY <1>0, <1>2, <1>4, <1>5, FwdEffect

LEMMA ReceivingDownstream ==
  ASSUME BridgeType, HelloFirst, DownstreamInv, ReceivingStep
  PROVE  DownstreamInv'
  <1>0. /\ NetType /\ ReceiverType /\ out \in Seq(Items) /\ chan \in Seq(Items)
        /\ conns \in Seq(Conns) /\ DownOK(out, chan, Data)
    BY DEF BridgeType, ReceiverType, NetType, DownstreamInv
  <1>1. /\ DOMAIN Data = 1..Len(conns) /\ Len(conns) \in Nat
        /\ \A d \in DOMAIN Data : Data[d] \in Seq(Wire) /\ d \in Int
    BY <1>0, DataFacts
  <1>2. CASE Loses
    <2>1. conns' \in Seq(Conns) /\ Len(conns') = Len(conns)
      BY <1>0, ReceivingEffect
    <2>2. DOMAIN Data' = DOMAIN Data
      BY <1>1, <2>1, DataFactsNext
    <2> QED
      BY <1>0, <1>2, <2>2, DownLoses DEF Loses, ChanLoses, DownstreamInv
  <1>3. CASE Publishes
    <2>1. DownOK(Append(out, Head(chan)), Tail(chan), Data)
      BY <1>0, <1>3, DownPublishes DEF Publishes
    <2> QED
      BY <1>3, <2>1 DEF Publishes, DownstreamInv
  <1>4. ASSUME NEW c \in ConnIds, Reads(c) PROVE DownstreamInv'
    <2>1. /\ c \in DOMAIN Data /\ Data[c] # <<>> /\ Data'[c] = Tail(Data[c])
          /\ DOMAIN Data' = DOMAIN Data /\ out' = out
          /\ \A d \in DOMAIN Data \ {c} : Data'[d] = Data[d]
      BY <1>4 DEF Reads
    <2>2. Head(Data[c]) = Data[c][1] /\ 1 \in DOMAIN Data[c]
      <3>1. Head(Data[c]) = Data[c][1] /\ Len(Data[c]) \in Nat \ {0}
            /\ DOMAIN Data[c] = 1..Len(Data[c])
        BY <1>1, <2>1, TailFacts
      <3> QED
        BY <3>1
    <2>3. \/ chan' = chan
          \/ /\ chan' = Append(chan, On(c, Data[c][1]))
             /\ Data[c][1].n > 0 /\ On(c, Data[c][1]) \in Items
      <3>1. ASSUME authed[c] PROVE Data[c][1] \in Frames
        BY <1>0, <1>1, <2>1, <2>2, <3>1, OffTheWire
      <3> QED
        BY <1>4, <2>2, <3>1 DEF Reads, On, Items, Frames
    <2>4. DownOK(out, chan', Data')
      BY <1>0, <1>1, <2>1, <2>3, DownReads
    <2> QED
      BY <2>1, <2>4 DEF DownstreamInv
  <1> QED
    BY <1>0, <1>2, <1>3, <1>4, ReceivingEffect

\* The inductive invariant of the order of the frames.
BridgeInv == BridgeType /\ HelloFirst /\ UpstreamInv /\ DownstreamInv

LEMMA InitBridge == Init => BridgeInv
  <1> SUFFICES ASSUME Init PROVE BridgeInv
    OBVIOUS
  <1>1. BridgeType /\ HelloFirst
    BY InitType
  <1>2. DOMAIN <<>> = {}
    BY EmptyFacts
  <1>3. Data = <<>> /\ Elems(<<>>) = {} /\ Sorted(<<>>)
    BY <1>2 DEF Init, Data, Elems, Sorted
  <1>4. Flown = {} /\ InHand = {} /\ Unread = {} /\ InboxSorted
    BY <1>2, <1>3 DEF Init, Flown, InHand, Unread, InboxSorted, Frames
  <1>5. Hand(fpc = "write", fhand) = {} /\ Hand(qpc = "send", qhand) = {}
    BY DEF Init, Hand
  <1>6. \A k \in 1..7 : Stages[k] = {}
    BY <1>3, <1>4, <1>5, StageList DEF Init
  <1>7. evicted = {} /\ queue = <<>> /\ tq = <<>> /\ out = <<>> /\ chan = <<>>
    BY DEF Init
  <1>8. UpstreamInv
    <2>1. \A k \in 5..7 : k \in 1..7
      OBVIOUS
    <2>2. UpOK(Stages, {}, src)
      BY <1>6, <2>1 DEF UpOK, LineOK, AllBefore
    <2> QED
      BY <1>3, <1>4, <1>7, <2>2 DEF UpstreamInv
  <1>9. DownstreamInv
    BY <1>2, <1>3, <1>7 DEF DownstreamInv, DownOK
  <1> QED
    BY <1>1, <1>8, <1>9 DEF BridgeInv

LEMMA NextBridge == BridgeInv /\ [Next]_vars => BridgeInv'
  <1> SUFFICES ASSUME BridgeInv, [Next]_vars PROVE BridgeInv'
    OBVIOUS
  <1>0. BridgeType /\ HelloFirst /\ UpstreamInv /\ DownstreamInv
    BY DEF BridgeInv
  <1>1. BridgeType' /\ HelloFirst'
    BY <1>0, NextType
  <1>2. ASSUME SendingStep PROVE UpstreamInv' /\ DownstreamInv'
    BY <1>0, <1>2, SendingUpstream, SendingFrame DEF DownstreamInv, Data
  <1>3. ASSUME FwdStep PROVE UpstreamInv' /\ DownstreamInv'
    BY <1>0, <1>3, FwdUpstream, FwdDownstream
  <1>4. ASSUME ReceivingStep PROVE UpstreamInv' /\ DownstreamInv'
    BY <1>0, <1>4, ReceivingUpstream, ReceivingDownstream
  <1>5. ASSUME UNCHANGED vars PROVE UpstreamInv' /\ DownstreamInv'
    <2>1. UNCHANGED <<src, inbox, spc, shand, queue, evicted, qpc, qhand, tq, fpc, fhand,
                      conns, chan, out>>
      BY <1>5 DEF vars, sideA, local, subs, peerq, quic, fwd, net, sideB, pub
    <2>2. Data' = Data
      BY <2>1, DataSame
    <2>3. /\ InHand' = InHand /\ Unread' = Unread /\ InboxSorted' /\ Flown' = Flown
          /\ Hand(fpc' = "write", fhand') = Hand(fpc = "write", fhand)
          /\ Hand(qpc' = "send", qhand') = Hand(qpc = "send", qhand)
      BY <1>0, <2>1, <2>2, SameLocal DEF UpstreamInv, Flown
    <2>4. UpstreamInv'
      BY <1>0, <2>1, <2>3, OnlyLoses
    <2> QED
      BY <1>0, <2>1, <2>2, <2>4 DEF DownstreamInv
  <1> QED
    BY <1>1, <1>2, <1>3, <1>4, <1>5, StepCases DEF BridgeInv

LEMMA BridgeInvHolds == Spec => []BridgeInv
  BY InitBridge, NextBridge, PTL DEF Spec

LEMMA OutFacts ==
  ASSUME BridgeInv, NEW i \in DOMAIN out
  PROVE  /\ i \in Int /\ out[i] \in Items /\ out[i].f \in Frames
         /\ out[i].f.n \in Nat /\ out[i].conn \in Int
  <1>1. out \in Seq(Items)
    BY DEF BridgeInv, BridgeType, ReceiverType
  <1>2. i \in Int /\ out[i] \in Items
    BY <1>1, LenProperties, ElementOfSeq
  <1>3. out[i].f \in Frames /\ out[i].conn \in ConnIds
    BY <1>2 DEF Items
  <1> QED
    BY <1>2, <1>3 DEF Frames, ConnIds

LEMMA BridgeInvGivesOnce == BridgeInv => AtMostOnce
  <1> SUFFICES ASSUME BridgeInv, NEW i \in DOMAIN out, NEW j \in DOMAIN out,
                      out[i].f = out[j].f, i < j
               PROVE  FALSE
    BY OutFacts DEF AtMostOnce
  <1>1. Apart(out[i], out[j])
    BY DEF BridgeInv, DownstreamInv, DownOK
  <1> QED
    BY <1>1, OutFacts DEF Apart

LEMMA BridgeInvGivesOrder == BridgeInv => OrderedPerConnection
  <1> SUFFICES ASSUME BridgeInv, NEW i \in DOMAIN out, NEW j \in DOMAIN out, i < j,
                      out[i].conn = out[j].conn, out[i].f.topic = out[j].f.topic
               PROVE  out[i].f.n < out[j].f.n
    BY DEF OrderedPerConnection
  <1>1. Apart(out[i], out[j])
    BY DEF BridgeInv, DownstreamInv, DownOK
  <1> QED
    BY <1>1, OutFacts DEF Apart

LEMMA BridgeInvGivesNewest == BridgeInv => NewestKept
  <1> SUFFICES ASSUME BridgeInv, NEW e \in evicted, NEW i \in DOMAIN queue,
                      queue[i].topic = e.topic
               PROVE  e.n < queue[i].n
    BY DEF NewestKept
  <1>0. queue \in Seq(Frames) /\ e \in Frames
    BY DEF BridgeInv, BridgeType, SenderType
  <1>1. queue[i] \in Frames
    BY <1>0, LenProperties, ElementOfSeq
  <1>2. queue[i] \in Stages[5]
    BY StageList DEF Elems
  <1>3. Before(e, queue[i])
    <2>1. 5 \in 5..7
      OBVIOUS
    <2> QED
      BY <1>2, <2>1 DEF BridgeInv, UpstreamInv, UpOK, AllBefore
  <1> QED
    BY <1>0, <1>1, <1>3 DEF Before, Frames

(***************************************************************************)
(* A frame is popped before it is written and never written again: however *)
(* often the forwarder reconnects, and wherever a connection breaks,       *)
(* publisher_main publishes no message twice.                              *)
(***************************************************************************)
THEOREM NoMessageTwice == Spec => []AtMostOnce
  BY BridgeInvHolds, BridgeInvGivesOnce, PTL

(***************************************************************************)
(* What one connection brings to the receiver's bus is, topic by topic, in *)
(* the order in which the sender's bus had it, whatever the queue evicted  *)
(* and the connection lost.                                                *)
(***************************************************************************)
THEOREM ConnectionsKeepOrder == Spec => []OrderedPerConnection
  BY BridgeInvHolds, BridgeInvGivesOrder, PTL

(***************************************************************************)
(* Sender::send evicts the oldest frame: nothing that is still queued is   *)
(* older than what was thrown out.                                         *)
(***************************************************************************)
THEOREM QueueKeepsNewest == Spec => []NewestKept
  BY BridgeInvHolds, BridgeInvGivesNewest, PTL

=============================================================================
