--------------------------- MODULE PresenceProofs ---------------------------
(***************************************************************************)
(* Proofs about Presence, for every set of members, every cap, queue size, *)
(* TTL and number of handles and faults: unless its queue has overflowed   *)
(* or a call it cancelled has swallowed a change, a caller that applies    *)
(* the changes it is told arrives at the member table, and every change is *)
(* news.                                                                   *)
(***************************************************************************)
EXTENDS Presence, SequenceTheorems, FiniteSetTheorems,
        WellFoundedInduction, TLAPS

Changes == [member : Members, joined : BOOLEAN]
Ages == Nat \cup {Absent}
Taken == {<<>>} \cup {<<c>> : c \in Changes}

PresenceType ==
  /\ open \subseteq Members
  /\ age \in [Members -> [Members -> Ages]]
  /\ changes \in [Members -> Seq(Changes)]
  /\ got \in [Members -> Taken]
  /\ \A r \in Members : got[r] # <<>> => r \in waiting
  /\ view \in [Members -> SUBSET Members]

\* The part of ChangesTellMembers that is about one handle.
Tells(r) ==
  /\ Told(view[r], Untold(r), Len(Untold(r))) = MembersOf(r)
  /\ \A i \in DOMAIN Untold(r) :
       Untold(r)[i].joined <=> Untold(r)[i].member \notin Told(view[r], Untold(r), i - 1)

Excused == overrun \cup spoilt
AllTell == \A r \in Members : r \in open /\ r \notin Excused => Tells(r)

TellInv == PresenceType /\ AllTell

-----------------------------------------------------------------------------
(* Sequences of changes *)

LEMMA GreatestIn ==
  ASSUME NEW n \in Nat, NEW K, K \subseteq 1..n, K # {}
  PROVE  \E k \in K : \A j \in K : j <= k
  <1> DEFINE T == {n - x : x \in K}
             R == OpToRel(<, Nat)
  <1>0. \A x \in K : x \in Nat /\ n - x \in Nat
    OBVIOUS
  <1>1. T \subseteq Nat /\ T # {}
    BY <1>0
  <1>2. IsWellFoundedOn(R, Nat)
    BY NatLessThanWellFounded
  <1>3. PICK z \in T : \A y \in T : <<y, z>> \notin R
    <2> HIDE DEF R, T
    <2> QED
      BY <1>1, <1>2, WFMin
  <1>4. \A y \in T : ~(y < z)
    BY <1>1, <1>3 DEF OpToRel
  <1>5. PICK x \in K : z = n - x
    OBVIOUS
  <1>6. \A y \in K : ~(n - y < n - x)
    BY <1>4, <1>5
  <1>7. \A y \in K : y <= x
    BY <1>0, <1>6
  <1> QED
    BY <1>7

LEMMA SeqFacts ==
  ASSUME NEW S, NEW s \in Seq(S)
  PROVE  /\ DOMAIN s = 1..Len(s) /\ Len(s) \in Nat /\ \A i \in DOMAIN s : s[i] \in S
         /\ \A i \in 1..Len(s) : s[i] \in S
  BY LenProperties, ElementOfSeq

LEMMA ChangeFacts ==
  ASSUME NEW m \in Members, NEW b \in BOOLEAN
  PROVE  Change(m, b) \in Changes /\ Change(m, b).member = m /\ Change(m, b).joined = b
  BY DEF Change, Changes

\* Told looks at the first n changes only.
LEMMA ToldPrefix ==
  ASSUME NEW ms, NEW a, NEW b, NEW n \in Nat, \A i \in 1..n : a[i] = b[i]
  PROVE  Told(ms, a, n) = Told(ms, b, n)
  BY DEF Told

LEMMA ToldNone ==
  ASSUME NEW ms, ms \subseteq Members, NEW cs
  PROVE  Told(ms, cs, 0) = ms
  <1>1. 1..0 = {}
    OBVIOUS
  <1> QED
    BY <1>1 DEF Told

\* A member that the changes behind the first k do not speak of.
LEMMA ToldSame ==
  ASSUME NEW ms, NEW cs, NEW k \in Nat, NEW n \in Nat, k <= n, NEW m \in Members,
         \A j \in 1..n : j > k => cs[j].member # m
  PROVE  m \in Told(ms, cs, n) <=> m \in Told(ms, cs, k)
  <1>1. \A j \in 1..n : j \in 1..k \/ cs[j].member # m
    OBVIOUS
  <1>2. \A j \in 1..k : j \in 1..n
    OBVIOUS
  <1>3. \A j \in 1..n : cs[j] = Change(m, TRUE) => cs[j].member = m
    BY DEF Change
  <1> QED
    BY <1>1, <1>2, <1>3 DEF Told

\* A member that the change k is the last to speak of.
LEMMA ToldLast ==
  ASSUME NEW ms, NEW cs, NEW n \in Nat, NEW k \in 1..n, NEW m \in Members, cs[k] \in Changes,
         cs[k].member = m, \A j \in 1..n : cs[j].member = m => j <= k
  PROVE  m \in Told(ms, cs, n) <=> cs[k].joined
  <1>1. cs[k] = [member |-> m, joined |-> cs[k].joined] /\ cs[k].joined \in BOOLEAN
    BY DEF Changes
  <1>2. cs[k].joined => cs[k] = Change(m, TRUE)
    BY <1>1 DEF Change
  <1>3. ASSUME NEW i \in 1..n, cs[i] = Change(m, TRUE),
               \A j \in 1..n : cs[j].member = m => j <= i
        PROVE  cs[k].joined
    <2>1. cs[i].member = m /\ cs[i].joined = TRUE
      BY <1>3, ChangeFacts
    <2>2. i <= k
      BY <2>1
    <2>3. k <= i
      BY <1>3
    <2>4. i = k
      BY <2>2, <2>3
    <2> QED
      BY <2>1, <2>4
  <1> QED
    BY <1>2, <1>3 DEF Told

\* The caller takes the first change.
LEMMA ToldTail ==
  ASSUME NEW ms, NEW cs \in Seq(Changes), cs # <<>>, NEW n \in 0..(Len(cs) - 1)
  PROVE  Told(Told(ms, cs, 1), Tail(cs), n) = Told(ms, cs, n + 1)
  <1>1. /\ Len(cs) \in Nat /\ Len(cs) # 0 /\ \A i \in 1..Len(cs) : cs[i] \in Changes
    BY SeqFacts, EmptySeq
  <1>2. \A i \in 1..(Len(cs) - 1) : Tail(cs)[i] = cs[i + 1]
    BY HeadTailProperties
  <1>3. n \in Nat /\ \A i \in 1..n : Tail(cs)[i] = cs[i + 1] /\ i + 1 \in 1..(n + 1)
    BY <1>1, <1>2
  <1>4. \A i \in 1..(n + 1) : i \in 1..Len(cs) /\ (i = 1 \/ i - 1 \in 1..n)
    BY <1>1
  <1> DEFINE d == Tail(cs)
             old == Told(ms, cs, 1)
  <1> HIDE DEF d
  <1>5. \A i \in 1..n : d[i] = cs[i + 1] /\ i + 1 \in 1..(n + 1)
    BY <1>3 DEF d
  <1> SUFFICES ASSUME NEW m \in Members
               PROVE  m \in Told(old, d, n) <=> m \in Told(ms, cs, n + 1)
    BY DEF Told, d
  <1>6. CASE \E k \in 1..n : d[k].member = m
    <2> DEFINE K == {k \in 1..n : d[k].member = m}
    <2>1. PICK k \in K : \A j \in K : j <= k
      BY <1>3, <1>6, GreatestIn
    <2>2. k \in 1..n /\ d[k].member = m /\ \A j \in 1..n : d[j].member = m => j <= k
      BY <2>1
    <2>3. d[k] = cs[k + 1] /\ k + 1 \in 1..(n + 1) /\ cs[k + 1] \in Changes
      BY <1>1, <1>4, <1>5, <2>2
    <2>4. \A j \in 1..(n + 1) : cs[j].member = m => j <= k + 1
      <3> SUFFICES ASSUME NEW j \in 1..(n + 1), cs[j].member = m PROVE j <= k + 1
        OBVIOUS
      <3>1. CASE j = 1
        BY <2>2, <3>1
      <3>2. CASE j - 1 \in 1..n
        <4>1. d[j - 1] = cs[j]
          BY <1>5, <3>2
        <4> QED
          BY <2>2, <3>2, <4>1
      <3> QED
        BY <1>4, <3>1, <3>2
    <2>5. m \in Told(old, d, n) <=> d[k].joined
      BY <1>3, <2>2, <2>3, ToldLast
    <2>6. m \in Told(ms, cs, n + 1) <=> cs[k + 1].joined
      BY <1>3, <2>2, <2>3, <2>4, ToldLast
    <2> QED
      BY <2>3, <2>5, <2>6
  <1>7. CASE \A k \in 1..n : d[k].member # m
    <2>1. m \in Told(old, d, n) <=> m \in old
      <3>1. m \in Told(old, d, n) <=> m \in Told(old, d, 0)
        BY <1>3, <1>7, ToldSame
      <3>2. Told(old, d, 0) = old
        <4>1. old \subseteq Members
          BY DEF Told
        <4> HIDE DEF old
        <4> QED
          BY <4>1, ToldNone
      <3> QED
        BY <3>1, <3>2
    <2>2. \A j \in 1..(n + 1) : j > 1 => cs[j].member # m
      <3> SUFFICES ASSUME NEW j \in 1..(n + 1), j > 1 PROVE cs[j].member # m
        OBVIOUS
      <3>1. j - 1 \in 1..n /\ d[j - 1] = cs[j]
        BY <1>4, <1>5
      <3> QED
        BY <1>7, <3>1
    <2>3. m \in Told(ms, cs, n + 1) <=> m \in Told(ms, cs, 1)
      BY <1>3, <2>2, ToldSame
    <2> QED
      BY <2>1, <2>3
  <1> QED
    BY <1>6, <1>7

-----------------------------------------------------------------------------
(* Emitting changes *)

\* The changes es are about different members, and each of them is news.
Fresh(r, es) ==
  /\ es \in Seq(Changes)
  /\ \A i, j \in DOMAIN es : es[i].member = es[j].member => i = j
  /\ \A i \in DOMAIN es : es[i].joined <=> es[i].member \notin MembersOf(r)

\* They make the member table of r what it is next.
Explains(r, es) ==
  \A m \in Members :
    m \in MembersOf(r)' <=>
      \/ \E i \in DOMAIN es : es[i].member = m /\ es[i].joined
      \/ m \in MembersOf(r) /\ \A i \in DOMAIN es : es[i].member # m

LEMMA ConcatFacts ==
  ASSUME NEW S, NEW s \in Seq(S), NEW t \in Seq(S)
  PROVE  /\ s \o t \in Seq(S) /\ Len(s \o t) = Len(s) + Len(t)
         /\ Len(s) \in Nat /\ Len(t) \in Nat /\ DOMAIN s = 1..Len(s) /\ DOMAIN t = 1..Len(t)
         /\ DOMAIN (s \o t) = 1..(Len(s) + Len(t))
         /\ \A i \in 1..Len(s) : (s \o t)[i] = s[i]
         /\ \A i \in 1..Len(t) : (s \o t)[Len(s) + i] = t[i]
  <1>1. /\ s \o t \in Seq(S) /\ Len(s \o t) = Len(s) + Len(t)
        /\ \A i \in 1..(Len(s) + Len(t)) :
             (s \o t)[i] = IF i <= Len(s) THEN s[i] ELSE t[i - Len(s)]
    BY ConcatProperties
  <1>2. Len(s) \in Nat /\ Len(t) \in Nat /\ DOMAIN s = 1..Len(s) /\ DOMAIN t = 1..Len(t)
    BY SeqFacts
  <1> DEFINE a == s \o t
  <1>3. DOMAIN a = 1..Len(a)
    BY <1>1, SeqFacts
  <1> HIDE DEF a
  <1>4. \A i \in 1..Len(s) : a[i] = s[i]
    BY <1>1, <1>2 DEF a
  <1>5. \A i \in 1..Len(t) : a[Len(s) + i] = t[i]
    <2> SUFFICES ASSUME NEW i \in 1..Len(t) PROVE a[Len(s) + i] = t[i]
      OBVIOUS
    <2>1. /\ Len(s) + i \in 1..(Len(s) + Len(t)) /\ ~(Len(s) + i <= Len(s))
          /\ Len(s) + i - Len(s) = i
      BY <1>2
    <2> QED
      BY <1>1, <2>1 DEF a
  <1> QED
    BY <1>1, <1>2, <1>3, <1>4, <1>5 DEF a

LEMMA Associative ==
  ASSUME NEW a \in Seq(Changes), NEW b \in Seq(Changes), NEW c \in Seq(Changes)
  PROVE  (a \o b) \o c = a \o (b \o c)
  <1>1. /\ Len(a) \in Nat /\ Len(b) \in Nat /\ Len(c) \in Nat
        /\ a \o b \in Seq(Changes) /\ Len(a \o b) = Len(a) + Len(b)
        /\ b \o c \in Seq(Changes) /\ Len(b \o c) = Len(b) + Len(c)
    BY ConcatProperties, LenProperties
  <1>2. /\ (a \o b) \o c \in Seq(Changes) /\ a \o (b \o c) \in Seq(Changes)
        /\ Len((a \o b) \o c) = Len(a) + Len(b) + Len(c)
        /\ Len(a \o (b \o c)) = Len(a) + Len(b) + Len(c)
    BY <1>1, ConcatProperties
  <1>3. \A i \in 1..(Len(a) + Len(b) + Len(c)) : ((a \o b) \o c)[i] = (a \o (b \o c))[i]
    BY <1>1, <1>2, ConcatProperties
  <1> QED
    BY <1>2, <1>3, SeqEqual

\* What the get task has taken comes before what is queued.
LEMMA UntoldFacts ==
  ASSUME PresenceType, NEW r \in Members
  PROVE  /\ changes[r] \in Seq(Changes) /\ got[r] \in Seq(Changes)
         /\ Untold(r) \in Seq(Changes)
         /\ got[r] = <<>> => Untold(r) = changes[r]
         /\ got[r] # <<>> => \E c \in Changes : got[r] = <<c>>
  <1>1. changes[r] \in Seq(Changes) /\ got[r] \in Taken
    BY DEF PresenceType
  <1>2. ASSUME NEW c \in Changes PROVE <<c>> \in Seq(Changes)
    OBVIOUS
  <1>3. got[r] = <<>> \/ \E c \in Changes : got[r] = <<c>>
    BY <1>1 DEF Taken
  <1>4. got[r] \in Seq(Changes)
    BY <1>2, <1>3, EmptySeq
  <1>5. Untold(r) \in Seq(Changes)
    BY <1>1, <1>4, ConcatProperties DEF Untold
  <1>6. got[r] = <<>> => Untold(r) = changes[r]
    BY <1>1, ConcatEmptySeq DEF Untold
  <1> QED
    BY <1>1, <1>3, <1>4, <1>5, <1>6

LEMMA UntoldSame ==
  ASSUME NEW r, changes'[r] = changes[r], got'[r] = got[r]
  PROVE  Untold(r)' = Untold(r)
  BY DEF Untold

\* A first change and what is queued behind it.
LEMMA FirstFacts ==
  ASSUME NEW c \in Changes, NEW cs \in Seq(Changes)
  PROVE  <<c>> \o cs # <<>> /\ Tail(<<c>> \o cs) = cs /\ (<<c>> \o cs)[1] = c
  <1>1. <<c>> \in Seq(Changes) /\ Len(<<c>>) = 1 /\ <<c>>[1] = c
    OBVIOUS
  <1> DEFINE a == <<c>> \o cs
  <1>2. /\ a \in Seq(Changes) /\ Len(a) = 1 + Len(cs) /\ Len(cs) \in Nat
        /\ a[1] = c /\ \A i \in 1..Len(cs) : a[1 + i] = cs[i]
    <2>1. 1 \in 1..1
      OBVIOUS
    <2> QED
      BY <1>1, <2>1, ConcatFacts
  <1> HIDE DEF a
  <1>3. a # <<>>
    BY <1>2, EmptySeq
  <1>4. /\ Tail(a) \in Seq(Changes) /\ Len(Tail(a)) = Len(cs)
        /\ \A i \in 1..Len(cs) : Tail(a)[i] = a[i + 1]
    BY <1>2, <1>3, HeadTailProperties
  <1>5. \A i \in 1..Len(cs) : Tail(a)[i] = cs[i]
    BY <1>2, <1>4
  <1>6. Tail(a) = cs
    BY <1>4, <1>5, SeqEqual
  <1> QED
    BY <1>2, <1>3, <1>6 DEF a

\* The head and the tail of a queue make the queue.
LEMMA HeadFirst ==
  ASSUME NEW cs \in Seq(Changes), cs # <<>>
  PROVE  Head(cs) \in Changes /\ <<Head(cs)>> \o Tail(cs) = cs
  <1>1. Len(cs) \in Nat /\ Len(cs) # 0
    BY EmptySeq, LenProperties
  <1>2. SubSeq(cs, 1, Len(cs)) = <<cs[1]>> \o SubSeq(cs, 2, Len(cs))
    <2>1. 1 \in 1..Len(cs) /\ Len(cs) \in 1..Len(cs) /\ 1 + 1 = 2
      BY <1>1
    <2> QED
      BY <2>1, SubSeqRecursiveFirst
  <1>3. Head(cs) = cs[1] /\ Tail(cs) = SubSeq(cs, 2, Len(cs))
    BY TailIsSubSeq
  <1> QED
    BY <1>2, <1>3, SubSeqFull, HeadTailProperties

\* The queue keeps its type, and nothing is lost unless overrun says so.
LEMMA EmitFacts ==
  ASSUME PresenceType, NEW r \in Members, NEW es \in Seq(Changes), Emit(r, es)
  PROVE  /\ changes' \in [Members -> Seq(Changes)]
         /\ \A q \in Members : q # r => changes'[q] = changes[q]
         /\ r \notin overrun' => r \notin overrun /\ changes'[r] = changes[r] \o es
         /\ \A q \in Members : q # r => (q \in overrun' <=> q \in overrun)
  <1> DEFINE a == changes[r] \o es
             k == Len(a) - ChangesMax
             v == IF k > 0 THEN SubSeq(a, k + 1, Len(a)) ELSE a
  <1>1. changes[r] \in Seq(Changes)
    BY DEF PresenceType
  <1>2. a \in Seq(Changes) /\ Len(a) \in Nat
    BY <1>1, ConcatFacts, SeqFacts
  <1> HIDE DEF a
  <1>3. v \in Seq(Changes)
    <2>1. CASE k > 0
      <3>1. k + 1 \in 1..(Len(a) + 1) /\ ChangesMax \in Nat
        BY <1>2, <2>1, PresenceConstantsOK
      <3>2. \A i \in (k + 1)..Len(a) : a[i] \in Changes
        BY <1>2, <3>1, SeqFacts
      <3>3. SubSeq(a, k + 1, Len(a)) \in Seq(Changes)
        BY <1>2, <3>1, <3>2, SubSeqProperties
      <3> QED
        BY <2>1, <3>3
    <2>2. CASE ~(k > 0)
      BY <1>2, <2>2
    <2> QED
      BY <2>1, <2>2
  <1>4. /\ changes' = [changes EXCEPT ![r] = v]
        /\ overrun' = IF k > 0 THEN overrun \cup {r} ELSE overrun
    BY DEF Emit, a
  <1>5. k > 0 \/ v = a
    OBVIOUS
  <1> HIDE DEF v, k
  <1>6. changes' \in [Members -> Seq(Changes)]
    BY <1>3, <1>4 DEF PresenceType
  <1>7. changes'[r] = v /\ \A q \in Members : q # r => changes'[q] = changes[q]
    BY <1>4 DEF PresenceType
  <1> QED
    BY <1>4, <1>5, <1>6, <1>7 DEF a

LEMMA EmitTells ==
  ASSUME PresenceType, NEW r \in Members, Tells(r), NEW es, Fresh(r, es), Explains(r, es),
         Untold(r)' = Untold(r) \o es, view'[r] = view[r]
  PROVE  Tells(r)'
  <1> DEFINE cs == Untold(r)
             a == cs \o es
             L == Len(cs)
             ms == view[r]
  <1>1. cs \in Seq(Changes) /\ es \in Seq(Changes) /\ ms \subseteq Members
    BY UntoldFacts DEF PresenceType, Fresh
  <1>2. /\ a \in Seq(Changes) /\ Len(a) = L + Len(es)
        /\ L \in Nat /\ Len(es) \in Nat /\ DOMAIN cs = 1..L /\ DOMAIN es = 1..Len(es)
        /\ DOMAIN a = 1..(L + Len(es))
        /\ \A i \in 1..L : a[i] = cs[i]
        /\ \A i \in 1..Len(es) : a[L + i] = es[i]
    BY <1>1, ConcatFacts
  <1>3. /\ \A i, j \in 1..Len(es) : es[i].member = es[j].member => i = j
        /\ \A i \in 1..Len(es) : es[i].joined <=> es[i].member \notin MembersOf(r)
    BY <1>2 DEF Fresh
  <1>4. \A i \in 1..Len(es) : es[i] \in Changes
    BY <1>1, SeqFacts
  <1>5. /\ Told(ms, cs, L) = MembersOf(r)
        /\ \A i \in 1..L : cs[i].joined <=> cs[i].member \notin Told(ms, cs, i - 1)
    BY <1>2 DEF Tells
  <1>6. view'[r] = ms /\ Untold(r)' = a
    OBVIOUS
  <1> HIDE DEF a, L, cs, ms
  <1>7. \A n \in 0..L : Told(ms, a, n) = Told(ms, cs, n)
    <2> SUFFICES ASSUME NEW n \in 0..L PROVE Told(ms, a, n) = Told(ms, cs, n)
      OBVIOUS
    <2>1. n \in Nat /\ \A i \in 1..n : a[i] = cs[i]
      BY <1>2
    <2> QED
      BY <2>1, ToldPrefix
  \* The members that the first j of es do not speak of.
  <1>8. ASSUME NEW j \in 0..Len(es), NEW m \in Members, \A i \in 1..j : es[i].member # m
        PROVE  m \in Told(ms, a, L + j) <=> m \in MembersOf(r)
    <2>1. L + j \in Nat /\ L <= L + j /\ L \in 0..L
      BY <1>2
    <2>2. \A q \in 1..(L + j) : q > L => a[q].member # m
      <3> SUFFICES ASSUME NEW q \in 1..(L + j), q > L PROVE a[q].member # m
        OBVIOUS
      <3>1. q - L \in 1..j /\ q - L \in 1..Len(es) /\ L + (q - L) = q
        BY <1>2
      <3>2. a[q] = es[q - L]
        BY <1>2, <3>1
      <3> QED
        BY <1>8, <3>1, <3>2
    <2>3. m \in Told(ms, a, L + j) <=> m \in Told(ms, a, L)
      BY <1>2, <2>1, <2>2, ToldSame
    <2>4. Told(ms, a, L) = MembersOf(r)
      BY <1>5, <1>7, <2>1
    <2> QED
      BY <2>3, <2>4
  \* The members that es speaks of.
  <1>9. ASSUME NEW i \in 1..Len(es), NEW m \in Members, es[i].member = m
        PROVE  m \in Told(ms, a, L + Len(es)) <=> es[i].joined
    <2>1. L + Len(es) \in Nat /\ L + i \in 1..(L + Len(es)) /\ a[L + i] = es[i]
      BY <1>2
    <2>2. \A q \in 1..(L + Len(es)) : a[q].member = m => q <= L + i
      <3> SUFFICES ASSUME NEW q \in 1..(L + Len(es)), a[q].member = m PROVE q <= L + i
        OBVIOUS
      <3>1. CASE q <= L
        BY <1>2, <3>1
      <3>2. CASE q > L
        <4>1. q - L \in 1..Len(es) /\ L + (q - L) = q
          BY <1>2, <3>2
        <4>2. a[q] = es[q - L]
          BY <1>2, <4>1
        <4>3. q - L = i
          BY <1>3, <1>9, <4>1, <4>2
        <4> QED
          BY <1>2, <4>3
      <3> QED
        BY <1>2, <3>1, <3>2
    <2>3. a[L + i] \in Changes /\ a[L + i].member = m
      BY <1>4, <1>9, <2>1
    <2>4. m \in Told(ms, a, L + Len(es)) <=> a[L + i].joined
      BY <2>1, <2>2, <2>3, ToldLast
    <2> QED
      BY <2>1, <2>4
  <1>10. Told(ms, a, L + Len(es)) = MembersOf(r)'
    <2>1. ASSUME NEW m \in Members
          PROVE  m \in Told(ms, a, L + Len(es)) <=> m \in MembersOf(r)'
      <3>1. CASE \E i \in 1..Len(es) : es[i].member = m
        <4>1. PICK i \in 1..Len(es) : es[i].member = m
          BY <3>1
        <4>2. m \in Told(ms, a, L + Len(es)) <=> es[i].joined
          BY <1>9, <4>1
        <4>3. m \in MembersOf(r)' <=> es[i].joined
          BY <1>2, <1>3, <4>1 DEF Explains
        <4> QED
          BY <4>2, <4>3
      <3>2. CASE \A i \in 1..Len(es) : es[i].member # m
        <4>1. Len(es) \in 0..Len(es)
          BY <1>2
        <4>2. m \in Told(ms, a, L + Len(es)) <=> m \in MembersOf(r)
          BY <1>8, <3>2, <4>1
        <4>3. m \in MembersOf(r)' <=> m \in MembersOf(r)
          BY <1>2, <3>2 DEF Explains
        <4> QED
          BY <4>2, <4>3
      <3> QED
        BY <3>1, <3>2
    <2>2. Told(ms, a, L + Len(es)) \subseteq Members /\ MembersOf(r)' \subseteq Members
      BY DEF Told, MembersOf
    <2> QED
      BY <2>1, <2>2
  <1>11. ASSUME NEW i \in 1..(L + Len(es))
         PROVE  a[i].joined <=> a[i].member \notin Told(ms, a, i - 1)
    <2>1. CASE i <= L
      <3>1. i \in 1..L /\ i - 1 \in 0..L
        BY <1>2, <2>1
      <3>2. a[i] = cs[i] /\ Told(ms, a, i - 1) = Told(ms, cs, i - 1)
        BY <1>2, <1>7, <3>1
      <3> QED
        BY <1>5, <3>1, <3>2
    <2>2. CASE i > L
      <3>1. PICK q \in 1..Len(es) : i = L + q
        <4>1. i - L \in 1..Len(es) /\ i = L + (i - L)
          BY <1>2, <2>2
        <4> QED
          BY <4>1
      <3>2. /\ a[i] = es[q] /\ q - 1 \in 0..Len(es) /\ i - 1 = L + (q - 1)
            /\ \A p \in 1..(q - 1) : p \in 1..Len(es) /\ p # q
        BY <1>2, <3>1
      <3>3. es[q].member \in Members /\ \A p \in 1..(q - 1) : es[p].member # es[q].member
        BY <1>3, <1>4, <3>2 DEF Changes
      <3>4. es[q].member \in Told(ms, a, L + (q - 1)) <=> es[q].member \in MembersOf(r)
        BY <1>8, <3>2, <3>3
      <3> QED
        BY <1>3, <3>2, <3>4
    <2> QED
      BY <1>2, <2>1, <2>2
  <1> QED
    BY <1>2, <1>6, <1>10, <1>11 DEF Tells

-----------------------------------------------------------------------------
(* The steps *)

LEMMA TellsIff ==
  ASSUME PresenceType
  PROVE  ChangesTellMembers <=> AllTell
  <1>1. \A r \in Members : \A i \in DOMAIN Untold(r) : Untold(r)[i].joined \in BOOLEAN
    <2> SUFFICES ASSUME NEW r \in Members, NEW i \in DOMAIN Untold(r)
                 PROVE  Untold(r)[i].joined \in BOOLEAN
      OBVIOUS
    <2>1. Untold(r) \in Seq(Changes)
      BY UntoldFacts
    <2>2. Untold(r)[i] \in Changes
      BY <2>1, SeqFacts
    <2> QED
      BY <2>2 DEF Changes
  <1>2. \A r \in Members : \A i \in DOMAIN Untold(r) :
          (Untold(r)[i].joined
            = (Untold(r)[i].member \notin Told(view[r], Untold(r), i - 1))) <=>
          (Untold(r)[i].joined
            <=> Untold(r)[i].member \notin Told(view[r], Untold(r), i - 1))
    BY <1>1
  <1> QED
    BY <1>2 DEF ChangesTellMembers, AllTell, Tells, Excused

\* A step that touches the row of r alone: it is enough that r is told.
LEMMA OnlyRow ==
  ASSUME TellInv, PresenceType', NEW r \in Members,
         \A q \in Members : q # r =>
           /\ q \in open' => q \in open
           /\ q \notin Excused' => q \notin Excused
           /\ age'[q] = age[q] /\ changes'[q] = changes[q] /\ got'[q] = got[q]
           /\ view'[q] = view[q],
         r \in open' /\ r \notin Excused' => Tells(r)'
  PROVE  TellInv'
  <1> SUFFICES ASSUME NEW q \in Members, q \in open', q \notin Excused'
               PROVE  Tells(q)'
    BY DEF TellInv, AllTell
  <1>1. CASE q = r
    BY <1>1
  <1>2. CASE q # r
    <2>1. Tells(q)
      BY <1>2 DEF TellInv, AllTell
    <2>2. age'[q] = age[q] /\ Untold(q)' = Untold(q) /\ view'[q] = view[q]
      BY <1>2, UntoldSame
    <2>3. MembersOf(q)' = MembersOf(q)
      BY <2>2 DEF MembersOf
    <2> QED
      BY <2>1, <2>2, <2>3 DEF Tells
  <1> QED
    BY <1>1, <1>2

LEMMA InitTells == Init => TellInv
  <1> SUFFICES ASSUME Init PROVE TellInv
    OBVIOUS
  <1>1. <<>> \in Seq(Changes)
    BY EmptySeq
  <1>2. PresenceType
    BY <1>1 DEF Init, PresenceType, Ages, Taken
  <1>3. AllTell
    BY DEF AllTell, Init
  <1> QED
    BY <1>2, <1>3 DEF TellInv

LEMMA ResetOthers ==
  ASSUME PresenceType, NEW m \in Members, NEW ms, Reset(m, ms)
  PROVE  \A q \in Members : q # m =>
           /\ q \notin Excused' => q \notin Excused
           /\ changes'[q] = changes[q] /\ got'[q] = got[q] /\ view'[q] = view[q]
  BY DEF PresenceType, Reset, Excused

\* A new handle knows of itself, and so does its caller.
LEMMA EnterTells ==
  ASSUME TellInv, NEW m \in Members, Enter(m)
  PROVE  TellInv'
  <1>0. PresenceType
    BY DEF TellInv
  <1>1. <<>> \in Seq(Changes) /\ Len(<<>>) = 0 /\ DOMAIN <<>> = {}
    BY EmptySeq, SeqFacts
  <1> DEFINE row == [x \in Members |-> IF x = m THEN 0 ELSE Absent]
  <1>2. row \in [Members -> Ages]
    BY DEF Ages
  <1>3. open' = open \cup {m} /\ age' = [age EXCEPT ![m] = row] /\ Reset(m, {m})
    BY DEF Enter
  <1>4. \A x \in Members : row[x] # Absent <=> x = m
    BY DEF Absent
  <1> HIDE DEF row
  <1>5. PresenceType'
    BY <1>0, <1>1, <1>2, <1>3 DEF PresenceType, Reset, Taken
  <1>6. age'[m] = row /\ changes'[m] = <<>> /\ got'[m] = <<>> /\ view'[m] = {m}
    BY <1>0, <1>3 DEF PresenceType, Reset
  <1>7. MembersOf(m)' = {m}
    BY <1>4, <1>6 DEF MembersOf
  <1>8. Told({m}, <<>>, 0) = {m}
    BY ToldNone
  <1>9. Tells(m)'
    <2>1. Untold(m)' = <<>>
      BY <1>1, <1>6, ConcatEmptySeq DEF Untold
    <2> QED
      BY <1>1, <1>6, <1>7, <1>8, <2>1 DEF Tells
  <1>10. \A q \in Members : q # m => (q \in open' => q \in open) /\ age'[q] = age[q]
    BY <1>0, <1>3 DEF PresenceType
  <1> QED
    BY <1>0, <1>3, <1>5, <1>9, <1>10, ResetOthers, OnlyRow

\* A handle that is gone is told nothing.
LEMMA ForgetTells ==
  ASSUME TellInv, NEW m \in Members, Forget(m)
  PROVE  TellInv'
  <1>0. PresenceType
    BY DEF TellInv
  <1>1. <<>> \in Seq(Changes)
    BY EmptySeq
  <1> DEFINE row == [x \in Members |-> Absent]
  <1>2. row \in [Members -> Ages]
    BY DEF Ages
  <1>3. open' = open \ {m} /\ age' = [age EXCEPT ![m] = row] /\ Reset(m, {})
    BY DEF Forget
  <1> HIDE DEF row
  <1>4. PresenceType'
    BY <1>0, <1>1, <1>2, <1>3 DEF PresenceType, Reset, Taken
  <1>5. \A q \in Members : q # m => (q \in open' => q \in open) /\ age'[q] = age[q]
    BY <1>0, <1>3 DEF PresenceType
  <1>6. m \notin open'
    BY <1>3
  <1> QED
    BY <1>0, <1>3, <1>4, <1>5, <1>6, ResetOthers, OnlyRow

\* A step on the links, or none.
LEMMA SameTells ==
  ASSUME TellInv, UNCHANGED <<open, age, changes, iter, view, overrun>>
  PROVE  TellInv'
  <1>1. PresenceType'
    BY DEF TellInv, PresenceType, iter
  <1>2. \A r \in Members : MembersOf(r)' = MembersOf(r) /\ Untold(r)' = Untold(r)
    BY DEF MembersOf, Untold, iter
  <1>3. \A r \in Members : Tells(r) => Tells(r)'
    BY <1>2 DEF Tells
  <1> QED
    BY <1>1, <1>3 DEF TellInv, AllTell, Excused, iter

\* Time passes: nobody comes and nobody goes.
LEMMA TickTells ==
  ASSUME TellInv, Tick
  PROVE  TellInv'
  <1>0. PresenceType
    BY DEF TellInv
  <1>1. UNCHANGED <<open, changes, iter, view, overrun>>
    BY DEF Tick, notes
  <1>2. \A r, m \in Members : age[r][m] \in Ages
    BY <1>0 DEF PresenceType
  <1>3. age' = [r \in Members |-> [m \in Members |->
          IF age[r][m] = Absent \/ age[r][m] > TTL THEN age[r][m] ELSE age[r][m] + 1]]
    BY DEF Tick
  <1>4. \A r, m \in Members : age'[r][m] \in Ages /\ (age'[r][m] = Absent <=> age[r][m] = Absent)
    <2> SUFFICES ASSUME NEW r \in Members, NEW m \in Members
                 PROVE  age'[r][m] \in Ages /\ (age'[r][m] = Absent <=> age[r][m] = Absent)
      OBVIOUS
    <2>1. age'[r][m] = IF age[r][m] = Absent \/ age[r][m] > TTL THEN age[r][m]
                                                              ELSE age[r][m] + 1
      BY <1>3
    <2> QED
      BY <1>2, <2>1, PresenceConstantsOK DEF Ages, Absent
  <1>5. age' \in [Members -> [Members -> Ages]]
    BY <1>3, <1>4
  <1>6. PresenceType'
    BY <1>0, <1>1, <1>5 DEF PresenceType, iter
  <1>7. \A r \in Members : MembersOf(r)' = MembersOf(r) /\ Untold(r)' = Untold(r)
    BY <1>1, <1>4 DEF MembersOf, Untold, iter
  <1>8. \A r \in Members : Tells(r) => Tells(r)'
    BY <1>1, <1>7 DEF Tells
  <1> QED
    BY <1>1, <1>6, <1>8 DEF TellInv, AllTell, Excused, iter

\* A step of one handle that emits the changes es with the new table.
LEMMA EmitStep ==
  ASSUME TellInv, NEW r \in Members, r \in open, NEW es, Fresh(r, es), Explains(r, es), Emit(r, es),
         age' \in [Members -> [Members -> Ages]], \A q \in Members : q # r => age'[q] = age[q],
         UNCHANGED <<open, iter, view>>
  PROVE  TellInv'
  <1>0. PresenceType /\ es \in Seq(Changes)
    BY DEF TellInv, Fresh
  <1>1. /\ changes' \in [Members -> Seq(Changes)]
        /\ \A q \in Members : q # r => changes'[q] = changes[q]
        /\ r \notin overrun' => r \notin overrun /\ changes'[r] = changes[r] \o es
        /\ \A q \in Members : q # r => (q \in overrun' <=> q \in overrun)
    BY <1>0, EmitFacts
  <1>2. PresenceType'
    BY <1>0, <1>1 DEF PresenceType, iter
  <1>3. ASSUME r \notin Excused' PROVE Tells(r)'
    <2>1. /\ Tells(r) /\ changes'[r] = changes[r] \o es /\ got'[r] = got[r]
          /\ view'[r] = view[r]
      BY <1>1, <1>3 DEF TellInv, AllTell, Excused, iter
    <2>2. Untold(r)' = Untold(r) \o es
      <3>1. Untold(r)' = got[r] \o (changes[r] \o es)
        BY <2>1 DEF Untold
      <3>2. changes[r] \in Seq(Changes) /\ got[r] \in Seq(Changes)
        BY <1>0, UntoldFacts
      <3>3. (got[r] \o changes[r]) \o es = got[r] \o (changes[r] \o es)
        BY <1>0, <3>2, Associative
      <3> QED
        BY <3>1, <3>3 DEF Untold
    <2> QED
      BY <1>0, <2>1, <2>2, EmitTells
  <1>4. \A q \in Members : q # r =>
          /\ q \in open' => q \in open
          /\ q \notin Excused' => q \notin Excused
          /\ age'[q] = age[q] /\ changes'[q] = changes[q] /\ got'[q] = got[q]
          /\ view'[q] = view[q]
    BY <1>1 DEF Excused, iter
  <1> QED
    BY <1>2, <1>3, <1>4, OnlyRow

\* One member comes, or goes, or stays what it is.
LEMMA OneChange ==
  ASSUME TellInv, NEW r \in Members, NEW m \in Members, NEW b \in BOOLEAN, NEW es,
         es = IF (m \in MembersOf(r)) <=> b THEN <<>> ELSE <<Change(m, b)>>,
         r \in open, Emit(r, es), NEW v \in Ages, v # Absent <=> b,
         age' = [age EXCEPT ![r][m] = v], UNCHANGED <<open, iter, view>>
  PROVE  TellInv'
  <1>0. PresenceType
    BY DEF TellInv
  <1>1. /\ age' \in [Members -> [Members -> Ages]] /\ \A q \in Members : q # r => age'[q] = age[q]
        /\ age'[r][m] = v /\ \A x \in Members : x # m => age'[r][x] = age[r][x]
    BY <1>0 DEF PresenceType
  <1>2. /\ m \in MembersOf(r)' <=> b
        /\ \A x \in Members : x # m => (x \in MembersOf(r)' <=> x \in MembersOf(r))
    BY <1>1 DEF MembersOf
  <1>3. CASE (m \in MembersOf(r)) <=> b
    <2>1. es = <<>> /\ es \in Seq(Changes) /\ DOMAIN es = {}
      BY <1>3, EmptySeq, SeqFacts
    <2>2. Fresh(r, es)
      BY <2>1 DEF Fresh
    <2>3. Explains(r, es)
      BY <1>2, <1>3, <2>1 DEF Explains
    <2> QED
      BY <1>1, <2>2, <2>3, EmitStep
  <1>4. CASE ~((m \in MembersOf(r)) <=> b)
    <2> DEFINE c == Change(m, b)
    <2>1. c \in Changes /\ c.member = m /\ c.joined = b
      BY ChangeFacts
    <2> HIDE DEF c
    <2>2. es = <<c>>
      BY <1>4 DEF c
    <2>3. es \in Seq(Changes) /\ DOMAIN es = {1} /\ es[1] = c
      <3>1. <<c>> \in Seq(Changes)
        BY <2>1
      <3>2. Len(<<c>>) = 1 /\ <<c>>[1] = c /\ 1..1 = {1}
        OBVIOUS
      <3>3. DOMAIN <<c>> = 1..Len(<<c>>)
        BY <3>1, SeqFacts
      <3> QED
        BY <2>2, <3>1, <3>2, <3>3
    <2>4. Fresh(r, es)
      BY <1>4, <2>1, <2>3 DEF Fresh
    <2>5. Explains(r, es)
      BY <1>2, <1>4, <2>1, <2>3 DEF Explains
    <2> QED
      BY <1>1, <2>4, <2>5, EmitStep
  <1> QED
    BY <1>3, <1>4

LEMMA ConsumeTells ==
  ASSUME TellInv, NEW r \in Members, NEW m \in Members, Consume(r, m)
  PROVE  TellInv'
  <1>1. UNCHANGED <<open, iter, view>>
    BY DEF Consume
  <1>2. CASE UNCHANGED <<age, changes, overrun>>
    BY <1>1, <1>2, SameTells
  <1>3. CASE r \in open /\ ApplyLeave(r, m)
    <2>1. PICK es : es = IF (m \in MembersOf(r)) <=> FALSE THEN <<>> ELSE <<Change(m, FALSE)>>
      OBVIOUS
    <2>2. Emit(r, es)
      BY <1>3, <2>1 DEF ApplyLeave
    <2>3. age' = [age EXCEPT ![r][m] = Absent] /\ Absent \in Ages
      BY <1>3 DEF ApplyLeave, Ages
    <2> QED
      BY <1>1, <1>3, <2>1, <2>2, <2>3, OneChange
  <1>4. CASE r \in open /\ age' = [age EXCEPT ![r][m] = 0]
             /\ Emit(r, IF m \in MembersOf(r) THEN <<>> ELSE <<Change(m, TRUE)>>)
    <2>1. PICK es : es = IF (m \in MembersOf(r)) <=> TRUE THEN <<>> ELSE <<Change(m, TRUE)>>
      OBVIOUS
    <2>2. Emit(r, es)
      BY <1>4, <2>1
    <2>3. 0 \in Ages /\ 0 # Absent
      BY DEF Absent, Ages
    <2> QED
      BY <1>1, <1>4, <2>1, <2>2, <2>3, OneChange
  <1>5. \/ UNCHANGED <<age, changes, overrun>>
        \/ r \in open /\ ApplyLeave(r, m)
        \/ r \in open /\ ApplyPresent(r, m, Head(link[m][r]))
    BY DEF Consume
  <1> QED
    BY <1>2, <1>3, <1>4, <1>5 DEF ApplyPresent

\* A scan tells of each member that it evicts, once.
LEMMA EvictTells ==
  ASSUME TellInv, NEW r \in Members, Evict(r)
  PROVE  TellInv'
  <1>0. PresenceType
    BY DEF TellInv
  <1> DEFINE E == Expired(r)
             n == Cardinality(E)
             row == [m \in Members |-> IF m \in E THEN Absent ELSE age[r][m]]
  <1>1. E \subseteq Members
    BY DEF Expired
  <1>2. n \in Nat
    BY <1>1, FS_Subset, FS_CardinalityType, PresenceConstantsOK
  <1>3. \A m \in E : m \in MembersOf(r)
    <2> SUFFICES ASSUME NEW m \in E PROVE m \in MembersOf(r)
      OBVIOUS
    <2>1. m \in Members /\ age[r][m] > TTL
      BY DEF Expired
    <2> QED
      BY <2>1, PresenceConstantsOK DEF MembersOf, Absent
  <1>4. /\ r \in open /\ UNCHANGED <<open, iter, view>>
        /\ age' = [age EXCEPT ![r] = row]
        /\ \E ms \in Bijection(1..n, E) : Emit(r, [i \in DOMAIN ms |-> Change(ms[i], FALSE)])
    BY DEF Evict
  <1> HIDE DEF E, n
  <1>5. row \in [Members -> Ages]
    BY <1>0 DEF PresenceType, Ages
  <1>6. \A m \in Members : row[m] # Absent <=> m \in MembersOf(r) /\ m \notin E
    BY DEF MembersOf
  <1> HIDE DEF row
  <1>7. age' \in [Members -> [Members -> Ages]] /\ \A q \in Members : q # r => age'[q] = age[q]
    BY <1>0, <1>4, <1>5 DEF PresenceType
  <1>8. \A m \in Members : m \in MembersOf(r)' <=> m \in MembersOf(r) /\ m \notin E
    <2>1. age'[r] = row
      BY <1>0, <1>4 DEF PresenceType
    <2> QED
      BY <1>6, <2>1 DEF MembersOf
  <1>9. PICK ms \in Bijection(1..n, E) : Emit(r, [i \in DOMAIN ms |-> Change(ms[i], FALSE)])
    BY <1>4
  <1>10. /\ ms \in [1..n -> E] /\ \A i, j \in 1..n : ms[i] = ms[j] => i = j
         /\ \A m \in E : \E i \in 1..n : ms[i] = m
    BY <1>9 DEF Bijection, Injection, Surjection, IsInjective
  <1> DEFINE es == [i \in 1..n |-> Change(ms[i], FALSE)]
  <1>11. Emit(r, es)
    BY <1>9, <1>10
  <1>12. \A i \in 1..n : Change(ms[i], FALSE) \in Changes
                         /\ Change(ms[i], FALSE).member = ms[i] /\ ~Change(ms[i], FALSE).joined
    BY <1>1, <1>10, ChangeFacts
  <1>13. es \in Seq(Changes)
    <2>1. es \in [1..n -> Changes]
      BY <1>12
    <2> HIDE DEF es
    <2> QED
      BY <1>2, <2>1, SeqDef
  <1>14. DOMAIN es = 1..n /\ \A i \in 1..n : es[i].member = ms[i] /\ ~es[i].joined
    BY <1>12
  <1> HIDE DEF es
  <1>15. Fresh(r, es)
    BY <1>3, <1>10, <1>13, <1>14 DEF Fresh
  <1>16. Explains(r, es)
    BY <1>8, <1>10, <1>14 DEF Explains
  <1> QED
    BY <1>4, <1>7, <1>11, <1>15, <1>16, EmitStep

\* What the caller is told moves from the front of the queue to its view.
LEMMA TellFirst ==
  ASSUME PresenceType, NEW r \in Members, Tells(r), Untold(r) # <<>>,
         Untold(r)' = Tail(Untold(r)), view'[r] = Told(view[r], Untold(r), 1),
         age'[r] = age[r]
  PROVE  Tells(r)'
  <1> DEFINE cs == Untold(r)
             ms == view[r]
             d == Tail(cs)
             told == Told(ms, cs, 1)
  <1>0. cs \in Seq(Changes) /\ cs # <<>>
    BY UntoldFacts
  <1>1. Untold(r)' = d /\ view'[r] = told
    OBVIOUS
  <1>2. /\ Told(ms, cs, Len(cs)) = MembersOf(r)
        /\ \A i \in DOMAIN cs : cs[i].joined <=> cs[i].member \notin Told(ms, cs, i - 1)
    BY DEF Tells
  <1> HIDE DEF cs, ms
  <1>3. Len(cs) \in Nat /\ Len(cs) # 0 /\ DOMAIN cs = 1..Len(cs)
    BY <1>0, SeqFacts, EmptySeq
  <1>4. Tail(cs) \in Seq(Changes) /\ Len(Tail(cs)) = Len(cs) - 1
        /\ \A i \in 1..(Len(cs) - 1) : Tail(cs)[i] = cs[i + 1]
    BY <1>0, HeadTailProperties
  <1>5. DOMAIN Tail(cs) = 1..(Len(cs) - 1)
    BY <1>4, SeqFacts
  <1>6. \A i \in 0..(Len(cs) - 1) : Told(told, d, i) = Told(ms, cs, i + 1)
    BY <1>0, ToldTail
  <1> HIDE DEF d, told
  <1>7. MembersOf(r)' = MembersOf(r)
    BY DEF MembersOf
  <1>8. Told(told, d, Len(d)) = MembersOf(r)
    <2>1. Len(d) = Len(cs) - 1 /\ Len(d) \in 0..(Len(cs) - 1) /\ Len(d) + 1 = Len(cs)
      BY <1>3, <1>4 DEF d
    <2>2. Told(told, d, Len(d)) = Told(ms, cs, Len(d) + 1)
      BY <1>6, <2>1
    <2> QED
      BY <1>2, <2>1, <2>2
  <1>9. ASSUME NEW i \in DOMAIN d
        PROVE  d[i].joined <=> d[i].member \notin Told(told, d, i - 1)
    <2>1. /\ i \in 1..(Len(cs) - 1) /\ i + 1 \in 1..Len(cs) /\ i - 1 \in 0..(Len(cs) - 1)
          /\ (i + 1) - 1 = i /\ (i - 1) + 1 = i
      BY <1>3, <1>5 DEF d
    <2>2. d[i] = cs[i + 1]
      BY <1>4, <2>1 DEF d
    <2>3. Told(told, d, i - 1) = Told(ms, cs, (i - 1) + 1)
      BY <1>6, <2>1
    <2>4. cs[i + 1].joined <=> cs[i + 1].member \notin Told(ms, cs, (i + 1) - 1)
      BY <1>2, <1>3, <2>1
    <2> QED
      BY <2>1, <2>2, <2>3, <2>4
  <1> QED
    BY <1>1, <1>7, <1>8, <1>9 DEF Tells

\* The queue of one handle keeps what it holds, or its caller is told the first.
AnextTells(r) ==
  \/ Untold(r)' = Untold(r) /\ view'[r] = view[r]
  \/ /\ Untold(r) # <<>> /\ Untold(r)' = Tail(Untold(r))
     /\ view'[r] = Told(view[r], Untold(r), 1)

LEMMA AnextRow ==
  ASSUME TellInv, PresenceType', NEW r \in Members, UNCHANGED <<open, age, overrun>>,
         spoilt \subseteq spoilt' /\ spoilt' \subseteq spoilt \cup {r},
         \A q \in Members : q # r =>
           changes'[q] = changes[q] /\ got'[q] = got[q] /\ view'[q] = view[q],
         r \in spoilt' \/ AnextTells(r)
  PROVE  TellInv'
  <1>1. ASSUME r \in open, r \notin Excused' PROVE Tells(r)'
    <2>1. PresenceType /\ Tells(r) /\ AnextTells(r)
      BY <1>1 DEF TellInv, AllTell, Excused
    <2>2. CASE Untold(r)' = Untold(r) /\ view'[r] = view[r]
      <3>1. MembersOf(r)' = MembersOf(r)
        BY DEF MembersOf
      <3> QED
        BY <2>1, <2>2, <3>1 DEF Tells
    <2>3. CASE /\ Untold(r) # <<>> /\ Untold(r)' = Tail(Untold(r))
               /\ view'[r] = Told(view[r], Untold(r), 1)
      BY <2>1, <2>3, TellFirst
    <2> QED
      BY <2>1, <2>2, <2>3 DEF AnextTells
  <1>2. \A q \in Members : q \notin Excused' => q \notin Excused
    BY DEF Excused
  <1> QED
    BY <1>1, <1>2, OnlyRow

LEMMA ToldType ==
  ASSUME NEW ms, NEW cs, NEW n
  PROVE  Told(ms, cs, n) \subseteq Members
  BY DEF Told

LEMMA NextTells ==
  ASSUME TellInv, NEW r \in Members, NextQueued(r) \/ NextAwaited(r)
  PROVE  TellInv'
  <1>0. PresenceType
    BY DEF TellInv
  <1>1. CASE NextQueued(r)
    <2>1. /\ got[r] = <<>> /\ changes[r] # <<>> /\ changes[r] \in Seq(Changes)
          /\ Untold(r) = changes[r]
      BY <1>0, <1>1, UntoldFacts DEF NextQueued, PresenceType
    <2>2. /\ UNCHANGED <<open, age, overrun, waiting, got, spoilt>>
          /\ changes' = [changes EXCEPT ![r] = Tail(changes[r])]
          /\ view' = [view EXCEPT ![r] = Told(view[r], changes[r], 1)]
      BY <1>1 DEF NextQueued, iter
    <2>3. Tail(changes[r]) \in Seq(Changes) /\ Told(view[r], changes[r], 1) \subseteq Members
      BY <2>1, HeadTailProperties, ToldType
    <2>4. PresenceType'
      BY <1>0, <2>2, <2>3 DEF PresenceType
    <2>5. /\ changes'[r] = Tail(changes[r]) /\ view'[r] = Told(view[r], changes[r], 1)
          /\ \A q \in Members : q # r => changes'[q] = changes[q] /\ view'[q] = view[q]
      BY <1>0, <2>2 DEF PresenceType
    <2>6. Untold(r)' = changes'[r]
      BY <2>1, <2>2, <2>3, <2>5, ConcatEmptySeq DEF Untold
    <2>7. AnextTells(r)
      BY <2>1, <2>5, <2>6 DEF AnextTells
    <2> QED
      BY <2>2, <2>4, <2>5, <2>7, AnextRow
  <1>2. CASE NextAwaited(r)
    <2>1. PICK c \in Changes : got[r] = <<c>>
      BY <1>0, <1>2, UntoldFacts DEF NextAwaited
    <2>2. /\ UNCHANGED <<open, age, overrun, changes, spoilt>>
          /\ waiting' = waiting \ {r} /\ got' = [got EXCEPT ![r] = <<>>]
          /\ view' = [view EXCEPT ![r] = Told(view[r], got[r], 1)]
      BY <1>2 DEF NextAwaited
    <2>3. Told(view[r], got[r], 1) \subseteq Members /\ <<>> \in Taken
      BY ToldType DEF Taken
    <2>4. PresenceType'
      BY <1>0, <2>2, <2>3 DEF PresenceType
    <2>5. /\ got'[r] = <<>> /\ view'[r] = Told(view[r], got[r], 1)
          /\ \A q \in Members : q # r => got'[q] = got[q] /\ view'[q] = view[q]
      BY <1>0, <2>2 DEF PresenceType
    <2>6. changes[r] \in Seq(Changes) /\ Untold(r) = <<c>> \o changes[r]
      BY <1>0, <2>1, UntoldFacts DEF Untold
    <2>7. Untold(r) # <<>> /\ Tail(Untold(r)) = changes[r] /\ Untold(r)[1] = c
      BY <2>6, FirstFacts
    <2>8. Untold(r)' = changes[r]
      BY <2>2, <2>5, <2>6, ConcatEmptySeq DEF Untold
    <2>9. Told(view[r], got[r], 1) = Told(view[r], Untold(r), 1)
      <3>1. \A i \in 1..1 : got[r][i] = Untold(r)[i]
        BY <2>1, <2>7
      <3> QED
        BY <3>1, ToldPrefix
    <2>10. AnextTells(r)
      BY <2>5, <2>7, <2>8, <2>9 DEF AnextTells
    <2> QED
      BY <2>2, <2>4, <2>5, <2>10, AnextRow
  <1> QED
    BY <1>1, <1>2

LEMMA WaitTells ==
  ASSUME TellInv, NEW r \in Members, AwaitChange(r) \/ GetTask(r)
  PROVE  TellInv'
  <1>0. PresenceType
    BY DEF TellInv
  <1>1. CASE AwaitChange(r)
    <2>1. UNCHANGED <<open, age, overrun, changes, got, spoilt, view>>
          /\ waiting' = waiting \cup {r}
      BY <1>1 DEF AwaitChange, notes
    <2>2. PresenceType'
      BY <1>0, <2>1 DEF PresenceType
    <2>3. AnextTells(r)
      BY <2>1, UntoldSame DEF AnextTells
    <2> QED
      BY <2>1, <2>2, <2>3, AnextRow
  <1>2. CASE GetTask(r)
    <2>1. /\ UNCHANGED <<open, age, overrun, waiting, spoilt, view>> /\ r \in waiting
          /\ got[r] = <<>> /\ changes[r] # <<>>
          /\ got' = [got EXCEPT ![r] = <<Head(changes[r])>>]
          /\ changes' = [changes EXCEPT ![r] = Tail(changes[r])]
      BY <1>2 DEF GetTask, notes
    <2>2. Untold(r) = changes[r] /\ changes[r] \in Seq(Changes)
      BY <1>0, <2>1, UntoldFacts
    <2>3. /\ Head(changes[r]) \in Changes /\ Tail(changes[r]) \in Seq(Changes)
          /\ <<Head(changes[r])>> \o Tail(changes[r]) = changes[r]
      BY <2>1, <2>2, HeadFirst, HeadTailProperties
    <2>4. <<Head(changes[r])>> \in Taken
      BY <2>3 DEF Taken
    <2>5. PresenceType'
      BY <1>0, <2>1, <2>3, <2>4 DEF PresenceType
    <2>6. /\ got'[r] = <<Head(changes[r])>> /\ changes'[r] = Tail(changes[r])
          /\ \A q \in Members : q # r => got'[q] = got[q] /\ changes'[q] = changes[q]
      BY <1>0, <2>1 DEF PresenceType
    <2>7. Untold(r)' = Untold(r)
      BY <2>2, <2>3, <2>6 DEF Untold
    <2>8. AnextTells(r)
      BY <2>1, <2>7 DEF AnextTells
    <2> QED
      BY <2>1, <2>5, <2>6, <2>8, AnextRow
  <1> QED
    BY <1>1, <1>2

\* A call is cancelled: a change it has taken is lost, and spoilt says so.
LEMMA CancelTells ==
  ASSUME TellInv, NEW r \in Members, CancelNext(r) \/ Swallow(r)
  PROVE  TellInv'
  <1>0. PresenceType
    BY DEF TellInv
  <1>1. CASE CancelNext(r)
    <2>1. /\ UNCHANGED <<open, age, overrun, changes, view>>
          /\ waiting' = waiting \ {r} /\ got' = [got EXCEPT ![r] = <<>>]
          /\ IF got[r] = <<>> THEN spoilt' = spoilt ELSE spoilt' = spoilt \cup {r}
      BY <1>1 DEF CancelNext, notes
    <2>2. PresenceType'
      BY <1>0, <2>1 DEF PresenceType, Taken
    <2>3. /\ got'[r] = <<>>
          /\ \A q \in Members : q # r => got'[q] = got[q]
      BY <1>0, <2>1 DEF PresenceType
    <2>4. r \in spoilt' \/ AnextTells(r)
      BY <2>1, <2>3, UntoldSame DEF AnextTells
    <2> QED
      BY <2>1, <2>2, <2>3, <2>4, AnextRow
  <1>2. CASE Swallow(r)
    <2>1. /\ UNCHANGED <<open, age, overrun, waiting, got, view>> /\ changes[r] # <<>>
          /\ changes' = [changes EXCEPT ![r] = Tail(changes[r])]
          /\ spoilt' = spoilt \cup {r}
      BY <1>2 DEF Swallow, notes
    <2>2. Tail(changes[r]) \in Seq(Changes)
      BY <1>0, <2>1, HeadTailProperties DEF PresenceType
    <2>3. PresenceType'
      BY <1>0, <2>1, <2>2 DEF PresenceType
    <2>4. \A q \in Members : q # r => changes'[q] = changes[q]
      BY <1>0, <2>1 DEF PresenceType
    <2> QED
      BY <2>1, <2>3, <2>4, AnextRow
  <1> QED
    BY <1>1, <1>2

LEMMA StepTells == TellInv /\ [Next]_vars => TellInv'
  <1> SUFFICES ASSUME TellInv, [Next]_vars PROVE TellInv'
    OBVIOUS
  <1>1. ASSUME NEW m \in Members, Enter(m) PROVE TellInv'
    BY <1>1, EnterTells
  <1>2. ASSUME NEW m \in Members, Exit(m) PROVE TellInv'
    BY <1>2, ForgetTells DEF Exit
  <1>3. ASSUME NEW m \in Members, Kill(m) PROVE TellInv'
    BY <1>3, ForgetTells DEF Kill
  <1>4. ASSUME NEW m \in Members, Heartbeat(m) PROVE TellInv'
    BY <1>4, SameTells DEF Heartbeat, notes
  <1>5. ASSUME NEW r \in Members, NEW m \in Members, Consume(r, m) PROVE TellInv'
    BY <1>5, ConsumeTells
  <1>6. ASSUME NEW r \in Members, NEW m \in Members, Lose(r, m) PROVE TellInv'
    BY <1>6, SameTells DEF Lose, notes
  <1>7. CASE Tick
    BY <1>7, TickTells
  <1>8. ASSUME NEW r \in Members, Evict(r) PROVE TellInv'
    BY <1>8, EvictTells
  <1>9. ASSUME NEW r \in Members, AnextStep(r) PROVE TellInv'
    BY <1>9, NextTells, WaitTells, CancelTells DEF AnextStep
  <1>11. ASSUME NEW r \in Members, NEW m \in Members, Reconnect(r, m) \/ FanoutEnds(r, m)
         PROVE  TellInv'
    BY <1>11, SameTells DEF Reconnect, FanoutEnds, notes
  <1>10. CASE UNCHANGED vars
    BY <1>10, SameTells DEF vars, notes
  <1> QED
    BY <1>1, <1>2, <1>3, <1>4, <1>5, <1>6, <1>7, <1>8, <1>9, <1>10, <1>11 DEF Next

\* _apply, _eviction_loop, _emit_change and __anext__: unless its queue has
\* overflowed or a cancelled __anext__ has swallowed a change, the changes that a
\* handle has emitted take the caller from the set it began with to the member
\* table, and every change tells it something new.  This holds for
\* all sets of members, caps and queue sizes, whatever records are lost, late
\* or those of an earlier handle, and however late the scans are.
THEOREM ChangesAreTheStory == Spec => []ChangesTellMembers
  <1>1. TellInv => ChangesTellMembers
    BY TellsIff DEF TellInv
  <1> QED
    BY <1>1, InitTells, StepTells, PTL DEF Spec

=============================================================================
