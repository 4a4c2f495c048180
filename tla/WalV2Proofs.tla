---------------------------- MODULE WalV2Proofs ----------------------------
(***************************************************************************)
(* Proofs about WalV2, for every number of records, segments and openings, *)
(* every size, policy and failure: what FsyncPolicy::Each has made durable *)
(* survives, the committed records are one run of cursors, and a replay    *)
(* walks that run without a gap and to its end.                            *)
(***************************************************************************)
EXTENDS WalV2, SequenceTheorems, WellFoundedInduction, TLAPS

Policy == {"None", "Batched", "Each"}
Record == [cursor : 0..(MaxCursor - 1), inc : Nat, policy : Policy, size : Nat,
           st : {"claimed", "writing", "done"}]
File == [header : BOOLEAN, recs : Seq(Record), skip : BOOLEAN, synced : Int,
         failed : BOOLEAN]

Segments == DOMAIN disk
Recs(f) == disk[f].recs
\* The number of records that a reader of f comes to.
Count(f) == Len(Committed(disk[f]))
Newest(f) == \A g \in Segments : g <= f

USE DEF Segments, Recs

-----------------------------------------------------------------------------
(* Types, and what the program counters imply *)

DiskType == disk \in [DOMAIN disk -> File] /\ DOMAIN disk \subseteq 0..MaxCursor

WalType ==
  /\ DiskType
  /\ writer \in -1..MaxCursor /\ segments \subseteq 0..MaxCursor
  /\ cursor \in 0..MaxCursor /\ pending \in Nat /\ inc \in Nat
  /\ policy \in Policy /\ promised \subseteq Record
  /\ lost \in BOOLEAN /\ refused \in BOOLEAN
  /\ wpc \in {"down", "idle", "rotate", "create", "header", "publish", "reserve",
              "stake", "commit", "retain"}
  /\ call \in [size : Nat, old : Int, w : Int, retried : BOOLEAN]
  /\ fpc \in {"idle", "load", "flush", "stopped"}

Writing == {"reserve", "stake", "commit", "retain"}

PcInv ==
  /\ wpc \in Writing \cup {"rotate"} => writer # -1 /\ cursor < MaxCursor /\ call.size # 0
  /\ wpc \in {"create", "header", "publish", "down"} => writer = -1
  /\ wpc \in {"create", "header", "publish"} /\ call # OpenCall =>
       cursor < MaxCursor /\ call.size # 0
  /\ fpc \in {"load", "flush"} => Running /\ policy = "Batched"

\* A second try after SegmentFull comes to nothing: the segment that was too
\* small for the record is an empty one, whose name the new one would have.
RetryInv ==
  /\ wpc \in Writing => ~call.retried /\ call.w = writer
  /\ wpc \in {"header", "publish"} => ~call.retried
  /\ wpc \in {"rotate", "create"} /\ call.retried => cursor \in Segments
  /\ wpc = "reserve" =>
       writer = cursor \/ TailOf(disk[writer]) + call.size <= SegmentSizeMax
  /\ wpc = "idle" /\ writer # -1 =>
       writer = cursor \/ activeBytes = TailOf(disk[writer])
  /\ wpc = "retain" => activeBytes = TailOf(disk[writer])

-----------------------------------------------------------------------------
(* The files *)

\* Only the last record of a file may be unfinished.
FileOK(f) ==
  /\ disk[f].synced <= Count(f)
  /\ \A i \in DOMAIN Recs(f) :
       /\ i < Len(Recs(f)) => Recs(f)[i].st = "done"
       /\ f <= Recs(f)[i].cursor /\ Recs(f)[i].inc <= inc
       /\ Running /\ Recs(f)[i].inc = inc => Recs(f)[i].policy = policy

FileInv == \A f \in Segments : FileOK(f)

Whole(f) == \A i \in DOMAIN Recs(f) : Recs(f)[i].st = "done"

\* While the log is open, no name is beyond the tail, and the index has all
\* segments but one that could not be finished.
LiveInv ==
  Running =>
    /\ \A f \in Segments : f <= cursor
    /\ segments \subseteq Segments /\ Segments \ {cursor} \subseteq segments

\* The record at the end of the active segment, until append returns.
LastRecord ==
  LET r == Recs(writer)[Len(Recs(writer))] IN
  /\ Recs(writer) # <<>>
  /\ r.cursor = cursor /\ r.inc = inc /\ r.policy = policy
  /\ wpc \in {"stake", "commit"} => r.st # "done"

WriterInv ==
  /\ writer # -1 =>
       /\ writer \in Segments /\ Newest(writer) /\ segments = Segments
       /\ disk[writer].header
       /\ wpc \notin {"stake", "commit"} => Whole(writer)
       /\ wpc \in {"stake", "commit", "retain"} => LastRecord
  /\ wpc \in {"header", "publish"} =>
       /\ cursor \in Segments /\ Newest(cursor) /\ Recs(cursor) = <<>>
       /\ wpc = "publish" => disk[cursor].header

-----------------------------------------------------------------------------
(* What a sync promises *)

Held(r) ==
  \E f \in Segments :
    /\ disk[f].header
    /\ \E i \in DOMAIN Recs(f) : i <= disk[f].synced /\ Recs(f)[i] = r

EachInv == \A r \in promised : r.policy = "Each" => Held(r)

CoreInv == WalType /\ PcInv /\ RetryInv /\ FileInv /\ LiveInv /\ WriterInv /\ EachInv

-----------------------------------------------------------------------------
(* One run of cursors *)

Sound == ~lost /\ ~refused

PlaceOK(f) ==
  /\ \A i \in DOMAIN Recs(f) : Recs(f)[i].cursor = f + i - 1
  /\ ~disk[f].header => Recs(f) = <<>>

\* f ends where another segment of S starts, and none starts before that.
Joined(f, S) ==
  /\ Count(f) > 0 /\ f + Count(f) \in S
  /\ \A g \in S : g > f => f + Count(f) <= g

Upcoming == IF wpc = "retain" THEN cursor + 1 ELSE cursor

ChainInv ==
  Sound =>
    /\ \A f \in Segments : PlaceOK(f) /\ (Newest(f) \/ Joined(f, Segments))
    /\ Running =>
         /\ pending = Upcoming
         /\ \A f \in Segments : Newest(f) => f + Count(f) = Upcoming

-----------------------------------------------------------------------------
(* A replay *)

ReaderType ==
  /\ rpc \in {"idle", "next", "read", "drained", "error"}
  /\ rtodo \subseteq 0..MaxCursor /\ rseg \in -1..MaxCursor /\ rpos \in Nat
  /\ rfloor \in Nat /\ rlast \in Int /\ rgoal \in Nat /\ rmap \in File

\* The segments still to be opened, as far as retention has left them: all
\* but the last are joined, the last one reaches the goal.
TodoInv ==
  rpc \in {"next", "read"} =>
    \A f \in rtodo :
      /\ \E g \in Segments : f <= g
      /\ f \in Segments =>
           \/ (\A g \in rtodo : g <= f) /\ f + Count(f) >= rgoal
           \/ Joined(f, rtodo) /\ \A g \in rtodo : g > f => g \in Segments

\* x is the cursor the replayer comes to next; below the floor it skips.
Aligned(x) == rlast + 1 = IF x < rfloor THEN rfloor ELSE x

\* The open segment: where the replayer stands in it, and where it ends.
Reading ==
  /\ rseg >= 0 /\ rpos <= Len(Committed(Mapped)) /\ Aligned(rseg + rpos)
  /\ \A i \in DOMAIN Mapped.recs :
       /\ Mapped.recs[i].cursor = rseg + i - 1
       /\ i < Len(Mapped.recs) => Mapped.recs[i].st = "done"
  /\ \A m \in rtodo :
       (\A g \in rtodo : m <= g) => rseg < m /\ m = rseg + Len(Committed(Mapped))
  /\ rtodo = {} => rseg + Len(Committed(Mapped)) >= rgoal
  /\ rmap = NoSegment =>
       /\ rseg \in Segments /\ disk[rseg].header
       /\ rtodo # {} => ~Newest(rseg)
  /\ rmap # NoSegment => Segments # {} /\ \A g \in Segments : rseg < g

PlaceInv ==
  /\ rpc = "next" =>
       /\ \A m \in rtodo : (\A g \in rtodo : m <= g) => Aligned(m)
       /\ rtodo = {} => rlast + 1 >= rgoal
  /\ rpc = "read" => Reading
  /\ rpc = "drained" => rlast + 1 >= rgoal

ReplayInv == Sound => ReaderType /\ TodoInv /\ PlaceInv

-----------------------------------------------------------------------------
(* Least and greatest elements, sequences *)

LEMMA Least ==
  ASSUME NEW S, S \subseteq Nat, S # {}
  PROVE  \E x \in S : \A y \in S : x <= y
  <1> DEFINE R == OpToRel(<, Nat)
  <1>1. IsWellFoundedOn(R, Nat)
    BY NatLessThanWellFounded
  <1>2. PICK x \in S : \A y \in S : <<y, x>> \notin R
    <2> HIDE DEF R
    <2> QED
      BY <1>1, WFMin
  <1>3. \A y \in S : ~(y < x)
    BY <1>2 DEF OpToRel
  <1> QED
    BY <1>3

LEMMA MinFacts ==
  ASSUME NEW S, S \subseteq Nat, S # {}
  PROVE  Min(S) \in S /\ \A y \in S : Min(S) <= y
  BY Least DEF Min

LEMMA MaxFacts ==
  ASSUME NEW S, NEW b \in Nat, S \subseteq 0..b, S # {}
  PROVE  Max(S) \in S /\ \A y \in S : y <= Max(S)
  <1> DEFINE T == {b - x : x \in S}
  <1>1. PICK z \in T : \A y \in T : z <= y
    <2>1. T \subseteq Nat /\ T # {}
      OBVIOUS
    <2> HIDE DEF T
    <2> QED
      BY <2>1, Least
  <1>2. PICK x \in S : z = b - x
    OBVIOUS
  <1>3. \A y \in S : b - x <= b - y
    BY <1>1, <1>2
  <1>4. \A y \in S : y <= x
    BY <1>3
  <1> QED
    BY <1>4 DEF Max

LEMMA SeqFacts ==
  ASSUME NEW S, NEW s \in Seq(S)
  PROVE  /\ DOMAIN s = 1..Len(s) /\ Len(s) \in Nat /\ \A i \in DOMAIN s : s[i] \in S
         /\ s = <<>> <=> Len(s) = 0
  BY LenProperties, ElementOfSeq, EmptySeq

LEMMA EmptyFacts ==
  ASSUME NEW S
  PROVE  <<>> \in Seq(S) /\ Len(<<>>) = 0 /\ DOMAIN <<>> = {}
  BY EmptySeq

LEMMA PrefixFacts ==
  ASSUME NEW S, NEW s \in Seq(S), NEW n \in 0..Len(s)
  PROVE  /\ SubSeq(s, 1, n) \in Seq(S) /\ Len(SubSeq(s, 1, n)) = n
         /\ \A i \in 1..n : SubSeq(s, 1, n)[i] = s[i]
  <1>1. DOMAIN s = 1..Len(s) /\ Len(s) \in Nat /\ \A i \in DOMAIN s : s[i] \in S
    BY SeqFacts
  <1>2. \A i \in 1..n : s[i] \in S
    BY <1>1
  <1> DEFINE z == SubSeq(s, 1, n)
  <1>3. /\ z \in Seq(S) /\ Len(z) = IF 1 <= n THEN n - 1 + 1 ELSE 0
        /\ \A i \in 1..(n - 1 + 1) : z[i] = s[1 + i - 1]
    BY <1>1, <1>2, SubSeqProperties
  <1> HIDE DEF z
  <1>4. n \in Nat /\ n - 1 + 1 = n /\ \A i \in 1..n : 1 + i - 1 = i
    BY <1>1
  <1>5. Len(z) = n
    BY <1>3, <1>4
  <1> QED
    BY <1>3, <1>4, <1>5 DEF z

LEMMA AppendFacts ==
  ASSUME NEW S, NEW s \in Seq(S), NEW e \in S
  PROVE  /\ Append(s, e) \in Seq(S) /\ Len(Append(s, e)) = Len(s) + 1
         /\ \A i \in DOMAIN s : Append(s, e)[i] = s[i]
         /\ Append(s, e)[Len(s) + 1] = e
  BY AppendProperties, SeqFacts

\* Committed keeps all before the first record that is not finished.
LEMMA CommittedFacts ==
  ASSUME NEW s, s.recs \in Seq(Record),
         \A i \in DOMAIN s.recs : i < Len(s.recs) => s.recs[i].st = "done"
  PROVE  /\ Committed(s) \in Seq(Record) /\ Len(Committed(s)) \in Nat
         /\ Len(Committed(s)) <= Len(s.recs) /\ Len(s.recs) <= Len(Committed(s)) + 1
         /\ \A i \in DOMAIN s.recs : i <= Len(Committed(s)) <=> s.recs[i].st = "done"
         /\ \A i \in 1..Len(Committed(s)) : i \in DOMAIN s.recs /\ Committed(s)[i] = s.recs[i]
  <1> DEFINE z == s.recs
             bad == {i \in DOMAIN z : z[i].st # "done"}
  <1>1. DOMAIN z = 1..Len(z) /\ Len(z) \in Nat /\ z \in Seq(Record)
    BY SeqFacts
  <1>2. CASE bad = {}
    <2>1. Committed(s) = z
      BY <1>2 DEF Committed
    <2> QED
      BY <1>1, <1>2, <2>1
  <1>3. CASE bad # {}
    <2> DEFINE n == Min(bad)
    <2>1. bad \subseteq Nat
      BY <1>1
    <2>2. n \in bad /\ \A y \in bad : n <= y
      <3> HIDE DEF bad
      <3> QED
        BY <1>3, <2>1, MinFacts
    <2>3. Committed(s) = SubSeq(z, 1, n - 1)
      BY <1>3 DEF Committed
    <2> HIDE DEF n
    <2>4. n \in DOMAIN z /\ z[n].st # "done" /\ n = Len(z) /\ n - 1 \in 0..Len(z)
      BY <1>1, <2>2
    <2>5. /\ Committed(s) \in Seq(Record) /\ Len(Committed(s)) = n - 1
          /\ \A i \in 1..(n - 1) : Committed(s)[i] = z[i]
      <3> HIDE DEF z
      <3> QED
        BY <1>1, <2>3, <2>4, PrefixFacts
    <2> QED
      BY <1>1, <2>4, <2>5
  <1> QED
    BY <1>2, <1>3

LEMMA FileFacts ==
  ASSUME DiskType, FileInv, NEW f \in Segments
  PROVE  /\ disk[f] \in File /\ Recs(f) \in Seq(Record) /\ f \in 0..MaxCursor
         /\ DOMAIN Recs(f) = 1..Len(Recs(f)) /\ Len(Recs(f)) \in Nat
         /\ \A i \in DOMAIN Recs(f) : Recs(f)[i] \in Record
         /\ Recs(f) = <<>> <=> Len(Recs(f)) = 0
         /\ Count(f) \in Nat /\ Count(f) <= Len(Recs(f)) /\ Len(Recs(f)) <= Count(f) + 1
         /\ \A i \in DOMAIN Recs(f) : i <= Count(f) <=> Recs(f)[i].st = "done"
         /\ \A i \in 1..Count(f) :
              i \in DOMAIN Recs(f) /\ Committed(disk[f])[i] = Recs(f)[i]
         /\ Whole(f) <=> Count(f) = Len(Recs(f))
  <1>1. disk[f] \in File /\ Recs(f) \in Seq(Record) /\ f \in 0..MaxCursor
    BY DEF DiskType, File
  <1>2. /\ DOMAIN Recs(f) = 1..Len(Recs(f)) /\ Len(Recs(f)) \in Nat
        /\ \A i \in DOMAIN Recs(f) : Recs(f)[i] \in Record
        /\ Recs(f) = <<>> <=> Len(Recs(f)) = 0
    BY <1>1, SeqFacts
  <1>3. \A i \in DOMAIN Recs(f) : i < Len(Recs(f)) => Recs(f)[i].st = "done"
    BY DEF FileInv, FileOK
  <1>4. /\ Count(f) \in Nat /\ Count(f) <= Len(Recs(f)) /\ Len(Recs(f)) <= Count(f) + 1
        /\ \A i \in DOMAIN Recs(f) : i <= Count(f) <=> Recs(f)[i].st = "done"
        /\ \A i \in 1..Count(f) :
              i \in DOMAIN Recs(f) /\ Committed(disk[f])[i] = Recs(f)[i]
    BY <1>1, <1>3, CommittedFacts DEF Count
  <1>5. Count(f) = Len(Recs(f)) => Whole(f)
    BY <1>2, <1>4 DEF Whole
  <1>6. Whole(f) => Count(f) = Len(Recs(f))
    <2>1. Len(Recs(f)) # 0 => Len(Recs(f)) \in DOMAIN Recs(f)
      BY <1>2
    <2> QED
      <3>1. CASE Len(Recs(f)) = 0
        BY <1>2, <1>4, <3>1
      <3>2. CASE Len(Recs(f)) # 0
        <4>1. Whole(f) => Len(Recs(f)) <= Count(f)
          BY <1>4, <2>1, <3>2 DEF Whole
        <4> QED
          BY <1>2, <1>4, <4>1
      <3> QED
        BY <3>1, <3>2
  <1> QED
    BY <1>1, <1>2, <1>4, <1>5, <1>6

-----------------------------------------------------------------------------
(* Steps that leave the records of all files as they are *)

Kept ==
  /\ DiskType' /\ DOMAIN disk' = DOMAIN disk
  /\ \A f \in Segments :
       /\ disk'[f].recs = disk[f].recs /\ (disk[f].header => disk'[f].header)
       /\ disk[f].synced <= disk'[f].synced /\ disk'[f].synced <= Count(f)

LEMMA KeptFacts ==
  ASSUME DiskType, FileInv, Kept, inc' = inc, Running' => Running /\ policy' = policy
  PROVE  /\ FileInv' /\ DiskType' /\ Segments' = Segments
         /\ \A f \in Segments : /\ Recs(f)' = Recs(f) /\ Count(f)' = Count(f)
                                /\ Whole(f)' <=> Whole(f)
                                /\ (disk[f].header => disk'[f].header)
         /\ \A f : Newest(f)' <=> Newest(f)
         /\ \A r : Held(r) => Held(r)'
  <1>1. Segments' = Segments /\ DiskType'
    BY DEF Kept
  <1>2. \A f \in Segments : /\ Recs(f)' = Recs(f) /\ Count(f)' = Count(f)
                            /\ Whole(f)' <=> Whole(f)
                            /\ (disk[f].header => disk'[f].header)
    <2> SUFFICES ASSUME NEW f \in Segments
                 PROVE  /\ Recs(f)' = Recs(f) /\ Count(f)' = Count(f)
                        /\ Whole(f)' <=> Whole(f)
                        /\ (disk[f].header => disk'[f].header)
      OBVIOUS
    <2>1. disk'[f].recs = disk[f].recs /\ (disk[f].header => disk'[f].header)
      BY DEF Kept
    <2>2. Committed(disk'[f]) = Committed(disk[f])
      BY <2>1 DEF Committed
    <2> QED
      BY <2>1, <2>2 DEF Kept, Count, Whole
  <1>3. \A f : Newest(f)' <=> Newest(f)
    BY <1>1 DEF Newest
  <1>4. FileInv'
    <2> SUFFICES ASSUME NEW f \in Segments PROVE FileOK(f)'
      BY <1>1 DEF FileInv
    <2>1. FileOK(f) /\ Recs(f)' = Recs(f) /\ Count(f)' = Count(f) /\ disk'[f].synced <= Count(f)
      BY <1>2 DEF FileInv, Kept
    <2> QED
      BY <2>1 DEF FileOK
  <1>5. ASSUME NEW r, Held(r) PROVE Held(r)'
    <2>1. PICK f \in Segments : /\ disk[f].header
            /\ \E i \in DOMAIN Recs(f) : i <= disk[f].synced /\ Recs(f)[i] = r
      BY <1>5 DEF Held
    <2>2. PICK i \in DOMAIN Recs(f) : i <= disk[f].synced /\ Recs(f)[i] = r
      BY <2>1
    <2>3. /\ i \in DOMAIN Recs(f)' /\ Recs(f)'[i] = r /\ disk'[f].header /\ f \in Segments'
      BY <1>1, <1>2, <2>1, <2>2
    <2>4. i \in Nat /\ disk[f].synced \in Int /\ disk'[f].synced \in Int
          /\ disk[f].synced <= disk'[f].synced
      BY <1>1, <2>2, FileFacts DEF Kept, DiskType, File
    <2>5. i <= disk'[f].synced
      BY <2>2, <2>4
    <2> QED
      BY <2>3, <2>5 DEF Held
  <1> QED
    BY <1>1, <1>2, <1>3, <1>4, <1>5

LEMMA SameKept ==
  ASSUME DiskType, FileInv, disk' = disk
  PROVE  Kept
  <1>1. \A f \in Segments : disk[f].synced \in Int /\ disk[f].synced <= Count(f)
    BY DEF DiskType, File, FileInv, FileOK
  <1> QED
    BY <1>1 DEF Kept, DiskType

LEMMA SkipKept ==
  ASSUME DiskType, FileInv, NEW w \in Segments, NEW b \in BOOLEAN,
         disk' = [disk EXCEPT ![w].skip = b]
  PROVE  Kept
  <1>1. \A f \in Segments : /\ disk[f] \in File /\ disk[f].synced \in Int
                            /\ disk[f].synced <= Count(f)
    BY DEF DiskType, File, FileInv, FileOK
  <1>2. disk' \in [DOMAIN disk -> File]
    BY <1>1 DEF File, DiskType
  <1>3. \A f \in Segments : /\ disk'[f].recs = disk[f].recs /\ disk'[f].header = disk[f].header
                            /\ disk'[f].synced = disk[f].synced
    BY <1>1 DEF File
  <1> QED
    BY <1>1, <1>2, <1>3 DEF Kept, DiskType

LEMMA HeaderKept ==
  ASSUME DiskType, FileInv, NEW w \in Segments, disk' = [disk EXCEPT ![w].header = TRUE]
  PROVE  Kept /\ disk'[w].header
  <1>1. \A f \in Segments : /\ disk[f] \in File /\ disk[f].synced \in Int
                            /\ disk[f].synced <= Count(f)
    BY DEF DiskType, File, FileInv, FileOK
  <1>2. disk' \in [DOMAIN disk -> File]
    BY <1>1 DEF File, DiskType
  <1>3. \A f \in Segments : /\ disk'[f].recs = disk[f].recs /\ (disk[f].header => disk'[f].header)
                            /\ disk'[f].synced = disk[f].synced
    BY <1>1 DEF File
  <1> QED
    BY <1>1, <1>2, <1>3 DEF Kept, DiskType, File

LEMMA SyncKept ==
  ASSUME DiskType, FileInv, NEW w, disk' = FlushSync(disk, w)
  PROVE  Kept /\ (w \in SoundFiles => disk'[w].synced = Count(w))
  <1>1. \A f \in Segments : /\ disk[f] \in File /\ disk[f].synced \in Int
                            /\ disk[f].synced <= Count(f) /\ Count(f) \in Nat
    BY FileFacts DEF DiskType, File, FileInv, FileOK
  <1>2. CASE w \notin SoundFiles
    BY <1>2, SameKept DEF FlushSync, SoundFiles
  <1>3. CASE w \in SoundFiles
    <2>1. w \in Segments /\ disk' = [disk EXCEPT ![w].synced = Count(w)]
      BY <1>3 DEF FlushSync, SoundFiles, Count
    <2>2. disk' \in [DOMAIN disk -> File]
      <3>1. Count(w) \in Int /\ disk[w] \in File
        BY <1>1, <2>1
      <3>2. [disk[w] EXCEPT !.synced = Count(w)] \in File
        BY <3>1 DEF File
      <3> QED
        BY <1>1, <2>1, <3>2 DEF DiskType
    <2>3. \A f \in Segments :
             /\ disk'[f].recs = disk[f].recs /\ disk'[f].header = disk[f].header
             /\ disk'[f].synced = IF f = w THEN Count(w) ELSE disk[f].synced
      BY <1>1, <2>1 DEF File
    <2>4. disk'[w].synced = Count(w)
      BY <2>1, <2>3
    <2>5. Kept
      BY <1>1, <2>2, <2>3 DEF Kept, DiskType
    <2> QED
      BY <2>4, <2>5
  <1> QED
    BY <1>2, <1>3

LEMMA TailSame ==
  ASSUME NEW d, NEW e, d.recs = e.recs, d.skip = e.skip
  PROVE  TailOf(d) = TailOf(e)
  BY DEF TailOf

-----------------------------------------------------------------------------
(* Steps that change the records of one file *)

LEMMA OneFile ==
  ASSUME DiskType, FileInv, inc \in Nat, NEW w \in Segments, NEW s \in Seq(Record),
         disk' = [disk EXCEPT ![w].recs = s],
         \A i \in 1..Count(w) : i \in DOMAIN s /\ s[i] = Recs(w)[i],
         \A i \in DOMAIN s :
           /\ i < Len(s) => s[i].st = "done"
           /\ w <= s[i].cursor /\ s[i].inc <= inc
           /\ s[i].inc = inc => s[i].policy = policy,
         inc' = inc, policy' = policy, Running, Running'
  PROVE  /\ DiskType' /\ FileInv' /\ Segments' = Segments
         /\ \A f \in Segments \ {w} : disk'[f] = disk[f]
         /\ disk'[w].header = disk[w].header /\ disk'[w].skip = disk[w].skip
         /\ Recs(w)' = s /\ Count(w) <= Count(w)'
         /\ \A r : Held(r) => Held(r)'
         /\ \A f : Newest(f)' <=> Newest(f)
  <1>1. /\ disk[w] \in File /\ Count(w) \in Nat /\ Count(w) <= Len(Recs(w))
        /\ disk[w].synced \in Int /\ disk[w].synced <= Count(w)
        /\ \A i \in DOMAIN Recs(w) : i <= Count(w) <=> Recs(w)[i].st = "done"
        /\ DOMAIN Recs(w) = 1..Len(Recs(w)) /\ Len(Recs(w)) \in Nat
    BY FileFacts DEF FileInv, FileOK, File
  <1>2. Segments' = Segments /\ \A f \in Segments \ {w} : disk'[f] = disk[f]
    BY DEF DiskType
  <1>3. /\ disk'[w] \in File /\ disk'[w].recs = s /\ disk'[w].header = disk[w].header
        /\ disk'[w].synced = disk[w].synced /\ disk'[w].skip = disk[w].skip
    BY <1>1 DEF DiskType, File
  <1>4. DiskType'
    BY <1>2, <1>3 DEF DiskType
  <1>5. /\ Count(w)' \in Nat /\ Count(w)' <= Len(s)
        /\ \A i \in DOMAIN s : i <= Count(w)' <=> s[i].st = "done"
    <2>1. /\ disk'[w].recs \in Seq(Record)
          /\ \A i \in DOMAIN disk'[w].recs :
               i < Len(disk'[w].recs) => disk'[w].recs[i].st = "done"
      BY <1>3
    <2>2. /\ Len(Committed(disk'[w])) \in Nat
          /\ Len(Committed(disk'[w])) <= Len(disk'[w].recs)
          /\ \A i \in DOMAIN disk'[w].recs :
               i <= Len(Committed(disk'[w])) <=> disk'[w].recs[i].st = "done"
      BY <2>1, CommittedFacts
    <2> QED
      BY <1>3, <2>2 DEF Count
  <1>6. Count(w) <= Count(w)'
    <2>1. CASE Count(w) = 0
      BY <1>5, <2>1
    <2>2. CASE Count(w) # 0
      <3>1. Count(w) \in 1..Count(w) /\ Count(w) \in DOMAIN Recs(w)
        BY <1>1, <2>2
      <3>2. Count(w) \in DOMAIN s /\ s[Count(w)].st = "done"
        BY <1>1, <3>1
      <3> QED
        BY <1>5, <3>2
    <2> QED
      BY <2>1, <2>2
  <1>7. FileInv'
    <2> SUFFICES ASSUME NEW f \in Segments PROVE FileOK(f)'
      BY <1>2 DEF FileInv
    <2>1. CASE f # w
      <3>1. FileOK(f) /\ disk'[f] = disk[f]
        BY <1>2, <2>1 DEF FileInv
      <3> QED
        BY <3>1 DEF FileOK, Count
    <2>2. CASE f = w
      <3>1. disk'[w].synced <= Count(w)'
        BY <1>1, <1>3, <1>5, <1>6
      <3> QED
        BY <1>3, <2>2, <3>1 DEF FileOK
    <2> QED
      BY <2>1, <2>2
  <1>8. ASSUME NEW r, Held(r) PROVE Held(r)'
    <2>1. PICK f \in Segments : /\ disk[f].header
            /\ \E i \in DOMAIN Recs(f) : i <= disk[f].synced /\ Recs(f)[i] = r
      BY <1>8 DEF Held
    <2>2. PICK i \in DOMAIN Recs(f) : i <= disk[f].synced /\ Recs(f)[i] = r
      BY <2>1
    <2>3. CASE f # w
      BY <1>2, <2>1, <2>2, <2>3 DEF Held
    <2>4. CASE f = w
      <3>1. i \in 1..Count(w)
        BY <1>1, <2>2, <2>4
      <3>2. i \in DOMAIN s /\ s[i] = r
        BY <2>2, <2>4, <3>1
      <3> QED
        BY <1>2, <1>3, <2>1, <2>2, <2>4, <3>2 DEF Held
    <2> QED
      BY <2>3, <2>4
  <1>9. \A f : Newest(f)' <=> Newest(f)
    BY <1>2 DEF Newest
  <1> QED
    BY <1>2, <1>3, <1>4, <1>6, <1>7, <1>8, <1>9

-----------------------------------------------------------------------------
(* The steps of append *)

LEMMA AppendCallStep ==
  ASSUME CoreInv, AppendCall
  PROVE  CoreInv'
  <1> USE DEF CoreInv
  <1>1. /\ wpc = "idle" /\ cursor < MaxCursor /\ disk' = disk /\ writer' = writer
        /\ segments' = segments /\ activeBytes' = activeBytes /\ cursor' = cursor
        /\ pending' = pending /\ policy' = policy /\ fpc' = fpc /\ inc' = inc
        /\ promised' = promised /\ lost' = lost /\ refused' = refused
    BY DEF AppendCall, inner, marks, WriterStep, flusher, history
  <1>2. PICK n \in Sizes :
          /\ call' = [size |-> n, old |-> -1, w |-> writer, retried |-> FALSE]
          /\ wpc' = CASE writer = -1 -> "create"
                      [] writer # -1 /\ activeBytes + n <= SegmentSizeMax -> "reserve"
                      [] OTHER -> "rotate"
    BY DEF AppendCall
  <1>3. n \in Nat /\ n # 0 /\ call'.size = n /\ call'.retried = FALSE /\ call'.w = writer
        /\ call' # OpenCall
    BY <1>2, ConstantsOK DEF OpenCall
  <1>4. \/ writer = -1 /\ wpc' = "create"
        \/ writer # -1 /\ activeBytes + n <= SegmentSizeMax /\ wpc' = "reserve"
        \/ writer # -1 /\ wpc' = "rotate"
    BY <1>2
  <1>5. /\ FileInv' /\ DiskType' /\ Running /\ Running'
        /\ \A f : (Newest(f)' <=> Newest(f)) /\ (f \in Segments => Whole(f)' <=> Whole(f))
        /\ \A r : Held(r) => Held(r)'
    BY <1>1, <1>4, SameKept, KeptFacts DEF Running, WalType
  <1>6. WalType'
    <2>1. call' \in [size : Nat, old : Int, w : Int, retried : BOOLEAN]
      BY <1>2, <1>3 DEF WalType
    <2> QED
      BY <1>1, <1>4, <1>5, <2>1 DEF WalType
  <1>7. PcInv'
    BY <1>1, <1>3, <1>4, <1>5 DEF PcInv, Writing
  <1>8. RetryInv'
    BY <1>1, <1>3, <1>4 DEF RetryInv, Writing
  <1>9. LiveInv' /\ WriterInv' /\ EachInv'
    BY <1>1, <1>4, <1>5 DEF LiveInv, WriterInv, EachInv
  <1> QED
    BY <1>5, <1>6, <1>7, <1>8, <1>9

LEMMA WriteSkipStep ==
  ASSUME CoreInv, WriteSkipToEnd
  PROVE  CoreInv'
  <1> USE DEF CoreInv
  <1>1. /\ wpc = "rotate" /\ wpc' = "create" /\ writer' = -1
        /\ segments' = segments /\ cursor' = cursor
        /\ pending' = pending /\ policy' = policy /\ fpc' = fpc /\ inc' = inc
        /\ promised' = promised /\ lost' = lost /\ refused' = refused
        /\ call' = [call EXCEPT !.old = writer]
    BY DEF WriteSkipToEnd, marks, WriterStep, flusher, history
  <1>2. writer \in Segments /\ cursor < MaxCursor /\ call.size # 0 /\ Running /\ Running'
    BY <1>1 DEF PcInv, WriterInv, Running
  <1>3. PICK b \in BOOLEAN : disk' = [disk EXCEPT ![writer].skip = b]
    <2>1. (TailOf(disk[writer]) + SkipLen <= SegmentSizeMax) \in BOOLEAN
      OBVIOUS
    <2> QED
      BY <2>1 DEF WriteSkipToEnd
  <1>4. Kept
    BY <1>2, <1>3, SkipKept DEF WalType
  <1>5. /\ FileInv' /\ DiskType' /\ Segments' = Segments /\ \A r : Held(r) => Held(r)'
    BY <1>1, <1>2, <1>4, KeptFacts DEF WalType
  <1>6. /\ call' \in [size : Nat, old : Int, w : Int, retried : BOOLEAN]
        /\ call'.size = call.size /\ call'.retried = call.retried
    BY <1>1 DEF WalType
  <1>7. WalType'
    BY <1>1, <1>5, <1>6, ConstantsOK DEF WalType
  <1>8. PcInv' /\ RetryInv'
    BY <1>1, <1>2, <1>5, <1>6 DEF PcInv, RetryInv, Writing
  <1>9. LiveInv' /\ WriterInv' /\ EachInv'
    BY <1>1, <1>2, <1>5 DEF LiveInv, WriterInv, EachInv
  <1> QED
    BY <1>5, <1>7, <1>8, <1>9

\* The process is gone; what it leaves is on disk.
LEMMA GoneCore ==
  ASSUME CoreInv, ProcessGone, wpc' = "down", DiskType', FileInv', EachInv',
         promised' \subseteq Record, lost' \in BOOLEAN, refused' \in BOOLEAN
  PROVE  CoreInv'
  <1>1. /\ writer' = -1 /\ segments' = {} /\ pending' = 0 /\ policy' = "None" /\ cursor' = 0
        /\ call' = OpenCall /\ fpc' = "idle" /\ inc' = inc /\ ~Running'
    BY DEF ProcessGone, Running
  <1>2. WalType'
    BY <1>1, ConstantsOK DEF WalType, CoreInv, OpenCall, Policy
  <1>3. PcInv' /\ RetryInv' /\ LiveInv' /\ WriterInv'
    BY <1>1 DEF PcInv, RetryInv, LiveInv, WriterInv, Writing
  <1> QED
    BY <1>2, <1>3 DEF CoreInv

\* The same when the files are as they were.
LEMMA GoneSame ==
  ASSUME CoreInv, ProcessGone, wpc' = "down", Kept, promised' = promised, lost' = lost,
         refused' = refused
  PROVE  CoreInv'
  <1>1. inc' = inc /\ ~Running'
    BY DEF ProcessGone, Running
  <1>2. FileInv' /\ DiskType' /\ \A r : Held(r) => Held(r)'
    BY <1>1, KeptFacts DEF CoreInv, WalType
  <1>3. EachInv'
    BY <1>2 DEF EachInv, CoreInv
  <1> QED
    BY <1>2, <1>3, GoneCore DEF CoreInv, WalType

LEMMA NoSegmentFacts ==
  /\ NoSegment \in File /\ NoSegment.recs = <<>> /\ NoSegment.synced = -1
  /\ ~NoSegment.header /\ Committed(NoSegment) = <<>>
  <1>1. <<>> \in Seq(Record) /\ Len(<<>>) = 0 /\ DOMAIN <<>> = {}
    BY EmptyFacts
  <1>2. NoSegment \in File /\ NoSegment.recs = <<>> /\ NoSegment.synced = -1
        /\ ~NoSegment.header
    BY <1>1 DEF NoSegment, File
  <1> QED
    BY <1>1, <1>2 DEF Committed

LEMMA NewFile ==
  ASSUME DiskType, FileInv, NEW c \in 0..MaxCursor, c \notin Segments, inc' = inc,
         disk' = [f \in DOMAIN disk \cup {c} |-> IF f = c THEN NoSegment ELSE disk[f]],
         Running, policy' = policy
  PROVE  /\ DiskType' /\ FileInv' /\ Segments' = Segments \cup {c}
         /\ \A f \in Segments : disk'[f] = disk[f]
         /\ disk'[c] = NoSegment /\ Recs(c)' = <<>> /\ Count(c)' = 0
         /\ \A r : Held(r) => Held(r)'
  <1>1. /\ Segments' = Segments \cup {c} /\ disk'[c] = NoSegment
        /\ \A f \in Segments : disk'[f] = disk[f]
    OBVIOUS
  <1>2. DiskType'
    BY <1>1, NoSegmentFacts DEF DiskType
  <1>3. Recs(c)' = <<>> /\ Count(c)' = 0 /\ DOMAIN Recs(c)' = {} /\ disk'[c].synced = -1
    BY <1>1, NoSegmentFacts, EmptyFacts DEF Count
  <1>4. FileInv'
    <2> SUFFICES ASSUME NEW f \in Segments \cup {c} PROVE FileOK(f)'
      BY <1>1 DEF FileInv
    <2>1. CASE f = c
      BY <1>3, <2>1 DEF FileOK
    <2>2. CASE f # c
      <3>1. FileOK(f) /\ disk'[f] = disk[f]
        BY <1>1, <2>2 DEF FileInv
      <3> QED
        BY <3>1 DEF FileOK, Count
    <2> QED
      BY <2>1, <2>2
  <1>5. \A r : Held(r) => Held(r)'
    BY <1>1 DEF Held
  <1> QED
    BY <1>1, <1>2, <1>3, <1>4, <1>5

LEMMA CreateFileStep ==
  ASSUME CoreInv, CreateFile
  PROVE  CoreInv'
  <1> USE DEF CoreInv
  <1>1. /\ wpc = "create" /\ wpc' = "header" /\ cursor \notin Segments
        /\ writer' = writer /\ segments' = segments /\ cursor' = cursor /\ call' = call
        /\ pending' = pending /\ policy' = policy /\ fpc' = fpc /\ inc' = inc
        /\ promised' = promised /\ lost' = lost /\ refused' = refused
        /\ disk' = [f \in DOMAIN disk \cup {cursor} |-> IF f = cursor THEN NoSegment ELSE disk[f]]
    BY DEF CreateFile, Collides, inner, marks, WriterStep, flusher, history
  <1>2. writer = -1 /\ Running /\ Running' /\ ~call.retried
    BY <1>1 DEF PcInv, RetryInv, Running
  <1>3. /\ DiskType' /\ FileInv' /\ Segments' = Segments \cup {cursor}
        /\ Recs(cursor)' = <<>> /\ \A r : Held(r) => Held(r)'
    BY <1>1, <1>2, NewFile DEF WalType
  <1>4. \A f \in Segments' : f <= cursor
    BY <1>2, <1>3 DEF LiveInv, WalType
  <1>5. WalType'
    BY <1>1, <1>3 DEF WalType
  <1>6. PcInv' /\ RetryInv'
    BY <1>1, <1>2 DEF PcInv, RetryInv, Writing
  <1>7. LiveInv'
    BY <1>1, <1>2, <1>3, <1>4 DEF LiveInv
  <1>8. WriterInv'
    BY <1>1, <1>2, <1>3, <1>4 DEF WriterInv, Newest
  <1>9. EachInv'
    BY <1>1, <1>3 DEF EachInv
  <1> QED
    BY <1>3, <1>5, <1>6, <1>7, <1>8, <1>9

LEMMA CreateFailsStep ==
  ASSUME CoreInv, CreateFails
  PROVE  CoreInv'
  <1> USE DEF CoreInv
  <1>1. /\ wpc \in {"create", "header"} /\ disk' = disk /\ promised' = promised
        /\ lost' = lost /\ refused' = refused
    BY DEF CreateFails
  <1>2. Kept
    BY <1>1, SameKept DEF WalType
  <1>3. CASE call = OpenCall
    BY <1>1, <1>2, <1>3, GoneSame DEF CreateFails
  <1>4. CASE call # OpenCall
    <2>1. /\ wpc' = "idle" /\ writer' = writer /\ segments' = segments /\ cursor' = cursor
          /\ call' = call /\ pending' = pending /\ policy' = policy /\ fpc' = fpc /\ inc' = inc
      BY <1>4 DEF CreateFails, inner, marks, flusher
    <2>2. writer = -1 /\ Running /\ Running'
      BY <1>1, <2>1 DEF PcInv, Running
    <2>3. FileInv' /\ DiskType' /\ \A r : Held(r) => Held(r)'
      BY <1>2, <2>1, <2>2, KeptFacts DEF WalType
    <2>4. WalType' /\ EachInv'
      BY <1>1, <2>1, <2>3 DEF WalType, EachInv
    <2>5. PcInv' /\ RetryInv' /\ LiveInv' /\ WriterInv'
      BY <1>1, <2>1, <2>2 DEF PcInv, RetryInv, LiveInv, WriterInv, Writing
    <2> QED
      BY <2>3, <2>4, <2>5
  <1> QED
    BY <1>3, <1>4

LEMMA WriteHeaderStep ==
  ASSUME CoreInv, WriteHeader
  PROVE  CoreInv'
  <1> USE DEF CoreInv
  <1>1. /\ wpc = "header" /\ wpc' = "publish" /\ disk' = [disk EXCEPT ![cursor].header = TRUE]
        /\ writer' = writer /\ segments' = segments /\ cursor' = cursor /\ call' = call
        /\ pending' = pending /\ policy' = policy /\ fpc' = fpc /\ inc' = inc
        /\ promised' = promised /\ lost' = lost /\ refused' = refused
    BY DEF WriteHeader, inner, marks, WriterStep, flusher, history
  <1>2. /\ writer = -1 /\ Running /\ Running' /\ ~call.retried /\ cursor \in Segments
        /\ Newest(cursor) /\ Recs(cursor) = <<>>
    BY <1>1 DEF PcInv, RetryInv, WriterInv, Running
  <1>3. Kept /\ disk'[cursor].header
    BY <1>1, <1>2, HeaderKept DEF WalType
  <1>4. /\ DiskType' /\ FileInv' /\ Segments' = Segments /\ Recs(cursor)' = <<>>
        /\ Newest(cursor)' /\ \A r : Held(r) => Held(r)'
    BY <1>1, <1>2, <1>3, KeptFacts DEF WalType
  <1>5. WalType' /\ EachInv'
    BY <1>1, <1>4 DEF WalType, EachInv
  <1>6. PcInv' /\ RetryInv'
    BY <1>1, <1>2 DEF PcInv, RetryInv, Writing
  <1>7. LiveInv' /\ WriterInv'
    BY <1>1, <1>2, <1>3, <1>4 DEF LiveInv, WriterInv
  <1> QED
    BY <1>4, <1>5, <1>6, <1>7

LEMMA StoreActiveStep ==
  ASSUME CoreInv, StoreActive
  PROVE  CoreInv'
  <1> USE DEF CoreInv
  <1>1. /\ wpc = "publish" /\ disk' = disk /\ writer' = cursor
        /\ segments' = segments \cup {cursor} /\ cursor' = cursor
        /\ pending' = pending /\ policy' = policy /\ fpc' = fpc /\ inc' = inc
        /\ promised' = promised /\ lost' = lost /\ refused' = refused
        /\ wpc' = IF call = OpenCall THEN "idle" ELSE "reserve"
        /\ call' = [call EXCEPT !.w = IF call.retried \/ call = OpenCall THEN call.w ELSE cursor,
                                !.old = -1]
    BY DEF StoreActive, PublishSegment, marks, WriterStep, flusher, history
  <1>2. /\ Running /\ Running' /\ ~call.retried /\ cursor \in Segments /\ Newest(cursor)
        /\ Recs(cursor) = <<>> /\ disk[cursor].header /\ cursor \in 0..MaxCursor
    BY <1>1 DEF PcInv, RetryInv, WriterInv, Running, WalType
  <1>3. /\ DiskType' /\ FileInv' /\ Segments' = Segments /\ Newest(cursor)'
        /\ \A r : Held(r) => Held(r)'
    BY <1>1, <1>2, SameKept, KeptFacts DEF WalType
  <1>4. /\ call' \in [size : Nat, old : Int, w : Int, retried : BOOLEAN]
        /\ call'.size = call.size /\ ~call'.retried
        /\ call # OpenCall => call'.w = cursor
    <2>1. PICK x \in Int : /\ call' = [call EXCEPT !.w = x, !.old = -1]
                           /\ call # OpenCall => x = cursor
      <3>1. cursor \in Int /\ call.w \in Int
        BY <1>2 DEF WalType
      <3> QED
        BY <1>1, <1>2, <3>1
    <2>2. call \in [size : Nat, old : Int, w : Int, retried : BOOLEAN] /\ -1 \in Int
      BY DEF WalType
    <2> QED
      BY <1>2, <2>1, <2>2
  <1>5. segments' = Segments
    BY <1>1, <1>2 DEF LiveInv
  <1>6. WalType' /\ EachInv'
    <2>1. writer' \in -1..MaxCursor /\ segments' \subseteq 0..MaxCursor
          /\ wpc' \in {"idle", "reserve"}
      BY <1>1, <1>2, <1>5, ConstantsOK DEF WalType, DiskType
    <2> QED
      BY <1>1, <1>3, <1>4, <2>1 DEF WalType, EachInv
  <1>7. PcInv' /\ RetryInv'
    BY <1>1, <1>2, <1>4 DEF PcInv, RetryInv, Writing, WalType
  <1>8. Whole(cursor)'
    BY <1>1, <1>2, EmptyFacts DEF Whole
  <1>9. LiveInv' /\ WriterInv'
    BY <1>1, <1>2, <1>3, <1>5, <1>8 DEF LiveInv, WriterInv
  <1> QED
    BY <1>3, <1>6, <1>7, <1>9

LEMMA ReserveStep ==
  ASSUME CoreInv, Reserve
  PROVE  CoreInv'
  <1> USE DEF CoreInv
  <1>1. /\ wpc = "reserve" /\ writer' = writer /\ segments' = segments /\ cursor' = cursor
        /\ activeBytes' = activeBytes /\ pending' = pending /\ policy' = policy /\ fpc' = fpc
        /\ inc' = inc /\ promised' = promised /\ lost' = lost /\ refused' = refused
    BY DEF Reserve, inner, marks, WriterStep, flusher, history
  <1>2. /\ ~call.retried /\ call.w = writer /\ Target = writer /\ writer # -1
        /\ cursor < MaxCursor /\ call.size # 0 /\ writer \in Segments /\ Newest(writer)
        /\ segments = Segments /\ disk[writer].header /\ Whole(writer) /\ Running
        /\ writer <= cursor
    BY <1>1 DEF PcInv, RetryInv, WriterInv, LiveInv, Running, Target, Writing
  <1>3. CASE TailOf(disk[Target]) + call.size <= SegmentSizeMax
    <2> DEFINE r == [cursor |-> cursor, inc |-> inc, policy |-> policy, size |-> call.size,
                     st |-> "claimed"]
               s == Append(Recs(writer), r)
    <2>1. disk' = [disk EXCEPT ![writer].recs = s] /\ wpc' = "stake" /\ call' = call
      BY <1>1, <1>2, <1>3 DEF Reserve
    <2>2. /\ Recs(writer) \in Seq(Record) /\ DOMAIN Recs(writer) = 1..Len(Recs(writer))
          /\ Len(Recs(writer)) \in Nat /\ Count(writer) = Len(Recs(writer))
      BY <1>2, FileFacts DEF WalType
    <2>3. r \in Record /\ r.cursor = cursor /\ r.inc = inc /\ r.policy = policy
          /\ r.st = "claimed"
      <3>1. cursor \in 0..(MaxCursor - 1)
        BY <1>2, ConstantsOK DEF WalType
      <3> QED
        BY <3>1 DEF Record, WalType
    <2> HIDE DEF r
    <2>4. /\ s \in Seq(Record) /\ Len(s) = Len(Recs(writer)) + 1
          /\ \A i \in DOMAIN Recs(writer) : s[i] = Recs(writer)[i]
          /\ s[Len(Recs(writer)) + 1] = r
      BY <2>2, <2>3, AppendFacts
    <2> HIDE DEF s
    <2>5. DOMAIN s = 1..(Len(Recs(writer)) + 1)
      BY <2>4, SeqFacts
    <2>6. \A i \in DOMAIN s : i \in DOMAIN Recs(writer) \/ i = Len(Recs(writer)) + 1
      BY <2>2, <2>5
    <2>7. \A i \in 1..Count(writer) : i \in DOMAIN s /\ s[i] = Recs(writer)[i]
      BY <2>2, <2>4, <2>5
    <2>8. inc \in Nat
      BY DEF WalType
    <2>9. \A i \in DOMAIN s :
             /\ i < Len(s) => s[i].st = "done"
             /\ writer <= s[i].cursor /\ s[i].inc <= inc
             /\ s[i].inc = inc => s[i].policy = policy
      <3> SUFFICES ASSUME NEW i \in DOMAIN s
                   PROVE  /\ i < Len(s) => s[i].st = "done"
                          /\ writer <= s[i].cursor /\ s[i].inc <= inc
                          /\ s[i].inc = inc => s[i].policy = policy
        OBVIOUS
      <3>1. CASE i \in DOMAIN Recs(writer)
        <4>1. /\ Recs(writer)[i].st = "done" /\ writer <= Recs(writer)[i].cursor
              /\ Recs(writer)[i].inc <= inc
              /\ Recs(writer)[i].inc = inc => Recs(writer)[i].policy = policy
          BY <1>2, <3>1 DEF Whole, FileInv, FileOK
        <4> QED
          BY <2>4, <3>1, <4>1
      <3>2. CASE i = Len(Recs(writer)) + 1
        BY <1>2, <2>2, <2>3, <2>4, <2>8, <3>2
      <3> QED
        BY <2>6, <3>1, <3>2
    <2>10. Running'
      BY <2>1 DEF Running
    <2>11. /\ DiskType' /\ FileInv' /\ Segments' = Segments
           /\ disk'[writer].header = disk[writer].header
           /\ Recs(writer)' = s /\ (\A q : Held(q) => Held(q)') /\ Newest(writer)'
      <3>1. PICK w \in Segments : w = writer
        BY <1>2
      <3>2. /\ DiskType' /\ FileInv' /\ Segments' = Segments
            /\ disk'[w].header = disk[w].header /\ Recs(w)' = s
            /\ \A q : Held(q) => Held(q)'
            /\ \A f : Newest(f)' <=> Newest(f)
        <4>1. /\ disk' = [disk EXCEPT ![w].recs = s] /\ DiskType
              /\ \A i \in 1..Count(w) : i \in DOMAIN s /\ s[i] = Recs(w)[i]
              /\ \A i \in DOMAIN s :
                   /\ i < Len(s) => s[i].st = "done"
                   /\ w <= s[i].cursor /\ s[i].inc <= inc
                   /\ s[i].inc = inc => s[i].policy = policy
          BY <2>1, <2>7, <2>9, <3>1 DEF WalType
        <4> QED
          BY <1>1, <1>2, <2>4, <2>8, <2>10, <4>1, OneFile
      <3> QED
        BY <1>1, <1>2, <3>1, <3>2 DEF Newest
    <2>12. WalType' /\ EachInv'
      BY <1>1, <2>1, <2>11 DEF WalType, EachInv
    <2>13. PcInv' /\ RetryInv'
      BY <1>1, <1>2, <2>1, <2>10 DEF PcInv, RetryInv, Writing
    <2>14. LastRecord'
      <3>1. s # <<>> /\ Len(s) = Len(Recs(writer)) + 1
        BY <2>2, <2>4, EmptyFacts
      <3> QED
        BY <1>1, <2>1, <2>3, <2>4, <2>11, <3>1 DEF LastRecord
    <2>15. LiveInv' /\ WriterInv'
      BY <1>1, <1>2, <2>1, <2>11, <2>14 DEF LiveInv, WriterInv
    <2> QED
      BY <2>11, <2>12, <2>13, <2>15
  <1>4. CASE ~(TailOf(disk[Target]) + call.size <= SegmentSizeMax)
    <2>1. /\ disk' = disk /\ wpc' = "rotate" /\ call' = [call EXCEPT !.retried = TRUE]
          /\ Running' /\ writer = cursor
      BY <1>1, <1>2, <1>4 DEF Reserve, RetryInv, Running
    <2>2. /\ DiskType' /\ FileInv' /\ Segments' = Segments /\ \A r : Held(r) => Held(r)'
          /\ Newest(writer)' /\ Whole(writer)'
      BY <1>1, <1>2, <2>1, SameKept, KeptFacts DEF WalType
    <2>3. call' \in [size : Nat, old : Int, w : Int, retried : BOOLEAN]
          /\ call'.size = call.size
      BY <2>1 DEF WalType
    <2>4. WalType' /\ EachInv'
      BY <1>1, <2>1, <2>2, <2>3 DEF WalType, EachInv
    <2>5. PcInv' /\ RetryInv'
      BY <1>1, <1>2, <2>1, <2>3 DEF PcInv, RetryInv, Writing
    <2>6. LiveInv' /\ WriterInv'
      BY <1>1, <1>2, <2>1, <2>2 DEF LiveInv, WriterInv
    <2> QED
      BY <2>2, <2>4, <2>5, <2>6
  <1> QED
    BY <1>3, <1>4

\* The store into the state of the last record.
LEMMA StateStored ==
  ASSUME DiskType, FileInv, inc \in Nat, NEW w \in Segments, Recs(w) # <<>>,
         NEW st \in {"claimed", "writing", "done"},
         Recs(w)[Len(Recs(w))].st # "done",
         disk' = [disk EXCEPT ![w].recs[Len(Recs(w))].st = st],
         inc' = inc, policy' = policy, Running, Running'
  PROVE  /\ DiskType' /\ FileInv' /\ Segments' = Segments
         /\ \A f \in Segments \ {w} : disk'[f] = disk[f]
         /\ disk'[w].header = disk[w].header
         /\ Len(Recs(w))' = Len(Recs(w)) /\ Recs(w)' # <<>>
         /\ \A i \in DOMAIN Recs(w) :
              /\ i < Len(Recs(w)) => Recs(w)'[i] = Recs(w)[i]
              /\ Recs(w)'[i].cursor = Recs(w)[i].cursor /\ Recs(w)'[i].inc = Recs(w)[i].inc
              /\ Recs(w)'[i].policy = Recs(w)[i].policy
         /\ Recs(w)'[Len(Recs(w))].st = st
         /\ DOMAIN Recs(w)' = DOMAIN Recs(w)
         /\ TailOf(disk'[w]) = TailOf(disk[w])
         /\ \A r : Held(r) => Held(r)'
         /\ \A f : Newest(f)' <=> Newest(f)
  <1> DEFINE z == Recs(w)
             n == Len(z)
             e == [z[n] EXCEPT !.st = st]
             s == [z EXCEPT ![n] = e]
  <1>1. /\ z \in Seq(Record) /\ DOMAIN z = 1..n /\ n \in Nat /\ n # 0
        /\ \A i \in DOMAIN z : z[i] \in Record
        /\ \A i \in DOMAIN z : i <= Count(w) <=> z[i].st = "done"
        /\ Count(w) \in Nat /\ Count(w) <= n
    BY FileFacts
  <1>2. n \in 1..n /\ z[n] \in Record /\ ~(n <= Count(w))
    BY <1>1
  <1>3. /\ e \in Record /\ e.st = st /\ e.cursor = z[n].cursor /\ e.inc = z[n].inc
        /\ e.policy = z[n].policy /\ e.size = z[n].size
    BY <1>2 DEF Record
  <1>4. disk' = [disk EXCEPT ![w].recs = s]
    BY DEF DiskType, File
  <1> HIDE DEF e
  <1>5. s \in Seq(Record) /\ Len(s) = n /\ \A i \in 1..n : s[i] = IF i = n THEN e ELSE z[i]
    BY <1>1, <1>2, <1>3, ExceptSeq
  <1>6. DOMAIN s = DOMAIN z
    OBVIOUS
  <1>7. [i \in DOMAIN s |-> s[i].size] = [i \in DOMAIN z |-> z[i].size]
    BY <1>1, <1>3, <1>5, <1>6
  <1> HIDE DEF s
  <1>8. \A i \in DOMAIN z : /\ i < n => s[i] = z[i]
                            /\ s[i].cursor = z[i].cursor /\ s[i].inc = z[i].inc
                            /\ s[i].policy = z[i].policy
    BY <1>1, <1>3, <1>5
  <1>9. \A i \in 1..Count(w) : i \in DOMAIN s /\ s[i] = z[i]
    BY <1>1, <1>2, <1>6, <1>8
  <1>10. \A i \in DOMAIN z :
           /\ i < n => z[i].st = "done"
           /\ w <= z[i].cursor /\ z[i].inc <= inc /\ (z[i].inc = inc => z[i].policy = policy)
    BY DEF FileInv, FileOK
  <1>11. \A i \in DOMAIN s :
           /\ i < Len(s) => s[i].st = "done"
           /\ w <= s[i].cursor /\ s[i].inc <= inc
           /\ s[i].inc = inc => s[i].policy = policy
    BY <1>5, <1>6, <1>8, <1>10
  <1>12. /\ DiskType' /\ FileInv' /\ Segments' = Segments
         /\ \A f \in Segments \ {w} : disk'[f] = disk[f]
         /\ disk'[w].header = disk[w].header /\ disk'[w].skip = disk[w].skip
         /\ Recs(w)' = s
         /\ \A r : Held(r) => Held(r)'
         /\ \A f : Newest(f)' <=> Newest(f)
    BY <1>4, <1>5, <1>9, <1>11, OneFile
  <1>13. TailOf(disk'[w]) = TailOf(disk[w])
    BY <1>7, <1>12 DEF TailOf
  <1>14. s # <<>> /\ s[n].st = st
    BY <1>1, <1>2, <1>3, <1>5, EmptyFacts
  <1> QED
    BY <1>5, <1>6, <1>8, <1>12, <1>13, <1>14

LEMMA StakeStep ==
  ASSUME CoreInv, Stake
  PROVE  CoreInv'
  <1> USE DEF CoreInv
  <1>1. /\ wpc = "stake" /\ wpc' = "commit" /\ call' = call
        /\ writer' = writer /\ segments' = segments /\ cursor' = cursor
        /\ activeBytes' = activeBytes /\ pending' = pending /\ policy' = policy /\ fpc' = fpc
        /\ inc' = inc /\ promised' = promised /\ lost' = lost /\ refused' = refused
    BY DEF Stake, inner, marks, WriterStep, flusher, history
  <1>2. /\ ~call.retried /\ call.w = writer /\ Target = writer /\ writer # -1
        /\ cursor < MaxCursor /\ call.size # 0 /\ writer \in Segments /\ Newest(writer)
        /\ segments = Segments /\ disk[writer].header /\ Running /\ Running' /\ LastRecord
    BY <1>1 DEF PcInv, RetryInv, WriterInv, LiveInv, Running, Target, Writing
  <1>3. /\ disk' = [disk EXCEPT ![writer].recs[Len(Recs(writer))].st = "writing"]
        /\ Recs(writer) # <<>> /\ Recs(writer)[Len(Recs(writer))].st # "done"
    BY <1>1, <1>2 DEF Stake, SetState, LastRecord
  <1>4. /\ DiskType' /\ FileInv' /\ Segments' = Segments
        /\ disk'[writer].header
        /\ Len(Recs(writer))' = Len(Recs(writer)) /\ Recs(writer)' # <<>>
        /\ \A i \in DOMAIN Recs(writer) :
             /\ Recs(writer)'[i].cursor = Recs(writer)[i].cursor
             /\ Recs(writer)'[i].inc = Recs(writer)[i].inc
             /\ Recs(writer)'[i].policy = Recs(writer)[i].policy
        /\ Recs(writer)'[Len(Recs(writer))].st = "writing"
        /\ \A r : Held(r) => Held(r)'
        /\ Newest(writer)'
    <2>1. PICK w \in Segments : w = writer
      BY <1>2
    <2>2. /\ DiskType' /\ FileInv' /\ Segments' = Segments
          /\ disk'[w].header = disk[w].header
          /\ Len(Recs(w))' = Len(Recs(w)) /\ Recs(w)' # <<>>
          /\ \A i \in DOMAIN Recs(w) :
               /\ Recs(w)'[i].cursor = Recs(w)[i].cursor
               /\ Recs(w)'[i].inc = Recs(w)[i].inc /\ Recs(w)'[i].policy = Recs(w)[i].policy
          /\ Recs(w)'[Len(Recs(w))].st = "writing"
          /\ TailOf(disk'[w]) = TailOf(disk[w])
          /\ \A r : Held(r) => Held(r)'
          /\ \A f : Newest(f)' <=> Newest(f)
      <3>1. /\ disk' = [disk EXCEPT ![w].recs[Len(Recs(w))].st = "writing"]
            /\ Recs(w) # <<>> /\ Recs(w)[Len(Recs(w))].st # "done" /\ DiskType /\ inc \in Nat
        BY <1>3, <2>1 DEF WalType
      <3>2. "writing" \in {"claimed", "writing", "done"}
        OBVIOUS
      <3> QED
        BY <1>1, <1>2, <3>1, <3>2, StateStored
    <2> QED
      BY <1>1, <1>2, <2>1, <2>2 DEF Newest
  <1>5. Len(Recs(writer)) \in DOMAIN Recs(writer)
    BY <1>2, <1>3, FileFacts DEF WalType
  <1>6. WalType' /\ EachInv'
    BY <1>1, <1>4 DEF WalType, EachInv
  <1>7. PcInv' /\ RetryInv'
    BY <1>1, <1>2 DEF PcInv, RetryInv, Writing
  <1>8. LastRecord'
    BY <1>1, <1>2, <1>4, <1>5 DEF LastRecord
  <1>9. LiveInv' /\ WriterInv'
    BY <1>1, <1>2, <1>4, <1>8 DEF LiveInv, WriterInv
  <1> QED
    BY <1>4, <1>6, <1>7, <1>9

LEMMA CommitStep ==
  ASSUME CoreInv, Commit
  PROVE  CoreInv'
  <1> USE DEF CoreInv
  <1>1. /\ wpc = "commit" /\ wpc' = "retain" /\ call' = call
        /\ writer' = writer /\ segments' = segments /\ cursor' = cursor
        /\ pending' = cursor + 1 /\ policy' = policy /\ fpc' = fpc
        /\ inc' = inc /\ promised' = promised /\ lost' = lost /\ refused' = refused
    BY DEF Commit, WriterStep, flusher, history
  <1>2. /\ ~call.retried /\ call.w = writer /\ Target = writer /\ writer # -1
        /\ cursor < MaxCursor /\ call.size # 0 /\ writer \in Segments /\ Newest(writer)
        /\ segments = Segments /\ disk[writer].header /\ Running /\ Running' /\ LastRecord
    BY <1>1 DEF PcInv, RetryInv, WriterInv, LiveInv, Running, Target, Writing
  <1>3. /\ disk' = [disk EXCEPT ![writer].recs[Len(Recs(writer))].st = "done"]
        /\ Recs(writer) # <<>> /\ Recs(writer)[Len(Recs(writer))].st # "done"
        /\ activeBytes' = TailOf(disk[writer])
    BY <1>1, <1>2 DEF Commit, SetState, LastRecord
  <1>4. /\ DiskType' /\ FileInv' /\ Segments' = Segments
        /\ disk'[writer].header
        /\ Len(Recs(writer))' = Len(Recs(writer)) /\ Recs(writer)' # <<>>
        /\ \A i \in DOMAIN Recs(writer) :
             /\ Recs(writer)'[i].cursor = Recs(writer)[i].cursor
             /\ Recs(writer)'[i].inc = Recs(writer)[i].inc
             /\ Recs(writer)'[i].policy = Recs(writer)[i].policy
        /\ Recs(writer)'[Len(Recs(writer))].st = "done"
        /\ TailOf(disk'[writer]) = TailOf(disk[writer])
        /\ \A r : Held(r) => Held(r)'
        /\ Newest(writer)'
    <2>1. PICK w \in Segments : w = writer
      BY <1>2
    <2>2. /\ DiskType' /\ FileInv' /\ Segments' = Segments
          /\ disk'[w].header = disk[w].header
          /\ Len(Recs(w))' = Len(Recs(w)) /\ Recs(w)' # <<>>
          /\ \A i \in DOMAIN Recs(w) :
               /\ Recs(w)'[i].cursor = Recs(w)[i].cursor
               /\ Recs(w)'[i].inc = Recs(w)[i].inc /\ Recs(w)'[i].policy = Recs(w)[i].policy
          /\ Recs(w)'[Len(Recs(w))].st = "done"
          /\ TailOf(disk'[w]) = TailOf(disk[w])
          /\ \A r : Held(r) => Held(r)'
          /\ \A f : Newest(f)' <=> Newest(f)
      <3>1. PICK st \in {"claimed", "writing", "done"} : st = "done"
        OBVIOUS
      <3>2. /\ disk' = [disk EXCEPT ![w].recs[Len(Recs(w))].st = st]
            /\ Recs(w) # <<>> /\ Recs(w)[Len(Recs(w))].st # "done" /\ DiskType /\ inc \in Nat
            /\ FileInv /\ Running /\ Running' /\ inc' = inc /\ policy' = policy
        BY <1>1, <1>2, <1>3, <2>1, <3>1 DEF WalType
      <3>3. /\ DiskType' /\ FileInv' /\ Segments' = Segments
            /\ disk'[w].header = disk[w].header
            /\ Len(Recs(w))' = Len(Recs(w)) /\ Recs(w)' # <<>>
            /\ \A i \in DOMAIN Recs(w) :
                 /\ Recs(w)'[i].cursor = Recs(w)[i].cursor
                 /\ Recs(w)'[i].inc = Recs(w)[i].inc /\ Recs(w)'[i].policy = Recs(w)[i].policy
            /\ Recs(w)'[Len(Recs(w))].st = st
            /\ TailOf(disk'[w]) = TailOf(disk[w])
            /\ \A r : Held(r) => Held(r)'
            /\ \A f : Newest(f)' <=> Newest(f)
        <4> HIDE DEF CoreInv
        <4> QED
          BY <3>2, StateStored
      <3> QED
        BY <3>1, <3>3
    <2> QED
      BY <1>1, <1>2, <2>1, <2>2 DEF Newest
  <1>5. /\ Len(Recs(writer)) \in DOMAIN Recs(writer) /\ Len(Recs(writer)) \in Nat
    BY <1>2, <1>3, FileFacts DEF WalType
  <1>6. WalType' /\ EachInv'
    <2>1. pending' \in Nat
      BY <1>1 DEF WalType
    <2> QED
      BY <1>1, <1>4, <2>1 DEF WalType, EachInv
  <1>7. PcInv' /\ RetryInv'
    BY <1>1, <1>2, <1>3, <1>4 DEF PcInv, RetryInv, Writing
  <1>8. LastRecord'
    BY <1>1, <1>2, <1>4, <1>5 DEF LastRecord
  <1>9. Whole(writer)'
    <2>1. /\ DOMAIN Recs(writer)' = 1..Len(Recs(writer)') /\ Len(Recs(writer)') = Len(Recs(writer))
          /\ \A i \in DOMAIN Recs(writer)' : i < Len(Recs(writer)') => Recs(writer)'[i].st = "done"
      <3>1. PICK w \in Segments : w = writer
        BY <1>2
      <3>2. Recs(w)' \in Seq(Record) /\ FileOK(w)'
        BY <1>4 DEF FileInv, DiskType, File
      <3> QED
        BY <1>1, <1>4, <3>1, <3>2, SeqFacts DEF FileOK
    <2>2. \A i \in DOMAIN Recs(writer)' : i < Len(Recs(writer)) \/ i = Len(Recs(writer))
      BY <1>5, <2>1
    <2> QED
      BY <1>1, <1>4, <2>1, <2>2 DEF Whole
  <1>10. LiveInv' /\ WriterInv'
    BY <1>1, <1>2, <1>4, <1>8, <1>9 DEF LiveInv, WriterInv
  <1> QED
    BY <1>4, <1>6, <1>7, <1>10

LEMMA DropFile ==
  ASSUME DiskType, FileInv, NEW k, disk' = [f \in DOMAIN disk \ {k} |-> disk[f]],
         inc' = inc, policy' = policy, Running
  PROVE  /\ DiskType' /\ FileInv' /\ Segments' = Segments \ {k}
         /\ \A f \in Segments \ {k} : disk'[f] = disk[f] /\ Count(f)' = Count(f)
         /\ \A r : Held(r) => Held(r)' \/ r \in ToSet(disk[k].recs)
  <1>1. Segments' = Segments \ {k} /\ \A f \in Segments \ {k} : disk'[f] = disk[f]
    OBVIOUS
  <1>2. DiskType'
    BY <1>1 DEF DiskType
  <1>3. \A f \in Segments \ {k} : Count(f)' = Count(f)
    BY <1>1 DEF Count
  <1>4. FileInv'
    BY <1>1, <1>3 DEF FileInv, FileOK
  <1>5. ASSUME NEW r, Held(r) PROVE Held(r)' \/ r \in ToSet(disk[k].recs)
    <2>1. PICK f \in Segments : /\ disk[f].header
            /\ \E i \in DOMAIN Recs(f) : i <= disk[f].synced /\ Recs(f)[i] = r
      BY <1>5 DEF Held
    <2>2. CASE f = k
      BY <2>1, <2>2 DEF ToSet
    <2>3. CASE f # k
      BY <1>1, <2>1, <2>3 DEF Held
    <2> QED
      BY <2>2, <2>3
  <1> QED
    BY <1>1, <1>2, <1>3, <1>4, <1>5

\* Retention deletes the oldest file, and not the active one.
LEMMA OldestFacts ==
  ASSUME CoreInv, wpc = "retain", Retirable # {}, NEW k, k = Min(Retirable)
  PROVE  k \in Segments /\ k # writer /\ \A f \in Segments : k <= f
  <1>1. writer \in Segments /\ Newest(writer) /\ segments = Segments
    BY DEF CoreInv, PcInv, WriterInv, Writing
  <1>2. Retirable \subseteq Nat /\ Segments \subseteq Nat
    BY <1>1 DEF Retirable, CoreInv, WalType, DiskType
  <1>3. k \in Retirable /\ \A y \in Retirable : k <= y
    BY <1>2, MinFacts
  <1>4. k <= writer
    BY <1>1, <1>3 DEF Retirable, Newest
  <1> QED
    BY <1>1, <1>3, <1>4 DEF Retirable

LEMMA DeleteOldestStep ==
  ASSUME CoreInv, DeleteOldest
  PROVE  CoreInv'
  <1> USE DEF CoreInv
  <1>1. PICK k : k = Min(Retirable)
    OBVIOUS
  <1>2. /\ wpc = "retain" /\ wpc' = wpc /\ Retirable # {} /\ call' = call
        /\ disk' = [f \in DOMAIN disk \ {k} |-> disk[f]] /\ segments' = segments \ {k}
        /\ promised' = promised \ ToSet(disk[k].recs)
        /\ writer' = writer /\ cursor' = cursor /\ activeBytes' = activeBytes
        /\ pending' = pending /\ policy' = policy /\ fpc' = fpc
        /\ inc' = inc /\ lost' = lost /\ refused' = refused
    BY <1>1 DEF DeleteOldest, marks, flusher
  <1>3. k \in Segments /\ k # writer /\ \A f \in Segments : k <= f
    BY <1>1, <1>2, OldestFacts
  <1>4. /\ ~call.retried /\ call.w = writer /\ writer # -1
        /\ cursor < MaxCursor /\ call.size # 0 /\ writer \in Segments /\ Newest(writer)
        /\ segments = Segments /\ disk[writer].header /\ Running /\ Running' /\ LastRecord
        /\ Whole(writer) /\ activeBytes = TailOf(disk[writer])
    BY <1>2 DEF PcInv, RetryInv, WriterInv, Running, Writing
  <1>5. /\ DiskType' /\ FileInv' /\ Segments' = Segments \ {k}
        /\ \A f \in Segments \ {k} : disk'[f] = disk[f]
        /\ \A r : Held(r) => Held(r)' \/ r \in ToSet(disk[k].recs)
    <2>1. DiskType /\ FileInv
      BY DEF WalType
    <2> HIDE DEF CoreInv
    <2> QED
      BY <1>2, <1>4, <2>1, DropFile
  <1>6. disk'[writer] = disk[writer]
    BY <1>3, <1>4, <1>5
  <1>7. WalType'
    BY <1>2, <1>5 DEF WalType
  <1>8. EachInv'
    BY <1>2, <1>5 DEF EachInv
  <1>9. PcInv' /\ RetryInv'
    BY <1>2, <1>4, <1>6 DEF PcInv, RetryInv, Writing
  <1>10. LiveInv'
    BY <1>2, <1>4, <1>5 DEF LiveInv
  <1>11. Whole(writer)' /\ LastRecord' /\ Newest(writer)'
    BY <1>2, <1>4, <1>5, <1>6 DEF Whole, LastRecord, Newest
  <1>12. WriterInv'
    BY <1>2, <1>3, <1>4, <1>5, <1>6, <1>11 DEF WriterInv
  <1> QED
    BY <1>5, <1>7, <1>8, <1>9, <1>10, <1>12

\* Neither the records nor the sentinels change.
KeptSkip == Kept /\ \A f \in Segments : disk'[f].skip = disk[f].skip

LEMMA SameKeptSkip ==
  ASSUME DiskType, FileInv, disk' = disk
  PROVE  KeptSkip
  BY SameKept DEF KeptSkip

LEMMA SyncKeptSkip ==
  ASSUME DiskType, FileInv, NEW w, disk' = FlushSync(disk, w)
  PROVE  KeptSkip
  <1>1. \A f \in Segments : disk'[f].skip = disk[f].skip
    BY DEF FlushSync, DiskType, File
  <1> QED
    BY <1>1, SyncKept DEF KeptSkip

LEMMA KeptTail ==
  ASSUME KeptSkip, NEW f \in Segments
  PROVE  TailOf(disk'[f]) = TailOf(disk[f])
  BY TailSame DEF KeptSkip, Kept

\* A sync that fails leaves a mark, and that is all.
LEMMA FailedKept ==
  ASSUME DiskType, FileInv, NEW w, disk' = FlushSyncFailed(disk, w)
  PROVE  Kept /\ KeptSkip
  <1>1. \A f \in Segments : /\ disk[f] \in File /\ disk[f].synced \in Int
                            /\ disk[f].synced <= Count(f)
    BY DEF DiskType, File, FileInv, FileOK
  <1>2. CASE w \notin Segments
    BY <1>2, SameKept, SameKeptSkip DEF FlushSyncFailed
  <1>3. CASE w \in Segments
    <2>1. disk' = [disk EXCEPT ![w].failed = TRUE]
      BY <1>3 DEF FlushSyncFailed
    <2>2. disk' \in [DOMAIN disk -> File]
      <3>1. [disk[w] EXCEPT !.failed = TRUE] \in File
        BY <1>1, <1>3 DEF File
      <3> QED
        BY <1>1, <2>1, <3>1 DEF DiskType
    <2>3. \A f \in Segments : /\ disk'[f].recs = disk[f].recs
                              /\ disk'[f].header = disk[f].header
                              /\ disk'[f].skip = disk[f].skip
                              /\ disk'[f].synced = disk[f].synced
      BY <1>1, <2>1 DEF File
    <2> QED
      BY <1>1, <2>2, <2>3 DEF Kept, KeptSkip, DiskType
  <1> QED
    BY <1>2, <1>3

\* append returns.
LEMMA ReturnCore ==
  ASSUME CoreInv, wpc = "retain", wpc' = "idle", KeptSkip, cursor' \in {cursor, cursor + 1},
         refused' \in BOOLEAN, lost' = lost, writer' = writer, segments' = segments,
         activeBytes' = activeBytes, pending' = pending, policy' = policy, call' = call,
         fpc' = fpc, inc' = inc, promised' \subseteq Record, EachInv'
  PROVE  CoreInv'
  <1> USE DEF CoreInv
  <1>1. /\ writer # -1 /\ cursor < MaxCursor /\ writer \in Segments /\ Newest(writer)
        /\ segments = Segments /\ disk[writer].header /\ Running /\ Running'
        /\ Whole(writer) /\ activeBytes = TailOf(disk[writer])
    BY DEF PcInv, RetryInv, WriterInv, Running, Writing
  <1>2. /\ DiskType' /\ FileInv' /\ Segments' = Segments
        /\ \A f \in Segments : /\ Whole(f)' <=> Whole(f)
                               /\ disk[f].header => disk'[f].header
        /\ \A f : Newest(f)' <=> Newest(f)
    <2>1. DiskType /\ FileInv /\ Kept
      BY DEF WalType, KeptSkip
    <2> HIDE DEF CoreInv
    <2> QED
      BY <1>1, <2>1, KeptFacts
  <1>3. TailOf(disk'[writer]) = TailOf(disk[writer])
    BY <1>1, KeptTail
  <1>4. cursor' \in 0..MaxCursor /\ cursor <= cursor'
    BY <1>1, ConstantsOK DEF WalType
  <1>5. WalType'
    BY <1>2, <1>4 DEF WalType
  <1>6. PcInv' /\ RetryInv'
    BY <1>1, <1>3 DEF PcInv, RetryInv, Writing
  <1>7. LiveInv'
    <2>1. \A f \in Segments : f <= cursor'
      <3>1. \A f \in Segments : f \in Nat /\ f <= cursor
        BY <1>1 DEF LiveInv, WalType, DiskType
      <3>2. cursor \in Nat /\ cursor' \in Nat
        BY <1>4 DEF WalType
      <3> QED
        BY <1>4, <3>1, <3>2
    <2> QED
      BY <1>1, <1>2, <2>1 DEF LiveInv
  <1>8. Newest(writer)' /\ Whole(writer)' /\ disk'[writer].header
    BY <1>1, <1>2 DEF Newest, Whole
  <1>9. WriterInv'
    BY <1>1, <1>2, <1>8 DEF WriterInv
  <1> QED
    BY <1>2, <1>5, <1>6, <1>7, <1>9

LEMMA SyncEachStep ==
  ASSUME CoreInv, SyncEach
  PROVE  CoreInv'
  <1> USE DEF CoreInv
  <1>1. /\ wpc = "retain" /\ wpc' = "idle" /\ disk' = FlushSync(disk, call.w)
        /\ promised' = PromiseLast(Target)
        /\ cursor' \in {cursor, cursor + 1} /\ refused' \in BOOLEAN
        /\ lost' = lost /\ writer' = writer /\ segments' = segments
        /\ activeBytes' = activeBytes /\ pending' = pending /\ policy' = policy /\ call' = call
        /\ fpc' = fpc /\ inc' = inc
    BY DEF SyncEach, RetainDone, Return, inner, flusher, WalType
  <1>2. /\ call.w = writer /\ Target = writer /\ writer \in Segments /\ Whole(writer)
        /\ disk[writer].header /\ LastRecord /\ Running /\ Running'
    BY <1>1 DEF PcInv, RetryInv, WriterInv, Running, Writing, Target
  <1>3. PICK w \in Segments : w = writer
    BY <1>2
  <1>4. DiskType /\ FileInv /\ disk' = FlushSync(disk, w)
    BY <1>1, <1>2, <1>3 DEF WalType
  <1>5. KeptSkip /\ Kept /\ (w \in SoundFiles => disk'[w].synced = Count(w))
    <2> HIDE DEF CoreInv
    <2> QED
      BY <1>4, SyncKept, SyncKeptSkip
  <1>6. /\ Count(w) = Len(Recs(w)) /\ Recs(w) # <<>> /\ Len(Recs(w)) \in DOMAIN Recs(w)
        /\ Recs(w)[Len(Recs(w))] \in Record /\ Len(Recs(w)) \in Nat
    BY <1>2, <1>3, <1>4, FileFacts DEF LastRecord
  <1>7. Last(Recs(w)) = Recs(w)[Len(Recs(w))]
    BY DEF Last
  <1>8. /\ Segments' = Segments /\ Recs(w)' = Recs(w) /\ disk'[w].header
        /\ \A r : Held(r) => Held(r)'
    <2>1. disk[w].header
      BY <1>2, <1>3
    <2> HIDE DEF CoreInv
    <2> QED
      BY <1>1, <1>2, <1>4, <1>5, <2>1, KeptFacts
  <1>9. w \in SoundFiles => Held(Last(Recs(w)))'
    <2> SUFFICES ASSUME w \in SoundFiles PROVE Held(Last(Recs(w)))'
      OBVIOUS
    <2>1. Last(Recs(w))' = Last(Recs(w))
      BY <1>8
    <2>2. /\ Len(Recs(w)) \in DOMAIN Recs(w)' /\ Recs(w)'[Len(Recs(w))] = Last(Recs(w))
          /\ Len(Recs(w)) <= disk'[w].synced
      BY <1>5, <1>6, <1>7, <1>8
    <2> QED
      BY <1>8, <2>1, <2>2 DEF Held
  <1>10. /\ \A r \in promised' : r \in promised \/ (w \in SoundFiles /\ r = Last(Recs(w)))
         /\ Last(Recs(w))' = Last(Recs(w))
    BY <1>1, <1>2, <1>3, <1>8 DEF PromiseLast
  <1>11. EachInv' /\ promised' \subseteq Record
    <2>2. \A r \in promised' : r.policy = "Each" => Held(r)'
      BY <1>8, <1>9, <1>10 DEF EachInv
    <2> QED
      BY <1>6, <1>7, <1>10, <2>2 DEF EachInv, WalType
  <1> QED
    BY <1>1, <1>5, <1>11, ReturnCore

LEMMA OtherReturns ==
  ASSUME CoreInv, SyncEachFails \/ AppendDone
  PROVE  CoreInv'
  <1>0. DiskType /\ FileInv
    BY DEF CoreInv, WalType
  <1>1. /\ wpc = "retain" /\ wpc' = "idle" /\ promised' = promised
        /\ \E w : disk' = disk \/ disk' = FlushSyncFailed(disk, w)
        /\ cursor' \in {cursor, cursor + 1} /\ refused' \in BOOLEAN
        /\ lost' = lost /\ writer' = writer /\ segments' = segments
        /\ activeBytes' = activeBytes /\ pending' = pending /\ policy' = policy /\ call' = call
        /\ fpc' = fpc /\ inc' = inc
    BY DEF SyncEachFails, AppendDone, RetainDone, Return, inner, flusher, CoreInv, WalType
  <1>2. KeptSkip /\ Kept
    BY <1>0, <1>1, SameKept, SameKeptSkip, FailedKept
  <1>3. \A r : Held(r) => Held(r)'
    <2>1. Running' => Running /\ policy' = policy
      BY <1>1 DEF Running
    <2> QED
      BY <1>0, <1>1, <1>2, <2>1, KeptFacts
  <1>4. EachInv' /\ promised' \subseteq Record
    BY <1>1, <1>3 DEF EachInv, CoreInv, WalType
  <1> QED
    BY <1>1, <1>2, <1>4, ReturnCore

-----------------------------------------------------------------------------
(* The flusher, the reader and the end of the publisher *)

\* The publisher does not move.
LEMMA QuietCore ==
  ASSUME CoreInv, KeptSkip, wpc' = wpc, cursor' = cursor, refused' = refused, lost' = lost,
         writer' = writer, segments' = segments, activeBytes' = activeBytes,
         pending' = pending, policy' = policy, call' = call, inc' = inc,
         fpc' \in {"idle", "load", "flush", "stopped"},
         fpc' \in {"load", "flush"} => Running /\ policy = "Batched",
         promised' \subseteq Record, EachInv'
  PROVE  CoreInv'
  <1> USE DEF CoreInv
  <1>1. /\ DiskType' /\ FileInv' /\ Segments' = Segments
        /\ \A f \in Segments : /\ Whole(f)' <=> Whole(f)
                               /\ Recs(f)' = Recs(f)
                               /\ disk[f].header => disk'[f].header
        /\ \A f : Newest(f)' <=> Newest(f)
    <2>1. DiskType /\ FileInv /\ Kept /\ (Running' => Running)
      BY DEF WalType, KeptSkip, Running
    <2> HIDE DEF CoreInv
    <2> QED
      BY <2>1, KeptFacts
  <1>2. \A f \in Segments : TailOf(disk'[f]) = TailOf(disk[f])
    BY KeptTail
  <1>3. WalType'
    BY <1>1 DEF WalType
  <1>4. PcInv'
    BY DEF PcInv, Running
  <1>5. RetryInv'
    <2>1. wpc \in {"idle", "reserve", "retain"} /\ writer # -1 => writer \in Segments
      BY DEF WriterInv
    <2>2. wpc \in {"reserve", "retain"} => writer # -1
      BY DEF PcInv, Writing
    <2> QED
      BY <1>1, <1>2, <2>1, <2>2 DEF RetryInv
  <1>6. LiveInv'
    BY <1>1 DEF LiveInv, Running
  <1>7. writer # -1 => writer \in Segments /\ (LastRecord' <=> LastRecord)
    BY <1>1 DEF WriterInv, LastRecord
  <1>8. WriterInv'
    <2>1. writer # -1 => /\ Newest(writer)' <=> Newest(writer)
                         /\ Whole(writer)' <=> Whole(writer)
      BY <1>1, <1>7 DEF Newest, Whole
    <2>2. Newest(cursor)' <=> Newest(cursor)
      BY <1>1 DEF Newest
    <2> QED
      BY <1>1, <1>7, <2>1, <2>2 DEF WriterInv
  <1> QED
    BY <1>1, <1>3, <1>4, <1>5, <1>6, <1>8

LEMMA HeldSame ==
  ASSUME CoreInv, promised' = promised, wpc' = wpc, inc' = inc, policy' = policy,
         \E w : disk' = disk \/ disk' = FlushSyncFailed(disk, w)
  PROVE  EachInv' /\ promised' \subseteq Record /\ KeptSkip
  <1>1. DiskType /\ FileInv /\ (Running' => Running /\ policy' = policy)
    BY DEF CoreInv, WalType, Running
  <1>2. Kept /\ KeptSkip
    BY <1>1, SameKept, SameKeptSkip, FailedKept
  <1>3. \A r : Held(r) => Held(r)'
    BY <1>1, <1>2, KeptFacts
  <1> QED
    BY <1>2, <1>3 DEF CoreInv, EachInv, WalType

LEMMA FlusherQuiet ==
  ASSUME CoreInv, Snapshot \/ LoadWriter \/ FlushFails
  PROVE  CoreInv'
  <1>1. /\ \E w : disk' = disk \/ disk' = FlushSyncFailed(disk, w)
        /\ wpc' = wpc /\ cursor' = cursor /\ refused' = refused /\ lost' = lost
        /\ writer' = writer /\ segments' = segments /\ activeBytes' = activeBytes
        /\ pending' = pending /\ policy' = policy /\ call' = call /\ inc' = inc
        /\ promised' = promised /\ fpc' \in {"idle", "load", "flush", "stopped"}
    BY DEF Snapshot, LoadWriter, FlushFails, inner, marks, history
  <1>2. fpc' \in {"load", "flush"} => Running /\ policy = "Batched"
    BY DEF Snapshot, LoadWriter, FlushFails, CoreInv, PcInv
  <1>3. EachInv' /\ promised' \subseteq Record /\ KeptSkip
    BY <1>1, HeldSame
  <1> QED
    BY <1>1, <1>2, <1>3, QuietCore

\* Under Batched no record of this opening was written under Each.
LEMMA FlushStep ==
  ASSUME CoreInv, Flush
  PROVE  CoreInv'
  <1>1. PICK w : w = fsave.w
    OBVIOUS
  <1>2. /\ fpc = "flush" /\ disk' = FlushSync(disk, w) /\ promised' = Promise(fsave.pending)
        /\ fpc' = "idle" /\ wpc' = wpc /\ cursor' = cursor /\ refused' = refused /\ lost' = lost
        /\ writer' = writer /\ segments' = segments /\ activeBytes' = activeBytes
        /\ pending' = pending /\ policy' = policy /\ call' = call /\ inc' = inc
    BY <1>1 DEF Flush, inner
  <1>3. DiskType /\ FileInv /\ Running /\ Running' /\ policy = "Batched"
    BY <1>2 DEF CoreInv, WalType, PcInv, Running
  <1>4. KeptSkip /\ Kept
    BY <1>2, <1>3, SyncKept, SyncKeptSkip
  <1>5. \A r : Held(r) => Held(r)'
    BY <1>2, <1>3, <1>4, KeptFacts
  <1>6. \A r \in promised' : r \in promised \/ (r \in Record /\ r.policy # "Each")
    <2> SUFFICES ASSUME NEW r \in promised', r \notin promised
                 PROVE  r \in Record /\ r.policy # "Each"
      OBVIOUS
    <2>1. PICK f \in Segments : r \in ToSet(Committed(disk[f])) /\ r.inc = inc
      BY <1>2 DEF Promise, SoundFiles
    <2>2. PICK i \in DOMAIN Committed(disk[f]) : r = Committed(disk[f])[i]
      BY <2>1 DEF ToSet
    <2>3. /\ \A j \in DOMAIN Recs(f) : Recs(f)[j] \in Record
          /\ \A j \in 1..Count(f) : j \in DOMAIN Recs(f) /\ Committed(disk[f])[j] = Recs(f)[j]
          /\ Recs(f) \in Seq(Record)
      BY <1>3, FileFacts
    <2>4. DOMAIN Committed(disk[f]) = 1..Count(f)
      <3>1. Committed(disk[f]) \in Seq(Record)
        BY <1>3, <2>3, CommittedFacts DEF FileInv, FileOK
      <3> QED
        BY <3>1, SeqFacts DEF Count
    <2>5. i \in DOMAIN Recs(f) /\ r = Recs(f)[i] /\ r \in Record
      BY <2>2, <2>3, <2>4
    <2>6. r.policy = policy
      BY <1>3, <2>1, <2>5 DEF FileInv, FileOK
    <2> QED
      BY <1>3, <2>5, <2>6
  <1>7. EachInv' /\ promised' \subseteq Record
    BY <1>5, <1>6 DEF EachInv, CoreInv, WalType
  <1> QED
    BY <1>2, <1>4, <1>7, QuietCore

LEMMA ReaderCore ==
  ASSUME CoreInv, ReaderStep \/ UNCHANGED vars
  PROVE  CoreInv'
  <1>1. /\ disk' = disk /\ wpc' = wpc /\ cursor' = cursor /\ refused' = refused /\ lost' = lost
        /\ writer' = writer /\ segments' = segments /\ activeBytes' = activeBytes
        /\ pending' = pending /\ policy' = policy /\ call' = call /\ inc' = inc
        /\ promised' = promised /\ fpc' = fpc
    BY DEF ReaderStep, ReadFrom, OpenSegment, NextRecord, SegmentEnds, DropReplayer,
       vars, inner, marks, history, flusher
  <1>2. /\ fpc' \in {"idle", "load", "flush", "stopped"}
        /\ fpc' \in {"load", "flush"} => Running /\ policy = "Batched"
    BY <1>1 DEF CoreInv, PcInv, WalType
  <1>3. EachInv' /\ promised' \subseteq Record /\ KeptSkip
    BY <1>1, HeldSame
  <1> QED
    BY <1>1, <1>2, <1>3, QuietCore

LEMMA CloseStep ==
  ASSUME CoreInv, Close
  PROVE  CoreInv'
  <1>1. PICK w : w = writer
    OBVIOUS
  <1>2. /\ wpc' = "down" /\ ProcessGone /\ promised' = promised /\ lost' = lost
        /\ refused' = refused
        /\ disk' = FlushSync(disk, w) \/ disk' = FlushSyncFailed(disk, w)
    BY <1>1 DEF Close
  <1>3. Kept
    BY <1>2, SyncKept, FailedKept DEF CoreInv, WalType
  <1> QED
    BY <1>2, <1>3, GoneSame

LEMMA KillStep ==
  ASSUME CoreInv, Kill
  PROVE  CoreInv'
  <1>1. Kept
    BY SameKept DEF CoreInv, WalType, Kill
  <1> QED
    BY <1>1, GoneSame DEF Kill

LEMMA EmptyDisk ==
  ASSUME DiskType, DOMAIN disk = {}
  PROVE  disk = <<>>
  <1>1. disk = [f \in {} |-> disk[f]]
    BY DEF DiskType
  <1>2. <<>> = [f \in {} |-> disk[f]]
    <2>1. <<>> \in [1..0 -> File] /\ 1..0 = {}
      BY EmptySeq, LenProperties
    <2> QED
      BY <2>1
  <1> QED
    BY <1>1, <1>2

\* The cursor that Wal::open goes on with is in no file, or names the newest.
LEMMA ScanFacts ==
  ASSUME DiskType, FileInv, NEW f \in Segments
  PROVE  /\ ScanNewest(f) \in f..MaxCursor
         /\ Count(f) = 0 => ScanNewest(f) = f
         /\ PlaceOK(f) => ScanNewest(f) = f + Count(f)
  <1>1. /\ f \in 0..MaxCursor /\ Count(f) \in Nat
        /\ \A i \in DOMAIN Recs(f) : Recs(f)[i] \in Record /\ f <= Recs(f)[i].cursor
        /\ \A i \in 1..Count(f) : i \in DOMAIN Recs(f) /\ Committed(disk[f])[i] = Recs(f)[i]
        /\ Count(f) <= Len(Recs(f))
    BY FileFacts DEF FileInv, FileOK
  <1>2. Committed(disk[f]) \in Seq(Record)
    BY FileFacts, CommittedFacts DEF FileInv, FileOK
  <1>3. Committed(disk[f]) = <<>> <=> Count(f) = 0
    BY <1>2, SeqFacts DEF Count
  <1>4. CASE ~disk[f].header \/ Count(f) = 0
    <2>1. ScanNewest(f) = f
      BY <1>3, <1>4 DEF ScanNewest
    <2>2. PlaceOK(f) => Count(f) = 0
      <3>1. Recs(f) = <<>> => Count(f) = 0
        BY <1>1, EmptyFacts
      <3> QED
        BY <1>4, <3>1 DEF PlaceOK
    <2> QED
      BY <1>1, <2>1, <2>2
  <1>5. CASE disk[f].header /\ Count(f) # 0
    <2>1. ScanNewest(f) = Committed(disk[f])[Count(f)].cursor + 1
      BY <1>3, <1>5 DEF ScanNewest, Last, Count
    <2>2. /\ Count(f) \in DOMAIN Recs(f) /\ Committed(disk[f])[Count(f)] = Recs(f)[Count(f)]
      BY <1>1, <1>5
    <2>3. ScanNewest(f) = Recs(f)[Count(f)].cursor + 1
      BY <2>1, <2>2
    <2>4. Recs(f)[Count(f)].cursor \in 0..(MaxCursor - 1) /\ f <= Recs(f)[Count(f)].cursor
      BY <1>1, <2>2 DEF Record
    <2>5. PlaceOK(f) => Recs(f)[Count(f)].cursor = f + Count(f) - 1
      BY <2>2 DEF PlaceOK
    <2> QED
      BY <1>1, <1>5, <2>3, <2>4, <2>5, ConstantsOK
  <1> QED
    BY <1>4, <1>5

\* What Wal::open finds.
LEMMA OpenFacts ==
  ASSUME DiskType, FileInv, Open
  PROVE  /\ cursor' \in 0..MaxCursor /\ pending' = cursor'
         /\ \A f \in Segments : f <= cursor'
         /\ Segments = {} => cursor' = 0
         /\ \A f \in Segments : Newest(f) /\ PlaceOK(f) => cursor' = f + Count(f)
         /\ wpc' \in {"idle", "create"}
  <1>1. CASE Segments = {}
    <2>1. disk = <<>>
      BY <1>1, EmptyDisk
    <2> QED
      BY <1>1, <2>1, ConstantsOK DEF Open
  <1>2. CASE Segments # {}
    <2>1. PICK m : m = Max(Segments)
      OBVIOUS
    <2>2. m \in Segments /\ \A f \in Segments : f <= m
      BY <1>2, <2>1, MaxFacts, ConstantsOK DEF DiskType
    <2>3. disk # <<>>
      BY <1>2, EmptyFacts
    <2>4. cursor' = ScanNewest(m) /\ pending' = cursor' /\ wpc' \in {"idle", "create"}
      BY <2>1, <2>3 DEF Open
    <2>5. /\ m \in 0..MaxCursor /\ ScanNewest(m) \in m..MaxCursor
          /\ PlaceOK(m) => ScanNewest(m) = m + Count(m)
      BY <2>2, ScanFacts DEF DiskType
    <2>6. \A f \in Segments : f \in Nat /\ f <= cursor'
      BY <2>2, <2>4, <2>5, ConstantsOK DEF DiskType
    <2>7. \A f \in Segments : Newest(f) => f = m
      BY <2>2, <2>6 DEF Newest
    <2> QED
      BY <1>2, <2>4, <2>5, <2>6, <2>7
  <1> QED
    BY <1>1, <1>2

LEMMA OpenStep ==
  ASSUME CoreInv, Open
  PROVE  CoreInv'
  <1> USE DEF CoreInv
  <1>1. /\ disk' = disk /\ writer' = -1 /\ segments' = Segments /\ call' = OpenCall
        /\ fpc' = "idle" /\ inc' = inc + 1 /\ promised' = promised /\ lost' = lost
        /\ refused' = refused /\ policy' \in Policy
    BY ConstantsOK DEF Open, Policy
  <1>2. /\ cursor' \in 0..MaxCursor /\ pending' = cursor' /\ \A f \in Segments : f <= cursor'
        /\ wpc' \in {"idle", "create"}
    BY OpenFacts DEF WalType
  <1>3. FileInv' /\ DiskType'
    <2>1. \A f \in Segments : \A i \in DOMAIN Recs(f) : Recs(f)[i].inc \in Nat
      BY FileFacts DEF WalType, Record
    <2>2. inc \in Nat /\ DiskType'
      BY <1>1 DEF WalType, DiskType
    <2>3. \A f \in Segments : Count(f)' = Count(f)
      BY <1>1 DEF Count
    <2> QED
      BY <1>1, <2>1, <2>2, <2>3 DEF FileInv, FileOK
  <1>4. EachInv'
    BY <1>1 DEF EachInv, Held
  <1>5. WalType'
    <2>1. writer' \in -1..MaxCursor /\ segments' \subseteq 0..MaxCursor /\ pending' \in Nat
          /\ inc' \in Nat
          /\ call' \in [size : Nat, old : Int, w : Int, retried : BOOLEAN]
      BY <1>1, <1>2, ConstantsOK DEF WalType, DiskType, OpenCall
    <2> QED
      BY <1>1, <1>2, <1>3, <2>1 DEF WalType
  <1>6. PcInv' /\ RetryInv' /\ LiveInv' /\ WriterInv'
    BY <1>1, <1>2 DEF PcInv, RetryInv, LiveInv, WriterInv, Writing, OpenCall
  <1> QED
    BY <1>3, <1>4, <1>5, <1>6

LEMMA RemnantOf ==
  ASSUME NEW s, NEW t \in Remnants(s)
  PROVE  \E h \in BOOLEAN, n \in Max({s.synced, 0})..Len(s.recs) : t = Remnant(s, h, n)
  BY DEF Remnants

\* What a power loss leaves of a file: at least what was synced.
LEMMA RemnantFacts ==
  ASSUME DiskType, FileInv, NEW f \in Segments, NEW t \in Remnants(disk[f])
  PROVE  /\ t \in File /\ t.synced = disk[f].synced
         /\ DOMAIN t.recs = 1..Len(t.recs) /\ Len(t.recs) \in Nat
         /\ Len(t.recs) <= Len(Recs(f))
         /\ \A i \in DOMAIN t.recs : i \in DOMAIN Recs(f) /\ t.recs[i] = Recs(f)[i]
         /\ t.synced <= Len(Committed(t))
         /\ t.synced >= 0 => t.header = disk[f].header
         /\ \A i \in DOMAIN Recs(f) : i <= t.synced => i \in DOMAIN t.recs
  <1>1. /\ disk[f] \in File /\ Recs(f) \in Seq(Record) /\ Len(Recs(f)) \in Nat
        /\ DOMAIN Recs(f) = 1..Len(Recs(f))
        /\ Count(f) \in Nat /\ Count(f) <= Len(Recs(f))
        /\ \A i \in DOMAIN Recs(f) : i <= Count(f) <=> Recs(f)[i].st = "done"
        /\ disk[f].synced \in Int /\ disk[f].synced <= Count(f)
        /\ \A i \in DOMAIN Recs(f) : i < Len(Recs(f)) => Recs(f)[i].st = "done"
    BY FileFacts DEF FileInv, FileOK, File
  <1>2. PICK h \in BOOLEAN, n \in Max({disk[f].synced, 0})..Len(Recs(f)) :
          t = Remnant(disk[f], h, n)
    BY RemnantOf
  <1>3. Max({disk[f].synced, 0}) = IF disk[f].synced > 0 THEN disk[f].synced ELSE 0
    <2>1. PICK y \in Int : y = disk[f].synced
      BY <1>1
    <2>2. Max({y, 0}) \in {y, 0} /\ \A x \in {y, 0} : x <= Max({y, 0})
      <3>1. \E x \in {y, 0} : \A z \in {y, 0} : z <= x
        OBVIOUS
      <3> QED
        BY <3>1 DEF Max
    <2> QED
      BY <2>1, <2>2
  <1>4. n \in 0..Len(Recs(f)) /\ disk[f].synced <= n
    BY <1>1, <1>2, <1>3
  <1>5. /\ SubSeq(Recs(f), 1, n) \in Seq(Record) /\ Len(SubSeq(Recs(f), 1, n)) = n
        /\ \A i \in 1..n : SubSeq(Recs(f), 1, n)[i] = Recs(f)[i]
    BY <1>1, <1>4, PrefixFacts
  <1>6. /\ t \in File /\ t.recs = SubSeq(Recs(f), 1, n) /\ t.synced = disk[f].synced
        /\ disk[f].synced >= 0 => t.header = disk[f].header
    <2>2. PICK b \in BOOLEAN : b = (disk[f].header /\ (h \/ disk[f].synced >= 0))
      OBVIOUS
    <2>3. PICK s \in Seq(Record) : s = SubSeq(Recs(f), 1, n)
      BY <1>5
    <2>4. t = [disk[f] EXCEPT !.header = b, !.recs = s, !.failed = FALSE]
      BY <1>2, <2>2, <2>3 DEF Remnant
    <2>5. disk[f].header \in BOOLEAN
      BY <1>1 DEF File
    <2> QED
      BY <1>1, <2>2, <2>3, <2>4, <2>5 DEF File
  <1>7. DOMAIN t.recs = 1..n /\ Len(t.recs) = n /\ t.recs \in Seq(Record)
    BY <1>5, <1>6, SeqFacts
  <1>8. \A i \in DOMAIN t.recs : i \in DOMAIN Recs(f) /\ t.recs[i] = Recs(f)[i]
    BY <1>1, <1>4, <1>5, <1>6, <1>7
  <1>9. /\ Len(Committed(t)) \in Nat
        /\ \A i \in DOMAIN t.recs : i <= Len(Committed(t)) <=> t.recs[i].st = "done"
    <2>1. \A i \in DOMAIN t.recs : i < Len(t.recs) => t.recs[i].st = "done"
      BY <1>1, <1>4, <1>7, <1>8
    <2> QED
      BY <1>7, <2>1, CommittedFacts
  <1>10. t.synced <= Len(Committed(t))
    <2>1. CASE disk[f].synced <= 0
      BY <1>1, <1>6, <1>9, <2>1
    <2>2. CASE disk[f].synced > 0
      <3>1. disk[f].synced \in DOMAIN t.recs
        BY <1>1, <1>4, <1>7, <2>2
      <3>2. t.recs[disk[f].synced].st = "done"
        BY <1>1, <1>8, <3>1
      <3> QED
        BY <1>6, <1>9, <3>1, <3>2
    <2> QED
      BY <1>1, <2>1, <2>2
  <1>11. \A i \in DOMAIN Recs(f) : i <= t.synced => i \in DOMAIN t.recs
    BY <1>1, <1>4, <1>6, <1>7
  <1> QED
    BY <1>1, <1>4, <1>6, <1>7, <1>8, <1>10, <1>11

LEMMA PowerLossStep ==
  ASSUME CoreInv, PowerLoss
  PROVE  CoreInv'
  <1> USE DEF CoreInv
  <1> DEFINE dirty == {f \in DOMAIN disk : disk[f].synced < Len(disk[f].recs)}
  <1>1. /\ ~Running /\ lost' = TRUE /\ wpc' = wpc /\ cursor' = cursor /\ refused' = refused
        /\ writer' = writer /\ segments' = segments /\ activeBytes' = activeBytes
        /\ pending' = pending /\ policy' = policy /\ call' = call /\ inc' = inc
        /\ promised' = promised /\ fpc' = fpc
    BY DEF PowerLoss, inner, marks, flusher
  <1>2. PICK left \in [dirty -> UNION {Remnants(disk[f]) : f \in dirty}] :
          /\ \A f \in dirty : left[f] \in Remnants(disk[f])
          /\ disk' = [f \in DOMAIN disk |-> IF f \in dirty THEN left[f] ELSE disk[f]]
    BY DEF PowerLoss
  <1>3. DiskType /\ FileInv
    BY DEF WalType
  <1>4. Segments' = Segments
        /\ \A f \in Segments : disk'[f] \in Remnants(disk[f]) \/ disk'[f] = disk[f]
    BY <1>2
  <1>5. \A f \in Segments :
         /\ disk'[f] \in File /\ disk'[f].synced = disk[f].synced
         /\ DOMAIN Recs(f)' = 1..Len(Recs(f)') /\ Len(Recs(f)') \in Nat
         /\ Len(Recs(f)') <= Len(Recs(f)) /\ Len(Recs(f)) \in Nat
         /\ \A i \in DOMAIN Recs(f)' : i \in DOMAIN Recs(f) /\ Recs(f)'[i] = Recs(f)[i]
         /\ disk'[f].synced <= Count(f)'
         /\ disk'[f].synced >= 0 => disk'[f].header = disk[f].header
         /\ \A i \in DOMAIN Recs(f) : i <= disk'[f].synced => i \in DOMAIN Recs(f)'
    <2> SUFFICES ASSUME NEW f \in Segments
                 PROVE
         /\ disk'[f] \in File /\ disk'[f].synced = disk[f].synced
         /\ DOMAIN Recs(f)' = 1..Len(Recs(f)') /\ Len(Recs(f)') \in Nat
         /\ Len(Recs(f)') <= Len(Recs(f)) /\ Len(Recs(f)) \in Nat
         /\ \A i \in DOMAIN Recs(f)' : i \in DOMAIN Recs(f) /\ Recs(f)'[i] = Recs(f)[i]
         /\ disk'[f].synced <= Count(f)'
         /\ disk'[f].synced >= 0 => disk'[f].header = disk[f].header
         /\ \A i \in DOMAIN Recs(f) : i <= disk'[f].synced => i \in DOMAIN Recs(f)'
      OBVIOUS
    <2>1. /\ disk[f] \in File /\ disk[f].synced <= Count(f)
          /\ DOMAIN Recs(f) = 1..Len(Recs(f)) /\ Len(Recs(f)) \in Nat
      BY <1>3, FileFacts DEF FileInv, FileOK
    <2> HIDE DEF CoreInv
    <2>2. CASE disk'[f] = disk[f]
      BY <2>1, <2>2 DEF Count
    <2>3. CASE disk'[f] \in Remnants(disk[f])
      BY <1>3, <2>1, <2>3, RemnantFacts DEF Count
    <2> QED
      BY <1>4, <2>2, <2>3
  <1> HIDE DEF dirty
  <1>6. DiskType'
    <2>1. disk' = [f \in DOMAIN disk |-> disk'[f]]
      BY <1>2
    <2> QED
      BY <1>3, <1>4, <1>5, <2>1 DEF DiskType
  <1>7. FileInv'
    <2> SUFFICES ASSUME NEW f \in Segments PROVE FileOK(f)'
      BY <1>4 DEF FileInv
    <2>1. ~Running'
      BY <1>1 DEF Running
    <2>2. FileOK(f) /\ disk'[f].synced <= Count(f)'
      BY <1>5 DEF FileInv
    <2>3. \A i \in DOMAIN Recs(f)' : /\ i < Len(Recs(f)') => i < Len(Recs(f))
                                     /\ i \in DOMAIN Recs(f) /\ Recs(f)'[i] = Recs(f)[i]
      BY <1>5
    <2> QED
      BY <1>1, <2>1, <2>2, <2>3 DEF FileOK
  <1>8. ASSUME NEW r, Held(r) PROVE Held(r)'
    <2>1. PICK f \in Segments : /\ disk[f].header
            /\ \E i \in DOMAIN Recs(f) : i <= disk[f].synced /\ Recs(f)[i] = r
      BY <1>8 DEF Held
    <2>2. PICK i \in DOMAIN Recs(f) : i <= disk[f].synced /\ Recs(f)[i] = r
      BY <2>1
    <2>3. i \in Nat /\ disk[f].synced \in Int /\ disk[f].synced >= 0
      BY <1>3, <2>2, FileFacts DEF File
    <2>4. i \in DOMAIN Recs(f)' /\ Recs(f)'[i] = r /\ disk'[f].header /\ i <= disk'[f].synced
      BY <1>5, <2>1, <2>2, <2>3
    <2> QED
      BY <1>4, <2>4 DEF Held
  <1>9. WalType' /\ EachInv'
    BY <1>1, <1>6, <1>8 DEF WalType, EachInv
  <1>10. PcInv' /\ RetryInv' /\ LiveInv' /\ WriterInv'
    <2>1. wpc = "down" /\ writer = -1 /\ ~Running'
      BY <1>1 DEF Running, PcInv
    <2> QED
      BY <1>1, <2>1 DEF PcInv, RetryInv, LiveInv, WriterInv, Writing, Running
  <1> QED
    BY <1>6, <1>7, <1>9, <1>10

LEMMA InitCore == Init => CoreInv
  <1> SUFFICES ASSUME Init PROVE CoreInv
    OBVIOUS
  <1>1. /\ disk = <<>> /\ DOMAIN disk = {} /\ writer = -1 /\ segments = {} /\ cursor = 0
        /\ pending = 0 /\ inc = 0 /\ policy = "None" /\ promised = {} /\ lost = FALSE
        /\ refused = FALSE /\ wpc = "down" /\ call = OpenCall /\ fpc = "idle"
    BY EmptyFacts DEF Init
  <1>2. DiskType
    <2>1. <<>> \in [{} -> File]
      <3>1. <<>> \in [1..0 -> File] /\ 1..0 = {}
        BY EmptySeq, LenProperties
      <3> QED
        BY <3>1
    <2> QED
      BY <1>1, <2>1 DEF DiskType
  <1>3. WalType
    <2>1. /\ writer \in -1..MaxCursor /\ cursor \in 0..MaxCursor /\ pending \in Nat /\ inc \in Nat
          /\ segments \subseteq 0..MaxCursor
      BY <1>1, ConstantsOK
    <2>2. call \in [size : Nat, old : Int, w : Int, retried : BOOLEAN] /\ policy \in Policy
      BY <1>1 DEF OpenCall, Policy
    <2> QED
      BY <1>1, <1>2, <2>1, <2>2 DEF WalType
  <1> QED
    BY <1>1, <1>3 DEF CoreInv, PcInv, RetryInv, FileInv, LiveInv, WriterInv, EachInv,
       Running, Writing

LEMMA NextCore ==
  ASSUME CoreInv, [Next]_vars
  PROVE  CoreInv'
  <1>1. CASE Open
    BY <1>1, OpenStep
  <1>2. CASE AppendStep
    BY <1>2, AppendCallStep, WriteSkipStep, CreateFileStep, CreateFailsStep, WriteHeaderStep,
       StoreActiveStep, ReserveStep, StakeStep, CommitStep, DeleteOldestStep, SyncEachStep,
       OtherReturns DEF AppendStep
  <1>3. CASE FlusherStep
    BY <1>3, FlusherQuiet, FlushStep DEF FlusherStep
  <1>4. CASE Close \/ Kill \/ PowerLoss
    BY <1>4, CloseStep, KillStep, PowerLossStep
  <1>5. CASE ReaderStep \/ UNCHANGED vars
    BY <1>5, ReaderCore
  <1> QED
    BY <1>1, <1>2, <1>3, <1>4, <1>5 DEF Next

LEMMA CoreHolds == Spec => []CoreInv
  BY InitCore, NextCore, PTL DEF Spec

LEMMA EachSafe ==
  ASSUME CoreInv
  PROVE  EachSurvives
  <1> SUFFICES ASSUME NEW r \in promised, r.policy = "Each" PROVE Safe(r)
    BY DEF EachSurvives
  <1>1. PICK f \in Segments : /\ disk[f].header
          /\ \E i \in DOMAIN Recs(f) : i <= disk[f].synced /\ Recs(f)[i] = r
    BY DEF CoreInv, EachInv, Held
  <1>2. PICK i \in DOMAIN Recs(f) : i <= disk[f].synced /\ Recs(f)[i] = r
    BY <1>1
  <1>3. /\ disk[f].synced \in Int /\ disk[f].synced <= Count(f) /\ Count(f) \in Nat
        /\ DOMAIN Recs(f) = 1..Len(Recs(f)) /\ Len(Recs(f)) \in Nat
        /\ \A j \in 1..Count(f) : Committed(disk[f])[j] = Recs(f)[j]
    BY FileFacts DEF CoreInv, WalType, FileInv, FileOK, File
  <1>4. i \in 1..Count(f)
    BY <1>2, <1>3
  <1>5. DOMAIN Committed(disk[f]) = 1..Count(f)
    <2>1. Committed(disk[f]) \in Seq(Record)
      BY FileFacts, CommittedFacts DEF CoreInv, WalType, FileInv, FileOK
    <2> QED
      BY <2>1, SeqFacts DEF Count
  <1>6. r \in ToSet(Committed(disk[f]))
    BY <1>2, <1>3, <1>4, <1>5 DEF ToSet
  <1> QED
    BY <1>1, <1>6 DEF Safe

(***************************************************************************)
(* What FsyncPolicy::Each has covered with durable_cursor can be read      *)
(* after any number of kills and after a power loss, whatever the flusher, *)
(* rotation, retention and failed calls did in between (wal.rs, append).   *)
(***************************************************************************)
THEOREM EachRecordSurvives == Spec => []EachSurvives
  BY CoreHolds, EachSafe, PTL

-----------------------------------------------------------------------------
(* The committed records are one run of cursors *)

LEMMA FileFactsNext ==
  ASSUME DiskType', FileInv', NEW f \in Segments'
  PROVE  /\ Recs(f)' \in Seq(Record) /\ DOMAIN Recs(f)' = 1..Len(Recs(f)')
         /\ Len(Recs(f)') \in Nat /\ Count(f)' \in Nat /\ Count(f)' <= Len(Recs(f)')
         /\ Len(Recs(f)') <= Count(f)' + 1
         /\ \A i \in DOMAIN Recs(f)' : i <= Count(f)' <=> Recs(f)'[i].st = "done"
  <1>1. disk'[f].recs \in Seq(Record)
    BY DEF DiskType, File
  <1>2. \A i \in DOMAIN disk'[f].recs : i < Len(disk'[f].recs) => disk'[f].recs[i].st = "done"
    BY DEF FileInv, FileOK
  <1>3. DOMAIN disk'[f].recs = 1..Len(disk'[f].recs) /\ Len(disk'[f].recs) \in Nat
    BY <1>1, SeqFacts
  <1>4. /\ Len(Committed(disk'[f])) \in Nat /\ Len(Committed(disk'[f])) <= Len(disk'[f].recs)
        /\ Len(disk'[f].recs) <= Len(Committed(disk'[f])) + 1
        /\ \A i \in DOMAIN disk'[f].recs :
             i <= Len(Committed(disk'[f])) <=> disk'[f].recs[i].st = "done"
    BY <1>1, <1>2, CommittedFacts
  <1> QED
    BY <1>1, <1>3, <1>4 DEF Count

\* Files are added behind all others, and only the newest one grows.
Grows ==
  /\ Segments \subseteq Segments'
  /\ \A f \in Segments' \ Segments : \A g \in Segments : g < f
  /\ \A f \in Segments :
       /\ disk[f].header => disk'[f].header
       /\ Count(f) <= Count(f)'
       /\ Newest(f) \/ Count(f)' = Count(f)

LEMMA KeptGrows ==
  ASSUME CoreInv, Kept
  PROVE  Grows
  <1>1. Segments' = Segments
        /\ \A f \in Segments : Recs(f)' = Recs(f) /\ (disk[f].header => disk'[f].header)
    BY DEF Kept
  <1>2. \A f \in Segments : Count(f)' = Count(f)
    BY <1>1 DEF Count, Committed
  <1>3. \A f \in Segments : Count(f) \in Nat
    BY FileFacts DEF CoreInv, WalType
  <1> QED
    BY <1>1, <1>2, <1>3 DEF Grows

LEMMA ChainKept ==
  ASSUME ChainInv, Kept, Sound' => Sound,
         Sound' /\ Running' => Running /\ pending' = pending /\ Upcoming' = Upcoming
  PROVE  ChainInv'
  <1> SUFFICES ASSUME Sound'
               PROVE  /\ \A f \in Segments' : PlaceOK(f)' /\ (Newest(f)' \/ Joined(f, Segments)')
                      /\ Running' =>
                           /\ pending' = Upcoming'
                           /\ \A f \in Segments' : Newest(f)' => f + Count(f)' = Upcoming'
    BY DEF ChainInv
  <1>1. Segments' = Segments
        /\ \A f \in Segments : Recs(f)' = Recs(f) /\ (disk[f].header => disk'[f].header)
    BY DEF Kept
  <1>2. \A f \in Segments : Count(f)' = Count(f)
    BY <1>1 DEF Count, Committed
  <1>3. \A f : Newest(f)' <=> Newest(f)
    BY <1>1 DEF Newest
  <1>4. \A f \in Segments : PlaceOK(f) => PlaceOK(f)'
    BY <1>1 DEF PlaceOK
  <1>5. \A f \in Segments : Joined(f, Segments) => Joined(f, Segments)'
    BY <1>1, <1>2 DEF Joined
  <1> QED
    BY <1>1, <1>2, <1>3, <1>4, <1>5 DEF ChainInv

\* The step changes the active segment only.
LEMMA ChainActive ==
  ASSUME ChainInv, NEW w \in Segments, Newest(w), Running, Segments \subseteq Nat,
         Sound' => Sound, Segments' = Segments,
         \A f \in Segments \ {w} : disk'[f] = disk[f],
         Sound' => PlaceOK(w)' /\ w + Count(w)' = Upcoming' /\ pending' = Upcoming'
  PROVE  ChainInv'
  <1> SUFFICES ASSUME Sound'
               PROVE  /\ \A f \in Segments : PlaceOK(f)' /\ (Newest(f)' \/ Joined(f, Segments)')
                      /\ pending' = Upcoming'
                      /\ \A f \in Segments : Newest(f)' => f + Count(f)' = Upcoming'
    BY DEF ChainInv
  <1>1. \A f : Newest(f)' <=> Newest(f)
    BY DEF Newest
  <1>2. \A f \in Segments : Newest(f) => f = w
    BY DEF Newest
  <1>3. \A f \in Segments \ {w} : (PlaceOK(f) => PlaceOK(f)') /\ Count(f)' = Count(f)
    BY DEF PlaceOK, Count
  <1>4. \A f \in Segments \ {w} : Joined(f, Segments) => Joined(f, Segments)'
    BY <1>3 DEF Joined
  <1> QED
    BY <1>1, <1>2, <1>3, <1>4 DEF ChainInv

LEMMA ChainReserve ==
  ASSUME CoreInv, ChainInv, CoreInv', Reserve
  PROVE  ChainInv' /\ Grows
  <1>1. /\ wpc = "reserve" /\ cursor' = cursor /\ pending' = pending /\ lost' = lost
        /\ refused' = refused
    BY DEF Reserve, marks, WriterStep, history
  <1>2. /\ Target = writer /\ writer \in Segments /\ Newest(writer) /\ Whole(writer) /\ Running
        /\ disk[writer].header /\ DiskType /\ FileInv /\ Segments \subseteq Nat
    BY <1>1 DEF CoreInv, PcInv, RetryInv, WriterInv, Running, Target, Writing, WalType, DiskType
  <1>3. CASE disk' = disk
    <2>1. Upcoming = cursor /\ Upcoming' = cursor
      BY <1>1, <1>3 DEF Upcoming, Reserve
    <2> QED
      BY <1>1, <1>2, <1>3, <2>1, SameKept, ChainKept, KeptGrows DEF Sound
  <1>4. CASE disk' # disk
    <2>1. PICK w \in Segments : w = writer
      BY <1>2
    <2>2. PICK r : r = [cursor |-> cursor, inc |-> inc, policy |-> policy, size |-> call.size,
                        st |-> "claimed"]
      OBVIOUS
    <2>3. r.cursor = cursor /\ r.st = "claimed"
      BY <2>2
    <2>4. disk' = [disk EXCEPT ![w].recs = Append(Recs(w), r)] /\ wpc' = "stake"
      BY <1>2, <1>4, <2>1, <2>2 DEF Reserve
    <2>5. r \in Record
      <3>1. cursor \in 0..(MaxCursor - 1)
        BY <1>1, ConstantsOK DEF CoreInv, WalType, PcInv, Writing
      <3> QED
        BY <2>2, <3>1 DEF Record, CoreInv, WalType
    <2>6. /\ Recs(w) \in Seq(Record) /\ Count(w) = Len(Recs(w)) /\ disk[w] \in File
          /\ DOMAIN Recs(w) = 1..Len(Recs(w)) /\ Len(Recs(w)) \in Nat /\ w \in Nat
      BY <1>2, <2>1, FileFacts
    <2>7. /\ Append(Recs(w), r) \in Seq(Record) /\ Len(Append(Recs(w), r)) = Len(Recs(w)) + 1
          /\ \A i \in DOMAIN Recs(w) : Append(Recs(w), r)[i] = Recs(w)[i]
          /\ Append(Recs(w), r)[Len(Recs(w)) + 1] = r
      BY <2>5, <2>6, AppendFacts
    <2>8. /\ Segments' = Segments /\ \A f \in Segments \ {w} : disk'[f] = disk[f]
          /\ Recs(w)' = Append(Recs(w), r) /\ disk'[w].header = disk[w].header
      BY <1>2, <2>4, <2>6 DEF DiskType, File
    <2>9. /\ DOMAIN Recs(w)' = 1..Len(Recs(w)') /\ Count(w)' \in Nat /\ Count(w)' <= Len(Recs(w)')
          /\ Len(Recs(w)') <= Count(w)' + 1
          /\ \A i \in DOMAIN Recs(w)' : i <= Count(w)' <=> Recs(w)'[i].st = "done"
      BY <2>8, FileFactsNext DEF CoreInv, WalType
    <2>10. Count(w)' = Count(w)
      BY <2>3, <2>6, <2>7, <2>8, <2>9
    <2>11. Upcoming = cursor /\ Upcoming' = cursor
      BY <1>1, <2>4 DEF Upcoming
    <2>12. Sound => w + Count(w) = cursor /\ pending = cursor /\ PlaceOK(w)
      BY <1>2, <2>1, <2>11 DEF ChainInv, Newest
    <2>13. Sound => PlaceOK(w)'
      <3> SUFFICES ASSUME Sound PROVE PlaceOK(w)'
        OBVIOUS
      <3>1. \A i \in DOMAIN Recs(w)' : i \in DOMAIN Recs(w) \/ i = Len(Recs(w)) + 1
        BY <2>6, <2>7, <2>8, <2>9
      <3>2. Recs(w)'[Len(Recs(w)) + 1].cursor = w + (Len(Recs(w)) + 1) - 1
        BY <2>3, <2>6, <2>7, <2>8, <2>12
      <3>3. \A i \in DOMAIN Recs(w) : Recs(w)'[i].cursor = w + i - 1
        BY <2>7, <2>8, <2>12 DEF PlaceOK
      <3>4. disk'[w].header
        BY <1>2, <2>1, <2>8
      <3> QED
        BY <3>1, <3>2, <3>3, <3>4 DEF PlaceOK
    <2>14. Newest(w) /\ (Sound' => Sound)
      BY <1>1, <1>2, <2>1 DEF Newest, Sound
    <2>15. Grows
      <3>1. \A f \in Segments \ {w} : Count(f)' = Count(f) /\ Count(f) \in Nat
        BY <1>2, <2>8, FileFacts DEF Count
      <3> QED
        BY <2>6, <2>8, <2>10, <2>14, <3>1 DEF Grows
    <2> QED
      BY <1>1, <1>2, <2>8, <2>10, <2>11, <2>12, <2>13, <2>14, <2>15, ChainActive
  <1> QED
    BY <1>3, <1>4

LEMMA ChainStored ==
  ASSUME CoreInv, ChainInv, CoreInv', Stake \/ Commit
  PROVE  ChainInv' /\ Grows
  <1>1. /\ wpc \in {"stake", "commit"} /\ cursor' = cursor /\ lost' = lost /\ refused' = refused
        /\ inc' = inc /\ policy' = policy
        /\ \/ wpc' = "commit" /\ pending' = pending
           \/ wpc' = "retain" /\ pending' = cursor + 1
    BY DEF Stake, Commit, marks, WriterStep, history
  <1>2. /\ Target = writer /\ writer \in Segments /\ Newest(writer) /\ Running /\ Running'
        /\ disk[writer].header /\ DiskType /\ FileInv /\ Segments \subseteq Nat /\ LastRecord
        /\ inc \in Nat /\ cursor \in Nat
    BY <1>1 DEF CoreInv, PcInv, RetryInv, WriterInv, Running, Target, Writing, WalType, DiskType
  <1>3. PICK w \in Segments : w = writer
    BY <1>2
  <1>4. PICK st \in {"claimed", "writing", "done"} :
          /\ disk' = [disk EXCEPT ![w].recs[Len(Recs(w))].st = st]
          /\ st = IF wpc' = "retain" THEN "done" ELSE "writing"
    <2>1. CASE Stake
      BY <1>2, <1>3, <2>1 DEF Stake, SetState
    <2>2. CASE Commit
      BY <1>2, <1>3, <2>2 DEF Commit, SetState
    <2> QED
      BY <2>1, <2>2
  <1>5. Recs(w) # <<>> /\ Recs(w)[Len(Recs(w))].st # "done" /\ Newest(w) /\ disk[w].header
    BY <1>1, <1>2, <1>3 DEF LastRecord, Newest
  <1>6. /\ Segments' = Segments /\ \A f \in Segments \ {w} : disk'[f] = disk[f]
        /\ disk'[w].header = disk[w].header /\ Len(Recs(w))' = Len(Recs(w))
        /\ \A i \in DOMAIN Recs(w) : Recs(w)'[i].cursor = Recs(w)[i].cursor
        /\ Recs(w)'[Len(Recs(w))].st = st
        /\ DOMAIN Recs(w)' = DOMAIN Recs(w)
    <2>1. /\ disk' = [disk EXCEPT ![w].recs[Len(Recs(w))].st = st]
          /\ Recs(w) # <<>> /\ Recs(w)[Len(Recs(w))].st # "done" /\ DiskType /\ inc \in Nat
          /\ FileInv /\ Running /\ Running' /\ inc' = inc /\ policy' = policy
      BY <1>1, <1>2, <1>4, <1>5
    <2> QED
      BY <2>1, StateStored
  <1>7. /\ Count(w) \in Nat /\ Count(w) <= Len(Recs(w)) /\ Len(Recs(w)) <= Count(w) + 1
        /\ \A i \in DOMAIN Recs(w) : i <= Count(w) <=> Recs(w)[i].st = "done"
        /\ DOMAIN Recs(w) = 1..Len(Recs(w)) /\ Len(Recs(w)) \in Nat /\ Len(Recs(w)) # 0
        /\ w \in Nat
    BY <1>2, <1>5, FileFacts
  <1>8. /\ Count(w)' \in Nat /\ Count(w)' <= Len(Recs(w)') /\ Len(Recs(w)') <= Count(w)' + 1
        /\ \A i \in DOMAIN Recs(w)' : i <= Count(w)' <=> Recs(w)'[i].st = "done"
    BY <1>6, FileFactsNext DEF CoreInv, WalType
  <1>9. Len(Recs(w)) \in DOMAIN Recs(w) /\ Count(w) = Len(Recs(w)) - 1
    BY <1>5, <1>7
  <1>10. Count(w)' = IF wpc' = "retain" THEN Count(w) + 1 ELSE Count(w)
    <2>1. Len(Recs(w)) <= Count(w)' <=> st = "done"
      BY <1>6, <1>8, <1>9
    <2> QED
      BY <1>4, <1>6, <1>7, <1>8, <1>9, <2>1
  <1>11. Sound => w + Count(w) = cursor /\ pending = cursor /\ PlaceOK(w)
    BY <1>1, <1>2, <1>5 DEF ChainInv, Upcoming
  <1>12. Sound => PlaceOK(w)' /\ w + Count(w)' = Upcoming' /\ pending' = Upcoming'
    <2> SUFFICES ASSUME Sound
                 PROVE  PlaceOK(w)' /\ w + Count(w)' = Upcoming' /\ pending' = Upcoming'
      OBVIOUS
    <2>1. PlaceOK(w)'
      BY <1>5, <1>6, <1>11 DEF PlaceOK
    <2>2. Upcoming' = (IF wpc' = "retain" THEN cursor + 1 ELSE cursor)
      BY <1>1 DEF Upcoming
    <2> QED
      BY <1>1, <1>2, <1>7, <1>10, <1>11, <2>1, <2>2
  <1>13. Sound' => Sound
    BY <1>1 DEF Sound
  <1>14. Grows
    <2>1. \A f \in Segments \ {w} : Count(f)' = Count(f) /\ Count(f) \in Nat
      BY <1>2, <1>6, FileFacts DEF Count
    <2>2. Count(w) <= Count(w)'
      BY <1>7, <1>10
    <2>3. \A f \in Segments : disk[f].header => disk'[f].header
      BY <1>6
    <2>4. \A f \in Segments : /\ Count(f) <= Count(f)'
                              /\ Newest(f) \/ Count(f)' = Count(f)
      BY <1>5, <2>1, <2>2
    <2> QED
      BY <1>6, <2>3, <2>4 DEF Grows
  <1> QED
    BY <1>2, <1>5, <1>6, <1>12, <1>13, <1>14, ChainActive

LEMMA ChainCreate ==
  ASSUME CoreInv, ChainInv, CreateFile
  PROVE  ChainInv' /\ Grows
  <1>1. PICK c : c = cursor
    OBVIOUS
  <1>2. /\ wpc = "create" /\ wpc' = "header" /\ c \notin Segments /\ cursor' = c
        /\ pending' = pending /\ policy' = policy /\ inc' = inc /\ lost' = lost
        /\ refused' = refused
        /\ disk' = [f \in DOMAIN disk \cup {c} |-> IF f = c THEN NoSegment ELSE disk[f]]
    BY <1>1 DEF CreateFile, Collides, marks, WriterStep, history
  <1>3. /\ Running /\ Running' /\ DiskType /\ FileInv /\ c \in 0..MaxCursor
        /\ \A f \in Segments : f \in Nat /\ f <= c
    BY <1>1, <1>2 DEF CoreInv, WalType, DiskType, LiveInv, Running
  <1>4. /\ Segments' = Segments \cup {c} /\ \A f \in Segments : disk'[f] = disk[f]
        /\ Recs(c)' = <<>> /\ Count(c)' = 0
    BY <1>2, <1>3, NewFile
  <1>5. Upcoming = c /\ Upcoming' = c /\ (Sound' => Sound)
    BY <1>1, <1>2 DEF Upcoming, Sound
  <1>6. Grows
    <2>1. \A f \in Segments : Count(f)' = Count(f) /\ Count(f) \in Nat
      BY <1>3, <1>4, FileFacts DEF Count
    <2>2. \A f \in Segments : f < c
      BY <1>2, <1>3
    <2> QED
      BY <1>4, <2>1, <2>2 DEF Grows
  <1> SUFFICES ASSUME Sound
               PROVE  /\ \A f \in Segments' : PlaceOK(f)' /\ (Newest(f)' \/ Joined(f, Segments)')
                      /\ pending' = c
                      /\ \A f \in Segments' : Newest(f)' => f + Count(f)' = c
    BY <1>3, <1>5, <1>6 DEF ChainInv
  <1>7. \A f \in Segments : PlaceOK(f)' /\ Count(f)' = Count(f) /\ Count(f) \in Nat /\ f < c
    <2> SUFFICES ASSUME NEW f \in Segments
                 PROVE  PlaceOK(f)' /\ Count(f)' = Count(f) /\ Count(f) \in Nat /\ f < c
      OBVIOUS
    <2>1. PlaceOK(f) /\ disk'[f] = disk[f] /\ Count(f) \in Nat
      BY <1>3, <1>4, FileFacts DEF ChainInv
    <2>2. f < c
      BY <1>2, <1>3
    <2> QED
      BY <2>1, <2>2 DEF PlaceOK, Count
  <1>8. PlaceOK(c)' /\ Newest(c)'
    BY <1>3, <1>4, EmptyFacts DEF PlaceOK, Newest
  <1>9. ASSUME NEW f \in Segments PROVE Joined(f, Segments)'
    <2>1. CASE Newest(f)
      <3>1. f + Count(f) = c
        BY <1>3, <1>5, <2>1 DEF ChainInv
      <3>2. \A g \in Segments : g \in Nat /\ ~(g > f)
        BY <1>3, <2>1 DEF Newest
      <3> QED
        BY <1>3, <1>4, <1>7, <3>1, <3>2 DEF Joined
    <2>2. CASE Joined(f, Segments)
      <3>1. f + Count(f) <= c
        BY <1>3, <2>2 DEF Joined
      <3> QED
        BY <1>4, <1>7, <2>2, <3>1 DEF Joined
    <2> QED
      BY <2>1, <2>2 DEF ChainInv
  <1>10. \A f \in Segments : ~Newest(f)'
    <2>1. \A f \in Segments : f \in Nat /\ f < c /\ c \in Nat /\ c \in Segments'
      BY <1>3, <1>4, <1>7
    <2> QED
      BY <2>1 DEF Newest
  <1>11. pending' = c /\ c + Count(c)' = c
    BY <1>2, <1>3, <1>4, <1>5 DEF ChainInv
  <1> QED
    BY <1>4, <1>7, <1>8, <1>9, <1>10, <1>11

LEMMA ChainDelete ==
  ASSUME CoreInv, ChainInv, DeleteOldest
  PROVE  ChainInv'
  <1>1. PICK k : k = Min(Retirable)
    OBVIOUS
  <1>2. /\ wpc = "retain" /\ wpc' = wpc /\ Retirable # {}
        /\ disk' = [f \in DOMAIN disk \ {k} |-> disk[f]]
        /\ cursor' = cursor /\ pending' = pending /\ lost' = lost /\ refused' = refused
    BY <1>1 DEF DeleteOldest, marks
  <1>3. k \in Segments /\ k # writer /\ \A f \in Segments : k <= f
    BY <1>1, <1>2, OldestFacts
  <1>4. /\ writer \in Segments /\ Newest(writer) /\ Running /\ DiskType /\ FileInv
        /\ Segments \subseteq Nat
    BY <1>2 DEF CoreInv, PcInv, WriterInv, Running, Writing, WalType, DiskType
  <1>5. Segments' = Segments \ {k} /\ \A f \in Segments' : disk'[f] = disk[f]
    BY <1>2
  <1>6. \A f \in Segments' : /\ Count(f)' = Count(f) /\ Count(f) \in Nat
                             /\ (PlaceOK(f) => PlaceOK(f)') /\ (Newest(f) => Newest(f)')
    BY <1>4, <1>5, FileFacts DEF Count, PlaceOK, Newest
  <1>7. \A f \in Segments' : Newest(f)' => Newest(f)
    <2>1. writer \in Segments'
      BY <1>3, <1>4, <1>5
    <2> QED
      BY <1>4, <1>5, <2>1 DEF Newest
  <1>8. ASSUME NEW f \in Segments', Joined(f, Segments) PROVE Joined(f, Segments)'
    <2>1. f + Count(f) # k /\ f \in Nat
      <3>1. f \in Nat /\ k \in Nat /\ k <= f /\ Count(f) \in Nat /\ Count(f) > 0
        BY <1>3, <1>4, <1>5, <1>6, <1>8 DEF Joined
      <3> QED
        BY <3>1
    <2> QED
      BY <1>5, <1>6, <1>8, <2>1 DEF Joined
  <1>9. Upcoming' = Upcoming /\ Running' /\ (Sound' => Sound)
    BY <1>2, <1>4 DEF Upcoming, Sound, Running
  <1> SUFFICES ASSUME Sound
               PROVE  /\ \A f \in Segments' : PlaceOK(f)' /\ (Newest(f)' \/ Joined(f, Segments)')
                      /\ pending' = Upcoming'
                      /\ \A f \in Segments' : Newest(f)' => f + Count(f)' = Upcoming'
    BY <1>9 DEF ChainInv
  <1> QED
    BY <1>2, <1>4, <1>5, <1>6, <1>7, <1>8, <1>9 DEF ChainInv

LEMMA ChainOpen ==
  ASSUME CoreInv, ChainInv, Open
  PROVE  ChainInv'
  <1>1. disk' = disk /\ lost' = lost /\ refused' = refused /\ DiskType /\ FileInv
    BY DEF Open, CoreInv, WalType
  <1>2. /\ cursor' \in 0..MaxCursor /\ pending' = cursor'
        /\ \A f \in Segments : Newest(f) /\ PlaceOK(f) => cursor' = f + Count(f)
        /\ wpc' \in {"idle", "create"}
    BY <1>1, OpenFacts
  <1>3. Upcoming' = cursor' /\ (Sound' => Sound)
    BY <1>1, <1>2 DEF Upcoming, Sound
  <1>4. \A f \in Segments : /\ PlaceOK(f) => PlaceOK(f)'
                            /\ Count(f)' = Count(f)
                            /\ Newest(f)' <=> Newest(f)
                            /\ Joined(f, Segments) => Joined(f, Segments)'
    BY <1>1 DEF PlaceOK, Count, Newest, Joined
  <1> QED
    BY <1>1, <1>2, <1>3, <1>4 DEF ChainInv

\* The steps that leave the records as they are.
QuietStep ==
  \/ AppendCall \/ CreateFails \/ StoreActive \/ WriteSkipToEnd \/ WriteHeader
  \/ FlusherStep \/ Close \/ Kill \/ ReaderStep \/ UNCHANGED vars

LEMMA QuietKept ==
  ASSUME CoreInv, QuietStep
  PROVE  Kept
  <1>1. DiskType /\ FileInv
    BY DEF CoreInv, WalType
  <1>2. CASE disk' = disk
    BY <1>1, <1>2, SameKept
  <1>3. CASE \E w : disk' = FlushSync(disk, w) \/ disk' = FlushSyncFailed(disk, w)
    BY <1>1, <1>3, SyncKept, FailedKept
  <1>4. CASE WriteSkipToEnd
    <2>1. writer \in Segments
      BY <1>4 DEF WriteSkipToEnd, CoreInv, PcInv, WriterInv
    <2>2. PICK w \in Segments, b \in BOOLEAN : disk' = [disk EXCEPT ![w].skip = b]
      <3>1. (TailOf(disk[writer]) + SkipLen <= SegmentSizeMax) \in BOOLEAN
        OBVIOUS
      <3> QED
        BY <1>4, <2>1, <3>1 DEF WriteSkipToEnd
    <2> QED
      BY <1>1, <2>2, SkipKept
  <1>5. CASE WriteHeader
    <2>1. cursor \in Segments /\ disk' = [disk EXCEPT ![cursor].header = TRUE]
      BY <1>5 DEF WriteHeader, CoreInv, WriterInv
    <2> QED
      BY <1>1, <2>1, HeaderKept
  <1>6. Flush \/ FlushFails \/ Close =>
          \E w : disk' = FlushSync(disk, w) \/ disk' = FlushSyncFailed(disk, w)
    BY DEF Flush, FlushFails, Close
  <1>7. AppendCall \/ CreateFails \/ StoreActive \/ Snapshot \/ LoadWriter
        \/ Kill \/ ReaderStep \/ UNCHANGED vars => disk' = disk
    BY DEF AppendCall, CreateFails, StoreActive, PublishSegment, Snapshot, LoadWriter,
       Kill, ReaderStep, ReadFrom, OpenSegment, NextRecord, SegmentEnds,
       DropReplayer, vars
  <1> QED
    BY <1>2, <1>3, <1>4, <1>5, <1>6, <1>7 DEF QuietStep, FlusherStep

LEMMA ChainQuiet ==
  ASSUME CoreInv, ChainInv, QuietStep
  PROVE  ChainInv'
  <1>1. Kept
    BY QuietKept
  <1>2. lost' = lost /\ refused' = refused
    BY DEF QuietStep, AppendCall, CreateFails, StoreActive, PublishSegment, WriteSkipToEnd,
       WriteHeader, FlusherStep, Snapshot, LoadWriter, Flush, FlushFails, Close, Kill, ReaderStep, ReadFrom,
       OpenSegment, NextRecord, SegmentEnds, DropReplayer, vars, WriterStep, history
  <1>3. Running' => /\ Running /\ pending' = pending /\ cursor' = cursor
                    /\ wpc' = "retain" <=> wpc = "retain"
    <2>1. AppendCall \/ StoreActive \/ WriteSkipToEnd \/ WriteHeader =>
            /\ Running /\ pending' = pending /\ cursor' = cursor
            /\ wpc # "retain" /\ wpc' # "retain"
      BY DEF AppendCall, StoreActive, PublishSegment, WriteSkipToEnd, WriteHeader, marks, Running
    <2>2. FlusherStep \/ ReaderStep \/ UNCHANGED vars =>
            pending' = pending /\ cursor' = cursor /\ wpc' = wpc
      BY DEF FlusherStep, Snapshot, LoadWriter, Flush, FlushFails, ReaderStep, ReadFrom,
         OpenSegment, NextRecord, SegmentEnds, DropReplayer, vars, marks
    <2>3. CreateFails =>
            \/ ~Running'
            \/ /\ Running /\ pending' = pending /\ cursor' = cursor
               /\ wpc # "retain" /\ wpc' # "retain"
      BY DEF CreateFails, marks, Running
    <2>4. Close \/ Kill => ~Running'
      BY DEF Close, Kill, Running
    <2> QED
      BY <2>1, <2>2, <2>3, <2>4 DEF Running, QuietStep
  <1> QED
    BY <1>1, <1>2, <1>3, ChainKept DEF Upcoming, Sound

LEMMA ChainReturn ==
  ASSUME CoreInv, ChainInv, SyncEach \/ SyncEachFails \/ AppendDone
  PROVE  ChainInv'
  <1>1. Kept
    BY SameKept, SyncKept, FailedKept DEF SyncEach, SyncEachFails, AppendDone, CoreInv, WalType
  <1>2. /\ wpc = "retain" /\ wpc' = "idle" /\ pending' = pending /\ lost' = lost
        /\ \/ cursor' = cursor + 1 /\ refused' = refused
           \/ refused' = TRUE
    BY DEF SyncEach, SyncEachFails, AppendDone, RetainDone, Return
  <1> QED
    BY <1>1, <1>2, ChainKept DEF Upcoming, Sound, Running

LEMMA NextChain ==
  ASSUME CoreInv, CoreInv', ChainInv, [Next]_vars
  PROVE  ChainInv'
  <1>1. CASE Open
    BY <1>1, ChainOpen
  <1>2. CASE AppendStep
    BY <1>2, ChainQuiet, ChainCreate, ChainReserve, ChainStored, ChainDelete, ChainReturn
       DEF AppendStep, QuietStep
  <1>3. CASE FlusherStep \/ Close \/ Kill \/ ReaderStep \/ UNCHANGED vars
    BY <1>3, ChainQuiet DEF QuietStep
  <1>4. CASE PowerLoss
    BY <1>4 DEF PowerLoss, ChainInv, Sound
  <1> QED
    BY <1>1, <1>2, <1>3, <1>4 DEF Next

LEMMA InitChain == Init => ChainInv
  <1>1. Init => DOMAIN disk = {} /\ ~Running
    BY EmptyFacts DEF Init, Running
  <1> QED
    BY <1>1 DEF ChainInv

LEMMA ChainHolds == Spec => [](CoreInv /\ ChainInv)
  <1>1. Init => CoreInv /\ ChainInv
    BY InitCore, InitChain
  <1>2. CoreInv /\ ChainInv /\ [Next]_vars => CoreInv' /\ ChainInv'
    BY NextCore, NextChain
  <1> QED
    BY <1>1, <1>2, PTL DEF Spec

LEMMA ChainContiguous ==
  ASSUME CoreInv, ChainInv
  PROVE  LogContiguous
  <1> SUFFICES ASSUME Sound, NEW f \in Segments
               PROVE  /\ \A i \in DOMAIN Committed(disk[f]) : Committed(disk[f])[i].cursor = f + i - 1
                      /\ f # Max(Segments) => f + Count(f) = Min({g \in Segments : g > f})
    BY DEF LogContiguous, Sound, Count
  <1>1. DiskType /\ FileInv /\ Segments \subseteq 0..MaxCursor /\ MaxCursor \in Nat
    BY ConstantsOK DEF CoreInv, WalType, DiskType
  <1>2. /\ \A j \in 1..Count(f) : j \in DOMAIN Recs(f) /\ Committed(disk[f])[j] = Recs(f)[j]
        /\ Recs(f) \in Seq(Record) /\ Count(f) \in Nat
    BY <1>1, FileFacts
  <1>3. DOMAIN Committed(disk[f]) = 1..Count(f)
    <2>1. Committed(disk[f]) \in Seq(Record)
      BY <1>1, <1>2, CommittedFacts DEF FileInv, FileOK
    <2> QED
      BY <2>1, SeqFacts DEF Count
  <1>4. PlaceOK(f) /\ (Newest(f) \/ Joined(f, Segments))
    BY DEF ChainInv
  <1>5. \A i \in DOMAIN Committed(disk[f]) : Committed(disk[f])[i].cursor = f + i - 1
    BY <1>2, <1>3, <1>4 DEF PlaceOK
  <1>6. ASSUME f # Max(Segments) PROVE f + Count(f) = Min({g \in Segments : g > f})
    <2>1. Max(Segments) \in Segments /\ \A g \in Segments : g <= Max(Segments)
      BY <1>1, MaxFacts
    <2>2. Joined(f, Segments)
      BY <1>1, <1>4, <1>6, <2>1 DEF Newest
    <2>3. f + Count(f) \in {g \in Segments : g > f}
      BY <1>1, <1>2, <2>2 DEF Joined
    <2>4. /\ Min({g \in Segments : g > f}) \in {g \in Segments : g > f}
          /\ \A y \in {g \in Segments : g > f} : Min({g \in Segments : g > f}) <= y
      BY <1>1, <2>3, MinFacts
    <2>5. f + Count(f) <= Min({g \in Segments : g > f})
      BY <2>2, <2>4 DEF Joined
    <2>6. f + Count(f) \in Nat /\ Min({g \in Segments : g > f}) \in Nat
      BY <1>1, <1>2, <2>4
    <2> QED
      BY <2>3, <2>4, <2>5, <2>6
  <1> QED
    BY <1>5, <1>6

(***************************************************************************)
(* Without power losses and failed publishes the committed records of the  *)
(* log are one unbroken run of cursors, segment after segment, after any   *)
(* number of kills at any point of append, rotations, retentions, failed   *)
(* creations and openings (Wal::open scans and truncates nothing).         *)
(***************************************************************************)
THEOREM LogIsContiguous == Spec => []LogContiguous
  BY ChainHolds, ChainContiguous, PTL

-----------------------------------------------------------------------------
(* A replay walks the run *)

\* The records behind the mapping of the open segment.
LEMMA MappedFacts ==
  ASSUME CoreInv, ReaderType, Reading
  PROVE  /\ Mapped \in File /\ Mapped.recs \in Seq(Record)
         /\ DOMAIN Mapped.recs = 1..Len(Mapped.recs) /\ Len(Mapped.recs) \in Nat
         /\ \A i \in DOMAIN Mapped.recs : Mapped.recs[i] \in Record
         /\ Len(Committed(Mapped)) \in Nat /\ Len(Committed(Mapped)) <= Len(Mapped.recs)
         /\ \A i \in DOMAIN Mapped.recs :
              i <= Len(Committed(Mapped)) <=> Mapped.recs[i].st = "done"
  <1>1. Mapped \in File
    <2>1. CASE rmap = NoSegment
      BY <2>1 DEF Mapped, Reading, CoreInv, WalType, DiskType
    <2>2. CASE rmap # NoSegment
      BY <2>2 DEF Mapped, ReaderType
    <2> QED
      BY <2>1, <2>2
  <1>2. Mapped.recs \in Seq(Record)
    BY <1>1 DEF File
  <1>3. PICK s : s = Mapped
    OBVIOUS
  <1>4. s.recs \in Seq(Record)
        /\ \A i \in DOMAIN s.recs : i < Len(s.recs) => s.recs[i].st = "done"
    BY <1>2, <1>3 DEF Reading
  <1>5. /\ Len(Committed(s)) \in Nat /\ Len(Committed(s)) <= Len(s.recs)
        /\ \A i \in DOMAIN s.recs : i <= Len(Committed(s)) <=> s.recs[i].st = "done"
    BY <1>4, CommittedFacts
  <1>6. /\ DOMAIN s.recs = 1..Len(s.recs) /\ Len(s.recs) \in Nat
        /\ \A i \in DOMAIN s.recs : s.recs[i] \in Record
    BY <1>4, SeqFacts
  <1> QED
    BY <1>1, <1>2, <1>3, <1>5, <1>6

LEMMA GrowsReplay ==
  ASSUME CoreInv, CoreInv', ChainInv, ChainInv', ReplayInv, Grows, Sound' => Sound,
         UNCHANGED reader
  PROVE  ReplayInv'
  <1>1. /\ rpc' = rpc /\ rtodo' = rtodo /\ rseg' = rseg /\ rpos' = rpos /\ rfloor' = rfloor
        /\ rmap' = rmap /\ rlast' = rlast /\ rgoal' = rgoal
    BY DEF reader
  <1> SUFFICES ASSUME Sound'
               PROVE  ReaderType' /\ TodoInv' /\ PlaceInv'
    BY DEF ReplayInv
  <1>2. ReaderType /\ TodoInv /\ PlaceInv
    BY DEF ReplayInv
  <1>3. ReaderType'
    BY <1>1, <1>2 DEF ReaderType
  <1>4. /\ DiskType /\ FileInv /\ DiskType' /\ FileInv' /\ Segments \subseteq Nat
        /\ Segments' \subseteq Nat
    BY DEF CoreInv, WalType, DiskType
  <1>5. \A f \in Segments : Count(f) \in Nat
    BY <1>4, FileFacts
  <1>6. \A f \in Segments' : Count(f)' \in Nat
    BY <1>4, FileFactsNext
  <1>7. \A f \in Segments : Newest(f)' => Newest(f)
    BY DEF Newest, Grows
  <1>8. TodoInv'
    <2> SUFFICES ASSUME rpc \in {"next", "read"}, NEW f \in rtodo
                 PROVE
      /\ \E g \in Segments' : f <= g
      /\ f \in Segments' =>
           \/ (\A g \in rtodo : g <= f) /\ f + Count(f)' >= rgoal
           \/ Joined(f, rtodo)' /\ \A g \in rtodo : g > f => g \in Segments'
      BY <1>1 DEF TodoInv
    <2>1. PICK h \in Segments : f <= h
      BY <1>2 DEF TodoInv
    <2>2. f \in Nat /\ \A g \in rtodo : g \in Nat
      BY <1>2 DEF ReaderType
    <2>3. f \in Segments' => f \in Segments
      BY <1>4, <2>1, <2>2 DEF Grows
    <2>4. CASE f \in Segments
      <3>1. CASE (\A g \in rtodo : g <= f) /\ f + Count(f) >= rgoal
        <4>1. f + Count(f)' >= rgoal
          <5>1. Count(f) \in Nat /\ Count(f)' \in Nat /\ Count(f) <= Count(f)' /\ rgoal \in Nat
            BY <1>2, <1>5, <1>6, <2>4 DEF Grows, ReaderType
          <5> QED
            BY <2>2, <3>1, <5>1
        <4> QED
          BY <2>1, <2>3, <3>1, <4>1 DEF Grows
      <3>2. CASE Joined(f, rtodo) /\ \A g \in rtodo : g > f => g \in Segments
        <4>1. f + Count(f) \in Segments /\ f + Count(f) > f
          BY <1>5, <2>2, <2>4, <3>2 DEF Joined
        <4>2. ~Newest(f)
          BY <1>4, <2>2, <4>1 DEF Newest
        <4>3. Count(f)' = Count(f)
          BY <2>4, <4>2 DEF Grows
        <4>4. Joined(f, rtodo)'
          BY <1>1, <3>2, <4>3 DEF Joined
        <4> QED
          BY <1>1, <2>1, <3>2, <4>4 DEF Grows
      <3> QED
        BY <1>2, <2>4, <3>1, <3>2 DEF TodoInv
    <2>5. CASE f \notin Segments
      BY <2>1, <2>3, <2>5 DEF Grows
    <2> QED
      BY <2>4, <2>5
  <1>9. ASSUME rpc = "read" PROVE Reading'
    <2>1. Reading
      BY <1>2, <1>9 DEF PlaceInv
    <2>2. \A x : Aligned(x)' <=> Aligned(x)
      BY <1>1 DEF Aligned
    <2>3. CASE rmap # NoSegment
      <3>1. Mapped' = Mapped
        BY <1>1, <2>3 DEF Mapped
      <3>2. Segments' # {} /\ \A g \in Segments' : rseg < g
        <4>1. PICK h \in Segments : rseg < h
          BY <2>1, <2>3 DEF Reading
        <4>2. rseg \in Int
          BY <1>2 DEF ReaderType
        <4>3. ASSUME NEW g \in Segments' PROVE rseg < g
          <5>1. CASE g \in Segments
            BY <2>1, <2>3, <5>1 DEF Reading
          <5>2. CASE g \notin Segments
            <6>1. h < g /\ h \in Nat /\ g \in Nat
              BY <1>4, <5>2 DEF Grows
            <6> QED
              BY <4>1, <4>2, <6>1
          <5> QED
            BY <5>1, <5>2
        <4> QED
          BY <4>1, <4>3 DEF Grows
      <3> QED
        BY <1>1, <2>1, <2>2, <2>3, <3>1, <3>2 DEF Reading
    <2>4. CASE rmap = NoSegment
      <3>1. PICK s \in Segments : s = rseg
        BY <2>1, <2>4 DEF Reading
      <3>2. Mapped = disk[s] /\ Mapped' = disk'[s] /\ s \in Segments'
        BY <1>1, <2>4, <3>1 DEF Mapped, Grows
      <3>3. /\ Len(Committed(Mapped)) = Count(s) /\ Len(Committed(Mapped))' = Count(s)'
            /\ Mapped.recs' = Recs(s)'
        BY <3>2 DEF Count
      <3>4. /\ Count(s) \in Nat /\ Count(s)' \in Nat /\ Count(s) <= Count(s)'
            /\ s \in Nat /\ rgoal \in Nat /\ rpos \in Nat
        BY <1>2, <1>4, <1>5, <1>6, <3>2 DEF Grows, ReaderType
      <3>5. PlaceOK(s)' /\ FileOK(s)'
        BY <1>4, <3>2 DEF ChainInv, FileInv
      <3>6. \A i \in DOMAIN Mapped.recs' :
              /\ Mapped.recs'[i].cursor = rseg + i - 1
              /\ i < Len(Mapped.recs') => Mapped.recs'[i].st = "done"
        BY <3>1, <3>3, <3>5 DEF PlaceOK, FileOK
      <3>7. disk'[s].header /\ (rtodo # {} => ~Newest(s) /\ ~Newest(s)')
        BY <1>7, <2>1, <2>4, <3>1 DEF Reading, Grows
      <3>8. rtodo # {} => Count(s)' = Count(s)
        BY <3>7 DEF Grows
      <3>9. rpos <= Count(s)'
        BY <2>1, <3>3, <3>4 DEF Reading
      <3>10. \A m \in rtodo :
              (\A g \in rtodo : m <= g) => rseg < m /\ m = rseg + Count(s)'
        BY <2>1, <3>1, <3>3, <3>8 DEF Reading
      <3>11. rtodo = {} => rseg + Count(s)' >= rgoal
        BY <2>1, <3>1, <3>3, <3>4 DEF Reading
      <3>12. Newest(rseg)' <=> Newest(s)'
        BY <1>1, <3>1 DEF Newest
      <3>13. rseg \in Segments' /\ disk'[rseg].header /\ (rtodo # {} => ~Newest(rseg)')
        BY <3>1, <3>2, <3>7, <3>12
      <3>14. rseg >= 0 /\ Aligned(rseg + rpos)'
        BY <1>1, <2>1 DEF Reading, Aligned
      <3> QED
        BY <1>1, <2>4, <3>3, <3>6, <3>9, <3>10, <3>11, <3>13, <3>14 DEF Reading
    <2> QED
      BY <2>3, <2>4
  <1>10. PlaceInv'
    <2>1. \A m \in rtodo : Aligned(m)' <=> Aligned(m)
      BY <1>1 DEF Aligned
    <2> QED
      BY <1>1, <1>2, <1>9, <2>1 DEF PlaceInv
  <1> QED
    BY <1>3, <1>8, <1>10

LEMMA DeleteReplay ==
  ASSUME CoreInv, ReplayInv, DeleteOldest
  PROVE  ReplayInv'
  <1>1. PICK k : k = Min(Retirable)
    OBVIOUS
  <1>2. /\ wpc = "retain" /\ Retirable # {}
        /\ disk' = [f \in DOMAIN disk \ {k} |-> disk[f]]
        /\ rmap' = (IF rpc = "read" /\ rseg = k THEN disk[k] ELSE rmap)
        /\ lost' = lost /\ refused' = refused
        /\ rpc' = rpc /\ rtodo' = rtodo /\ rseg' = rseg /\ rpos' = rpos /\ rfloor' = rfloor
        /\ rlast' = rlast /\ rgoal' = rgoal
    BY <1>1 DEF DeleteOldest
  <1>3. k \in Segments /\ k # writer /\ \A f \in Segments : k <= f
    BY <1>1, <1>2, OldestFacts
  <1>4. /\ writer \in Segments /\ Newest(writer) /\ DiskType /\ FileInv
        /\ Segments \subseteq Nat
    BY <1>2 DEF CoreInv, PcInv, WriterInv, Writing, WalType, DiskType
  <1>5. Segments' = Segments \ {k} /\ \A f \in Segments' : disk'[f] = disk[f]
    BY <1>2
  <1>6. \A f \in Segments' : Count(f)' = Count(f) /\ Count(f) \in Nat
    BY <1>4, <1>5, FileFacts DEF Count
  <1> SUFFICES ASSUME Sound
               PROVE  ReaderType' /\ TodoInv' /\ PlaceInv'
    BY <1>2 DEF ReplayInv, Sound
  <1>7. ReaderType /\ TodoInv /\ PlaceInv
    BY DEF ReplayInv
  <1>8. ReaderType'
    BY <1>2, <1>3, <1>4, <1>7 DEF ReaderType, DiskType
  <1>9. TodoInv'
    <2> SUFFICES ASSUME rpc \in {"next", "read"}, NEW f \in rtodo
                 PROVE
      /\ \E g \in Segments' : f <= g
      /\ f \in Segments' =>
           \/ (\A g \in rtodo : g <= f) /\ f + Count(f)' >= rgoal
           \/ Joined(f, rtodo)' /\ \A g \in rtodo : g > f => g \in Segments'
      BY <1>2 DEF TodoInv
    <2>1. f \in Nat /\ \A g \in rtodo : g \in Nat
      BY <1>7 DEF ReaderType
    <2>2. writer \in Segments' /\ f <= writer
      <3>1. PICK g \in Segments : f <= g
        BY <1>7 DEF TodoInv
      <3> QED
        BY <1>3, <1>4, <1>5, <2>1, <3>1 DEF Newest
    <2>3. ASSUME f \in Segments'
          PROVE  \/ (\A g \in rtodo : g <= f) /\ f + Count(f)' >= rgoal
                 \/ Joined(f, rtodo)' /\ \A g \in rtodo : g > f => g \in Segments'
      <3>1. f \in Segments /\ Count(f)' = Count(f) /\ k <= f /\ k \in Nat
        BY <1>3, <1>4, <1>5, <1>6, <2>3
      <3>2. Joined(f, rtodo) => Joined(f, rtodo)'
        BY <1>2, <3>1 DEF Joined
      <3>3. \A g \in rtodo : g > f /\ g \in Segments => g \in Segments'
        BY <1>5, <2>1, <3>1
      <3> QED
        BY <1>7, <3>1, <3>2, <3>3 DEF TodoInv
    <2> QED
      BY <2>2, <2>3
  <1>10. ASSUME rpc = "read" PROVE Reading'
    <2>1. Reading /\ rseg \in Int
      BY <1>7, <1>10 DEF PlaceInv, ReaderType
    <2>2. Aligned(rseg + rpos)'
      BY <1>2, <2>1 DEF Reading, Aligned
    <2>3. Mapped' = Mapped
      <3>1. CASE rseg = k
        <4>1. rmap = NoSegment
          BY <1>3, <1>4, <2>1, <3>1 DEF Reading
        <4>2. disk[k].header /\ ~NoSegment.header
          BY <2>1, <3>1, <4>1, NoSegmentFacts DEF Reading
        <4>3. disk[k] # NoSegment
          BY <4>2
        <4> QED
          BY <1>2, <1>10, <3>1, <4>1, <4>3 DEF Mapped
      <3>2. CASE rseg # k
        BY <1>2, <1>5, <2>1, <3>2 DEF Mapped, Reading
      <3> QED
        BY <3>1, <3>2
    <2>4. rmap' = NoSegment =>
             /\ rseg \in Segments' /\ disk'[rseg].header
             /\ rtodo # {} => ~Newest(rseg)'
      <3> SUFFICES ASSUME rmap' = NoSegment
                   PROVE  /\ rseg \in Segments' /\ disk'[rseg].header
                          /\ rtodo # {} => ~Newest(rseg)'
        OBVIOUS
      <3>1. rseg # k /\ rmap = NoSegment
        <4>1. CASE rseg = k
          <5>1. rmap = NoSegment
            BY <1>3, <1>4, <2>1, <4>1 DEF Reading
          <5>2. disk[k].header /\ ~NoSegment.header
            BY <2>1, <4>1, <5>1, NoSegmentFacts DEF Reading
          <5>3. disk[k] # NoSegment
            BY <5>2
          <5> QED
            BY <1>2, <1>10, <4>1, <5>3
        <4>2. CASE rseg # k
          BY <1>2, <4>2
        <4> QED
          BY <4>1, <4>2
      <3>2. rseg \in Segments' /\ disk'[rseg].header
        BY <1>5, <2>1, <3>1 DEF Reading
      <3>3. ASSUME rtodo # {} PROVE ~Newest(rseg)'
        <4>1. PICK g \in Segments : ~(g <= rseg)
          BY <2>1, <3>1, <3>3 DEF Reading, Newest
        <4>2. g \in Nat /\ k \in Nat /\ k <= rseg
          BY <1>3, <1>4, <1>5, <3>2
        <4>3. g \in Segments'
          BY <1>5, <2>1, <4>1, <4>2
        <4> QED
          BY <1>2, <4>1, <4>3 DEF Newest
      <3> QED
        BY <3>2, <3>3
    <2>5. rmap' # NoSegment => Segments' # {} /\ \A g \in Segments' : rseg < g
      <3> SUFFICES ASSUME rmap' # NoSegment
                   PROVE  Segments' # {} /\ \A g \in Segments' : rseg < g
        OBVIOUS
      <3>1. writer \in Segments'
        BY <1>3, <1>4, <1>5
      <3>2. CASE rseg = k
        <4>1. \A g \in Segments' : g \in Nat /\ k \in Nat /\ k <= g /\ g # k
          BY <1>3, <1>4, <1>5
        <4> QED
          BY <3>1, <3>2, <4>1
      <3>3. CASE rseg # k
        <4>1. rmap # NoSegment
          BY <1>2, <3>3
        <4> QED
          BY <1>5, <2>1, <3>1, <4>1 DEF Reading
      <3> QED
        BY <3>2, <3>3
    <2> QED
      BY <1>2, <2>1, <2>2, <2>3, <2>4, <2>5 DEF Reading
  <1>11. PlaceInv'
    <2>1. \A m \in rtodo : Aligned(m)' <=> Aligned(m)
      BY <1>2 DEF Aligned
    <2> QED
      BY <1>2, <1>7, <1>10, <2>1 DEF PlaceInv
  <1> QED
    BY <1>8, <1>9, <1>11

\* WalReader::read_from takes the segment that holds c, and all after it.
LEMMA FromFacts ==
  ASSUME CoreInv, NEW c \in 0..MaxCursor, Segments # {}, c >= Min(Segments)
  PROVE  \E m \in Segments : m <= c /\ SegmentsFrom(c) = {f \in Segments : f >= m}
  <1> DEFINE G == {g \in Segments : g <= c}
  <1>1. Segments \subseteq 0..MaxCursor /\ Segments \subseteq Nat /\ MaxCursor \in Nat
    BY ConstantsOK DEF CoreInv, WalType, DiskType
  <1>2. Min(Segments) \in G
    BY <1>1, MinFacts
  <1>3. G \subseteq 0..MaxCursor /\ G # {}
    BY <1>1, <1>2
  <1> HIDE DEF G
  <1>4. Max(G) \in G
    BY <1>1, <1>3, MaxFacts
  <1> QED
    BY <1>4 DEF SegmentsFrom, G

LEMMA ReadFromReplay ==
  ASSUME CoreInv, ChainInv, ReplayInv, NEW c \in 0..MaxCursor, ReadFrom(c)
  PROVE  ReplayInv'
  <1>1. /\ rtodo' = SegmentsFrom(c) /\ rfloor' = c /\ rlast' = c - 1
        /\ rgoal' = (IF Running THEN pending ELSE 0)
        /\ rpc' = "next" /\ disk' = disk /\ rseg' = rseg /\ rpos' = rpos /\ rmap' = rmap
        /\ lost' = lost /\ refused' = refused
        /\ Segments # {} /\ c >= Min(Segments)
    BY DEF ReadFrom, history
  <1>2. PICK m \in Segments : m <= c /\ SegmentsFrom(c) = {f \in Segments : f >= m}
    BY <1>1, FromFacts
  <1>3. /\ rtodo' = {f \in Segments : f >= m} /\ Segments \subseteq 0..MaxCursor
        /\ DiskType /\ FileInv /\ MaxCursor \in Nat /\ pending \in Nat
    BY <1>1, <1>2, ConstantsOK DEF CoreInv, WalType, DiskType
  <1> SUFFICES ASSUME Sound
               PROVE  ReaderType' /\ TodoInv' /\ PlaceInv'
    BY <1>1 DEF ReplayInv, Sound
  <1>4. ReaderType'
    <2>1. ReaderType
      BY DEF ReplayInv
    <2>2. rtodo' \subseteq 0..MaxCursor /\ rfloor' \in Nat /\ rlast' \in Int /\ rgoal' \in Nat
      BY <1>1, <1>3
    <2> QED
      BY <1>1, <2>1, <2>2 DEF ReaderType
  <1>5. TodoInv'
    <2> SUFFICES ASSUME NEW f \in rtodo'
                 PROVE  \/ (\A g \in rtodo' : g <= f) /\ f + Count(f) >= rgoal'
                        \/ Joined(f, rtodo)' /\ \A g \in rtodo' : g > f => g \in Segments
      <3>1. \A f \in Segments : Count(f)' = Count(f)
        BY <1>1 DEF Count
      <3>2. \A f \in rtodo' : f \in Segments /\ f <= f
        BY <1>3
      <3> QED
        BY <1>1, <3>1, <3>2 DEF TodoInv
    <2>1. f \in Segments /\ f \in Nat /\ f >= m /\ m \in Nat /\ Count(f) \in Nat
      BY <1>3, FileFacts
    <2>2. CASE Newest(f)
      <3>1. Running => f + Count(f) = Upcoming /\ pending = Upcoming
        BY <2>1, <2>2 DEF ChainInv
      <3>2. f + Count(f) >= rgoal'
        BY <1>1, <1>3, <2>1, <3>1
      <3> QED
        BY <1>3, <2>2, <3>2 DEF Newest
    <2>3. CASE Joined(f, Segments)
      <3>1. Count(f)' = Count(f)
        BY <1>1 DEF Count
      <3>2. f + Count(f) >= m
        BY <2>1
      <3>3. Joined(f, rtodo)'
        BY <1>3, <2>3, <3>1, <3>2 DEF Joined
      <3> QED
        BY <1>3, <3>3
    <2> QED
      BY <2>1, <2>2, <2>3 DEF ChainInv
  <1>6. PlaceInv'
    <2>1. m \in rtodo' /\ m \in Nat /\ \A x \in rtodo' : x \in Nat /\ m <= x
      BY <1>2, <1>3
    <2>2. ASSUME NEW x \in rtodo', \A g \in rtodo' : x <= g PROVE Aligned(x)'
      <3>1. x = m
        BY <2>1, <2>2
      <3> QED
        BY <1>1, <1>2, <2>1, <3>1 DEF Aligned
    <2> QED
      BY <1>1, <2>1, <2>2 DEF PlaceInv
  <1> QED
    BY <1>4, <1>5, <1>6

LEMMA OpenSegmentReplay ==
  ASSUME CoreInv, ChainInv, ReplayInv, OpenSegment
  PROVE  ReplayInv'
  <1>1. PICK f : f = Min(rtodo)
    OBVIOUS
  <1>2. /\ rpc = "next" /\ rtodo # {} /\ rtodo' = rtodo \ {f} /\ rpos' = 0 /\ rmap' = NoSegment
        /\ disk' = disk /\ rfloor' = rfloor /\ rlast' = rlast /\ rgoal' = rgoal
        /\ lost' = lost /\ refused' = refused
        /\ \/ f \in Segments /\ disk[f].header /\ rpc' = "read" /\ rseg' = f
           \/ rpc' = "error" /\ rseg' = -1
    BY <1>1 DEF OpenSegment, history
  <1> SUFFICES ASSUME Sound
               PROVE  ReaderType' /\ TodoInv' /\ PlaceInv'
    BY <1>2 DEF ReplayInv, Sound
  <1>3. ReaderType /\ TodoInv /\ PlaceInv /\ DiskType /\ FileInv /\ MaxCursor \in Nat
    BY ConstantsOK DEF ReplayInv, CoreInv, WalType
  <1>4. rtodo \subseteq Nat /\ f \in rtodo /\ f \in 0..MaxCursor /\ \A g \in rtodo : f <= g
    <2>1. rtodo \subseteq Nat /\ rtodo \subseteq 0..MaxCursor
      BY <1>3 DEF ReaderType
    <2> QED
      BY <1>1, <1>2, <2>1, MinFacts
  <1>5. ReaderType'
    <2>1. rseg' \in -1..MaxCursor /\ rtodo' \subseteq 0..MaxCursor
      BY <1>2, <1>3, <1>4 DEF ReaderType
    <2> QED
      BY <1>2, <1>3, <2>1, NoSegmentFacts DEF ReaderType
  <1>6. CASE rpc' = "error"
    BY <1>5, <1>6 DEF TodoInv, PlaceInv
  <1>7. CASE f \in Segments /\ disk[f].header /\ rpc' = "read" /\ rseg' = f
    <2>1. /\ Count(f) \in Nat /\ PlaceOK(f) /\ FileOK(f)
          /\ \A g \in Segments : Count(g)' = Count(g) /\ Count(g) \in Nat
      BY <1>2, <1>3, <1>7, FileFacts DEF ChainInv, FileInv, Count
    <2>2. TodoInv'
      <3> SUFFICES ASSUME NEW g \in rtodo'
                   PROVE
        /\ \E h \in Segments : g <= h
        /\ g \in Segments =>
             \/ (\A h \in rtodo' : h <= g) /\ g + Count(g) >= rgoal
             \/ Joined(g, rtodo)' /\ \A h \in rtodo' : h > g => h \in Segments
        BY <1>2, <2>1 DEF TodoInv
      <3>1. g \in rtodo /\ g \in Nat /\ f < g /\ f \in Nat
        BY <1>2, <1>4
      <3>2. g \in Segments /\ Joined(g, rtodo) => Joined(g, rtodo)'
        <4> SUFFICES ASSUME g \in Segments, Joined(g, rtodo) PROVE Joined(g, rtodo)'
          OBVIOUS
        <4>1. g + Count(g) # f
          BY <2>1, <3>1
        <4> QED
          BY <1>2, <2>1, <4>1 DEF Joined
      <3> QED
        BY <1>2, <1>3, <3>1, <3>2 DEF TodoInv
    <2>3. Mapped' = disk[f] /\ Len(Committed(Mapped))' = Count(f)
      BY <1>2, <1>7 DEF Mapped, Count
    <2>4. Aligned(f + 0)'
      <3>1. Aligned(f)
        BY <1>2, <1>3, <1>4 DEF PlaceInv
      <3>2. f + 0 = f
        BY <1>4
      <3> QED
        BY <1>2, <3>1, <3>2 DEF Aligned
    <2>5. \A i \in DOMAIN disk[f].recs :
            /\ disk[f].recs[i].cursor = f + i - 1
            /\ i < Len(disk[f].recs) => disk[f].recs[i].st = "done"
      BY <2>1 DEF PlaceOK, FileOK
    <2>6. \/ (\A g \in rtodo : g <= f) /\ f + Count(f) >= rgoal
          \/ Joined(f, rtodo) /\ \A g \in rtodo : g > f => g \in Segments
      BY <1>2, <1>3, <1>4, <1>7 DEF TodoInv
    <2>7. ASSUME NEW m \in rtodo', \A g \in rtodo' : m <= g
          PROVE  f < m /\ m = f + Count(f)
      <3>1. m \in rtodo /\ m \in Nat /\ f < m /\ f \in Nat
        BY <1>2, <1>4
      <3>2. Joined(f, rtodo)
        BY <2>6, <3>1
      <3>3. f + Count(f) \in rtodo' /\ f + Count(f) <= m
        BY <1>2, <2>1, <3>1, <3>2 DEF Joined
      <3>4. m <= f + Count(f)
        BY <2>7, <3>3
      <3> QED
        BY <2>1, <3>1, <3>3, <3>4
    <2>8. rtodo' = {} => f + Count(f) >= rgoal
      <3>1. Joined(f, rtodo) => f + Count(f) \in rtodo'
        BY <1>2, <1>4, <2>1 DEF Joined
      <3> QED
        BY <2>6, <3>1
    <2>9. ASSUME rtodo' # {} PROVE ~Newest(f)
      <3>1. PICK g \in rtodo' : TRUE
        BY <2>9
      <3>2. g \in rtodo /\ g \in Nat /\ f < g /\ f \in Nat
        BY <1>2, <1>4, <3>1
      <3>3. PICK h \in Segments : g <= h
        BY <1>2, <1>3, <3>2 DEF TodoInv
      <3>4. h \in Nat
        BY <1>3 DEF DiskType
      <3> QED
        BY <3>2, <3>3, <3>4 DEF Newest
    <2>10. Newest(rseg)' <=> Newest(f)
      BY <1>2, <1>7 DEF Newest
    <2>11. Reading'
      BY <1>2, <1>4, <1>7, <2>1, <2>3, <2>4, <2>5, <2>7, <2>8, <2>9, <2>10 DEF Reading
    <2> QED
      BY <1>5, <1>7, <2>2, <2>11 DEF PlaceInv
  <1> QED
    BY <1>2, <1>6, <1>7

\* Where the replayer stands after the next record.
LEMMA NextRecordFacts ==
  ASSUME CoreInv, ReaderType, PlaceInv, NextRecord
  PROVE  /\ rpc' = "read" /\ rpos' = rpos + 1 /\ rpos + 1 <= Len(Committed(Mapped))
         /\ rlast' = IF rseg + rpos < rfloor THEN rlast ELSE rseg + rpos
         /\ Aligned(rseg + rpos) /\ rseg \in Nat /\ rpos \in Nat
  <1>1. Reading /\ rpc = "read"
    BY DEF NextRecord, PlaceInv
  <1>2. /\ DOMAIN Mapped.recs = 1..Len(Mapped.recs) /\ Len(Mapped.recs) \in Nat
        /\ \A i \in DOMAIN Mapped.recs : Mapped.recs[i] \in Record
        /\ Len(Committed(Mapped)) \in Nat
        /\ \A i \in DOMAIN Mapped.recs :
             i <= Len(Committed(Mapped)) <=> Mapped.recs[i].st = "done"
    BY <1>1, MappedFacts
  <1>3. rpos \in Nat /\ rpos < Len(Mapped.recs) /\ rseg \in Nat
    BY <1>1 DEF NextRecord, ReaderType, Reading
  <1>4. rpos + 1 \in DOMAIN Mapped.recs
    BY <1>2, <1>3
  <1>5. PICK r : r = Mapped.recs[rpos + 1]
    OBVIOUS
  <1>6. r \in Record /\ r.st # "torn"
    BY <1>2, <1>4, <1>5 DEF Record
  <1>7. r.cursor = rseg + rpos
    <2>1. r.cursor = rseg + (rpos + 1) - 1
      BY <1>1, <1>4, <1>5 DEF Reading
    <2> QED
      BY <1>3, <2>1
  <1>8. /\ r.st \in {"done", "torn"}
        /\ rpc' = (IF r.st = "done" THEN rpc ELSE "corrupt")
        /\ rlast' = (IF r.st = "torn" \/ r.cursor < rfloor THEN rlast ELSE r.cursor)
        /\ rpos' = rpos + 1
    BY <1>5 DEF NextRecord
  <1>9. r.st = "done"
    BY <1>6, <1>8
  <1> QED
    BY <1>1, <1>2, <1>3, <1>4, <1>5, <1>6, <1>7, <1>8, <1>9 DEF Reading

LEMMA NextRecordReplay ==
  ASSUME CoreInv, ReplayInv, NextRecord
  PROVE  ReplayInv'
  <1>1. /\ disk' = disk /\ rtodo' = rtodo /\ rseg' = rseg /\ rfloor' = rfloor /\ rmap' = rmap
        /\ rgoal' = rgoal /\ lost' = lost /\ refused' = refused /\ rpc = "read"
    BY DEF NextRecord, history
  <1> SUFFICES ASSUME Sound
               PROVE  ReaderType' /\ TodoInv' /\ PlaceInv'
    BY <1>1 DEF ReplayInv, Sound
  <1>2. ReaderType /\ TodoInv /\ PlaceInv /\ Reading
    BY <1>1 DEF ReplayInv, PlaceInv
  <1>3. /\ rpc' = "read" /\ rpos' = rpos + 1 /\ rpos + 1 <= Len(Committed(Mapped))
        /\ rlast' = (IF rseg + rpos < rfloor THEN rlast ELSE rseg + rpos)
        /\ Aligned(rseg + rpos) /\ rseg \in Nat /\ rpos \in Nat
    BY <1>2, NextRecordFacts
  <1>4. rfloor \in Nat /\ rlast \in Int
    BY <1>2 DEF ReaderType
  <1>5. ReaderType'
    BY <1>1, <1>2, <1>3, <1>4 DEF ReaderType
  <1>6. TodoInv'
    <2>1. \A f \in Segments : Count(f)' = Count(f)
      BY <1>1 DEF Count
    <2>2. \A f \in Segments : Joined(f, rtodo)' <=> Joined(f, rtodo)
      BY <1>1, <2>1 DEF Joined
    <2> QED
      BY <1>1, <1>2, <1>3, <2>1, <2>2 DEF TodoInv
  <1>7. Aligned(rseg + rpos)'
    <2>1. rlast + 1 = IF rseg + rpos < rfloor THEN rfloor ELSE rseg + rpos
      BY <1>3 DEF Aligned
    <2>2. rlast' + 1 = IF rseg + (rpos + 1) < rfloor THEN rfloor ELSE rseg + (rpos + 1)
      BY <1>3, <1>4, <2>1
    <2> QED
      BY <1>1, <1>3, <2>2 DEF Aligned
  <1>8. Mapped' = Mapped
    BY <1>1 DEF Mapped
  <1>9. Newest(rseg)' <=> Newest(rseg)
    BY <1>1 DEF Newest
  <1>10. Reading'
    BY <1>1, <1>2, <1>3, <1>7, <1>8, <1>9 DEF Reading
  <1> QED
    BY <1>3, <1>5, <1>6, <1>10 DEF PlaceInv

LEMMA SegmentEndsReplay ==
  ASSUME CoreInv, ReplayInv, SegmentEnds
  PROVE  ReplayInv'
  <1>1. /\ disk' = disk /\ rtodo' = rtodo /\ rfloor' = rfloor /\ rmap' = NoSegment
        /\ rseg' = -1 /\ rpos' = 0
        /\ rlast' = rlast /\ rgoal' = rgoal /\ lost' = lost /\ refused' = refused
        /\ \/ rpc = "read" /\ rpc' = "next"
           \/ rpc = "next" /\ rtodo = {} /\ rpc' = "drained"
    BY DEF SegmentEnds, history
  <1> SUFFICES ASSUME Sound
               PROVE  ReaderType' /\ TodoInv' /\ PlaceInv'
    BY <1>1 DEF ReplayInv, Sound
  <1>2. ReaderType /\ TodoInv /\ PlaceInv
    BY DEF ReplayInv
  <1>3. ReaderType'
    <2>1. rseg' \in -1..MaxCursor
      BY <1>1, ConstantsOK
    <2> QED
      BY <1>1, <1>2, <2>1, NoSegmentFacts DEF ReaderType
  <1>4. TodoInv'
    <2>1. \A f \in Segments : Count(f)' = Count(f)
      BY <1>1 DEF Count
    <2>2. \A f \in Segments : Joined(f, rtodo)' <=> Joined(f, rtodo)
      BY <1>1, <2>1 DEF Joined
    <2> QED
      BY <1>1, <1>2, <2>1, <2>2 DEF TodoInv
  <1>5. \A x : Aligned(x)' <=> Aligned(x)
    BY <1>1 DEF Aligned
  <1>6. CASE rpc = "next"
    BY <1>1, <1>2, <1>3, <1>4, <1>6 DEF PlaceInv
  <1>7. CASE rpc = "read"
    <2>1. Reading /\ rpc' = "next"
      BY <1>1, <1>2, <1>7 DEF PlaceInv
    <2>2. /\ DOMAIN Mapped.recs = 1..Len(Mapped.recs) /\ Len(Mapped.recs) \in Nat
          /\ Len(Committed(Mapped)) \in Nat /\ Len(Committed(Mapped)) <= Len(Mapped.recs)
          /\ \A i \in DOMAIN Mapped.recs :
               i <= Len(Committed(Mapped)) <=> Mapped.recs[i].st = "done"
      BY <1>2, <2>1, MappedFacts
    <2>3. /\ rpos \in Nat /\ rseg \in Nat /\ rgoal \in Nat /\ rlast \in Int /\ rfloor \in Nat
          /\ rpos <= Len(Committed(Mapped))
      BY <1>2, <2>1 DEF ReaderType, Reading
    <2>4. rpos = Len(Committed(Mapped))
      <3>1. CASE rpos < Len(Mapped.recs)
        <4>1. Mapped.recs[rpos + 1].st \in {"claimed", "writing"}
          BY <1>7, <3>1 DEF SegmentEnds
        <4>2. rpos + 1 \in DOMAIN Mapped.recs
          BY <2>2, <2>3, <3>1
        <4> QED
          BY <2>2, <2>3, <4>1, <4>2
      <3>2. CASE ~(rpos < Len(Mapped.recs))
        BY <2>2, <2>3, <3>2
      <3> QED
        BY <3>1, <3>2
    <2>5. Aligned(rseg + rpos)
      BY <2>1 DEF Reading
    <2>6. \A m \in rtodo : (\A g \in rtodo : m <= g) => Aligned(m)
      BY <2>1, <2>4, <2>5 DEF Reading
    <2>7. rtodo = {} => rlast + 1 >= rgoal
      <3>1. rlast + 1 >= rseg + rpos
        BY <2>3, <2>5 DEF Aligned
      <3>2. rtodo = {} => rseg + rpos >= rgoal
        BY <2>1, <2>4 DEF Reading
      <3> QED
        BY <2>3, <3>1, <3>2
    <2> QED
      BY <1>1, <1>3, <1>4, <1>5, <2>1, <2>6, <2>7 DEF PlaceInv
  <1> QED
    BY <1>1, <1>6, <1>7

LEMMA DropReplay ==
  ASSUME CoreInv, ReplayInv, DropReplayer
  PROVE  ReplayInv'
  <1>1. /\ rpc' = "idle" /\ rtodo' = {} /\ rseg' = -1 /\ rpos' = 0 /\ rfloor' = 0
        /\ rmap' = NoSegment /\ rlast' = -1 /\ rgoal' = 0
    BY DEF DropReplayer, NoReplay
  <1>2. ReaderType'
    BY <1>1, NoSegmentFacts, ConstantsOK DEF ReaderType
  <1> QED
    BY <1>1, <1>2 DEF ReplayInv, TodoInv, PlaceInv

LEMMA NextReplay ==
  ASSUME CoreInv, CoreInv', ChainInv, ChainInv', ReplayInv, [Next]_vars
  PROVE  ReplayInv'
  <1>1. CASE QuietStep /\ ~ReaderStep
    <2>1. UNCHANGED reader /\ lost' = lost /\ refused' = refused
      BY <1>1 DEF QuietStep, AppendCall, CreateFails, StoreActive, PublishSegment, WriteSkipToEnd,
         WriteHeader, FlusherStep, Snapshot, LoadWriter, Flush, FlushFails, Close, Kill, vars,
         WriterStep, history
    <2> QED
      BY <1>1, <2>1, QuietKept, KeptGrows, GrowsReplay DEF Sound
  <1>2. CASE CreateFile \/ Reserve \/ Stake \/ Commit
    <2>1. UNCHANGED reader /\ lost' = lost /\ refused' = refused
      BY <1>2 DEF CreateFile, Reserve, Stake, Commit, WriterStep, history
    <2> QED
      BY <1>2, <2>1, ChainCreate, ChainReserve, ChainStored, GrowsReplay DEF Sound
  <1>3. CASE SyncEach \/ SyncEachFails \/ AppendDone
    <2>1. UNCHANGED reader /\ (Sound' => Sound)
      BY <1>3 DEF SyncEach, SyncEachFails, AppendDone, Return, Sound
    <2>2. Kept
      BY <1>3, SameKept, SyncKept, FailedKept
         DEF SyncEach, SyncEachFails, AppendDone, CoreInv, WalType
    <2> QED
      BY <2>1, <2>2, KeptGrows, GrowsReplay
  <1>4. CASE Open
    <2>1. UNCHANGED reader /\ (Sound' => Sound) /\ disk' = disk
      BY <1>4 DEF Open, Sound
    <2>2. Kept
      BY <2>1, SameKept DEF CoreInv, WalType
    <2> QED
      BY <2>1, <2>2, KeptGrows, GrowsReplay
  <1>5. CASE DeleteOldest
    BY <1>5, DeleteReplay
  <1>6. CASE ReaderStep
    BY <1>6, ReadFromReplay, OpenSegmentReplay, NextRecordReplay, SegmentEndsReplay, DropReplay
       DEF ReaderStep
  <1>7. CASE PowerLoss
    BY <1>7 DEF PowerLoss, ReplayInv, Sound
  <1> QED
    BY <1>1, <1>2, <1>3, <1>4, <1>5, <1>6, <1>7 DEF Next, AppendStep, QuietStep

LEMMA InitReplay == Init => ReplayInv
  <1> SUFFICES ASSUME Init PROVE ReplayInv
    OBVIOUS
  <1>1. /\ rpc = "idle" /\ rtodo = {} /\ rseg = -1 /\ rpos = 0 /\ rfloor = 0
        /\ rmap = NoSegment /\ rlast = -1 /\ rgoal = 0
    BY DEF Init
  <1>2. ReaderType
    BY <1>1, NoSegmentFacts, ConstantsOK DEF ReaderType
  <1> QED
    BY <1>1, <1>2 DEF ReplayInv, TodoInv, PlaceInv

LogInv == CoreInv /\ ChainInv /\ ReplayInv

LEMMA LogHolds == Spec => []LogInv
  <1>1. Init => LogInv
    BY InitCore, InitChain, InitReplay DEF LogInv
  <1>2. LogInv /\ [Next]_vars => LogInv'
    BY NextCore, NextChain, NextReplay DEF LogInv
  <1> QED
    BY <1>1, <1>2, PTL DEF Spec

(***************************************************************************)
(* Without power losses and failed publishes a replay that ends without an *)
(* error has reached every record that was pending when it began, although *)
(* the segments it walks are written, rotated and unlinked meanwhile, and  *)
(* it never meets a record whose CRC differs (WalReplayer::next_record).   *)
(***************************************************************************)
THEOREM ReplayReachesGoal == Spec => []ReplayComplete
  <1>1. LogInv => ReplayComplete
    BY DEF LogInv, ReplayInv, ReplayComplete, Sound, PlaceInv, ReaderType
  <1> QED
    BY <1>1, LogHolds, PTL

(***************************************************************************)
(* Every record that a replay hands out is the one after the last, over    *)
(* the mapping of a segment that is written, rotated or unlinked meanwhile *)
(* and over a publisher that dies and opens the log again                  *)
(* (MmapSegmentReader::next_record, WalReplayer::next).                    *)
(***************************************************************************)
THEOREM ReplayHasNoGap == Spec => ReplayNoGap
  <1>1. LogInv /\ [Next]_vars =>
          [rlast' # rlast /\ rpc = "read" /\ ~lost' /\ ~refused => rlast' = rlast + 1]_vars
    <2> SUFFICES ASSUME LogInv, Next, rlast' # rlast, rpc = "read", ~lost', ~refused
                 PROVE  rlast' = rlast + 1
      OBVIOUS
    <2>1. NextRecord /\ ~lost
      <3>1. AppendStep => UNCHANGED rlast
        BY DEF AppendStep, AppendCall, WriteSkipToEnd, CreateFile, CreateFails, WriteHeader,
           StoreActive, PublishSegment, Reserve, Stake, Commit, DeleteOldest, SyncEach,
           SyncEachFails, AppendDone, WriterStep, reader
      <3>2. Open \/ FlusherStep \/ Close \/ Kill => UNCHANGED rlast
        BY DEF Open, FlusherStep, Snapshot, LoadWriter, Flush, FlushFails, Close, Kill, reader
      <3>3. PowerLoss => lost'
        BY DEF PowerLoss
      <3>4. ReaderStep => NextRecord \/ UNCHANGED rlast
        BY DEF ReaderStep, ReadFrom, OpenSegment, SegmentEnds, DropReplayer
      <3>5. NextRecord => lost' = lost
        BY DEF NextRecord, history
      <3> QED
        BY <3>1, <3>2, <3>3, <3>4, <3>5 DEF Next
    <2>2. CoreInv /\ ReaderType /\ PlaceInv
      BY <2>1 DEF LogInv, ReplayInv, Sound
    <2>3. /\ rlast' = (IF rseg + rpos < rfloor THEN rlast ELSE rseg + rpos)
          /\ Aligned(rseg + rpos)
      BY <2>1, <2>2, NextRecordFacts
    <2> QED
      BY <2>3 DEF Aligned
  <1> QED
    BY <1>1, LogHolds, PTL DEF Spec, ReplayNoGap

=============================================================================
