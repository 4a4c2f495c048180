----------------------------- MODULE WalProofs -----------------------------
(***************************************************************************)
(* Proofs about Wal, for every number of records, segments and openings,   *)
(* every size, policy and failure: what a sync has promised survives, no   *)
(* cursor of it is given out again, the segments are one run of cursors,   *)
(* and a replay walks that run without a gap and to its end.               *)
(***************************************************************************)
EXTENDS Wal, SequenceTheorems, WellFoundedInduction, TLAPS

Record == [cursor : 0..(MaxCursor - 1), inc : Nat, size : Nat]
Entry == Record \cup {Torn}
File == [header : BOOLEAN, recs : Seq(Entry), synced : Nat, failed : BOOLEAN]
Writer == [first : Nat, next : Nat, buf : Seq(Record)]
Save == [file : Nat, pending : Nat]

Segments == DOMAIN disk
Recs(f) == disk[f].recs

USE DEF Segments, Recs

-----------------------------------------------------------------------------
(* Types, and what the program counters imply *)

DiskType == disk \in [DOMAIN disk -> File] /\ DOMAIN disk \subseteq 0..MaxCursor

WalType ==
  /\ DiskType
  /\ writer \in Writer \cup {NoWriter}
  /\ tail \in 0..MaxCursor /\ durable \in Nat /\ inc \in Nat
  /\ promised \subseteq Record /\ broken \in BOOLEAN
  /\ wpc \in {"down", "lost", "idle", "create", "header", "fit", "rotate", "append",
              "sync", "retain"}
  /\ call \in [size : Nat, rotated : BOOLEAN]
  /\ fpc \in {"idle", "sync", "stopped"} /\ fsave \in Save \cup {NoSave}

PcInv ==
  /\ wpc \in {"fit", "rotate", "append", "sync", "retain"} =>
       writer # NoWriter /\ tail < MaxCursor
  /\ wpc \in {"create", "header", "down", "lost"} => writer = NoWriter
  /\ wpc \in {"create", "header"} /\ call # OpenCall => tail < MaxCursor
  /\ wpc \in Stopped => fpc = "idle"
  /\ wpc = "sync" => policy = "Each"
  /\ fpc = "sync" => policy = "Batched" /\ fsave \in Save
  /\ wpc = "header" => /\ tail \in Segments /\ Recs(tail) = <<>>
                       /\ disk[tail].synced = 0 /\ ~disk[tail].failed

-----------------------------------------------------------------------------
(* The files *)

\* A record stands where its cursor says; nothing torn was synced.
FileOK(f) ==
  /\ disk[f].synced <= Len(Recs(f))
  /\ \A i \in 1..disk[f].synced : Recs(f)[i] # Torn
  /\ \A i \in DOMAIN Recs(f) :
       Recs(f)[i] # Torn => Recs(f)[i].cursor = f + i - 1 /\ Recs(f)[i].inc <= inc

FileInv == \A f \in Segments : FileOK(f)

Whole(f) == \A i \in DOMAIN Recs(f) : Recs(f)[i] # Torn

\* While the log is open, nothing is torn, and no name is beyond the tail.
LiveInv ==
  Running =>
    /\ \A f \in Segments : f <= tail /\ Whole(f)
    /\ index \subseteq Segments /\ Segments \ {tail} \subseteq index
    /\ writer # NoWriter => index = Segments

\* The next cursor of a writer that nothing has gone wrong with.
Upcoming == IF wpc \in {"sync", "retain"} THEN tail + 1 ELSE tail

\* The active segment is the newest; its buffer continues its file.
WriterInv ==
  writer # NoWriter =>
    /\ writer.first \in Segments /\ \A f \in Segments : f <= writer.first
    /\ writer.next = writer.first + Len(Recs(writer.first)) + Len(writer.buf)
    /\ \A i \in DOMAIN writer.buf :
         /\ writer.buf[i].cursor = writer.first + Len(Recs(writer.first)) + i - 1
         /\ writer.buf[i].inc = inc
    /\ ~broken \/ ~disk[writer.first].failed => writer.next = Upcoming
    /\ policy = "Batched" /\ fpc # "stopped" => ~disk[writer.first].failed

-----------------------------------------------------------------------------
(* What a sync promises *)

\* A segment that was closed without an error is on the device, as far as this
\* opening wrote it, and ends before the next one starts.
Closed(f) ==
  \A i \in DOMAIN Recs(f) :
    Recs(f)[i].inc = inc =>
      /\ i <= disk[f].synced /\ Recs(f)[i].cursor < tail
      /\ \A g \in Segments : g > f => Recs(f)[i].cursor < g

ClosedInv ==
  Running => \A f \in Segments : f # writer.first /\ ~disk[f].failed => Closed(f)

\* The file the flusher took is not one that is being created.
TakenInv ==
  fpc = "sync" =>
    fsave.file <= tail /\ (fsave.file = tail => tail \in Segments /\ wpc # "header")

\* What the flusher is about to report was in the file when it took it.
FlushInv ==
  fpc = "sync" =>
    /\ fsave.pending <= tail
    /\ writer # NoWriter =>
         fsave.pending <= IF fsave.file = writer.first
                            THEN writer.first + Len(Recs(writer.first)) ELSE writer.first

Held(r) ==
  \E f \in Segments : \E i \in 1..disk[f].synced :
    Recs(f)[i] = r /\ \A g \in Segments : g > f => r.cursor < g

PromisedInv ==
  /\ \A r \in promised : Held(r)
  /\ Running => \A r \in promised : r.cursor < IF wpc = "retain" THEN tail + 1 ELSE tail

-----------------------------------------------------------------------------
(* One run of cursors *)

Newest(f) == \A g \in Segments : g <= f

\* f ends where another segment of S starts, and none starts before that.
Joined(f, S) ==
  /\ Whole(f) /\ Recs(f) # <<>> /\ f + Len(Recs(f)) \in S
  /\ \A g \in S : g > f => f + Len(Recs(f)) <= g

ChainInv ==
  ~broken =>
    /\ \A f \in Segments : Newest(f) \/ Joined(f, Segments)
    /\ Running =>
         /\ durable <= Upcoming
         /\ \A f \in Segments : Newest(f) =>
              /\ durable <= f + Len(Recs(f))
              /\ writer = NoWriter => f + Len(Recs(f)) = tail

-----------------------------------------------------------------------------
(* A replay *)

ReaderType ==
  /\ rpc \in {"idle", "next", "read", "drained", "error"}
  /\ rtodo \subseteq 0..MaxCursor /\ rbuf \in Seq(Entry)
  /\ rfloor \in Nat /\ rlast \in Int /\ rgoal \in Nat

\* The file holds, intact, what was durable when the replay began.
Reaches(f) ==
  /\ f + Len(Recs(f)) >= rgoal
  /\ \A i \in DOMAIN Recs(f) : f + i - 1 < rgoal => Recs(f)[i] # Torn

\* The segments still to be opened, as far as retention has left them: all
\* but the last are closed and joined, the last one reaches the goal.
TodoInv ==
  rpc \in {"next", "read"} =>
    \A f \in rtodo :
      /\ \E g \in Segments : f <= g
      /\ f \in Segments =>
           \/ (\A g \in rtodo : g <= f) /\ Reaches(f)
           \/ Joined(f, rtodo) /\ \A g \in rtodo : g > f => g \in Segments

\* x is the cursor the replayer comes to next; below the floor it skips.
Aligned(x) == rlast + 1 = IF x < rfloor THEN rfloor ELSE x

Reading(x) ==
  /\ Aligned(x)
  /\ \A i \in DOMAIN rbuf : rbuf[i] # Torn => rbuf[i].cursor = x + i - 1
  /\ rtodo # {} => \A i \in DOMAIN rbuf : rbuf[i] # Torn
  /\ \A m \in rtodo : (\A g \in rtodo : m <= g) => m = x + Len(rbuf)
  /\ rtodo = {} /\ (\A i \in DOMAIN rbuf : rbuf[i] # Torn) => x + Len(rbuf) >= rgoal

PlaceInv ==
  /\ rpc = "next" =>
       /\ \A m \in rtodo : (\A g \in rtodo : m <= g) => Aligned(m)
       /\ rtodo = {} => rlast + 1 >= rgoal
  /\ rpc = "read" => \E x \in Nat : Reading(x)
  /\ rpc = "drained" => rlast + 1 >= rgoal

-----------------------------------------------------------------------------
(* Least and greatest elements, sequences *)

LEMMA Least ==
  ASSUME NEW S, S \subseteq Nat, S # {}
  PROVE  \E x \in S : \A y \in S : x <= y
  <1> DEFINE R == OpToRel(<, Nat)
  <1>1. IsWellFoundedOn(R, Nat)
    BY NatLessThanWellFounded
  <1>2. PICK x \in S : \A y \in S : <<y, x>> \notin R
    <2> HIDE DEF R
    <2> QED
      BY <1>1, WFMin
  <1>3. \A y \in S : ~(y < x)
    BY <1>2 DEF OpToRel
  <1> QED
    BY <1>3

LEMMA MinFacts ==
  ASSUME NEW S, S \subseteq Nat, S # {}
  PROVE  Min(S) \in S /\ \A y \in S : Min(S) <= y
  BY Least DEF Min

LEMMA MaxFacts ==
  ASSUME NEW S, NEW b \in Nat, S \subseteq 0..b, S # {}
  PROVE  Max(S) \in S /\ \A y \in S : y <= Max(S)
  <1> DEFINE T == {b - x : x \in S}
  <1>1. PICK z \in T : \A y \in T : z <= y
    <2>1. T \subseteq Nat /\ T # {}
      OBVIOUS
    <2> HIDE DEF T
    <2> QED
      BY <2>1, Least
  <1>2. PICK x \in S : z = b - x
    OBVIOUS
  <1>3. \A y \in S : b - x <= b - y
    BY <1>1, <1>2
  <1>4. \A y \in S : y <= x
    BY <1>3
  <1> QED
    BY <1>4 DEF Max

LEMMA SeqFacts ==
  ASSUME NEW S, NEW s \in Seq(S)
  PROVE  /\ DOMAIN s = 1..Len(s) /\ Len(s) \in Nat /\ \A i \in DOMAIN s : s[i] \in S
         /\ s = <<>> <=> Len(s) = 0
  BY LenProperties, ElementOfSeq, EmptySeq

LEMMA LenDomain ==
  ASSUME NEW S, NEW s \in Seq(S), NEW k \in Nat, DOMAIN s = 1..k
  PROVE  Len(s) = k
  <1>1. DOMAIN s = 1..Len(s) /\ Len(s) \in Nat
    BY SeqFacts
  <1>2. \A i \in Nat \ {0} : i \in 1..k <=> i \in 1..Len(s)
    BY <1>1
  <1> QED
    BY <1>1, <1>2

LEMMA EmptyFacts ==
  ASSUME NEW S
  PROVE  /\ <<>> \in Seq(S) /\ Len(<<>>) = 0 /\ DOMAIN <<>> = {}
         /\ \A s \in Seq(S) : s \o <<>> = s
  BY EmptySeq, ConcatEmptySeq

LEMMA ConcatFacts ==
  ASSUME NEW S, NEW s \in Seq(S), NEW t \in Seq(S)
  PROVE  /\ s \o t \in Seq(S) /\ Len(s \o t) = Len(s) + Len(t)
         /\ \A i \in DOMAIN s : i \in DOMAIN (s \o t) /\ (s \o t)[i] = s[i]
         /\ \A i \in DOMAIN t : /\ Len(s) + i \in DOMAIN (s \o t)
                                /\ (s \o t)[Len(s) + i] = t[i]
         /\ \A i \in DOMAIN (s \o t) :
              i \in DOMAIN s \/ (i - Len(s) \in DOMAIN t /\ (s \o t)[i] = t[i - Len(s)])
  <1> DEFINE z == s \o t
  <1>1. /\ z \in Seq(S) /\ Len(z) = Len(s) + Len(t)
        /\ \A i \in 1..(Len(s) + Len(t)) : z[i] = IF i <= Len(s) THEN s[i] ELSE t[i - Len(s)]
    BY ConcatProperties
  <1>2. /\ DOMAIN s = 1..Len(s) /\ Len(s) \in Nat /\ DOMAIN t = 1..Len(t) /\ Len(t) \in Nat
    BY SeqFacts
  <1>3. DOMAIN z = 1..(Len(s) + Len(t))
    BY <1>1, SeqFacts
  <1> HIDE DEF z
  <1>4. \A i \in DOMAIN s : i \in DOMAIN z /\ z[i] = s[i]
    BY <1>1, <1>2, <1>3
  <1>5. \A i \in DOMAIN t : Len(s) + i \in DOMAIN z /\ z[Len(s) + i] = t[i]
    <2>1. ASSUME NEW i \in DOMAIN t PROVE Len(s) + i \in DOMAIN z /\ z[Len(s) + i] = t[i]
      <3>1. /\ Len(s) + i \in 1..(Len(s) + Len(t)) /\ ~(Len(s) + i <= Len(s))
            /\ (Len(s) + i) - Len(s) = i
        BY <1>2, <2>1
      <3> QED
        BY <1>1, <1>3, <3>1
    <2> QED
      BY <2>1
  <1>6. \A i \in DOMAIN z : i \in DOMAIN s \/ (i - Len(s) \in DOMAIN t /\ z[i] = t[i - Len(s)])
    BY <1>1, <1>2, <1>3
  <1> QED
    BY <1>1, <1>4, <1>5, <1>6 DEF z

LEMMA PrefixFacts ==
  ASSUME NEW S, NEW s \in Seq(S), NEW n \in 0..Len(s)
  PROVE  /\ SubSeq(s, 1, n) \in Seq(S) /\ Len(SubSeq(s, 1, n)) = n
         /\ \A i \in 1..n : SubSeq(s, 1, n)[i] = s[i]
  <1>1. DOMAIN s = 1..Len(s) /\ Len(s) \in Nat /\ \A i \in DOMAIN s : s[i] \in S
    BY SeqFacts
  <1>2. \A i \in 1..n : s[i] \in S
    BY <1>1
  <1> DEFINE z == SubSeq(s, 1, n)
  <1>3. /\ z \in Seq(S) /\ Len(z) = IF 1 <= n THEN n - 1 + 1 ELSE 0
        /\ \A i \in 1..(n - 1 + 1) : z[i] = s[1 + i - 1]
    BY <1>1, <1>2, SubSeqProperties
  <1> HIDE DEF z
  <1>4. n \in Nat /\ n - 1 + 1 = n /\ \A i \in 1..n : 1 + i - 1 = i
    BY <1>1
  <1>5. Len(z) = n
    BY <1>3, <1>4
  <1> QED
    BY <1>3, <1>4, <1>5 DEF z

LEMMA SuffixFacts ==
  ASSUME NEW S, NEW s \in Seq(S), NEW n \in 0..Len(s)
  PROVE  /\ SubSeq(s, n + 1, Len(s)) \in Seq(S) /\ Len(SubSeq(s, n + 1, Len(s))) = Len(s) - n
         /\ \A i \in 1..(Len(s) - n) : SubSeq(s, n + 1, Len(s))[i] = s[n + i]
  <1>1. DOMAIN s = 1..Len(s) /\ Len(s) \in Nat /\ \A i \in DOMAIN s : s[i] \in S
    BY SeqFacts
  <1>2. \A i \in (n + 1)..Len(s) : s[i] \in S
    BY <1>1
  <1> DEFINE z == SubSeq(s, n + 1, Len(s))
  <1>3. /\ z \in Seq(S) /\ Len(z) = IF n + 1 <= Len(s) THEN Len(s) - (n + 1) + 1 ELSE 0
        /\ \A i \in 1..(Len(s) - (n + 1) + 1) : z[i] = s[n + 1 + i - 1]
    BY <1>1, <1>2, SubSeqProperties
  <1> HIDE DEF z
  <1>4. Len(z) = Len(s) - n
    <2>1. Len(z) = IF n + 1 <= Len(s) THEN Len(s) - (n + 1) + 1 ELSE 0
      BY <1>3
    <2>2. Len(s) \in Nat /\ n \in 0..Len(s)
      BY <1>1
    <2> QED
      BY <2>1, <2>2
  <1>5. \A i \in 1..(Len(s) - n) : n + 1 + i - 1 = n + i
    BY <1>1
  <1>6. Len(s) - (n + 1) + 1 = Len(s) - n
    BY <1>1
  <1> QED
    BY <1>3, <1>4, <1>5, <1>6 DEF z

LEMMA TornIsNoRecord == Torn \notin Record /\ Torn.inc \notin Nat
  BY ConstantsOK DEF Torn, Record

\* Intact keeps all before the first torn record.
LEMMA IntactFacts ==
  ASSUME NEW s \in Seq(Entry)
  PROVE  /\ Intact(s) \in Seq(Entry) /\ Len(Intact(s)) <= Len(s)
         /\ \A i \in 1..Len(Intact(s)) : Intact(s)[i] = s[i] /\ s[i] # Torn
         /\ Len(Intact(s)) = Len(s) \/ (Len(Intact(s)) + 1 \in DOMAIN s
                                        /\ s[Len(Intact(s)) + 1] = Torn)
         /\ (\A i \in DOMAIN s : s[i] # Torn) => Intact(s) = s
  <1> DEFINE bad == {i \in DOMAIN s : s[i] = Torn}
  <1>1. DOMAIN s = 1..Len(s) /\ Len(s) \in Nat
    BY SeqFacts
  <1>2. CASE bad = {}
    <2>1. Intact(s) = s
      BY <1>2 DEF Intact
    <2> QED
      BY <1>1, <1>2, <2>1
  <1>3. CASE bad # {}
    <2> DEFINE n == Min(bad)
    <2>1. bad \subseteq Nat
      BY <1>1
    <2>2. n \in bad /\ \A y \in bad : n <= y
      <3> HIDE DEF bad
      <3> QED
        BY <1>3, <2>1, MinFacts
    <2>3. Intact(s) = SubSeq(s, 1, n - 1)
      BY <1>3 DEF Intact
    <2> HIDE DEF n
    <2>4. n \in DOMAIN s /\ s[n] = Torn /\ n - 1 \in 0..Len(s) /\ n - 1 + 1 = n
      BY <1>1, <2>2
    <2>5. \A i \in 1..(n - 1) : i \in DOMAIN s /\ i \notin bad
      BY <1>1, <2>2, <2>4
    <2>6. /\ Intact(s) \in Seq(Entry) /\ Len(Intact(s)) = n - 1
          /\ \A i \in 1..(n - 1) : Intact(s)[i] = s[i]
      BY <2>3, <2>4, PrefixFacts
    <2> QED
      BY <1>1, <2>4, <2>5, <2>6
  <1> QED
    BY <1>2, <1>3

-----------------------------------------------------------------------------
(* What a step does to one file *)

\* File f of d gets the records t at its end, and the marks n and b, in e.
Edit(d, e, f, t, n, b) ==
  /\ f \in DOMAIN d /\ e \in [DOMAIN d -> File]
  /\ \A g \in DOMAIN d : g # f => e[g] = d[g]
  /\ e[f].recs = d[f].recs \o t /\ e[f].synced = n /\ e[f].failed = b

Edited(f, t, n, b) == Edit(disk, disk', f, t, n, b)

\* The mark after a sync of what the file then holds.
SyncMark(f, t) == IF disk[f].failed THEN disk[f].synced ELSE Len(Recs(f)) + Len(t)

LEMMA EntryFacts ==
  /\ \A s \in Seq(Record) : s \in Seq(Entry)
  /\ \A s \in Seq(Record) : \A i \in DOMAIN s : s[i] # Torn
  <1>1. \A s \in Seq(Record) : \A i \in DOMAIN s : s[i] \in Record
    BY SeqFacts
  <1>2. \A s \in Seq(Record) : s \in Seq(Entry)
    <2>1. Record \subseteq Entry
      BY DEF Entry
    <2> QED
      BY <2>1, SeqFacts
  <1> QED
    BY <1>1, <1>2, TornIsNoRecord

LEMMA AppendEdit ==
  ASSUME DiskType, NEW f \in Segments, NEW t \in Seq(Entry), NEW e,
         e = [disk EXCEPT ![f].recs = @ \o t]
  PROVE  Edit(disk, e, f, t, disk[f].synced, disk[f].failed)
  <1>1. Recs(f) \o t \in Seq(Entry)
    BY ConcatFacts DEF DiskType, File
  <1> QED
    BY <1>1 DEF DiskType, File, Edit

LEMMA FlushedEdit ==
  ASSUME DiskType, writer \in Writer, writer.first \in Segments
  PROVE  Edit(disk, Flushed(disk, writer), writer.first, writer.buf,
              disk[writer.first].synced, disk[writer.first].failed)
  <1>1. writer.buf \in Seq(Entry)
    BY EntryFacts DEF Writer
  <1> QED
    BY <1>1, AppendEdit DEF Flushed

LEMMA SyncedEdit ==
  ASSUME NEW d, NEW e, NEW f, NEW t \in Seq(Entry), DiskType,
         Edit(disk, d, f, t, disk[f].synced, disk[f].failed), e = SyncedFile(d, f)
  PROVE  Edit(disk, e, f, t, SyncMark(f, t), disk[f].failed)
  <1>1. /\ f \in Segments /\ d \in [Segments -> File] /\ d[f].recs = Recs(f) \o t
        /\ d[f].failed = disk[f].failed /\ d[f].synced = disk[f].synced
        /\ \A g \in Segments : g # f => d[g] = disk[g]
    BY DEF Edit
  <1>2. Len(d[f].recs) = Len(Recs(f)) + Len(t) /\ Len(d[f].recs) \in Nat
    BY <1>1, ConcatFacts, SeqFacts DEF DiskType, File
  <1>3. CASE disk[f].failed
    BY <1>1, <1>3 DEF SyncedFile, SyncMark, Edit
  <1>4. CASE ~disk[f].failed
    <2>1. e = [d EXCEPT ![f].synced = Len(d[f].recs)]
      BY <1>1, <1>4 DEF SyncedFile
    <2>2. e[f] = [d[f] EXCEPT !.synced = Len(d[f].recs)] /\ \A g \in Segments : g # f => e[g] = d[g]
      BY <1>1, <2>1
    <2>3. d[f] \in File
      BY <1>1
    <2>4. e[f].recs = d[f].recs /\ e[f].failed = d[f].failed /\ e[f].synced = Len(d[f].recs)
          /\ e[f] \in File
      BY <2>2, <2>3, <1>2 DEF File
    <2>5. e \in [Segments -> File]
      BY <1>1, <2>1, <2>4, <2>2
    <2> QED
      BY <1>1, <1>2, <1>4, <2>2, <2>4, <2>5 DEF Edit, SyncMark
  <1> QED
    BY <1>3, <1>4

LEMMA FailedEdit ==
  ASSUME NEW d, NEW e, NEW f, NEW t \in Seq(Entry), DiskType,
         Edit(disk, d, f, t, disk[f].synced, disk[f].failed), e = [d EXCEPT ![f].failed = TRUE]
  PROVE  Edit(disk, e, f, t, disk[f].synced, TRUE)
  <1>1. /\ f \in Segments /\ d \in [Segments -> File] /\ d[f].recs = Recs(f) \o t
        /\ d[f].synced = disk[f].synced
        /\ \A g \in Segments : g # f => d[g] = disk[g]
    BY DEF Edit
  <1>2. e[f] = [d[f] EXCEPT !.failed = TRUE] /\ \A g \in Segments : g # f => e[g] = d[g]
    BY <1>1
  <1>3. e[f].recs = d[f].recs /\ e[f].failed = TRUE /\ e[f].synced = d[f].synced
        /\ e[f] \in File
    BY <1>1, <1>2 DEF File
  <1>4. e \in [Segments -> File]
    BY <1>1, <1>2, <1>3
  <1> QED
    BY <1>1, <1>2, <1>3, <1>4 DEF Edit

\* The file as it is: nothing is added and no mark is moved.
LEMMA SameEdit ==
  ASSUME DiskType, NEW f \in Segments
  PROVE  Edit(disk, disk, f, <<>>, disk[f].synced, disk[f].failed)
  BY EmptyFacts DEF DiskType, File, Edit

LEMMA HeaderEdit ==
  ASSUME DiskType, NEW f \in Segments, NEW h \in BOOLEAN, NEW e,
         e = [disk EXCEPT ![f].header = h]
  PROVE  Edit(disk, e, f, <<>>, disk[f].synced, disk[f].failed)
  <1>1. Recs(f) \o <<>> = Recs(f)
    BY EmptyFacts DEF DiskType, File
  <1> QED
    BY <1>1 DEF DiskType, File, Edit

\* The same, element by element.
Grown(f, t, n, b) ==
  /\ f \in Segments /\ f \in Nat /\ Segments' = Segments /\ DiskType'
  /\ \A g \in Segments : g # f => disk'[g] = disk[g]
  /\ disk'[f].synced = n /\ disk'[f].failed = b
  /\ DOMAIN Recs(f) = 1..Len(Recs(f)) /\ Len(Recs(f)) \in Nat
  /\ DOMAIN t = 1..Len(t) /\ Len(t) \in Nat
  /\ DOMAIN Recs(f)' = 1..Len(Recs(f)') /\ Len(Recs(f)') = Len(Recs(f)) + Len(t)
  /\ \A i \in DOMAIN Recs(f) : i \in DOMAIN Recs(f)' /\ Recs(f)'[i] = Recs(f)[i]
  /\ \A i \in DOMAIN t : Len(Recs(f)) + i \in DOMAIN Recs(f)'
                         /\ Recs(f)'[Len(Recs(f)) + i] = t[i]
  /\ \A i \in DOMAIN Recs(f)' :
       i \in DOMAIN Recs(f) \/ (i - Len(Recs(f)) \in DOMAIN t
                                /\ Recs(f)'[i] = t[i - Len(Recs(f))])

LEMMA EditedRecs ==
  ASSUME DiskType, NEW f, NEW t \in Seq(Entry), NEW n, NEW b, Edited(f, t, n, b)
  PROVE  Grown(f, t, n, b)
  <1>1. /\ f \in Segments /\ disk' \in [Segments -> File] /\ Recs(f)' = Recs(f) \o t
        /\ disk'[f].synced = n /\ disk'[f].failed = b
        /\ \A g \in Segments : g # f => disk'[g] = disk[g]
    BY DEF Edited, Edit
  <1>2. Segments' = Segments /\ DiskType' /\ f \in Nat
    BY <1>1 DEF DiskType
  <1>3. Recs(f) \in Seq(Entry) /\ Recs(f)' \in Seq(Entry)
    BY <1>1 DEF DiskType, File
  <1> DEFINE s == Recs(f)
             z == Recs(f)'
  <1>4. s \in Seq(Entry) /\ z \in Seq(Entry) /\ z = s \o t
    BY <1>1, <1>3
  <1> HIDE DEF s, z
  <1>5. /\ DOMAIN s = 1..Len(s) /\ Len(s) \in Nat /\ DOMAIN t = 1..Len(t) /\ Len(t) \in Nat
        /\ DOMAIN z = 1..Len(z)
    BY <1>4, SeqFacts
  <1>6. /\ Len(z) = Len(s) + Len(t)
        /\ \A i \in DOMAIN s : i \in DOMAIN z /\ z[i] = s[i]
        /\ \A i \in DOMAIN t : Len(s) + i \in DOMAIN z /\ z[Len(s) + i] = t[i]
        /\ \A i \in DOMAIN z : i \in DOMAIN s \/ (i - Len(s) \in DOMAIN t /\ z[i] = t[i - Len(s)])
    BY <1>4, ConcatFacts
  <1> QED
    BY <1>1, <1>2, <1>5, <1>6 DEF s, z, Grown

LEMMA EditedFiles ==
  ASSUME DiskType, FileInv, inc \in Nat, inc' = inc,
         NEW f, NEW t \in Seq(Entry), NEW n \in Nat, NEW b, Edited(f, t, n, b),
         n <= Len(Recs(f)) + Len(t),
         n <= disk[f].synced \/ (Whole(f) /\ \A i \in DOMAIN t : t[i] # Torn),
         \A i \in DOMAIN t :
           t[i] # Torn => t[i].cursor = f + Len(Recs(f)) + i - 1 /\ t[i].inc <= inc
  PROVE  DiskType' /\ FileInv'
  <1>g. Grown(f, t, n, b)
    BY EditedRecs
  <1> USE <1>g DEF Grown
  <1>1. f \in Nat /\ disk[f].synced \in Nat /\ FileOK(f)
    BY DEF DiskType, File, FileInv
  <1>2. ASSUME NEW i \in 1..n PROVE Recs(f)'[i] # Torn
    <2>1. i \in DOMAIN Recs(f)'
      OBVIOUS
    <2>2. CASE n <= disk[f].synced
      <3>1. i \in DOMAIN Recs(f) /\ Recs(f)[i] # Torn
        BY <1>1, <2>2 DEF FileOK
      <3> QED
        BY <3>1
    <2>3. CASE Whole(f) /\ \A j \in DOMAIN t : t[j] # Torn
      BY <2>1, <2>3 DEF Whole
    <2> QED
      BY <2>2, <2>3
  <1>3. ASSUME NEW i \in DOMAIN Recs(f)', Recs(f)'[i] # Torn
        PROVE  Recs(f)'[i].cursor = f + i - 1 /\ Recs(f)'[i].inc <= inc
    <2>1. CASE i \in DOMAIN Recs(f)
      BY <1>1, <1>3, <2>1 DEF FileOK
    <2>2. CASE i \notin DOMAIN Recs(f)
      <3>1. i - Len(Recs(f)) \in DOMAIN t /\ Recs(f)'[i] = t[i - Len(Recs(f))]
        BY <2>2
      <3>2. /\ t[i - Len(Recs(f))].cursor = f + Len(Recs(f)) + (i - Len(Recs(f))) - 1
            /\ t[i - Len(Recs(f))].inc <= inc
        BY <1>3, <3>1
      <3>3. f + Len(Recs(f)) + (i - Len(Recs(f))) - 1 = f + i - 1
        OBVIOUS
      <3> QED
        BY <3>1, <3>2, <3>3
    <2> QED
      BY <2>1, <2>2
  <1>4. FileOK(f)'
    BY <1>2, <1>3 DEF FileOK
  <1>5. ASSUME NEW g \in Segments, g # f PROVE FileOK(g)'
    BY <1>5 DEF FileOK, FileInv
  <1> QED
    BY <1>4, <1>5 DEF FileInv

LEMMA EditedWhole ==
  ASSUME DiskType, NEW f, NEW t \in Seq(Entry), NEW n, NEW b, Edited(f, t, n, b),
         \A i \in DOMAIN t : t[i] # Torn
  PROVE  \A g \in Segments : Whole(g) => Whole(g)'
  <1>g. Grown(f, t, n, b)
    BY EditedRecs
  <1> USE <1>g DEF Grown
  <1>1. Whole(f) => Whole(f)'
    BY DEF Whole
  <1> QED
    BY <1>1 DEF Whole

LEMMA EditedHeld ==
  ASSUME DiskType, FileInv, NEW f, NEW t \in Seq(Entry), NEW n \in Nat, NEW b,
         Edited(f, t, n, b), disk[f].synced <= n, NEW r, Held(r)
  PROVE  Held(r)'
  <1>g. Grown(f, t, n, b)
    BY EditedRecs
  <1> USE <1>g DEF Grown
  <1>0. PICK g \in Segments : \E i \in 1..disk[g].synced :
          Recs(g)[i] = r /\ \A h \in Segments : h > g => r.cursor < h
    BY DEF Held
  <1>1. PICK i \in 1..disk[g].synced :
          Recs(g)[i] = r /\ \A h \in Segments : h > g => r.cursor < h
    BY <1>0
  <1>2. disk[g].synced \in Nat /\ disk[g].synced <= Len(Recs(g)) /\ g \in Segments'
    BY DEF DiskType, File, FileInv, FileOK
  <1>3. i \in 1..disk'[g].synced /\ Recs(g)'[i] = r
    <2>1. CASE g = f
      <3>1. i \in 1..disk[f].synced /\ Recs(f)[i] = r /\ disk[f].synced <= Len(Recs(f))
            /\ disk[f].synced \in Nat
        BY <1>1, <1>2, <2>1
      <3>2. i \in DOMAIN Recs(f) /\ i \in 1..disk'[f].synced
        BY <3>1
      <3>3. Recs(f)'[i] = r
        BY <3>1, <3>2
      <3> QED
        BY <3>2, <3>3, <2>1
    <2>2. CASE g # f
      BY <1>1, <1>2, <2>2
    <2> QED
      BY <2>1, <2>2
  <1>4. \A h \in Segments' : h > g => r.cursor < h
    BY <1>1
  <1> QED
    BY <1>2, <1>3, <1>4 DEF Held

\* Only the newest file grows; the others stay joined.
LEMMA EditedChain ==
  ASSUME DiskType, NEW f, NEW t \in Seq(Entry), NEW n, NEW b, Edited(f, t, n, b),
         t = <<>> \/ Newest(f)
  PROVE  /\ \A g \in Segments : Newest(g)' <=> Newest(g)
         /\ (\A g \in Segments : Newest(g) \/ Joined(g, Segments))
              => (\A g \in Segments : Newest(g) \/ Joined(g, Segments))'
  <1>g. Grown(f, t, n, b)
    BY EditedRecs
  <1> USE <1>g DEF Grown
  <1>1. \A g \in Segments : Newest(g)' <=> Newest(g)
    BY DEF Newest
  <1>2. ASSUME NEW g \in Segments, Joined(g, Segments), ~Newest(g) PROVE Joined(g, Segments)'
    <2>1. Recs(g)' = Recs(g)
      BY <1>2, EmptyFacts DEF Edited, Edit, DiskType, File
    <2> QED
      BY <1>2, <2>1 DEF Joined, Whole
  <1> QED
    BY <1>1, <1>2

LEMMA EditedTodo ==
  ASSUME DiskType, TodoInv, NEW f, NEW t \in Seq(Entry), NEW n, NEW b, Edited(f, t, n, b),
         t = <<>> \/ Newest(f), rgoal \in Nat, UNCHANGED reader
  PROVE  TodoInv'
  <1>g. Grown(f, t, n, b)
    BY EditedRecs
  <1> USE <1>g DEF Grown
  <1>1. rpc' = rpc /\ rtodo' = rtodo /\ rgoal' = rgoal
    BY DEF reader
  <1> SUFFICES ASSUME rpc \in {"next", "read"}, NEW g \in rtodo
               PROVE  /\ \E h \in Segments : g <= h
                      /\ g \in Segments =>
                           \/ (\A h \in rtodo : h <= g) /\ Reaches(g)'
                           \/ Joined(g, rtodo)' /\ \A h \in rtodo : h > g => h \in Segments
    BY <1>1 DEF TodoInv
  <1>2. \E h \in Segments : g <= h
    BY DEF TodoInv
  <1>3. ASSUME g \in Segments, \A h \in rtodo : h <= g, Reaches(g) PROVE Reaches(g)'
    <2>1. CASE g = f
      <3>1. f \in Nat
        BY DEF DiskType
      <3>2. f + Len(Recs(f)) >= rgoal
        BY <1>3, <2>1 DEF Reaches
      <3>3. ASSUME NEW i \in DOMAIN Recs(f)', f + i - 1 < rgoal PROVE Recs(f)'[i] # Torn
        <4>1. i \in DOMAIN Recs(f)
          BY <3>1, <3>2, <3>3
        <4> QED
          BY <1>3, <2>1, <3>3, <4>1 DEF Reaches
      <3>4. f + Len(Recs(f)') >= rgoal
        BY <3>1, <3>2
      <3> QED
        BY <1>1, <2>1, <3>3, <3>4 DEF Reaches
    <2>2. CASE g # f
      BY <1>1, <1>3, <2>2 DEF Reaches
    <2> QED
      BY <2>1, <2>2
  <1>4. ASSUME g \in Segments, Joined(g, rtodo), \A h \in rtodo : h > g => h \in Segments
        PROVE  Joined(g, rtodo)'
    <2>1. Len(Recs(g)) \in Nat \ {0} /\ g \in Nat /\ g + Len(Recs(g)) \in Segments
      BY <1>4, SeqFacts DEF Joined, DiskType, File
    <2>2. ~Newest(g)
      BY <2>1 DEF Newest
    <2>3. Recs(g)' = Recs(g)
      BY <1>4, <2>2, EmptyFacts DEF Edited, Edit, DiskType, File
    <2> QED
      BY <1>1, <1>4, <2>3 DEF Joined, Whole
  <1> QED
    BY <1>2, <1>3, <1>4 DEF TodoInv

-----------------------------------------------------------------------------
(* The steps of append *)

CoreInv ==
  /\ WalType /\ PcInv /\ FileInv /\ LiveInv /\ WriterInv /\ ClosedInv /\ TakenInv
  /\ FlushInv /\ PromisedInv /\ ChainInv

\* A step that leaves the files and the Wal alone leaves them correct.
LEMMA SameFiles ==
  ASSUME FileInv, disk' = disk, inc' = inc
  PROVE  /\ DiskType => DiskType'
         /\ FileInv' /\ Segments' = Segments
         /\ \A f : (Whole(f)' <=> Whole(f)) /\ (Newest(f)' <=> Newest(f))
         /\ \A f, S : Joined(f, S)' <=> Joined(f, S)
         /\ \A r : Held(r)' <=> Held(r)
  BY DEF DiskType, FileInv, FileOK, Whole, Newest, Joined, Held

LEMMA SameCore ==
  ASSUME CoreInv,
         UNCHANGED <<disk, inner, marks, wpc, call, flusher, inc, promised, broken>>
  PROVE  CoreInv'
  <1> USE DEF CoreInv, inner, marks, flusher
  <1>1. WalType' /\ PcInv' /\ FileInv'
    BY SameFiles DEF WalType, PcInv, Stopped
  <1>2. LiveInv' /\ WriterInv' /\ FlushInv'
    BY SameFiles DEF LiveInv, Running, Stopped, WriterInv, Upcoming, FlushInv
  <1>t. TakenInv'
    BY DEF TakenInv
  <1>3. ClosedInv'
    BY DEF ClosedInv, Closed, Running, Stopped
  <1>4. PromisedInv'
    BY SameFiles DEF PromisedInv, Running, Stopped
  <1>5. ChainInv'
    BY SameFiles DEF ChainInv, Running, Stopped, Upcoming
  <1> QED
    BY <1>1, <1>2, <1>3, <1>4, <1>5, <1>t

\* The steps that move only the program counter, and perhaps the tail.
LEMMA QuietSteps ==
  ASSUME CoreInv, AppendCall \/ CheckSize \/ CursorRegressed \/ AppendDone
  PROVE  CoreInv'
  <1> USE DEF CoreInv, inner, marks, flusher
  <1>1. /\ disk' = disk /\ inc' = inc /\ writer' = writer /\ index' = index /\ policy' = policy
        /\ durable' = durable /\ fpc' = fpc /\ fsave' = fsave /\ promised' = promised
        /\ broken' = broken
    BY DEF AppendCall, CheckSize, CursorRegressed, AppendDone
  <1>2. /\ wpc \in {"idle", "fit", "append", "retain"}
        /\ wpc' \in {"create", "fit", "append", "rotate", "idle"}
        /\ call' \in [size : Nat, rotated : BOOLEAN]
        /\ tail' = Upcoming /\ Upcoming' = Upcoming /\ tail' \in 0..MaxCursor
        /\ wpc \in {"fit", "append", "retain"} => writer # NoWriter
        /\ wpc' \in {"fit", "rotate", "append"} => writer # NoWriter /\ tail' < MaxCursor
        /\ wpc' = "create" => writer = NoWriter /\ tail' < MaxCursor
    <2>1. tail \in 0..MaxCursor /\ MaxCursor \in Nat /\ call \in [size : Nat, rotated : BOOLEAN]
      BY ConstantsOK DEF WalType
    <2>2. CASE AppendCall
      <3>1. Sizes \subseteq Nat
        BY ConstantsOK
      <3> QED
        BY <2>1, <2>2, <3>1 DEF AppendCall, Upcoming
    <2>3. CASE CheckSize
      BY <2>1, <2>3 DEF CheckSize, Upcoming, PcInv
    <2>4. CASE CursorRegressed
      BY <2>1, <2>4 DEF CursorRegressed, Upcoming, PcInv
    <2>5. CASE AppendDone
      BY <2>1, <2>5 DEF AppendDone, Upcoming, PcInv
    <2> QED
      BY <2>2, <2>3, <2>4, <2>5
  <1>3. Running /\ Running' /\ tail \in Nat /\ tail <= Upcoming /\ Upcoming \in Nat
        /\ tail' = IF wpc = "retain" THEN tail + 1 ELSE tail
    BY <1>2 DEF Running, Stopped, Upcoming, WalType
  <1>4. WalType'
    BY <1>1, <1>2 DEF WalType, DiskType
  <1>5. PcInv' /\ FileInv'
    BY <1>1, <1>2, SameFiles DEF PcInv, Stopped, WalType
  <1>6. LiveInv'
    <2>1. \A f \in Segments : f \in Nat
      BY DEF WalType, DiskType
    <2>2. \A f \in Segments : f <= tail' /\ Whole(f)'
      BY <1>1, <1>3, <2>1, SameFiles DEF LiveInv
    <2>3. index \subseteq Segments /\ Segments \ {tail'} \subseteq index
      BY <1>2, <1>3 DEF LiveInv
    <2> QED
      BY <1>1, <1>3, <2>2, <2>3 DEF LiveInv
  <1>7. WriterInv'
    BY <1>1, <1>2 DEF WriterInv
  <1>8. ClosedInv'
    <2>1. ASSUME NEW f \in Segments, f # writer.first, ~disk[f].failed PROVE Closed(f)'
      <3>1. Closed(f)
        BY <1>3, <2>1 DEF ClosedInv
      <3>2. ASSUME NEW i \in DOMAIN Recs(f), Recs(f)[i].inc = inc
            PROVE  Recs(f)[i].cursor < tail'
        <4>1. Recs(f)[i] \in Record
          BY <2>1, <3>2, SeqFacts, TornIsNoRecord DEF WalType, DiskType, File, Entry
        <4> QED
          BY <1>3, <3>1, <3>2, <4>1 DEF Closed, Record
      <3> QED
        BY <1>1, <3>1, <3>2 DEF Closed
    <2> QED
      BY <1>1, <2>1 DEF ClosedInv
  <1>t. TakenInv'
    BY <1>1, <1>2, <1>3 DEF TakenInv, PcInv, WalType, Save
  <1>9. FlushInv'
    BY <1>1, <1>3 DEF FlushInv, PcInv, WalType, Save
  <1>10. PromisedInv'
    <2>1. \A r \in promised : r.cursor < tail'
      BY <1>3 DEF PromisedInv
    <2> QED
      BY <1>1, <1>2, <2>1, SameFiles DEF PromisedInv
  <1>11. ChainInv'
    BY <1>1, <1>2, <1>3, SameFiles DEF ChainInv
  <1> QED
    BY <1>t, <1>4, <1>5, <1>6, <1>7, <1>8, <1>9, <1>10, <1>11

\* The active segment, its buffer and the records of both.
Active(f, s) ==
  /\ f = writer.first /\ s = writer.buf /\ Running
  /\ f \in Segments /\ f \in Nat /\ Newest(f) /\ Whole(f)
  /\ s \in Seq(Record) /\ s \in Seq(Entry) /\ Len(s) \in Nat /\ DOMAIN s = 1..Len(s)
  /\ Recs(f) \in Seq(Entry) /\ Len(Recs(f)) \in Nat /\ DOMAIN Recs(f) = 1..Len(Recs(f))
  /\ disk[f].synced \in Nat /\ disk[f].synced <= Len(Recs(f)) /\ disk[f].failed \in BOOLEAN
  /\ writer.next \in Nat /\ writer.next = f + Len(Recs(f)) + Len(s)
  /\ \A i \in DOMAIN s :
       /\ s[i] \in Record /\ s[i] # Torn
       /\ s[i].cursor = f + Len(Recs(f)) + i - 1 /\ s[i].inc = inc

LEMMA ActiveFacts ==
  ASSUME CoreInv, writer # NoWriter
  PROVE  writer \in Writer /\ \E f, s : Active(f, s)
  <1> DEFINE f == writer.first
             s == writer.buf
  <1> USE DEF CoreInv
  <1>1. writer \in Writer /\ f \in Segments /\ f \in Nat /\ s \in Seq(Record)
    BY DEF WalType, WriterInv, DiskType, Writer
  <1>2. Running
    BY DEF PcInv, Running, Stopped
  <1>3. Newest(f) /\ Whole(f)
    BY <1>1, <1>2 DEF WriterInv, Newest, LiveInv
  <1>4. s \in Seq(Entry) /\ \A i \in DOMAIN s : s[i] # Torn
    BY <1>1, EntryFacts
  <1>5. Len(s) \in Nat /\ DOMAIN s = 1..Len(s) /\ \A i \in DOMAIN s : s[i] \in Record
    BY <1>1, SeqFacts
  <1>6. /\ Recs(f) \in Seq(Entry) /\ disk[f].synced \in Nat /\ disk[f].failed \in BOOLEAN
    BY <1>1 DEF WalType, DiskType, File
  <1>7. Len(Recs(f)) \in Nat /\ DOMAIN Recs(f) = 1..Len(Recs(f))
    BY <1>6, SeqFacts
  <1>8. disk[f].synced <= Len(Recs(f))
    BY <1>1 DEF FileInv, FileOK
  <1>9. /\ writer.next \in Nat /\ writer.next = f + Len(Recs(f)) + Len(s)
        /\ \A i \in DOMAIN s : s[i].cursor = f + Len(Recs(f)) + i - 1 /\ s[i].inc = inc
    BY <1>1 DEF WriterInv, Writer
  <1>10. Active(f, s)
    BY <1>1, <1>2, <1>3, <1>4, <1>5, <1>6, <1>7, <1>8, <1>9 DEF Active
  <1> QED
    BY <1>1, <1>10

\* The active segment is given records with the right cursors and a mark that
\* does not move back: every file stays as it should be, and nothing held is
\* lost.
Continues(f, t) ==
  \A i \in DOMAIN t :
    t[i] # Torn => t[i].cursor = f + Len(Recs(f)) + i - 1 /\ t[i].inc <= inc

LEMMA ActiveEdited ==
  ASSUME CoreInv, inc' = inc, NEW f, NEW s, Active(f, s), NEW t \in Seq(Entry), NEW n \in Nat,
         NEW b, Edited(f, t, n, b), disk[f].synced <= n, n <= Len(Recs(f)) + Len(t),
         n = disk[f].synced \/ (\A i \in DOMAIN t : t[i] # Torn), Continues(f, t)
  PROVE  /\ Grown(f, t, n, b) /\ DiskType' /\ FileInv' /\ \A r : Held(r) => Held(r)'
         /\ \A g \in Segments : Newest(g)' <=> Newest(g)
         /\ (\A i \in DOMAIN t : t[i] # Torn) => \A g \in Segments : Whole(g)'
         /\ (\A g \in Segments : Newest(g) \/ Joined(g, Segments))
              => (\A g \in Segments : Newest(g) \/ Joined(g, Segments))'
  <1>1. DiskType /\ FileInv /\ inc \in Nat
    BY DEF CoreInv, WalType
  <1>2. Newest(f) /\ Whole(f) /\ Running
    BY DEF Active
  <1>3. Grown(f, t, n, b)
    BY <1>1, EditedRecs
  <1>4. DiskType' /\ FileInv'
    <2>1. n <= disk[f].synced \/ (Whole(f) /\ \A i \in DOMAIN t : t[i] # Torn)
      BY <1>2 DEF Active
    <2> QED
      BY <1>1, <2>1, EditedFiles DEF Continues
  <1>5. \A r : Held(r) => Held(r)'
    BY <1>1, EditedHeld
  <1>6. (\A i \in DOMAIN t : t[i] # Torn) => \A g \in Segments : Whole(g)'
    <2>1. \A g \in Segments : Whole(g)
      BY <1>2 DEF CoreInv, LiveInv
    <2> QED
      BY <1>1, <2>1, EditedWhole
  <1> QED
    BY <1>1, <1>2, <1>3, <1>4, <1>5, <1>6, EditedChain

LEMMA MarkFacts ==
  ASSUME NEW f, NEW s, Active(f, s)
  PROVE  /\ SyncMark(f, s) \in Nat /\ disk[f].synced <= SyncMark(f, s)
         /\ SyncMark(f, s) <= Len(Recs(f)) + Len(s)
  <1> DEFINE p == disk[f].synced
             m == Len(Recs(f))
             n == Len(s)
  <1>1. p \in Nat /\ m \in Nat /\ n \in Nat /\ p <= m
    BY DEF Active
  <1>2. SyncMark(f, s) = p \/ SyncMark(f, s) = m + n
    BY DEF SyncMark
  <1> HIDE DEF p, m, n
  <1>3. m + n \in Nat /\ p <= m + n
    BY <1>1
  <1>4. SyncMark(f, s) \in Nat /\ p <= SyncMark(f, s) /\ SyncMark(f, s) <= m + n
    BY <1>1, <1>2, <1>3
  <1> QED
    BY <1>4 DEF p, m, n

LEMMA UnsyncedMark ==
  ASSUME NEW f, NEW s, Active(f, s), NEW t \in Seq(Entry)
  PROVE  disk[f].synced \in Nat /\ disk[f].synced <= Len(Recs(f)) + Len(t)
  <1> DEFINE p == disk[f].synced
             m == Len(Recs(f))
             n == Len(t)
  <1>1. p \in Nat /\ m \in Nat /\ n \in Nat /\ p <= m
    BY SeqFacts DEF Active
  <1> HIDE DEF p, m, n
  <1>2. p \in Nat /\ p <= m + n
    BY <1>1
  <1> QED
    BY <1>2 DEF p, m, n

\* A writer whose buffer has gone to the file.
LEMMA EmptiedWriter ==
  ASSUME NEW w \in Writer, NEW v, v = [w EXCEPT !.buf = <<>>]
  PROVE  v \in Writer /\ v # NoWriter /\ v.first = w.first /\ v.next = w.next /\ v.buf = <<>>
  <1>1. <<>> \in Seq(Record)
    BY EmptyFacts
  <1>2. v \in Writer /\ v.first = w.first /\ v.next = w.next /\ v.buf = <<>>
    BY <1>1 DEF Writer
  <1>3. v.first \in Nat /\ NoWriter.first \notin Nat
    BY <1>2 DEF Writer, NoWriter
  <1> QED
    BY <1>2, <1>3

LEMMA BufferContinues ==
  ASSUME inc \in Nat, NEW f, NEW s, Active(f, s)
  PROVE  Continues(f, s) /\ Continues(f, <<>>)
  BY EmptyFacts DEF Active, Continues

\* Where a newly promised record is.
LEMMA PromiseFacts ==
  ASSUME NEW d, NEW r \in Promise(d), r \notin promised
  PROVE  /\ r.inc = inc /\ r.cursor < d
         /\ \/ \E g \in Segments : ~disk[g].failed /\ r \in ToSet(Recs(g))
            \/ writer.first \in Segments /\ ~disk[writer.first].failed /\ r \in ToSet(writer.buf)
  <1> DEFINE sound == {f \in DOMAIN disk : ~disk[f].failed}
             files == {ToSet(disk[f].recs) : f \in sound}
             own == IF writer.first \in sound THEN ToSet(writer.buf) ELSE {}
  <1>1. r \in {x \in (UNION files) \cup own : x.inc = inc /\ x.cursor < d}
    BY DEF Promise
  <1>2. r.inc = inc /\ r.cursor < d /\ (r \in UNION files \/ r \in own)
    <2> HIDE DEF files, own
    <2> QED
      BY <1>1
  <1>3. ASSUME r \in UNION files
        PROVE  \E g \in Segments : ~disk[g].failed /\ r \in ToSet(Recs(g))
    <2>1. PICK X \in files : r \in X
      <3> HIDE DEF files
      <3> QED
        BY <1>3
    <2>2. PICK g \in sound : X = ToSet(disk[g].recs)
      BY <2>1
    <2> QED
      BY <2>1, <2>2
  <1>4. ASSUME r \in own
        PROVE  writer.first \in Segments /\ ~disk[writer.first].failed /\ r \in ToSet(writer.buf)
    BY <1>4
  <1> QED
    BY <1>2, <1>3, <1>4

\* What a sync of the active segment promises is then held.
LEMMA PromiseHeld ==
  ASSUME CoreInv, inc' = inc, NEW f, NEW s, Active(f, s),
         Edited(f, s, SyncMark(f, s), disk[f].failed), NEW r \in Promise(writer.next)
  PROVE  r \in Record /\ Held(r)' /\ (r \in promised \/ r.cursor < Upcoming)
  <1> USE DEF CoreInv
  <1>1. /\ DiskType /\ FileInv /\ s \in Seq(Entry) /\ inc \in Nat /\ tail \in Nat
        /\ f = writer.first /\ Running /\ s = writer.buf
    BY DEF Active, WalType
  <1>2. Grown(f, s, SyncMark(f, s), disk[f].failed)
    BY <1>1, EditedRecs
  <1>3. SyncMark(f, s) \in Nat /\ disk[f].synced <= SyncMark(f, s)
    BY MarkFacts
  <1>4. CASE r \in promised
    BY <1>1, <1>3, <1>4, EditedHeld DEF PromisedInv, WalType
  <1>5. ASSUME NEW g \in Segments, g # f, ~disk[g].failed, NEW i \in DOMAIN Recs(g),
               r = Recs(g)[i], r.inc = inc
        PROVE  r \in Record /\ Held(r)' /\ r.cursor < Upcoming
    <2>1. /\ i <= disk[g].synced /\ r.cursor < tail
          /\ \A h \in Segments : h > g => r.cursor < h
      BY <1>1, <1>5 DEF ClosedInv, Closed
    <2>2. disk'[g] = disk[g] /\ Segments' = Segments
      BY <1>2, <1>5 DEF Grown
    <2>3. Recs(g) \in Seq(Entry) /\ disk[g].synced \in Nat
      BY DEF WalType, DiskType, File
    <2>4. r \in Record /\ i \in 1..disk[g].synced
      BY <1>1, <1>5, <2>1, <2>3, SeqFacts, TornIsNoRecord DEF Entry
    <2>5. Held(r)'
      BY <2>1, <2>2, <2>4, <1>5 DEF Held
    <2> QED
      BY <1>1, <2>1, <2>4, <2>5 DEF Upcoming, Record
  <1>6. ASSUME ~disk[f].failed, NEW j \in DOMAIN Recs(f)', r = Recs(f)'[j], r.inc = inc,
               r.cursor < writer.next
        PROVE  r \in Record /\ Held(r)' /\ r.cursor < Upcoming
    <2>1. j \in 1..disk'[f].synced /\ f \in Segments'
      BY <1>2, <1>6 DEF Grown, SyncMark
    <2>2. r \in Record
      <3>1. Recs(f)' \in Seq(Entry)
        BY <1>2 DEF Grown, DiskType, File
      <3> QED
        BY <1>1, <1>6, <3>1, SeqFacts, TornIsNoRecord DEF Entry
    <2>3. \A h \in Segments' : ~(h > f)
      BY <1>2 DEF Grown, Active, Newest, DiskType
    <2>4. Held(r)'
      BY <1>6, <2>1, <2>3 DEF Held
    <2>5. writer.next = Upcoming
      BY <1>1, <1>6 DEF WriterInv, PcInv, Running, Active, NoWriter
    <2> QED
      BY <1>6, <2>2, <2>4, <2>5
  <1>7. CASE r \notin promised
    <2>1. r.inc = inc /\ r.cursor < writer.next
      BY <1>7, PromiseFacts
    <2>2. CASE \E g \in Segments : ~disk[g].failed /\ r \in ToSet(Recs(g))
      <3>1. PICK g \in Segments : ~disk[g].failed /\ r \in ToSet(Recs(g))
        BY <2>2
      <3>2. PICK i \in DOMAIN Recs(g) : r = Recs(g)[i]
        BY <3>1 DEF ToSet
      <3>3. CASE g # f
        BY <1>5, <2>1, <3>1, <3>2, <3>3
      <3>4. CASE g = f
        <4>1. i \in DOMAIN Recs(f)' /\ Recs(f)'[i] = r
          BY <1>2, <3>2, <3>4 DEF Grown
        <4> QED
          BY <1>6, <2>1, <3>1, <3>4, <4>1
      <3> QED
        BY <3>3, <3>4
    <2>3. CASE ~disk[f].failed /\ r \in ToSet(s)
      <3>1. PICK i \in DOMAIN s : r = s[i]
        BY <2>3 DEF ToSet
      <3>2. Len(Recs(f)) + i \in DOMAIN Recs(f)' /\ Recs(f)'[Len(Recs(f)) + i] = r
        BY <1>2, <3>1 DEF Grown
      <3> QED
        BY <1>6, <2>1, <2>3, <3>2
    <2>4. \/ \E g \in Segments : ~disk[g].failed /\ r \in ToSet(Recs(g))
          \/ ~disk[writer.first].failed /\ r \in ToSet(writer.buf)
      BY <1>7, PromiseFacts
    <2> QED
      BY <1>1, <2>2, <2>3, <2>4
  <1> QED
    BY <1>4, <1>7

\* The segments that are not being written, when only the active one changes.
LEMMA OthersClosed ==
  ASSUME CoreInv, inc' = inc, tail' = tail, NEW f, NEW s, Active(f, s), NEW t, NEW n, NEW b,
         Grown(f, t, n, b)
  PROVE  \A g \in Segments : g # f /\ ~disk'[g].failed => Closed(g)'
  <1> SUFFICES ASSUME NEW g \in Segments, g # f, ~disk'[g].failed PROVE Closed(g)'
    OBVIOUS
  <1>1. disk'[g] = disk[g] /\ Segments' = Segments
    BY DEF Grown
  <1>2. Closed(g)
    BY <1>1 DEF CoreInv, ClosedInv, Active
  <1> QED
    BY <1>1, <1>2 DEF Closed

LEMMA GrownLength ==
  ASSUME NEW f, NEW s, Active(f, s), NEW t, NEW n, NEW b, Grown(f, t, n, b)
  PROVE  /\ Len(Recs(f)') = Len(Recs(f)) + Len(t)
         /\ Len(Recs(f)') \in Nat /\ f \in Nat /\ Len(Recs(f)) <= Len(Recs(f)')
         /\ t = s => writer.next = f + Len(Recs(f)')
  <1> DEFINE k == Len(Recs(f))
             m == Len(t)
             z == Len(Recs(f)')
  <1>1. f \in Nat /\ k \in Nat /\ m \in Nat /\ z = k + m /\ (t = s => writer.next = f + k + m)
    BY DEF Active, Grown
  <1> HIDE DEF k, m, z
  <1>2. z \in Nat /\ k <= z /\ (t = s => writer.next = f + z)
    BY <1>1
  <1> QED
    BY <1>1, <1>2 DEF k, m, z

LEMMA RotateStep ==
  ASSUME CoreInv, Rotate
  PROVE  CoreInv'
  <1> USE DEF CoreInv
  <1>1. /\ wpc = "rotate" /\ wpc' = "create" /\ writer' = NoWriter /\ writer # NoWriter
        /\ index' = index /\ durable' = durable /\ policy' = policy /\ tail' = tail
        /\ fpc' = fpc /\ fsave' = fsave /\ inc' = inc /\ promised' = promised
        /\ broken' = broken /\ call' \in [size : Nat, rotated : BOOLEAN] /\ tail < MaxCursor
    BY DEF Rotate, CloseSegment, PcInv, marks, flusher, WalType
  <1>2. DiskType /\ inc \in Nat /\ tail \in Nat
    BY DEF WalType
  <1>3. PICK f, s : Active(f, s)
    BY <1>1, ActiveFacts
  <1>4. f = writer.first /\ s = writer.buf /\ s \in Seq(Entry) /\ f \in Segments
        /\ writer \in Writer
    BY <1>1, <1>3, ActiveFacts DEF Active
  <1> DEFINE n == SyncMark(f, s)
             b == disk[f].failed
  <1>5. Edited(f, s, n, b)
    <2>1. Edit(disk, Flushed(disk, writer), f, s, disk[f].synced, b)
      BY <1>2, <1>4, FlushedEdit
    <2> QED
      BY <1>2, <1>4, <2>1, SyncedEdit DEF Rotate, CloseSegment, Edited
  <1>6. n \in Nat /\ disk[f].synced <= n /\ n <= Len(Recs(f)) + Len(s)
    BY <1>3, MarkFacts
  <1>7. Continues(f, s) /\ \A i \in DOMAIN s : s[i] # Torn
    BY <1>2, <1>3, BufferContinues DEF Active
  <1> HIDE DEF n, b
  <1>8. /\ Grown(f, s, n, b) /\ DiskType' /\ FileInv' /\ \A r : Held(r) => Held(r)'
        /\ \A g \in Segments : Newest(g)' <=> Newest(g)
        /\ \A g \in Segments : Whole(g)'
        /\ (\A g \in Segments : Newest(g) \/ Joined(g, Segments))
             => (\A g \in Segments : Newest(g) \/ Joined(g, Segments))'
    BY <1>1, <1>3, <1>4, <1>5, <1>6, <1>7, ActiveEdited
  <1>9. Segments' = Segments /\ Running /\ Running' /\ Upcoming = tail /\ Upcoming' = tail
    BY <1>1, <1>8 DEF Grown, Running, Stopped, Upcoming
  <1>10. /\ Len(Recs(f)') = Len(Recs(f)) + Len(s) /\ writer.next = f + Len(Recs(f)')
         /\ Len(Recs(f)') \in Nat /\ f \in Nat
    BY <1>3, <1>8, GrownLength
  <1>11. WalType'
    BY <1>1, <1>2, <1>8 DEF WalType
  <1>12. PcInv' /\ LiveInv' /\ WriterInv'
    <2>1. PcInv'
      BY <1>1 DEF PcInv, Stopped
    <2>2. LiveInv'
      BY <1>1, <1>8, <1>9 DEF LiveInv
    <2> QED
      BY <1>1, <2>1, <2>2 DEF WriterInv
  <1>13. ClosedInv'
    <2>1. ASSUME ~b PROVE Closed(f)'
      <3>1. n = Len(Recs(f)') /\ writer.next = tail
        BY <1>1, <1>4, <1>9, <1>10, <2>1 DEF n, b, SyncMark, WriterInv
      <3>2. ASSUME NEW i \in DOMAIN Recs(f)', Recs(f)'[i].inc = inc
            PROVE  i <= disk'[f].synced /\ Recs(f)'[i].cursor < tail
        <4>1. Recs(f)'[i].cursor = f + i - 1 /\ i \in 1..Len(Recs(f)')
          BY <1>8, <1>9, <1>4 DEF FileInv, FileOK, Grown, Whole
        <4>2. Len(Recs(f)') \in Nat /\ f \in Nat
          BY <1>10
        <4>3. f + i - 1 < f + Len(Recs(f)')
          BY <4>1, <4>2
        <4> QED
          BY <1>8, <1>10, <3>1, <4>1, <4>3 DEF Grown
      <3>3. \A g \in Segments : ~(g > f)
        BY <1>2, <1>3 DEF Active, Newest, DiskType
      <3> QED
        BY <1>1, <1>9, <3>2, <3>3 DEF Closed
    <2>2. \A g \in Segments : g # f /\ ~disk'[g].failed => Closed(g)'
      BY <1>1, <1>3, <1>8, OthersClosed
    <2>3. disk'[f].failed = b
      BY <1>8 DEF Grown
    <2> QED
      BY <1>9, <2>1, <2>2, <2>3 DEF ClosedInv
  <1>14. FlushInv'
    BY <1>1 DEF FlushInv
  <1>15. PromisedInv'
    BY <1>1, <1>8, <1>9 DEF PromisedInv
  <1>16. ChainInv'
    <2> SUFFICES ASSUME ~broken PROVE ChainInv'
      BY <1>1 DEF ChainInv
    <2>1. writer.next = tail
      BY <1>1, <1>9 DEF WriterInv
    <2>2. ASSUME NEW g \in Segments, Newest(g) PROVE g + Len(Recs(g)') = tail
      <3>1. g = f
        BY <1>2, <1>3, <2>2 DEF Newest, Active, DiskType
      <3> QED
        BY <1>10, <2>1, <3>1
    <2> QED
      BY <1>1, <1>8, <1>9, <2>2 DEF ChainInv
  <1>z. TakenInv'
    BY <1>1, <1>9 DEF TakenInv
  <1> QED
    BY <1>z, <1>8, <1>11, <1>12, <1>13, <1>14, <1>15, <1>16

LEMMA SyncEachStep ==
  ASSUME CoreInv, SyncEach
  PROVE  CoreInv'
  <1> USE DEF CoreInv
  <1>1. /\ wpc = "sync" /\ wpc' = "retain" /\ writer' = [writer EXCEPT !.buf = <<>>]
        /\ writer # NoWriter /\ policy = "Each" /\ tail < MaxCursor
        /\ index' = index /\ durable' = writer.next /\ policy' = policy /\ tail' = tail
        /\ fpc' = fpc /\ fsave' = fsave /\ inc' = inc /\ promised' = Promise(writer.next)
        /\ broken' = broken /\ call' = call
    BY DEF SyncEach, Fsync, PcInv, flusher
  <1>2. DiskType /\ inc \in Nat /\ tail \in Nat
    BY DEF WalType
  <1>3. PICK f, s : Active(f, s)
    BY <1>1, ActiveFacts
  <1>4. f = writer.first /\ s = writer.buf /\ s \in Seq(Entry) /\ f \in Segments
        /\ writer \in Writer
    BY <1>1, <1>3, ActiveFacts DEF Active
  <1> DEFINE n == SyncMark(f, s)
             b == disk[f].failed
  <1>5. Edited(f, s, n, b)
    <2>1. Edit(disk, Flushed(disk, writer), f, s, disk[f].synced, b)
      BY <1>2, <1>4, FlushedEdit
    <2> QED
      BY <1>2, <1>4, <2>1, SyncedEdit DEF SyncEach, Fsync, Edited
  <1>6. n \in Nat /\ disk[f].synced <= n /\ n <= Len(Recs(f)) + Len(s)
    BY <1>3, MarkFacts
  <1>7. Continues(f, s) /\ \A i \in DOMAIN s : s[i] # Torn
    BY <1>2, <1>3, BufferContinues DEF Active
  <1>r. ASSUME NEW r \in promised' PROVE r \in Record /\ Held(r)' /\ r.cursor < tail + 1
    <2>1. r \in Record /\ Held(r)' /\ (r \in promised \/ r.cursor < Upcoming)
      BY <1>1, <1>3, <1>5, <1>r, PromiseHeld
    <2>2. r \in promised => r.cursor < tail
      BY <1>1 DEF PromisedInv, Running, Stopped
    <2> QED
      BY <1>1, <1>2, <2>1, <2>2 DEF Upcoming, Record
  <1> HIDE DEF n, b
  <1>8. /\ Grown(f, s, n, b) /\ DiskType' /\ FileInv' /\ \A r : Held(r) => Held(r)'
        /\ \A g \in Segments : Newest(g)' <=> Newest(g)
        /\ \A g \in Segments : Whole(g)'
        /\ (\A g \in Segments : Newest(g) \/ Joined(g, Segments))
             => (\A g \in Segments : Newest(g) \/ Joined(g, Segments))'
    BY <1>1, <1>3, <1>4, <1>5, <1>6, <1>7, ActiveEdited
  <1>9. /\ Segments' = Segments /\ Running /\ Running' /\ Upcoming = tail + 1
        /\ Upcoming' = tail + 1
    BY <1>1, <1>8 DEF Grown, Running, Stopped, Upcoming
  <1>10. /\ Len(Recs(f)') = Len(Recs(f)) + Len(s) /\ writer.next = f + Len(Recs(f)')
         /\ Len(Recs(f)') \in Nat /\ f \in Nat
    BY <1>3, <1>8, GrownLength
  <1>w. /\ writer' \in Writer /\ writer' # NoWriter /\ writer'.first = f /\ writer'.buf = <<>>
        /\ writer'.next = writer.next
    BY <1>1, <1>4, EmptiedWriter
  <1>11. WalType'
    <2>1. promised' \subseteq Record
      BY <1>r
    <2>2. writer.next \in Nat
      BY <1>4 DEF Writer
    <2> QED
      BY <1>1, <1>w, <1>8, <2>1, <2>2 DEF WalType
  <1>12. PcInv' /\ LiveInv'
    <2>1. PcInv'
      BY <1>1, <1>w DEF PcInv, Stopped
    <2>2. LiveInv'
      BY <1>1, <1>8, <1>9 DEF LiveInv
    <2> QED
      BY <2>1, <2>2
  <1>13. WriterInv'
    <2>1. writer'.next = f + Len(Recs(f)') + Len(writer'.buf) /\ DOMAIN writer'.buf = {}
      BY <1>w, <1>10, EmptyFacts
    <2>2. ~broken \/ ~b => writer.next = Upcoming
      BY <1>1, <1>4 DEF WriterInv, b
    <2>3. disk'[f].failed = b
      BY <1>8 DEF Grown
    <2>4. \A g \in Segments : g <= f
      BY <1>3 DEF Active, Newest
    <2> QED
      BY <1>1, <1>w, <1>4, <1>9, <2>1, <2>2, <2>3, <2>4 DEF WriterInv
  <1>14. ClosedInv'
    <2>1. \A g \in Segments : g # f /\ ~disk'[g].failed => Closed(g)'
      BY <1>1, <1>3, <1>8, OthersClosed
    <2> QED
      BY <1>9, <1>w, <2>1 DEF ClosedInv
  <1>15. FlushInv'
    BY <1>1 DEF FlushInv, PcInv
  <1>16. PromisedInv'
    BY <1>1, <1>r DEF PromisedInv
  <1>17. ChainInv'
    <2> SUFFICES ASSUME ~broken PROVE ChainInv'
      BY <1>1 DEF ChainInv
    <2>1. writer.next = tail + 1
      BY <1>1, <1>9 DEF WriterInv
    <2>2. ASSUME NEW g \in Segments, Newest(g) PROVE durable' <= g + Len(Recs(g)')
      <3>1. g = f
        BY <1>2, <1>3, <2>2 DEF Newest, Active, DiskType
      <3>2. durable' = f + Len(Recs(f)')
        BY <1>1, <1>10
      <3> QED
        BY <1>10, <3>1, <3>2
    <2>3. durable' <= Upcoming'
      BY <1>1, <1>2, <1>9, <2>1
    <2> QED
      BY <1>1, <1>w, <1>8, <1>9, <2>2, <2>3 DEF ChainInv
  <1>z. TakenInv'
    BY <1>1, <1>9 DEF TakenInv
  <1> QED
    BY <1>z, <1>8, <1>11, <1>12, <1>13, <1>14, <1>15, <1>16, <1>17

\* A sync that fails: the log is broken, and its segment is never promised.
LEMMA SyncEachFailsStep ==
  ASSUME CoreInv, SyncEachFails
  PROVE  CoreInv'
  <1> USE DEF CoreInv
  <1>1. /\ wpc = "sync" /\ wpc' = "idle" /\ writer' = [writer EXCEPT !.buf = <<>>]
        /\ writer # NoWriter /\ policy = "Each"
        /\ index' = index /\ durable' = durable /\ policy' = policy /\ tail' = tail
        /\ fpc' = fpc /\ fsave' = fsave /\ inc' = inc /\ promised' = promised
        /\ broken' = TRUE /\ call' = call
    BY DEF SyncEachFails, PcInv, flusher, marks
  <1>2. DiskType /\ inc \in Nat /\ tail \in Nat
    BY DEF WalType
  <1>3. PICK f, s : Active(f, s)
    BY <1>1, ActiveFacts
  <1>4. f = writer.first /\ s = writer.buf /\ s \in Seq(Entry) /\ f \in Segments
        /\ writer \in Writer
    BY <1>1, <1>3, ActiveFacts DEF Active
  <1> DEFINE n == disk[f].synced
  <1>5. Edited(f, s, n, TRUE)
    <2>1. Edit(disk, Flushed(disk, writer), f, s, n, disk[f].failed)
      BY <1>2, <1>4, FlushedEdit
    <2> QED
      BY <1>2, <1>4, <2>1, FailedEdit DEF SyncEachFails, Edited
  <1>6. n \in Nat /\ disk[f].synced <= n /\ n <= Len(Recs(f)) + Len(s)
    <2>1. disk[f].synced \in Nat /\ disk[f].synced <= Len(Recs(f)) + Len(s)
      BY <1>3, <1>4, UnsyncedMark
    <2> QED
      BY <2>1
  <1>7. Continues(f, s) /\ \A i \in DOMAIN s : s[i] # Torn
    BY <1>2, <1>3, BufferContinues DEF Active
  <1> HIDE DEF n
  <1>8. /\ Grown(f, s, n, TRUE) /\ DiskType' /\ FileInv' /\ \A r : Held(r) => Held(r)'
        /\ \A g \in Segments : Whole(g)'
    BY <1>1, <1>3, <1>4, <1>5, <1>6, <1>7, ActiveEdited
  <1>9. /\ Segments' = Segments /\ Running /\ Running'
    BY <1>1, <1>8 DEF Grown, Running, Stopped
  <1>10. writer.next = f + Len(Recs(f)') /\ Len(Recs(f)') \in Nat /\ f \in Nat
    BY <1>3, <1>8, GrownLength
  <1>w. /\ writer' \in Writer /\ writer' # NoWriter /\ writer'.first = f /\ writer'.buf = <<>>
        /\ writer'.next = writer.next
    BY <1>1, <1>4, EmptiedWriter
  <1>11. WalType'
    BY <1>1, <1>w, <1>8 DEF WalType
  <1>12. PcInv'
    BY <1>1, <1>w DEF PcInv, Stopped
  <1>13. LiveInv'
    BY <1>1, <1>8, <1>9 DEF LiveInv
  <1>14. WriterInv'
    <2>1. writer'.next = f + Len(Recs(f)') + Len(writer'.buf) /\ DOMAIN writer'.buf = {}
      BY <1>w, <1>10, EmptyFacts
    <2>2. disk'[f].failed = TRUE
      BY <1>8 DEF Grown
    <2>3. \A g \in Segments : g <= f
      BY <1>3 DEF Active, Newest
    <2> QED
      BY <1>1, <1>w, <1>4, <1>9, <2>1, <2>2, <2>3 DEF WriterInv
  <1>15. ClosedInv'
    <2>1. \A g \in Segments : g # f /\ ~disk'[g].failed => Closed(g)'
      BY <1>1, <1>3, <1>8, OthersClosed
    <2> QED
      BY <1>9, <1>w, <2>1 DEF ClosedInv
  <1>16. FlushInv'
    BY <1>1 DEF FlushInv, PcInv
  <1>17. PromisedInv'
    BY <1>1, <1>8, <1>9 DEF PromisedInv
  <1>z. TakenInv'
    BY <1>1, <1>9 DEF TakenInv
  <1> QED
    BY <1>z, <1>1, <1>8, <1>11, <1>12, <1>13, <1>14, <1>15, <1>16, <1>17 DEF ChainInv

LEMMA CloseFailsStep ==
  ASSUME CoreInv, CloseFails
  PROVE  CoreInv'
  <1> USE DEF CoreInv
  <1>1. /\ wpc = "rotate" /\ wpc' = "idle" /\ writer' = NoWriter /\ writer # NoWriter
        /\ index' = index /\ durable' = durable /\ policy' = policy /\ tail' = tail
        /\ fpc' = fpc /\ fsave' = fsave /\ inc' = inc /\ promised' = promised
        /\ broken' = TRUE /\ call' = call
    BY DEF CloseFails, PcInv, flusher, marks
  <1>2. DiskType /\ inc \in Nat /\ tail \in Nat
    BY DEF WalType
  <1>3. PICK f, s : Active(f, s)
    BY <1>1, ActiveFacts
  <1>4. f = writer.first /\ s = writer.buf /\ s \in Seq(Entry) /\ f \in Segments
        /\ writer \in Writer
    BY <1>1, <1>3, ActiveFacts DEF Active
  <1> DEFINE n == disk[f].synced
  <1>5. \E t \in Seq(Entry) : Edited(f, t, n, TRUE) /\ t \in {<<>>, s}
    <2>1. Edit(disk, Flushed(disk, writer), f, s, n, disk[f].failed)
      BY <1>2, <1>4, FlushedEdit
    <2>2. Edit(disk, disk, f, <<>>, n, disk[f].failed) /\ <<>> \in Seq(Entry)
      BY <1>2, <1>4, SameEdit, EmptyFacts
    <2>3. PICK d \in {disk, Flushed(disk, writer)} : disk' = [d EXCEPT ![f].failed = TRUE]
      BY <1>4 DEF CloseFails
    <2>4. CASE d = disk
      BY <1>2, <1>4, <2>2, <2>3, <2>4, FailedEdit DEF Edited
    <2>5. CASE d = Flushed(disk, writer)
      BY <1>2, <1>4, <2>1, <2>3, <2>5, FailedEdit DEF Edited
    <2> QED
      BY <2>4, <2>5
  <1>t. PICK t \in Seq(Entry) : Edited(f, t, n, TRUE) /\ t \in {<<>>, s}
    BY <1>5
  <1>6. n \in Nat /\ disk[f].synced <= n /\ n <= Len(Recs(f)) + Len(t)
    BY <1>3, <1>t, UnsyncedMark
  <1>7. Continues(f, t) /\ \A i \in DOMAIN t : t[i] # Torn
    BY <1>2, <1>3, <1>t, BufferContinues, EmptyFacts DEF Active
  <1> HIDE DEF n
  <1>8. /\ Grown(f, t, n, TRUE) /\ DiskType' /\ FileInv' /\ \A r : Held(r) => Held(r)'
        /\ \A g \in Segments : Whole(g)'
    BY <1>1, <1>3, <1>t, <1>6, <1>7, ActiveEdited
  <1>9. Segments' = Segments /\ Running /\ Running'
    BY <1>1, <1>8 DEF Grown, Running, Stopped
  <1>10. WalType'
    BY <1>1, <1>8 DEF WalType
  <1>11. PcInv'
    BY <1>1 DEF PcInv, Stopped
  <1>12. LiveInv'
    BY <1>1, <1>8, <1>9 DEF LiveInv
  <1>13. ClosedInv'
    <2>1. \A g \in Segments : g # f /\ ~disk'[g].failed => Closed(g)'
      BY <1>1, <1>3, <1>8, OthersClosed
    <2>2. disk'[f].failed = TRUE
      BY <1>8 DEF Grown
    <2> QED
      BY <1>9, <2>1, <2>2 DEF ClosedInv
  <1>14. PromisedInv'
    BY <1>1, <1>8, <1>9 DEF PromisedInv
  <1>z. TakenInv'
    BY <1>1, <1>9 DEF TakenInv
  <1> QED
    BY <1>z, <1>1, <1>8, <1>10, <1>11, <1>12, <1>13, <1>14 DEF ChainInv, WriterInv, FlushInv

\* flush_for_external_fsync: what the flusher takes is in the file.
LEMMA FlushStep ==
  ASSUME CoreInv, FlushForExternalFsync
  PROVE  CoreInv'
  <1> USE DEF CoreInv
  <1>1. /\ wpc = "idle" /\ wpc' = wpc /\ writer' = [writer EXCEPT !.buf = <<>>]
        /\ writer # NoWriter /\ policy = "Batched" /\ fpc = "idle"
        /\ index' = index /\ durable' = durable /\ policy' = policy /\ tail' = tail
        /\ fpc' = "sync" /\ fsave' = [file |-> writer.first, pending |-> writer.next]
        /\ inc' = inc /\ promised' = promised /\ broken' = broken /\ call' = call
    BY DEF FlushForExternalFsync, marks
  <1>2. DiskType /\ inc \in Nat /\ tail \in Nat
    BY DEF WalType
  <1>3. PICK f, s : Active(f, s)
    BY <1>1, ActiveFacts
  <1>4. f = writer.first /\ s = writer.buf /\ s \in Seq(Entry) /\ f \in Segments
        /\ writer \in Writer
    BY <1>1, <1>3, ActiveFacts DEF Active
  <1> DEFINE n == disk[f].synced
             b == disk[f].failed
  <1>5. Edited(f, s, n, b)
    BY <1>2, <1>4, FlushedEdit DEF FlushForExternalFsync, Edited
  <1>6. n \in Nat /\ disk[f].synced <= n /\ n <= Len(Recs(f)) + Len(s)
    <2>1. disk[f].synced \in Nat /\ disk[f].synced <= Len(Recs(f)) + Len(s)
      BY <1>3, <1>4, UnsyncedMark
    <2> QED
      BY <2>1
  <1>7. Continues(f, s) /\ \A i \in DOMAIN s : s[i] # Torn
    BY <1>2, <1>3, BufferContinues DEF Active
  <1>u. ~b /\ writer.next = tail
    BY <1>1, <1>4 DEF WriterInv, Upcoming
  <1> HIDE DEF n, b
  <1>8. /\ Grown(f, s, n, b) /\ DiskType' /\ FileInv' /\ \A r : Held(r) => Held(r)'
        /\ \A g \in Segments : Newest(g)' <=> Newest(g)
        /\ \A g \in Segments : Whole(g)'
        /\ (\A g \in Segments : Newest(g) \/ Joined(g, Segments))
             => (\A g \in Segments : Newest(g) \/ Joined(g, Segments))'
    BY <1>1, <1>3, <1>4, <1>5, <1>6, <1>7, ActiveEdited
  <1>9. Segments' = Segments /\ Running /\ Running' /\ Upcoming = tail /\ Upcoming' = tail
    BY <1>1, <1>8 DEF Grown, Running, Stopped, Upcoming
  <1>10. /\ writer.next = f + Len(Recs(f)') /\ Len(Recs(f)') \in Nat /\ f \in Nat
         /\ Len(Recs(f)) <= Len(Recs(f)') /\ Len(Recs(f)) \in Nat
    <2>1. Len(Recs(f)) \in Nat
      BY <1>3 DEF Active
    <2> QED
      BY <1>3, <1>8, <2>1, GrownLength
  <1>w. /\ writer' \in Writer /\ writer' # NoWriter /\ writer'.first = f /\ writer'.buf = <<>>
        /\ writer'.next = writer.next
    BY <1>1, <1>4, EmptiedWriter
  <1>s. fsave' \in Save /\ fsave'.file = f /\ fsave'.pending = writer.next
    BY <1>1, <1>4 DEF Writer, Save
  <1>11. WalType'
    BY <1>1, <1>s, <1>w, <1>8 DEF WalType
  <1>12. PcInv'
    BY <1>1, <1>s, <1>w DEF PcInv, Stopped
  <1>13. LiveInv'
    BY <1>1, <1>8, <1>9 DEF LiveInv
  <1>14. WriterInv'
    <2>1. writer'.next = f + Len(Recs(f)') + Len(writer'.buf) /\ DOMAIN writer'.buf = {}
      BY <1>w, <1>10, EmptyFacts
    <2>2. ~disk'[f].failed
      BY <1>u, <1>8 DEF Grown
    <2>3. \A g \in Segments : g <= f
      BY <1>3 DEF Active, Newest
    <2> QED
      BY <1>1, <1>u, <1>w, <1>4, <1>9, <2>1, <2>2, <2>3 DEF WriterInv
  <1>15. ClosedInv'
    <2>1. \A g \in Segments : g # f /\ ~disk'[g].failed => Closed(g)'
      BY <1>1, <1>3, <1>8, OthersClosed
    <2> QED
      BY <1>9, <1>w, <2>1 DEF ClosedInv
  <1>16. FlushInv'
    BY <1>1, <1>2, <1>s, <1>u, <1>w, <1>10 DEF FlushInv
  <1>17. PromisedInv'
    BY <1>1, <1>8, <1>9 DEF PromisedInv
  <1>18. ChainInv'
    <2> SUFFICES ASSUME ~broken PROVE ChainInv'
      BY <1>1 DEF ChainInv
    <2>1. ASSUME NEW g \in Segments, Newest(g) PROVE durable <= g + Len(Recs(g)')
      <3>1. g = f
        BY <1>2, <1>3, <2>1 DEF Newest, Active, DiskType
      <3>2. durable <= f + Len(Recs(f)) /\ durable \in Nat
        BY <1>9, <2>1, <3>1 DEF ChainInv, WalType
      <3>3. f + Len(Recs(f)) <= f + Len(Recs(f)')
        BY <1>10
      <3>4. durable <= f + Len(Recs(f)')
        BY <1>10, <3>2, <3>3
      <3> QED
        BY <3>1, <3>4
    <2> QED
      BY <1>1, <1>w, <1>8, <1>9, <2>1 DEF ChainInv
  <1>z. TakenInv'
    BY <1>1, <1>4, <1>9, <1>s DEF TakenInv, LiveInv
  <1> QED
    BY <1>z, <1>8, <1>11, <1>12, <1>13, <1>14, <1>15, <1>16, <1>17, <1>18

\* The record joins the buffer; some of the buffer may go to the file.
LEMMA WriteRecordStep ==
  ASSUME CoreInv, WriteRecord
  PROVE  CoreInv'
  <1> USE DEF CoreInv
  <1>1. /\ wpc = "append" /\ tail = writer.next
        /\ wpc' = IF policy = "Each" THEN "sync" ELSE "retain"
        /\ writer # NoWriter /\ tail < MaxCursor
        /\ index' = index /\ durable' = durable /\ policy' = policy /\ tail' = tail
        /\ fpc' = fpc /\ fsave' = fsave /\ inc' = inc /\ promised' = promised
        /\ broken' = broken /\ call' = call
    BY DEF WriteRecord, PcInv, flusher
  <1>2. DiskType /\ inc \in Nat /\ tail \in Nat /\ MaxCursor \in Nat /\ call.size \in Nat
    BY ConstantsOK DEF WalType
  <1>3. PICK f, s : Active(f, s)
    BY <1>1, ActiveFacts
  <1>4. /\ f = writer.first /\ s = writer.buf /\ s \in Seq(Entry) /\ f \in Segments
        /\ writer \in Writer /\ f \in Nat /\ s \in Seq(Record) /\ Len(Recs(f)) \in Nat
        /\ Len(s) \in Nat /\ writer.next = f + Len(Recs(f)) + Len(s)
    BY <1>1, <1>3, ActiveFacts DEF Active
  <1> DEFINE rec == [cursor |-> tail, inc |-> inc, size |-> call.size]
             all == Append(s, rec)
             n == disk[f].synced
             b == disk[f].failed
  <1>5. rec \in Record /\ rec.cursor = tail /\ rec.inc = inc
    BY <1>1, <1>2 DEF Record
  <1>6. PICK out \in {0, Len(s), Len(all)} :
          /\ disk' = [disk EXCEPT ![f].recs = @ \o SubSeq(all, 1, out)]
          /\ writer' = [writer EXCEPT !.next = tail + 1, !.buf = SubSeq(all, out + 1, Len(all))]
    BY <1>4 DEF WriteRecord
  <1> HIDE DEF rec
  <1>7. /\ all \in Seq(Record) /\ Len(all) = Len(s) + 1
        /\ \A i \in 1..Len(s) : all[i] = s[i] /\ all[Len(s) + 1] = rec
    BY <1>4, <1>5, AppendProperties
  <1> HIDE DEF all
  <1>8. /\ out \in 0..Len(all) /\ all[Len(s) + 1] = rec
    BY <1>4, <1>5, <1>7, AppendProperties DEF all
  <1>9. ASSUME NEW i \in 1..Len(all)
        PROVE  /\ all[i] \in Record /\ all[i] # Torn
               /\ all[i].cursor = f + Len(Recs(f)) + i - 1 /\ all[i].inc = inc
    <2>1. CASE i \in 1..Len(s)
      BY <1>3, <1>7, <2>1 DEF Active
    <2>2. CASE i = Len(s) + 1
      <3>1. tail = f + Len(Recs(f)) + i - 1
        BY <1>1, <1>4, <2>2
      <3> QED
        BY <1>5, <1>8, <2>2, <3>1, TornIsNoRecord
    <2> QED
      BY <1>4, <1>7, <2>1, <2>2
  <1> DEFINE t == SubSeq(all, 1, out)
             u == SubSeq(all, out + 1, Len(all))
  <1>10. /\ t \in Seq(Record) /\ Len(t) = out /\ \A i \in 1..out : t[i] = all[i]
    BY <1>7, <1>8, PrefixFacts
  <1>11. /\ u \in Seq(Record) /\ Len(u) = Len(all) - out
         /\ \A i \in 1..(Len(all) - out) : u[i] = all[out + i]
    BY <1>7, <1>8, SuffixFacts
  <1> HIDE DEF t, u
  <1>12. /\ disk' = [disk EXCEPT ![f].recs = @ \o t]
         /\ writer' = [writer EXCEPT !.next = tail + 1, !.buf = u]
    BY <1>6 DEF t, u
  <1>13. /\ t \in Seq(Entry) /\ DOMAIN t = 1..out /\ DOMAIN u = 1..(Len(all) - out)
    BY <1>10, <1>11, EntryFacts, SeqFacts
  <1>14. Edited(f, t, n, b)
    BY <1>2, <1>4, <1>12, <1>13, AppendEdit DEF Edited
  <1>15. n \in Nat /\ disk[f].synced <= n /\ n <= Len(Recs(f)) + Len(t)
    <2>1. disk[f].synced \in Nat /\ disk[f].synced <= Len(Recs(f)) + Len(t)
      BY <1>3, <1>13, UnsyncedMark
    <2> QED
      BY <2>1
  <1>16. Continues(f, t) /\ \A i \in DOMAIN t : t[i] # Torn
    <2>1. ASSUME NEW i \in DOMAIN t
          PROVE  t[i] # Torn /\ t[i].cursor = f + Len(Recs(f)) + i - 1 /\ t[i].inc = inc
      <3>1. i \in 1..out /\ i \in 1..Len(all)
        BY <1>4, <1>7, <1>8, <1>13
      <3> QED
        BY <1>9, <1>10, <3>1
    <2> QED
      BY <1>2, <2>1 DEF Continues
  <1>f. /\ ~broken \/ ~b => writer.next = Upcoming
        /\ policy = "Batched" /\ fpc # "stopped" => ~b
    BY <1>1, <1>4 DEF WriterInv
  <1> HIDE DEF n, b
  <1>17. /\ Grown(f, t, n, b) /\ DiskType' /\ FileInv' /\ \A r : Held(r) => Held(r)'
         /\ \A g \in Segments : Newest(g)' <=> Newest(g)
         /\ \A g \in Segments : Whole(g)'
         /\ (\A g \in Segments : Newest(g) \/ Joined(g, Segments))
              => (\A g \in Segments : Newest(g) \/ Joined(g, Segments))'
    BY <1>1, <1>3, <1>13, <1>14, <1>15, <1>16, ActiveEdited
  <1>18. /\ Segments' = Segments /\ Running /\ Running' /\ Upcoming = tail
         /\ Upcoming' = tail + 1
    BY <1>1, <1>17 DEF Grown, Running, Stopped, Upcoming
  <1>19. /\ Len(Recs(f)') = Len(Recs(f)) + out /\ Len(Recs(f)') \in Nat
         /\ Len(Recs(f)) <= Len(Recs(f)')
    BY <1>3, <1>10, <1>17, GrownLength
  <1>w. /\ writer' \in Writer /\ writer' # NoWriter /\ writer'.first = f /\ writer'.buf = u
        /\ writer'.next = tail + 1
    <2>1. writer' \in Writer /\ writer'.first = f /\ writer'.buf = u /\ writer'.next = tail + 1
      <3>1. tail + 1 \in Nat
        BY <1>2
      <3>2. PICK k \in Nat : k = tail + 1
        BY <3>1
      <3>3. writer' = [writer EXCEPT !.next = k, !.buf = u]
        BY <1>12, <3>2
      <3>4. writer' \in Writer /\ writer'.first = writer.first /\ writer'.next = k
            /\ writer'.buf = u
        <4>1. u \in Seq(Record)
          BY <1>11
        <4> QED
          BY <1>4, <3>3, <4>1 DEF Writer
      <3> QED
        BY <1>4, <3>2, <3>4
    <2> QED
      BY <1>4, <2>1 DEF NoWriter
  <1>20. WalType'
    BY <1>1, <1>w, <1>17 DEF WalType
  <1>21. PcInv'
    BY <1>1, <1>w DEF PcInv, Stopped
  <1>22. LiveInv'
    BY <1>1, <1>17, <1>18 DEF LiveInv
  <1>23. WriterInv'
    <2>1. tail + 1 = f + Len(Recs(f)') + Len(u)
      <3> DEFINE k == Len(Recs(f))
                 m == Len(s)
                 v == Len(u)
                 z == Len(Recs(f)')
      <3>1. /\ f \in Nat /\ k \in Nat /\ m \in Nat /\ out \in 0..(m + 1)
            /\ tail = f + k + m /\ v = (m + 1) - out /\ z = k + out
        BY <1>1, <1>4, <1>7, <1>8, <1>11, <1>19
      <3> HIDE DEF k, m, v, z
      <3>2. tail + 1 = f + z + v
        BY <3>1
      <3> QED
        BY <3>2 DEF v, z
    <2>2. ASSUME NEW i \in DOMAIN u
          PROVE  u[i].cursor = f + Len(Recs(f)') + i - 1 /\ u[i].inc = inc
      <3>1. i \in 1..(Len(all) - out) /\ out + i \in 1..Len(all)
        BY <1>4, <1>7, <1>8, <1>13
      <3>2. u[i].cursor = f + Len(Recs(f)) + (out + i) - 1 /\ u[i].inc = inc
        BY <1>9, <1>11, <3>1
      <3>3. f + Len(Recs(f)) + (out + i) - 1 = f + Len(Recs(f)') + i - 1
        BY <1>4, <1>7, <1>8, <1>19, <3>1
      <3> QED
        BY <3>2, <3>3
    <2>3. disk'[f].failed = b
      BY <1>17 DEF Grown
    <2>4. \A g \in Segments : g <= f
      BY <1>3 DEF Active, Newest
    <2> QED
      BY <1>1, <1>f, <1>w, <1>4, <1>18, <2>1, <2>2, <2>3, <2>4 DEF WriterInv
  <1>24. ClosedInv'
    <2>1. \A g \in Segments : g # f /\ ~disk'[g].failed => Closed(g)'
      BY <1>1, <1>3, <1>17, OthersClosed
    <2> QED
      BY <1>18, <1>w, <2>1 DEF ClosedInv
  <1>25. FlushInv'
    <2> SUFFICES ASSUME fpc = "sync" PROVE FlushInv'
      BY <1>1 DEF FlushInv
    <2>1. /\ fsave.pending \in Nat /\ fsave.pending <= tail
          /\ fsave.pending <= IF fsave.file = f THEN f + Len(Recs(f)) ELSE f
      BY <1>1, <1>4 DEF FlushInv, PcInv, Save
    <2>2. f + Len(Recs(f)) <= f + Len(Recs(f)')
      BY <1>4, <1>19
    <2>3. fsave.pending <= IF fsave.file = f THEN f + Len(Recs(f)') ELSE f
      BY <1>4, <1>19, <2>1, <2>2
    <2> QED
      BY <1>1, <1>w, <2>1, <2>3 DEF FlushInv
  <1>26. PromisedInv'
    <2>1. ASSUME NEW r \in promised
          PROVE  r.cursor < tail /\ r.cursor < tail + 1
      BY <1>1, <1>2, <1>18 DEF PromisedInv, WalType, Record
    <2> QED
      BY <1>1, <1>17, <2>1 DEF PromisedInv
  <1>27. ChainInv'
    <2> SUFFICES ASSUME ~broken PROVE ChainInv'
      BY <1>1 DEF ChainInv
    <2>1. ASSUME NEW g \in Segments, Newest(g) PROVE durable <= g + Len(Recs(g)')
      <3>1. g = f
        BY <1>2, <1>3, <2>1 DEF Newest, Active, DiskType
      <3>2. durable <= f + Len(Recs(f)) /\ durable \in Nat
        BY <1>18, <2>1, <3>1 DEF ChainInv, WalType
      <3>3. f + Len(Recs(f)) <= f + Len(Recs(f)')
        BY <1>4, <1>19
      <3>4. durable <= f + Len(Recs(f)')
        BY <1>4, <1>19, <3>2, <3>3
      <3> QED
        BY <3>1, <3>4
    <2>2. durable <= tail + 1
      BY <1>2, <1>18 DEF ChainInv, WalType
    <2> QED
      BY <1>1, <1>w, <1>17, <1>18, <2>1, <2>2 DEF ChainInv
  <1>z. TakenInv'
    BY <1>1, <1>18 DEF TakenInv
  <1> QED
    BY <1>z, <1>17, <1>20, <1>21, <1>22, <1>23, <1>24, <1>25, <1>26, <1>27

\* SegmentWriter::create: the new name is the tail, which nothing promised and
\* no record of a closed segment reaches.
LEMMA CreateFileStep ==
  ASSUME CoreInv, CreateFile
  PROVE  CoreInv'
  <1> USE DEF CoreInv
  <1>1. /\ wpc = "create" /\ wpc' = "header" /\ writer' = writer /\ writer = NoWriter
        /\ tail \notin Segments
        /\ disk' = [f \in Segments \cup {tail} |-> IF f = tail THEN EmptyFile ELSE disk[f]]
        /\ index' = index /\ durable' = durable /\ policy' = policy /\ tail' = tail
        /\ fpc' = fpc /\ fsave' = fsave /\ inc' = inc /\ promised' = promised
        /\ broken' = broken /\ call' = call
    BY DEF CreateFile, Collides, PcInv, flusher, marks, inner
  <1>2. DiskType /\ inc \in Nat /\ tail \in Nat /\ tail \in 0..MaxCursor
    BY DEF WalType
  <1>3. /\ Segments' = Segments \cup {tail} /\ disk'[tail] = EmptyFile
        /\ \A g \in Segments : g # tail /\ disk'[g] = disk[g] /\ g \in Nat
    BY <1>1, <1>2 DEF DiskType
  <1>4. /\ EmptyFile \in File /\ EmptyFile.recs = <<>> /\ EmptyFile.synced = 0
        /\ EmptyFile.failed = FALSE /\ Len(EmptyFile.recs) = 0 /\ DOMAIN EmptyFile.recs = {}
    <2>1. <<>> \in Seq(Entry) /\ Len(<<>>) = 0 /\ DOMAIN <<>> = {}
      BY EmptyFacts
    <2> QED
      BY <2>1 DEF EmptyFile, File
  <1>5. Running /\ Running' /\ Upcoming = tail /\ Upcoming' = tail
    BY <1>1 DEF Running, Stopped, Upcoming
  <1>6. \A g \in Segments : g < tail
    BY <1>2, <1>3, <1>5 DEF LiveInv
  <1>7. WalType'
    <2>1. DiskType'
      BY <1>1, <1>2, <1>3, <1>4 DEF DiskType
    <2> QED
      BY <1>1, <2>1 DEF WalType
  <1>8. PcInv'
    BY <1>1, <1>3, <1>4 DEF PcInv, Stopped
  <1>9. FileInv'
    <2>1. FileOK(tail)'
      BY <1>1, <1>3, <1>4 DEF FileOK
    <2>2. ASSUME NEW g \in Segments PROVE FileOK(g)'
      BY <1>1, <1>3 DEF FileOK, FileInv
    <2> QED
      BY <1>1, <1>3, <2>1, <2>2 DEF FileInv
  <1>10. LiveInv'
    <2>1. \A g \in Segments' : g <= tail /\ Whole(g)'
      BY <1>2, <1>3, <1>4, <1>5, <1>6 DEF LiveInv, Whole
    <2>2. index \subseteq Segments' /\ Segments' \ {tail} \subseteq index
      BY <1>3, <1>5 DEF LiveInv
    <2> QED
      BY <1>1, <2>1, <2>2 DEF LiveInv
  <1>11. WriterInv'
    BY <1>1 DEF WriterInv
  <1>12. ClosedInv'
    <2>1. Closed(tail)'
      BY <1>1, <1>3, <1>4 DEF Closed
    <2>2. ASSUME NEW g \in Segments, ~disk'[g].failed PROVE Closed(g)'
      <3>1. g # writer.first
        BY <1>1, <1>3 DEF NoWriter
      <3>2. Closed(g)
        BY <1>3, <1>5, <2>2, <3>1 DEF ClosedInv
      <3>3. ASSUME NEW i \in DOMAIN Recs(g), Recs(g)[i].inc = inc
            PROVE  /\ i <= disk[g].synced /\ Recs(g)[i].cursor < tail
                   /\ \A h \in Segments \cup {tail} : h > g => Recs(g)[i].cursor < h
        BY <3>2, <3>3 DEF Closed
      <3> QED
        BY <1>1, <1>3, <3>3 DEF Closed
    <2> QED
      BY <1>1, <1>3, <2>1, <2>2 DEF ClosedInv
  <1>13. FlushInv'
    BY <1>1 DEF FlushInv
  <1>14. PromisedInv'
    <2>1. ASSUME NEW r \in promised PROVE Held(r)'
      <3>1. PICK g \in Segments : \E i \in 1..disk[g].synced :
              Recs(g)[i] = r /\ \A h \in Segments : h > g => r.cursor < h
        BY DEF PromisedInv, Held
      <3>2. PICK i \in 1..disk[g].synced :
              Recs(g)[i] = r /\ \A h \in Segments : h > g => r.cursor < h
        BY <3>1
      <3>3. r.cursor < tail
        BY <1>1, <1>5 DEF PromisedInv
      <3> QED
        BY <1>3, <3>2, <3>3 DEF Held
    <2> QED
      BY <1>1, <1>5, <2>1 DEF PromisedInv
  <1>15. ChainInv'
    <2> SUFFICES ASSUME ~broken PROVE ChainInv'
      BY <1>1 DEF ChainInv
    <2>1. ASSUME NEW g \in Segments PROVE Joined(g, Segments)'
      <3>1. Recs(g) \in Seq(Entry) /\ Len(Recs(g)) \in Nat /\ (Recs(g) = <<>> <=> Len(Recs(g)) = 0)
        BY <1>2, SeqFacts DEF DiskType, File
      <3>2. Whole(g)'
        BY <1>3, <1>10, <1>5 DEF LiveInv
      <3>3. CASE Newest(g)
        <4>1. g + Len(Recs(g)) = tail
          BY <1>1, <1>5, <3>3 DEF ChainInv
        <4>2. Len(Recs(g)) # 0
          BY <1>3, <3>1, <4>1
        <4>3. \A h \in Segments' : h > g => tail <= h
          BY <1>2, <1>3, <3>3 DEF Newest
        <4> QED
          BY <1>3, <3>1, <3>2, <4>1, <4>2, <4>3 DEF Joined
      <3>4. CASE Joined(g, Segments)
        <4>1. g + Len(Recs(g)) \in Segments /\ g + Len(Recs(g)) <= tail
          BY <1>2, <1>3, <1>6, <3>4 DEF Joined
        <4>2. \A h \in Segments' : h > g => g + Len(Recs(g)) <= h
          BY <1>3, <3>4, <4>1 DEF Joined
        <4> QED
          BY <1>3, <3>2, <3>4, <4>1, <4>2 DEF Joined
      <3> QED
        BY <3>3, <3>4 DEF ChainInv
    <2>2. ASSUME NEW g \in Segments', Newest(g)' PROVE g + Len(Recs(g)') = tail
      <3>1. g = tail
        BY <1>2, <1>3, <1>6, <2>2 DEF Newest
      <3>2. Len(Recs(g)') = 0
        BY <1>3, <1>4, <3>1
      <3> QED
        BY <1>2, <3>1, <3>2
    <2>3. Newest(tail)'
      BY <1>1, <1>2, <1>3, <1>6 DEF Newest
    <2>4. durable <= tail
      BY <1>5 DEF ChainInv
    <2>5. \A g \in Segments' : (Newest(g) \/ Joined(g, Segments))'
      BY <1>1, <1>3, <2>1, <2>3 DEF Newest
    <2> QED
      BY <1>1, <1>5, <2>2, <2>4, <2>5 DEF ChainInv
  <1>z. TakenInv'
    BY <1>1, <1>3 DEF TakenInv
  <1> QED
    BY <1>z, <1>7, <1>8, <1>9, <1>10, <1>11, <1>12, <1>13, <1>14, <1>15

\* The end of the process leaves what was held held, and the run of segments.
LEMMA GoneCore ==
  ASSUME WalType', FileInv', ProcessGone, wpc' = "down", broken' = broken,
         \A r \in promised' : Held(r)',
         ~broken => (\A f \in Segments : Newest(f) \/ Joined(f, Segments))'
  PROVE  CoreInv'
  <1>1. wpc' = "down" /\ fpc' = "idle" /\ writer' = NoWriter
    BY DEF ProcessGone
  <1>2. ~Running'
    BY <1>1 DEF Running, Stopped
  <1>3. PcInv' /\ LiveInv' /\ WriterInv' /\ ClosedInv' /\ TakenInv' /\ FlushInv'
    BY <1>1, <1>2 DEF PcInv, LiveInv, WriterInv, ClosedInv, TakenInv, FlushInv
  <1>4. PromisedInv' /\ ChainInv'
    BY <1>2 DEF PromisedInv, ChainInv
  <1> QED
    BY <1>3, <1>4 DEF CoreInv

LEMMA GoneType ==
  ASSUME WalType, DiskType', ProcessGone, wpc' = "down", broken' = broken,
         promised' \subseteq Record
  PROVE  WalType'
  BY ConstantsOK DEF WalType, ProcessGone, OpenCall

\* The header alone changes.
LEMMA HeaderOnly ==
  ASSUME DiskType, tail \in Segments, NEW h \in BOOLEAN, disk' = [disk EXCEPT ![tail].header = h]
  PROVE  /\ Segments' = Segments /\ DiskType'
         /\ \A g \in Segments : /\ Recs(g)' = Recs(g) /\ disk'[g].synced = disk[g].synced
                                /\ disk'[g].failed = disk[g].failed
  <1>1. Edit(disk, disk', tail, <<>>, disk[tail].synced, disk[tail].failed)
    BY HeaderEdit
  <1>2. /\ disk' \in [Segments -> File] /\ \A g \in Segments : g # tail => disk'[g] = disk[g]
        /\ disk'[tail].recs = Recs(tail) \o <<>> /\ disk'[tail].synced = disk[tail].synced
        /\ disk'[tail].failed = disk[tail].failed
    BY <1>1 DEF Edit
  <1>3. disk'[tail].recs = disk[tail].recs
    BY <1>2, EmptyFacts DEF DiskType, File
  <1> QED
    BY <1>2, <1>3 DEF DiskType

LEMMA CreateFailsStep ==
  ASSUME CoreInv, CreateFails
  PROVE  CoreInv'
  <1> USE DEF CoreInv
  <1>1. /\ wpc \in {"create", "header"} /\ writer = NoWriter /\ inc' = inc
        /\ promised' = promised /\ broken' = broken
        /\ disk' = disk \/ (wpc = "header" /\ \E h \in BOOLEAN :
                              disk' = [disk EXCEPT ![tail].header = h])
    BY DEF CreateFails, PcInv, ProcessGone
  <1>2. DiskType /\ inc \in Nat /\ tail \in Nat
    BY DEF WalType
  <1>3. /\ Segments' = Segments /\ DiskType'
        /\ \A g \in Segments : /\ Recs(g)' = Recs(g) /\ disk'[g].synced = disk[g].synced
                               /\ disk'[g].failed = disk[g].failed
    <2>1. CASE disk' = disk
      BY <1>2, <2>1 DEF DiskType
    <2>2. CASE wpc = "header" /\ \E h \in BOOLEAN : disk' = [disk EXCEPT ![tail].header = h]
      <3>1. tail \in Segments
        BY <2>2 DEF PcInv
      <3> QED
        BY <1>2, <2>2, <3>1, HeaderOnly
    <2> QED
      BY <1>1, <2>1, <2>2
  <1>4. FileInv'
    BY <1>1, <1>3 DEF FileInv, FileOK
  <1>5. \A r : Held(r) => Held(r)'
    BY <1>3 DEF Held
  <1>6. \A g \in Segments : (Whole(g) => Whole(g)') /\ (Newest(g)' <=> Newest(g))
                            /\ (Joined(g, Segments) => Joined(g, Segments)')
    BY <1>3 DEF Whole, Newest, Joined
  <1>7. CASE wpc' = "down" /\ ProcessGone
    <2>1. WalType'
      BY <1>1, <1>3, <1>7, GoneType DEF WalType
    <2>2. \A r \in promised' : Held(r)'
      BY <1>1, <1>5 DEF PromisedInv
    <2>3. ~broken => (\A f \in Segments : Newest(f) \/ Joined(f, Segments))'
      BY <1>3, <1>6 DEF ChainInv
    <2> QED
      BY <1>1, <1>4, <1>7, <2>1, <2>2, <2>3, GoneCore
  <1>8. CASE wpc' = "idle" /\ UNCHANGED <<inner, marks, call, flusher, inc>>
    <2>1. /\ writer' = NoWriter /\ index' = index /\ durable' = durable /\ policy' = policy
          /\ tail' = tail /\ fpc' = fpc /\ fsave' = fsave /\ call' = call
      BY <1>1, <1>8 DEF inner, marks, flusher
    <2>2. Running /\ Running' /\ Upcoming = tail /\ Upcoming' = tail
      BY <1>1, <1>8, <2>1 DEF Running, Stopped, Upcoming
    <2>3. WalType' /\ PcInv'
      BY <1>1, <1>3, <1>8, <2>1 DEF WalType, PcInv, Stopped
    <2>4. LiveInv' /\ WriterInv' /\ FlushInv'
      BY <1>1, <1>3, <1>6, <2>1, <2>2 DEF LiveInv, WriterInv, FlushInv
    <2>t. TakenInv'
      BY <1>3, <1>8, <2>1 DEF TakenInv
    <2>5. ClosedInv'
      BY <1>1, <1>3, <2>1, <2>2 DEF ClosedInv, Closed
    <2>6. PromisedInv'
      BY <1>1, <1>5, <1>8, <2>1, <2>2 DEF PromisedInv
    <2>7. ChainInv'
      BY <1>1, <1>3, <1>6, <2>1, <2>2 DEF ChainInv
    <2> QED
      BY <2>t, <1>4, <2>3, <2>4, <2>5, <2>6, <2>7
  <1> QED
    BY <1>7, <1>8 DEF CreateFails

LEMMA WriteHeaderStep ==
  ASSUME CoreInv, WriteHeader
  PROVE  CoreInv'
  <1> USE DEF CoreInv
  <1>1. /\ wpc = "header" /\ writer = NoWriter /\ wpc' \in {"idle", "append", "fit"}
        /\ wpc' # "idle" => call # OpenCall
        /\ writer' = [first |-> tail, next |-> tail, buf |-> <<>>]
        /\ disk' = [disk EXCEPT ![tail].header = TRUE]
        /\ index' = index \cup {tail} /\ durable' = durable /\ policy' = policy /\ tail' = tail
        /\ fpc' = fpc /\ fsave' = fsave /\ inc' = inc /\ promised' = promised
        /\ broken' = broken /\ call' = call
    <2>1. wpc' \in {"idle", "append", "fit"} /\ (wpc' # "idle" => call # OpenCall)
      <3>1. call = OpenCall => wpc' = "idle"
        BY DEF WriteHeader, OpenCall
      <3>2. call # OpenCall => wpc' \in {"append", "fit"}
        BY DEF WriteHeader
      <3> QED
        BY <3>1, <3>2
    <2> QED
      BY <2>1 DEF WriteHeader, PcInv, flusher, marks
  <1>2. /\ DiskType /\ inc \in Nat /\ tail \in Nat /\ tail \in Segments /\ Recs(tail) = <<>>
        /\ ~disk[tail].failed
    BY <1>1 DEF WalType, PcInv
  <1>3. /\ Segments' = Segments /\ DiskType'
        /\ \A g \in Segments : /\ Recs(g)' = Recs(g) /\ disk'[g].synced = disk[g].synced
                               /\ disk'[g].failed = disk[g].failed
    BY <1>1, <1>2, HeaderOnly
  <1>4. FileInv'
    BY <1>1, <1>3 DEF FileInv, FileOK
  <1>5. \A r : Held(r) => Held(r)'
    BY <1>3 DEF Held
  <1>6. \A g \in Segments : (Whole(g) => Whole(g)') /\ (Newest(g)' <=> Newest(g))
                            /\ (Joined(g, Segments) => Joined(g, Segments)')
    BY <1>3 DEF Whole, Newest, Joined
  <1>7. Running /\ Running' /\ Upcoming = tail /\ Upcoming' = tail
    BY <1>1 DEF Running, Stopped, Upcoming
  <1>w. /\ writer' \in Writer /\ writer' # NoWriter /\ writer'.first = tail
        /\ writer'.next = tail /\ writer'.buf = <<>>
    <2>1. <<>> \in Seq(Record)
      BY EmptyFacts
    <2>2. writer' \in Writer /\ writer'.first = tail /\ writer'.next = tail /\ writer'.buf = <<>>
      BY <1>1, <1>2, <2>1 DEF Writer
    <2> QED
      BY <1>2, <2>2 DEF NoWriter
  <1>8. WalType'
    BY <1>1, <1>3, <1>w DEF WalType
  <1>9. PcInv'
    BY <1>1, <1>w DEF PcInv, Stopped
  <1>10. LiveInv'
    BY <1>1, <1>2, <1>3, <1>6, <1>7 DEF LiveInv
  <1>11. WriterInv'
    <2>1. Len(<<>>) = 0 /\ DOMAIN <<>> = {}
      BY EmptyFacts
    <2>2. Recs(tail)' = <<>> /\ tail = tail + 0 + 0
      <3>1. tail = tail + 0 + 0
        BY <1>2
      <3> QED
        BY <1>1, <1>2, <1>3, <3>1
    <2>3. \A g \in Segments : g <= tail
      BY <1>7 DEF LiveInv
    <2>4. /\ writer'.first \in Segments' /\ \A g \in Segments' : g <= writer'.first
          /\ writer'.next = Upcoming'
      BY <1>2, <1>3, <1>7, <1>w, <2>3
    <2>5. ~disk'[writer'.first].failed
      BY <1>2, <1>3, <1>w
    <2>6. Recs(writer.first)' = <<>>
      BY <1>1, <1>w, <2>2
    <2>7. writer'.next = writer'.first + Len(Recs(writer.first)') + Len(writer'.buf)
      BY <1>w, <2>1, <2>2, <2>6
    <2> QED
      BY <1>w, <2>1, <2>4, <2>5, <2>7 DEF WriterInv
  <1>12. ClosedInv'
    <2>1. ASSUME NEW g \in Segments, g # writer'.first, ~disk'[g].failed PROVE Closed(g)'
      <3>1. g # writer.first
        BY <1>1, <1>2 DEF NoWriter, DiskType
      <3>2. Closed(g)
        BY <1>3, <1>7, <2>1, <3>1 DEF ClosedInv
      <3> QED
        BY <1>1, <1>3, <3>2 DEF Closed
    <2> QED
      BY <1>3, <2>1 DEF ClosedInv
  <1>13. FlushInv'
    <2> SUFFICES ASSUME fpc = "sync" PROVE FlushInv'
      BY <1>1 DEF FlushInv
    <2>1. fsave.pending \in Nat /\ fsave.pending <= tail
      BY DEF FlushInv, PcInv, Save
    <2>2. Recs(writer.first)' = <<>> /\ Len(<<>>) = 0
      BY <1>1, <1>2, <1>3, <1>w, EmptyFacts
    <2>3. tail <= writer'.first + Len(Recs(writer.first)')
      BY <1>2, <1>w, <2>2
    <2> QED
      BY <1>1, <1>2, <1>w, <2>1, <2>2, <2>3 DEF FlushInv
  <1>14. PromisedInv'
    BY <1>1, <1>5, <1>7 DEF PromisedInv
  <1>15. ChainInv'
    BY <1>1, <1>3, <1>6, <1>7, <1>w DEF ChainInv
  <1>z. TakenInv'
    BY <1>1, <1>2, <1>3 DEF TakenInv
  <1> QED
    BY <1>z, <1>4, <1>8, <1>9, <1>10, <1>11, <1>12, <1>13, <1>14, <1>15

\* Retention deletes the oldest segment: the others still join up.
LEMMA OldestFacts ==
  ASSUME CoreInv, wpc = "retain", Retirable # {}
  PROVE  /\ Min(Retirable) \in Segments /\ \A g \in Segments : Min(Retirable) <= g
         /\ writer.first \in Segments \ {Min(Retirable)} /\ index = Segments
  <1> USE DEF CoreInv
  <1>1. writer # NoWriter /\ Running
    BY DEF PcInv, Running, Stopped
  <1>2. index = Segments /\ Segments \subseteq Nat
    BY <1>1 DEF LiveInv, WalType, DiskType
  <1>3. Retirable \subseteq Nat
    BY <1>2 DEF Retirable
  <1>4. Min(Retirable) \in Retirable /\ \A y \in Retirable : Min(Retirable) <= y
    BY <1>3, MinFacts
  <1>5. writer.first \in Segments /\ \A g \in Segments : g <= writer.first
    BY <1>1 DEF WriterInv
  <1> QED
    BY <1>2, <1>4, <1>5 DEF Retirable

LEMMA DeleteOldestStep ==
  ASSUME CoreInv, DeleteOldest
  PROVE  CoreInv'
  <1> USE DEF CoreInv
  <1>1. /\ wpc = "retain" /\ wpc' = wpc /\ writer' = writer /\ writer # NoWriter
        /\ durable' = durable /\ policy' = policy /\ tail' = tail
        /\ fpc' = fpc /\ fsave' = fsave /\ inc' = inc /\ broken' = broken /\ call' = call
        /\ Retirable # {}
    BY DEF DeleteOldest, PcInv, flusher, marks
  <1>2. PICK k : k = Min(Retirable)
    OBVIOUS
  <1>3. /\ k \in Segments /\ \A g \in Segments : k <= g
        /\ writer.first \in Segments \ {k} /\ index = Segments
    BY <1>1, <1>2, OldestFacts
  <1>4. /\ disk' = Without(disk, k) /\ index' = index \ {k}
        /\ promised' = promised \ ToSet(disk[k].recs)
    BY <1>2 DEF DeleteOldest
  <1>5. DiskType /\ \A g \in Segments : g \in Nat
    BY DEF WalType, DiskType
  <1>6. Segments' = Segments \ {k} /\ \A g \in Segments \ {k} : disk'[g] = disk[g]
    BY <1>4 DEF Without
  <1>7. Running /\ Running' /\ Upcoming' = Upcoming
    BY <1>1 DEF Running, Stopped, Upcoming
  <1>8. WalType'
    <2>1. DiskType'
      BY <1>4, <1>5, <1>6 DEF DiskType, Without
    <2> QED
      BY <1>1, <1>4, <2>1 DEF WalType
  <1>9. PcInv'
    BY <1>1 DEF PcInv, Stopped
  <1>10. FileInv'
    BY <1>1, <1>6 DEF FileInv, FileOK
  <1>11. LiveInv'
    BY <1>1, <1>3, <1>4, <1>6, <1>7 DEF LiveInv, Whole
  <1>12. WriterInv'
    BY <1>1, <1>3, <1>6, <1>7 DEF WriterInv
  <1>13. ClosedInv'
    BY <1>1, <1>6, <1>7 DEF ClosedInv, Closed
  <1>14. FlushInv'
    BY <1>1, <1>3, <1>6 DEF FlushInv
  <1>15. PromisedInv'
    <2>1. ASSUME NEW r \in promised' PROVE Held(r)'
      <3>1. Held(r) /\ r \notin ToSet(disk[k].recs)
        BY <1>4, <2>1 DEF PromisedInv
      <3>2. PICK g \in Segments : \E i \in 1..disk[g].synced :
              Recs(g)[i] = r /\ \A h \in Segments : h > g => r.cursor < h
        BY <3>1 DEF Held
      <3>3. PICK i \in 1..disk[g].synced :
              Recs(g)[i] = r /\ \A h \in Segments : h > g => r.cursor < h
        BY <3>2
      <3>4. i \in DOMAIN Recs(g)
        BY <1>5, SeqFacts DEF FileInv, FileOK, DiskType, File
      <3>5. g # k
        BY <3>1, <3>3, <3>4 DEF ToSet
      <3> QED
        BY <1>6, <3>3, <3>5 DEF Held
    <2> QED
      BY <1>1, <1>4, <1>7, <2>1 DEF PromisedInv
  <1>16. ChainInv'
    <2> SUFFICES ASSUME ~broken PROVE ChainInv'
      BY <1>1 DEF ChainInv
    <2>1. \A g \in Segments : g <= writer.first
      BY <1>1 DEF WriterInv
    <2>2. ASSUME NEW g \in Segments \ {k}, ~Newest(g) PROVE Joined(g, Segments)'
      <3>1. Joined(g, Segments) /\ g > k
        BY <1>3, <1>5, <2>2 DEF ChainInv
      <3>2. Len(Recs(g)) \in Nat
        BY <1>5, SeqFacts DEF DiskType, File
      <3>3. g + Len(Recs(g)) \in Segments \ {k}
        BY <1>5, <1>3, <3>1, <3>2 DEF Joined
      <3> QED
        BY <1>6, <2>2, <3>1, <3>3 DEF Joined, Whole
    <2>3. ASSUME NEW g \in Segments' PROVE Newest(g)' <=> Newest(g)
      BY <1>3, <1>5, <1>6, <2>1 DEF Newest
    <2> QED
      BY <1>1, <1>6, <1>7, <2>2, <2>3 DEF ChainInv
  <1>z. TakenInv'
    <2>1. tail # k
      BY <1>3, <1>5, <1>7 DEF LiveInv
    <2> QED
      BY <1>1, <1>6, <2>1 DEF TakenInv
  <1> QED
    BY <1>z, <1>8, <1>9, <1>10, <1>11, <1>12, <1>13, <1>14, <1>15, <1>16

-----------------------------------------------------------------------------
(* The flusher thread *)

\* Only marks move: nothing held is lost and the run of segments is the same.
Remarked ==
  /\ Segments' = Segments /\ DiskType'
  /\ \A g \in Segments : Recs(g)' = Recs(g) /\ disk[g].synced <= disk'[g].synced

LEMMA RemarkedFacts ==
  ASSUME DiskType, Remarked
  PROVE  /\ \A r : Held(r) => Held(r)'
         /\ \A g \in Segments : /\ Whole(g) => Whole(g)'
                                /\ Newest(g)' <=> Newest(g)
                                /\ Joined(g, Segments) => Joined(g, Segments)'
  <1>1. \A g \in Segments : /\ Whole(g) => Whole(g)'
                            /\ Newest(g)' <=> Newest(g)
                            /\ Joined(g, Segments) => Joined(g, Segments)'
    BY DEF Whole, Newest, Joined, Remarked
  <1>2. ASSUME NEW r, Held(r) PROVE Held(r)'
    <2>1. PICK g \in Segments : \E i \in 1..disk[g].synced :
            Recs(g)[i] = r /\ \A h \in Segments : h > g => r.cursor < h
      BY <1>2 DEF Held
    <2>2. PICK i \in 1..disk[g].synced :
            Recs(g)[i] = r /\ \A h \in Segments : h > g => r.cursor < h
      BY <2>1
    <2>3. disk[g].synced \in Nat /\ disk'[g].synced \in Nat
      BY DEF Remarked, DiskType, File
    <2>4. i \in 1..disk'[g].synced
      BY <2>3 DEF Remarked
    <2> QED
      BY <2>2, <2>4 DEF Held, Remarked
  <1> QED
    BY <1>1, <1>2

SyncOf(f) == IF f \in Segments THEN SyncedFile(disk, f) ELSE disk
FailureOf(f) == IF f \in Segments THEN [disk EXCEPT ![f].failed = TRUE] ELSE disk

\* sync_data and its failure move only the marks of the file they sync.
LEMMA MarkedFile ==
  ASSUME CoreInv, Running, inc' = inc, NEW f, disk' = SyncOf(f) \/ disk' = FailureOf(f)
  PROVE  /\ Remarked /\ FileInv'
         /\ \A g \in Segments : ~disk'[g].failed => ~disk[g].failed
         /\ \A g \in Segments : g # f => disk'[g] = disk[g]
         /\ f \in Segments /\ ~disk'[f].failed => disk'[f].synced = Len(Recs(f))
         /\ disk' = SyncOf(f) => \A g \in Segments : disk'[g].failed = disk[g].failed
  <1> USE DEF CoreInv
  <1>1. DiskType /\ FileInv /\ inc \in Nat
    BY DEF WalType
  <1>2. CASE f \notin Segments
    <2>1. disk' = disk
      BY <1>2 DEF SyncOf, FailureOf
    <2>2. \A g \in Segments : disk[g].synced \in Nat
      BY <1>1 DEF DiskType, File
    <2>3. Remarked
      BY <1>1, <2>1, <2>2 DEF Remarked, DiskType
    <2> QED
      BY <1>1, <1>2, <2>1, <2>3, SameFiles
  <1>3. CASE f \in Segments
    <2>1. /\ Recs(f) \in Seq(Entry) /\ disk[f].synced \in Nat /\ Len(Recs(f)) \in Nat
          /\ disk[f].synced <= Len(Recs(f)) /\ Whole(f) /\ Recs(f) \o <<>> = Recs(f)
          /\ <<>> \in Seq(Entry) /\ Len(<<>>) = 0 /\ DOMAIN <<>> = {}
          /\ disk[f].failed \in BOOLEAN
      BY <1>1, <1>3, SeqFacts, EmptyFacts DEF DiskType, File, FileInv, FileOK, LiveInv
    <2>2. Edit(disk, disk, f, <<>>, disk[f].synced, disk[f].failed)
      BY <1>1, <1>3, SameEdit
    <2>3. PICK n \in Nat, b \in BOOLEAN :
            /\ Edited(f, <<>>, n, b)
            /\ disk[f].synced <= n /\ n <= Len(Recs(f))
            /\ b \/ n = Len(Recs(f))
            /\ ~b => ~disk[f].failed
            /\ disk' = SyncedFile(disk, f) => b = disk[f].failed
      <3>1. CASE disk' = SyncedFile(disk, f)
        <4>1. Edit(disk, disk', f, <<>>, SyncMark(f, <<>>), disk[f].failed)
          BY <1>1, <2>1, <2>2, <3>1, SyncedEdit
        <4>2. SyncMark(f, <<>>) = IF disk[f].failed THEN disk[f].synced ELSE Len(Recs(f))
          BY <2>1 DEF SyncMark
        <4>3. /\ SyncMark(f, <<>>) \in Nat /\ disk[f].synced <= SyncMark(f, <<>>)
              /\ SyncMark(f, <<>>) <= Len(Recs(f))
              /\ disk[f].failed \/ SyncMark(f, <<>>) = Len(Recs(f))
          BY <2>1, <4>2
        <4> QED
          BY <2>1, <4>1, <4>3 DEF Edited
      <3>2. CASE disk' # SyncedFile(disk, f)
        <4>1. disk' = [disk EXCEPT ![f].failed = TRUE]
          BY <1>3, <3>2 DEF SyncOf, FailureOf
        <4>2. Edit(disk, disk', f, <<>>, disk[f].synced, TRUE)
          BY <1>1, <2>1, <2>2, <4>1, FailedEdit
        <4>3. disk[f].synced <= disk[f].synced
          BY <2>1
        <4> QED
          BY <2>1, <3>2, <4>2, <4>3 DEF Edited
      <3> QED
        BY <3>1, <3>2
    <2>4. Grown(f, <<>>, n, b)
      BY <1>1, <2>1, <2>3, EditedRecs
    <2>5. FileInv'
      <3>1. n <= Len(Recs(f)) + Len(<<>>)
        BY <2>1, <2>3
      <3> QED
        BY <1>1, <2>1, <2>3, <3>1, EditedFiles
    <2>6. /\ Recs(f)' = Recs(f) /\ disk'[f].synced = n /\ disk'[f].failed = b
          /\ Segments' = Segments /\ DiskType'
          /\ \A g \in Segments : g # f => disk'[g] = disk[g]
      BY <2>1, <2>3, <2>4 DEF Grown, Edited, Edit
    <2>7. \A g \in Segments : disk[g].synced \in Nat
      BY <1>1 DEF DiskType, File
    <2>8. Remarked
      BY <2>3, <2>6, <2>7 DEF Remarked
    <2> QED
      BY <1>3, <2>3, <2>5, <2>6, <2>8 DEF SyncOf
  <1> QED
    BY <1>2, <1>3

\* What is not the marks of files is as before.
LEMMA FlusherCore ==
  ASSUME CoreInv, Running, Remarked, FileInv', inc' = inc, wpc' = wpc, writer' = writer,
         index' = index, policy' = policy, tail' = tail, call' = call, broken' = broken,
         durable' \in Nat, promised' \subseteq Record, fpc = "sync", policy = "Batched",
         fpc' \in {"idle", "stopped"}, fsave' = NoSave,
         \A g \in Segments : ~disk'[g].failed => ~disk[g].failed,
         \A g \in Segments : g # fsave.file => disk'[g] = disk[g],
         fpc' = "idle" => \A g \in Segments : disk'[g].failed = disk[g].failed
  PROVE  WalType' /\ PcInv' /\ LiveInv' /\ WriterInv' /\ ClosedInv' /\ TakenInv' /\ FlushInv'
         /\ Running' /\ Upcoming' = Upcoming
  <1> USE DEF CoreInv
  <1>1. /\ Segments' = Segments /\ DiskType' /\ DiskType
        /\ \A g \in Segments : Recs(g)' = Recs(g) /\ disk[g].synced <= disk'[g].synced
                               /\ disk[g].synced \in Nat /\ disk'[g].synced \in Nat
    BY DEF Remarked, WalType, DiskType, File
  <1>2. WalType'
    BY <1>1 DEF WalType
  <1>3. Running' /\ Upcoming' = Upcoming
    BY DEF Running, Stopped, Upcoming
  <1>4. PcInv'
    <2>1. wpc # "header" => PcInv'
      BY DEF PcInv, Running, Stopped
    <2>2. ASSUME wpc = "header" PROVE PcInv'
      <3>1. tail \in Segments /\ Recs(tail) = <<>> /\ disk[tail].synced = 0 /\ ~disk[tail].failed
        BY <2>2 DEF PcInv
      <3> QED
        BY <1>1, <2>2, <3>1 DEF PcInv, Running, Stopped, TakenInv
    <2> QED
      BY <2>1, <2>2
  <1>5. LiveInv'
    <2>1. \A g \in Segments : Whole(g)'
      BY <1>1, RemarkedFacts DEF LiveInv
    <2> QED
      BY <1>1, <2>1 DEF LiveInv
  <1>6. WriterInv'
    BY <1>1, <1>3 DEF WriterInv
  <1>7. ClosedInv'
    <2>1. ASSUME NEW g \in Segments, g # writer.first, ~disk'[g].failed PROVE Closed(g)'
      <3>1. Closed(g)
        BY <2>1 DEF ClosedInv
      <3>2. DOMAIN Recs(g) \subseteq Nat
        BY <1>1, SeqFacts DEF DiskType, File
      <3> QED
        BY <1>1, <3>1, <3>2 DEF Closed
    <2> QED
      BY <1>1, <2>1 DEF ClosedInv
  <1> QED
    BY <1>2, <1>3, <1>4, <1>5, <1>6, <1>7 DEF TakenInv, FlushInv

\* sync_data on the cloned descriptor: what was in the file when the flusher
\* took it is promised, although the publisher has gone on since.
LEMMA SyncDataStep ==
  ASSUME CoreInv, SyncData
  PROVE  CoreInv'
  <1> USE DEF CoreInv
  <1>1. /\ fpc = "sync" /\ fpc' = "idle" /\ fsave' = NoSave /\ durable' = fsave.pending
        /\ promised' = Promise(fsave.pending) /\ wpc' = wpc /\ writer' = writer
        /\ index' = index /\ policy' = policy /\ tail' = tail /\ call' = call /\ inc' = inc
        /\ broken' = broken
    BY DEF SyncData, inner
  <1>2. /\ DiskType /\ FileInv /\ inc \in Nat /\ tail \in Nat /\ policy = "Batched"
        /\ fsave \in Save /\ fsave.pending \in Nat /\ fsave.pending <= tail
    BY <1>1 DEF WalType, PcInv, FlushInv, Save
  <1>3. Running /\ wpc # "sync"
    BY <1>1, <1>2 DEF PcInv, Running
  <1>4. PICK f : f = fsave.file
    OBVIOUS
  <1>5. disk' = SyncOf(f)
    BY <1>4 DEF SyncData, SyncOf
  <1>6. /\ Remarked /\ FileInv'
        /\ \A g \in Segments : disk'[g].failed = disk[g].failed
        /\ \A g \in Segments : g # fsave.file => disk'[g] = disk[g]
        /\ f \in Segments /\ ~disk'[f].failed => disk'[f].synced = Len(Recs(f))
    <2>1. /\ Remarked /\ FileInv' /\ \A g \in Segments : g # f => disk'[g] = disk[g]
          /\ \A g \in Segments : disk'[g].failed = disk[g].failed
          /\ f \in Segments /\ ~disk'[f].failed => disk'[f].synced = Len(Recs(f))
      BY <1>1, <1>3, <1>5, MarkedFile
    <2> QED
      BY <1>4, <2>1
  <1>7. /\ Segments' = Segments
        /\ \A g \in Segments : Recs(g)' = Recs(g) /\ disk[g].synced <= disk'[g].synced
                               /\ disk[g].synced \in Nat /\ disk'[g].synced \in Nat
    BY <1>2, <1>6 DEF Remarked, DiskType, File
  <1>8. ASSUME NEW r \in promised' PROVE r \in Record /\ Held(r)' /\ r.cursor < tail + 1
                                         /\ (wpc # "retain" => r.cursor < tail)
    <2>1. CASE r \in promised
      <3>1. r \in Record /\ Held(r) /\ r.cursor < IF wpc = "retain" THEN tail + 1 ELSE tail
        BY <1>3, <2>1 DEF PromisedInv, WalType
      <3>2. Held(r)'
        BY <1>2, <1>6, <3>1, RemarkedFacts
      <3> QED
        BY <1>2, <3>1, <3>2 DEF Record
    <2>2. CASE r \notin promised
      <3>1. /\ r.inc = inc /\ r.cursor < fsave.pending
            /\ \/ \E g \in Segments : ~disk[g].failed /\ r \in ToSet(Recs(g))
               \/ writer.first \in Segments /\ ~disk[writer.first].failed /\ r \in ToSet(writer.buf)
        BY <1>1, <1>8, <2>2, PromiseFacts
      <3>2. ASSUME NEW g \in Segments, ~disk[g].failed, r \in ToSet(Recs(g))
            PROVE  r \in Record /\ Held(r)' /\ r.cursor < tail
        <4>1. PICK i \in DOMAIN Recs(g) : r = Recs(g)[i]
          BY <3>2 DEF ToSet
        <4>2. DOMAIN Recs(g) = 1..Len(Recs(g)) /\ Len(Recs(g)) \in Nat /\ Recs(g)[i] \in Entry
              /\ g \in Nat
          BY <1>2, SeqFacts DEF DiskType, File
        <4>3. r \in Record /\ r.cursor < tail /\ r # Torn
          BY <1>2, <3>1, <4>1, <4>2, TornIsNoRecord DEF Entry, Record
        <4>4. CASE g # writer.first
          <5>1. i <= disk[g].synced /\ \A h \in Segments : h > g => r.cursor < h
            BY <1>3, <3>1, <3>2, <4>1, <4>4 DEF ClosedInv, Closed
          <5>2. i \in 1..disk'[g].synced
            BY <1>7, <4>2, <5>1
          <5>3. Held(r)'
            BY <1>7, <4>1, <5>1, <5>2 DEF Held
          <5> QED
            BY <4>3, <5>3
        <4>5. CASE g = writer.first
          <5>1. writer # NoWriter
            BY <4>2, <4>5 DEF NoWriter
          <5>2. r.cursor = g + i - 1
            BY <4>1, <4>3 DEF FileInv, FileOK
          <5>3. fsave.pending <= IF f = g THEN g + Len(Recs(g)) ELSE g
            BY <1>1, <1>4, <4>5, <5>1 DEF FlushInv
          <5>4. f = g
            <6>1. g <= g + i - 1
              BY <4>2
            <6> QED
              BY <1>2, <3>1, <4>2, <5>2, <5>3, <6>1
          <5>5. disk'[g].synced = Len(Recs(g))
            BY <1>6, <3>2, <5>4
          <5>6. \A h \in Segments : ~(h > g)
            BY <4>2, <4>5, <5>1, <1>2 DEF WriterInv, DiskType
          <5>7. Held(r)'
            BY <1>7, <4>1, <4>2, <5>5, <5>6 DEF Held
          <5> QED
            BY <4>3, <5>7
        <4> QED
          BY <4>4, <4>5
      <3>3. ASSUME writer.first \in Segments, r \in ToSet(writer.buf) PROVE FALSE
        <4>1. writer # NoWriter
          BY <1>2, <3>3 DEF NoWriter, DiskType
        <4>2. PICK a, s : Active(a, s)
          BY <4>1, ActiveFacts
        <4>3. PICK i \in DOMAIN s : r = s[i]
          BY <3>3, <4>2 DEF ToSet, Active
        <4>4. /\ r.cursor = a + Len(Recs(a)) + i - 1 /\ i \in Nat \ {0} /\ a \in Nat
              /\ Len(Recs(a)) \in Nat /\ a = writer.first
          BY <4>2, <4>3 DEF Active
        <4>5. fsave.pending <= IF f = a THEN a + Len(Recs(a)) ELSE a
          BY <1>1, <1>4, <4>1, <4>4 DEF FlushInv
        <4>6. a + Len(Recs(a)) <= r.cursor /\ a <= r.cursor /\ r.cursor \in Nat
              /\ a + Len(Recs(a)) \in Nat
          <5> DEFINE m == Len(Recs(a))
          <5>1. r.cursor = a + m + i - 1 /\ i \in Nat \ {0} /\ a \in Nat /\ m \in Nat
            BY <4>4
          <5> HIDE DEF m
          <5>2. a + m <= r.cursor /\ a <= r.cursor /\ r.cursor \in Nat /\ a + m \in Nat
            BY <5>1
          <5> QED
            BY <5>2 DEF m
        <4> QED
          BY <1>2, <3>1, <4>4, <4>5, <4>6
      <3>4. r \in Record /\ Held(r)' /\ r.cursor < tail
        BY <3>1, <3>2, <3>3
      <3> QED
        BY <1>2, <3>4 DEF Record
    <2> QED
      BY <2>1, <2>2
  <1>9. promised' \subseteq Record
    BY <1>8
  <1>10. WalType' /\ PcInv' /\ LiveInv' /\ WriterInv' /\ ClosedInv' /\ TakenInv' /\ FlushInv'
         /\ Running' /\ Upcoming' = Upcoming
    BY <1>1, <1>2, <1>3, <1>6, <1>9, FlusherCore
  <1>11. PromisedInv'
    BY <1>1, <1>8 DEF PromisedInv
  <1>12. ChainInv'
    <2> SUFFICES ASSUME ~broken PROVE ChainInv'
      BY <1>1 DEF ChainInv
    <2>1. \A g \in Segments : Newest(g) \/ Joined(g, Segments)
      BY DEF ChainInv
    <2>2. (\A g \in Segments : Newest(g) \/ Joined(g, Segments))'
      BY <1>2, <1>6, <1>7, <2>1, RemarkedFacts
    <2>3. durable' <= Upcoming'
      BY <1>1, <1>2, <1>10 DEF Upcoming
    <2>4. ASSUME NEW g \in Segments, Newest(g)
          PROVE  /\ durable' <= g + Len(Recs(g))
                 /\ writer = NoWriter => g + Len(Recs(g)) = tail
      <3>1. writer = NoWriter => g + Len(Recs(g)) = tail
        BY <1>3, <2>4 DEF ChainInv
      <3>2. CASE writer = NoWriter
        BY <1>1, <1>2, <3>1, <3>2
      <3>3. CASE writer # NoWriter
        <4>1. PICK a, s : Active(a, s)
          BY <3>3, ActiveFacts
        <4>2. g = a /\ a = writer.first /\ Len(Recs(a)) \in Nat /\ a \in Nat
          BY <1>2, <2>4, <4>1 DEF Active, Newest, DiskType
        <4>3. fsave.pending <= IF f = a THEN a + Len(Recs(a)) ELSE a
          BY <1>1, <1>4, <3>3, <4>2 DEF FlushInv
        <4>4. fsave.pending <= a + Len(Recs(a))
          BY <1>2, <4>2, <4>3
        <4> QED
          BY <1>1, <3>1, <4>2, <4>4
      <3> QED
        BY <3>2, <3>3
    <2>5. \A g \in Segments : Newest(g)' <=> Newest(g)
      BY <1>2, <1>6, RemarkedFacts
    <2> QED
      BY <1>1, <1>7, <1>10, <2>2, <2>3, <2>4, <2>5 DEF ChainInv
  <1> QED
    BY <1>6, <1>10, <1>11, <1>12

LEMMA SyncFailsStep ==
  ASSUME CoreInv, SyncFails
  PROVE  CoreInv'
  <1> USE DEF CoreInv
  <1>1. /\ fpc = "sync" /\ fpc' = "stopped" /\ fsave' = NoSave /\ durable' = durable
        /\ promised' = promised /\ wpc' = wpc /\ writer' = writer
        /\ index' = index /\ policy' = policy /\ tail' = tail /\ call' = call /\ inc' = inc
        /\ broken' = broken
    BY DEF SyncFails, inner
  <1>2. /\ DiskType /\ policy = "Batched" /\ durable \in Nat /\ promised \subseteq Record
    BY <1>1 DEF WalType, PcInv
  <1>3. Running
    BY <1>1 DEF PcInv, Running
  <1>4. PICK f : f = fsave.file
    OBVIOUS
  <1>5. disk' = FailureOf(f)
    BY <1>4 DEF SyncFails, FailureOf
  <1>6. /\ Remarked /\ FileInv' /\ \A g \in Segments : ~disk'[g].failed => ~disk[g].failed
        /\ \A g \in Segments : g # fsave.file => disk'[g] = disk[g]
    BY <1>4, <1>1, <1>3, <1>5, MarkedFile
  <1>7. Segments' = Segments /\ \A g \in Segments : Recs(g)' = Recs(g)
    BY <1>6 DEF Remarked
  <1>8. WalType' /\ PcInv' /\ LiveInv' /\ WriterInv' /\ ClosedInv' /\ TakenInv' /\ FlushInv'
         /\ Running' /\ Upcoming' = Upcoming
    BY <1>1, <1>2, <1>3, <1>6, FlusherCore
  <1>9. /\ \A r : Held(r) => Held(r)'
        /\ \A g \in Segments : /\ Newest(g)' <=> Newest(g)
                               /\ Joined(g, Segments) => Joined(g, Segments)'
    BY <1>2, <1>6, RemarkedFacts
  <1>10. PromisedInv'
    BY <1>1, <1>3, <1>9 DEF PromisedInv
  <1>11. ChainInv'
    BY <1>1, <1>3, <1>7, <1>8, <1>9 DEF ChainInv
  <1> QED
    BY <1>6, <1>8, <1>10, <1>11

-----------------------------------------------------------------------------
(* The end of the publisher, and its restart *)

\* Drop: the last sync promises what it has put on the device.
LEMMA CloseStep ==
  ASSUME CoreInv, Close
  PROVE  CoreInv'
  <1> USE DEF CoreInv
  <1>1. wpc = "idle" /\ wpc' = "down" /\ ProcessGone /\ broken' = broken /\ inc' = inc
    BY DEF Close, ProcessGone
  <1>2. WalType /\ DiskType /\ FileInv /\ inc \in Nat
    BY DEF WalType
  <1>3. CASE writer = NoWriter
    <2>1. disk' = disk /\ promised' = promised
      BY <1>3 DEF Close
    <2>2. /\ DiskType' /\ FileInv' /\ Segments' = Segments
          /\ \A f : Newest(f)' <=> Newest(f)
          /\ \A f, S : Joined(f, S)' <=> Joined(f, S)
          /\ \A r : Held(r)' <=> Held(r)
      BY <1>1, <1>2, <2>1, SameFiles
    <2>3. WalType'
      BY <1>1, <1>2, <2>1, <2>2, GoneType DEF WalType
    <2>4. ~broken => (\A f \in Segments : Newest(f) \/ Joined(f, Segments))'
      BY <2>1, <2>2 DEF ChainInv, Newest, Joined, Whole
    <2> QED
      BY <1>1, <2>1, <2>2, <2>3, <2>4, GoneCore DEF PromisedInv
  <1>4. CASE writer # NoWriter
    <2>1. PICK f, s : Active(f, s)
      BY <1>4, ActiveFacts
    <2>2. f = writer.first /\ s = writer.buf /\ s \in Seq(Entry) /\ f \in Segments
          /\ writer \in Writer
      BY <1>4, <2>1, ActiveFacts DEF Active
    <2>3. Edit(disk, Flushed(disk, writer), f, s, disk[f].synced, disk[f].failed)
      BY <1>2, <2>2, FlushedEdit
    <2>4. PICK n \in Nat, b \in BOOLEAN :
            /\ Edited(f, s, n, b) /\ disk[f].synced <= n /\ n <= Len(Recs(f)) + Len(s)
            /\ \A r \in promised' : r \in Record /\ (Held(r)' \/ Held(r))
      <3>1. CASE /\ disk' = SyncedFile(Flushed(disk, writer), writer.first)
                 /\ promised' = Promise(writer.next)
        <4>1. Edited(f, s, SyncMark(f, s), disk[f].failed)
          BY <1>2, <2>2, <2>3, <3>1, SyncedEdit DEF Edited
        <4>2. \A r \in promised' : r \in Record /\ Held(r)'
          BY <1>1, <2>1, <3>1, <4>1, PromiseHeld
        <4>3. SyncMark(f, s) \in Nat /\ disk[f].synced <= SyncMark(f, s)
              /\ SyncMark(f, s) <= Len(Recs(f)) + Len(s)
          BY <2>1, MarkFacts
        <4>4. disk[f].failed \in BOOLEAN
          BY <1>2, <2>2 DEF DiskType, File
        <4> QED
          BY <4>1, <4>2, <4>3, <4>4
      <3>2. CASE /\ disk' = [Flushed(disk, writer) EXCEPT ![writer.first].failed = TRUE]
                 /\ promised' = promised
        <4>1. Edited(f, s, disk[f].synced, TRUE)
          BY <1>2, <2>2, <2>3, <3>2, FailedEdit DEF Edited
        <4>2. \A r \in promised' : r \in Record /\ Held(r)
          BY <3>2 DEF PromisedInv, WalType
        <4>3. disk[f].synced \in Nat /\ disk[f].synced <= Len(Recs(f)) + Len(s)
          BY <2>1, <2>2, UnsyncedMark
        <4>4. disk[f].synced <= disk[f].synced
          BY <4>3
        <4> QED
          BY <4>1, <4>2, <4>3, <4>4
      <3> QED
        BY <1>4, <3>1, <3>2 DEF Close
    <2>5. Continues(f, s) /\ \A i \in DOMAIN s : s[i] # Torn
      BY <1>2, <2>1, BufferContinues DEF Active
    <2>6. /\ Grown(f, s, n, b) /\ DiskType' /\ FileInv' /\ \A r : Held(r) => Held(r)'
          /\ (\A g \in Segments : Newest(g) \/ Joined(g, Segments))
               => (\A g \in Segments : Newest(g) \/ Joined(g, Segments))'
      BY <1>1, <2>1, <2>2, <2>4, <2>5, ActiveEdited
    <2>7. WalType'
      <3>1. promised' \subseteq Record
        BY <2>4
      <3> QED
        BY <1>1, <1>2, <2>6, <3>1, GoneType
    <2>8. \A r \in promised' : Held(r)'
      BY <2>4, <2>6
    <2>9. ~broken => (\A g \in Segments : Newest(g) \/ Joined(g, Segments))'
      BY <2>6 DEF ChainInv
    <2> QED
      BY <1>1, <2>6, <2>7, <2>8, <2>9, GoneCore
  <1> QED
    BY <1>3, <1>4

\* The process dies: the file may end with a part of a record.
LEMMA KillStep ==
  ASSUME CoreInv, Kill
  PROVE  CoreInv'
  <1> USE DEF CoreInv
  <1>1. /\ wpc' = "down" /\ ProcessGone /\ broken' = broken /\ inc' = inc
        /\ promised' = promised
    BY DEF Kill, ProcessGone
  <1>2. WalType /\ DiskType /\ FileInv /\ inc \in Nat /\ promised \subseteq Record
    BY DEF WalType
  <1>3. CASE writer = NoWriter
    <2>1. disk' = disk
      BY <1>3 DEF Kill
    <2>2. /\ DiskType' /\ FileInv' /\ Segments' = Segments
          /\ \A r : Held(r)' <=> Held(r)
      BY <1>1, <1>2, <2>1, SameFiles
    <2>3. WalType'
      BY <1>1, <1>2, <2>2, GoneType
    <2>4. ~broken => (\A f \in Segments : Newest(f) \/ Joined(f, Segments))'
      BY <2>1, <2>2 DEF ChainInv, Newest, Joined, Whole
    <2> QED
      BY <1>1, <2>2, <2>3, <2>4, GoneCore DEF PromisedInv
  <1>4. CASE writer # NoWriter
    <2>1. PICK f, s : Active(f, s)
      BY <1>4, ActiveFacts
    <2>2. /\ f = writer.first /\ s = writer.buf /\ s \in Seq(Entry) /\ f \in Segments
          /\ writer \in Writer /\ Len(s) \in Nat /\ DOMAIN s = 1..Len(s)
          /\ Recs(f) \in Seq(Entry) /\ f \in Nat /\ Len(Recs(f)) \in Nat
      BY <1>4, <2>1, ActiveFacts DEF Active
    <2>3. PICK n \in 0..Len(s), rest \in {<<>>, <<Torn>>} :
            disk' = [disk EXCEPT ![f].recs = @ \o SubSeq(s, 1, n) \o rest]
      BY <1>4, <2>2 DEF Kill
    <2> DEFINE p == SubSeq(s, 1, n)
               t == p \o rest
    <2>4. p \in Seq(Entry) /\ Len(p) = n /\ \A i \in 1..n : p[i] = s[i]
      BY <2>2, PrefixFacts
    <2>5. /\ rest \in Seq(Entry) /\ \A i \in DOMAIN rest : rest[i] = Torn
      <3>1. CASE rest = <<>>
        <4>1. <<>> \in Seq(Entry) /\ DOMAIN <<>> = {}
          BY EmptyFacts
        <4> QED
          BY <3>1, <4>1
      <3>2. CASE rest = <<Torn>>
        <4>1. Torn \in Entry
          BY DEF Entry
        <4> QED
          BY <3>2, <4>1
      <3> QED
        BY <3>1, <3>2
    <2>6. disk' = [disk EXCEPT ![f].recs = (@ \o p) \o rest]
      BY <2>3
    <2> HIDE DEF p
    <2>7. /\ t \in Seq(Entry) /\ DOMAIN p = 1..n
          /\ \A i \in DOMAIN p : i \in DOMAIN t /\ t[i] = p[i]
          /\ \A i \in DOMAIN t :
               i \in DOMAIN p \/ (i - n \in DOMAIN rest /\ t[i] = rest[i - n])
      <3>1. DOMAIN p = 1..n
        BY <2>4, SeqFacts
      <3> QED
        BY <2>4, <2>5, <3>1, ConcatFacts
    <2>8. (Recs(f) \o p) \o rest = Recs(f) \o t
      <3> DEFINE a == Recs(f)
      <3>1. a \in Seq(Entry) /\ p \in Seq(Entry) /\ rest \in Seq(Entry)
        BY <2>2, <2>4, <2>5
      <3> HIDE DEF a
      <3>2. (a \o p) \o rest = a \o (p \o rest)
        BY <3>1, ConcatAssociative
      <3> QED
        BY <3>2 DEF a, t
    <2> HIDE DEF t
    <2>9. disk' = [disk EXCEPT ![f].recs = @ \o t]
      BY <2>6, <2>8
    <2>10. Edited(f, t, disk[f].synced, disk[f].failed)
      BY <1>2, <2>2, <2>7, <2>9, AppendEdit DEF Edited
    <2>11. Continues(f, t)
      <3>1. ASSUME NEW i \in DOMAIN t, t[i] # Torn
            PROVE  t[i].cursor = f + Len(Recs(f)) + i - 1 /\ t[i].inc <= inc
        <4>1. i \in 1..n /\ t[i] = s[i]
          BY <2>4, <2>5, <2>7, <3>1
        <4>2. i \in DOMAIN s
          BY <2>2, <4>1
        <4> QED
          BY <1>2, <2>1, <4>1, <4>2 DEF Active
      <3> QED
        BY <3>1 DEF Continues
    <2>12. disk[f].synced \in Nat /\ disk[f].synced <= Len(Recs(f)) + Len(t)
      BY <2>1, <2>7, UnsyncedMark
    <2>13. disk[f].synced <= disk[f].synced
      BY <2>12
    <2>14. /\ DiskType' /\ FileInv' /\ \A r : Held(r) => Held(r)'
           /\ (\A g \in Segments : Newest(g) \/ Joined(g, Segments))
                => (\A g \in Segments : Newest(g) \/ Joined(g, Segments))'
      BY <1>1, <2>1, <2>7, <2>10, <2>11, <2>12, <2>13, ActiveEdited
    <2>15. WalType'
      BY <1>1, <1>2, <2>14, GoneType
    <2>16. \A r \in promised' : Held(r)'
      BY <1>1, <2>14 DEF PromisedInv
    <2>17. ~broken => (\A g \in Segments : Newest(g) \/ Joined(g, Segments))'
      BY <2>14 DEF ChainInv
    <2> QED
      BY <1>1, <2>14, <2>15, <2>16, <2>17, GoneCore
  <1> QED
    BY <1>3, <1>4

\* A file loses records from its end, or has some of them torn, but none of
\* those that were synced.
Shrunk(f) ==
  /\ disk'[f] \in File /\ Len(Recs(f)') <= Len(Recs(f))
  /\ disk[f].synced <= disk'[f].synced /\ disk'[f].synced <= Len(Recs(f)')
  /\ \A i \in 1..Len(Recs(f)') :
       /\ Recs(f)'[i] \in {Recs(f)[i], Torn}
       /\ i <= disk'[f].synced => Recs(f)'[i] = Recs(f)[i] /\ Recs(f)'[i] # Torn

LEMMA ShrunkFacts ==
  ASSUME DiskType, FileInv, inc \in Nat, inc' \in Nat, inc <= inc',
         disk' \in [Segments -> File], \A f \in Segments : Shrunk(f)
  PROVE  Segments' = Segments /\ DiskType' /\ FileInv' /\ \A r : Held(r) => Held(r)'
  <1>1. Segments' = Segments /\ DiskType'
    BY DEF DiskType
  <1>2. ASSUME NEW f \in Segments PROVE FileOK(f)'
    <2>1. Shrunk(f) /\ FileOK(f)
      BY DEF FileInv
    <2>2. /\ DOMAIN Recs(f)' = 1..Len(Recs(f)') /\ DOMAIN Recs(f) = 1..Len(Recs(f))
          /\ Len(Recs(f)) \in Nat /\ Len(Recs(f)') \in Nat /\ disk'[f].synced \in Nat
          /\ \A i \in DOMAIN Recs(f) : Recs(f)[i] \in Entry
      BY <1>1, SeqFacts DEF DiskType, File
    <2>3. ASSUME NEW i \in 1..disk'[f].synced PROVE Recs(f)'[i] # Torn
      BY <2>1, <2>2 DEF Shrunk
    <2>4. ASSUME NEW i \in DOMAIN Recs(f)', Recs(f)'[i] # Torn
          PROVE  Recs(f)'[i].cursor = f + i - 1 /\ Recs(f)'[i].inc <= inc'
      <3>1. i \in DOMAIN Recs(f) /\ Recs(f)'[i] = Recs(f)[i]
        BY <2>1, <2>2, <2>4 DEF Shrunk
      <3>2. Recs(f)[i].cursor = f + i - 1 /\ Recs(f)[i].inc <= inc
        BY <2>1, <2>4, <3>1 DEF FileOK
      <3>3. Recs(f)[i].inc \in Nat
        BY <2>2, <2>4, <3>1 DEF Entry, Record
      <3> QED
        BY <3>1, <3>2, <3>3
    <2>5. disk'[f].synced <= Len(Recs(f)')
      BY <2>1 DEF Shrunk
    <2> QED
      BY <2>3, <2>4, <2>5 DEF FileOK
  <1>3. ASSUME NEW r, Held(r) PROVE Held(r)'
    <2>1. PICK g \in Segments : \E i \in 1..disk[g].synced :
            Recs(g)[i] = r /\ \A h \in Segments : h > g => r.cursor < h
      BY <1>3 DEF Held
    <2>2. PICK i \in 1..disk[g].synced :
            Recs(g)[i] = r /\ \A h \in Segments : h > g => r.cursor < h
      BY <2>1
    <2>3. /\ disk[g].synced \in Nat /\ disk'[g].synced \in Nat /\ Len(Recs(g)') \in Nat
      BY <1>1, SeqFacts DEF DiskType, File
    <2>4. i \in 1..disk'[g].synced /\ i \in 1..Len(Recs(g)')
      BY <2>3 DEF Shrunk
    <2>5. Recs(g)'[i] = r
      BY <2>2, <2>3, <2>4 DEF Shrunk
    <2> QED
      BY <1>1, <2>2, <2>4, <2>5 DEF Held
  <1> QED
    BY <1>1, <1>2, <1>3 DEF FileInv

\* recover_truncate keeps all before the first torn record.
LEMMA RecoverFacts ==
  ASSUME DiskType, FileInv, NEW f \in Segments, disk'[f] = RecoverTruncate(disk[f])
  PROVE  /\ Shrunk(f) /\ Whole(f)'
         /\ Whole(f) => disk'[f] = disk[f]
         /\ Len(Recs(f)') = Len(Recs(f)) \/ (Len(Recs(f)') + 1 \in DOMAIN Recs(f)
                                              /\ Recs(f)[Len(Recs(f)') + 1] = Torn)
         /\ \A i \in DOMAIN Recs(f)' : Recs(f)'[i] = Recs(f)[i]
  <1> DEFINE s == Recs(f)
             z == Intact(s)
             m == disk[f].synced
  <1>1. s \in Seq(Entry) /\ m \in Nat /\ disk[f] \in File /\ FileOK(f)
    BY DEF DiskType, File, FileInv
  <1>2. DOMAIN s = 1..Len(s) /\ Len(s) \in Nat
    BY <1>1, SeqFacts
  <1>3. /\ z \in Seq(Entry) /\ Len(z) <= Len(s)
        /\ \A i \in 1..Len(z) : z[i] = s[i] /\ s[i] # Torn
        /\ Len(z) = Len(s) \/ (Len(z) + 1 \in DOMAIN s /\ s[Len(z) + 1] = Torn)
        /\ (\A i \in DOMAIN s : s[i] # Torn) => z = s
    BY <1>1, IntactFacts
  <1>4. DOMAIN z = 1..Len(z) /\ Len(z) \in Nat
    BY <1>3, SeqFacts
  <1>5. m <= Len(s) /\ \A i \in 1..m : s[i] # Torn
    BY <1>1 DEF FileOK
  <1>6. Torn \in ToSet(s) <=> \E i \in DOMAIN s : s[i] = Torn
    BY DEF ToSet
  <1>7. CASE Torn \in ToSet(s)
    <2>1. disk'[f] = [disk[f] EXCEPT !.recs = z, !.synced = Len(z)]
      BY <1>7 DEF RecoverTruncate
    <2> HIDE DEF z
    <2>2. disk'[f] \in File /\ Recs(f)' = z /\ disk'[f].synced = Len(z)
      BY <1>1, <1>3, <1>4, <2>1 DEF File
    <2>3. m <= Len(z)
      BY <1>1, <1>2, <1>3, <1>4, <1>5
    <2>4. Len(z) <= Len(s) /\ Len(z) <= Len(z)
      BY <1>3, <1>4
    <2>5. Shrunk(f)
      BY <1>3, <2>2, <2>3, <2>4 DEF Shrunk
    <2>6. Whole(f)' /\ \A i \in DOMAIN Recs(f)' : Recs(f)'[i] = Recs(f)[i]
      BY <1>3, <1>4, <2>2 DEF Whole
    <2>7. ~Whole(f)
      BY <1>6, <1>7 DEF Whole
    <2> QED
      BY <1>3, <2>2, <2>5, <2>6, <2>7
  <1>8. CASE Torn \notin ToSet(s)
    <2>1. disk'[f] = disk[f]
      BY <1>8 DEF RecoverTruncate
    <2>2. Whole(f)
      BY <1>6, <1>8 DEF Whole
    <2>3. Shrunk(f)
      <3>1. Len(s) <= Len(s) /\ m <= m
        BY <1>1, <1>2
      <3> QED
        BY <1>1, <1>2, <1>5, <2>1, <3>1 DEF Shrunk
    <2> QED
      BY <2>1, <2>2, <2>3 DEF Whole
  <1> QED
    BY <1>7, <1>8

LEMMA PowerLossStep ==
  ASSUME CoreInv, PowerLoss
  PROVE  CoreInv'
  <1> USE DEF CoreInv
  <1>1. /\ wpc = "down" /\ wpc' = "lost" /\ broken' = TRUE /\ writer' = writer
        /\ durable' = durable /\ policy' = policy /\ tail' = tail /\ call' = call
        /\ fpc' = fpc /\ fsave' = fsave /\ inc' = inc /\ promised' = promised
    BY DEF PowerLoss, inner, marks, flusher
  <1>2. DiskType /\ FileInv /\ inc \in Nat
    BY DEF WalType
  <1> DEFINE dirty == {f \in DOMAIN disk : Unsynced(f) # {}}
  <1>3. PICK kept, len :
          /\ \A f \in dirty : len[f] \in disk[f].synced..Len(disk[f].recs)
          /\ disk' = [f \in DOMAIN disk |->
                        IF f \in dirty THEN Remains(disk[f], len[f], kept) ELSE disk[f]]
    BY DEF PowerLoss
  <1> HIDE DEF dirty
  <1>4. ASSUME NEW f \in Segments PROVE Shrunk(f)
    <2> DEFINE s == Recs(f)
               m == disk[f].synced
    <2>1. s \in Seq(Entry) /\ m \in Nat /\ disk[f] \in File /\ FileOK(f)
      BY <1>2 DEF DiskType, File, FileInv
    <2>2. /\ DOMAIN s = 1..Len(s) /\ Len(s) \in Nat /\ \A i \in 1..Len(s) : s[i] \in Entry
      BY <2>1, SeqFacts
    <2>3. m <= Len(s) /\ \A i \in 1..m : s[i] # Torn
      BY <2>1 DEF FileOK
    <2>4. CASE f \in dirty
      <3>1. PICK k : k = len[f]
        OBVIOUS
      <3>2. k \in m..Len(s)
        BY <1>3, <2>4, <3>1
      <3> DEFINE z == [i \in 1..k |-> IF i <= m \/ s[i] \in kept THEN s[i] ELSE Torn]
      <3>3. disk'[f] = [disk[f] EXCEPT !.recs = z]
        BY <1>3, <2>4, <3>1 DEF Remains
      <3>4. k \in Nat /\ k <= Len(s) /\ m <= k
        BY <2>1, <2>2, <3>2
      <3>5. \A i \in 1..k : z[i] \in Entry /\ z[i] \in {s[i], Torn} /\ (i <= m => z[i] = s[i])
        BY <2>2, <3>4 DEF Entry
      <3>6. z \in Seq(Entry) /\ Len(z) = k
        <4>1. z \in [1..k -> Entry]
          BY <3>5
        <4>2. z \in Seq(Entry)
          BY <3>4, <4>1
        <4>3. DOMAIN z = 1..k
          OBVIOUS
        <4> HIDE DEF z
        <4> QED
          BY <3>4, <4>2, <4>3, LenDomain
      <3> HIDE DEF z
      <3>7. disk'[f] \in File /\ Recs(f)' = z /\ disk'[f].synced = m
        BY <2>1, <3>3, <3>6 DEF File
      <3>8. \A i \in 1..k : z[i] \in {s[i], Torn} /\ (i <= m => z[i] = s[i] /\ z[i] # Torn)
        BY <2>1, <2>3, <3>4, <3>5
      <3>9. m <= m
        BY <2>1
      <3> QED
        BY <3>4, <3>6, <3>7, <3>8, <3>9 DEF Shrunk
    <2>5. CASE f \notin dirty
      <3>1. disk'[f] = disk[f]
        BY <1>3, <2>5
      <3>2. Len(s) <= Len(s) /\ m <= m
        BY <2>1, <2>2
      <3> QED
        BY <2>1, <2>2, <2>3, <3>1, <3>2 DEF Shrunk
    <2> QED
      BY <2>4, <2>5
  <1>5. disk' \in [Segments -> File]
    BY <1>3, <1>4 DEF Shrunk
  <1>6. inc <= inc'
    BY <1>1, <1>2
  <1>7. Segments' = Segments /\ DiskType' /\ FileInv' /\ \A r : Held(r) => Held(r)'
    BY <1>1, <1>2, <1>4, <1>5, <1>6, ShrunkFacts
  <1>8. WalType'
    BY <1>1, <1>7 DEF WalType
  <1>9. fpc = "idle" /\ writer = NoWriter
    BY <1>1 DEF PcInv, Stopped
  <1>10. PcInv' /\ WriterInv' /\ TakenInv' /\ FlushInv'
    BY <1>1, <1>9 DEF PcInv, WriterInv, TakenInv, FlushInv, Stopped
  <1>11. ~Running'
    BY <1>1 DEF Running, Stopped
  <1> QED
    BY <1>1, <1>7, <1>8, <1>10, <1>11 DEF LiveInv, ClosedInv, PromisedInv, ChainInv

\* A recovery, of all the segments or of some, leaves the run of segments.
LEMMA RecoveredChain ==
  ASSUME DiskType, FileInv, Segments' = Segments,
         \A f \in Segments : disk'[f] \in {disk[f], RecoverTruncate(disk[f])}
  PROVE  \A f \in Segments : /\ Newest(f)' <=> Newest(f)
                             /\ Whole(f) => disk'[f] = disk[f]
                             /\ Joined(f, Segments) => Joined(f, Segments)'
  <1> SUFFICES ASSUME NEW f \in Segments
               PROVE  /\ Newest(f)' <=> Newest(f)
                      /\ Whole(f) => disk'[f] = disk[f]
                      /\ Joined(f, Segments) => Joined(f, Segments)'
    OBVIOUS
  <1>1. Newest(f)' <=> Newest(f)
    BY DEF Newest
  <1>2. Whole(f) => disk'[f] = disk[f]
    BY RecoverFacts
  <1> QED
    BY <1>1, <1>2 DEF Joined, Whole

LEMMA SameShrunk ==
  ASSUME DiskType, FileInv, NEW f \in Segments, disk'[f] = disk[f]
  PROVE  Shrunk(f)
  <1>1. /\ Recs(f) \in Seq(Entry) /\ disk[f].synced \in Nat /\ disk[f] \in File /\ FileOK(f)
        /\ Len(Recs(f)) \in Nat
    BY SeqFacts DEF DiskType, File, FileInv
  <1>2. Len(Recs(f)) <= Len(Recs(f)) /\ disk[f].synced <= disk[f].synced
    BY <1>1
  <1> QED
    BY <1>1, <1>2 DEF Shrunk, FileOK

LEMMA OpenFailsStep ==
  ASSUME CoreInv, OpenFails
  PROVE  CoreInv'
  <1> USE DEF CoreInv
  <1>1. /\ wpc \in Stopped /\ wpc' = wpc /\ broken' = broken /\ writer' = writer
        /\ durable' = durable /\ policy' = policy /\ tail' = tail /\ call' = call
        /\ fpc' = fpc /\ fsave' = fsave /\ inc' = inc /\ promised' = promised
    BY DEF OpenFails, inner, marks, flusher
  <1>2. DiskType /\ FileInv /\ inc \in Nat
    BY DEF WalType
  <1>3. PICK done : disk' = [f \in DOMAIN disk |->
                               IF f \in done THEN RecoverTruncate(disk[f]) ELSE disk[f]]
    BY DEF OpenFails
  <1>4. ASSUME NEW f \in Segments
        PROVE  disk'[f] \in {disk[f], RecoverTruncate(disk[f])} /\ Shrunk(f)
    <2>1. disk'[f] = disk[f] \/ disk'[f] = RecoverTruncate(disk[f])
      BY <1>3
    <2> QED
      BY <1>2, <2>1, RecoverFacts, SameShrunk
  <1>5. disk' \in [Segments -> File] /\ inc <= inc'
    BY <1>1, <1>2, <1>3, <1>4 DEF Shrunk
  <1>6. Segments' = Segments /\ DiskType' /\ FileInv' /\ \A r : Held(r) => Held(r)'
    BY <1>1, <1>2, <1>4, <1>5, ShrunkFacts
  <1>7. WalType'
    BY <1>1, <1>6 DEF WalType
  <1>8. fpc = "idle" /\ writer = NoWriter
    BY <1>1 DEF PcInv, Stopped
  <1>9. PcInv' /\ WriterInv' /\ TakenInv' /\ FlushInv'
    BY <1>1, <1>8 DEF PcInv, WriterInv, TakenInv, FlushInv, Stopped
  <1>10. ~Running'
    BY <1>1 DEF Running
  <1>11. PromisedInv' /\ LiveInv' /\ ClosedInv'
    BY <1>1, <1>6, <1>10 DEF LiveInv, ClosedInv, PromisedInv
  <1>12. ChainInv'
    <2>1. ~broken => (\A f \in Segments : Newest(f) \/ Joined(f, Segments))'
      BY <1>2, <1>4, <1>6, RecoveredChain DEF ChainInv
    <2> QED
      BY <1>1, <1>10, <2>1 DEF ChainInv
  <1> QED
    BY <1>6, <1>7, <1>9, <1>11, <1>12

\* Wal::open: the tail goes on behind the last intact record of the newest
\* segment, which is behind everything that was promised.
LEMMA OpenStep ==
  ASSUME CoreInv, Open
  PROVE  CoreInv'
  <1> USE DEF CoreInv
  <1>1. /\ wpc \in Stopped /\ broken' = broken /\ writer' = NoWriter
        /\ disk' = [f \in Segments |-> RecoverTruncate(disk[f])] /\ index' = Segments
        /\ call' = OpenCall /\ fpc' = "idle" /\ fsave' = NoSave /\ inc' = inc + 1
        /\ promised' = promised /\ wpc' \in {"idle", "create"}
    BY DEF Open
  <1>2. DiskType /\ FileInv /\ inc \in Nat /\ inc' \in Nat /\ inc <= inc' /\ MaxCursor \in Nat
    BY <1>1, ConstantsOK DEF WalType
  <1>3. ASSUME NEW f \in Segments
        PROVE  /\ disk'[f] = RecoverTruncate(disk[f]) /\ Shrunk(f) /\ Whole(f)'
               /\ \A i \in DOMAIN Recs(f)' : Recs(f)'[i] = Recs(f)[i]
    <2>1. disk'[f] = RecoverTruncate(disk[f])
      BY <1>1
    <2> QED
      BY <1>2, <2>1, RecoverFacts
  <1>4. disk' \in [Segments -> File]
    BY <1>1, <1>3 DEF Shrunk
  <1>5. Segments' = Segments /\ DiskType' /\ FileInv' /\ \A r : Held(r) => Held(r)'
    BY <1>2, <1>3, <1>4, ShrunkFacts
  <1>6. ASSUME NEW f \in Segments
        PROVE  /\ Recs(f)' \in Seq(Entry) /\ DOMAIN Recs(f)' = 1..Len(Recs(f)')
               /\ Len(Recs(f)') \in Nat /\ f \in 0..MaxCursor /\ f \in Nat
               /\ (Recs(f)' = <<>> <=> Len(Recs(f)') = 0)
               /\ \A i \in DOMAIN Recs(f)' :
                    Recs(f)'[i] \in Record /\ Recs(f)'[i].cursor = f + i - 1
    <2>1. Recs(f)' \in Seq(Entry) /\ f \in 0..MaxCursor /\ f \in Nat
      BY <1>2, <1>5 DEF DiskType, File
    <2>2. /\ DOMAIN Recs(f)' = 1..Len(Recs(f)') /\ Len(Recs(f)') \in Nat
          /\ (Recs(f)' = <<>> <=> Len(Recs(f)') = 0)
          /\ \A i \in DOMAIN Recs(f)' : Recs(f)'[i] \in Entry
      BY <2>1, SeqFacts
    <2>3. Whole(f)' /\ FileOK(f)'
      BY <1>3, <1>5 DEF FileInv
    <2>4. \A i \in DOMAIN Recs(f)' : Recs(f)'[i] \in Record /\ Recs(f)'[i].cursor = f + i - 1
      BY <2>2, <2>3 DEF Whole, FileOK, Entry
    <2> QED
      BY <2>1, <2>2, <2>4
  <1>7. /\ durable' = tail' /\ tail' \in 0..MaxCursor
        /\ \A f \in Segments : f <= tail' /\ (Newest(f) => f + Len(Recs(f)') = tail')
    <2>1. CASE Segments = {}
      BY <1>1, <1>2, <2>1 DEF Open
    <2>2. CASE Segments # {}
      <3>1. PICK m : m = Max(Segments)
        OBVIOUS
      <3>2. m \in Segments /\ \A g \in Segments : g <= m
        BY <1>2, <2>2, <3>1, MaxFacts DEF DiskType
      <3>3. durable' = tail' /\ tail' = NextCursor(m, Recs(m)')
        BY <1>1, <2>2, <3>1 DEF Open
      <3>4. tail' = m + Len(Recs(m)') /\ tail' \in 0..MaxCursor
        <4>1. CASE Recs(m)' = <<>>
          BY <1>6, <3>2, <3>3, <4>1 DEF NextCursor
        <4>2. CASE Recs(m)' # <<>>
          <5> DEFINE k == Len(Recs(m)')
          <5>1. k \in DOMAIN Recs(m)' /\ k \in Nat /\ m \in Nat
            BY <1>6, <3>2, <4>2
          <5>2. tail' = Recs(m)'[k].cursor + 1
            BY <3>3, <4>2 DEF NextCursor, Last
          <5>3. Recs(m)'[k] \in Record /\ Recs(m)'[k].cursor = m + k - 1
            BY <1>6, <3>2, <5>1
          <5>4. Recs(m)'[k].cursor \in 0..(MaxCursor - 1)
            BY <5>3 DEF Record
          <5> HIDE DEF k
          <5>5. tail' = m + k /\ tail' \in 0..MaxCursor
            BY <1>2, <5>1, <5>2, <5>3, <5>4
          <5> QED
            BY <5>5 DEF k
        <4> QED
          BY <4>1, <4>2
      <3>5. ASSUME NEW f \in Segments PROVE f <= tail' /\ (Newest(f) => f + Len(Recs(f)') = tail')
        <4>1. m <= m + Len(Recs(m)') /\ m \in Nat /\ f \in Nat /\ tail' \in Nat
          BY <1>6, <3>2, <3>4
        <4>2. f <= m /\ (Newest(f) => f = m)
          BY <3>2, <4>1 DEF Newest
        <4> QED
          BY <3>4, <4>1, <4>2
      <3> QED
        BY <3>3, <3>4, <3>5
    <2> QED
      BY <2>1, <2>2
  <1>8. Running' /\ Upcoming' = tail' /\ tail' \in Nat
    <2>1. tail' \in Nat
      BY <1>2, <1>7
    <2> QED
      BY <1>1, <2>1 DEF Running, Stopped, Upcoming
  <1>9. WalType'
    BY <1>1, <1>2, <1>5, <1>7 DEF WalType, OpenCall
  <1>10. PcInv' /\ WriterInv' /\ TakenInv' /\ FlushInv'
    BY <1>1 DEF PcInv, WriterInv, TakenInv, FlushInv, Stopped
  <1>11. LiveInv'
    BY <1>1, <1>3, <1>5, <1>7 DEF LiveInv
  <1>12. ClosedInv'
    <2>1. ASSUME NEW f \in Segments, NEW i \in DOMAIN Recs(f)' PROVE Recs(f)'[i].inc # inc'
      <3>1. i \in DOMAIN Recs(f) /\ Recs(f)'[i] = Recs(f)[i] /\ Recs(f)'[i] \in Record
        <4>1. Len(Recs(f)) \in Nat /\ DOMAIN Recs(f) = 1..Len(Recs(f))
          BY <1>2, SeqFacts DEF DiskType, File
        <4>2. Len(Recs(f)') <= Len(Recs(f))
          BY <1>3 DEF Shrunk
        <4> QED
          BY <1>3, <1>6, <4>1, <4>2
      <3>2. Recs(f)[i].inc <= inc /\ Recs(f)[i].inc \in Nat
        BY <1>2, <3>1, TornIsNoRecord DEF FileInv, FileOK, Record
      <3> QED
        BY <1>1, <1>2, <3>1, <3>2
    <2> QED
      BY <1>5, <2>1 DEF ClosedInv, Closed
  <1>13. PromisedInv'
    <2>1. ASSUME NEW r \in promised PROVE Held(r)' /\ r.cursor < tail'
      <3>1. Held(r)'
        BY <1>5 DEF PromisedInv
      <3>2. PICK f \in Segments : \E i \in 1..disk'[f].synced :
              Recs(f)'[i] = r /\ \A g \in Segments : g > f => r.cursor < g
        BY <1>5, <3>1 DEF Held
      <3>3. PICK i \in 1..disk'[f].synced :
              Recs(f)'[i] = r /\ \A g \in Segments : g > f => r.cursor < g
        BY <3>2
      <3>4. disk'[f].synced \in Nat /\ disk'[f].synced <= Len(Recs(f)')
        BY <1>5 DEF FileInv, FileOK, DiskType, File
      <3>5. i \in DOMAIN Recs(f)' /\ r.cursor = f + i - 1 /\ i <= Len(Recs(f)') /\ i \in Nat
        BY <1>6, <3>3, <3>4
      <3>6. CASE Newest(f)
        <4>1. f + Len(Recs(f)') = tail' /\ f \in Nat /\ Len(Recs(f)') \in Nat
          BY <1>6, <1>7, <3>6
        <4> QED
          BY <3>1, <3>5, <4>1
      <3>7. CASE ~Newest(f)
        <4>1. PICK g \in Segments : ~(g <= f)
          BY <3>7 DEF Newest
        <4>2. g > f /\ g \in Nat /\ f \in Nat
          BY <1>6, <4>1
        <4>3. r.cursor < g /\ g <= tail' /\ r.cursor \in Int
          BY <1>7, <3>3, <3>5, <4>2
        <4> QED
          BY <1>8, <3>1, <4>2, <4>3
      <3> QED
        BY <3>6, <3>7
    <2> QED
      BY <1>1, <2>1 DEF PromisedInv
  <1>14. ChainInv'
    <2>1. \A f \in Segments : disk'[f] \in {disk[f], RecoverTruncate(disk[f])}
      BY <1>3
    <2>2. ~broken => (\A f \in Segments : Newest(f) \/ Joined(f, Segments))'
      BY <1>2, <1>5, <2>1, RecoveredChain DEF ChainInv
    <2>3. \A f \in Segments : Newest(f)' <=> Newest(f)
      BY <1>2, <1>5, <2>1, RecoveredChain
    <2>4. durable' <= tail'
      BY <1>7, <1>8
    <2> QED
      BY <1>1, <1>5, <1>7, <1>8, <2>2, <2>3, <2>4 DEF ChainInv
  <1> QED
    BY <1>5, <1>9, <1>10, <1>11, <1>12, <1>13, <1>14

-----------------------------------------------------------------------------
(* The invariant *)

LEMMA InitCore == Init => CoreInv
  <1> SUFFICES ASSUME Init PROVE CoreInv
    OBVIOUS
  <1>1. Segments = {} /\ disk = <<>>
    BY EmptyFacts DEF Init
  <1>2. DiskType
    BY <1>1 DEF DiskType, Init
  <1>3. WalType
    <2>1. tail \in 0..MaxCursor
      BY ConstantsOK DEF Init
    <2>2. call \in [size : Nat, rotated : BOOLEAN]
      BY DEF Init, OpenCall
    <2> QED
      BY <1>2, <2>1, <2>2 DEF Init, WalType
  <1>4. ~Running
    BY DEF Init, Running, Stopped
  <1> QED
    BY <1>1, <1>3, <1>4 DEF Init, CoreInv, PcInv, FileInv, LiveInv, WriterInv, ClosedInv,
       TakenInv, FlushInv, PromisedInv, ChainInv

LEMMA NextCore == CoreInv /\ [Next]_vars => CoreInv'
  <1> SUFFICES ASSUME CoreInv, [Next]_vars PROVE CoreInv'
    OBVIOUS
  <1>1. CASE Open \/ OpenFails
    BY <1>1, OpenStep, OpenFailsStep
  <1>2. CASE AppendStep
    BY <1>2, QuietSteps, RotateStep, CreateFileStep, CreateFailsStep, WriteHeaderStep,
       WriteRecordStep, SyncEachStep, SyncEachFailsStep, CloseFailsStep, DeleteOldestStep
       DEF AppendStep
  <1>3. CASE FlusherStep
    BY <1>3, FlushStep, SyncDataStep, SyncFailsStep DEF FlusherStep
  <1>4. CASE Close \/ Kill \/ PowerLoss
    BY <1>4, CloseStep, KillStep, PowerLossStep
  <1>5. CASE ReaderStep \/ UNCHANGED vars
    <2>1. UNCHANGED <<disk, inner, marks, wpc, call, flusher, inc, promised, broken>>
      BY <1>5 DEF ReaderStep, ReadFrom, OpenSegment, ReadRecord, ReadEnds, DropReplayer, vars
    <2> QED
      BY <2>1, SameCore
  <1> QED
    BY <1>1, <1>2, <1>3, <1>4, <1>5 DEF Next

LEMMA CoreHolds == Spec => []CoreInv
  BY InitCore, NextCore, PTL DEF Spec

LEMMA IntactReaches ==
  ASSUME DiskType, FileInv, NEW f \in Segments
  PROVE  disk[f].synced <= Len(Intact(Recs(f)))
  <1> DEFINE s == Recs(f)
             k == Len(Intact(s))
             m == disk[f].synced
  <1>1. s \in Seq(Entry) /\ m \in Nat /\ m <= Len(s) /\ \A i \in 1..m : s[i] # Torn
    BY DEF DiskType, File, FileInv, FileOK
  <1>2. /\ Intact(s) \in Seq(Entry)
        /\ k = Len(s) \/ (k + 1 \in DOMAIN s /\ s[k + 1] = Torn)
    BY <1>1, IntactFacts
  <1>3. k \in Nat /\ Len(s) \in Nat
    BY <1>1, <1>2, SeqFacts
  <1> HIDE DEF s, k, m
  <1>4. m <= k
    BY <1>1, <1>2, <1>3
  <1> QED
    BY <1>4 DEF s, k, m

LEMMA CoreSurvive == CoreInv => SyncedSurvive
  <1> SUFFICES ASSUME CoreInv, NEW r \in promised PROVE Safe(r)
    BY DEF SyncedSurvive
  <1>1. DiskType /\ FileInv /\ Held(r)
    BY DEF CoreInv, WalType, PromisedInv
  <1>2. PICK f \in Segments : \E i \in 1..disk[f].synced : Recs(f)[i] = r
    BY <1>1 DEF Held
  <1>3. PICK i \in 1..disk[f].synced : Recs(f)[i] = r
    BY <1>2
  <1>4. disk[f].synced <= Len(Intact(Recs(f))) /\ disk[f].synced \in Nat
        /\ Intact(Recs(f)) \in Seq(Entry)
    BY <1>1, IntactReaches, IntactFacts DEF DiskType, File
  <1>5. Len(Intact(Recs(f))) \in Nat
    BY <1>4, SeqFacts
  <1>6. i <= Len(Intact(Recs(f)))
    BY <1>4, <1>5
  <1> QED
    BY <1>3, <1>6 DEF Safe

\* Whatever the sizes, the policies and the order in which the publisher, its
\* flusher, kills, power losses, failed creates and syncs and recoveries follow
\* each other, a record that a sync of append, of the flusher or of Drop has put
\* below durable_cursor stays on the device until retention deletes it.
THEOREM PromisesKept == Spec => []SyncedSurvive
  BY CoreHolds, CoreSurvive, PTL

LEMMA CoreCursors == CoreInv => CursorsNotReissued
  <1> SUFFICES ASSUME CoreInv, wpc = "append", NEW r \in promised PROVE r.cursor < tail
    BY DEF CursorsNotReissued
  <1> QED
    BY DEF CoreInv, PromisedInv, Running, Stopped

\* SegmentWriter::append never gives a cursor that a sync has reported durable
\* to another record, whatever a recovery has cut off the log.
THEOREM CursorsStayUsed == Spec => []CursorsNotReissued
  BY CoreHolds, CoreCursors, PTL

LEMMA CoreContiguous == CoreInv => LogContiguous
  <1> SUFFICES ASSUME CoreInv, ~broken, NEW f \in Segments
               PROVE  /\ \A i \in DOMAIN Intact(Recs(f)) :
                           Intact(Recs(f))[i].cursor = f + i - 1
                      /\ f # Max(Segments) =>
                           f + Len(Intact(Recs(f))) = Min({g \in Segments : g > f})
    BY DEF LogContiguous
  <1> DEFINE s == Recs(f)
             z == Intact(s)
  <1>1. DiskType /\ FileInv /\ s \in Seq(Entry) /\ Segments \subseteq 0..MaxCursor
        /\ MaxCursor \in Nat /\ Segments \subseteq Nat
    BY ConstantsOK DEF CoreInv, WalType, DiskType, File
  <1>2. /\ z \in Seq(Entry) /\ Len(z) <= Len(s)
        /\ \A i \in 1..Len(z) : z[i] = s[i] /\ s[i] # Torn
        /\ (\A i \in DOMAIN s : s[i] # Torn) => z = s
    BY <1>1, IntactFacts
  <1>3. DOMAIN z = 1..Len(z) /\ Len(z) \in Nat /\ DOMAIN s = 1..Len(s) /\ Len(s) \in Nat
        /\ (s = <<>> <=> Len(s) = 0)
    BY <1>1, <1>2, SeqFacts
  <1>4. ASSUME NEW i \in DOMAIN z PROVE z[i].cursor = f + i - 1
    <2> HIDE DEF z
    <2>1. i \in DOMAIN s /\ s[i] # Torn /\ z[i] = s[i]
      BY <1>2, <1>3
    <2> QED
      BY <1>1, <2>1 DEF FileInv, FileOK
  <1>5. ASSUME f # Max(Segments) PROVE f + Len(z) = Min({g \in Segments : g > f})
    <2>1. Max(Segments) \in Segments /\ \A y \in Segments : y <= Max(Segments)
      BY <1>1, MaxFacts
    <2>2. ~Newest(f)
      BY <1>1, <1>5, <2>1 DEF Newest
    <2>3. Joined(f, Segments)
      BY <2>2 DEF CoreInv, ChainInv
    <2>4. z = s /\ s # <<>> /\ f + Len(s) \in Segments
          /\ \A g \in Segments : g > f => f + Len(s) <= g
      BY <1>2, <2>3 DEF Joined, Whole
    <2> DEFINE later == {g \in Segments : g > f}
    <2>5. f + Len(s) \in later /\ later \subseteq Nat
      BY <1>1, <1>3, <2>4
    <2>6. \A g \in later : f + Len(s) <= g
      BY <2>4
    <2> HIDE DEF later
    <2>7. Min(later) \in later /\ \A y \in later : Min(later) <= y
      BY <2>5, MinFacts
    <2>8. f + Len(s) = Min(later)
      <3>1. PICK a : a = f + Len(s)
        OBVIOUS
      <3>2. a \in later /\ a \in Nat /\ Min(later) \in Nat /\ a <= Min(later) /\ Min(later) <= a
        BY <2>5, <2>6, <2>7, <3>1
      <3> QED
        BY <3>1, <3>2
    <2> QED
      BY <2>4, <2>8 DEF later
  <1> QED
    BY <1>4, <1>5

\* A log that no power loss and no failed sync of append has broken is one run
\* of cursors, over every sequence of rotations, kills, failed creates and
\* recoveries.
THEOREM LogStaysContiguous == Spec => []LogContiguous
  BY CoreHolds, CoreContiguous, PTL

-----------------------------------------------------------------------------
(* A replay *)

LEMMA TodoCreate ==
  ASSUME CoreInv, TodoInv, CreateFile
  PROVE  TodoInv'
  <1> USE DEF CoreInv
  <1>1. /\ tail \notin Segments /\ wpc = "create" /\ rpc' = rpc /\ rtodo' = rtodo /\ rgoal' = rgoal
        /\ disk' = [f \in Segments \cup {tail} |-> IF f = tail THEN EmptyFile ELSE disk[f]]
    BY DEF CreateFile, Collides, reader
  <1>2. Segments' = Segments \cup {tail} /\ \A g \in Segments : disk'[g] = disk[g]
    BY <1>1
  <1>3. \A g \in Segments : g < tail
    BY <1>1 DEF LiveInv, Running, Stopped, WalType, DiskType
  <1> SUFFICES ASSUME rpc \in {"next", "read"}, NEW f \in rtodo
               PROVE  /\ \E g \in Segments' : f <= g
                      /\ f \in Segments' =>
                           \/ (\A g \in rtodo : g <= f) /\ Reaches(f)'
                           \/ Joined(f, rtodo)' /\ \A g \in rtodo : g > f => g \in Segments'
    BY <1>1 DEF TodoInv
  <1>4. PICK h \in Segments : f <= h
    BY DEF TodoInv
  <1>5. f # tail
    BY <1>3, <1>4 DEF WalType, DiskType
  <1>6. ASSUME f \in Segments, Reaches(f) PROVE Reaches(f)'
    BY <1>1, <1>2, <1>6 DEF Reaches
  <1>7. ASSUME f \in Segments, Joined(f, rtodo) PROVE Joined(f, rtodo)'
    BY <1>1, <1>2, <1>7 DEF Joined, Whole
  <1> QED
    BY <1>2, <1>4, <1>5, <1>6, <1>7 DEF TodoInv

LEMMA TodoDelete ==
  ASSUME CoreInv, TodoInv, ReaderType, DeleteOldest
  PROVE  TodoInv'
  <1> USE DEF CoreInv
  <1>1. wpc = "retain" /\ Retirable # {} /\ rpc' = rpc /\ rtodo' = rtodo /\ rgoal' = rgoal
    BY DEF DeleteOldest, reader
  <1>2. PICK k : k = Min(Retirable)
    OBVIOUS
  <1>3. /\ k \in Segments /\ \A g \in Segments : k <= g
        /\ writer.first \in Segments \ {k}
    BY <1>1, <1>2, OldestFacts
  <1>4. Segments' = Segments \ {k} /\ \A g \in Segments \ {k} : disk'[g] = disk[g]
    BY <1>2 DEF DeleteOldest, Without
  <1>5. Segments \subseteq Nat /\ rtodo \subseteq Nat
    BY DEF WalType, DiskType, ReaderType
  <1>6. \A g \in Segments : g <= writer.first
    BY <1>1 DEF WriterInv, PcInv
  <1> SUFFICES ASSUME rpc \in {"next", "read"}, NEW f \in rtodo
               PROVE  /\ \E g \in Segments' : f <= g
                      /\ f \in Segments' =>
                           \/ (\A g \in rtodo : g <= f) /\ Reaches(f)'
                           \/ Joined(f, rtodo)' /\ \A g \in rtodo : g > f => g \in Segments'
    BY <1>1 DEF TodoInv
  <1>7. PICK h \in Segments : f <= h
    BY DEF TodoInv
  <1>8. f <= writer.first
    BY <1>3, <1>5, <1>6, <1>7
  <1>9. ASSUME f \in Segments \ {k}, Reaches(f) PROVE Reaches(f)'
    BY <1>1, <1>4, <1>9 DEF Reaches
  <1>10. ASSUME f \in Segments \ {k}, Joined(f, rtodo), \A g \in rtodo : g > f => g \in Segments
         PROVE  Joined(f, rtodo)' /\ \A g \in rtodo : g > f => g \in Segments \ {k}
    <2>1. f > k
      BY <1>3, <1>5, <1>10
    <2> QED
      BY <1>1, <1>3, <1>4, <1>5, <1>10, <2>1 DEF Joined, Whole
  <1> QED
    BY <1>3, <1>4, <1>8, <1>9, <1>10 DEF TodoInv

\* A recovery cuts no file below what a replay is to reach.
LEMMA TodoRecover ==
  ASSUME CoreInv, TodoInv, ReaderType, UNCHANGED reader, Segments' = Segments,
         \A f \in Segments : disk'[f] \in {disk[f], RecoverTruncate(disk[f])}
  PROVE  TodoInv'
  <1> USE DEF CoreInv
  <1>1. rpc' = rpc /\ rtodo' = rtodo /\ rgoal' = rgoal /\ rgoal \in Nat
    BY DEF reader, ReaderType
  <1>2. DiskType /\ FileInv
    BY DEF WalType
  <1> SUFFICES ASSUME rpc \in {"next", "read"}, NEW f \in rtodo
               PROVE  /\ \E g \in Segments : f <= g
                      /\ f \in Segments =>
                           \/ (\A g \in rtodo : g <= f) /\ Reaches(f)'
                           \/ Joined(f, rtodo)' /\ \A g \in rtodo : g > f => g \in Segments
    BY <1>1 DEF TodoInv
  <1>3. ASSUME f \in Segments, Reaches(f) PROVE Reaches(f)'
    <2>1. CASE disk'[f] = disk[f]
      BY <1>1, <1>3, <2>1 DEF Reaches
    <2>2. CASE disk'[f] = RecoverTruncate(disk[f])
      <3> DEFINE s == Recs(f)
                 z == Recs(f)'
      <3>1. /\ Shrunk(f) /\ Whole(f)'
            /\ Len(z) = Len(s) \/ (Len(z) + 1 \in DOMAIN s /\ s[Len(z) + 1] = Torn)
        BY <1>2, <1>3, <2>2, RecoverFacts
      <3>2. f \in Nat /\ Len(s) \in Nat /\ z \in Seq(Entry)
        BY <1>2, <1>3, <3>1, SeqFacts DEF DiskType, File, Shrunk
      <3>3. Len(z) \in Nat
        BY <3>2, SeqFacts
      <3>4. f + Len(s) >= rgoal /\ \A i \in DOMAIN s : f + i - 1 < rgoal => s[i] # Torn
        BY <1>3 DEF Reaches
      <3>5. \A i \in DOMAIN z : z[i] # Torn
        BY <3>1 DEF Whole
      <3> HIDE DEF s, z
      <3>6. f + Len(z) >= rgoal
        <4>1. CASE Len(z) = Len(s)
          BY <3>4, <4>1
        <4>2. CASE Len(z) + 1 \in DOMAIN s /\ s[Len(z) + 1] = Torn
          <5>1. ~(f + (Len(z) + 1) - 1 < rgoal)
            BY <3>4, <4>2
          <5> QED
            BY <1>1, <3>2, <3>3, <5>1
        <4> QED
          BY <3>1, <4>1, <4>2
      <3> QED
        BY <1>1, <3>5, <3>6 DEF Reaches, z
    <2> QED
      BY <1>3, <2>1, <2>2
  <1>4. ASSUME f \in Segments, Joined(f, rtodo) PROVE Joined(f, rtodo)'
    <2>1. disk'[f] = disk[f]
      BY <1>2, <1>4, RecoveredChain DEF Joined
    <2> QED
      BY <1>1, <1>4, <2>1 DEF Joined, Whole
  <1> QED
    BY <1>3, <1>4 DEF TodoInv

LEMMA TodoSame ==
  ASSUME TodoInv, UNCHANGED reader, Segments' = Segments,
         \A f \in Segments : Recs(f)' = Recs(f)
  PROVE  TodoInv'
  BY DEF TodoInv, reader, Reaches, Joined, Whole

\* The steps of the publisher's process that grow the active segment.
LEMMA ActiveGrows ==
  ASSUME CoreInv, writer # NoWriter,
         Rotate \/ WriteRecord \/ SyncEach \/ SyncEachFails \/ CloseFails
         \/ FlushForExternalFsync \/ Close \/ Kill
  PROVE  \E f, n, b : \E t \in Seq(Entry) : Newest(f) /\ Edited(f, t, n, b)
  <1>1. DiskType /\ tail \in Nat /\ tail \in 0..MaxCursor /\ MaxCursor \in Nat
        /\ call.size \in Nat /\ inc \in Nat
    BY ConstantsOK DEF CoreInv, WalType
  <1>2. PICK f, s : Active(f, s)
    BY ActiveFacts
  <1>3. /\ f = writer.first /\ s = writer.buf /\ s \in Seq(Entry) /\ f \in Segments
        /\ writer \in Writer /\ Newest(f) /\ Len(s) \in Nat
    BY <1>2, ActiveFacts DEF Active
  <1>4. Edit(disk, Flushed(disk, writer), f, s, disk[f].synced, disk[f].failed)
    BY <1>1, <1>3, FlushedEdit
  <1>5. ASSUME disk' = SyncedFile(Flushed(disk, writer), f)
        PROVE  Edited(f, s, SyncMark(f, s), disk[f].failed)
    BY <1>1, <1>3, <1>4, <1>5, SyncedEdit DEF Edited
  <1>6. ASSUME disk' = [Flushed(disk, writer) EXCEPT ![f].failed = TRUE]
        PROVE  Edited(f, s, disk[f].synced, TRUE)
    BY <1>1, <1>3, <1>4, <1>6, FailedEdit DEF Edited
  <1>7. ASSUME disk' = [disk EXCEPT ![f].failed = TRUE]
        PROVE  Edited(f, <<>>, disk[f].synced, TRUE) /\ <<>> \in Seq(Entry)
    <2>1. Edit(disk, disk, f, <<>>, disk[f].synced, disk[f].failed) /\ <<>> \in Seq(Entry)
      BY <1>1, <1>3, SameEdit, EmptyFacts
    <2> QED
      BY <1>1, <1>3, <1>7, <2>1, FailedEdit DEF Edited
  <1>8. ASSUME NEW t \in Seq(Entry), disk' = [disk EXCEPT ![f].recs = @ \o t]
        PROVE  Edited(f, t, disk[f].synced, disk[f].failed)
    BY <1>1, <1>3, <1>8, AppendEdit DEF Edited
  <1>9. CASE Rotate \/ SyncEach
    <2>1. disk' = SyncedFile(Flushed(disk, writer), f)
      BY <1>3, <1>9 DEF Rotate, CloseSegment, SyncEach, Fsync
    <2> QED
      BY <1>3, <1>5, <2>1
  <1>10. CASE SyncEachFails \/ CloseFails
    <2>1. \/ disk' = [Flushed(disk, writer) EXCEPT ![f].failed = TRUE]
          \/ disk' = [disk EXCEPT ![f].failed = TRUE]
      BY <1>3, <1>10 DEF SyncEachFails, CloseFails
    <2> QED
      BY <1>3, <1>6, <1>7, <2>1
  <1>11. CASE FlushForExternalFsync
    BY <1>3, <1>4, <1>11 DEF FlushForExternalFsync, Edited
  <1>12. CASE Close
    <2>1. \/ disk' = SyncedFile(Flushed(disk, writer), f)
          \/ disk' = [Flushed(disk, writer) EXCEPT ![f].failed = TRUE]
      BY <1>3, <1>12 DEF Close
    <2> QED
      BY <1>3, <1>5, <1>6, <2>1
  <1>13. CASE Kill
    <2>1. PICK n \in 0..Len(s), rest \in {<<>>, <<Torn>>} :
            disk' = [disk EXCEPT ![f].recs = @ \o SubSeq(s, 1, n) \o rest]
      BY <1>3, <1>13 DEF Kill
    <2> DEFINE p == SubSeq(s, 1, n)
    <2>2. p \in Seq(Entry)
      BY <1>3, PrefixFacts
    <2>3. rest \in Seq(Entry)
      <3>1. <<>> \in Seq(Entry)
        BY EmptyFacts
      <3>2. Torn \in Entry
        BY DEF Entry
      <3>3. <<Torn>> \in Seq(Entry)
        BY <3>2
      <3> QED
        BY <3>1, <3>3
    <2>4. Recs(f) \in Seq(Entry)
      BY <1>1, <1>3 DEF DiskType, File
    <2>5. disk' = [disk EXCEPT ![f].recs = (@ \o p) \o rest]
      BY <2>1
    <2> HIDE DEF p
    <2>6. (Recs(f) \o p) \o rest = Recs(f) \o (p \o rest)
      <3> DEFINE a == Recs(f)
      <3>1. a \in Seq(Entry) /\ p \in Seq(Entry) /\ rest \in Seq(Entry)
        BY <2>2, <2>3, <2>4
      <3> HIDE DEF a
      <3>2. (a \o p) \o rest = a \o (p \o rest)
        BY <3>1, ConcatAssociative
      <3> QED
        BY <3>2 DEF a
    <2>7. PICK t : t = p \o rest
      OBVIOUS
    <2>8. t \in Seq(Entry)
      BY <2>2, <2>3, <2>7, ConcatFacts
    <2>9. disk' = [disk EXCEPT ![f].recs = @ \o t]
      BY <2>5, <2>6, <2>7
    <2> QED
      BY <1>3, <1>8, <2>8, <2>9
  <1>14. CASE WriteRecord
    <2> DEFINE rec == [cursor |-> tail, inc |-> inc, size |-> call.size]
               all == Append(s, rec)
    <2>1. wpc = "append"
      BY <1>14 DEF WriteRecord
    <2>2. rec \in Entry
      <3>1. tail < MaxCursor
        BY <2>1 DEF CoreInv, PcInv
      <3> QED
        BY <1>1, <3>1 DEF Entry, Record
    <2>3. PICK out \in {0, Len(s), Len(all)} :
            disk' = [disk EXCEPT ![f].recs = @ \o SubSeq(all, 1, out)]
      BY <1>3, <1>14 DEF WriteRecord
    <2> HIDE DEF rec
    <2>4. all \in Seq(Entry) /\ Len(all) = Len(s) + 1
      BY <1>3, <2>2, AppendProperties
    <2> HIDE DEF all
    <2>5. out \in 0..Len(all)
      BY <1>3, <2>4
    <2>6. SubSeq(all, 1, out) \in Seq(Entry)
      BY <2>4, <2>5, PrefixFacts
    <2> QED
      BY <1>3, <1>8, <2>3, <2>6
  <1> QED
    BY <1>9, <1>10, <1>11, <1>12, <1>13, <1>14

\* What the publisher's process does leaves a replay what it needs.
LEMMA PublisherTodo ==
  ASSUME CoreInv, ReaderType, TodoInv,
         Open \/ OpenFails \/ AppendStep \/ FlusherStep \/ Close \/ Kill \/ PowerLoss
  PROVE  TodoInv'
  <1>1. UNCHANGED reader
    BY DEF Open, OpenFails, AppendStep, FlusherStep, Close, Kill, PowerLoss, AppendCall,
       CheckSize, Rotate, CloseSegment, CreateFile, CreateFails, WriteHeader, CursorRegressed,
       WriteRecord, SyncEach, SyncEachFails, CloseFails, DeleteOldest, AppendDone,
       FlushForExternalFsync, SyncData, SyncFails
  <1>2. DiskType /\ rgoal \in Nat
    BY DEF CoreInv, WalType, ReaderType
  <1>3. CASE Open
    <2>1. disk' = [f \in Segments |-> RecoverTruncate(disk[f])]
      BY <1>3 DEF Open
    <2>2. Segments' = Segments
      BY <2>1
    <2>3. \A f \in Segments : disk'[f] \in {disk[f], RecoverTruncate(disk[f])}
      BY <2>1
    <2> QED
      BY <1>1, <2>2, <2>3, TodoRecover
  <1>4. CASE OpenFails
    <2>1. PICK done : disk' = [f \in Segments |->
                                 IF f \in done THEN RecoverTruncate(disk[f]) ELSE disk[f]]
      BY <1>4 DEF OpenFails
    <2>2. Segments' = Segments
      BY <2>1
    <2>3. \A f \in Segments : disk'[f] \in {disk[f], RecoverTruncate(disk[f])}
      BY <2>1
    <2> QED
      BY <1>1, <2>2, <2>3, TodoRecover
  <1>5. CASE CreateFile
    BY <1>5, TodoCreate
  <1>6. CASE DeleteOldest
    BY <1>6, TodoDelete
  <1>7. CASE \/ AppendCall \/ CheckSize \/ CursorRegressed \/ AppendDone
             \/ (Close \/ Kill) /\ writer = NoWriter
    <2>1. disk' = disk
      BY <1>7 DEF AppendCall, CheckSize, CursorRegressed, AppendDone, Close, Kill
    <2> QED
      BY <1>1, <2>1, TodoSame
  <1>8. CASE WriteHeader \/ CreateFails
    <2>1. \/ disk' = disk
          \/ wpc = "header" /\ \E h \in BOOLEAN : disk' = [disk EXCEPT ![tail].header = h]
      BY <1>8 DEF WriteHeader, CreateFails
    <2>2. CASE disk' = disk
      BY <1>1, <2>2, TodoSame
    <2>3. CASE wpc = "header" /\ \E h \in BOOLEAN : disk' = [disk EXCEPT ![tail].header = h]
      <3>1. tail \in Segments
        BY <2>3 DEF CoreInv, PcInv
      <3>2. Segments' = Segments /\ \A g \in Segments : Recs(g)' = Recs(g)
        BY <1>2, <2>3, <3>1, HeaderOnly
      <3> QED
        BY <1>1, <3>2, TodoSame
    <2> QED
      BY <2>1, <2>2, <2>3
  <1>9. CASE SyncData \/ SyncFails
    <2>1. PICK f : f = fsave.file
      OBVIOUS
    <2>2. fpc = "sync" /\ inc' = inc /\ (disk' = SyncOf(f) \/ disk' = FailureOf(f))
      BY <1>9, <2>1 DEF SyncData, SyncFails, SyncOf, FailureOf
    <2>3. Running
      BY <2>2 DEF CoreInv, PcInv, Running
    <2>4. Remarked
      BY <2>2, <2>3, MarkedFile
    <2> QED
      BY <1>1, <2>4, TodoSame DEF Remarked
  <1>10. CASE PowerLoss
    BY <1>1, <1>10 DEF PowerLoss, reader, TodoInv
  <1>11. CASE /\ Rotate \/ WriteRecord \/ SyncEach \/ SyncEachFails \/ CloseFails
                 \/ FlushForExternalFsync \/ Close \/ Kill
              /\ writer # NoWriter
    <2>1. PICK f, n, b : \E t \in Seq(Entry) : Newest(f) /\ Edited(f, t, n, b)
      BY <1>11, ActiveGrows
    <2>2. PICK t \in Seq(Entry) : Newest(f) /\ Edited(f, t, n, b)
      BY <2>1
    <2> QED
      BY <1>1, <1>2, <2>2, EditedTodo
  <1>12. Rotate \/ WriteRecord \/ SyncEach \/ SyncEachFails \/ CloseFails
         \/ FlushForExternalFsync => writer # NoWriter
    BY DEF Rotate, CloseSegment, WriteRecord, SyncEach, SyncEachFails, CloseFails,
       FlushForExternalFsync, CoreInv, PcInv
  <1> QED
    BY <1>3, <1>4, <1>5, <1>6, <1>7, <1>8, <1>9, <1>10, <1>11, <1>12 DEF AppendStep, FlusherStep

ReplayInv == ReaderType /\ TodoInv /\ PlaceInv

LEMMA SameReplay ==
  ASSUME ReplayInv, UNCHANGED <<disk, reader>>
  PROVE  ReplayInv'
  <1>1. ReaderType'
    BY DEF ReplayInv, ReaderType, reader
  <1>2. TodoInv'
    BY TodoSame DEF ReplayInv
  <1>3. PlaceInv'
    BY DEF ReplayInv, PlaceInv, reader, Aligned, Reading
  <1> QED
    BY <1>1, <1>2, <1>3 DEF ReplayInv

LEMMA PublisherReplay ==
  ASSUME CoreInv, ReplayInv,
         Open \/ OpenFails \/ AppendStep \/ FlusherStep \/ Close \/ Kill \/ PowerLoss
  PROVE  ReplayInv'
  <1>1. UNCHANGED reader
    BY DEF Open, OpenFails, AppendStep, FlusherStep, Close, Kill, PowerLoss, AppendCall,
       CheckSize, Rotate, CloseSegment, CreateFile, CreateFails, WriteHeader, CursorRegressed,
       WriteRecord, SyncEach, SyncEachFails, CloseFails, DeleteOldest, AppendDone,
       FlushForExternalFsync, SyncData, SyncFails
  <1>2. ReaderType'
    BY <1>1 DEF ReplayInv, ReaderType, reader
  <1>3. TodoInv'
    BY PublisherTodo DEF ReplayInv
  <1>4. PlaceInv'
    BY <1>1 DEF ReplayInv, PlaceInv, reader, Aligned, Reading
  <1> QED
    BY <1>2, <1>3, <1>4 DEF ReplayInv

\* read_from: the segment that holds the cursor and all behind it.
LEMMA ReadFromStep ==
  ASSUME CoreInv, ReplayInv, NEW c \in 0..MaxCursor, ReadFrom(c)
  PROVE  ReplayInv'
  <1> USE DEF CoreInv
  <1>1. /\ ~broken /\ Segments # {} /\ c >= Min(Segments) /\ rtodo' = SegmentsFrom(c)
        /\ rfloor' = c /\ rlast' = c - 1 /\ rgoal' = IF Running THEN durable ELSE 0
        /\ rpc' = "next" /\ rbuf' = rbuf /\ disk' = disk
    BY DEF ReadFrom
  <1>2. /\ Segments \subseteq 0..MaxCursor /\ Segments \subseteq Nat /\ MaxCursor \in Nat
        /\ c \in Nat /\ durable \in Nat /\ DiskType
    BY ConstantsOK DEF WalType, DiskType
  <1> DEFINE low == {g \in Segments : g <= c}
  <1>3. Min(Segments) \in low
    BY <1>1, <1>2, MinFacts
  <1>4. Max(low) \in low /\ \A y \in low : y <= Max(low)
    <2>1. low \subseteq 0..MaxCursor /\ low # {}
      BY <1>2, <1>3
    <2> HIDE DEF low
    <2> QED
      BY <1>2, <2>1, MaxFacts
  <1>5. PICK m : m = Max(low)
    OBVIOUS
  <1>6. /\ m \in Segments /\ m <= c /\ rtodo' = {f \in Segments : f >= m} /\ m \in Nat
    BY <1>1, <1>2, <1>4, <1>5 DEF SegmentsFrom
  <1>7. ReaderType'
    BY <1>1, <1>2, <1>6 DEF ReplayInv, ReaderType
  <1>8. TodoInv'
    <2> SUFFICES ASSUME NEW f \in rtodo'
                 PROVE  /\ \E g \in Segments : f <= g
                        /\ f \in Segments =>
                             \/ (\A g \in rtodo' : g <= f) /\ Reaches(f)'
                             \/ Joined(f, rtodo)' /\ \A g \in rtodo' : g > f => g \in Segments
      BY <1>1 DEF TodoInv
    <2>1. f \in Segments /\ f >= m /\ f \in Nat /\ f <= f
      BY <1>2, <1>6
    <2>2. ASSUME Newest(f) PROVE (\A g \in rtodo' : g <= f) /\ Reaches(f)'
      <3>1. \A g \in rtodo' : g <= f
        BY <1>6, <2>2 DEF Newest
      <3>2. Len(Recs(f)) \in Nat /\ DOMAIN Recs(f) = 1..Len(Recs(f))
        BY <1>2, <2>1, SeqFacts DEF DiskType, File
      <3>3. CASE Running
        <4>1. durable <= f + Len(Recs(f)) /\ Whole(f)
          BY <1>1, <2>1, <2>2, <3>3 DEF ChainInv, LiveInv
        <4> QED
          BY <1>1, <1>2, <2>1, <3>1, <3>2, <3>3, <4>1 DEF Reaches, Whole
      <3>4. CASE ~Running
        <4>1. rgoal' = 0 /\ f + Len(Recs(f)) >= 0
          BY <1>1, <2>1, <3>2, <3>4
        <4>2. \A i \in DOMAIN Recs(f) : ~(f + i - 1 < 0)
          BY <2>1, <3>2
        <4> QED
          BY <1>1, <3>1, <4>1, <4>2 DEF Reaches
      <3> QED
        BY <3>3, <3>4
    <2>3. ASSUME ~Newest(f)
          PROVE  Joined(f, rtodo)' /\ \A g \in rtodo' : g > f => g \in Segments
      <3>1. Joined(f, Segments)
        BY <1>1, <2>1, <2>3 DEF ChainInv
      <3>2. Len(Recs(f)) \in Nat
        BY <1>2, <2>1, SeqFacts DEF DiskType, File
      <3>3. f + Len(Recs(f)) \in Segments /\ f + Len(Recs(f)) >= m
        BY <1>6, <2>1, <3>1, <3>2 DEF Joined
      <3>4. f + Len(Recs(f)) \in rtodo' /\ rtodo' \subseteq Segments
        BY <1>6, <3>3
      <3> QED
        BY <1>1, <3>1, <3>4 DEF Joined, Whole
    <2> QED
      BY <2>1, <2>2, <2>3
  <1>9. PlaceInv'
    <2>1. m \in rtodo'
      BY <1>6
    <2>2. ASSUME NEW k \in rtodo', \A g \in rtodo' : k <= g PROVE Aligned(k)'
      <3>1. k = m
        BY <1>2, <1>6, <2>1, <2>2
      <3>2. c - 1 + 1 = IF m < c THEN c ELSE m
        BY <1>2, <1>6
      <3> QED
        BY <1>1, <3>1, <3>2 DEF Aligned
    <2> QED
      BY <1>1, <2>1, <2>2 DEF PlaceInv
  <1> QED
    BY <1>7, <1>8, <1>9 DEF ReplayInv

\* SegmentReader::open, on the oldest segment that is left to read.
LEMMA OpenSegmentStep ==
  ASSUME CoreInv, ReplayInv, OpenSegment
  PROVE  ReplayInv'
  <1> USE DEF CoreInv
  <1>1. PICK f : f = Min(rtodo)
    OBVIOUS
  <1>2. /\ rpc = "next" /\ rtodo # {} /\ rtodo' = rtodo \ {f} /\ disk' = disk
        /\ rfloor' = rfloor /\ rlast' = rlast /\ rgoal' = rgoal
        /\ \/ f \in Segments /\ rpc' = "read" /\ rbuf' = Recs(f)
           \/ rpc' = "error" /\ rbuf' = rbuf
    BY <1>1 DEF OpenSegment
  <1>3. rtodo \subseteq Nat /\ rgoal \in Nat /\ ReaderType
    BY ConstantsOK DEF ReplayInv, ReaderType
  <1>4. f \in rtodo /\ f \in Nat /\ \A y \in rtodo : f <= y
    BY <1>1, <1>2, <1>3, MinFacts
  <1>5. DiskType /\ FileInv
    BY DEF WalType
  <1>6. CASE rpc' = "error"
    BY <1>2, <1>3, <1>6 DEF ReplayInv, ReaderType, TodoInv, PlaceInv
  <1>7. CASE f \in Segments /\ rpc' = "read" /\ rbuf' = Recs(f)
    <2>1. /\ Recs(f) \in Seq(Entry) /\ Len(Recs(f)) \in Nat
          /\ DOMAIN Recs(f) = 1..Len(Recs(f)) /\ (Recs(f) = <<>> <=> Len(Recs(f)) = 0)
      BY <1>5, <1>7, SeqFacts DEF DiskType, File
    <2>2. ReaderType'
      BY <1>2, <1>3, <1>7, <2>1 DEF ReaderType
    <2>3. TodoInv'
      <3>1. ASSUME NEW g \in rtodo'
            PROVE  /\ \E h \in Segments : g <= h
                   /\ g \in Segments =>
                        \/ (\A h \in rtodo' : h <= g) /\ Reaches(g)'
                        \/ Joined(g, rtodo)' /\ \A h \in rtodo' : h > g => h \in Segments
        <4>1. g \in rtodo /\ g > f /\ g \in Nat
          BY <1>2, <1>3, <1>4, <3>1
        <4>2. ASSUME g \in Segments, Reaches(g) PROVE Reaches(g)'
          BY <1>2, <4>2 DEF Reaches
        <4>3. ASSUME g \in Segments, Joined(g, rtodo) PROVE Joined(g, rtodo)'
          <5>1. Len(Recs(g)) \in Nat
            BY <1>5, <4>3, SeqFacts DEF DiskType, File
          <5>2. g + Len(Recs(g)) \in rtodo /\ g + Len(Recs(g)) # f
            BY <1>4, <4>1, <4>3, <5>1 DEF Joined
          <5> QED
            BY <1>2, <4>3, <5>2 DEF Joined, Whole
        <4> QED
          BY <1>2, <4>1, <4>2, <4>3 DEF ReplayInv, TodoInv
      <3> QED
        BY <1>2, <3>1 DEF TodoInv
    <2>4. Aligned(f)
      BY <1>2, <1>4 DEF ReplayInv, PlaceInv
    <2>5. \/ (\A g \in rtodo : g <= f) /\ Reaches(f)
          \/ Joined(f, rtodo)
      BY <1>2, <1>4, <1>7 DEF ReplayInv, TodoInv
    <2>6. \A i \in DOMAIN Recs(f) : Recs(f)[i] # Torn => Recs(f)[i].cursor = f + i - 1
      BY <1>5, <1>7 DEF FileInv, FileOK
    <2>7. CASE Joined(f, rtodo)
      <3>1. /\ Whole(f) /\ f + Len(Recs(f)) \in rtodo /\ f + Len(Recs(f)) # f
            /\ \A g \in rtodo : g > f => f + Len(Recs(f)) <= g
        <4>1. /\ Whole(f) /\ f + Len(Recs(f)) \in rtodo /\ Recs(f) # <<>>
              /\ \A g \in rtodo : g > f => f + Len(Recs(f)) <= g
          BY <2>7 DEF Joined
        <4>2. f + Len(Recs(f)) # f
          BY <1>4, <2>1, <4>1
        <4> QED
          BY <4>1, <4>2
      <3>2. f + Len(Recs(f)) \in rtodo'
        BY <1>2, <3>1
      <3>3. ASSUME NEW k \in rtodo', \A g \in rtodo' : k <= g PROVE k = f + Len(Recs(f))
        <4>1. PICK a \in Nat : a = f + Len(Recs(f))
          BY <1>4, <2>1
        <4>2. k > f /\ k \in Nat /\ k \in rtodo
          BY <1>2, <1>3, <1>4, <3>3
        <4>3. a <= k /\ k <= a
          BY <3>1, <3>2, <3>3, <4>1, <4>2
        <4> QED
          BY <4>1, <4>2, <4>3
      <3>4. Reading(f)'
        BY <1>2, <1>7, <2>4, <2>6, <3>1, <3>2, <3>3 DEF Reading, Aligned, Whole
      <3>5. PlaceInv'
        BY <1>4, <1>7, <3>4 DEF PlaceInv
      <3> QED
        BY <2>2, <2>3, <3>5 DEF ReplayInv
    <2>8. CASE (\A g \in rtodo : g <= f) /\ Reaches(f)
      <3>1. rtodo' = {}
        BY <1>2, <1>3, <1>4, <2>8
      <3>2. f + Len(Recs(f)) >= rgoal
        BY <2>8 DEF Reaches
      <3>3. Reading(f)'
        BY <1>2, <1>7, <2>4, <2>6, <3>1, <3>2 DEF Reading, Aligned
      <3>4. PlaceInv'
        BY <1>4, <1>7, <3>3 DEF PlaceInv
      <3> QED
        BY <2>2, <2>3, <3>4 DEF ReplayInv
    <2> QED
      BY <2>5, <2>7, <2>8
  <1> QED
    BY <1>2, <1>6, <1>7

\* next: the record at hand is the one the replay comes to.
LEMMA AtHand ==
  ASSUME ReplayInv, ReadRecord
  PROVE  \E x \in Nat :
           /\ Reading(x) /\ Head(rbuf).cursor = x /\ rbuf' = Tail(rbuf)
           /\ rlast' = IF x < rfloor THEN rlast ELSE x
           /\ Tail(rbuf) \in Seq(Entry) /\ Len(Tail(rbuf)) = Len(rbuf) - 1
           /\ Len(rbuf) \in Nat /\ Len(rbuf) # 0 /\ Head(rbuf) # Torn
           /\ DOMAIN Tail(rbuf) = 1..(Len(rbuf) - 1) /\ DOMAIN rbuf = 1..Len(rbuf)
           /\ \A i \in 1..(Len(rbuf) - 1) : Tail(rbuf)[i] = rbuf[i + 1]
           /\ Head(rbuf) = rbuf[1]
  <1>1. rpc = "read" /\ rbuf # <<>> /\ Head(rbuf) # Torn /\ rbuf' = Tail(rbuf)
        /\ rlast' = IF Head(rbuf).cursor < rfloor THEN rlast ELSE Head(rbuf).cursor
    BY DEF ReadRecord
  <1>2. rbuf \in Seq(Entry)
    BY DEF ReplayInv, ReaderType
  <1>3. Len(rbuf) \in Nat /\ Len(rbuf) # 0 /\ DOMAIN rbuf = 1..Len(rbuf)
    BY <1>1, <1>2, SeqFacts
  <1>4. /\ Tail(rbuf) \in Seq(Entry) /\ Len(Tail(rbuf)) = Len(rbuf) - 1
        /\ Head(rbuf) = rbuf[1] /\ \A i \in 1..(Len(rbuf) - 1) : Tail(rbuf)[i] = rbuf[i + 1]
    BY <1>1, <1>2, HeadTailProperties
  <1>5. DOMAIN Tail(rbuf) = 1..(Len(rbuf) - 1)
    BY <1>4, SeqFacts
  <1>6. PICK x \in Nat : Reading(x)
    BY <1>1 DEF ReplayInv, PlaceInv
  <1>7. 1 \in DOMAIN rbuf /\ x + 1 - 1 = x
    BY <1>3
  <1>8. Head(rbuf).cursor = x
    BY <1>1, <1>4, <1>6, <1>7 DEF Reading
  <1> QED
    BY <1>1, <1>3, <1>4, <1>5, <1>6, <1>8

LEMMA ReadRecordStep ==
  ASSUME ReplayInv, ReadRecord
  PROVE  ReplayInv'
  <1>1. /\ rpc = "read" /\ rpc' = rpc /\ rtodo' = rtodo /\ rfloor' = rfloor /\ rgoal' = rgoal
        /\ disk' = disk /\ ReaderType
    BY DEF ReadRecord, ReplayInv
  <1>2. PICK x \in Nat :
           /\ Reading(x) /\ Head(rbuf).cursor = x /\ rbuf' = Tail(rbuf)
           /\ rlast' = IF x < rfloor THEN rlast ELSE x
           /\ Tail(rbuf) \in Seq(Entry) /\ Len(Tail(rbuf)) = Len(rbuf) - 1
           /\ Len(rbuf) \in Nat /\ Len(rbuf) # 0 /\ Head(rbuf) # Torn
           /\ DOMAIN Tail(rbuf) = 1..(Len(rbuf) - 1) /\ DOMAIN rbuf = 1..Len(rbuf)
           /\ \A i \in 1..(Len(rbuf) - 1) : Tail(rbuf)[i] = rbuf[i + 1]
           /\ Head(rbuf) = rbuf[1]
    BY AtHand
  <1>3. rfloor \in Nat /\ rlast \in Int /\ rgoal \in Nat
    BY <1>1 DEF ReaderType
  <1>4. ReaderType'
    <2>1. rlast' \in Int
      BY <1>2, <1>3
    <2> QED
      BY <1>1, <1>2, <2>1 DEF ReaderType
  <1>5. TodoInv'
    BY <1>1 DEF ReplayInv, TodoInv, Reaches, Joined, Whole
  <1>6. Reading(x + 1)'
    <2>1. rlast' + 1 = IF x + 1 < rfloor THEN rfloor ELSE x + 1
      BY <1>2, <1>3 DEF Reading, Aligned
    <2>2. ASSUME NEW i \in DOMAIN rbuf', rbuf'[i] # Torn PROVE rbuf'[i].cursor = x + 1 + i - 1
      <3>1. i \in 1..(Len(rbuf) - 1) /\ i + 1 \in DOMAIN rbuf /\ rbuf'[i] = rbuf[i + 1]
        BY <1>2, <2>2
      <3>2. rbuf[i + 1].cursor = x + (i + 1) - 1
        BY <1>2, <2>2, <3>1 DEF Reading
      <3>3. x + (i + 1) - 1 = x + 1 + i - 1
        BY <3>1, <1>2
      <3> QED
        BY <3>1, <3>2, <3>3
    <2>3. ASSUME rtodo # {}, NEW i \in DOMAIN rbuf' PROVE rbuf'[i] # Torn
      <3>1. i \in 1..(Len(rbuf) - 1) /\ i + 1 \in DOMAIN rbuf /\ rbuf'[i] = rbuf[i + 1]
        BY <1>2, <2>3
      <3> QED
        BY <1>2, <2>3, <3>1 DEF Reading
    <2>4. x + 1 + Len(rbuf') = x + Len(rbuf)
      BY <1>2
    <2>5. ASSUME \A i \in DOMAIN rbuf' : rbuf'[i] # Torn PROVE \A i \in DOMAIN rbuf : rbuf[i] # Torn
      <3>1. ASSUME NEW i \in DOMAIN rbuf, i # 1 PROVE rbuf[i] # Torn
        <4>1. i - 1 \in 1..(Len(rbuf) - 1) /\ (i - 1) + 1 = i
          BY <1>2, <3>1
        <4>2. rbuf'[i - 1] = rbuf[i] /\ i - 1 \in DOMAIN rbuf'
          BY <1>2, <4>1
        <4> QED
          BY <2>5, <4>2
      <3> QED
        BY <1>2, <3>1
    <2>6. \A m \in rtodo : (\A g \in rtodo : m <= g) => m = x + Len(rbuf)
      BY <1>2 DEF Reading
    <2>7. rtodo = {} /\ (\A i \in DOMAIN rbuf' : rbuf'[i] # Torn) => x + Len(rbuf) >= rgoal
      BY <1>2, <2>5 DEF Reading
    <2> QED
      BY <1>1, <2>1, <2>2, <2>3, <2>4, <2>6, <2>7 DEF Reading, Aligned
  <1>7. PlaceInv'
    <2>1. x + 1 \in Nat
      BY <1>2
    <2> QED
      BY <1>1, <1>6, <2>1 DEF PlaceInv
  <1> QED
    BY <1>4, <1>5, <1>7 DEF ReplayInv

LEMMA ReadEndsStep ==
  ASSUME ReplayInv, ReadEnds
  PROVE  ReplayInv'
  <1>1. /\ rbuf' = <<>> /\ rtodo' = rtodo /\ rfloor' = rfloor /\ rlast' = rlast
        /\ rgoal' = rgoal /\ disk' = disk /\ ReaderType
    BY DEF ReadEnds, ReplayInv
  <1>2. \/ rpc' = "error"
        \/ rpc = "read" /\ rbuf = <<>> /\ rpc' = "next"
        \/ rpc = "next" /\ rtodo = {} /\ rpc' = "drained"
    BY DEF ReadEnds
  <1>3. ReaderType'
    <2>1. <<>> \in Seq(Entry)
      BY EmptyFacts
    <2> QED
      BY <1>1, <1>2, <2>1 DEF ReaderType
  <1>4. TodoInv'
    BY <1>1, <1>2 DEF ReplayInv, TodoInv, Reaches, Joined, Whole
  <1>5. CASE rpc' = "error"
    BY <1>3, <1>4, <1>5 DEF ReplayInv, PlaceInv
  <1>6. CASE rpc = "next" /\ rtodo = {} /\ rpc' = "drained"
    <2>1. rlast + 1 >= rgoal
      BY <1>6 DEF ReplayInv, PlaceInv
    <2> QED
      BY <1>1, <1>3, <1>4, <1>6, <2>1 DEF ReplayInv, PlaceInv
  <1>7. CASE rpc = "read" /\ rbuf = <<>> /\ rpc' = "next"
    <2>1. PICK x \in Nat : Reading(x)
      BY <1>7 DEF ReplayInv, PlaceInv
    <2>2. Len(rbuf) = 0 /\ DOMAIN rbuf = {}
      BY <1>7, EmptyFacts
    <2>3. x + Len(rbuf) = x /\ rfloor \in Nat /\ rlast \in Int /\ rgoal \in Nat
      BY <1>1, <2>2 DEF ReaderType
    <2>4. ASSUME NEW m \in rtodo, \A g \in rtodo : m <= g PROVE Aligned(m)'
      <3>1. m = x
        BY <2>1, <2>3, <2>4 DEF Reading
      <3> QED
        BY <1>1, <2>1, <3>1 DEF Reading, Aligned
    <2>5. ASSUME rtodo = {} PROVE rlast + 1 >= rgoal
      <3>1. x >= rgoal
        BY <2>1, <2>2, <2>3, <2>5 DEF Reading
      <3> QED
        BY <2>1, <2>3, <3>1 DEF Reading, Aligned
    <2>6. PlaceInv'
      BY <1>1, <1>7, <2>4, <2>5 DEF PlaceInv
    <2> QED
      BY <1>3, <1>4, <2>6 DEF ReplayInv
  <1> QED
    BY <1>2, <1>5, <1>6, <1>7

LEMMA DropStep ==
  ASSUME ReplayInv, DropReplayer
  PROVE  ReplayInv'
  <1>1. rpc' = "idle" /\ rtodo' = {} /\ rbuf' = <<>> /\ rfloor' = 0 /\ rlast' = -1 /\ rgoal' = 0
    BY DEF DropReplayer, NoReplay
  <1>2. <<>> \in Seq(Entry)
    BY EmptyFacts
  <1> QED
    BY <1>1, <1>2 DEF ReplayInv, ReaderType, TodoInv, PlaceInv

LEMMA ReplayHolds == Spec => []ReplayInv
  <1>1. Init => ReplayInv
    <2> SUFFICES ASSUME Init PROVE ReplayInv
      OBVIOUS
    <2>1. <<>> \in Seq(Entry)
      BY EmptyFacts
    <2> QED
      BY <2>1 DEF Init, ReplayInv, ReaderType, TodoInv, PlaceInv
  <1>2. CoreInv /\ ReplayInv /\ [Next]_vars => ReplayInv'
    <2> SUFFICES ASSUME CoreInv, ReplayInv, [Next]_vars PROVE ReplayInv'
      OBVIOUS
    <2>1. CASE Open \/ OpenFails \/ AppendStep \/ FlusherStep \/ Close \/ Kill \/ PowerLoss
      BY <2>1, PublisherReplay
    <2>2. CASE ReaderStep
      BY <2>2, ReadFromStep, OpenSegmentStep, ReadRecordStep, ReadEndsStep, DropStep
         DEF ReaderStep
    <2>3. CASE UNCHANGED vars
      BY <2>3, SameReplay DEF vars
    <2> QED
      BY <2>1, <2>2, <2>3 DEF Next
  <1> QED
    BY <1>1, <1>2, CoreHolds, PTL DEF Spec

\* A replay that ends without an error has handed out every record that was
\* durable when it began, although the publisher rotates, deletes, dies and
\* recovers meanwhile.
THEOREM ReplaysReachDurable == Spec => []ReplayReachesDurable
  <1>1. ReplayInv => ReplayReachesDurable
    BY DEF ReplayInv, PlaceInv, ReplayReachesDurable
  <1> QED
    BY <1>1, ReplayHolds, PTL

\* WalReplayer::next hands out consecutive cursors from the requested one on.
THEOREM ReplaysWithoutGap == Spec => ReplayNoGap
  <1>1. ReplayInv /\ [Next]_vars =>
          [rlast' # rlast /\ rpc = "read" /\ ~broken' => rlast' = rlast + 1]_vars
    <2> SUFFICES ASSUME ReplayInv, Next, rlast' # rlast, rpc = "read" PROVE rlast' = rlast + 1
      OBVIOUS
    <2>1. ReadRecord
      <3>1. CASE Open \/ OpenFails \/ AppendStep \/ FlusherStep \/ Close \/ Kill \/ PowerLoss
        <4>1. UNCHANGED reader
          BY <3>1 DEF Open, OpenFails, AppendStep, FlusherStep, Close, Kill, PowerLoss,
             AppendCall, CheckSize, Rotate, CloseSegment, CreateFile, CreateFails, WriteHeader,
             CursorRegressed, WriteRecord, SyncEach, SyncEachFails, CloseFails, DeleteOldest,
             AppendDone, FlushForExternalFsync, SyncData, SyncFails
        <4> QED
          BY <4>1 DEF reader
      <3>2. CASE ReaderStep
        BY <3>2 DEF ReaderStep, ReadFrom, OpenSegment, ReadEnds, DropReplayer
      <3> QED
        BY <3>1, <3>2 DEF Next
    <2>2. PICK x \in Nat : Reading(x) /\ rlast' = IF x < rfloor THEN rlast ELSE x
      BY <2>1, AtHand
    <2> QED
      BY <2>2 DEF Reading, Aligned
  <1> QED
    BY <1>1, ReplayHolds, PTL DEF Spec, ReplayNoGap

=============================================================================
