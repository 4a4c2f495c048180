----------------------------- MODULE RingProofs -----------------------------
(***************************************************************************)
(* Proofs about Ring, for every value of its constants: its types; what a  *)
(* reader of a slot may conclude from two looks at its stamp; who owns a   *)
(* slot of the cursor table, what the publisher may conclude from a scan   *)
(* of it, and that nothing is lost under BackpressurePolicy::Error; and    *)
(* that the ring implements BroadcastLog.                                  *)
(***************************************************************************)
EXTENDS Ring, TLAPS

USE DEF logvars

\* A slot index is within the mapping: the SAFETY comments of write_slot and
\* try_receive ("idx < capacity (modulo)").
LEMMA SlotType == \A n \in Nat : Slot(n) \in SlotIdx
  BY ConstantsOK DEF Slot, SlotIdx

LEMMA UnclaimedType == Unclaimed \in Nat
  BY ConstantsOK DEF Unclaimed

\* The start position computed by connect_with is a cursor.
LEMMA StartType ==
  ASSUME NEW s \in Starts, NEW t \in Nat
  PROVE  StartCursor(s, t) \in Nat
  <1>1. s \in StartPos
    BY ConstantsOK
  <1>2. s.n \in Nat /\ s.kind \in {"Now", "HistoryBack", "Explicit"}
    BY <1>1 DEF StartPos
  <1> QED
    BY <1>2 DEF StartCursor, SaturatingSub

LEMMA BlankType ==
  /\ Zero \in Message
  /\ NoBuf \in [WordIdx -> Message]
  /\ NoGot \in [seq : Int, from : Int, words : [WordIdx -> Message]]
  /\ \A n \in Nat : Clean(n) \in Stamp /\ Writing(n) \in Stamp
  /\ \A g, n \in Nat : Msg(g, n) \in Message
  <1>1. Zero \in Message
    BY DEF Zero, Msg, Message
  <1>2. NoBuf \in [WordIdx -> Message]
    BY <1>1 DEF NoBuf
  <1> QED
    BY <1>1, <1>2 DEF NoGot, Clean, Writing, Stamp, Msg, Message

LEMMA InitType == Init => TypeOK
  <1> SUFFICES ASSUME Init PROVE TypeOK
    OBVIOUS
  <1>1. 0 \in SubIdx
    BY ConstantsOK DEF SubIdx
  <1> QED
    BY <1>1, BlankType, UnclaimedType
    DEF Init, TypeOK, PubPC, SubPC, Down

-----------------------------------------------------------------------------
LEMMA PublisherType == TypeOK /\ PublisherStep => TypeOK'
  <1> SUFFICES ASSUME TypeOK, PublisherStep PROVE TypeOK'
    OBVIOUS
  <1> USE UnclaimedType DEF TypeOK, PubGoto, PubPC, Down, shared, subvars,
          connvars, readvars
  <1>1. CASE Publish
    BY <1>1 DEF Publish, RingPublish
  <1>2. CASE ScanCursor
    <2>1. pi \in SubIdx
      BY <1>2, ConstantsOK DEF ScanCursor, SubIdx
    <2> QED
      BY <1>2, <2>1 DEF ScanCursor, Lesser
  <1>3. CASE Reject
    BY <1>3 DEF Reject
  <1>4. CASE Admit
    BY <1>4 DEF Admit
  <1>5. CASE Append
    BY <1>5 DEF Append, RingPublish
  <1>6. ASSUME NEW k \in 0..Words, StoreSlot(k) PROVE TypeOK'
    <2>1. Slot(tail) \in SlotIdx
      BY SlotType
    <2>2. Writing(tail) \in Stamp /\ Msg(gen, tail) \in Message
      BY BlankType
    <2>3. seq' \in [SlotIdx -> Stamp]
      BY <1>6, <2>1, <2>2 DEF StoreSlot
    <2>4. word' \in [SlotIdx -> [WordIdx -> Message]]
      <3>1. CASE k = 0
        BY <1>6, <3>1 DEF StoreSlot
      <3>2. CASE k # 0
        <4> DEFINE i == Slot(tail)
        <4>1. k \in WordIdx
          BY <3>2, ConstantsOK DEF WordIdx
        <4>2. [word[i] EXCEPT ![k] = Msg(gen, tail)] \in [WordIdx -> Message]
          BY <2>1, <2>2, <4>1
        <4>3. word' = [word EXCEPT ![i] = [word[i] EXCEPT ![k] = Msg(gen, tail)]]
          BY <1>6, <3>2 DEF StoreSlot
        <4> QED
          BY <2>1, <4>2, <4>3
      <3> QED
        BY <3>1, <3>2
    <2> QED
      BY <1>6, <2>3, <2>4 DEF StoreSlot
  <1>7. CASE Commit
    <2>1. Slot(tail) \in SlotIdx /\ Clean(tail) \in Stamp
      BY SlotType DEF Clean, Stamp
    <2> QED
      BY <1>7, <2>1 DEF Commit
  <1>8. CASE BumpTail
    BY <1>8 DEF BumpTail
  <1>9. CASE FlushLog
    BY <1>9 DEF FlushLog, pubvars
  <1> QED
    BY <1>1, <1>2, <1>3, <1>4, <1>5, <1>6, <1>7, <1>8, <1>9 DEF PublisherStep

LEMMA RestartType == TypeOK /\ RestartStep => TypeOK'
  <1> SUFFICES ASSUME TypeOK, RestartStep PROVE TypeOK'
    OBVIOUS
  <1> USE UnclaimedType DEF TypeOK, PubGoto, PubPC, Down, shared, subvars,
          connvars, readvars
  <1>1. ASSUME NEW n \in Nat, Dies(n) PROVE TypeOK'
    <2>1. reused' \in BOOLEAN
      BY <1>1, Zenon DEF Dies
    <2> QED
      BY <1>1, <2>1 DEF Dies
  <1>2. CASE ReuseRing \/ ResetTail \/ AlignTail
    BY <1>2 DEF ReuseRing, ResetTail, AlignTail, Greater
  <1> QED
    BY <1>1, <1>2 DEF RestartStep, PublisherDrops, PublisherKilled

\* The publisher writes to no cursor slot and to nothing of a subscriber.
LEMMA PublisherFrame ==
  ASSUME PublisherStep \/ RestartStep
  PROVE  UNCHANGED <<curs, subvars>>
  BY DEF PublisherStep, RestartStep, Publish, ScanCursor, Reject, Admit, Append,
     StoreSlot, Commit, BumpTail, FlushLog, PublisherDrops, PublisherKilled,
     Dies, ReuseRing, ResetTail, AlignTail, shared

-----------------------------------------------------------------------------
\* What release_cursor leaves behind, on every path that calls it.
LEMMA ReleaseType ==
  ASSUME NEW r \in Subs, TypeOK, Release(r)
  PROVE  TypeOK'
  BY UnclaimedType DEF TypeOK, Release, SubGoto, SubPC, pubvars, connvars, readvars

LEMMA ConnectType ==
  ASSUME NEW r \in Subs, TypeOK, ConnectStep(r)
  PROVE  TypeOK'
  <1> USE DEF TypeOK, SubGoto, SubPC, shared, pubvars, readvars, connvars
  <1>1. CASE Connect(r)
    <2>1. 0 \in SubIdx
      BY ConstantsOK DEF SubIdx
    <2> QED
      BY <1>1, <2>1, BlankType DEF Connect
  <1>2. CASE ClaimCursor(r)
    <2>1. 0 \in SubIdx /\ (idx[r] + 1 < MaxSubs => idx[r] + 1 \in SubIdx)
      BY ConstantsOK DEF SubIdx
    <2>2. CASE curs[idx[r]] = Unclaimed
      BY <1>2, <2>2 DEF ClaimCursor
    <2>3. CASE curs[idx[r]] # Unclaimed
      <3>1. idx' \in [Subs -> SubIdx]
        BY <1>2, <2>1, <2>3 DEF ClaimCursor
      <3>2. pc' \in [Subs -> SubPC]
        BY <1>2, <2>3 DEF ClaimCursor
      <3> QED
        BY <1>2, <2>3, <3>1, <3>2 DEF ClaimCursor
    <2> QED
      BY <2>2, <2>3
  <1>3. CASE Handshake(r)
    BY <1>3 DEF Handshake
  <1>4. CASE HandshakeFails(r)
    BY <1>4, ReleaseType DEF HandshakeFails
  <1>5. ASSUME NEW s \in Starts, Resync(r, s) PROVE TypeOK'
    <2>1. StartCursor(s, tail) \in Nat
      BY StartType
    <2> QED
      BY <1>5, <2>1 DEF Resync
  <1>6. ASSUME NEW s \in Starts, CursorTooOld(r, s) PROVE TypeOK'
    BY <1>6, ReleaseType DEF CursorTooOld
  <1>7. CASE SetCursor(r)
    BY <1>7 DEF SetCursor
  <1>8. CASE ReadGeneration(r)
    BY <1>8 DEF ReadGeneration
  <1> QED
    BY <1>1, <1>2, <1>3, <1>4, <1>5, <1>6, <1>7, <1>8 DEF ConnectStep

LEMMA ReturnNoneType ==
  ASSUME NEW r \in Subs, TypeOK, ReturnNone(r)
  PROVE  TypeOK'
  BY BlankType DEF TypeOK, ReturnNone, ResetReader, SubGoto, SubPC, shared,
     pubvars, connvars

LEMMA RetryType ==
  ASSUME NEW r \in Subs, NEW e \in Nat, TypeOK, Retry(r, e)
  PROVE  TypeOK'
  <1>1. CASE tries[r] + 1 = MaxRetries
    BY <1>1, ReturnNoneType DEF Retry
  <1>2. CASE tries[r] + 1 # MaxRetries
    <2>1. tries[r] + 1 \in Nat
      BY DEF TypeOK
    <2>2. tries' = [tries EXCEPT ![r] = tries[r] + 1]
      BY <1>2 DEF Retry
    <2>3. /\ pc' = [pc EXCEPT ![r] = "load"]
          /\ eff' = [eff EXCEPT ![r] = e]
          /\ rdone' = [rdone EXCEPT ![r] = {}]
          /\ buf' = [buf EXCEPT ![r] = NoBuf]
          /\ after' = [after EXCEPT ![r] = Clean(0)]
          /\ UNCHANGED <<shared, pubvars, cursor, connvars, got>>
      BY <1>2 DEF Retry, SubGoto
    <2> QED
      BY <2>1, <2>2, <2>3, BlankType
      DEF TypeOK, SubPC, shared, pubvars, connvars
  <1> QED
    BY <1>1, <1>2

LEMMA StoreCursorType ==
  ASSUME NEW r \in Subs, TypeOK, StoreCursor(r),
         got' \in [Subs -> [seq : Int, from : Int, words : [WordIdx -> Message]]]
  PROVE  TypeOK'
  <1>1. eff[r] + 1 \in Nat
    BY DEF TypeOK
  <1> QED
    BY <1>1, BlankType
    DEF TypeOK, StoreCursor, ResetReader, SubGoto, SubPC, pubvars, connvars

LEMMA ReceiveType ==
  ASSUME NEW r \in Subs, TypeOK, ReceiveStep(r)
  PROVE  TypeOK'
  <1>0. Slot(eff[r]) \in SlotIdx
    BY SlotType DEF TypeOK
  <1>1. CASE ReplayRecord(r)
    BY <1>1 DEF TypeOK, ReplayRecord, SubGoto, SubPC, shared, pubvars, connvars,
       readvars
  <1>2. CASE ReplayDrained(r)
    BY <1>2 DEF TypeOK, ReplayDrained, SubGoto, SubPC, shared, pubvars, connvars,
       readvars
  <1>3. CASE BeginReceive(r)
    BY <1>3 DEF TypeOK, BeginReceive, SubGoto, SubPC, shared, pubvars, connvars
  <1>4. CASE LoadSeq(r)
    <2>1. seq[Slot(eff[r])].n \in Nat /\ eff[r] \in Nat
      BY <1>0 DEF TypeOK, Stamp
    <2>2. CASE \E e \in Nat : Retry(r, e)
      BY <2>2, RetryType
    <2>3. CASE ReturnNone(r)
      BY <2>3, ReturnNoneType
    <2>4. CASE /\ SubGoto(r, "copy")
               /\ UNCHANGED <<shared, pubvars, cursor, connvars, readvars, got>>
      BY <2>4 DEF TypeOK, SubGoto, SubPC, shared, pubvars, connvars, readvars
    <2> QED
      BY <1>4, <2>1, <2>2, <2>3, <2>4 DEF LoadSeq
  <1>5. ASSUME NEW k \in 1..(Words + 1), LoadSlot(r, k) PROVE TypeOK'
    <2>1. k <= Words => word[Slot(eff[r])][k] \in Message
      BY <1>0, ConstantsOK DEF TypeOK, WordIdx
    <2>2. seq[Slot(eff[r])] \in Stamp
      BY <1>0 DEF TypeOK
    <2>3. buf' \in [Subs -> [WordIdx -> Message]]
      <3>1. CASE k <= Words
        <4>1. k \in WordIdx
          BY <3>1, ConstantsOK DEF WordIdx
        <4>2. [buf[r] EXCEPT ![k] = word[Slot(eff[r])][k]] \in [WordIdx -> Message]
          BY <2>1, <3>1, <4>1 DEF TypeOK
        <4>3. buf' = [buf EXCEPT ![r] = [buf[r] EXCEPT ![k] = word[Slot(eff[r])][k]]]
          BY <1>5, <3>1 DEF LoadSlot
        <4> QED
          BY <4>2, <4>3 DEF TypeOK
      <3>2. CASE ~(k <= Words)
        BY <1>5, <3>2 DEF LoadSlot, TypeOK
      <3> QED
        BY <3>1, <3>2
    <2>4. after' \in [Subs -> Stamp]
      BY <1>5, <2>2 DEF LoadSlot, TypeOK
    <2> QED
      BY <1>5, <2>3, <2>4 DEF TypeOK, LoadSlot, shared, pubvars, connvars
  <1>6. CASE Overwritten(r)
    <2>1. Greater(eff[r], after[r].n) \in Nat
      BY DEF TypeOK, Stamp, Greater
    <2> QED
      BY <1>6, <2>1, RetryType DEF Overwritten
  <1>7. CASE Deliver(r)
    <2>1. got' \in [Subs -> [seq : Int, from : Int, words : [WordIdx -> Message]]]
      BY <1>7 DEF Deliver, TypeOK
    <2> QED
      BY <1>7, <2>1, StoreCursorType DEF Deliver
  <1> QED
    BY <1>1, <1>2, <1>3, <1>4, <1>5, <1>6, <1>7 DEF ReceiveStep

LEMMA NextType == TypeOK /\ [Next]_vars => TypeOK'
  <1> SUFFICES ASSUME TypeOK, [Next]_vars PROVE TypeOK'
    OBVIOUS
  <1>1. ASSUME NEW r \in Subs, RejectOversize(r) PROVE TypeOK'
    BY <1>1, StoreCursorType DEF RejectOversize, TypeOK
  <1>2. ASSUME NEW r \in Subs, Drop(r) PROVE TypeOK'
    BY <1>2, ReleaseType DEF Drop
  <1>3. ASSUME NEW r \in Subs, Killed(r) PROVE TypeOK'
    BY <1>3, BlankType DEF TypeOK, Killed, ResetReader, SubGoto, SubPC, shared,
       pubvars, connvars
  <1>4. CASE UNCHANGED vars
    BY <1>4 DEF TypeOK, vars, shared, pubvars, subvars, connvars, readvars
  <1>5. ASSUME NEW r \in Subs, ReplayFails(r) PROVE TypeOK'
    BY <1>5, ConstantsOK DEF ReplayFails, TypeOK, SubGoto, SubPC, Unclaimed,
       shared, pubvars, readvars
  <1> QED
    BY <1>1, <1>2, <1>3, <1>4, <1>5, PublisherType, RestartType, ConnectType,
       ReceiveType DEF Next

\* Every access of the mapping stays within its tables and every cursor and
\* stamp is a number, for any capacity, table size and number of words.
THEOREM TypeCorrect == Spec => []TypeOK
  BY InitType, NextType, PTL DEF Spec

-----------------------------------------------------------------------------
(***************************************************************************)
(* The numbering, as long as no death has sent it back.                    *)
(***************************************************************************)
Marked == ppc = "write" /\ 0 \in pdone

\* Every number stamped into a slot so far is below the frontier; a publisher
\* that is gone leaves it to the log.
Frontier ==
  IF Marked \/ ppc = "bump" THEN tail + 1
  ELSE IF ppc \in Down THEN wal ELSE tail

\* The publisher numbers messages by the log, if there is one.
NumberingInv ==
  /\ ~reused
  /\ filed <= wal
  /\ Wal => tail <= wal
  /\ Wal /\ ppc \notin Down => wal <= tail + 1
  /\ Wal /\ ppc \in {"scan", "write", "bump"} => wal = tail + 1
  /\ ppc \in {"precheck", "append"} => Wal
  /\ ~Wal => wal = 0
  /\ ppc \in Down => filed = wal /\ tail <= wal
  /\ ppc = "down" => gen < MaxGen
  /\ ppc \in {"reset", "align"} => gen >= 2
  /\ gen >= 1 /\ gen <= MaxGen

LEMMA FrontierType ==
  /\ TypeOK => Frontier \in Nat
  /\ TypeOK' => Frontier' \in Nat
  <1>1. TypeOK => Frontier \in Nat
    BY DEF TypeOK, Frontier
  <1>2. ASSUME TypeOK' PROVE Frontier' \in Nat
    <2>1. tail' \in Nat /\ wal' \in Nat
      BY <1>2 DEF TypeOK
    <2>2. Frontier' = tail' + 1 \/ Frontier' = wal' \/ Frontier' = tail'
      BY Zenon DEF Frontier
    <2> QED
      BY <2>1, <2>2
  <1> QED
    BY <1>1, <1>2

LEMMA InitNumbering == Init => NumberingInv
  BY ConstantsOK DEF Init, NumberingInv, Down

\* A death that is not one of those that send the numbering back: the files
\* hold every record whose number a slot carries.
LEMMA DeathNumbering ==
  ASSUME TypeOK, NumberingInv, NEW n \in {filed, wal}, Dies(n),
         ppc \in Down => n = wal, n >= Used
  PROVE  NumberingInv' /\ Frontier' >= Frontier
  <1>0. /\ n \in Nat /\ filed <= n /\ n <= wal /\ tail \in Nat /\ wal \in Nat
        /\ filed \in Nat /\ gen \in Nat
    BY DEF TypeOK, NumberingInv
  <1>1. Used \in Nat /\ Used >= tail /\ (Marked \/ ppc = "bump" => Used = tail + 1)
    BY <1>0 DEF Used, Marked
  <1>2. ~reused'
    <2>1. ~(n < Used)
      BY <1>0, <1>1
    <2> QED
      BY <2>1, Zenon DEF Dies, NumberingInv
  <1>3. /\ wal' = n /\ filed' = n /\ ppc' = "down" /\ tail' = tail /\ gen' = gen
        /\ gen < MaxGen
    BY DEF Dies, PubGoto
  <1>4. NumberingInv'
    BY <1>0, <1>1, <1>2, <1>3 DEF NumberingInv, Down
  <1>5. Frontier' = n
    BY <1>3 DEF Frontier, Marked, Down
  <1>6. n >= Frontier
    BY <1>0, <1>1 DEF Frontier, Marked, Down
  <1> QED
    BY <1>4, <1>5, <1>6

\* A death that keeps the numbering keeps every number in use.
LEMMA UsedKept ==
  ASSUME TypeOK, NEW n \in Nat, Dies(n), ~reused'
  PROVE  n >= Used
  <1>1. ~(n < Used)
    BY Zenon DEF Dies
  <1>2. Used \in Nat
    BY DEF TypeOK, Used
  <1> QED
    BY <1>1, <1>2

LEMMA PublisherNumbering ==
  ASSUME TypeOK, NumberingInv, PublisherStep \/ RestartStep, ~reused'
  PROVE  NumberingInv' /\ Frontier' >= Frontier
  <1>1. CASE Publish \/ ScanCursor \/ Reject \/ Admit \/ Append \/ BumpTail
             \/ FlushLog
    <2> USE <1>1 DEF Publish, ScanCursor, Reject, Admit, Append, BumpTail,
            FlushLog, ScanDone, PubGoto, RingPublish, shared, pubvars
    <2>1. NumberingInv'
      BY ConstantsOK DEF NumberingInv, TypeOK, Down
    <2>2. Frontier' >= Frontier
      BY DEF TypeOK, Frontier, Marked, Down
    <2> QED
      BY <2>1, <2>2
  <1>2. CASE Commit \/ \E k \in 0..Words : StoreSlot(k)
    <2>1. /\ UNCHANGED <<tail, gen, wal, filed, reused>> /\ ppc = "write"
          /\ \/ ppc' = "write" /\ (Marked => Marked')
             \/ ppc' = "bump"
      BY <1>2 DEF Commit, StoreSlot, PubGoto, Marked
    <2>2. NumberingInv'
      BY <2>1 DEF NumberingInv, Down
    <2>3. Frontier' >= Frontier
      BY <2>1 DEF Frontier, Marked, Down, TypeOK
    <2> QED
      BY <2>2, <2>3
  <1>3. CASE PublisherDrops
    <2>1. ppc = "idle" /\ Dies(wal)
      BY <1>3 DEF PublisherDrops
    <2>2. wal >= Used
      BY <2>1, UsedKept DEF TypeOK
    <2> QED
      BY <2>1, <2>2, DeathNumbering DEF Down
  <1>4. CASE PublisherKilled
    <2>1. Dies(filed)
      BY <1>4 DEF PublisherKilled
    <2>2. filed >= Used
      BY <2>1, UsedKept DEF TypeOK
    <2> QED
      BY <2>1, <2>2, DeathNumbering DEF NumberingInv
  <1>5. CASE ReuseRing \/ ResetTail \/ AlignTail
    <2> USE <1>5 DEF ReuseRing, ResetTail, AlignTail, PubGoto
    <2>1. NumberingInv'
      BY ConstantsOK DEF NumberingInv, TypeOK, Down, Greater
    <2>2. Frontier' >= Frontier
      BY DEF NumberingInv, TypeOK, Frontier, Marked, Down, Greater
    <2> QED
      BY <2>1, <2>2
  <1> QED
    BY <1>1, <1>2, <1>3, <1>4, <1>5 DEF PublisherStep, RestartStep

SubscriberStep(r) ==
  \/ ConnectStep(r) \/ ReceiveStep(r) \/ ReplayFails(r) \/ RejectOversize(r)
  \/ Drop(r) \/ Killed(r)

LEMMA StepCases ==
  Next => PublisherStep \/ RestartStep \/ \E r \in Subs : SubscriberStep(r)
  BY Zenon DEF Next, SubscriberStep

-----------------------------------------------------------------------------
(* What one step of a subscriber may touch *)

\* The step leaves the local variables of q alone.
LocalsSame(q) ==
  /\ pc'[q] = pc[q] /\ idx'[q] = idx[q] /\ cursor'[q] = cursor[q]
  /\ live'[q] = live[q] /\ eff'[q] = eff[q] /\ rdone'[q] = rdone[q]
  /\ after'[q] = after[q] /\ got'[q] = got[q]

\* `continue` in the loop of try_receive moves the position, or gives up.
LEMMA RetryEffect ==
  ASSUME NEW r \in Subs, NEW e \in Nat, TypeOK, Retry(r, e)
  PROVE  /\ UNCHANGED <<shared, pubvars, cursor, connvars, got>>
         /\ \A q \in Subs \ {r} : LocalsSame(q)
         /\ rdone'[r] = {} /\ after'[r] = Clean(0)
         /\ \/ pc'[r] = "ready" /\ eff'[r] = 0
            \/ pc'[r] = "load" /\ eff'[r] = e
  BY DEF Retry, ReturnNone, ResetReader, SubGoto, TypeOK, LocalsSame, connvars

LEMMA ReturnNoneEffect ==
  ASSUME NEW r \in Subs, TypeOK, ReturnNone(r)
  PROVE  /\ UNCHANGED <<shared, pubvars, cursor, connvars, got>>
         /\ \A q \in Subs \ {r} : LocalsSame(q)
         /\ rdone'[r] = {} /\ after'[r] = Clean(0)
         /\ pc'[r] = "ready"
  BY DEF ReturnNone, ResetReader, SubGoto, TypeOK, LocalsSame, connvars

LEMMA StoreCursorEffect ==
  ASSUME NEW r \in Subs, TypeOK, StoreCursor(r)
  PROVE  /\ UNCHANGED <<tail, gen, seq, word, logvars, pubvars, connvars>>
         /\ curs' = [curs EXCEPT ![idx[r]] = eff[r] + 1]
         /\ curs'[idx[r]] = eff[r] + 1 /\ cursor'[r] = eff[r] + 1
         /\ pc'[r] = "ready" /\ rdone'[r] = {} /\ after'[r] = Clean(0)
         /\ \A q \in Subs \ {r} :
              /\ pc'[q] = pc[q] /\ cursor'[q] = cursor[q] /\ eff'[q] = eff[q]
              /\ rdone'[q] = rdone[q] /\ after'[q] = after[q]
  BY DEF StoreCursor, ResetReader, SubGoto, TypeOK

LEMMA ReleaseEffect ==
  ASSUME NEW r \in Subs, TypeOK, Release(r)
  PROVE  /\ UNCHANGED <<tail, gen, seq, word, logvars, pubvars, cursor, connvars,
                        readvars, got>>
         /\ curs' = [curs EXCEPT ![idx[r]] = Unclaimed]
         /\ pc'[r] = "off"
         /\ \A q \in Subs \ {r} : LocalsSame(q)
  BY DEF Release, SubGoto, TypeOK, LocalsSame, connvars, readvars

\* A subscriber writes to the mapping in its own cursor slot only, and to
\* nothing of another process.
LEMMA SubscriberFrame ==
  ASSUME NEW r \in Subs, TypeOK, SubscriberStep(r)
  PROVE  /\ UNCHANGED <<tail, gen, seq, word, logvars, pubvars>>
         /\ \A q \in Subs \ {r} : LocalsSame(q)
         /\ \A i \in SubIdx : i # idx[r] => curs'[i] = curs[i]
  <1> DEFINE P == /\ UNCHANGED <<tail, gen, seq, word, logvars, pubvars>>
                  /\ \A q \in Subs \ {r} : LocalsSame(q)
                  /\ \A i \in SubIdx : i # idx[r] => curs'[i] = curs[i]
  <1>0. ASSUME Release(r) PROVE P
    BY <1>0, ReleaseEffect DEF TypeOK
  <1>1. ASSUME StoreCursor(r),
               \A q \in Subs \ {r} : got'[q] = got[q]
        PROVE  P
    BY <1>1, StoreCursorEffect DEF TypeOK, LocalsSame, connvars
  <1>2. ASSUME ConnectStep(r) PROVE P
    <2>1. CASE Connect(r)
      BY <2>1 DEF Connect, SubGoto, TypeOK, LocalsSame, shared, readvars
    <2>2. CASE ClaimCursor(r)
      BY <2>2 DEF ClaimCursor, SubGoto, TypeOK, LocalsSame, readvars
    <2>3. CASE Handshake(r)
      BY <2>3 DEF Handshake, SubGoto, TypeOK, LocalsSame, shared, connvars, readvars
    <2>4. CASE HandshakeFails(r)
      BY <2>4, <1>0 DEF HandshakeFails
    <2>5. ASSUME NEW s \in Starts, Resync(r, s) PROVE P
      BY <2>5 DEF Resync, SubGoto, TypeOK, LocalsSame, shared, readvars
    <2>6. ASSUME NEW s \in Starts, CursorTooOld(r, s) PROVE P
      BY <2>6, <1>0 DEF CursorTooOld
    <2>7. CASE SetCursor(r)
      BY <2>7 DEF SetCursor, SubGoto, TypeOK, LocalsSame, connvars, readvars
    <2>8. CASE ReadGeneration(r)
      BY <2>8 DEF ReadGeneration, SubGoto, TypeOK, LocalsSame, shared, readvars
    <2> QED
      BY <1>2, <2>1, <2>2, <2>3, <2>4, <2>5, <2>6, <2>7, <2>8 DEF ConnectStep
  <1>3. ASSUME ReceiveStep(r) PROVE P
    <2>1. CASE ReplayRecord(r)
      BY <2>1 DEF ReplayRecord, TypeOK, LocalsSame, shared, connvars, readvars
    <2>2. CASE ReplayDrained(r)
      BY <2>2 DEF ReplayDrained, SubGoto, TypeOK, LocalsSame, connvars, readvars
    <2>3. CASE BeginReceive(r)
      BY <2>3 DEF BeginReceive, SubGoto, TypeOK, LocalsSame, shared, connvars
    <2>4. ASSUME NEW e \in Nat, Retry(r, e) PROVE P
      BY <2>4, RetryEffect DEF shared
    <2>5. ASSUME ReturnNone(r) PROVE P
      BY <2>5, ReturnNoneEffect DEF shared
    <2>6. CASE LoadSeq(r)
      <3>1. seq[Slot(eff[r])].n \in Nat /\ eff[r] \in Nat
        BY SlotType DEF TypeOK, Stamp
      <3>2. CASE /\ SubGoto(r, "copy")
                 /\ UNCHANGED <<shared, pubvars, cursor, connvars, readvars, got>>
        BY <3>2 DEF SubGoto, TypeOK, LocalsSame, shared, connvars, readvars
      <3> QED
        BY <2>6, <2>4, <2>5, <3>1, <3>2 DEF LoadSeq
    <2>7. ASSUME NEW k \in 1..(Words + 1), LoadSlot(r, k) PROVE P
      BY <2>7 DEF LoadSlot, TypeOK, LocalsSame, shared, connvars
    <2>8. CASE Overwritten(r)
      <3>1. Greater(eff[r], after[r].n) \in Nat
        BY DEF TypeOK, Stamp, Greater
      <3> QED
        BY <2>8, <2>4, <3>1 DEF Overwritten
    <2>9. CASE Deliver(r)
      BY <2>9, <1>1 DEF Deliver, TypeOK
    <2> QED
      BY <1>3, <2>1, <2>2, <2>3, <2>6, <2>7, <2>8, <2>9 DEF ReceiveStep
  <1>4. ASSUME ReplayFails(r) PROVE P
    BY <1>4 DEF ReplayFails, SubGoto, TypeOK, LocalsSame, shared, readvars
  <1>5. ASSUME RejectOversize(r) PROVE P
    BY <1>5, <1>1 DEF RejectOversize
  <1>6. ASSUME Drop(r) PROVE P
    BY <1>6, <1>0 DEF Drop
  <1>7. ASSUME Killed(r) PROVE P
    BY <1>7 DEF Killed, ResetReader, SubGoto, TypeOK, LocalsSame, shared, connvars
  <1> QED
    BY <1>2, <1>3, <1>4, <1>5, <1>6, <1>7 DEF SubscriberStep

-----------------------------------------------------------------------------
(***************************************************************************)
(* The seqlock.                                                            *)
(***************************************************************************)

\* A stamp is below the frontier, unless the slot is still blank.
StampInv == \A i \in SlotIdx : seq[i].n < Frontier \/ seq[i].n = 0

\* write_slot marks the slot before it touches a word of it.
WriteInv ==
  /\ ppc = "write" =>
       /\ 0 \notin pdone => pdone = {}
       /\ 0 \in pdone => seq[Slot(tail)] = Writing(tail)
       /\ \A k \in WordIdx : k \in pdone => word[Slot(tail)][k] = Msg(gen, tail)
  /\ ppc = "bump" =>
       /\ seq[Slot(tail)] = Clean(tail)
       /\ \A k \in WordIdx : word[Slot(tail)][k] = Msg(gen, tail)

\* Slot i has never been written.  The slot of message 0 has been, when the
\* first publisher has moved its tail beyond it.
Blank(i) ==
  /\ seq[i].n = 0 /\ word[i] = NoBuf
  /\ i = 0 /\ gen = 1 => tail = 0

\* A slot without the WRITING bit holds one whole message or is blank.
SlotInv ==
  \A i \in SlotIdx : ~seq[i].w => Whole(word[i], seq[i].n) \/ Blank(i)

\* What a reader in try_receive knows of the slot it copies: until the slot
\* is stamped with a later number, what was copied is what is there.
ReaderOK(r) ==
  /\ pc[r] # "copy" => rdone[r] = {}
  /\ pc[r] \in {"load", "copy"} => eff[r] < Frontier /\ (gen = 1 => tail > 0)
  /\ after[r].n < Frontier \/ after[r].n = 0
  /\ pc[r] = "copy" =>
       \/ seq[Slot(eff[r])].n > eff[r]
       \/ /\ seq[Slot(eff[r])] = Clean(eff[r])
          /\ \A k \in WordIdx :
               k \in rdone[r] => buf[r][k] = word[Slot(eff[r])][k]
  /\ pc[r] = "copy" /\ Words + 1 \in rdone[r] =>
       /\ WordIdx \subseteq rdone[r]
       /\ after[r] = Clean(eff[r]) =>
            Whole(buf[r], eff[r]) \/ BlankFirst(buf[r], eff[r])

ReaderInv == \A r \in Subs : ReaderOK(r)

SeqlockInv ==
  /\ TypeOK /\ NumberingInv /\ StampInv /\ WriteInv /\ SlotInv /\ ReaderInv
  /\ NoTornDelivery

LEMMA InitSeqlock == Init => SeqlockInv
  <1> SUFFICES ASSUME Init PROVE SeqlockInv
    OBVIOUS
  <1>1. TypeOK
    BY InitType
  <1>2. NumberingInv
    BY InitNumbering
  <1>3. StampInv
    BY DEF Init, StampInv, Clean
  <1>4. WriteInv
    BY DEF Init, WriteInv
  <1>5. SlotInv
    BY DEF Init, SlotInv, Blank, Clean
  <1>6. ReaderInv
    BY DEF Init, ReaderInv, ReaderOK, Clean
  <1>7. NoTornDelivery
    BY DEF Init, NoTornDelivery, Delivered, NoGot
  <1> QED
    BY <1>1, <1>2, <1>3, <1>4, <1>5, <1>6, <1>7 DEF SeqlockInv

\* A step of the publisher that stores to no slot leaves what the slots and
\* the readers know alone, if it does not lower the frontier.
LEMMA QuietPublisher ==
  ASSUME SeqlockInv, TypeOK', UNCHANGED <<seq, word, subvars>>,
         Frontier' >= Frontier, gen' >= gen,
         gen' = 1 => tail' = tail \/ (ppc = "bump" /\ tail' = tail + 1)
  PROVE  StampInv' /\ SlotInv' /\ ReaderInv' /\ NoTornDelivery'
  <1> USE DEF SeqlockInv, subvars, connvars, readvars
  <1>1. /\ Frontier \in Nat /\ Frontier' \in Nat /\ gen \in Nat /\ gen' \in Nat
        /\ tail \in Nat /\ tail' \in Nat /\ gen >= 1
    BY FrontierType DEF TypeOK, NumberingInv
  <1>2. StampInv'
    BY <1>1 DEF StampInv, TypeOK, Stamp
  <1>3. SlotInv'
    <2> SUFFICES ASSUME NEW i \in SlotIdx, ~seq'[i].w
                 PROVE  Whole(word[i], seq[i].n)' \/ Blank(i)'
      BY DEF SlotInv
    <2>1. CASE Whole(word[i], seq[i].n)
      BY <2>1, <1>1 DEF Whole
    <2>2. CASE Blank(i)
      <3>1. ASSUME i = 0, gen' = 1 PROVE tail' = 0
        <4>1. gen = 1 /\ tail = 0
          BY <1>1, <2>2, <3>1 DEF Blank
        <4>2. ppc # "bump"
          <5> SUFFICES ASSUME ppc = "bump" PROVE FALSE
            OBVIOUS
          <5>1. 1 \in WordIdx /\ Slot(0) = 0
            BY ConstantsOK DEF WordIdx, Slot
          <5>2. word[0][1] = Msg(1, 0)
            BY <4>1, <5>1 DEF WriteInv
          <5>3. word[0][1] = Msg(0, 0)
            BY <2>2, <3>1, <5>1 DEF Blank, NoBuf, Zero
          <5> QED
            BY <5>2, <5>3 DEF Msg
        <4> QED
          BY <3>1, <4>1, <4>2
      <3> QED
        BY <2>2, <3>1 DEF Blank
    <2> QED
      BY <2>1, <2>2 DEF SlotInv
  <1>4. ReaderInv'
    <2> SUFFICES ASSUME NEW r \in Subs PROVE ReaderOK(r)'
      BY DEF ReaderInv
    <2>1. ReaderOK(r) /\ after[r].n \in Nat /\ eff[r] \in Nat
      BY DEF ReaderInv, TypeOK, Stamp
    <2>2. gen' = 1 => gen = 1 /\ tail' >= tail
      BY <1>1
    <2>3. /\ Whole(buf[r], eff[r]) => Whole(buf[r], eff[r])'
          /\ BlankFirst(buf[r], eff[r]) => BlankFirst(buf[r], eff[r])'
      BY <1>1 DEF Whole, BlankFirst
    <2> QED
      BY <1>1, <2>1, <2>2, <2>3 DEF ReaderOK
  <1>5. NoTornDelivery'
    <2> SUFFICES ASSUME NEW r \in Subs, Delivered(r)'
                 PROVE  \/ Whole(got[r].words, got[r].seq)'
                        \/ BlankFirst(got[r].words, got[r].seq)'
      BY DEF NoTornDelivery
    <2>1. \/ Whole(got[r].words, got[r].seq)
          \/ BlankFirst(got[r].words, got[r].seq)
      BY DEF NoTornDelivery, Delivered, NumberingInv
    <2> QED
      BY <1>1, <2>1 DEF Whole, BlankFirst
  <1> QED
    BY <1>2, <1>3, <1>4, <1>5

LEMMA PublisherSeqlock ==
  ASSUME TSO, SeqlockInv, PublisherStep, ~reused'
  PROVE  SeqlockInv'
  <1> USE DEF SeqlockInv
  <1>0. TypeOK' /\ NumberingInv' /\ Frontier' >= Frontier
    BY PublisherType, PublisherNumbering
  <1>1. CASE Publish \/ ScanCursor \/ Reject \/ Admit \/ Append \/ BumpTail
             \/ FlushLog
    <2> USE <1>1 DEF Publish, ScanCursor, Reject, Admit, Append, BumpTail,
            FlushLog, ScanDone, PubGoto, RingPublish, shared, subvars, pubvars
    <2>1. UNCHANGED <<seq, word, gen, subvars>>
      OBVIOUS
    <2>2. tail' = tail \/ (ppc = "bump" /\ tail' = tail + 1)
      OBVIOUS
    <2>3. WriteInv'
      BY DEF WriteInv
    <2>4. gen' >= gen
      BY <2>1 DEF TypeOK
    <2> QED
      BY <1>0, <2>1, <2>2, <2>3, <2>4, QuietPublisher
  <1>2. ASSUME NEW k \in 0..Words, StoreSlot(k) PROVE SeqlockInv'
    <2> DEFINE i == Slot(tail)
    <2>0. /\ i \in SlotIdx /\ i' = i
          /\ UNCHANGED <<tail, gen, wal, reused, ppc, subvars>> /\ ppc = "write"
          /\ pdone' = pdone \cup {k}
      BY <1>2, SlotType DEF StoreSlot, TypeOK, Slot
    <2>2. CASE k = 0
      <3>1. pdone = {} /\ pdone' = {0}
        BY <1>2, <2>0, <2>2 DEF StoreSlot, WriteInv
      <3>2. Frontier = tail /\ Frontier' = tail + 1
        BY <2>0, <3>1 DEF Frontier, Marked, Down
      <3>3. /\ seq' = [seq EXCEPT ![i] = Writing(tail)]
            /\ word' = word
        BY <1>2, <2>2 DEF StoreSlot
      <3>4. seq'[i] = Writing(tail) /\ \A j \in SlotIdx : j # i => seq'[j] = seq[j]
        BY <2>0, <3>3 DEF TypeOK
      <3>5. StampInv'
        <4> SUFFICES ASSUME NEW j \in SlotIdx
                     PROVE  seq'[j].n < tail + 1 \/ seq'[j].n = 0
          BY <3>2 DEF StampInv
        <4>1. CASE j = i
          BY <3>4, <4>1 DEF Writing, TypeOK
        <4>2. CASE j # i
          BY <3>2, <3>4, <4>2 DEF StampInv, TypeOK, Stamp
        <4> QED
          BY <4>1, <4>2
      <3>6. WriteInv'
        BY <2>0, <3>1, <3>4 DEF WriteInv, WordIdx
      <3>7. SlotInv'
        BY <2>0, <3>3, <3>4 DEF SlotInv, Writing, Whole, Blank
      <3>8. ReaderInv'
        <4> SUFFICES ASSUME NEW r \in Subs PROVE ReaderOK(r)'
          BY DEF ReaderInv
        <4>1. ReaderOK(r) /\ eff[r] \in Nat /\ Slot(eff[r]) \in SlotIdx
          BY SlotType DEF ReaderInv, TypeOK
        <4>2. UNCHANGED <<pc, eff, rdone, buf, after, gen>>
          BY <2>0 DEF subvars, readvars
        <4>3. CASE Slot(eff[r]) = i
          BY <2>0, <3>2, <3>4, <4>1, <4>2, <4>3
          DEF ReaderOK, Writing, TypeOK, Stamp, Whole, BlankFirst
        <4>4. CASE Slot(eff[r]) # i
          BY <2>0, <3>2, <3>3, <3>4, <4>1, <4>2, <4>4 DEF ReaderOK, TypeOK, Stamp,
             Whole, BlankFirst
        <4> QED
          BY <4>3, <4>4
      <3>9. NoTornDelivery'
        BY <2>0 DEF NoTornDelivery, Delivered, Whole, BlankFirst, subvars
      <3> QED
        BY <1>0, <3>5, <3>6, <3>7, <3>8, <3>9
    <2>3. CASE k # 0
      <3>1. 0 \in pdone /\ k \in WordIdx
        BY <1>2, <2>3, ConstantsOK DEF StoreSlot, WordIdx
      <3>2. seq[i] = Writing(tail)
        BY <2>0, <3>1 DEF WriteInv
      <3>3. /\ seq' = seq
            /\ word' = [word EXCEPT ![i][k] = Msg(gen, tail)]
        BY <1>2, <2>3 DEF StoreSlot
      <3>4. /\ \A j \in SlotIdx : j # i => word'[j] = word[j]
            /\ word'[i][k] = Msg(gen, tail)
            /\ \A j \in WordIdx : j # k => word'[i][j] = word[i][j]
        BY <2>0, <3>1, <3>3 DEF TypeOK
      <3>5. Frontier' = Frontier
        BY <2>0, <3>1 DEF Frontier, Marked
      <3>6. StampInv'
        BY <3>3, <3>5 DEF StampInv
      <3>7. WriteInv'
        BY <2>0, <3>1, <3>3, <3>4 DEF WriteInv
      <3>8. SlotInv'
        BY <2>0, <3>2, <3>3, <3>4 DEF SlotInv, Writing, Whole, Blank
      <3>9. ReaderInv'
        <4> SUFFICES ASSUME NEW r \in Subs PROVE ReaderOK(r)'
          BY DEF ReaderInv
        <4>1. ReaderOK(r) /\ eff[r] \in Nat /\ Slot(eff[r]) \in SlotIdx
          BY SlotType DEF ReaderInv, TypeOK
        <4>2. UNCHANGED <<pc, eff, rdone, buf, after, gen>>
          BY <2>0 DEF subvars, readvars
        <4>3. CASE Slot(eff[r]) = i
          BY <2>0, <3>2, <3>3, <3>5, <4>1, <4>2, <4>3
          DEF ReaderOK, Writing, Clean, Whole, BlankFirst
        <4>4. CASE Slot(eff[r]) # i
          BY <2>0, <3>3, <3>4, <3>5, <4>1, <4>2, <4>4
          DEF ReaderOK, Whole, BlankFirst
        <4> QED
          BY <4>3, <4>4
      <3>10. NoTornDelivery'
        BY <2>0 DEF NoTornDelivery, Delivered, Whole, BlankFirst, subvars
      <3> QED
        BY <1>0, <3>6, <3>7, <3>8, <3>9, <3>10
    <2> QED
      BY <2>2, <2>3
  <1>3. CASE Commit
    <2> DEFINE i == Slot(tail)
    <2>0. /\ i \in SlotIdx /\ ppc = "write" /\ pdone = 0..Words /\ ppc' = "bump"
          /\ UNCHANGED <<tail, gen, wal, reused, word, subvars>>
          /\ seq' = [seq EXCEPT ![i] = Clean(tail)]
      BY <1>3, SlotType DEF Commit, PubGoto, TypeOK
    <2>1. seq'[i] = Clean(tail) /\ \A j \in SlotIdx : j # i => seq'[j] = seq[j]
      BY <2>0 DEF TypeOK
    <2>2. 0 \in pdone /\ WordIdx \subseteq pdone
      BY <2>0, ConstantsOK DEF WordIdx
    <2>3. seq[i] = Writing(tail) /\ \A k \in WordIdx : word[i][k] = Msg(gen, tail)
      BY <2>0, <2>2 DEF WriteInv
    <2>4. Frontier' = Frontier /\ Frontier = tail + 1
      BY <2>0, <2>2 DEF Frontier, Marked
    <2>6. StampInv'
      BY <2>0, <2>1, <2>4 DEF StampInv, Clean, TypeOK
    <2>7. WriteInv'
      BY <2>0, <2>1, <2>3 DEF WriteInv
    <2>8. SlotInv'
      <3>1. gen \in 1..gen
        BY DEF TypeOK, NumberingInv
      <3>2. Whole(word[i], tail)
        BY <2>3, <3>1 DEF Whole
      <3> QED
        BY <2>0, <2>1, <3>2 DEF SlotInv, Clean, Whole, Blank
    <2>9. ReaderInv'
      <3> SUFFICES ASSUME NEW r \in Subs PROVE ReaderOK(r)'
        BY DEF ReaderInv
      <3>1. ReaderOK(r) /\ eff[r] \in Nat /\ Slot(eff[r]) \in SlotIdx
        BY SlotType DEF ReaderInv, TypeOK
      <3>2. UNCHANGED <<pc, eff, rdone, buf, after, gen>>
        BY <2>0 DEF subvars, readvars
      <3>3. CASE Slot(eff[r]) = i
        BY <2>0, <2>1, <2>3, <2>4, <3>1, <3>2, <3>3 DEF ReaderOK, Writing, Clean,
           Whole, BlankFirst
      <3>4. CASE Slot(eff[r]) # i
        BY <2>0, <2>1, <2>4, <3>1, <3>2, <3>4 DEF ReaderOK, Whole, BlankFirst
      <3> QED
        BY <3>3, <3>4
    <2>10. NoTornDelivery'
      BY <2>0 DEF NoTornDelivery, Delivered, Whole, BlankFirst, subvars
    <2> QED
      BY <1>0, <2>6, <2>7, <2>8, <2>9, <2>10
  <1> QED
    BY <1>1, <1>2, <1>3 DEF PublisherStep

LEMMA RestartSeqlock ==
  ASSUME SeqlockInv, RestartStep, ~reused'
  PROVE  SeqlockInv'
  <1> USE DEF SeqlockInv
  <1>1. TypeOK' /\ NumberingInv' /\ Frontier' >= Frontier
    BY RestartType, PublisherNumbering
  <1>2. /\ UNCHANGED <<seq, word, subvars>> /\ ppc' \notin {"write", "bump"}
        /\ \/ gen' = gen /\ tail' = tail
           \/ gen' = gen /\ ppc \in Down
           \/ gen' = gen + 1
    BY DEF RestartStep, PublisherDrops, PublisherKilled, Dies, ReuseRing,
       ResetTail, AlignTail, PubGoto, shared, subvars, Down
  <1>3. gen' >= gen /\ (gen' = 1 => tail' = tail)
    <2>1. CASE gen' = gen /\ tail' = tail
      BY <2>1 DEF TypeOK
    <2>2. CASE gen' = gen + 1
      BY <2>2 DEF TypeOK, NumberingInv
    <2>3. CASE ResetTail \/ AlignTail
      BY <2>3 DEF ResetTail, AlignTail, TypeOK, NumberingInv
    <2>4. CASE PublisherDrops \/ PublisherKilled \/ ReuseRing
      BY <2>4 DEF PublisherDrops, PublisherKilled, Dies, ReuseRing, TypeOK,
         NumberingInv
    <2> QED
      BY <2>3, <2>4 DEF RestartStep
  <1>4. WriteInv'
    BY <1>2 DEF WriteInv
  <1> QED
    BY <1>1, <1>2, <1>3, <1>4, QuietPublisher

\* A subscriber stores to nothing but the cursor table.
LEMMA QuietSubscriber ==
  ASSUME SeqlockInv, UNCHANGED <<tail, gen, seq, word, logvars, pubvars>>
  PROVE  /\ NumberingInv' /\ StampInv' /\ WriteInv' /\ SlotInv'
         /\ Frontier' = Frontier
  <1> USE DEF SeqlockInv, pubvars
  <1>1. Frontier' = Frontier
    BY DEF Frontier, Marked
  <1>2. NumberingInv'
    BY DEF NumberingInv
  <1>3. StampInv'
    BY <1>1 DEF StampInv
  <1>4. WriteInv'
    BY DEF WriteInv
  <1>5. SlotInv'
    BY DEF SlotInv, Whole, Blank
  <1> QED
    BY <1>1, <1>2, <1>3, <1>4, <1>5

\* A step of subscriber r changes the local variables of r only: what is
\* left to show is that r's own are still in order.
LEMMA OneReader ==
  ASSUME NEW r \in Subs, SeqlockInv, TypeOK', ReaderOK(r)',
         UNCHANGED <<tail, gen, seq, word, logvars, pubvars>>,
         \A q \in Subs \ {r} : /\ pc'[q] = pc[q] /\ eff'[q] = eff[q]
                               /\ rdone'[q] = rdone[q] /\ buf'[q] = buf[q]
                               /\ after'[q] = after[q],
         NoTornDelivery'
  PROVE  SeqlockInv'
  <1>1. /\ NumberingInv' /\ StampInv' /\ WriteInv' /\ SlotInv'
        /\ Frontier' = Frontier
    BY QuietSubscriber
  <1>2. ASSUME NEW q \in Subs \ {r} PROVE ReaderOK(q)'
    BY <1>1, <1>2 DEF SeqlockInv, ReaderInv, ReaderOK, Whole, BlankFirst
  <1> QED
    BY <1>1, <1>2 DEF SeqlockInv, ReaderInv

\* A step that leaves r outside try_receive, or about to load seq_before at
\* a position below the frontier.
LEMMA ReaderAtRest ==
  ASSUME NEW r \in Subs, SeqlockInv, TypeOK', UNCHANGED <<tail, gen, seq, word, logvars, pubvars>>,
         NEW l \in SubPC, l # "copy", pc' = [pc EXCEPT ![r] = l],
         NEW e \in Nat,
         l = "load" => e < Frontier /\ (gen = 1 => tail > 0),
         \/ /\ eff' = [eff EXCEPT ![r] = e]
            /\ rdone' = [rdone EXCEPT ![r] = {}]
            /\ buf' = [buf EXCEPT ![r] = NoBuf]
            /\ after' = [after EXCEPT ![r] = Clean(0)]
         \/ /\ pc[r] # "copy"
            /\ eff' = [eff EXCEPT ![r] = e]
            /\ UNCHANGED <<rdone, buf, after>>
         \/ /\ pc[r] # "copy" /\ l # "load"
            /\ UNCHANGED <<eff, rdone, buf, after>>,
         NoTornDelivery'
  PROVE  SeqlockInv'
  <1>1. Frontier' = Frontier
    BY QuietSubscriber
  <1>2. ReaderOK(r)
    BY DEF SeqlockInv, ReaderInv
  <1>3. pc'[r] = l /\ \A q \in Subs \ {r} : pc'[q] = pc[q]
    BY DEF SeqlockInv, TypeOK
  <1>4. rdone'[r] = {}
    BY <1>2 DEF SeqlockInv, TypeOK, ReaderOK
  <1>5. after'[r].n < Frontier \/ after'[r].n = 0
    BY <1>2 DEF SeqlockInv, TypeOK, ReaderOK, Clean
  <1>6. l = "load" => eff'[r] < Frontier /\ (gen' = 1 => tail' > 0)
    BY DEF SeqlockInv, TypeOK
  <1>7. ReaderOK(r)'
    BY <1>1, <1>3, <1>4, <1>5, <1>6 DEF ReaderOK
  <1>8. \A q \in Subs \ {r} : /\ eff'[q] = eff[q] /\ rdone'[q] = rdone[q]
                              /\ buf'[q] = buf[q] /\ after'[q] = after[q]
    BY DEF SeqlockInv, TypeOK
  <1> QED
    BY <1>3, <1>7, <1>8, OneReader

\* NoTornDelivery is about got and gen alone.
LEMMA SameGot ==
  ASSUME SeqlockInv, UNCHANGED <<gen, got>>
  PROVE  NoTornDelivery'
  BY DEF SeqlockInv, NumberingInv, NoTornDelivery, Delivered, Whole, BlankFirst

LEMMA ReleaseSeqlock ==
  ASSUME NEW r \in Subs, SeqlockInv, Release(r), pc[r] # "copy"
  PROVE  SeqlockInv'
  <1>1. TypeOK'
    BY ReleaseType DEF SeqlockInv
  <1>2. NoTornDelivery'
    BY SameGot DEF Release
  <1> QED
    BY <1>1, <1>2, ReaderAtRest DEF Release, SubGoto, SubPC, readvars

LEMMA ConnectSeqlock ==
  ASSUME NEW r \in Subs, SeqlockInv, ConnectStep(r)
  PROVE  SeqlockInv'
  <1>0. TypeOK'
    BY ConnectType DEF SeqlockInv
  <1>1. CASE Connect(r)
    <2>1. NoTornDelivery'
      <3>1. got'[r] = NoGot /\ \A q \in Subs \ {r} : got'[q] = got[q]
        BY <1>1 DEF Connect, SeqlockInv, TypeOK
      <3>2. gen' = gen
        BY <1>1 DEF Connect, shared
      <3> QED
        BY <3>1, <3>2 
        DEF NoTornDelivery, Delivered, NoGot, SeqlockInv, NumberingInv, Whole, BlankFirst
    <2> QED
      BY <1>0, <1>1, <2>1, ReaderAtRest
      DEF Connect, SubGoto, SubPC, shared, readvars
  <1>2. CASE ClaimCursor(r)
    <2>1. NoTornDelivery'
      BY <1>2, SameGot DEF ClaimCursor
    <2>2. PICK l \in {"handshake", "claim", "off"} : pc' = [pc EXCEPT ![r] = l]
      BY <1>2 DEF ClaimCursor, SubGoto, SeqlockInv, TypeOK
    <2> QED
      BY <1>0, <1>2, <2>1, <2>2, ReaderAtRest DEF ClaimCursor, SubPC, readvars
  <1>3. CASE Handshake(r)
    <2>1. NoTornDelivery'
      BY <1>3, SameGot DEF Handshake, shared
    <2> QED
      BY <1>0, <1>3, <2>1, ReaderAtRest DEF Handshake, SubGoto, SubPC, shared, readvars
  <1>4. CASE HandshakeFails(r)
    BY <1>4, ReleaseSeqlock DEF HandshakeFails
  <1>5. ASSUME NEW s \in Starts, Resync(r, s) PROVE SeqlockInv'
    <2>1. NoTornDelivery'
      BY <1>5, SameGot DEF Resync, shared
    <2> QED
      BY <1>0, <1>5, <2>1, ReaderAtRest DEF Resync, SubGoto, SubPC, shared, readvars
  <1>6. ASSUME NEW s \in Starts, CursorTooOld(r, s) PROVE SeqlockInv'
    BY <1>6, ReleaseSeqlock DEF CursorTooOld
  <1>7. CASE SetCursor(r)
    <2>1. NoTornDelivery'
      BY <1>7, SameGot DEF SetCursor
    <2> QED
      BY <1>0, <1>7, <2>1, ReaderAtRest DEF SetCursor, SubGoto, SubPC, readvars
  <1>8. CASE ReadGeneration(r)
    <2>1. NoTornDelivery'
      BY <1>8, SameGot DEF ReadGeneration, shared
    <2>2. PICK l \in {"ready", "replay"} : pc' = [pc EXCEPT ![r] = l]
      BY <1>8 DEF ReadGeneration, SubGoto
    <2> QED
      BY <1>0, <1>8, <2>1, <2>2, ReaderAtRest DEF ReadGeneration, SubPC, shared, readvars
  <1> QED
    BY <1>1, <1>2, <1>3, <1>4, <1>5, <1>6, <1>7, <1>8 DEF ConnectStep

LEMMA ReturnNoneSeqlock ==
  ASSUME NEW r \in Subs, SeqlockInv, ReturnNone(r)
  PROVE  SeqlockInv'
  <1>1. TypeOK'
    BY ReturnNoneType DEF SeqlockInv
  <1>2. NoTornDelivery'
    BY SameGot DEF ReturnNone, shared
  <1> QED
    BY <1>1, <1>2, ReaderAtRest DEF ReturnNone, ResetReader, SubGoto, SubPC, shared

LEMMA RetrySeqlock ==
  ASSUME NEW r \in Subs, NEW e \in Nat, e < Frontier, gen = 1 => tail > 0,
         SeqlockInv, Retry(r, e)
  PROVE  SeqlockInv'
  <1>1. CASE tries[r] + 1 = MaxRetries
    BY <1>1, ReturnNoneSeqlock DEF Retry
  <1>2. CASE tries[r] + 1 # MaxRetries
    <2>1. /\ pc' = [pc EXCEPT ![r] = "load"]
          /\ eff' = [eff EXCEPT ![r] = e]
          /\ rdone' = [rdone EXCEPT ![r] = {}]
          /\ buf' = [buf EXCEPT ![r] = NoBuf]
          /\ after' = [after EXCEPT ![r] = Clean(0)]
          /\ UNCHANGED <<shared, pubvars, cursor, connvars, got>>
      BY <1>2 DEF Retry, SubGoto
    <2>2. TypeOK'
      BY RetryType DEF SeqlockInv
    <2>3. NoTornDelivery'
      BY <2>1, SameGot DEF shared
    <2> QED
      BY <2>1, <2>2, <2>3, ReaderAtRest DEF SubPC, shared
  <1> QED
    BY <1>1, <1>2

\* The copy loop of try_receive: one word, or seq_after.
LEMMA LoadSlotSeqlock ==
  ASSUME NEW r \in Subs, NEW k \in 1..(Words + 1), TSO, SeqlockInv, TypeOK',
         LoadSlot(r, k)
  PROVE  SeqlockInv'
  <1> DEFINE i == Slot(eff[r])
  <1>0. /\ ReaderOK(r) /\ SlotInv /\ i \in SlotIdx /\ eff[r] \in Nat
        /\ seq[i] \in Stamp /\ WordIdx = 1..Words /\ Words \in Nat
    BY SlotType, ConstantsOK DEF SeqlockInv, ReaderInv, TypeOK, WordIdx
  <1>1. /\ pc[r] = "copy" /\ k \notin rdone[r]
        /\ \A j \in 1..(Words + 1) : j < k => j \in rdone[r]
        /\ UNCHANGED <<tail, gen, seq, word, logvars, pubvars, pc, eff, got>>
    BY DEF LoadSlot, shared
  <1>2. Frontier' = Frontier
    BY <1>1, QuietSubscriber
  <1>3. NoTornDelivery'
    BY <1>1, SameGot
  <1>4. rdone'[r] = rdone[r] \cup {k}
    BY DEF LoadSlot, SeqlockInv, TypeOK
  <1>5. Words + 1 \notin rdone[r]
    BY <1>0, <1>1 DEF ReaderOK
  <1>6. ASSUME k <= Words PROVE ReaderOK(r)'
    <2>0. /\ k \in WordIdx
          /\ after' = after
          /\ buf' = [buf EXCEPT ![r] = [buf[r] EXCEPT ![k] = word[i][k]]]
      BY <1>0, <1>6 DEF LoadSlot
    <2>1. /\ buf'[r][k] = word[i][k]
          /\ \A j \in WordIdx : j # k => buf'[r][j] = buf[r][j]
      BY <2>0 DEF SeqlockInv, TypeOK
    <2>2. Words + 1 \notin rdone'[r]
      BY <1>0, <1>4, <1>5, <1>6
    <2> QED
      BY <1>0, <1>1, <1>2, <1>4, <2>0, <2>1, <2>2 DEF ReaderOK
  <1>7. ASSUME k = Words + 1 PROVE ReaderOK(r)'
    <2>0. buf' = buf /\ after' = [after EXCEPT ![r] = seq[i]]
      BY <1>0, <1>7 DEF LoadSlot
    <2>1. /\ buf' = buf
          /\ after'[r] = seq[i]
      BY <2>0 DEF SeqlockInv, TypeOK
    <2>2. WordIdx \subseteq rdone[r]
      BY <1>0, <1>1, <1>7
    <2>3. seq[i].n < Frontier \/ seq[i].n = 0
      BY <1>0 DEF SeqlockInv, StampInv
    <2>4. ASSUME seq[i] = Clean(eff[r])
          PROVE  Whole(buf[r], eff[r]) \/ BlankFirst(buf[r], eff[r])
      <3>1. \A j \in WordIdx : buf[r][j] = word[i][j]
        BY <1>0, <1>1, <2>2, <2>4 DEF ReaderOK, Clean
      <3>2. buf[r] = word[i]
        <4>1. buf[r] \in [WordIdx -> Message] /\ word[i] \in [WordIdx -> Message]
          BY <1>0 DEF SeqlockInv, TypeOK
        <4> QED
          BY <3>1, <4>1
      <3>3. CASE Whole(word[i], eff[r])
        BY <3>2, <3>3
      <3>4. CASE Blank(i)
        <4>1. eff[r] = 0 /\ i = 0
          BY <2>4, <3>4, ConstantsOK DEF Blank, Clean, Slot
        <4>2. gen > 1
          BY <1>0, <1>1, <3>4, <4>1
          DEF Blank, ReaderOK, SeqlockInv, NumberingInv, TypeOK
        <4> QED
          BY <3>2, <3>4, <4>1, <4>2 DEF Blank, BlankFirst
      <3> QED
        BY <1>0, <2>4, <3>3, <3>4 DEF SlotInv, Clean
    <2>5. /\ Whole(buf[r], eff[r]) => Whole(buf[r], eff[r])'
          /\ BlankFirst(buf[r], eff[r]) => BlankFirst(buf[r], eff[r])'
      BY <1>1, <2>1 DEF Whole, BlankFirst
    <2>6. /\ pc'[r] = "copy" /\ eff'[r] = eff[r] /\ gen' = gen /\ tail' = tail
          /\ seq' = seq /\ word' = word
      BY <1>1
    <2>7. after'[r].n < Frontier \/ after'[r].n = 0
      BY <2>1, <2>3
    <2>8. \/ seq[i].n > eff[r]
          \/ /\ seq[i] = Clean(eff[r])
             /\ \A j \in WordIdx : j \in rdone'[r] => buf'[r][j] = word[i][j]
      BY <1>0, <1>1, <1>4, <2>1, <2>2 DEF ReaderOK
    <2>9. WordIdx \subseteq rdone'[r]
      BY <1>4, <2>2
    <2>10. after'[r] = Clean(eff[r]) =>
             Whole(buf[r], eff[r])' \/ BlankFirst(buf[r], eff[r])'
      BY <2>1, <2>4, <2>5
    <2>11. eff[r] < Frontier /\ (gen = 1 => tail > 0)
      BY <1>0, <1>1 DEF ReaderOK
    <2> QED
      BY <1>2, <2>6, <2>7, <2>8, <2>9, <2>10, <2>11 DEF ReaderOK
  <1>8. ReaderOK(r)'
    BY <1>0, <1>6, <1>7
  <1>9. \A q \in Subs \ {r} : /\ rdone'[q] = rdone[q] /\ buf'[q] = buf[q]
                              /\ after'[q] = after[q]
    BY DEF LoadSlot, SeqlockInv, TypeOK
  <1> QED
    BY <1>1, <1>3, <1>8, <1>9, OneReader

\* Storing the cursor ends the call; the message handed out, if any, must be
\* whole.
LEMMA StoreCursorSeqlock ==
  ASSUME NEW r \in Subs, SeqlockInv, TypeOK', StoreCursor(r), NoTornDelivery'
  PROVE  SeqlockInv'
  BY ReaderAtRest DEF StoreCursor, ResetReader, SubGoto, SubPC

LEMMA ReceiveSeqlock ==
  ASSUME NEW r \in Subs, TSO, SeqlockInv, ReceiveStep(r)
  PROVE  SeqlockInv'
  <1>0. TypeOK'
    BY ReceiveType DEF SeqlockInv
  <1>1. CASE ReplayRecord(r)
    <2>1. NoTornDelivery'
      BY <1>1, SameGot DEF ReplayRecord, shared
    <2>2. pc' = [pc EXCEPT ![r] = "replay"]
      BY <1>1 DEF ReplayRecord, SeqlockInv, TypeOK
    <2> QED
      BY <1>0, <1>1, <2>1, <2>2, ReaderAtRest DEF ReplayRecord, SubPC, shared, readvars
  <1>2. CASE ReplayDrained(r)
    <2>1. NoTornDelivery'
      BY <1>2, SameGot DEF ReplayDrained
    <2> QED
      BY <1>0, <1>2, <2>1, ReaderAtRest DEF ReplayDrained, SubGoto, SubPC, readvars
  <1>3. CASE BeginReceive(r)
    <2>1. NoTornDelivery'
      BY <1>3, SameGot DEF BeginReceive, shared
    <2>2. cursor[r] \in Nat /\ cursor[r] < Frontier /\ tail > 0
      BY <1>3 DEF BeginReceive, SeqlockInv, NumberingInv, TypeOK, Frontier, Marked
    <2> QED
      BY <1>0, <1>3, <2>1, <2>2, ReaderAtRest DEF BeginReceive, SubGoto, SubPC, shared
  <1>4. CASE LoadSeq(r)
    <2> DEFINE s == seq[Slot(eff[r])]
    <2>1. /\ Slot(eff[r]) \in SlotIdx /\ eff[r] \in Nat /\ s.n \in Nat
          /\ ReaderOK(r) /\ pc[r] = "load"
      BY <1>4, SlotType DEF LoadSeq, SeqlockInv, ReaderInv, TypeOK, Stamp
    <2>2. eff[r] < Frontier /\ (gen = 1 => tail > 0)
          /\ (s.n > eff[r] => s.n < Frontier)
      BY <2>1 DEF ReaderOK, SeqlockInv, StampInv
    <2>3. CASE s.w /\ Retry(r, eff[r])
      BY <2>1, <2>2, <2>3, RetrySeqlock
    <2>4. CASE ~s.w /\ s.n > eff[r] /\ Retry(r, s.n)
      BY <2>1, <2>2, <2>4, RetrySeqlock
    <2>5. CASE ReturnNone(r)
      BY <2>5, ReturnNoneSeqlock
    <2>6. CASE /\ s = Clean(eff[r])
               /\ SubGoto(r, "copy")
               /\ UNCHANGED <<shared, pubvars, cursor, connvars, readvars, got>>
      <3>1. /\ UNCHANGED <<tail, gen, seq, word, logvars, pubvars, eff, rdone, buf,
                           after, got>>
            /\ pc'[r] = "copy" /\ \A q \in Subs \ {r} : pc'[q] = pc[q]
        BY <2>6 DEF SubGoto, shared, readvars, SeqlockInv, TypeOK
      <3>2. NoTornDelivery'
        BY <3>1, SameGot
      <3>3. Frontier' = Frontier
        BY <3>1, QuietSubscriber
      <3>4. rdone[r] = {}
        BY <2>1 DEF ReaderOK
      <3>5. ReaderOK(r)'
        BY <2>1, <2>2, <2>6, <3>1, <3>3, <3>4 DEF ReaderOK
      <3> QED
        BY <1>0, <3>1, <3>2, <3>5, OneReader
    <2> QED
      BY <1>4, <2>3, <2>4, <2>5, <2>6 DEF LoadSeq
  <1>5. ASSUME NEW k \in 1..(Words + 1), LoadSlot(r, k) PROVE SeqlockInv'
    BY <1>0, <1>5, LoadSlotSeqlock
  <1>6. CASE Overwritten(r)
    <2>1. /\ ReaderOK(r) /\ eff[r] \in Nat /\ after[r].n \in Nat
          /\ pc[r] = "copy"
      BY <1>6 DEF Overwritten, CopyDone, SeqlockInv, ReaderInv, TypeOK, Stamp
    <2>2. /\ Greater(eff[r], after[r].n) \in Nat
          /\ Greater(eff[r], after[r].n) < Frontier
          /\ (gen = 1 => tail > 0)
      BY <2>1 DEF ReaderOK, Greater
    <2> QED
      BY <1>6, <2>2, RetrySeqlock DEF Overwritten
  <1>7. CASE Deliver(r)
    <2>1. /\ ReaderOK(r) /\ pc[r] = "copy" /\ Words + 1 \in rdone[r]
          /\ after[r] = Clean(eff[r])
      BY <1>7, ConstantsOK DEF Deliver, CopyDone, SeqlockInv, ReaderInv
    <2>2. Whole(buf[r], eff[r]) \/ BlankFirst(buf[r], eff[r])
      BY <2>1 DEF ReaderOK
    <2>3. /\ gen' = gen
          /\ got'[r] = [seq |-> eff[r], from |-> cursor[r], words |-> buf[r]]
          /\ \A q \in Subs \ {r} : got'[q] = got[q]
      BY <1>7 DEF Deliver, StoreCursor, SeqlockInv, TypeOK
    <2>4. NoTornDelivery'
      BY <2>2, <2>3
      DEF NoTornDelivery, Delivered, SeqlockInv, NumberingInv, Whole, BlankFirst
    <2> QED
      BY <1>0, <1>7, <2>4, StoreCursorSeqlock DEF Deliver
  <1> QED
    BY <1>1, <1>2, <1>3, <1>4, <1>5, <1>6, <1>7 DEF ReceiveStep

LEMMA NextSeqlock ==
  ASSUME TSO
  PROVE  SeqlockInv /\ [Next]_vars /\ ~reused' => SeqlockInv'
  <1> SUFFICES ASSUME SeqlockInv, [Next]_vars, ~reused' PROVE SeqlockInv'
    OBVIOUS
  <1>0. TypeOK'
    BY NextType DEF SeqlockInv
  <1>1. ASSUME NEW r \in Subs, RejectOversize(r) PROVE SeqlockInv'
    <2>1. NoTornDelivery'
      BY <1>1, SameGot DEF RejectOversize, StoreCursor
    <2> QED
      BY <1>0, <1>1, <2>1, StoreCursorSeqlock DEF RejectOversize
  <1>2. ASSUME NEW r \in Subs, Drop(r) PROVE SeqlockInv'
    BY <1>2, ReleaseSeqlock DEF Drop
  <1>3. ASSUME NEW r \in Subs, Killed(r) PROVE SeqlockInv'
    <2>1. NoTornDelivery'
      BY <1>3, SameGot DEF Killed, shared
    <2> QED
      BY <1>0, <1>3, <2>1, ReaderAtRest
      DEF Killed, ResetReader, SubGoto, SubPC, shared
  <1>4. CASE UNCHANGED vars
    <2>1. /\ NumberingInv' /\ StampInv' /\ WriteInv' /\ SlotInv'
          /\ Frontier' = Frontier
      BY <1>4, QuietSubscriber DEF vars, shared
    <2>2. ReaderInv'
      BY <1>4, <2>1
      DEF vars, shared, subvars, readvars, SeqlockInv, ReaderInv, ReaderOK,
          Whole, BlankFirst
    <2>3. NoTornDelivery'
      BY <1>4, SameGot DEF vars, shared, subvars
    <2> QED
      BY <1>0, <2>1, <2>2, <2>3 DEF SeqlockInv
  <1>5. ASSUME NEW r \in Subs, ReplayFails(r) PROVE SeqlockInv'
    <2>1. NoTornDelivery'
      BY <1>5, SameGot DEF ReplayFails, shared
    <2> QED
      BY <1>0, <1>5, <2>1, ReaderAtRest
      DEF ReplayFails, SubGoto, SubPC, shared, readvars
  <1> QED
    BY <1>1, <1>2, <1>3, <1>4, <1>5, PublisherSeqlock, RestartSeqlock,
       ConnectSeqlock, ReceiveSeqlock DEF Next

\* Once a number has been given out twice, it has.
LEMMA ReusedStays == TypeOK /\ [Next]_vars /\ reused => reused'
  <1> SUFFICES ASSUME TypeOK, [Next]_vars, reused PROVE reused'
    OBVIOUS
  <1>1. CASE PublisherStep
    BY <1>1 DEF PublisherStep, Publish, ScanCursor, Reject, Admit, Append,
       StoreSlot, Commit, BumpTail, FlushLog, shared
  <1>2. CASE RestartStep
    BY <1>2 DEF RestartStep, PublisherDrops, PublisherKilled, Dies, ReuseRing,
       ResetTail, AlignTail, shared
  <1>3. ASSUME NEW r \in Subs, SubscriberStep(r) PROVE reused'
    BY <1>3, SubscriberFrame
  <1>4. CASE UNCHANGED vars
    BY <1>4 DEF vars, shared
  <1> QED
    BY <1>1, <1>2, <1>3, <1>4, StepCases

\* The seqlock of write_slot and try_receive is sound when plain accesses
\* keep their program order, until a death sends the numbering back: no
\* message handed to a subscriber is torn, under either backpressure policy,
\* with subscribers joining, leaving and dying and with the publisher killed
\* in the middle of a write and of a restart, for every capacity and every
\* slot size.
THEOREM SeqlockSound ==
  ASSUME TSO
  PROVE  Spec => []NoTornDelivery
  <1> DEFINE I == TypeOK /\ (~reused => SeqlockInv)
  <1>1. Init => I
    BY InitType, InitSeqlock
  <1>2. I /\ [Next]_vars => I'
    BY NextType, NextSeqlock, ReusedStays
  <1>3. I => NoTornDelivery
    BY DEF SeqlockInv, NoTornDelivery
  <1> QED
    BY <1>1, <1>2, <1>3, PTL DEF Spec

\* publisher.rs on the tail and the log: "so subscribers see a monotonic
\* cursor stream across publisher restarts".  It is kept by a log whose
\* records are in the file when append returns, wherever the publisher is
\* killed (and, trivially, by a publisher that is never replaced).
THEOREM NumbersKept ==
  ASSUME (Wal /\ ~Buffered) \/ MaxGen = 1
  PROVE  Spec => []MonotonicCursors
  <1> DEFINE I == TypeOK /\ NumberingInv /\ (~Buffered => filed = wal)
  <1>1. Init => I
    BY InitType, InitNumbering DEF Init
  <1>2. I /\ [Next]_vars => I'
    <2> SUFFICES ASSUME I, [Next]_vars PROVE I'
      OBVIOUS
    <2>0. TypeOK'
      BY NextType
    <2>1. CASE PublisherStep \/ RestartStep
      <3>1. ~Buffered => filed' = wal'
        BY <2>1 DEF PublisherStep, Publish, ScanCursor, Reject, Admit, Append,
           StoreSlot, Commit, BumpTail, FlushLog, RestartStep, PublisherDrops,
           PublisherKilled, Dies, ReuseRing, ResetTail, AlignTail, shared
      <3>2. ~reused'
        <4>1. ASSUME NEW n \in {filed, wal}, Dies(n) PROVE ~reused'
          <5>1. gen < MaxGen /\ MaxGen # 1 /\ Wal /\ ~Buffered
            BY <4>1, ConstantsOK DEF Dies, TypeOK, NumberingInv
          <5>2. n = wal
            BY <5>1
          <5>3. wal >= Used
            BY <5>1 DEF NumberingInv, Used, TypeOK, Down
          <5> QED
            BY <4>1, <5>2, <5>3 DEF Dies, NumberingInv, TypeOK, Used
        <4>2. CASE PublisherStep
          BY <4>2 DEF PublisherStep, Publish, ScanCursor, Reject, Admit, Append,
             StoreSlot, Commit, BumpTail, FlushLog, shared, NumberingInv
        <4>3. CASE ReuseRing \/ ResetTail \/ AlignTail
          BY <4>3 DEF ReuseRing, ResetTail, AlignTail, NumberingInv
        <4> QED
          BY <2>1, <4>1, <4>2, <4>3 DEF RestartStep, PublisherDrops, PublisherKilled
      <3> QED
        BY <2>0, <2>1, <3>1, <3>2, PublisherNumbering
    <2>2. ASSUME UNCHANGED <<tail, gen, logvars, pubvars>> PROVE I'
      BY <2>0, <2>2 DEF NumberingInv, pubvars
    <2> QED
      BY <2>1, <2>2, StepCases, SubscriberFrame DEF vars, shared
  <1>3. I => MonotonicCursors
    BY DEF NumberingInv, MonotonicCursors
  <1> QED
    BY <1>1, <1>2, <1>3, PTL DEF Spec

-----------------------------------------------------------------------------
(***************************************************************************)
(* Who owns a cursor slot.  u64::MAX must not be stored as a position: no  *)
(* message number reaches it, and no caller of subscribe_from may ask for  *)
(* it.                                                                     *)
(***************************************************************************)
StartsClaimable == \A s \in Starts : s.kind = "Explicit" => s.n # Unclaimed

\* The numbers in the mapping and in try_receive stay below the bound.
CountsInv ==
  /\ tail <= MaxTail /\ filed <= wal /\ wal <= MaxTail
  /\ ppc \in {"precheck", "append", "scan", "write", "bump"} => tail < MaxTail
  /\ \A i \in SlotIdx : seq[i].n <= MaxTail

\* What r has in its local variables is fit to be stored in a cursor slot.
OwnerOK(r) ==
  /\ after[r].n <= MaxTail
  /\ pc[r] \in {"load", "copy"} => eff[r] <= MaxTail
  /\ pc[r] \in {"claim", "replay"} => cursor[r] <= MaxTail
  /\ pc[r] \in {"seat", "readgen"} => cursor[r] = live[r] \/ cursor[r] <= MaxTail
  /\ pc[r] \in {"seat", "readgen", "replay"} => live[r] # Unclaimed
  /\ pc[r] = "readgen" => curs[idx[r]] = live[r]

Tenant(r) == pc[r] \notin {"off", "claim"}

\* The part of CursorSlotsOwned that is about r's own slot.
SlotOK(r) ==
  Tenant(r) =>
    /\ curs[idx[r]] # Unclaimed
    /\ pc[r] \in {"ready", "load", "copy"} /\ live[r] # Unclaimed
         => curs[idx[r]] = cursor[r]

OneTenant ==
  \A r \in Subs : \A q \in Subs \ {r} : Tenant(r) /\ Tenant(q) => idx[q] # idx[r]

SlotsInv ==
  /\ TypeOK /\ CountsInv /\ OneTenant
  /\ \A r \in Subs : OwnerOK(r) /\ SlotOK(r)

LEMMA SlotsOwned == SlotsInv => CursorSlotsOwned
  BY Zenon DEF SlotsInv, OneTenant, SlotOK, Tenant, CursorSlotsOwned

LEMMA BelowUnclaimed == \A n \in Nat : n <= MaxTail + 1 => n < Unclaimed
  BY ConstantsOK DEF Unclaimed

LEMMA InitSlots == Init => SlotsInv
  <1> SUFFICES ASSUME Init PROVE SlotsInv
    OBVIOUS
  <1>1. TypeOK
    BY InitType
  <1>2. CountsInv
    BY ConstantsOK DEF Init, CountsInv, Clean
  <1> QED
    BY <1>1, <1>2, ConstantsOK
    DEF Init, SlotsInv, OneTenant, OwnerOK, SlotOK, Tenant, Clean

\* The publisher writes to no cursor slot.
LEMMA PublisherSlots ==
  ASSUME SlotsInv, PublisherStep \/ RestartStep
  PROVE  SlotsInv'
  <1> USE DEF SlotsInv
  <1>1. TypeOK'
    BY PublisherType, RestartType
  <1>2. UNCHANGED <<curs, subvars>>
    BY PublisherFrame
  <1>3. CountsInv'
    <2>1. CASE Publish \/ ScanCursor \/ Reject \/ Admit \/ Append \/ BumpTail
               \/ FlushLog
      BY <2>1, ConstantsOK
      DEF Publish, ScanCursor, Reject, Admit, Append, BumpTail, FlushLog,
         ScanDone, PubGoto, RingPublish, shared, pubvars, CountsInv, TypeOK
    <2>2. ASSUME NEW n \in Stamp, n.n <= MaxTail, UNCHANGED <<tail, logvars>>,
                 seq' = [seq EXCEPT ![Slot(tail)] = n],
                 ppc = "write", ppc' \in {"write", "bump"}
          PROVE  CountsInv'
      BY <2>2 DEF CountsInv, TypeOK
    <2>3. Writing(tail) \in Stamp /\ Writing(tail).n <= MaxTail
      BY DEF CountsInv, TypeOK, Writing, Stamp
    <2>4. Clean(tail) \in Stamp /\ Clean(tail).n <= MaxTail
      BY DEF CountsInv, TypeOK, Clean, Stamp
    <2>5. ASSUME NEW k \in 0..Words, StoreSlot(k) PROVE CountsInv'
      <3>1. CASE k = 0
        BY <2>5, <3>1, <2>2, <2>3 DEF StoreSlot
      <3>2. CASE k # 0
        BY <2>5, <3>2 DEF StoreSlot, CountsInv
      <3> QED
        BY <3>1, <3>2
    <2>6. CASE Commit
      BY <2>6, <2>2, <2>4 DEF Commit, PubGoto
    <2>7. CASE RestartStep
      BY <2>7, ConstantsOK DEF RestartStep, PublisherDrops, PublisherKilled, Dies, ReuseRing, ResetTail,
         AlignTail, PubGoto, Greater, shared, CountsInv, TypeOK
    <2> QED
      BY <2>1, <2>5, <2>6, <2>7 DEF PublisherStep
  <1> QED
    BY <1>1, <1>2, <1>3
    DEF OneTenant, OwnerOK, SlotOK, Tenant, subvars, connvars, readvars

\* A step of r keeps the table in order if it keeps r's own slot in order and
\* stores into the slot only as its tenant, or when it was free.
LEMMA OneOwner ==
  ASSUME NEW r \in Subs, SlotsInv, SubscriberStep(r), TypeOK',
         OwnerOK(r)', SlotOK(r)',
         \/ Tenant(r) /\ idx'[r] = idx[r]
         \/ curs[idx[r]] = Unclaimed /\ idx'[r] = idx[r]
         \/ ~Tenant(r)' /\ curs' = curs
  PROVE  SlotsInv'
  <1>0. /\ UNCHANGED <<tail, gen, seq, word, logvars, pubvars>>
        /\ \A q \in Subs \ {r} : LocalsSame(q)
        /\ \A i \in SubIdx : i # idx[r] => curs'[i] = curs[i]
    BY SubscriberFrame DEF SlotsInv
  <1>1. CountsInv'
    BY <1>0 DEF SlotsInv, CountsInv, pubvars
  <1>2. \A q \in Subs \ {r} : idx[q] \in SubIdx /\ (Tenant(q)' <=> Tenant(q))
    BY <1>0 DEF SlotsInv, TypeOK, LocalsSame, Tenant
  <1>3. \A q \in Subs \ {r} : Tenant(q) => curs'[idx[q]] = curs[idx[q]]
    BY <1>0, <1>2 DEF SlotsInv, OneTenant, SlotOK
  <1>4. \A q \in Subs \ {r} : OwnerOK(q)' /\ SlotOK(q)'
    BY <1>0, <1>2, <1>3 DEF SlotsInv, OwnerOK, SlotOK, LocalsSame, Tenant
  <1>5. \A q \in Subs \ {r} : Tenant(q)' /\ Tenant(r)' => idx'[q] # idx'[r]
    BY <1>0, <1>2 DEF SlotsInv, OneTenant, SlotOK, LocalsSame
  <1>6. OneTenant'
    BY <1>0, <1>2, <1>5 DEF SlotsInv, OneTenant, LocalsSame
  <1> QED
    BY <1>1, <1>4, <1>6 DEF SlotsInv

LEMMA ReleaseSlots ==
  ASSUME NEW r \in Subs, SlotsInv, SubscriberStep(r), Release(r), Tenant(r)
  PROVE  SlotsInv'
  <1>1. TypeOK'
    BY ReleaseType DEF SlotsInv
  <1>2. OwnerOK(r)' /\ SlotOK(r)' /\ idx'[r] = idx[r]
    BY ReleaseEffect DEF SlotsInv, OwnerOK, SlotOK, Tenant, connvars, readvars
  <1> QED
    BY <1>1, <1>2, OneOwner

LEMMA ConnectSlots ==
  ASSUME StartsClaimable, NEW r \in Subs, SlotsInv, ConnectStep(r)
  PROVE  SlotsInv'
  <1>0. TypeOK' /\ SubscriberStep(r) /\ OwnerOK(r) /\ SlotOK(r) /\ tail \in Nat
    BY ConnectType DEF SlotsInv, SubscriberStep, TypeOK
  <1>1. CASE Connect(r)
    <2>1. /\ pc'[r] = "claim" /\ cursor'[r] = tail /\ curs' = curs
          /\ after' = after
      BY <1>1 DEF Connect, SubGoto, SlotsInv, TypeOK, shared, readvars
    <2> QED
      BY <1>0, <2>1, OneOwner DEF SlotsInv, CountsInv, OwnerOK, SlotOK, Tenant
  <1>2. CASE ClaimCursor(r)
    <2>1. /\ pc[r] = "claim" /\ cursor' = cursor /\ live' = live
          /\ eff' = eff /\ after' = after
      BY <1>2 DEF ClaimCursor, readvars
    <2>2. CASE curs[idx[r]] = Unclaimed
      <3>1. /\ pc'[r] = "handshake" /\ idx' = idx
            /\ curs'[idx[r]] = cursor[r]
        BY <1>2, <2>2 DEF ClaimCursor, SubGoto, SlotsInv, TypeOK
      <3>2. cursor[r] # Unclaimed
        BY <1>0, <2>1, BelowUnclaimed, ConstantsOK DEF OwnerOK, SlotsInv, TypeOK
      <3> QED
        BY <1>0, <2>1, <2>2, <3>1, <3>2, OneOwner DEF OwnerOK, SlotOK, Tenant
    <2>3. CASE curs[idx[r]] # Unclaimed
      <3>1. pc'[r] \in {"claim", "off"} /\ curs' = curs
        BY <1>2, <2>1, <2>3 DEF ClaimCursor, SubGoto, SlotsInv, TypeOK
      <3> QED
        BY <1>0, <2>1, <3>1, OneOwner DEF OwnerOK, SlotOK, Tenant
    <2> QED
      BY <2>2, <2>3
  <1>3. CASE Handshake(r)
    <2>1. /\ pc[r] = "handshake" /\ pc'[r] = "resync"
          /\ UNCHANGED <<curs, idx, cursor, live, eff, after>>
      BY <1>3 DEF Handshake, SubGoto, SlotsInv, TypeOK, shared, connvars, readvars
    <2> QED
      BY <1>0, <2>1, OneOwner DEF OwnerOK, SlotOK, Tenant
  <1>4. CASE HandshakeFails(r)
    BY <1>0, <1>4, ReleaseSlots DEF HandshakeFails, Tenant
  <1>5. ASSUME NEW s \in Starts, Resync(r, s) PROVE SlotsInv'
    <2>1. /\ pc[r] = "resync" /\ pc'[r] = "seat"
          /\ cursor'[r] = StartCursor(s, tail)
          /\ live'[r] = IF BehindRing(s, tail) THEN tail ELSE StartCursor(s, tail)
          /\ UNCHANGED <<curs, idx, eff, after>>
      BY <1>5 DEF Resync, SubGoto, SlotsInv, TypeOK, shared, readvars
    <2>2. s.kind \in {"Now", "HistoryBack", "Explicit"} /\ s.n \in Nat
      BY ConstantsOK DEF StartPos
    <2>3. tail < Unclaimed /\ tail <= MaxTail /\ MaxTail \in Nat /\ Unclaimed \in Nat
      BY <1>0, BelowUnclaimed, UnclaimedType, ConstantsOK DEF SlotsInv, CountsInv
    <2>4. StartCursor(s, tail) # Unclaimed
      BY <1>0, <2>2, <2>3 DEF StartsClaimable, StartCursor, SaturatingSub
    <2>5. BehindRing(s, tail) => StartCursor(s, tail) <= MaxTail
      BY <1>0, <2>2, <2>3, ConstantsOK DEF BehindRing, StartCursor, SaturatingSub
    <2>6. OwnerOK(r)'
      BY <1>0, <2>1, <2>3, <2>4, <2>5 DEF OwnerOK
    <2> QED
      BY <1>0, <2>1, <2>6, OneOwner DEF SlotOK, Tenant
  <1>6. ASSUME NEW s \in Starts, CursorTooOld(r, s) PROVE SlotsInv'
    BY <1>0, <1>6, ReleaseSlots DEF CursorTooOld, Tenant
  <1>7. CASE SetCursor(r)
    <2>1. /\ pc[r] = "seat" /\ pc'[r] = "readgen" /\ curs'[idx[r]] = live[r]
          /\ UNCHANGED <<cursor, idx, live, eff, after>>
      BY <1>7 DEF SetCursor, SubGoto, SlotsInv, TypeOK, connvars, readvars
    <2> QED
      BY <1>0, <2>1, OneOwner DEF OwnerOK, SlotOK, Tenant
  <1>8. CASE ReadGeneration(r)
    <2>1. /\ pc[r] = "readgen"
          /\ pc'[r] = IF live[r] = cursor[r] THEN "ready" ELSE "replay"
          /\ UNCHANGED <<curs, idx, cursor, live, eff, after>>
      BY <1>8 DEF ReadGeneration, SubGoto, SlotsInv, TypeOK, shared, readvars
    <2> QED
      BY <1>0, <2>1, OneOwner DEF OwnerOK, SlotOK, Tenant
  <1> QED
    BY <1>1, <1>2, <1>3, <1>4, <1>5, <1>6, <1>7, <1>8 DEF ConnectStep

LEMMA StoreCursorSlots ==
  ASSUME NEW r \in Subs, SlotsInv, SubscriberStep(r), TypeOK', StoreCursor(r),
         pc[r] = "copy"
  PROVE  SlotsInv'
  <1>1. /\ pc'[r] = "ready" /\ idx' = idx /\ after'[r].n = 0
        /\ curs'[idx[r]] = eff[r] + 1 /\ cursor'[r] = eff[r] + 1
    BY StoreCursorEffect DEF SlotsInv, Clean, connvars
  <1>2. eff[r] + 1 # Unclaimed
    BY BelowUnclaimed, ConstantsOK DEF SlotsInv, OwnerOK, TypeOK
  <1>3. OwnerOK(r)' /\ SlotOK(r)'
    BY <1>1, <1>2, ConstantsOK DEF OwnerOK, SlotOK, Tenant
  <1> QED
    BY <1>1, <1>3, OneOwner DEF Tenant

LEMMA RetrySlots ==
  ASSUME NEW r \in Subs, NEW e \in Nat, e <= MaxTail, SlotsInv,
         SubscriberStep(r), TypeOK', Retry(r, e) \/ ReturnNone(r),
         pc[r] \in {"load", "copy"}
  PROVE  SlotsInv'
  <1>1. /\ UNCHANGED <<curs, cursor, idx, live>> /\ after'[r].n = 0
        /\ \/ pc'[r] = "ready"
           \/ pc'[r] = "load" /\ eff'[r] = e
    <2>1. CASE Retry(r, e)
      BY <2>1, RetryEffect DEF SlotsInv, shared, connvars, Clean
    <2>2. CASE ReturnNone(r)
      BY <2>2, ReturnNoneEffect DEF SlotsInv, shared, connvars, Clean
    <2> QED
      BY <2>1, <2>2
  <1>2. OwnerOK(r)' /\ SlotOK(r)'
    BY <1>1, ConstantsOK DEF SlotsInv, OwnerOK, SlotOK, Tenant
  <1> QED
    BY <1>1, <1>2, OneOwner DEF Tenant

LEMMA ReceiveSlots ==
  ASSUME NEW r \in Subs, SlotsInv, ReceiveStep(r)
  PROVE  SlotsInv'
  <1>0. /\ TypeOK' /\ SubscriberStep(r) /\ OwnerOK(r) /\ SlotOK(r)
        /\ eff[r] \in Nat /\ Slot(eff[r]) \in SlotIdx /\ after[r].n \in Nat
        /\ MaxTail \in Nat /\ seq[Slot(eff[r])] \in Stamp
        /\ seq[Slot(eff[r])].n <= MaxTail
    BY ReceiveType, SlotType, ConstantsOK
    DEF SlotsInv, SubscriberStep, TypeOK, Stamp, CountsInv
  <1>1. CASE ReplayRecord(r)
    <2>1. /\ pc[r] = "replay" /\ cursor[r] < filed /\ cursor'[r] = cursor[r] + 1
          /\ UNCHANGED <<pc, curs, idx, live, eff, after>>
      BY <1>1 DEF ReplayRecord, SlotsInv, TypeOK, shared, connvars, readvars
    <2>2. OwnerOK(r)' /\ SlotOK(r)'
      BY <1>0, <2>1 DEF SlotsInv, CountsInv, TypeOK, OwnerOK, SlotOK, Tenant
    <2> QED
      BY <1>0, <2>1, <2>2, OneOwner DEF Tenant
  <1>2. CASE ReplayDrained(r)
    <2>1. /\ pc[r] = "replay" /\ pc'[r] = "ready" /\ curs'[idx[r]] = cursor[r]
          /\ UNCHANGED <<cursor, idx, live, eff, after>>
      BY <1>2 DEF ReplayDrained, SubGoto, SlotsInv, TypeOK, connvars, readvars
    <2>2. cursor[r] # Unclaimed
      BY <1>0, <2>1, BelowUnclaimed DEF OwnerOK, SlotsInv, TypeOK
    <2> QED
      BY <1>0, <2>1, <2>2, OneOwner DEF OwnerOK, SlotOK, Tenant
  <1>3. CASE BeginReceive(r)
    <2>1. /\ pc[r] = "ready" /\ cursor[r] < tail /\ eff'[r] = cursor[r]
          /\ pc'[r] = "load" /\ UNCHANGED <<curs, cursor, idx, live, after>>
      BY <1>3 DEF BeginReceive, SubGoto, SlotsInv, TypeOK, shared, connvars
    <2>2. OwnerOK(r)' /\ SlotOK(r)'
      BY <1>0, <2>1 DEF SlotsInv, CountsInv, TypeOK, OwnerOK, SlotOK, Tenant
    <2> QED
      BY <1>0, <2>1, <2>2, OneOwner DEF Tenant
  <1>4. CASE LoadSeq(r)
    <2>1. pc[r] = "load" /\ seq[Slot(eff[r])].n \in Nat
      BY <1>0, <1>4 DEF LoadSeq, Stamp
    <2>2. CASE \E e \in {eff[r], seq[Slot(eff[r])].n} : Retry(r, e)
      BY <1>0, <2>1, <2>2, RetrySlots DEF OwnerOK
    <2>3. CASE ReturnNone(r)
      BY <1>0, <2>1, <2>3, RetrySlots
    <2>4. CASE /\ SubGoto(r, "copy")
               /\ UNCHANGED <<shared, pubvars, cursor, connvars, readvars, got>>
      <3>1. pc'[r] = "copy" /\ UNCHANGED <<curs, cursor, idx, live, eff, after>>
        BY <2>4 DEF SubGoto, SlotsInv, TypeOK, shared, connvars, readvars
      <3> QED
        BY <1>0, <2>1, <3>1, OneOwner DEF OwnerOK, SlotOK, Tenant
    <2> QED
      BY <1>4, <2>2, <2>3, <2>4 DEF LoadSeq
  <1>5. ASSUME NEW k \in 1..(Words + 1), LoadSlot(r, k) PROVE SlotsInv'
    <2>1. /\ pc[r] = "copy" /\ UNCHANGED <<pc, curs, cursor, idx, live, eff>>
          /\ after'[r] = after[r] \/ after'[r] = seq[Slot(eff[r])]
      BY <1>5 DEF LoadSlot, SlotsInv, TypeOK, shared, connvars
    <2> QED
      BY <1>0, <2>1, OneOwner DEF OwnerOK, SlotOK, Tenant
  <1>6. CASE Overwritten(r)
    <2>1. /\ pc[r] = "copy" /\ Greater(eff[r], after[r].n) \in Nat
          /\ Greater(eff[r], after[r].n) <= MaxTail
      BY <1>0, <1>6 DEF Overwritten, CopyDone, OwnerOK, Greater
    <2> QED
      BY <1>0, <1>6, <2>1, RetrySlots DEF Overwritten
  <1>7. CASE Deliver(r)
    BY <1>0, <1>7, StoreCursorSlots DEF Deliver, CopyDone
  <1> QED
    BY <1>1, <1>2, <1>3, <1>4, <1>5, <1>6, <1>7 DEF ReceiveStep

LEMMA NextSlots ==
  ASSUME StartsClaimable
  PROVE  SlotsInv /\ [Next]_vars => SlotsInv'
  <1> SUFFICES ASSUME SlotsInv, [Next]_vars PROVE SlotsInv'
    OBVIOUS
  <1>0. TypeOK'
    BY NextType DEF SlotsInv
  <1>1. ASSUME NEW r \in Subs, ReplayFails(r) PROVE SlotsInv'
    <2>1. /\ pc[r] = "replay" /\ pc'[r] = "ready" /\ live'[r] = Unclaimed
          /\ UNCHANGED <<curs, cursor, idx, eff, after>>
      BY <1>1 DEF ReplayFails, SubGoto, SlotsInv, TypeOK, shared, readvars
    <2> QED
      BY <1>0, <1>1, <2>1, OneOwner
      DEF SubscriberStep, SlotsInv, OwnerOK, SlotOK, Tenant
  <1>2. ASSUME NEW r \in Subs, RejectOversize(r) PROVE SlotsInv'
    BY <1>0, <1>2, StoreCursorSlots DEF RejectOversize, SubscriberStep
  <1>3. ASSUME NEW r \in Subs, Drop(r) PROVE SlotsInv'
    BY <1>3, ReleaseSlots DEF Drop, SubscriberStep, Tenant
  <1>4. ASSUME NEW r \in Subs, Killed(r) PROVE SlotsInv'
    <2>1. /\ Tenant(r) /\ pc'[r] = "dead" /\ after'[r].n = 0
          /\ UNCHANGED <<curs, cursor, idx, live>>
      BY <1>4 DEF Killed, ResetReader, SubGoto, Clean, Tenant, SlotsInv, TypeOK,
         shared, connvars
    <2> QED
      BY <1>0, <1>4, <2>1, OneOwner, ConstantsOK
      DEF SubscriberStep, SlotsInv, OwnerOK, SlotOK, Tenant
  <1>5. CASE UNCHANGED vars
    BY <1>0, <1>5 DEF vars, shared, pubvars, subvars, connvars, readvars,
       SlotsInv, CountsInv, OneTenant, OwnerOK, SlotOK, Tenant
  <1> QED
    BY <1>1, <1>2, <1>3, <1>4, <1>5, PublisherSlots, ConnectSlots, ReceiveSlots
    DEF Next

\* claim_cursor and release_cursor keep the table: a slot has one tenant, it
\* is never taken for free while it has one, and it shows the publisher the
\* position its tenant reads at.  This holds for any number of subscribers,
\* under every start position but u64::MAX itself, across publisher restarts
\* with or without a log, and whatever the memory model.
THEOREM CursorTableSound ==
  ASSUME StartsClaimable
  PROVE  Spec => []CursorSlotsOwned
  BY InitSlots, NextSlots, SlotsOwned, PTL DEF Spec

-----------------------------------------------------------------------------
(* Arithmetic of slots *)

LEMMA DivMod ==
  ASSUME NEW a \in Nat, NEW c \in Nat, c > 0
  PROVE  \E q \in Int : a = c * q + (a % c)
  OBVIOUS

\* Two numbers that share a slot are a whole ring apart.
LEMMA SlotApart ==
  ASSUME NEW a \in Nat, NEW b \in Nat, a < b, Slot(a) = Slot(b)
  PROVE  b >= a + Capacity
  <1>1. Capacity \in Nat /\ Capacity > 0
    BY ConstantsOK
  <1>2. PICK p \in Int : a = Capacity * p + (a % Capacity)
    BY <1>1, DivMod
  <1>3. PICK q \in Int : b = Capacity * q + (b % Capacity)
    BY <1>1, DivMod
  <1>4. a % Capacity = b % Capacity /\ a % Capacity \in Int
    BY <1>1 DEF Slot
  <1>5. b - a = Capacity * (q - p)
    BY <1>1, <1>2, <1>3, <1>4
  <1>6. q - p >= 1
    BY <1>1, <1>5
  <1>7. Capacity * (q - p) >= Capacity
    BY <1>1, <1>6
  <1> QED
    BY <1>1, <1>5, <1>7

-----------------------------------------------------------------------------
(***************************************************************************)
(* How far a reader gets.  Only messages whose slot has been committed are *)
(* copied, and a message other than the one at the cursor is a whole ring  *)
(* ahead of it.                                                            *)
(***************************************************************************)

\* The messages whose slot write has ended, or is lost in a crash.
Committed ==
  IF ppc = "bump" THEN tail + 1 ELSE IF ppc \in Down THEN wal ELSE tail

PositionOK(r) ==
  /\ pc[r] # "copy" => rdone[r] = {}
  /\ pc[r] = "load" => eff[r] < Frontier
  /\ pc[r] = "copy" => eff[r] < Committed
  /\ pc[r] \in {"load", "copy"} => eff[r] = cursor[r] \/ eff[r] >= cursor[r] + Capacity
  /\ after[r].n = 0 \/ after[r].n < Frontier
  /\ Words + 1 \in rdone[r] => after[r].n <= eff[r] \/ after[r].n >= eff[r] + Capacity

StampsOK ==
  /\ Marked => seq[Slot(tail)] = Writing(tail)
  /\ \A i \in SlotIdx : /\ seq[i].n = 0 \/ (Slot(seq[i].n) = i /\ seq[i].n < Frontier)
                        /\ ~seq[i].w => seq[i].n = 0 \/ seq[i].n < Committed

ReachInv ==
  /\ TypeOK /\ NumberingInv /\ StampsOK
  /\ \A r \in Subs : PositionOK(r)

LEMMA CommittedType ==
  /\ TypeOK => Committed \in Nat
  /\ TypeOK' => Committed' \in Nat
  <1>1. TypeOK => Committed \in Nat
    BY DEF TypeOK, Committed
  <1>2. ASSUME TypeOK' PROVE Committed' \in Nat
    <2>1. tail' \in Nat /\ wal' \in Nat
      BY <1>2 DEF TypeOK
    <2>2. Committed' = tail' + 1 \/ Committed' = wal' \/ Committed' = tail'
      BY Zenon DEF Committed
    <2> QED
      BY <2>1, <2>2
  <1> QED
    BY <1>1, <1>2

LEMMA InitReach == Init => ReachInv
  <1> SUFFICES ASSUME Init PROVE ReachInv
    OBVIOUS
  <1>1. TypeOK /\ NumberingInv
    BY InitType, InitNumbering
  <1> QED
    BY <1>1 DEF Init, ReachInv, StampsOK, PositionOK, Marked, Clean

\* The publisher's own steps never take a committed message back.
LEMMA PublisherReach ==
  ASSUME ReachInv, PublisherStep \/ RestartStep, ~reused'
  PROVE  ReachInv' /\ Committed' >= Committed
  <1> USE DEF ReachInv
  <1>0. TypeOK' /\ Committed \in Nat /\ Frontier \in Nat /\ Committed' \in Nat
        /\ Frontier' \in Nat /\ NumberingInv' /\ Frontier' >= Frontier
    BY PublisherType, RestartType, CommittedType, FrontierType,
       PublisherNumbering
  <1>1. UNCHANGED subvars
    BY PublisherFrame
  <1>2. ASSUME Committed' >= Committed, Frontier' >= Frontier
        PROVE  \A r \in Subs : PositionOK(r)'
    <2> SUFFICES ASSUME NEW r \in Subs PROVE PositionOK(r)'
      OBVIOUS
    <2>1. PositionOK(r) /\ eff[r] \in Nat /\ after[r].n \in Nat
      BY DEF TypeOK, Stamp
    <2>2. UNCHANGED <<pc, cursor, eff, rdone, after>>
      BY <1>1 DEF subvars, readvars
    <2> QED
      BY <1>0, <1>2, <2>1, <2>2 DEF PositionOK
  <1>3. ASSUME Committed' >= Committed, Frontier' >= Frontier, seq' = seq,
               Marked' => Marked /\ tail' = tail
        PROVE  StampsOK'
    <2>1. \A i \in SlotIdx : seq[i].n \in Nat
      BY DEF TypeOK, Stamp
    <2> QED
      BY <1>0, <1>3, <2>1 DEF StampsOK
  <1>4. CASE Publish \/ ScanCursor \/ Reject \/ Admit \/ Append \/ BumpTail
             \/ FlushLog
    <2> USE <1>4 DEF Publish, ScanCursor, Reject, Admit, Append, BumpTail,
            FlushLog, ScanDone, PubGoto, RingPublish, shared, pubvars
    <2>1. /\ Committed' >= Committed /\ seq' = seq
          /\ Marked' => Marked /\ tail' = tail
      BY DEF TypeOK, Committed, Marked, Down
    <2> QED
      BY <1>0, <1>2, <1>3, <2>1
  <1>5. ASSUME NEW k \in 0..Words, StoreSlot(k)
        PROVE  ReachInv' /\ Committed' >= Committed
    <2>1. /\ ppc = "write" /\ UNCHANGED <<tail, gen, wal, ppc>>
          /\ pdone' = pdone \cup {k} /\ Slot(tail) \in SlotIdx
      BY <1>5, SlotType DEF StoreSlot, TypeOK
    <2>3. Committed' = Committed /\ Committed = tail
      BY <2>1 DEF Committed, Down
    <2>4. CASE k = 0
      <3>1. seq' = [seq EXCEPT ![Slot(tail)] = Writing(tail)] /\ Marked'
        BY <1>5, <2>1, <2>4 DEF StoreSlot, Marked
      <3>2. Frontier' = tail + 1
        BY <2>1, <3>1 DEF Frontier
      <3>3. seq'[Slot(tail)] = Writing(tail)
            /\ \A i \in SlotIdx : i # Slot(tail) => seq'[i] = seq[i]
        BY <2>1, <3>1 DEF TypeOK
      <3>4. StampsOK'
        <4> SUFFICES ASSUME NEW i \in SlotIdx
                     PROVE  /\ seq'[i].n = 0 \/ (Slot(seq'[i].n) = i /\ seq'[i].n < Frontier')
                            /\ ~seq'[i].w => seq'[i].n = 0 \/ seq'[i].n < Committed'
          BY <2>1, <3>3 DEF StampsOK
        <4>1. CASE i = Slot(tail)
          BY <3>2, <3>3, <4>1 DEF Writing, TypeOK
        <4>2. CASE i # Slot(tail)
          BY <1>0, <2>3, <3>3, <4>2 DEF StampsOK, TypeOK, Stamp
        <4> QED
          BY <4>1, <4>2
      <3> QED
        BY <1>0, <1>2, <2>3, <3>4
    <2>5. CASE k # 0
      <3>1. seq' = seq /\ (Marked' => Marked)
        BY <1>5, <2>1, <2>5 DEF StoreSlot, Marked
      <3> QED
        BY <1>0, <1>2, <1>3, <2>1, <2>3, <3>1
    <2> QED
      BY <2>4, <2>5
  <1>6. CASE Commit
    <2>1. /\ ppc = "write" /\ ppc' = "bump" /\ UNCHANGED <<tail, gen, wal>>
          /\ 0 \in pdone /\ Slot(tail) \in SlotIdx
          /\ seq' = [seq EXCEPT ![Slot(tail)] = Clean(tail)]
      BY <1>6, SlotType, ConstantsOK DEF Commit, PubGoto, TypeOK
    <2>3. Committed' = tail + 1 /\ Committed = tail /\ Frontier' = tail + 1
          /\ Frontier = tail + 1 /\ ~Marked'
      BY <2>1 DEF Committed, Frontier, Marked, Down
    <2>4. seq'[Slot(tail)] = Clean(tail)
          /\ \A i \in SlotIdx : i # Slot(tail) => seq'[i] = seq[i]
      BY <2>1 DEF TypeOK
    <2>5. StampsOK'
      <3> SUFFICES ASSUME NEW i \in SlotIdx
                   PROVE  /\ seq'[i].n = 0 \/ (Slot(seq'[i].n) = i /\ seq'[i].n < tail + 1)
                          /\ ~seq'[i].w => seq'[i].n = 0 \/ seq'[i].n < tail + 1
        BY <2>3 DEF StampsOK
      <3>1. CASE i = Slot(tail)
        BY <2>4, <3>1 DEF Clean, TypeOK
      <3>2. CASE i # Slot(tail)
        BY <2>3, <2>4, <3>2 DEF StampsOK, TypeOK, Stamp
      <3> QED
        BY <3>1, <3>2
    <2> QED
      BY <1>0, <1>2, <2>3, <2>5 DEF TypeOK
  <1>7. CASE RestartStep
    <2>1. seq' = seq /\ ~Marked'
      BY <1>7 DEF RestartStep, PublisherDrops, PublisherKilled, Dies, ReuseRing,
         ResetTail, AlignTail, PubGoto, Marked, shared
    <2>2. ASSUME NEW n \in {filed, wal}, Dies(n), ppc \in Down => n = wal
          PROVE  Committed' >= Committed
      <3>1. n \in Nat /\ tail \in Nat
        BY DEF TypeOK
      <3>2. n >= Used
        BY <2>2, <3>1, UsedKept
      <3>3. Committed' = n
        BY <2>2 DEF Dies, PubGoto, Committed, Down
      <3>4. Used \in Nat /\ Used >= tail /\ (ppc = "bump" => Used = tail + 1)
        BY <3>1 DEF Used
      <3> QED
        BY <2>2, <3>1, <3>2, <3>3, <3>4 DEF Committed, TypeOK
    <2>3. CASE PublisherDrops
      BY <1>0, <1>2, <1>3, <2>1, <2>2, <2>3 DEF PublisherDrops, Down
    <2>4. CASE PublisherKilled
      BY <1>0, <1>2, <1>3, <2>1, <2>2, <2>4 DEF PublisherKilled, NumberingInv
    <2>5. CASE ReuseRing \/ ResetTail \/ AlignTail
      <3>1. Committed' >= Committed
        BY <2>5 DEF ReuseRing, ResetTail, AlignTail, PubGoto, NumberingInv,
           TypeOK, Committed, Down, Greater
      <3> QED
        BY <1>0, <1>2, <1>3, <2>1, <3>1
    <2> QED
      BY <1>7, <2>3, <2>4, <2>5 DEF RestartStep
  <1> QED
    BY <1>4, <1>5, <1>6, <1>7 DEF PublisherStep

\* A subscriber's step leaves what the publisher committed alone.
LEMMA SubscriberStamps ==
  ASSUME NEW r \in Subs, ReachInv, SubscriberStep(r), TypeOK', PositionOK(r)'
  PROVE  ReachInv' /\ Committed' = Committed /\ Frontier' = Frontier
  <1>1. /\ UNCHANGED <<tail, gen, seq, word, logvars, pubvars>>
        /\ \A q \in Subs \ {r} : LocalsSame(q)
    BY SubscriberFrame DEF ReachInv
  <1>2. Committed' = Committed /\ Frontier' = Frontier /\ Marked' = Marked
    BY <1>1 DEF Committed, Frontier, Marked, pubvars
  <1>3. NumberingInv' /\ StampsOK'
    BY <1>1, <1>2 DEF ReachInv, NumberingInv, StampsOK, pubvars
  <1>4. \A q \in Subs \ {r} : PositionOK(q)'
    BY <1>1, <1>2 DEF ReachInv, PositionOK, LocalsSame
  <1> QED
    BY <1>2, <1>3, <1>4 DEF ReachInv

LEMMA RetryPosition ==
  ASSUME NEW r \in Subs, NEW e \in Nat, ReachInv, Frontier' = Frontier,
         Retry(r, e) \/ ReturnNone(r), pc[r] \in {"load", "copy"},
         e < Frontier, e = cursor[r] \/ e >= cursor[r] + Capacity
  PROVE  PositionOK(r)'
  <1>1. /\ cursor' = cursor /\ after'[r].n = 0 /\ rdone'[r] = {}
        /\ \/ pc'[r] = "ready"
           \/ pc'[r] = "load" /\ eff'[r] = e
    <2>1. CASE Retry(r, e)
      BY <2>1, RetryEffect DEF ReachInv, Clean
    <2>2. CASE ReturnNone(r)
      BY <2>2, ReturnNoneEffect DEF ReachInv, Clean
    <2> QED
      BY <2>1, <2>2
  <1> QED
    BY <1>1 DEF PositionOK

\* A reader copies committed slots only, and moves on in whole rings.
LEMMA SubscriberPosition ==
  ASSUME NEW r \in Subs, ReachInv, SubscriberStep(r)
  PROVE  PositionOK(r)'
  <1> DEFINE i == Slot(eff[r])
  <1>0. /\ PositionOK(r) /\ eff[r] \in Nat /\ cursor[r] \in Nat /\ i \in SlotIdx
        /\ seq[i] \in Stamp /\ seq[i].n \in Nat /\ after[r].n \in Nat
        /\ Committed \in Nat /\ Frontier \in Nat /\ Committed <= Frontier
        /\ Capacity \in Nat /\ Words \in Nat /\ tail \in Nat
    <2>1. /\ PositionOK(r) /\ eff[r] \in Nat /\ cursor[r] \in Nat /\ i \in SlotIdx
          /\ seq[i] \in Stamp /\ after[r] \in Stamp /\ tail \in Nat
      BY SlotType DEF ReachInv, TypeOK
    <2>2. Committed \in Nat /\ Frontier \in Nat
      BY CommittedType, FrontierType DEF ReachInv
    <2>3. Committed <= Frontier
      <3>1. CASE Marked
        <4>1. Committed = tail /\ Frontier = tail + 1
          BY <3>1 DEF Committed, Frontier, Marked, Down
        <4> QED
          BY <2>1, <4>1
      <3>2. CASE ~Marked
        BY <2>2, <3>2 DEF Frontier, Committed, ReachInv, TypeOK
      <3> QED
        BY <3>1, <3>2
    <2> QED
      BY <2>1, <2>2, <2>3, ConstantsOK DEF Stamp
  <1>1. Committed' = Committed /\ Frontier' = Frontier
    BY SubscriberFrame DEF ReachInv, Committed, Frontier, Marked, pubvars
  <1>2. seq[i].n <= eff[r] \/ seq[i].n >= eff[r] + Capacity
    <2>1. CASE seq[i].n > eff[r]
      <3>1. Slot(seq[i].n) = i
        BY <1>0, <2>1 DEF ReachInv, StampsOK
      <3> QED
        BY <1>0, <2>1, <3>1, SlotApart
    <2> QED
      BY <1>0, <2>1
  <1>3. ASSUME pc'[r] \notin {"load", "copy"}, after'[r].n = 0, rdone'[r] = {}
        PROVE  PositionOK(r)'
    BY <1>3 DEF PositionOK
  <1>4. ASSUME pc'[r] \notin {"load", "copy"}, pc[r] # "copy",
               UNCHANGED <<after, rdone>>
        PROVE  PositionOK(r)'
    BY <1>0, <1>1, <1>4 DEF PositionOK
  <1>5. CASE ConnectStep(r)
    <2>1. pc[r] # "copy" /\ pc'[r] \notin {"load", "copy"} /\ UNCHANGED <<after, rdone>>
      BY <1>5 DEF ConnectStep, Connect, ClaimCursor, Handshake, HandshakeFails,
         Release, Resync, CursorTooOld, SetCursor, ReadGeneration, SubGoto,
         readvars, ReachInv, TypeOK
    <2> QED
      BY <1>4, <2>1
  <1>6. CASE ReplayRecord(r) \/ ReplayDrained(r) \/ ReplayFails(r) \/ Drop(r)
    <2>1. pc[r] # "copy" /\ pc'[r] \notin {"load", "copy"} /\ UNCHANGED <<after, rdone>>
      BY <1>6 DEF ReplayRecord, ReplayDrained, ReplayFails, Drop, Release,
         SubGoto, readvars, ReachInv, TypeOK
    <2> QED
      BY <1>4, <2>1
  <1>7. CASE Killed(r)
    BY <1>3, <1>7 DEF Killed, ResetReader, SubGoto, Clean, ReachInv, TypeOK
  <1>8. CASE StoreCursor(r)
    BY <1>3, <1>8, StoreCursorEffect DEF Clean, ReachInv
  <1>9. CASE BeginReceive(r)
    <2>1. /\ pc[r] = "ready" /\ cursor[r] < tail /\ pc'[r] = "load"
          /\ eff'[r] = cursor[r] /\ UNCHANGED <<cursor, rdone, after>>
      BY <1>9 DEF BeginReceive, SubGoto, ReachInv, TypeOK
    <2>2. tail <= Committed
      BY DEF Committed, ReachInv, NumberingInv, TypeOK
    <2>3. cursor[r] < Frontier
      BY <1>0, <2>1, <2>2
    <2> QED
      BY <1>0, <1>1, <2>1, <2>3 DEF PositionOK
  <1>10. CASE LoadSeq(r)
    <2>1. pc[r] = "load"
      BY <1>10 DEF LoadSeq
    <2>2. CASE Retry(r, eff[r]) \/ ReturnNone(r)
      BY <1>0, <1>1, <2>1, <2>2, RetryPosition DEF PositionOK
    <2>3. CASE seq[i].n > eff[r] /\ Retry(r, seq[i].n)
      <3>1. seq[i].n < Frontier
        BY <1>0, <2>3 DEF ReachInv, StampsOK
      <3>2. seq[i].n >= cursor[r] + Capacity
        BY <1>0, <1>2, <2>1, <2>3 DEF PositionOK
      <3> QED
        BY <1>0, <1>1, <2>1, <2>3, <3>1, <3>2, RetryPosition
    <2>4. CASE /\ seq[i] = Clean(eff[r])
               /\ SubGoto(r, "copy")
               /\ UNCHANGED <<shared, pubvars, cursor, connvars, readvars, got>>
      <3>1. pc'[r] = "copy" /\ UNCHANGED <<cursor, eff, rdone, after>>
        BY <2>4 DEF SubGoto, ReachInv, TypeOK, readvars
      <3>2. eff[r] < Committed
        <4>1. CASE Marked
          <5>1. eff[r] # tail
            BY <2>4, <4>1 DEF ReachInv, StampsOK, Writing, Clean
          <5>2. Frontier = tail + 1 /\ tail <= Committed
            BY <4>1 DEF Frontier, Committed, Marked, Down, ReachInv, TypeOK
          <5> QED
            BY <1>0, <2>1, <5>1, <5>2 DEF PositionOK
        <4>2. CASE ~Marked
          BY <1>0, <2>1, <4>2 DEF PositionOK, Frontier, Committed
        <4> QED
          BY <4>1, <4>2
      <3> QED
        BY <1>0, <1>1, <2>1, <3>1, <3>2 DEF PositionOK
    <2> QED
      BY <1>10, <2>2, <2>3, <2>4 DEF LoadSeq
  <1>11. ASSUME NEW k \in 1..(Words + 1), LoadSlot(r, k) PROVE PositionOK(r)'
    <2>1. /\ pc[r] = "copy" /\ UNCHANGED <<pc, cursor, eff>>
          /\ rdone'[r] = rdone[r] \cup {k}
          /\ IF k <= Words THEN after'[r] = after[r] ELSE after'[r] = seq[i]
      BY <1>11 DEF LoadSlot, ReachInv, TypeOK
    <2>2. seq[i].n = 0 \/ seq[i].n < Frontier
      BY <1>0 DEF ReachInv, StampsOK
    <2>3. CASE k <= Words
      <3>1. Words + 1 \in rdone'[r] => Words + 1 \in rdone[r]
        BY <1>0, <2>1, <2>3
      <3> QED
        BY <1>0, <1>1, <2>1, <2>3, <3>1 DEF PositionOK
    <2>4. CASE ~(k <= Words)
      BY <1>0, <1>1, <1>2, <2>1, <2>2, <2>4 DEF PositionOK
    <2> QED
      BY <2>3, <2>4
  <1>12. CASE Overwritten(r)
    <2>1. pc[r] = "copy" /\ Words + 1 \in rdone[r]
      BY <1>0, <1>12 DEF Overwritten, CopyDone
    <2> DEFINE e == Greater(eff[r], after[r].n)
    <2>2. /\ e \in Nat /\ e < Frontier
          /\ e = cursor[r] \/ e >= cursor[r] + Capacity
      BY <1>0, <2>1 DEF PositionOK, Greater
    <2>3. Retry(r, e)
      BY <1>12 DEF Overwritten
    <2> HIDE DEF e
    <2> QED
      BY <1>1, <2>1, <2>2, <2>3, RetryPosition
  <1> QED
    BY <1>5, <1>6, <1>7, <1>8, <1>9, <1>10, <1>11, <1>12
    DEF SubscriberStep, ReceiveStep, Deliver, RejectOversize

LEMMA SubscriberReach ==
  ASSUME NEW r \in Subs, ReachInv, SubscriberStep(r)
  PROVE  ReachInv' /\ Committed' = Committed /\ Frontier' = Frontier
  <1>1. Next
    BY DEF Next, SubscriberStep
  <1>2. TypeOK'
    BY <1>1, NextType DEF ReachInv
  <1> QED
    BY <1>2, SubscriberPosition, SubscriberStamps

LEMMA StutterReach ==
  ASSUME ReachInv, UNCHANGED vars
  PROVE  ReachInv' /\ Committed' = Committed
  <1>1. TypeOK'
    BY NextType DEF ReachInv
  <1> QED
    BY <1>1 DEF vars, shared, pubvars, subvars, readvars, ReachInv, NumberingInv,
       StampsOK, PositionOK, Frontier, Committed, Marked

LEMMA NextReach == ReachInv /\ [Next]_vars /\ ~reused' => ReachInv'
  BY StepCases, PublisherReach, SubscriberReach, StutterReach

-----------------------------------------------------------------------------
(***************************************************************************)
(* The publisher's scan.  subscribe and subscribe_with_history never seat  *)
(* a cursor ahead of the tail; subscribe_from can, by asking for a number  *)
(* not published yet or by replaying a record the ring does not have yet.  *)
(***************************************************************************)
NoExplicit == \A s \in Starts : s.kind # "Explicit"

\* r reads the ring from the start, without a replay.
DirectOK(r) ==
  /\ pc[r] # "replay"
  /\ pc[r] \in {"seat", "readgen"} => live[r] = cursor[r]

BehindInv ==
  /\ ReachInv
  /\ \A r \in Subs : DirectOK(r) /\ cursor[r] <= Committed
  /\ \A i \in SubIdx : curs[i] = Unclaimed \/ curs[i] <= Committed
  /\ ppc \in {"precheck", "scan"} => pmin = Unclaimed \/ pmin <= tail

LEMMA InitBehind == Init => BehindInv
  BY InitReach, ConstantsOK DEF Init, BehindInv, DirectOK, Committed, Down

LEMMA PublisherBehind ==
  ASSUME BehindInv, PublisherStep \/ RestartStep, ~reused'
  PROVE  BehindInv'
  <1>0. ReachInv' /\ Committed' >= Committed /\ TypeOK
    BY PublisherReach DEF BehindInv, ReachInv
  <1>1. Committed \in Nat /\ Committed' \in Nat
    BY <1>0, CommittedType DEF ReachInv
  <1>2. UNCHANGED <<curs, subvars>>
    BY PublisherFrame
  <1>3. \A r \in Subs : DirectOK(r)' /\ cursor'[r] <= Committed'
    BY <1>0, <1>1, <1>2 DEF BehindInv, DirectOK, TypeOK, subvars, connvars
  <1>4. \A i \in SubIdx : curs'[i] = Unclaimed \/ curs'[i] <= Committed'
    BY <1>0, <1>1, <1>2 DEF BehindInv, TypeOK
  <1>5. ppc' \in {"precheck", "scan"} => pmin' = Unclaimed \/ pmin' <= tail'
    <2>1. CASE ScanCursor
      <3>1. Committed = tail /\ pi \in SubIdx
        BY <2>1, <1>0, ConstantsOK DEF ScanCursor, Committed, Down, TypeOK, SubIdx
      <3>2. curs[pi] = Unclaimed \/ curs[pi] <= tail
        BY <3>1 DEF BehindInv
      <3>3. pmin \in Nat /\ curs[pi] \in Nat /\ tail \in Nat
        BY <1>0, <3>1 DEF TypeOK
      <3> QED
        BY <2>1, <3>2, <3>3, UnclaimedType DEF ScanCursor, BehindInv, Lesser, shared
    <2>2. CASE FlushLog
      BY <2>2 DEF FlushLog, pubvars, BehindInv
    <2>3. CASE ~ScanCursor /\ ~FlushLog
      <3>1. ppc' \in {"precheck", "scan"} => pmin' = Unclaimed
        BY <2>3 DEF PublisherStep, Publish, Reject, Admit, Append, StoreSlot,
           Commit, BumpTail, RestartStep, PublisherDrops, PublisherKilled, Dies,
           ReuseRing, ResetTail, AlignTail, PubGoto
      <3> QED
        BY <3>1
    <2> QED
      BY <2>1, <2>2, <2>3
  <1> QED
    BY <1>0, <1>3, <1>4, <1>5 DEF BehindInv

\* A step that reads no explicit start never leaves a subscriber in a replay.
LEMMA SubscriberDirect ==
  ASSUME NoExplicit, NEW r \in Subs, TypeOK, DirectOK(r), SubscriberStep(r)
  PROVE  DirectOK(r)'
  <1>1. CASE ConnectStep(r)
    <2>1. ASSUME NEW s \in Starts, Resync(r, s) PROVE DirectOK(r)'
      <3>1. ~BehindRing(s, tail)
        BY DEF NoExplicit, BehindRing
      <3> QED
        BY <2>1, <3>1 DEF Resync, SubGoto, TypeOK, DirectOK
    <2>2. CASE Connect(r) \/ ClaimCursor(r) \/ Handshake(r) \/ SetCursor(r)
               \/ ReadGeneration(r)
      BY <2>2 DEF Connect, ClaimCursor, Handshake, SetCursor, ReadGeneration,
         SubGoto, TypeOK, DirectOK, connvars
    <2>3. CASE Release(r)
      BY <2>3 DEF Release, SubGoto, TypeOK, DirectOK
    <2> QED
      BY <1>1, <2>1, <2>2, <2>3 DEF ConnectStep, HandshakeFails, CursorTooOld
  <1>2. CASE ~ConnectStep(r)
    <2>1. pc'[r] \in {"ready", "load", "copy", "off", "dead"} => DirectOK(r)'
      BY DEF DirectOK
    <2>2. CASE Retry(r, eff[r]) \/ Retry(r, seq[Slot(eff[r])].n) \/ ReturnNone(r)
               \/ Overwritten(r)
      BY <2>2, <2>1 DEF Retry, ReturnNone, Overwritten, SubGoto, TypeOK
    <2> QED
      BY <1>2, <2>1, <2>2 DEF SubscriberStep, ReceiveStep, ReplayRecord,
         ReplayDrained, BeginReceive, LoadSeq, LoadSlot, CopyDone, Deliver,
         ReplayFails, RejectOversize, StoreCursor, Drop, Release, Killed,
         SubGoto, TypeOK, DirectOK
  <1> QED
    BY <1>1, <1>2

LEMMA SubscriberBehind ==
  ASSUME NoExplicit, NEW r \in Subs, BehindInv, SubscriberStep(r)
  PROVE  BehindInv'
  <1>0. /\ ReachInv' /\ Committed' = Committed /\ TypeOK /\ Committed \in Nat
        /\ DirectOK(r) /\ DirectOK(r)' /\ PositionOK(r) /\ cursor[r] <= Committed
    BY SubscriberReach, SubscriberDirect, CommittedType DEF BehindInv, ReachInv
  <1>1. /\ UNCHANGED <<tail, gen, seq, word, logvars, pubvars>>
        /\ \A q \in Subs \ {r} : LocalsSame(q)
        /\ \A i \in SubIdx : i # idx[r] => curs'[i] = curs[i]
    BY <1>0, SubscriberFrame
  <1>2. tail <= Committed /\ tail \in Nat /\ eff[r] \in Nat /\ cursor[r] \in Nat
        /\ idx[r] \in SubIdx
    BY <1>0 DEF Committed, BehindInv, ReachInv, NumberingInv, TypeOK
  <1> DEFINE P == /\ cursor'[r] <= Committed
                  /\ curs'[idx[r]] = Unclaimed \/ curs'[idx[r]] <= Committed
  <1>3. ASSUME P PROVE BehindInv'
    <2>1. \A q \in Subs : DirectOK(q)' /\ cursor'[q] <= Committed'
      BY <1>0, <1>1, <1>3 DEF BehindInv, DirectOK, LocalsSame
    <2>2. \A i \in SubIdx : curs'[i] = Unclaimed \/ curs'[i] <= Committed'
      BY <1>0, <1>1, <1>3 DEF BehindInv
    <2> QED
      BY <1>0, <1>1, <2>1, <2>2 DEF BehindInv, pubvars
  <1>4. ASSUME curs' = curs, cursor' = cursor PROVE P
    BY <1>0, <1>2, <1>4 DEF BehindInv
  <1>5. ASSUME Release(r) PROVE P
    BY <1>5, <1>0, <1>2 DEF Release, TypeOK
  <1>6. ASSUME StoreCursor(r), pc[r] = "copy" PROVE P
    <2>1. eff[r] < Committed
      BY <1>0, <1>6 DEF PositionOK
    <2> QED
      BY <1>0, <1>2, <1>6, <2>1, StoreCursorEffect
  <1>7. ASSUME ConnectStep(r) PROVE P
    <2>1. CASE Connect(r)
      BY <2>1, <1>0, <1>2 DEF Connect, TypeOK, shared, BehindInv
    <2>2. CASE ClaimCursor(r)
      BY <2>2, <1>0, <1>2 DEF ClaimCursor, TypeOK, BehindInv
    <2>3. CASE Handshake(r) \/ ReadGeneration(r)
      BY <2>3, <1>4 DEF Handshake, ReadGeneration, shared
    <2>4. ASSUME NEW s \in Starts, Resync(r, s) PROVE P
      <3>1. s.kind \in {"Now", "HistoryBack"} /\ s.n \in Nat
        BY ConstantsOK DEF StartPos, NoExplicit
      <3>2. StartCursor(s, tail) <= tail /\ StartCursor(s, tail) \in Nat
        BY <1>2, <3>1 DEF StartCursor, SaturatingSub
      <3>3. cursor'[r] = StartCursor(s, tail) /\ curs' = curs
        BY <2>4, <1>0 DEF Resync, TypeOK, shared
      <3> QED
        BY <1>0, <1>2, <3>2, <3>3 DEF BehindInv
    <2>5. CASE SetCursor(r)
      BY <2>5, <1>0, <1>2 DEF SetCursor, TypeOK, DirectOK
    <2> QED
      BY <1>5, <1>7, <2>1, <2>2, <2>3, <2>4, <2>5
      DEF ConnectStep, HandshakeFails, CursorTooOld
  <1>8. ASSUME LoadSeq(r) \/ Overwritten(r) PROVE P
    BY <1>8, <1>4 DEF LoadSeq, Overwritten, Retry, ReturnNone, shared
  <1>9. ASSUME BeginReceive(r) \/ Killed(r)
                 \/ \E k \in 1..(Words + 1) : LoadSlot(r, k)
        PROVE  P
    BY <1>9, <1>4 DEF BeginReceive, Killed, LoadSlot, shared
  <1>10. ~(ReplayRecord(r) \/ ReplayDrained(r) \/ ReplayFails(r))
    BY <1>0 DEF DirectOK, ReplayRecord, ReplayDrained, ReplayFails
  <1>11. P
    BY <1>5, <1>6, <1>7, <1>8, <1>9, <1>10
    DEF SubscriberStep, ReceiveStep, Deliver, CopyDone, RejectOversize, Drop
  <1> QED
    BY <1>3, <1>11

LEMMA NextBehind ==
  ASSUME NoExplicit
  PROVE  BehindInv /\ [Next]_vars /\ ~reused' => BehindInv'
  <1>1. ASSUME BehindInv, UNCHANGED vars PROVE BehindInv'
    BY <1>1, StutterReach DEF BehindInv, DirectOK, vars, shared, pubvars, subvars,
       connvars
  <1> QED
    BY <1>1, StepCases, PublisherBehind, SubscriberBehind

LEMMA BehindMeansFull == BehindInv => FullOnlyBehind
  <1> SUFFICES ASSUME BehindInv, ScanDone, IsFull PROVE pmin + Capacity <= tail
    BY DEF FullOnlyBehind
  <1>1. pmin \in Nat /\ tail \in Nat /\ Capacity \in Nat \ {0}
    BY ConstantsOK DEF BehindInv, ReachInv, TypeOK
  <1>2. pmin # Unclaimed
    BY <1>1 DEF IsFull, WrappingSub
  <1>3. pmin <= tail
    BY <1>2 DEF BehindInv, ScanDone
  <1> QED
    BY <1>1, <1>2, <1>3 DEF IsFull, WrappingSub

\* is_full and try_publish report a full ring only on a cursor that really
\* lies a whole ring behind, for every capacity and table size, however the
\* subscribers move while their cursors are scanned, and whenever the
\* publisher is killed and restarted under subscribers that stay seated:
\* until a death sends the numbering back, and as long as no subscriber
\* starts at an explicit cursor.
THEOREM FullSound ==
  ASSUME NoExplicit
  PROVE  Spec => []FullMeansBehind
  <1> DEFINE I == TypeOK /\ (~reused => BehindInv)
  <1>1. Init => I
    BY InitType, InitBehind
  <1>2. I /\ [Next]_vars => I'
    BY NextType, NextBehind, ReusedStays
  <1>3. I => FullMeansBehind
    BY BehindMeansFull DEF FullMeansBehind
  <1> QED
    BY <1>1, <1>2, <1>3, PTL DEF Spec

-----------------------------------------------------------------------------
(***************************************************************************)
(* BackpressurePolicy::Error.  While one publisher lives and subscribers   *)
(* start at the live tail, the publisher never writes over a message that  *)
(* a seated subscriber has not read.  A scan that passed r's slot before r *)
(* claimed it cannot hurt r: it admits one message, the one r starts at or *)
(* an older one.                                                           *)
(***************************************************************************)
StartsNow == \A s \in Starts : s.kind = "Now"

FirstPublisher == gen = 1 /\ ppc # "down"

\* The second read of the tail has fixed the position of r.
Seated(r) == pc[r] \in {"seat", "readgen", "ready", "load", "copy"}

KeptOK(r) ==
  /\ DirectOK(r)
  /\ pc[r] \in {"claim", "handshake", "resync"} => cursor[r] <= tail
  /\ pc[r] \in {"handshake", "resync"} => curs[idx[r]] = cursor[r]
  /\ pc[r] \in {"load", "copy"} => eff[r] = cursor[r]
  /\ Seated(r) =>
       /\ curs[idx[r]] <= cursor[r]
       /\ tail <= cursor[r] + Capacity
       /\ ppc \in {"write", "bump"} => tail < cursor[r] + Capacity
       /\ ppc = "scan" /\ pi > idx[r] =>
            pmin <= cursor[r] \/ tail < cursor[r] + Capacity
  /\ Delivered(r) => got[r].seq = got[r].from

KeptInv ==
  /\ SlotsInv /\ ReachInv
  /\ gen = 1 /\ ppc \notin Down
  /\ \A r \in Subs : KeptOK(r)

LEMMA InitKept == Init => KeptInv
  BY InitSlots, InitReach
  DEF Init, KeptInv, KeptOK, DirectOK, Seated, Delivered, NoGot, Down

\* The first publisher lives on: it is not in a restart.
LEMMA NoRestart ==
  ASSUME KeptInv, PublisherStep \/ RestartStep, FirstPublisher'
  PROVE  PublisherStep /\ gen' = 1 /\ ppc' \notin Down /\ ~reused'
  <1>1. ~(ReuseRing \/ ResetTail \/ AlignTail)
    BY DEF KeptInv, Down, ReuseRing, ResetTail, AlignTail
  <1>2. ~(PublisherDrops \/ PublisherKilled)
    BY DEF FirstPublisher, PublisherDrops, PublisherKilled, Dies, PubGoto
  <1>3. PublisherStep
    BY <1>1, <1>2 DEF RestartStep
  <1>4. gen' = gen /\ reused' = reused /\ ~reused
    BY <1>3 DEF KeptInv, ReachInv, NumberingInv, PublisherStep, Publish,
       ScanCursor, Reject, Admit, Append, StoreSlot, Commit, BumpTail, FlushLog,
       shared
  <1>5. ppc' \notin Down
    BY <1>3 DEF KeptInv, PublisherStep, Publish, ScanCursor, Reject, Admit,
       Append, StoreSlot, Commit, BumpTail, FlushLog, PubGoto, RingPublish, Down,
       pubvars
  <1> QED
    BY <1>3, <1>4, <1>5 DEF KeptInv

LEMMA PublisherKept ==
  ASSUME Policy = "Error", KeptInv, PublisherStep, NEW r \in Subs
  PROVE  KeptOK(r)'
  <1>0. /\ TypeOK /\ KeptOK(r) /\ idx[r] \in SubIdx /\ cursor[r] \in Nat
        /\ tail \in Nat /\ pi \in Nat /\ pmin \in Nat /\ curs[idx[r]] \in Nat
        /\ Capacity \in Nat \ {0} /\ MaxSubs \in Nat /\ tail < Unclaimed
        /\ SubIdx = 0..(MaxSubs - 1) /\ ppc \notin Down
    <2>1. TypeOK /\ KeptOK(r) /\ ppc \notin Down /\ tail <= MaxTail
      BY DEF KeptInv, SlotsInv, CountsInv
    <2>2. tail < Unclaimed
      BY <2>1, BelowUnclaimed, ConstantsOK DEF TypeOK
    <2> QED
      BY <2>1, <2>2, ConstantsOK DEF TypeOK, SubIdx
  <1>2. UNCHANGED <<curs, subvars>>
    BY PublisherFrame
  <1>3. /\ UNCHANGED <<curs, pc, idx, cursor, live, eff, got>>
        /\ DirectOK(r)' /\ (Seated(r)' <=> Seated(r))
        /\ Delivered(r)' => got'[r].seq = got'[r].from
    BY <1>0, <1>2 DEF KeptOK, DirectOK, Seated, Delivered, subvars, connvars, readvars
  <1>4. CASE Publish \/ Reject \/ Append
    <2>1. tail' = tail /\ pi' = 0 /\ ppc' \notin {"write", "bump"}
      BY <1>4 DEF Publish, Reject, Append, PubGoto, RingPublish, shared
    <2> QED
      BY <1>0, <1>3, <2>1 DEF KeptOK
  <1>5. CASE ScanCursor
    <2>1. /\ UNCHANGED <<tail, ppc>> /\ ppc \in {"precheck", "scan"}
          /\ pi' = pi + 1 /\ pi \in SubIdx /\ pmin' = Lesser(pmin, curs[pi])
      BY <1>0, <1>5 DEF ScanCursor, shared
    <2>2. curs[pi] \in Nat /\ pmin' <= pmin /\ pmin' <= curs[pi] /\ pmin' \in Nat
      BY <1>0, <2>1 DEF TypeOK, Lesser
    <2>3. pi' > idx[r] => pi > idx[r] \/ pi = idx[r]
      BY <1>0, <2>1
    <2> QED
      BY <1>0, <1>3, <2>1, <2>2, <2>3 DEF KeptOK
  <1>6. CASE Admit
    <2>1. /\ tail' = tail /\ pi' = 0 /\ pi = MaxSubs /\ ~IsFull
          /\ ppc' = IF ppc = "precheck" THEN "append" ELSE "write"
          /\ ppc \in {"precheck", "scan"}
      BY <1>6 DEF Admit, ScanDone, PubGoto, shared
    <2>2. ASSUME Seated(r), ppc = "scan" PROVE tail < cursor[r] + Capacity
      <3>1. pmin <= cursor[r] \/ tail < cursor[r] + Capacity
        BY <1>0, <2>1, <2>2 DEF KeptOK
      <3>2. CASE pmin <= cursor[r]
        <4>1. CASE pmin > tail
          BY <1>0, <3>2, <4>1
        <4>2. CASE pmin <= tail
          <5>1. tail - pmin < Capacity
            BY <1>0, <2>1, <4>2 DEF IsFull, WrappingSub
          <5> QED
            BY <1>0, <3>2, <4>2, <5>1
        <4> QED
          BY <1>0, <4>1, <4>2
      <3> QED
        BY <3>1, <3>2
    <2> QED
      BY <1>0, <1>3, <2>1, <2>2 DEF KeptOK, Down
  <1>7. CASE Commit \/ \E k \in 0..Words : StoreSlot(k)
    <2>1. tail' = tail /\ ppc = "write" /\ ppc' \in {"write", "bump"}
      BY <1>7 DEF Commit, StoreSlot, PubGoto
    <2> QED
      BY <1>0, <1>3, <2>1 DEF KeptOK, Down
  <1>8. CASE BumpTail
    <2>1. tail' = tail + 1 /\ ppc = "bump" /\ ppc' = "idle"
      BY <1>8 DEF BumpTail, PubGoto
    <2> QED
      BY <1>0, <1>3, <2>1 DEF KeptOK, Down
  <1>9. CASE FlushLog
    BY <1>0, <1>3, <1>9 DEF FlushLog, KeptOK, pubvars
  <1> QED
    BY <1>4, <1>5, <1>6, <1>7, <1>8, <1>9 DEF PublisherStep

\* What a subscriber stores in the table stays within its own slot.
LEMMA OthersSlots ==
  ASSUME SlotsInv, NEW r \in Subs, SubscriberStep(r),
         NEW q \in Subs \ {r}, Tenant(q)
  PROVE  curs'[idx[q]] = curs[idx[q]]
  <1>1. \A i \in SubIdx : i # idx[r] => curs'[i] = curs[i]
    BY SubscriberFrame DEF SlotsInv
  <1>2. idx[q] \in SubIdx /\ curs[idx[q]] # Unclaimed
    BY DEF SlotsInv, TypeOK, SlotOK
  <1>3. CASE Tenant(r)
    BY <1>1, <1>2, <1>3 DEF SlotsInv, OneTenant
  <1>4. CASE ~Tenant(r)
    <2>1. CASE ClaimCursor(r)
      BY <1>1, <1>2, <2>1 DEF ClaimCursor
    <2>2. CASE Connect(r)
      BY <2>2 DEF Connect, shared
    <2>3. ~(ConnectStep(r) /\ ~ClaimCursor(r) /\ ~Connect(r))
      BY <1>4 DEF Tenant, ConnectStep, Handshake, HandshakeFails, Resync,
         CursorTooOld, SetCursor, ReadGeneration
    <2>4. ~(ReceiveStep(r) \/ ReplayFails(r) \/ RejectOversize(r) \/ Drop(r) \/ Killed(r))
      BY <1>4 DEF Tenant, ReceiveStep, ReplayRecord, ReplayDrained, BeginReceive,
         LoadSeq, LoadSlot, Overwritten, Deliver, CopyDone, ReplayFails,
         RejectOversize, Drop, Killed
    <2> QED
      BY <2>1, <2>2, <2>3, <2>4 DEF SubscriberStep
  <1> QED
    BY <1>3, <1>4

\* r finds no message other than the one at its cursor in its slot.
LEMMA NeverLapped ==
  ASSUME KeptInv, NEW r \in Subs, pc[r] \in {"load", "copy"},
         NEW n \in Nat, n < Frontier, n >= eff[r] + Capacity
  PROVE  FALSE
  <1>1. /\ KeptOK(r) /\ Seated(r) /\ eff[r] = cursor[r] /\ tail \in Nat
        /\ cursor[r] \in Nat /\ Capacity \in Nat
    BY ConstantsOK DEF KeptInv, KeptOK, Seated, SlotsInv, TypeOK
  <1>2. CASE ppc \in {"write", "bump"}
    BY <1>1, <1>2 DEF KeptOK, Frontier, Committed, Down
  <1>3. CASE ppc \notin {"write", "bump"}
    BY <1>1, <1>3 DEF KeptInv, KeptOK, Frontier, Committed, Marked
  <1> QED
    BY <1>2, <1>3

LEMMA SubscriberKept ==
  ASSUME StartsNow, KeptInv, NEW r \in Subs, SubscriberStep(r)
  PROVE  KeptOK(r)'
  <1> DEFINE i == Slot(eff[r])
  <1>0. /\ TypeOK /\ KeptOK(r) /\ PositionOK(r) /\ OwnerOK(r)
        /\ idx[r] \in SubIdx /\ cursor[r] \in Nat /\ live[r] \in Nat
        /\ tail \in Nat /\ curs[idx[r]] \in Nat /\ eff[r] \in Nat
        /\ Capacity \in Nat \ {0} /\ i \in SlotIdx /\ seq[i].n \in Nat
        /\ after[r].n \in Nat
    BY ConstantsOK, SlotType DEF KeptInv, SlotsInv, ReachInv, TypeOK, Stamp
  <1>1. UNCHANGED <<tail, ppc, pi, pmin>>
    BY <1>0, SubscriberFrame DEF pubvars
  <1>2. NoExplicit
    BY DEF StartsNow, NoExplicit
  <1>3. DirectOK(r)'
    BY <1>0, <1>2, SubscriberDirect DEF KeptOK
  <1>4. ASSUME pc'[r] \in {"off", "dead"}, got' = got PROVE KeptOK(r)'
    BY <1>0, <1>3, <1>4 DEF KeptOK, Seated, Delivered
  <1>5. CASE ConnectStep(r)
    <2>1. CASE Connect(r)
      <3>1. pc'[r] = "claim" /\ cursor'[r] = tail /\ got'[r] = NoGot
        BY <1>0, <2>1 DEF Connect, SubGoto, TypeOK
      <3> QED
        BY <1>0, <1>1, <1>3, <3>1 DEF KeptOK, Seated, Delivered, NoGot
    <2>2. CASE ClaimCursor(r)
      <3>1. pc[r] = "claim" /\ cursor' = cursor /\ got' = got
        BY <2>2 DEF ClaimCursor
      <3>2. \/ /\ pc'[r] = "handshake" /\ idx' = idx
               /\ curs'[idx[r]] = cursor[r]
            \/ pc'[r] \in {"claim", "off"}
        BY <1>0, <2>2 DEF ClaimCursor, SubGoto, TypeOK
      <3> QED
        BY <1>0, <1>1, <1>3, <3>1, <3>2 DEF KeptOK, Seated, Delivered
    <2>3. CASE Handshake(r)
      <3>1. /\ pc[r] = "handshake" /\ pc'[r] = "resync"
            /\ UNCHANGED <<curs, idx, cursor, got>>
        BY <1>0, <2>3 DEF Handshake, SubGoto, TypeOK, shared, connvars
      <3> QED
        BY <1>0, <1>1, <1>3, <3>1 DEF KeptOK, Seated, Delivered
    <2>4. CASE Release(r)
      BY <1>0, <1>4, <2>4, ReleaseEffect
    <2>5. ASSUME NEW s \in Starts, Resync(r, s) PROVE KeptOK(r)'
      <3>1. /\ pc[r] = "resync" /\ pc'[r] = "seat"
            /\ cursor'[r] = StartCursor(s, tail) /\ UNCHANGED <<curs, idx, got>>
        BY <1>0, <2>5 DEF Resync, SubGoto, TypeOK, shared
      <3>2. StartCursor(s, tail) = tail
        BY DEF StartsNow, StartCursor
      <3> QED
        BY <1>0, <1>1, <1>3, <3>1, <3>2 DEF KeptOK, Seated, Delivered
    <2>6. CASE SetCursor(r)
      <3>1. /\ pc[r] = "seat" /\ pc'[r] = "readgen" /\ curs'[idx[r]] = live[r]
            /\ live[r] = cursor[r] /\ UNCHANGED <<idx, cursor, got>>
        BY <1>0, <2>6 DEF SetCursor, SubGoto, TypeOK, connvars, KeptOK, DirectOK
      <3> QED
        BY <1>0, <1>1, <1>3, <3>1 DEF KeptOK, Seated, Delivered
    <2>7. CASE ReadGeneration(r)
      <3>1. /\ pc[r] = "readgen" /\ pc'[r] = "ready"
            /\ UNCHANGED <<curs, idx, cursor, got>>
        BY <1>0, <2>7 DEF ReadGeneration, SubGoto, TypeOK, shared, KeptOK, DirectOK
      <3> QED
        BY <1>0, <1>1, <1>3, <3>1 DEF KeptOK, Seated, Delivered
    <2> QED
      BY <1>5, <2>1, <2>2, <2>3, <2>4, <2>5, <2>6, <2>7
      DEF ConnectStep, HandshakeFails, CursorTooOld
  <1>6. ASSUME Retry(r, eff[r]) \/ ReturnNone(r), pc[r] \in {"load", "copy"}
        PROVE  KeptOK(r)'
    <2>1. /\ UNCHANGED <<curs, idx, cursor, got>>
          /\ \/ pc'[r] = "ready"
             \/ pc'[r] = "load" /\ eff'[r] = eff[r]
      <3>1. CASE Retry(r, eff[r])
        BY <1>0, <3>1, RetryEffect DEF shared, connvars
      <3>2. CASE ReturnNone(r)
        BY <1>0, <3>2, ReturnNoneEffect DEF shared, connvars
      <3> QED
        BY <1>6, <3>1, <3>2
    <2> QED
      BY <1>0, <1>1, <1>3, <1>6, <2>1 DEF KeptOK, Seated, Delivered
  <1>7. ASSUME StoreCursor(r), pc[r] = "copy",
               \/ got' = got
               \/ got'[r] = [seq |-> eff[r], from |-> cursor[r], words |-> buf[r]]
        PROVE  KeptOK(r)'
    <2>1. /\ pc'[r] = "ready" /\ idx' = idx /\ curs'[idx[r]] = eff[r] + 1
          /\ cursor'[r] = eff[r] + 1 /\ eff[r] = cursor[r]
      BY <1>0, <1>7, StoreCursorEffect DEF connvars, KeptOK
    <2>2. Delivered(r)' => got'[r].seq = got'[r].from
      BY <1>0, <1>7, <2>1 DEF KeptOK, Delivered
    <2>3. /\ tail <= cursor'[r] + Capacity
          /\ ppc \in {"write", "bump"} => tail < cursor'[r] + Capacity
          /\ ppc = "scan" /\ pi > idx[r] =>
               pmin <= cursor'[r] \/ tail < cursor'[r] + Capacity
      BY <1>0, <1>7, <2>1 DEF KeptOK, Seated, TypeOK
    <2> QED
      BY <1>0, <1>1, <1>3, <2>1, <2>2, <2>3 DEF KeptOK
  <1>8. CASE BeginReceive(r)
    <2>1. /\ pc[r] = "ready" /\ pc'[r] = "load" /\ eff'[r] = cursor[r]
          /\ UNCHANGED <<curs, idx, cursor, got>>
      BY <1>0, <1>8 DEF BeginReceive, SubGoto, TypeOK, shared, connvars
    <2> QED
      BY <1>0, <1>1, <1>3, <2>1 DEF KeptOK, Seated, Delivered
  <1>9. CASE LoadSeq(r)
    <2>1. pc[r] = "load"
      BY <1>9 DEF LoadSeq
    <2>2. ~(seq[i].n > eff[r])
      <3> SUFFICES ASSUME seq[i].n > eff[r] PROVE FALSE
        OBVIOUS
      <3>1. seq[i].n < Frontier /\ Slot(seq[i].n) = i
        BY <1>0 DEF KeptInv, ReachInv, StampsOK
      <3> QED
        BY <1>0, <2>1, <3>1, SlotApart, NeverLapped
    <2>3. CASE /\ SubGoto(r, "copy")
               /\ UNCHANGED <<shared, pubvars, cursor, connvars, readvars, got>>
      <3>1. pc'[r] = "copy" /\ UNCHANGED <<curs, idx, cursor, eff, got>>
        BY <1>0, <2>3 DEF SubGoto, TypeOK, shared, connvars, readvars
      <3> QED
        BY <1>0, <1>1, <1>3, <2>1, <3>1 DEF KeptOK, Seated, Delivered
    <2> QED
      BY <1>6, <1>9, <2>1, <2>2, <2>3 DEF LoadSeq
  <1>10. ASSUME NEW k \in 1..(Words + 1), LoadSlot(r, k) PROVE KeptOK(r)'
    <2>1. UNCHANGED <<pc, curs, idx, cursor, eff, got>>
      BY <1>10 DEF LoadSlot, shared, connvars
    <2> QED
      BY <1>0, <1>1, <1>3, <2>1 DEF KeptOK, Seated, Delivered
  <1>11. CASE Overwritten(r)
    <2>1. pc[r] = "copy" /\ Words + 1 \in rdone[r]
      BY <1>11, ConstantsOK DEF Overwritten, CopyDone
    <2>2. ~(after[r].n > eff[r])
      BY <1>0, <2>1, NeverLapped DEF PositionOK
    <2> QED
      BY <1>0, <1>6, <1>11, <2>1, <2>2 DEF Overwritten, Greater
  <1>12. CASE Killed(r)
    BY <1>0, <1>4, <1>12 DEF Killed, SubGoto, TypeOK
  <1>13. CASE Drop(r)
    BY <1>0, <1>4, <1>13, ReleaseEffect DEF Drop
  <1>14. CASE Deliver(r) \/ RejectOversize(r)
    BY <1>0, <1>7, <1>14 DEF Deliver, CopyDone, RejectOversize, TypeOK
  <1>15. ~(ReplayRecord(r) \/ ReplayDrained(r) \/ ReplayFails(r))
    BY <1>0 DEF KeptOK, DirectOK, ReplayRecord, ReplayDrained, ReplayFails
  <1> QED
    BY <1>5, <1>8, <1>9, <1>10, <1>11, <1>12, <1>13, <1>14, <1>15
    DEF SubscriberStep, ReceiveStep

LEMMA NextKept ==
  ASSUME Policy = "Error", StartsNow
  PROVE  KeptInv /\ [Next]_vars /\ FirstPublisher' => KeptInv'
  <1> SUFFICES ASSUME KeptInv, [Next]_vars, FirstPublisher' PROVE KeptInv'
    OBVIOUS
  <1>1. StartsClaimable
    BY DEF StartsClaimable, StartsNow
  <1>2. ~reused' => SlotsInv' /\ ReachInv'
    BY <1>1, NextSlots, NextReach DEF KeptInv
  <1>3. CASE PublisherStep \/ RestartStep
    BY <1>2, <1>3, NoRestart, PublisherKept DEF KeptInv
  <1>4. ASSUME NEW r \in Subs, SubscriberStep(r) PROVE KeptInv'
    <2>0. ~reused
      BY DEF KeptInv, ReachInv, NumberingInv
    <2>1. /\ UNCHANGED <<tail, gen, seq, word, logvars, pubvars>>
          /\ \A q \in Subs \ {r} : LocalsSame(q)
      BY <1>4, SubscriberFrame DEF KeptInv, SlotsInv
    <2>2. ASSUME NEW q \in Subs \ {r} PROVE KeptOK(q)'
      <3>1. Tenant(q) => curs'[idx[q]] = curs[idx[q]]
        BY <1>4, OthersSlots DEF KeptInv
      <3>2. pc[q] \in {"handshake", "resync"} \/ Seated(q) => Tenant(q)
        BY DEF Tenant, Seated
      <3> QED
        BY <2>1, <3>1, <3>2
        DEF KeptInv, KeptOK, DirectOK, Seated, Delivered, LocalsSame, pubvars
    <2>3. KeptOK(r)'
      BY <1>4, SubscriberKept
    <2> QED
      BY <1>2, <2>0, <2>1, <2>2, <2>3 DEF KeptInv, pubvars
  <1>5. CASE UNCHANGED vars
    <2>1. ~reused'
      BY <1>5 DEF KeptInv, ReachInv, NumberingInv, vars, shared
    <2> QED
      BY <1>2, <1>5, <2>1 DEF KeptInv, KeptOK, DirectOK, Seated, Delivered, vars,
         shared, pubvars, subvars, connvars, readvars
  <1> QED
    BY <1>3, <1>4, <1>5, StepCases

\* The first publisher has no predecessor.
LEMMA FirstStays ==
  ASSUME TypeOK, gen >= 1, [Next]_vars
  PROVE  gen' >= 1 /\ (FirstPublisher' => FirstPublisher)
  <1>1. CASE PublisherStep
    <2>1. gen' = gen /\ ppc # "down"
      BY <1>1 DEF PublisherStep, Publish, ScanCursor, Reject, Admit, Append,
         StoreSlot, Commit, BumpTail, FlushLog, ScanDone, Down, shared
    <2> QED
      BY <2>1 DEF FirstPublisher
  <1>2. CASE RestartStep
    BY <1>2 DEF RestartStep, PublisherDrops, PublisherKilled, Dies, ReuseRing,
       ResetTail, AlignTail, PubGoto, shared, FirstPublisher, TypeOK
  <1>3. ASSUME UNCHANGED <<gen, ppc>>
        PROVE  gen' >= 1 /\ (FirstPublisher' => FirstPublisher)
    BY <1>3 DEF FirstPublisher
  <1> QED
    BY <1>1, <1>2, <1>3, StepCases, SubscriberFrame DEF vars, shared, pubvars

\* Under Error nothing is lost: as long as the first publisher lives, every
\* message handed to a subscriber of the live tail is the very next one at
\* its cursor, for any capacity, any number of subscribers that join, leave
\* and die while the publisher scans their cursors, and whatever the memory
\* model does to the words of a slot.
THEOREM ErrorLosesNothing ==
  ASSUME StartsNow
  PROVE  Spec => []NoLossUnderError
  <1>1. CASE Policy = "Error"
    <2> DEFINE I == TypeOK /\ gen >= 1 /\ (FirstPublisher => KeptInv)
    <2>1. Init => I
      BY InitType, InitKept DEF Init
    <2>2. I /\ [Next]_vars => I'
      BY <1>1, NextType, NextKept, FirstStays
    <2>3. I => NoLossUnderError
      BY DEF KeptInv, KeptOK, NoLossUnderError, FirstPublisher
    <2> QED
      BY <2>1, <2>2, <2>3, PTL DEF Spec
  <1>2. CASE Policy # "Error"
    <2>1. NoLossUnderError
      BY <1>2 DEF NoLossUnderError
    <2> QED
      BY <2>1, PTL
  <1> QED
    BY <1>1, <1>2

-----------------------------------------------------------------------------
(* The ring implements BroadcastLog: its initial states are initial states *)
(* of the log, and every step of a publisher or a subscriber is a step of  *)
(* the log or leaves it as it is, until a death sends the numbering back.  *)

LogInv ==
  /\ SeqlockInv /\ ReachInv
  /\ Policy = "Error" => KeptInv
  /\ ~Buffered => filed = wal

\* Nothing is promised under Error across a restart, nor to a subscriber that
\* starts behind the tail.
ErrorStarts == Policy = "Error" => MaxGen = 1 /\ StartsNow

LEMMA InitLogInv == Init => LogInv
  BY InitSeqlock, InitReach, InitKept DEF LogInv, Init

\* With one generation the publisher does not come back.
LEMMA OneGeneration ==
  ASSUME MaxGen = 1, KeptInv, [Next]_vars
  PROVE  FirstPublisher'
  <1>1. gen = 1 /\ ppc \notin Down
    BY DEF KeptInv
  <1>2. ~RestartStep
    BY <1>1 DEF RestartStep, Down, PublisherDrops, PublisherKilled, Dies,
       ReuseRing, ResetTail, AlignTail
  <1>3. CASE PublisherStep
    <2>1. gen' = gen
      BY <1>3 DEF PublisherStep, Publish, ScanCursor, Reject, Admit, Append,
         StoreSlot, Commit, BumpTail, FlushLog, shared
    <2>2. ppc' \notin Down
      BY <1>1, <1>3 DEF PublisherStep, Publish, ScanCursor, Reject, Admit, Append,
         StoreSlot, Commit, BumpTail, FlushLog, PubGoto, RingPublish, Down,
         pubvars
    <2> QED
      BY <1>1, <2>1, <2>2 DEF FirstPublisher, Down
  <1>4. ASSUME UNCHANGED <<gen, ppc>> PROVE FirstPublisher'
    BY <1>1, <1>4 DEF FirstPublisher, Down
  <1>5. TypeOK
    BY DEF KeptInv, SlotsInv
  <1> QED
    BY <1>2, <1>3, <1>4, <1>5, StepCases, SubscriberFrame DEF vars, shared, pubvars

LEMMA NextLogInv ==
  ASSUME TSO, ErrorStarts
  PROVE  LogInv /\ [Next]_vars /\ ~reused' => LogInv'
  <1> SUFFICES ASSUME LogInv, [Next]_vars, ~reused' PROVE LogInv'
    OBVIOUS
  <1>1. SeqlockInv' /\ ReachInv'
    BY NextSeqlock, NextReach DEF LogInv
  <1>2. Policy = "Error" => KeptInv'
    BY NextKept, OneGeneration DEF LogInv, ErrorStarts
  <1>3. ~Buffered => filed' = wal'
    <2>1. CASE PublisherStep \/ RestartStep
      BY <2>1 DEF LogInv, PublisherStep, Publish, ScanCursor, Reject, Admit,
         Append, StoreSlot, Commit, BumpTail, FlushLog, RestartStep,
         PublisherDrops, PublisherKilled, Dies, ReuseRing, ResetTail, AlignTail,
         shared
    <2>2. ASSUME UNCHANGED logvars PROVE ~Buffered => filed' = wal'
      BY <2>2 DEF LogInv
    <2> QED
      BY <2>1, <2>2, StepCases, SubscriberFrame DEF LogInv, ReachInv, vars, shared
  <1> QED
    BY <1>1, <1>2, <1>3 DEF LogInv

-----------------------------------------------------------------------------
(* The refinement mapping *)

Pos(r) == IF Attached(r) THEN cursor[r] ELSE -1

\* What r was handed is a whole message, so it has a number.
LEMMA HandedNumber ==
  ASSUME NEW r \in Subs
  PROVE  /\ NoTornDelivery /\ ~reused =>
              Handed(r) = IF Delivered(r) THEN got[r].seq ELSE -1
         /\ NoTornDelivery' /\ ~reused' =>
              Handed(r)' = IF Delivered(r)' THEN got'[r].seq ELSE -1
  BY Zenon DEF NoTornDelivery, Handed

LEMMA SameHanded ==
  ASSUME NEW r \in Subs, NoTornDelivery, NoTornDelivery', ~reused, ~reused',
         got'[r] = got[r]
  PROVE  Handed(r)' = Handed(r)
  BY HandedNumber DEF Delivered

\* A step that shows nothing at the level of the log.
LEMMA LogStutter ==
  ASSUME Published' = Published,
         \A r \in Subs : Pos(r)' = Pos(r) /\ Handed(r)' = Handed(r)
  PROVE  UNCHANGED Log!vars
  BY Zenon DEF Log!vars, Pos

LEMMA PublisherLog ==
  ASSUME LogInv, LogInv', PublisherStep \/ RestartStep
  PROVE  Log!Publish \/ UNCHANGED Log!vars
  <1>0. TypeOK /\ NumberingInv /\ NoTornDelivery /\ NoTornDelivery' /\ ~reused
        /\ ~reused'
    BY DEF LogInv, SeqlockInv, NumberingInv
  <1>1. UNCHANGED subvars
    BY PublisherFrame
  <1>2. \A r \in Subs : Pos(r)' = Pos(r) /\ Handed(r)' = Handed(r)
    BY <1>0, <1>1, SameHanded DEF Pos, Attached, subvars
  <1>3. Published' = Published \/ Published' = Published + 1
    <2> USE DEF Published, Greater, PubGoto, NumberingInv, TypeOK
    <2>1. CASE PublisherStep
      <3>1. CASE Publish \/ ScanCursor \/ Reject \/ Admit
                 \/ \E k \in 0..Words : StoreSlot(k)
        <4>1. UNCHANGED <<tail, filed>> /\ ppc # "bump" /\ ppc' # "bump"
          BY <3>1 DEF Publish, ScanCursor, Reject, Admit, StoreSlot, ScanDone,
             RingPublish, shared
        <4> QED
          BY <4>1
      <3>2. CASE Append
        <4>1. /\ ppc = "append" /\ tail' = tail /\ ppc' # "bump"
              /\ \/ wal = tail /\ wal' = tail + 1
                 \/ wal = tail + 1 /\ wal' = wal
              /\ filed' = IF Buffered THEN filed ELSE wal'
          BY <1>0, <3>2 DEF Append, RingPublish, Down
        <4> QED
          BY <1>0, <4>1 DEF LogInv
      <3>3. CASE FlushLog
        <4>1. /\ filed' \in (filed + 1)..wal /\ UNCHANGED <<tail, ppc>>
              /\ ppc \notin Down /\ Wal
          BY <3>3 DEF FlushLog, pubvars
        <4> QED
          BY <1>0, <4>1
      <3>4. CASE Commit
        <4>1. ppc = "write" /\ ppc' = "bump" /\ UNCHANGED <<tail, filed>>
          BY <3>4 DEF Commit
        <4>2. filed \in Nat /\ tail \in Nat /\ filed <= tail + 1
          BY <1>0, <4>1
        <4>3. /\ Published' = Greater(filed, tail + 1)
              /\ Published = Greater(filed, tail)
          BY <4>1
        <4> QED
          BY <4>2, <4>3
      <3>5. CASE BumpTail
        BY <1>0, <3>5 DEF BumpTail
      <3> QED
        BY <2>1, <3>1, <3>2, <3>3, <3>4, <3>5 DEF PublisherStep
    <2>2. ASSUME NEW n \in {filed, wal}, Dies(n),
                 n = wal => ppc = "idle" \/ wal = filed
          PROVE  Published' = Published \/ Published' = Published + 1
      <3>1. n \in Nat /\ tail \in Nat /\ filed \in Nat /\ wal \in Nat
        BY <1>0
      <3>2. n >= Used /\ Used \in Nat
        BY <1>0, <2>2, <3>1, UsedKept DEF Used
      <3>3. Published' = Greater(n, tail)
        BY <2>2 DEF Dies
      <3>4. Used >= tail /\ (ppc = "bump" => Used = tail + 1)
        BY <3>1 DEF Used
      <3>5. CASE n = filed
        BY <3>1, <3>2, <3>3, <3>4, <3>5
      <3>6. CASE ppc = "idle" /\ n = wal
        <4>1. filed <= wal /\ (wal <= tail + 1)
          BY <1>0, <3>1, <3>6 DEF Down
        <4> QED
          BY <3>1, <3>2, <3>3, <3>4, <3>6, <4>1
      <3> QED
        BY <2>2, <3>5, <3>6
    <2>3. CASE PublisherDrops \/ PublisherKilled
      BY <2>2, <2>3 DEF PublisherDrops, PublisherKilled
    <2>4. CASE ReuseRing \/ ResetTail \/ AlignTail
      BY <1>0, <2>4 DEF ReuseRing, ResetTail, AlignTail, shared, Down
    <2> QED
      BY <2>1, <2>3, <2>4 DEF RestartStep
  <1>4. CASE Published' = Published
    BY <1>2, <1>4, LogStutter
  <1>5. CASE Published' = Published + 1
    BY <1>2, <1>5 DEF Log!Publish, Pos
  <1> QED
    BY <1>3, <1>4, <1>5

-----------------------------------------------------------------------------
(* Steps of a subscriber *)

\* What r's step does to r, it does to no other reader of the log.
LEMMA OthersLog ==
  ASSUME LogInv, LogInv', NEW r \in Subs, SubscriberStep(r)
  PROVE  /\ Published' = Published
         /\ \A q \in Subs \ {r} : Pos(q)' = Pos(q) /\ Handed(q)' = Handed(q)
  <1>0. TypeOK /\ NoTornDelivery /\ NoTornDelivery' /\ ~reused /\ ~reused'
    BY DEF LogInv, SeqlockInv, NumberingInv
  <1>1. /\ UNCHANGED <<tail, gen, seq, word, logvars, pubvars>>
        /\ \A q \in Subs \ {r} : LocalsSame(q)
    BY <1>0, SubscriberFrame
  <1>2. Published' = Published
    BY <1>1 DEF Published, pubvars
  <1>3. \A q \in Subs \ {r} : Pos(q)' = Pos(q) /\ Handed(q)' = Handed(q)
    BY <1>0, <1>1, SameHanded DEF Pos, Attached, LocalsSame
  <1> QED
    BY <1>2, <1>3

\* The position and the last message of one reader of the log change.
LEMMA ReaderLog ==
  ASSUME NEW r \in Subs, NEW v, NEW h, Pos(r)' = v, Handed(r)' = h,
         \A q \in Subs \ {r} : Pos(q)' = Pos(q) /\ Handed(q)' = Handed(q)
  PROVE  /\ [q \in Subs |-> Pos(q)]' = [[q \in Subs |-> Pos(q)] EXCEPT ![r] = v]
         /\ [q \in Subs |-> Handed(q)]' = [[q \in Subs |-> Handed(q)] EXCEPT ![r] = h]
         /\ Pos(r)' = Pos(r) =>
              [q \in Subs |-> Pos(q)]' = [q \in Subs |-> Pos(q)]
         /\ Handed(r)' = Handed(r) =>
              [q \in Subs |-> Handed(q)]' = [q \in Subs |-> Handed(q)]
  OBVIOUS

\* try_receive returns, or steps over, only what the log lets it: the message
\* at the cursor, or under DropOldest one at least a ring ahead of it, and
\* always one that has been published.
LEMMA TakenReceivable ==
  ASSUME LogInv, NEW r \in Subs, pc[r] = "copy"
  PROVE  eff[r] \in Log!Receivable(cursor[r])
  <1>1. /\ PositionOK(r) /\ TypeOK /\ NumberingInv /\ eff[r] \in Nat
        /\ cursor[r] \in Nat /\ Capacity \in Nat /\ Committed \in Nat
        /\ tail \in Nat /\ wal \in Nat /\ filed \in Nat
    BY ConstantsOK, CommittedType DEF LogInv, ReachInv, TypeOK
  <1>2. Committed <= Published /\ Published \in Nat
    BY <1>1 DEF Committed, Published, NumberingInv, Down, Greater
  <1>3. eff[r] < Published
    BY <1>1, <1>2 DEF PositionOK
  <1>4. CASE Policy = "Error"
    <2>1. eff[r] = cursor[r]
      BY <1>4 DEF LogInv, KeptInv, KeptOK
    <2> QED
      BY <1>1, <1>2, <1>3, <2>1 DEF Log!Receivable
  <1>5. CASE Policy # "Error"
    <2>1. Policy = "DropOldest"
      BY <1>5, ConstantsOK
    <2>2. eff[r] = cursor[r] \/ eff[r] >= cursor[r] + Capacity
      BY <1>1 DEF PositionOK
    <2> QED
      BY <1>1, <1>2, <1>3, <2>1, <2>2 DEF Log!Receivable
  <1> QED
    BY <1>4, <1>5

LEMMA SubscriberLog ==
  ASSUME LogInv, LogInv', NEW r \in Subs, SubscriberStep(r)
  PROVE  \/ Log!Open(r) \/ Log!Attach(r) \/ Log!Receive(r) \/ Log!Pass(r)
         \/ Log!Detach(r) \/ UNCHANGED Log!vars
  <1> DEFINE p == [q \in Subs |-> Pos(q)]
             h == [q \in Subs |-> Handed(q)]
  <1>0. /\ TypeOK /\ TypeOK' /\ NoTornDelivery /\ NoTornDelivery'
        /\ ~reused /\ ~reused' /\ cursor[r] \in Nat /\ eff[r] \in Nat
    BY DEF LogInv, SeqlockInv, NumberingInv, TypeOK
  <1>1. /\ Published' = Published
        /\ \A q \in Subs \ {r} : Pos(q)' = Pos(q) /\ Handed(q)' = Handed(q)
    BY OthersLog
  <1>2. p[r] = Pos(r) /\ h[r] = Handed(r)
    OBVIOUS
  <1>3. ASSUME Pos(r)' = Pos(r), got'[r] = got[r] PROVE UNCHANGED Log!vars
    <2>1. Handed(r)' = Handed(r)
      BY <1>0, <1>3, SameHanded
    <2> QED
      BY <1>1, <1>3, <2>1, LogStutter
  <1>4. ASSUME pc'[r] = "off" \/ pc'[r] = "dead", got'[r] = got[r]
        PROVE  Log!Detach(r) \/ UNCHANGED Log!vars
    <2>1. Pos(r)' = -1
      BY <1>4 DEF Pos, Attached
    <2>2. CASE Pos(r) = -1
      BY <1>3, <1>4, <2>1, <2>2
    <2>3. CASE Pos(r) # -1
      <3>1. Handed(r)' = Handed(r)
        BY <1>0, <1>4, SameHanded
      <3>2. p' = [p EXCEPT ![r] = -1] /\ h' = h
        BY <1>1, <2>1, <3>1, ReaderLog
      <3> QED
        BY <1>1, <1>2, <2>3, <3>2 DEF Log!Detach, Log!Off, Pos
    <2> QED
      BY <2>2, <2>3
  <1>5. ASSUME StoreCursor(r), got'[r] = got[r], pc[r] = "copy"
        PROVE  Log!Pass(r)
    <2>1. Pos(r) = cursor[r] /\ Pos(r)' = eff[r] + 1 /\ Handed(r)' = Handed(r)
      BY <1>0, <1>5, StoreCursorEffect, SameHanded DEF Pos, Attached
    <2>2. p' = [p EXCEPT ![r] = eff[r] + 1] /\ h' = h
      BY <1>1, <2>1, ReaderLog
    <2>3. eff[r] \in Log!Receivable(p[r]) /\ p[r] # -1
      BY <1>0, <1>2, <1>5, <2>1, TakenReceivable
    <2> QED
      BY <1>1, <2>2, <2>3 DEF Log!Pass, Log!Off, Pos
  <1>6. CASE Connect(r)
    <2>1. pc[r] = "off" /\ pc'[r] = "claim" /\ got'[r] = NoGot
      BY <1>0, <1>6 DEF Connect, SubGoto, TypeOK
    <2>2. Pos(r) = -1 /\ Pos(r)' = -1
      BY <2>1 DEF Pos, Attached
    <2>3. Handed(r)' = -1
      BY <2>1 DEF Handed, Delivered, NoGot
    <2>4. p' = p /\ h' = [h EXCEPT ![r] = -1]
      BY <1>1, <2>2, <2>3, ReaderLog
    <2> QED
      BY <1>1, <1>2, <2>2, <2>4 DEF Log!Open, Log!Off, Log!Nothing, Pos
  <1>7. CASE \/ ClaimCursor(r) \/ Handshake(r) \/ SetCursor(r)
             \/ \E s \in Starts : Resync(r, s)
    <2>1. /\ pc[r] \in {"claim", "handshake", "resync", "seat"} /\ got' = got
          /\ pc'[r] \in {"claim", "off", "handshake", "resync", "seat", "readgen"}
      BY <1>0, <1>7 DEF ClaimCursor, Handshake, Resync, SetCursor, SubGoto, TypeOK
    <2>2. Pos(r)' = Pos(r)
      BY <2>1 DEF Pos, Attached
    <2> QED
      BY <1>3, <2>1, <2>2
  <1>8. CASE Release(r)
    BY <1>0, <1>4, <1>8, ReleaseEffect
  <1>9. CASE Killed(r)
    BY <1>0, <1>4, <1>9 DEF Killed, SubGoto, TypeOK
  <1>10. CASE ReadGeneration(r)
    <2>1. /\ pc[r] = "readgen" /\ pc'[r] \in {"ready", "replay"}
          /\ cursor' = cursor /\ got' = got
      BY <1>0, <1>10 DEF ReadGeneration, SubGoto, TypeOK
    <2>2. Pos(r) = -1 /\ Pos(r)' = cursor[r] /\ Handed(r)' = Handed(r)
      BY <1>0, <2>1, SameHanded DEF Pos, Attached
    <2>3. p' = [p EXCEPT ![r] = cursor[r]] /\ h' = h
      BY <1>1, <2>2, ReaderLog
    <2>4. p'[r] = cursor[r]
      BY <2>2
    <2> QED
      BY <1>0, <1>1, <1>2, <2>2, <2>3, <2>4 DEF Log!Attach, Log!Off, Pos
  <1>11. CASE ReplayRecord(r)
    <2>1. /\ pc[r] = "replay" /\ pc' = pc /\ cursor[r] < filed
          /\ cursor'[r] = cursor[r] + 1 /\ got' = got
      BY <1>0, <1>11 DEF ReplayRecord, TypeOK
    <2>2. Pos(r) = cursor[r] /\ Pos(r)' = cursor[r] + 1 /\ Handed(r)' = Handed(r)
      BY <1>0, <2>1, SameHanded DEF Pos, Attached
    <2>3. p' = [p EXCEPT ![r] = cursor[r] + 1] /\ h' = h
      BY <1>1, <2>2, ReaderLog
    <2>4. Published >= filed /\ Published \in Nat /\ filed \in Nat
      BY <1>0 DEF Published, Greater, TypeOK
    <2>5. cursor[r] \in Log!Receivable(p[r]) /\ p[r] # -1
      BY <1>0, <1>2, <2>1, <2>2, <2>4 DEF Log!Receivable
    <2> QED
      BY <1>1, <2>3, <2>5 DEF Log!Pass, Log!Off, Pos
  <1>12. CASE \/ ReplayDrained(r) \/ ReplayFails(r) \/ BeginReceive(r)
              \/ LoadSeq(r) \/ Overwritten(r)
              \/ \E k \in 1..(Words + 1) : LoadSlot(r, k)
    <2>1. CASE LoadSeq(r) \/ Overwritten(r)
      <3>0. pc[r] \in {"load", "copy"}
        BY <2>1 DEF LoadSeq, Overwritten, CopyDone
      <3>1. /\ pc'[r] \in {"load", "copy", "ready"}
            /\ cursor' = cursor /\ got' = got
        <4>1. ASSUME NEW e, Retry(r, e) \/ ReturnNone(r)
              PROVE  /\ pc'[r] \in {"load", "copy", "ready"}
                     /\ cursor' = cursor /\ got' = got
          BY <1>0, <4>1 DEF Retry, ReturnNone, SubGoto, TypeOK
        <4> QED
          BY <1>0, <2>1, <4>1 DEF LoadSeq, Overwritten, SubGoto, TypeOK
      <3> QED
        BY <1>3, <3>0, <3>1 DEF Pos, Attached
    <2>2. CASE ~(LoadSeq(r) \/ Overwritten(r))
      <3>1. Attached(r) /\ Attached(r)' /\ cursor' = cursor /\ got' = got
        BY <1>0, <1>12, <2>2 DEF ReplayDrained, ReplayFails, BeginReceive,
           LoadSlot, SubGoto, TypeOK, Attached
      <3> QED
        BY <1>3, <3>1 DEF Pos
    <2> QED
      BY <2>1, <2>2
  <1>13. CASE RejectOversize(r)
    BY <1>5, <1>13 DEF RejectOversize
  <1>14. CASE Deliver(r)
    <2>1. /\ pc[r] = "copy" /\ StoreCursor(r)
          /\ got'[r] = [seq |-> eff[r], from |-> cursor[r], words |-> buf[r]]
      BY <1>0, <1>14 DEF Deliver, CopyDone, TypeOK
    <2>2. Pos(r) = cursor[r] /\ Pos(r)' = eff[r] + 1
      BY <1>0, <2>1, StoreCursorEffect DEF Pos, Attached
    <2>3. Handed(r)' = eff[r]
      BY <1>0, <2>1, HandedNumber DEF Delivered
    <2>4. p' = [p EXCEPT ![r] = eff[r] + 1] /\ h' = [h EXCEPT ![r] = eff[r]]
      BY <1>1, <2>2, <2>3, ReaderLog
    <2>5. eff[r] \in Log!Receivable(p[r]) /\ p[r] # -1
      BY <1>0, <1>2, <2>1, <2>2, TakenReceivable
    <2> QED
      BY <1>1, <2>4, <2>5 DEF Log!Receive, Log!Off, Pos
  <1> QED
    BY <1>6, <1>7, <1>8, <1>9, <1>10, <1>11, <1>12, <1>13, <1>14
    DEF SubscriberStep, ConnectStep, HandshakeFails, CursorTooOld, ReceiveStep, Drop

LEMMA InitLog == Init => Log!Init
  <1> SUFFICES ASSUME Init PROVE Log!Init
    OBVIOUS
  <1>1. Published = 0
    BY DEF Init, Published, Greater
  <1>2. \A r \in Subs : ~Attached(r) /\ Handed(r) = -1
    BY DEF Init, Attached, Handed, Delivered, NoGot
  <1> QED
    BY <1>1, <1>2 DEF Log!Init, Log!Off, Log!Nothing

LEMMA NextLog == LogInv /\ LogInv' /\ [Next]_vars => [Log!Next]_(Log!vars)
  <1> SUFFICES ASSUME LogInv, LogInv', [Next]_vars
               PROVE  Log!Next \/ UNCHANGED Log!vars
    OBVIOUS
  <1>1. CASE PublisherStep \/ RestartStep
    BY <1>1, PublisherLog DEF Log!Next
  <1>2. ASSUME NEW r \in Subs, SubscriberStep(r)
        PROVE  Log!Next \/ UNCHANGED Log!vars
    BY <1>2, SubscriberLog DEF Log!Next
  <1>3. CASE UNCHANGED vars
    <2>1. Published' = Published
      BY <1>3 DEF vars, shared, pubvars, Published
    <2>2. NoTornDelivery /\ NoTornDelivery' /\ ~reused /\ ~reused'
      BY DEF LogInv, SeqlockInv, NumberingInv
    <2>3. \A r \in Subs : Pos(r)' = Pos(r) /\ Handed(r)' = Handed(r)
      BY <1>3, <2>2, SameHanded DEF vars, subvars, Pos, Attached
    <2> QED
      BY <2>1, <2>3, LogStutter
  <1> QED
    BY <1>1, <1>2, <1>3, StepCases

\* The ring, its seqlock, the cursor table, the restarts on a log and the
\* replays implement the broadcast log of module BroadcastLog, until a death
\* sends the numbering back, for every capacity, slot size and set of
\* subscribers and whatever a kill takes of a buffered log: every message
\* handed out is whole and was published, each reader gets increasing numbers
\* and none twice, and it misses one only under DropOldest, a whole ring
\* behind.
THEOREM RingImplementsLog ==
  ASSUME TSO, ErrorStarts
  PROVE  Spec => ImplementsLog
  <1> DEFINE I == TypeOK /\ (~reused => LogInv)
             A == ~reused' => Log!Next
  <1>1. Init => I /\ Log!Init
    BY InitType, InitLogInv, InitLog
  <1>2. I /\ [Next]_vars => I'
    BY NextType, NextLogInv, ReusedStays
  <1>3. I /\ I' /\ [Next]_vars => [A]_(Log!vars)
    BY NextLog, ReusedStays
  <1> QED
    BY <1>1, <1>2, <1>3, PTL DEF Spec, ImplementsLog

=============================================================================
