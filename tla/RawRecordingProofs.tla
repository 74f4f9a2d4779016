------------------------- MODULE RawRecordingProofs -------------------------
(***************************************************************************)
(* Proofs for RawRecording and ZeroCopyRecording, for any capacity, any    *)
(* share that cleanup() pops, any length of a round, any element, block    *)
(* and chunk size.  The recorder walks outside the gate; what protects it  *)
(* is the order of the timestamps.  The place it keeps in                  *)
(* m_next_timestamp_to_record splits the accepted elements into those      *)
(* recorded or too old and those still to come; its iterator is at that    *)
(* split, and cleanup() stays below it.                                    *)
(*                                                                         *)
(* The zero-copy recorder writes bytes at a pointer into the ring's        *)
(* memory.  The pointer stands for one unit u of the stream, the file ends *)
(* right before u, and the place in m_next_timestamp_to_record is not      *)
(* above the element that holds u: cleanup() stays below that element, and *)
(* since the buffer holds less than one lap of the memory, the units up to *)
(* the position taken for the newest element are those of the stream.      *)
(***************************************************************************)
EXTENDS ZeroCopyRecording, CleanupGateProofs, SequenceTheorems

Walking == {"leave", "walk", "write", "next"}

(* Timestamps grow in the order of acceptance.                             *)
OrderInv == /\ \A i, j \in 1..Len(stamps) : i < j => stamps[i] < stamps[j]
            /\ \A i \in 1..Len(stamps) : stamps[i] < next_ts

(* cleanup() runs with the gate shut, on a buffer that it will not empty.  *)
PopInv == /\ pop_pc # "off" <=> cleaner = "popping"
          /\ cleaner # "idle" => Size > 0
          /\ pop_pc # "off" => pops_left < Size
          /\ pop_pc = "pop" => pops_left > 0

(* The place of a recording: nothing yet, or the n elements from the one   *)
(* it started with are written and the place is behind them.               *)
Started(a) == /\ stamps[a] = rec_from
              /\ a + Len(recorded) <= Len(stamps) + 1
              /\ \A k \in 1..Len(recorded) : recorded[k] = stamps[a + k - 1]
              /\ m_next_timestamp_to_record =
                   IF Len(recorded) = 0 THEN rec_from ELSE stamps[a + Len(recorded) - 1] + 1

PlaceInv == /\ rec.pc \in {"off", "begin"} <=> ~m_recording
            /\ ~m_recording => rec_from = 0 /\ Len(recorded) = 0
            /\ rec.pc \in {"front", "store"} => m_next_timestamp_to_record = 0
            /\ m_recording =>
                 IF m_next_timestamp_to_record = 0 THEN rec_from = 0 /\ Len(recorded) = 0
                 ELSE rec_from # 0 /\ \E a \in 1..Len(stamps) : Started(a)

(* The iterator is at the place: what is before it is older.               *)
IterInv == /\ rec.pc \in {"leave", "walk", "write"} /\ rec.iter # NoIter =>
                /\ m_next_timestamp_to_record # 0
                /\ popped < rec.iter
                /\ \A j \in 1..Len(stamps) : stamps[j] >= m_next_timestamp_to_record <=> j >= rec.iter
           /\ rec.pc = "write" => rec.iter \in 1..Len(stamps) /\ rec.count < ChunkLimit
           /\ rec.pc = "next" => /\ rec.iter \in 1..Len(stamps)
                                 /\ m_next_timestamp_to_record = stamps[rec.iter] + 1
           /\ rec.pc \notin Walking => rec.iter = NoIter

(* What cleanup() has popped, and what it is about to pop, is too old for  *)
(* a recording or written; the comparison is up to date while the recorder *)
(* walks, and at worst as old as the front it has read before.             *)
Spent(i, from) == stamps[i] <= from \/ stamps[i] < m_next_timestamp_to_record
Popping(i) == i \in 1..popped \/ (pop_pc = "pop" /\ i = popped + 1)

SpentInv == /\ m_recording /\ rec_from # 0 =>
                 \A i \in 1..Len(stamps) : Popping(i) => Spent(i, rec_from)
            /\ rec.pc = "store" /\ rec.front # 0 =>
                 /\ \E a \in 1..Len(stamps) : stamps[a] = rec.front
                 /\ \A i \in 1..Len(stamps) : Popping(i) => stamps[i] <= rec.front
            /\ rec.pc \in Walking /\ pop_pc = "pop" => Front < m_next_timestamp_to_record

RRInv == GateInv /\ RRTypeOK /\ OrderInv /\ PopInv /\ PlaceInv /\ IterInv /\ SpentInv
-----------------------------------------------------------------------------
LEMMA Limits == Capacity \in Nat /\ ChunkLimit \in Nat /\ MaxTs \in Nat /\ MaxRecords \in Nat
<1>1. {Capacity, PopLimit, PopNum, PopDen, ChunkLimit, MaxTs, MaxRecords} \subseteq Nat
  BY RecordAssumption
<1> QED
  BY <1>1

(* The numbers the steps compare.                                          *)
LEMMA Numbers ==
  ASSUME RRTypeOK
  PROVE  /\ Len(stamps) \in Nat /\ popped \in Nat /\ popped <= Len(stamps)
         /\ \A i \in 1..Len(stamps) : stamps[i] \in Nat /\ stamps[i] > 0
         /\ m_next_timestamp_to_record \in Nat /\ next_ts \in Nat /\ rec_from \in Nat
         /\ rec.iter \in Nat /\ rec.count \in Nat /\ rec.front \in Nat
         /\ Len(recorded) \in Nat /\ pops_left \in Nat /\ Size \in Nat
<1>1. stamps \in Seq(1..MaxTs) /\ recorded \in Seq(1..MaxTs)
  BY DEF RRTypeOK
<1>2. Len(stamps) \in Nat /\ Len(recorded) \in Nat
  BY <1>1, LenProperties
<1>3. \A i \in 1..Len(stamps) : stamps[i] \in 1..MaxTs
  BY <1>1, ElementOfSeq
<1>4. \A i \in 1..Len(stamps) : stamps[i] \in Nat /\ stamps[i] > 0
  BY <1>3, RecordAssumption
<1>5. /\ popped \in Nat /\ popped <= Len(stamps) /\ pops_left \in Nat
      /\ m_next_timestamp_to_record \in Nat /\ next_ts \in Nat /\ rec_from \in Nat
  BY <1>2, RecordAssumption DEF RRTypeOK
<1>6. rec.iter \in Nat /\ rec.count \in Nat /\ rec.front \in Nat
  BY <1>2, RecordAssumption DEF RRTypeOK
<1> QED
  BY <1>2, <1>4, <1>5, <1>6 DEF Size

(* cleanup() takes less than there is: m_pop_size_pct is below 100%.       *)
LEMMA ShareIsLess ==
  ASSUME NEW n \in Nat, n > 0
  PROVE  (n * PopNum) \div PopDen \in Nat /\ (n * PopNum) \div PopDen < n
<1>1. PopNum \in Nat /\ PopDen \in Nat /\ PopNum < PopDen
  BY RecordAssumption
<1> DEFINE q == (n * PopNum) \div PopDen
<1>2. n * PopNum \in Nat /\ n * PopNum < n * PopDen
  BY <1>1
<1>3. q \in Nat /\ PopDen * q <= n * PopNum
  BY <1>1, <1>2
<1> HIDE DEF q
<1>4. q < n
  <2> SUFFICES ASSUME q >= n PROVE FALSE
    BY <1>3
  <2>1. PopDen * q >= PopDen * n
    BY <1>1, <1>3
  <2>2. PopDen * n = n * PopDen
    BY <1>1
  <2> QED
    BY <1>1, <1>2, <1>3, <2>1, <2>2
<1> QED
  BY <1>3, <1>4 DEF q

LEMMA ToPopIsLess ==
  ASSUME RRTypeOK, Size > 0
  PROVE  ToPop \in Nat /\ ToPop < Size
<1>1. Size \in Nat
  BY Numbers
<1> QED
  BY <1>1, ShareIsLess DEF ToPop

(* lower_bound() finds the split between what is older than the key and    *)
(* what is not, unless the key is older than the front.                    *)
LEMMA LowerBoundSplits ==
  ASSUME RRTypeOK, OrderInv, NEW k \in Nat, Size > 0, k >= Front
  PROVE  /\ LowerBound(k) \in popped + 1..Len(stamps) + 1
         /\ \A j \in 1..Len(stamps) : stamps[j] >= k <=> j >= LowerBound(k)
<1> DEFINE n == Len(stamps)
           Split(i) == /\ \A j \in popped + 1..i - 1 : stamps[j] < k
                       /\ i \in Held => stamps[i] >= k
           later == {j \in Held : stamps[j] >= k} \cup {n + 1}
<1>1. /\ n \in Nat /\ popped \in Nat /\ popped < n
      /\ \A i \in 1..n : stamps[i] \in Nat
  <2>1. n \in Nat /\ popped \in Nat /\ \A i \in 1..n : stamps[i] \in Nat
    BY Numbers
  <2>2. n - popped > 0
    BY DEF Size
  <2> QED
    BY <2>1, <2>2
<1>2. Held = popped + 1..n
  BY DEF Held
<1>3. \E i \in popped + 1..n + 1 : Split(i)
  <2>1. later \in SUBSET Nat /\ later # {}
    BY <1>1, <1>2
  <2>2. Min(later) \in later /\ \A j \in later : Min(later) <= j
    BY <2>1, MinOfSet
  <2>3. Min(later) \in popped + 1..n + 1
    BY <1>1, <1>2, <2>2
  <2>4. ASSUME NEW j \in popped + 1..Min(later) - 1 PROVE stamps[j] < k
    <3>1. j \in Held /\ j < Min(later) /\ j \in 1..n
      BY <1>1, <1>2, <2>3, <2>4
    <3>2. j \notin later
      BY <2>2, <2>3, <3>1
    <3> QED
      BY <1>1, <3>1, <3>2
  <2>5. Min(later) \in Held => stamps[Min(later)] >= k
    BY <1>1, <1>2, <2>2
  <2> QED
    BY <2>3, <2>4, <2>5
<1>4. LowerBound(k) = CHOOSE i \in popped + 1..n + 1 : Split(i)
  <2>1. ~(Size = 0 \/ k < Front)
    <3>1. Front \in Nat /\ Size \in Nat
      BY <1>1, Numbers DEF Front
    <3> QED
      BY <3>1
  <2> QED
    BY <2>1 DEF LowerBound
<1>5. LowerBound(k) \in popped + 1..n + 1 /\ Split(LowerBound(k))
  BY <1>3, <1>4
<1>6. PICK i \in popped + 1..n + 1 : i = LowerBound(k) /\ Split(i)
  BY <1>5
<1>7. ASSUME NEW j \in 1..n PROVE stamps[j] >= k <=> j >= i
  <2>1. CASE j >= i
    <3>1. i \in Held /\ i \in 1..n
      BY <1>1, <1>2, <2>1
    <3>2. stamps[i] >= k /\ (i = j \/ stamps[i] < stamps[j])
      BY <1>1, <1>6, <2>1, <3>1 DEF OrderInv
    <3> QED
      BY <1>1, <2>1, <3>1, <3>2
  <2>2. CASE j < i /\ j > popped
    BY <1>1, <1>6, <2>2
  <2>3. CASE j <= popped
    <3>1. stamps[j] < stamps[popped + 1]
      BY <1>1, <2>3 DEF OrderInv
    <3> QED
      BY <1>1, <2>3, <3>1 DEF Front
  <2> QED
    BY <1>1, <2>1, <2>2, <2>3
<1> QED
  BY <1>6, <1>7
-----------------------------------------------------------------------------
LEMMA UsesGate == [RRNext]_recording_vars => [GateNext]_gate_vars
<1> SUFFICES ASSUME [RRNext]_recording_vars PROVE [GateNext]_gate_vars
  OBVIOUS
<1>1. CASE Receive \/ Cleanup \/ Wakeup
  BY <1>1 DEF Receive, Cleanup, CheckOver, WakeCleaner, Compare, PopFront, FinishCleanup, Wakeup,
              GateNext, CleanerStep
<1>2. CASE OtherReader
  BY <1>2 DEF OtherReader, GateNext
<1>3. CASE Record \/ RecorderStep
  BY <1>3, RecordAssumption
     DEF Record, RecorderStep, RecordBegin, Round, ReadFront, StoreFront, PassGate, Lookup, LeaveGate,
         Walk, WriteChunk, NextChunk, RecordEnd, GateNext, ReaderStep
<1> QED
  BY <1>1, <1>2, <1>3 DEF RRNext, Environment, recording_vars

LEMMA RRInvInit == RRInit => RRInv
<1> SUFFICES ASSUME RRInit PROVE RRInv
  OBVIOUS
<1>1. GateInv
  BY GateInvInit DEF RRInit
<1>2. stamps = <<>> /\ recorded = <<>> /\ Len(stamps) = 0 /\ Len(recorded) = 0
  BY DEF RRInit
<1>3. RRTypeOK
  <2>1. stamps \in Seq(1..MaxTs) /\ recorded \in Seq(1..MaxTs)
    BY <1>2, EmptySeq
  <2>2. rec \in [pc : RecPlaces, front : 0..MaxTs, iter : 0..Len(stamps) + 1, count : 0..ChunkLimit]
    BY <1>2, RecordAssumption DEF RRInit, Off, RecAt, RecPlaces, NoIter
  <2>3. m_recording \in BOOLEAN
    BY Zenon DEF RRInit
  <2> QED
    BY <1>2, <2>1, <2>2, <2>3, RecordAssumption DEF RRInit, RRTypeOK, Never
<1>4. rec.pc = "off" /\ rec.iter = NoIter
  BY DEF RRInit, Off, RecAt
<1> QED
  BY <1>1, <1>2, <1>3, <1>4
  DEF RRInit, GateInit, RRInv, OrderInv, PopInv, PlaceInv, IterInv, SpentInv, Walking
-----------------------------------------------------------------------------
(* What each part of the invariant depends on.                             *)
LEMMA SameOrder == OrderInv /\ UNCHANGED <<stamps, next_ts>> => OrderInv'
  BY DEF OrderInv

LEMMA SamePop ==
  PopInv /\ UNCHANGED <<stamps, popped, cleaner, pops_left, pop_pc>> => PopInv'
  BY DEF PopInv, Size

LEMMA SamePlace ==
  PlaceInv /\ UNCHANGED <<stamps, rec, m_next_timestamp_to_record, m_recording, recorded, rec_from>>
    => PlaceInv'
  BY DEF PlaceInv, Started

LEMMA SameIter ==
  IterInv /\ UNCHANGED <<stamps, popped, rec, m_next_timestamp_to_record>> => IterInv'
  BY DEF IterInv

LEMMA SameSpent ==
  SpentInv /\ UNCHANGED <<stamps, popped, pop_pc, rec, m_next_timestamp_to_record, m_recording, rec_from>>
    => SpentInv'
  BY DEF SpentInv, Spent, Popping, Front

(* The cleanup goes on in its loop; it has not decided to pop anything new.*)
LEMMA SpentWithLess ==
  ASSUME SpentInv, pop_pc' # "pop",
         UNCHANGED <<stamps, popped, rec, m_next_timestamp_to_record, m_recording, rec_from>>
  PROVE  SpentInv'
  BY DEF SpentInv, Spent, Popping

(* A step of the recorder that moves only its program counter.             *)
LEMMA PlaceMoves ==
  ASSUME PlaceInv, UNCHANGED <<stamps, m_next_timestamp_to_record, m_recording, recorded, rec_from>>,
         m_recording, rec'.pc \notin {"off", "begin", "front", "store"}
  PROVE  PlaceInv'
  BY DEF PlaceInv, Started

(* A step outside the recorder, the buffer and cleanup()'s loop.           *)
LEMMA OutsideStep ==
  ASSUME RRInv, GateInv', UNCHANGED <<cleaner, lb_vars, pop_vars, rec_vars>>
  PROVE  RRInv'
<1>1. RRTypeOK'
  BY DEF RRInv, RRTypeOK, lb_vars, pop_vars, rec_vars
<1> QED
  BY <1>1, SameOrder, SamePop, SamePlace, SameIter, SameSpent DEF RRInv, lb_vars, pop_vars, rec_vars

(* The consumer writes an element: the place is not behind it.             *)
LEMMA PlaceBehind ==
  ASSUME RRInv, m_recording
  PROVE  m_next_timestamp_to_record <= next_ts
<1>1. CASE m_next_timestamp_to_record = 0
  BY <1>1, Numbers DEF RRInv
<1>2. CASE m_next_timestamp_to_record # 0
  <2>1. PICK a \in 1..Len(stamps) : Started(a)
    BY <1>2 DEF RRInv, PlaceInv
  <2>2. /\ Len(stamps) \in Nat /\ Len(recorded) \in Nat /\ next_ts \in Nat
        /\ \A i \in 1..Len(stamps) : stamps[i] \in Nat /\ stamps[i] < next_ts
    BY Numbers DEF RRInv, OrderInv
  <2>3. CASE Len(recorded) = 0
    BY <2>1, <2>2, <2>3 DEF Started
  <2>4. CASE Len(recorded) # 0
    <3>1. a + Len(recorded) - 1 \in 1..Len(stamps)
      BY <2>1, <2>2, <2>4 DEF Started
    <3>2. m_next_timestamp_to_record = stamps[a + Len(recorded) - 1] + 1
      BY <2>1, <2>4 DEF Started
    <3> QED
      BY <2>2, <3>1, <3>2
  <2> QED
    BY <2>3, <2>4
<1> QED
  BY <1>1, <1>2

LEMMA ReceiveStep ==
  ASSUME RRInv, GateInv', Receive
  PROVE  RRInv'
<1> USE DEF RRInv
<1>1. UNCHANGED <<cleaner, popped, pop_vars, rec_vars>>
  BY DEF Receive, gate_vars
<1>2. CASE UNCHANGED stamps
  <2>1. next_ts' \in 1..MaxTs + 1 /\ next_ts' = next_ts + 1 /\ next_ts \in Nat
    <3>1. next_ts \in 1..MaxTs + 1 /\ next_ts <= MaxTs /\ next_ts' = next_ts + 1
      BY DEF Receive, RRTypeOK
    <3> QED
      BY <3>1, Limits
  <2>2. RRTypeOK'
    BY <1>1, <1>2, <2>1 DEF RRTypeOK, pop_vars, rec_vars
  <2>3. \A i \in 1..Len(stamps) : stamps[i] \in Nat
    BY Numbers
  <2>4. OrderInv'
    BY <1>2, <2>1, <2>3 DEF OrderInv
  <2> QED
    BY <1>1, <1>2, <2>2, <2>4, SamePop, SamePlace, SameIter, SameSpent DEF pop_vars, rec_vars
<1>3. CASE stamps' = Append(stamps, next_ts)
  <2> DEFINE n == Len(stamps)
  <2>1. stamps \in Seq(1..MaxTs) /\ next_ts \in 1..MaxTs /\ next_ts' = next_ts + 1
    <3>1. stamps \in Seq(1..MaxTs) /\ next_ts \in 1..MaxTs + 1 /\ next_ts <= MaxTs /\ next_ts' = next_ts + 1
      BY DEF Receive, RRTypeOK
    <3> QED
      BY <3>1, Limits
  <2>2. /\ stamps' \in Seq(1..MaxTs) /\ Len(stamps)' = n + 1
        /\ \A i \in 1..n : stamps'[i] = stamps[i]
        /\ stamps'[n + 1] = next_ts
    BY <1>3, <2>1, AppendProperties
  <2>3. /\ n \in Nat /\ popped \in Nat /\ popped <= n
        /\ \A i \in 1..n : stamps[i] \in Nat /\ stamps[i] < next_ts
        /\ next_ts \in Nat
    BY Numbers DEF OrderInv
  <2> HIDE DEF n
  <2>4. RRTypeOK'
    <3>1. rec' \in [pc : RecPlaces, front : 0..MaxTs, iter : 0..n + 2, count : 0..ChunkLimit]
      BY <1>1, <2>3 DEF RRTypeOK, rec_vars, n
    <3>2. popped' \in 0..Len(stamps)' /\ next_ts' \in 1..MaxTs + 1 /\ n + 2 = Len(stamps)' + 1
      BY <1>1, <2>1, <2>2, <2>3, RecordAssumption
    <3>3. rec' \in [pc : RecPlaces, front : 0..MaxTs, iter : 0..Len(stamps)' + 1, count : 0..ChunkLimit]
      BY <3>1, <3>2
    <3> QED
      BY <1>1, <2>2, <3>2, <3>3 DEF RRTypeOK, pop_vars, rec_vars
  <2>5. OrderInv'
    <3>1. ASSUME NEW i \in 1..n + 1, NEW j \in 1..n + 1, i < j PROVE stamps'[i] < stamps'[j]
      <4>1. CASE j \in 1..n
        BY <2>2, <2>3, <3>1, <4>1 DEF OrderInv, n
      <4>2. CASE j = n + 1
        BY <2>2, <2>3, <3>1, <4>2
      <4> QED
        BY <2>3, <4>1, <4>2
    <3>2. ASSUME NEW i \in 1..n + 1 PROVE stamps'[i] < next_ts'
      BY <2>1, <2>2, <2>3
    <3> QED
      BY <2>2, <3>1, <3>2 DEF OrderInv
  <2>6. PopInv'
    BY <1>1, <2>2, <2>3, Numbers DEF PopInv, Size, pop_vars, n
  <2>7. PlaceInv'
    <3>1. ASSUME NEW a \in 1..n, Started(a) PROVE Started(a)'
      <4>1. Len(recorded) \in Nat /\ a + Len(recorded) <= n + 1
        BY <3>1, Numbers DEF Started, n
      <4>2. \A k \in 1..Len(recorded) : recorded[k] = stamps'[a + k - 1]
        BY <2>2, <2>3, <3>1, <4>1 DEF Started
      <4>3. Len(recorded) # 0 => stamps'[a + Len(recorded) - 1] = stamps[a + Len(recorded) - 1]
        BY <2>2, <2>3, <4>1
      <4> QED
        BY <1>1, <2>2, <2>3, <3>1, <4>1, <4>2, <4>3 DEF Started, rec_vars
    <3>2. 1..n \subseteq 1..Len(stamps)'
      BY <2>2, <2>3
    <3> QED
      BY <1>1, <3>1, <3>2 DEF PlaceInv, rec_vars, n
  <2>8. IterInv'
    <3>1. ASSUME rec.pc \in {"leave", "walk", "write"}, rec.iter # NoIter, NEW j \in 1..n + 1
          PROVE  stamps'[j] >= m_next_timestamp_to_record <=> j >= rec.iter
      <4>1. rec.iter \in Nat /\ rec.iter <= n + 1 /\ m_next_timestamp_to_record <= next_ts
        BY <2>3, <3>1, PlaceBehind DEF RRTypeOK, PlaceInv, n
      <4>2. CASE j \in 1..n
        BY <2>2, <3>1, <4>2 DEF IterInv, n
      <4>3. CASE j = n + 1
        BY <2>2, <4>1, <4>3
      <4> QED
        BY <2>3, <4>2, <4>3
    <3>2. rec.pc \in {"write", "next"} => rec.iter \in 1..n + 1 /\ stamps'[rec.iter] = stamps[rec.iter]
      BY <2>2, <2>3 DEF IterInv, n
    <3> QED
      BY <1>1, <2>2, <3>1, <3>2 DEF IterInv, rec_vars
  <2>9. SpentInv'
    <3>1. ASSUME NEW i \in 1..n + 1, Popping(i) PROVE i \in 1..n /\ stamps'[i] = stamps[i]
      BY <2>2, <2>3, <3>1 DEF Popping, PopInv, Size, n
    <3>2. \A i \in 1..n + 1 : Popping(i)' <=> Popping(i)
      BY <1>1 DEF Popping, pop_vars
    <3>3. pop_pc = "pop" => Front' = Front
      BY <1>1, <2>2, <2>3 DEF PopInv, Size, Front, n
    <3>4. ASSUME m_recording, rec_from # 0, NEW i \in 1..n + 1, Popping(i) PROVE Spent(i, rec_from)'
      <4>1. Spent(i, rec_from)
        BY <3>1, <3>4 DEF SpentInv, n
      <4> QED
        BY <1>1, <3>1, <3>4, <4>1 DEF Spent, rec_vars
    <3>5. m_recording /\ rec_from # 0 => \A i \in 1..n + 1 : Popping(i)' => Spent(i, rec_from)'
      BY <3>2, <3>4
    <3>6. rec.pc = "store" /\ rec.front # 0 =>
            /\ \E a \in 1..n + 1 : stamps'[a] = rec.front
            /\ \A i \in 1..n + 1 : Popping(i)' => stamps'[i] <= rec.front
      BY <2>2, <2>3, <3>1, <3>2 DEF SpentInv, n
    <3> QED
      BY <1>1, <2>2, <3>3, <3>5, <3>6 DEF SpentInv, pop_vars, rec_vars
  <2> QED
    BY <2>4, <2>5, <2>6, <2>7, <2>8, <2>9
<1> QED
  BY <1>2, <1>3 DEF Receive

(* cleanup() begins, or the thread waits for the readers.                  *)
LEMMA BeginStep ==
  ASSUME RRInv, GateInv', cleaner # "popping", cleaner' # "idle", Size > 0, BeginCleanup,
         UNCHANGED <<lb_vars, rec_vars>>
  PROVE  RRInv'
<1> USE DEF RRInv
<1>1. pop_pc = "off" /\ Size' = Size
  BY DEF PopInv, Size, lb_vars
<1>2. ToPop \in Nat /\ ToPop < Size
  BY ToPopIsLess
<1>3. /\ pop_pc' # "pop" /\ pop_pc' \in {"off", "compare"} /\ pops_left' \in Nat
      /\ pop_pc' # "off" <=> cleaner' = "popping"
      /\ pop_pc' # "off" => pops_left' < Size
  BY <1>1, <1>2 DEF BeginCleanup, pop_vars, RRTypeOK
<1>4. RRTypeOK'
  BY <1>3 DEF RRTypeOK, lb_vars, rec_vars
<1>5. PopInv'
  BY <1>1, <1>3 DEF PopInv
<1>6. SpentInv'
  BY <1>3, SpentWithLess DEF lb_vars, rec_vars
<1> QED
  BY <1>4, <1>5, <1>6, SameOrder, SamePlace, SameIter DEF lb_vars, rec_vars

LEMMA CleanupStep ==
  ASSUME RRInv, GateInv', Cleanup
  PROVE  RRInv'
<1> USE DEF RRInv
<1>1. CASE CheckOver
  <2>1. cleaner = "idle" /\ cleaner' # "idle" /\ BeginCleanup /\ UNCHANGED <<lb_vars, rec_vars>>
    BY <1>1 DEF CheckOver, CleanupCheck, AwaitReaders
  <2>2. Size > 0
    BY <1>1, Numbers, RecordAssumption DEF CheckOver
  <2> QED
    BY <2>1, <2>2, BeginStep
<1>2. CASE WakeCleaner
  <2>1. cleaner = "waiting" /\ cleaner' # "idle" /\ BeginCleanup /\ UNCHANGED <<lb_vars, rec_vars>>
    BY <1>2 DEF WakeCleaner, CleanupWake, AwaitReaders
  <2>2. Size > 0
    BY <2>1 DEF PopInv
  <2> QED
    BY <2>1, <2>2, BeginStep
<1>3. CASE Compare
  <2>1. UNCHANGED <<cleaner, lb_vars, rec_vars>> /\ pop_pc = "compare" /\ pops_left > 0
    BY <1>3 DEF Compare, gate_vars
  <2>2. Size' = Size /\ pops_left \in Nat
    BY <2>1, Numbers DEF Size, lb_vars
  <2>3. /\ pop_pc' \in {"compare", "pop"} /\ pops_left' \in Nat /\ pops_left' <= pops_left
        /\ pop_pc' = "pop" => MayPop /\ pops_left' > 0
    BY <1>3, <2>1, <2>2 DEF Compare
  <2>4. RRTypeOK'
    BY <2>1, <2>3 DEF RRTypeOK, lb_vars, rec_vars
  <2>5. PopInv'
    BY <2>1, <2>2, <2>3, Numbers DEF PopInv
  <2>6. SpentInv'
    <3>1. CASE pop_pc' # "pop"
      BY <2>1, <3>1, SpentWithLess DEF lb_vars, rec_vars
    <3>2. CASE pop_pc' = "pop"
      <4>1. Front < m_next_timestamp_to_record /\ Front = stamps[popped + 1]
        BY <2>3, <3>2 DEF MayPop, Front
      <4>2. /\ popped + 1 \in 1..Len(stamps) /\ stamps[popped + 1] \in Nat
            /\ m_next_timestamp_to_record \in Nat /\ popped \in Nat
        <5>1. /\ Len(stamps) \in Nat /\ popped \in Nat /\ m_next_timestamp_to_record \in Nat
              /\ \A i \in 1..Len(stamps) : stamps[i] \in Nat
          BY Numbers
        <5>2. Len(stamps) - popped > 0
          BY <2>1, <2>2 DEF PopInv, Size
        <5>3. popped + 1 \in 1..Len(stamps)
          BY <5>1, <5>2
        <5> QED
          BY <5>1, <5>3
      <4>3. ASSUME m_recording, rec_from # 0, NEW i \in 1..Len(stamps), Popping(i)'
            PROVE  Spent(i, rec_from)'
        <5>1. CASE i \in 1..popped
          <6>1. Spent(i, rec_from)
            BY <4>3, <5>1 DEF SpentInv, Popping
          <6> QED
            BY <2>1, <6>1 DEF Spent, lb_vars, rec_vars
        <5>2. CASE i = popped + 1
          BY <2>1, <4>1, <5>2 DEF Spent, lb_vars, rec_vars
        <5> QED
          BY <2>1, <4>3, <5>1, <5>2 DEF Popping, lb_vars
      <4>4. rec.pc # "store"
        BY <4>1, <4>2 DEF PlaceInv
      <4> QED
        BY <2>1, <4>1, <4>3, <4>4 DEF SpentInv, lb_vars, rec_vars, Front
    <3> QED
      BY <3>1, <3>2
  <2> QED
    BY <2>1, <2>4, <2>5, <2>6, SameOrder, SamePlace, SameIter DEF lb_vars, rec_vars
<1>4. CASE PopFront
  <2>1. /\ UNCHANGED <<cleaner, stamps, next_ts, rec_vars>> /\ pop_pc = "pop" /\ pop_pc' = "compare"
        /\ popped' = popped + 1 /\ pops_left' = pops_left - 1
    BY <1>4 DEF PopFront, gate_vars
  <2>2. /\ pops_left \in Nat /\ pops_left > 0 /\ pops_left < Size /\ Size = Len(stamps) - popped
        /\ popped \in Nat /\ Len(stamps) \in Nat /\ cleaner = "popping"
    BY <2>1, Numbers DEF PopInv, Size
  <2>3. Size' = Size - 1 /\ popped + 1 \in 1..Len(stamps)
    BY <2>1, <2>2 DEF Size
  <2>4. RRTypeOK'
    <3>1. popped' \in 0..Len(stamps) /\ pops_left' \in Nat
      BY <2>1, <2>2, <2>3
    <3> QED
      BY <2>1, <3>1 DEF RRTypeOK, rec_vars
  <2>5. PopInv'
    BY <2>1, <2>2, <2>3 DEF PopInv
  <2>6. IterInv'
    <3>1. ASSUME rec.pc \in {"leave", "walk", "write"}, rec.iter # NoIter PROVE popped + 1 < rec.iter
      <4>1. stamps[popped + 1] < m_next_timestamp_to_record
        BY <2>1, <3>1 DEF SpentInv, Walking, Front
      <4>2. stamps[popped + 1] \in Nat /\ m_next_timestamp_to_record \in Nat /\ rec.iter \in Nat
        BY <2>3, Numbers
      <4>3. ~(popped + 1 >= rec.iter)
        BY <2>3, <3>1, <4>1, <4>2 DEF IterInv
      <4> QED
        BY <2>2, <4>2, <4>3
    <3> QED
      BY <2>1, <3>1 DEF IterInv, rec_vars
  <2>7. SpentInv'
    <3>1. \A i \in 1..Len(stamps) : Popping(i)' => Popping(i)
      BY <2>1, <2>2 DEF Popping
    <3>2. \A i \in 1..Len(stamps) : Spent(i, rec_from)' <=> Spent(i, rec_from)
      BY <2>1 DEF Spent, rec_vars
    <3> QED
      BY <2>1, <3>1, <3>2 DEF SpentInv, rec_vars
  <2> QED
    BY <2>1, <2>4, <2>5, <2>6, <2>7, SameOrder, SamePlace DEF rec_vars
<1>5. CASE FinishCleanup
  <2>1. UNCHANGED <<lb_vars, rec_vars, pops_left>> /\ pop_pc' = "off" /\ cleaner' = "idle"
    BY <1>5 DEF FinishCleanup, CleanupDone
  <2>2. RRTypeOK'
    BY <2>1 DEF RRTypeOK, lb_vars, rec_vars
  <2>3. PopInv'
    BY <2>1 DEF PopInv
  <2> QED
    BY <2>1, <2>2, <2>3, SpentWithLess, SameOrder, SamePlace, SameIter DEF lb_vars, rec_vars
<1> QED
  BY <1>1, <1>2, <1>3, <1>4, <1>5 DEF Cleanup
-----------------------------------------------------------------------------
(* A step of the recorder that keeps its place m_next_timestamp_to_record. *)
LEMMA RecorderMoves ==
  ASSUME RRInv, GateInv',
         UNCHANGED <<cleaner, lb_vars, pop_vars, m_next_timestamp_to_record, m_recording, recorded,
                     rec_from, records>>,
         rec' \in [pc : RecPlaces, front : 0..MaxTs, iter : 0..Len(stamps) + 1, count : 0..ChunkLimit],
         PlaceInv', IterInv', SpentInv'
  PROVE  RRInv'
<1>1. RRTypeOK'
  BY DEF RRInv, RRTypeOK, lb_vars, pop_vars
<1> QED
  BY <1>1, SameOrder, SamePop DEF RRInv, lb_vars, pop_vars

(* The recorder is not looking at the front and has not begun to walk: no  *)
(* pop concerns it but those of its recording.                             *)
LEMMA SpentAtRest ==
  ASSUME SpentInv, rec'.pc \notin Walking, rec'.pc # "store",
         UNCHANGED <<stamps, popped, pop_pc, m_next_timestamp_to_record, m_recording, rec_from>>
  PROVE  SpentInv'
  BY DEF SpentInv, Spent, Popping

(* It goes on walking.                                                     *)
LEMMA SpentWalking ==
  ASSUME SpentInv, rec.pc \in Walking, rec'.pc # "store",
         UNCHANGED <<stamps, popped, pop_pc, m_next_timestamp_to_record, m_recording, rec_from>>
  PROVE  SpentInv'
  BY DEF SpentInv, Spent, Popping, Front

LEMMA RecordStep ==
  ASSUME RRInv, GateInv', Record
  PROVE  RRInv'
<1> USE DEF RRInv
<1>1. /\ UNCHANGED <<cleaner, lb_vars, pop_vars, m_next_timestamp_to_record, m_recording, recorded, rec_from>>
      /\ rec.pc = "off" /\ rec' = [rec EXCEPT !.pc = "begin"]
      /\ records < MaxRecords /\ records' = records + 1
  BY DEF Record, Go, gate_vars
<1>2. records' \in 0..MaxRecords
  <2>1. records \in 0..MaxRecords /\ MaxRecords \in Nat
    BY RecordAssumption DEF RRTypeOK
  <2> QED
    BY <1>1, <2>1
<1>3. /\ rec' \in [pc : RecPlaces, front : 0..MaxTs, iter : 0..Len(stamps) + 1, count : 0..ChunkLimit]
      /\ rec'.pc = "begin" /\ rec'.iter = rec.iter
  BY <1>1 DEF RRTypeOK, RecPlaces
<1>4. RRTypeOK'
  BY <1>1, <1>3, <1>2 DEF RRTypeOK, lb_vars, pop_vars
<1>5. PlaceInv'
  BY <1>1, <1>3 DEF PlaceInv, lb_vars
<1>6. IterInv'
  BY <1>1, <1>3 DEF IterInv, Walking
<1>7. SpentInv'
  BY <1>1, <1>3, SpentAtRest DEF Walking, lb_vars, pop_vars
<1> QED
  BY <1>1, <1>4, <1>5, <1>6, <1>7, SameOrder, SamePop DEF lb_vars, pop_vars

(* The recording begins and ends.                                          *)
LEMMA RecordBeginEndStep ==
  ASSUME RRInv, GateInv', RecordBegin \/ RecordEnd
  PROVE  RRInv'
<1> USE DEF RRInv
<1>1. UNCHANGED <<cleaner, lb_vars, pop_vars, records>>
  BY DEF RecordBegin, RecordEnd, gate_vars
<1>2. CASE RecordBegin
  <2>1. /\ rec.pc = "begin" /\ rec' = [rec EXCEPT !.pc = "loop"] /\ UNCHANGED <<recorded, rec_from>>
        /\ m_recording' = TRUE /\ m_next_timestamp_to_record' = 0
    BY <1>2 DEF RecordBegin, Go
  <2>2. /\ rec' \in [pc : RecPlaces, front : 0..MaxTs, iter : 0..Len(stamps) + 1, count : 0..ChunkLimit]
        /\ rec'.pc = "loop" /\ rec'.iter = rec.iter
    BY <2>1 DEF RRTypeOK, RecPlaces
  <2>3. m_recording' \in BOOLEAN
    BY <2>1, Zenon
  <2>4. RRTypeOK'
    <3>1. m_next_timestamp_to_record' \in 0..MaxTs + 1
      BY <2>1, RecordAssumption
    <3> QED
      BY <1>1, <2>1, <2>2, <2>3, <3>1 DEF RRTypeOK, lb_vars, pop_vars
  <2>5. rec_from = 0 /\ Len(recorded) = 0
    BY <2>1 DEF PlaceInv
  <2>6. PlaceInv'
    BY <2>1, <2>2, <2>5 DEF PlaceInv
  <2>7. IterInv'
    BY <2>1, <2>2 DEF IterInv, Walking
  <2>8. SpentInv'
    BY <2>1, <2>2, <2>5 DEF SpentInv, Walking
  <2> QED
    BY <1>1, <2>4, <2>6, <2>7, <2>8, SameOrder, SamePop DEF lb_vars, pop_vars
<1>3. CASE RecordEnd
  <2>1. /\ rec' = Off /\ recorded' = <<>> /\ rec_from' = 0
        /\ m_recording' = FALSE /\ m_next_timestamp_to_record' = Never
    BY <1>3 DEF RecordEnd
  <2>2. /\ rec' \in [pc : RecPlaces, front : 0..MaxTs, iter : 0..Len(stamps) + 1, count : 0..ChunkLimit]
        /\ rec'.pc = "off" /\ rec'.iter = NoIter
    BY <2>1, Numbers, RecordAssumption DEF Off, RecAt, RecPlaces, NoIter
  <2>3. m_recording' \in BOOLEAN
    BY <2>1, Zenon
  <2>4. recorded' \in Seq(1..MaxTs) /\ Len(recorded)' = 0
    BY <2>1
  <2>5. RRTypeOK'
    <3>1. m_next_timestamp_to_record' \in 0..MaxTs + 1 /\ rec_from' \in 0..MaxTs
      BY <2>1, RecordAssumption DEF Never
    <3> QED
      BY <1>1, <2>2, <2>3, <2>4, <3>1 DEF RRTypeOK, lb_vars, pop_vars
  <2>6. PlaceInv'
    BY <2>1, <2>2, <2>4 DEF PlaceInv
  <2>7. IterInv'
    BY <2>2 DEF IterInv, Walking
  <2>8. SpentInv'
    BY <2>1, <2>2 DEF SpentInv, Walking
  <2> QED
    BY <1>1, <2>5, <2>6, <2>7, <2>8, SameOrder, SamePop DEF lb_vars, pop_vars
<1> QED
  BY <1>2, <1>3

LEMMA RoundStep ==
  ASSUME RRInv, GateInv', Round
  PROVE  RRInv'
<1> USE DEF RRInv
<1> DEFINE pc == IF m_next_timestamp_to_record = 0 THEN "front" ELSE "gate"
<1>1. /\ UNCHANGED <<cleaner, lb_vars, pop_vars, m_next_timestamp_to_record, m_recording, recorded,
                     rec_from, records>>
      /\ rec.pc = "loop" /\ rec' = [rec EXCEPT !.pc = pc]
  BY DEF Round, Go, gate_vars
<1>2. /\ rec' \in [pc : RecPlaces, front : 0..MaxTs, iter : 0..Len(stamps) + 1, count : 0..ChunkLimit]
      /\ rec'.pc = pc /\ rec'.iter = rec.iter
  BY <1>1 DEF RRTypeOK, RecPlaces
<1>3. PlaceInv'
  <2>1. m_recording
    BY <1>1 DEF PlaceInv
  <2>2. CASE m_next_timestamp_to_record = 0
    BY <1>1, <1>2, <2>1, <2>2 DEF PlaceInv
  <2>3. CASE m_next_timestamp_to_record # 0
    BY <1>1, <1>2, <2>1, <2>3, PlaceMoves DEF lb_vars
  <2> QED
    BY <2>2, <2>3
<1>4. IterInv'
  BY <1>1, <1>2 DEF IterInv, Walking
<1>5. SpentInv'
  BY <1>1, <1>2, SpentAtRest DEF Walking, lb_vars, pop_vars
<1> QED
  BY <1>1, <1>2, <1>3, <1>4, <1>5, RecorderMoves

(* front() is read outside the gate: what cleanup() pops next is no newer. *)
LEMMA ReadFrontStep ==
  ASSUME RRInv, GateInv', ReadFront
  PROVE  RRInv'
<1> USE DEF RRInv
<1> DEFINE f == IF Size = 0 THEN 0 ELSE Front
<1>1. /\ UNCHANGED <<cleaner, lb_vars, pop_vars, m_next_timestamp_to_record, m_recording, recorded,
                     rec_from, records>>
      /\ rec.pc = "front" /\ rec' = RecAt("store", f, NoIter, 0)
  BY DEF ReadFront, gate_vars
<1>2. /\ Len(stamps) \in Nat /\ popped \in Nat /\ Size = Len(stamps) - popped /\ Size \in Nat
      /\ \A i \in 1..Len(stamps) : stamps[i] \in Nat
  BY Numbers DEF Size
<1>3. Size # 0 => popped + 1 \in 1..Len(stamps) /\ f = stamps[popped + 1]
  BY <1>2 DEF Front
<1>4. f \in 0..MaxTs
  <2>1. stamps \in Seq(1..MaxTs)
    BY DEF RRTypeOK
  <2>2. Size # 0 => stamps[popped + 1] \in 1..MaxTs
    BY <1>3, <2>1, ElementOfSeq
  <2> QED
    BY <1>3, <2>2, RecordAssumption
<1> HIDE DEF f
<1>5. /\ rec' \in [pc : RecPlaces, front : 0..MaxTs, iter : 0..Len(stamps) + 1, count : 0..ChunkLimit]
      /\ rec'.pc = "store" /\ rec'.front = f /\ rec'.iter = NoIter
  BY <1>1, <1>2, <1>4, RecordAssumption DEF RecAt, RecPlaces, NoIter
<1>6. PlaceInv'
  BY <1>1, <1>5 DEF PlaceInv
<1>7. IterInv'
  BY <1>5 DEF IterInv, Walking
<1>8. SpentInv'
  <2>1. ~(m_recording /\ rec_from # 0)
    BY <1>1 DEF PlaceInv
  <2>2. ASSUME f # 0
        PROVE  /\ \E a \in 1..Len(stamps) : stamps[a] = f
               /\ \A i \in 1..Len(stamps) : Popping(i)' => stamps[i] <= f
    <3>1. Size # 0
      BY <2>2 DEF f
    <3>2. ASSUME NEW i \in 1..Len(stamps), Popping(i)' PROVE stamps[i] <= f
      <4>1. i <= popped + 1
        BY <1>1, <1>2, <3>2 DEF Popping, lb_vars, pop_vars
      <4>2. i = popped + 1 \/ stamps[i] < stamps[popped + 1]
        BY <1>2, <1>3, <3>1, <4>1 DEF OrderInv
      <4> QED
        BY <1>2, <1>3, <3>1, <4>2
    <3> QED
      BY <1>3, <3>1, <3>2
  <2> QED
    BY <1>1, <1>5, <2>1, <2>2 DEF SpentInv, Walking, lb_vars
<1> QED
  BY <1>1, <1>5, <1>6, <1>7, <1>8, RecorderMoves

(* Its timestamp is stored: the recording starts there.                    *)
LEMMA StoreFrontStep ==
  ASSUME RRInv, GateInv', StoreFront
  PROVE  RRInv'
<1> USE DEF RRInv
<1>1. /\ UNCHANGED <<cleaner, lb_vars, pop_vars, m_recording, recorded, records>>
      /\ rec.pc = "store" /\ rec' = RecAt("gate", 0, NoIter, 0)
      /\ m_next_timestamp_to_record' = rec.front /\ rec_from' = rec.front
  BY DEF StoreFront, gate_vars
<1>2. /\ rec' \in [pc : RecPlaces, front : 0..MaxTs, iter : 0..Len(stamps) + 1, count : 0..ChunkLimit]
      /\ rec'.pc = "gate" /\ rec'.iter = NoIter
  BY <1>1, Numbers, RecordAssumption DEF RecAt, RecPlaces, NoIter
<1>3. RRTypeOK'
  <2>1. rec.front \in 0..MaxTs /\ rec.front \in 0..MaxTs + 1
    <3>1. rec.front \in 0..MaxTs
      BY DEF RRTypeOK
    <3> QED
      BY <3>1, Limits
  <2> QED
    BY <1>1, <1>2, <2>1 DEF RRTypeOK, lb_vars, pop_vars
<1>4. m_recording /\ Len(recorded) = 0
  BY <1>1 DEF PlaceInv
<1>5. PlaceInv'
  <2>1. ASSUME NEW a \in 1..Len(stamps), stamps[a] = rec.front PROVE Started(a)'
    <3>1. Len(stamps) \in Nat
      BY Numbers
    <3> QED
      BY <1>1, <1>4, <2>1, <3>1 DEF Started, lb_vars
  <2>2. rec.front # 0 => \E a \in 1..Len(stamps) : Started(a)'
    BY <1>1, <2>1 DEF SpentInv
  <2> QED
    BY <1>1, <1>2, <1>4, <2>2 DEF PlaceInv, lb_vars
<1>6. IterInv'
  BY <1>2 DEF IterInv, Walking
<1>7. SpentInv'
  <2>1. ASSUME rec.front # 0, NEW i \in 1..Len(stamps), Popping(i)' PROVE Spent(i, rec_from)'
    <3>1. Popping(i)
      BY <1>1, <2>1 DEF Popping, lb_vars, pop_vars
    <3> QED
      BY <1>1, <2>1, <3>1 DEF SpentInv, Spent, lb_vars
  <2> QED
    BY <1>1, <1>2, <2>1 DEF SpentInv, Walking, lb_vars
<1> QED
  BY <1>1, <1>3, <1>5, <1>6, <1>7, SameOrder, SamePop DEF lb_vars, pop_vars

(* Inside the gate no cleanup is under way: the comparisons of the next    *)
(* one are with the place the recorder has now.                            *)
LEMMA LookupStep ==
  ASSUME RRInv, GateInv', Lookup
  PROVE  RRInv'
<1> USE DEF RRInv
<1> DEFINE i == LowerBound(m_next_timestamp_to_record)
<1>1. /\ UNCHANGED <<cleaner, lb_vars, pop_vars, m_next_timestamp_to_record, m_recording, recorded,
                     rec_from, records>>
      /\ rec.pc = "gate" /\ reader[Recorder] = "inside" /\ rec' = RecAt("leave", 0, i, 0)
  BY DEF Lookup, gate_vars
<1>2. pop_pc = "off"
  <2>1. Recorder \in Counted
    BY <1>1, RecordAssumption DEF Counted
  <2> QED
    BY <2>1 DEF GateInv, Exclusion, PopInv, RRTypeOK
<1>3. /\ Len(stamps) \in Nat /\ popped \in Nat /\ m_next_timestamp_to_record \in Nat
      /\ Size \in Nat /\ Size = Len(stamps) - popped
      /\ \A j \in 1..Len(stamps) : stamps[j] \in Nat /\ stamps[j] > 0
  BY Numbers DEF Size
<1>4. CASE Size = 0 \/ m_next_timestamp_to_record < Front
  <2>1. i = NoIter
    BY <1>4 DEF LowerBound
  <2> HIDE DEF i
  <2>2. /\ rec' \in [pc : RecPlaces, front : 0..MaxTs, iter : 0..Len(stamps) + 1, count : 0..ChunkLimit]
        /\ rec'.pc = "leave" /\ rec'.iter = NoIter
    BY <1>1, <1>3, <2>1, RecordAssumption DEF RecAt, RecPlaces, NoIter
  <2>3. m_recording
    BY <1>1 DEF PlaceInv
  <2>4. PlaceInv'
    BY <1>1, <2>2, <2>3, PlaceMoves DEF lb_vars
  <2>5. IterInv'
    BY <2>2 DEF IterInv, Walking
  <2>6. SpentInv'
    BY <1>1, <1>2, <2>2 DEF SpentInv, Spent, Popping, lb_vars, pop_vars
  <2> QED
    BY <1>1, <2>2, <2>4, <2>5, <2>6, RecorderMoves
<1>5. CASE Size > 0 /\ m_next_timestamp_to_record >= Front
  <2>1. /\ i \in popped + 1..Len(stamps) + 1
        /\ \A j \in 1..Len(stamps) : stamps[j] >= m_next_timestamp_to_record <=> j >= i
    BY <1>3, <1>5, LowerBoundSplits
  <2>2. Front \in Nat /\ Front > 0
    BY <1>3, <1>5 DEF Front
  <2> HIDE DEF i
  <2>3. i \in Nat /\ i > popped /\ i <= Len(stamps) + 1
    BY <1>3, <2>1
  <2>4. /\ rec' \in [pc : RecPlaces, front : 0..MaxTs, iter : 0..Len(stamps) + 1, count : 0..ChunkLimit]
        /\ rec'.pc = "leave" /\ rec'.iter = i
    BY <1>1, <1>3, <2>3, RecordAssumption DEF RecAt, RecPlaces, NoIter
  <2>5. m_recording
    BY <1>1 DEF PlaceInv
  <2>6. PlaceInv'
    BY <1>1, <2>4, <2>5, PlaceMoves DEF lb_vars
  <2>7. IterInv'
    BY <1>1, <1>3, <1>5, <2>1, <2>2, <2>3, <2>4 DEF IterInv, Walking, lb_vars
  <2>8. SpentInv'
    BY <1>1, <1>2, <2>4 DEF SpentInv, Spent, Popping, lb_vars, pop_vars
  <2> QED
    BY <1>1, <2>4, <2>6, <2>7, <2>8, RecorderMoves
<1>6. Size > 0 => Front \in Nat
  BY <1>3 DEF Front
<1> QED
  BY <1>3, <1>4, <1>5, <1>6

(* The recorder leaves the gate and goes on from where lower_bound() put   *)
(* it, as long as that element is there.                                   *)
LEMMA WalkStep ==
  ASSUME RRInv, GateInv', LeaveGate \/ Walk
  PROVE  RRInv'
<1> USE DEF RRInv
<1>1. /\ UNCHANGED <<cleaner, lb_vars, pop_vars, m_next_timestamp_to_record, m_recording, recorded,
                     rec_from, records>>
      /\ rec.pc \in {"leave", "walk"}
  BY DEF LeaveGate, Walk, Leave, NotifyLeft, gate_vars
<1>2. m_recording
  BY <1>1 DEF PlaceInv
<1>3. CASE rec' = rec
  <2>1. UNCHANGED <<cleaner, lb_vars, pop_vars, rec_vars>>
    BY <1>1, <1>3 DEF rec_vars
  <2> QED
    BY <2>1, OutsideStep
<1>4. CASE rec' = [rec EXCEPT !.pc = "walk"]
  <2>1. /\ rec' \in [pc : RecPlaces, front : 0..MaxTs, iter : 0..Len(stamps) + 1, count : 0..ChunkLimit]
        /\ rec'.pc = "walk" /\ rec'.iter = rec.iter
    BY <1>4 DEF RRTypeOK, RecPlaces
  <2>2. PlaceInv'
    BY <1>1, <1>2, <2>1, PlaceMoves DEF lb_vars
  <2>3. IterInv'
    BY <1>1, <2>1 DEF IterInv, Walking, lb_vars
  <2>4. SpentInv'
    BY <1>1, <2>1, SpentWalking DEF Walking, lb_vars, pop_vars
  <2> QED
    BY <1>1, <2>1, <2>2, <2>3, <2>4, RecorderMoves
<1>5. CASE Good(rec.iter) /\ rec.count < ChunkLimit /\ rec' = [rec EXCEPT !.pc = "write"]
  <2>1. /\ rec' \in [pc : RecPlaces, front : 0..MaxTs, iter : 0..Len(stamps) + 1, count : 0..ChunkLimit]
        /\ rec'.pc = "write" /\ rec'.iter = rec.iter /\ rec'.count = rec.count
    BY <1>5 DEF RRTypeOK, RecPlaces
  <2>2. rec.iter \in 1..Len(stamps)
    BY <1>5, Numbers DEF Good, Held
  <2>3. PlaceInv'
    BY <1>1, <1>2, <2>1, PlaceMoves DEF lb_vars
  <2>4. IterInv'
    BY <1>1, <1>5, <2>1, <2>2 DEF IterInv, Walking, lb_vars
  <2>5. SpentInv'
    BY <1>1, <2>1, SpentWalking DEF Walking, lb_vars, pop_vars
  <2> QED
    BY <1>1, <2>1, <2>3, <2>4, <2>5, RecorderMoves
<1>6. CASE rec' = RecAt("loop", 0, NoIter, 0)
  <2>1. /\ rec' \in [pc : RecPlaces, front : 0..MaxTs, iter : 0..Len(stamps) + 1, count : 0..ChunkLimit]
        /\ rec'.pc = "loop" /\ rec'.iter = NoIter
    BY <1>6, Numbers, RecordAssumption DEF RecAt, RecPlaces, NoIter
  <2>2. PlaceInv'
    BY <1>1, <1>2, <2>1, PlaceMoves DEF lb_vars
  <2>3. IterInv'
    BY <2>1 DEF IterInv, Walking
  <2>4. SpentInv'
    BY <1>1, <2>1, SpentAtRest DEF Walking, lb_vars, pop_vars
  <2> QED
    BY <1>1, <2>1, <2>2, <2>3, <2>4, RecorderMoves
<1> QED
  BY <1>3, <1>4, <1>5, <1>6 DEF LeaveGate, Walk, Go

(* The next element to write is the one after the last one written: the    *)
(* test of its timestamp never fails.                                      *)
LEMMA NextToWrite ==
  ASSUME RRInv, rec.pc = "write", NEW a \in 1..Len(stamps), Started(a)
  PROVE  rec.iter = a + Len(recorded) /\ stamps[rec.iter] >= m_next_timestamp_to_record
<1> USE DEF RRInv
<1>1. /\ Len(stamps) \in Nat /\ Len(recorded) \in Nat /\ m_next_timestamp_to_record \in Nat
      /\ \A j \in 1..Len(stamps) : stamps[j] \in Nat
  BY Numbers
<1>2. /\ rec.iter \in 1..Len(stamps) /\ rec.iter # NoIter
      /\ \A j \in 1..Len(stamps) : stamps[j] >= m_next_timestamp_to_record <=> j >= rec.iter
  BY DEF IterInv, NoIter
<1>3. stamps[rec.iter] >= m_next_timestamp_to_record
  BY <1>1, <1>2
<1>4. CASE Len(recorded) = 0
  <2>1. m_next_timestamp_to_record = stamps[a]
    BY <1>4 DEF Started
  <2>2. a >= rec.iter
    BY <1>1, <1>2, <2>1
  <2>3. ~(rec.iter < a)
    BY <1>1, <1>2, <1>3, <2>1 DEF OrderInv
  <2> QED
    BY <1>1, <1>2, <1>3, <1>4, <2>2, <2>3
<1>5. CASE Len(recorded) # 0
  <2> DEFINE b == a + Len(recorded) - 1
  <2>1. b \in 1..Len(stamps) /\ m_next_timestamp_to_record = stamps[b] + 1
    BY <1>1, <1>5 DEF Started
  <2> HIDE DEF b
  <2>2. b < rec.iter
    BY <1>1, <1>2, <2>1
  <2>3. ~(b + 1 < rec.iter)
    <3> SUFFICES ASSUME b + 1 < rec.iter PROVE FALSE
      OBVIOUS
    <3>1. b + 1 \in 1..Len(stamps)
      BY <1>1, <1>2, <2>1
    <3>2. stamps[b] < stamps[b + 1]
      BY <1>1, <2>1, <3>1 DEF OrderInv
    <3>3. stamps[b + 1] >= m_next_timestamp_to_record
      BY <1>1, <2>1, <3>1, <3>2
    <3> QED
      BY <1>1, <1>2, <3>1, <3>3
  <2>4. rec.iter = b + 1
    BY <1>1, <1>2, <2>1, <2>2, <2>3
  <2>5. b + 1 = a + Len(recorded)
    BY <1>1 DEF b
  <2> QED
    BY <1>3, <2>4, <2>5
<1> QED
  BY <1>4, <1>5

LEMMA WriteStep ==
  ASSUME RRInv, GateInv', WriteChunk
  PROVE  RRInv'
<1> USE DEF RRInv
<1>1. /\ UNCHANGED <<cleaner, lb_vars, pop_vars, m_recording, rec_from, records>>
      /\ rec.pc = "write" /\ m_recording
      /\ rec.iter \in 1..Len(stamps) /\ rec.count < ChunkLimit
      /\ m_next_timestamp_to_record # 0
  BY DEF WriteChunk, gate_vars, IterInv, PlaceInv, NoIter
<1>2. PICK a \in 1..Len(stamps) : Started(a)
  BY <1>1 DEF PlaceInv
<1>3. /\ Len(stamps) \in Nat /\ Len(recorded) \in Nat /\ m_next_timestamp_to_record \in Nat
      /\ \A j \in 1..Len(stamps) : stamps[j] \in Nat
      /\ rec.count \in Nat
  BY Numbers
<1> DEFINE n == Len(recorded)
           e == stamps[a + n]
<1>4. rec.iter = a + n /\ e >= m_next_timestamp_to_record /\ a + n \in 1..Len(stamps)
  BY <1>1, <1>2, NextToWrite
<1>5. /\ recorded' = Append(recorded, e) /\ m_next_timestamp_to_record' = e + 1
      /\ rec' = RecAt("next", 0, rec.iter, rec.count + 1)
  BY <1>4 DEF WriteChunk
<1>6. recorded \in Seq(1..MaxTs) /\ e \in 1..MaxTs /\ e \in Nat
  BY <1>3, <1>4, ElementOfSeq DEF RRTypeOK
<1> HIDE DEF e
<1>7. /\ recorded' \in Seq(1..MaxTs) /\ Len(recorded)' = n + 1
      /\ \A k \in 1..n : recorded'[k] = recorded[k]
      /\ recorded'[n + 1] = e
  BY <1>5, <1>6, AppendProperties
<1> HIDE DEF n
<1>8. /\ rec' \in [pc : RecPlaces, front : 0..MaxTs, iter : 0..Len(stamps) + 1, count : 0..ChunkLimit]
      /\ rec'.pc = "next" /\ rec'.iter = rec.iter
  <2>1. 0 \in 0..MaxTs /\ rec.iter \in 0..Len(stamps) + 1 /\ rec.count + 1 \in 0..ChunkLimit
    BY <1>1, <1>3, Limits
  <2> QED
    BY <1>5, <2>1 DEF RecAt, RecPlaces
<1>9. RRTypeOK'
  <2>1. m_next_timestamp_to_record' \in 0..MaxTs + 1
    BY <1>5, <1>6, RecordAssumption
  <2> QED
    BY <1>1, <1>7, <1>8, <2>1 DEF RRTypeOK, lb_vars, pop_vars
<1>10. Started(a)'
  <2>1. n \in Nat
    BY <1>3 DEF n
  <2>2. a + (n + 1) <= Len(stamps) + 1 /\ n + 1 # 0 /\ a + (n + 1) - 1 = a + n
    BY <1>3, <1>4, <2>1
  <2>3. \A k \in 1..n + 1 : recorded'[k] = stamps[a + k - 1]
    <3>1. ASSUME NEW k \in 1..n PROVE recorded'[k] = stamps[a + k - 1]
      BY <1>2, <1>7 DEF Started, n
    <3>2. recorded'[n + 1] = stamps[a + (n + 1) - 1]
      BY <1>7, <2>2 DEF e
    <3> QED
      BY <2>1, <3>1, <3>2
  <2>4. m_next_timestamp_to_record' = stamps[a + (n + 1) - 1] + 1
    BY <1>5, <2>2 DEF e
  <2> QED
    BY <1>1, <1>2, <1>7, <2>2, <2>3, <2>4 DEF Started, lb_vars
<1>11. PlaceInv'
  <2>1. rec_from # 0 /\ m_next_timestamp_to_record' # 0
    BY <1>1, <1>5, <1>6 DEF PlaceInv
  <2> QED
    BY <1>1, <1>8, <1>10, <2>1 DEF PlaceInv, lb_vars
<1>12. IterInv'
  BY <1>1, <1>4, <1>5, <1>8 DEF IterInv, Walking, lb_vars, e
<1>13. m_next_timestamp_to_record < m_next_timestamp_to_record'
  BY <1>3, <1>4, <1>5, <1>6
<1>14. SpentInv'
  <2>1. ASSUME rec_from # 0, NEW i \in 1..Len(stamps), Popping(i)' PROVE Spent(i, rec_from)'
    <3>1. Popping(i)
      BY <1>1, <2>1 DEF Popping, lb_vars, pop_vars
    <3>2. Spent(i, rec_from)
      BY <1>1, <2>1, <3>1 DEF SpentInv
    <3>3. stamps[i] \in Nat /\ m_next_timestamp_to_record' \in Nat
      BY <1>3, <1>5, <1>6
    <3> QED
      BY <1>1, <1>3, <1>13, <3>2, <3>3 DEF Spent, lb_vars
  <2>2. ASSUME pop_pc = "pop" PROVE Front' < m_next_timestamp_to_record'
    <3>1. Front < m_next_timestamp_to_record /\ Front' = Front
      BY <1>1, <2>2 DEF SpentInv, Walking, Front, lb_vars
    <3>2. Front \in Nat /\ m_next_timestamp_to_record' \in Nat
      <4>1. Len(stamps) - popped > 0 /\ popped \in Nat
        BY <2>2, Numbers DEF PopInv, Size
      <4>2. popped + 1 \in 1..Len(stamps)
        BY <1>3, <4>1
      <4>3. Front \in Nat
        BY <1>3, <4>2 DEF Front
      <4> QED
        BY <1>5, <1>6, <4>3
    <3> QED
      BY <1>3, <1>13, <3>1, <3>2
  <2> QED
    BY <1>1, <1>8, <2>1, <2>2 DEF SpentInv, lb_vars, pop_vars
<1> QED
  BY <1>1, <1>9, <1>11, <1>12, <1>14, SameOrder, SamePop DEF lb_vars, pop_vars

(* ++ moves to the next element, which is the next to write, or gives up   *)
(* until the next round.                                                   *)
LEMMA NextChunkStep ==
  ASSUME RRInv, GateInv', NextChunk
  PROVE  RRInv'
<1> USE DEF RRInv
<1> DEFINE i == IF Good(rec.iter) /\ Good(rec.iter + 1) THEN rec.iter + 1 ELSE NoIter
<1>1. /\ UNCHANGED <<cleaner, lb_vars, pop_vars, m_next_timestamp_to_record, m_recording, recorded,
                     rec_from, records>>
      /\ rec.pc = "next" /\ rec' = RecAt("walk", 0, i, rec.count)
      /\ m_recording /\ rec.iter \in 1..Len(stamps)
      /\ m_next_timestamp_to_record = stamps[rec.iter] + 1
  BY DEF NextChunk, gate_vars, PlaceInv, IterInv
<1>2. /\ Len(stamps) \in Nat /\ popped \in Nat /\ m_next_timestamp_to_record \in Nat
      /\ \A j \in 1..Len(stamps) : stamps[j] \in Nat
  BY Numbers
<1>3. /\ i \in 0..Len(stamps) + 1
      /\ i # NoIter => i = rec.iter + 1 /\ i \in popped + 1..Len(stamps)
  BY <1>1, <1>2 DEF Good, Held, NoIter
<1> HIDE DEF i
<1>4. rec.count \in 0..ChunkLimit
  BY DEF RRTypeOK
<1>5. /\ rec' \in [pc : RecPlaces, front : 0..MaxTs, iter : 0..Len(stamps) + 1, count : 0..ChunkLimit]
      /\ rec'.pc = "walk" /\ rec'.iter = i
  BY <1>1, <1>3, <1>4, RecordAssumption DEF RecAt, RecPlaces
<1>6. PlaceInv'
  BY <1>1, <1>5, PlaceMoves DEF lb_vars
<1>7. IterInv'
  <2>1. ASSUME i # NoIter, NEW j \in 1..Len(stamps)
        PROVE  stamps[j] >= m_next_timestamp_to_record <=> j >= i
    <3>1. CASE j >= i
      <4>1. stamps[rec.iter] < stamps[j]
        BY <1>1, <1>2, <1>3, <2>1, <3>1 DEF OrderInv
      <4> QED
        BY <1>1, <1>2, <3>1, <4>1
    <3>2. CASE j < i
      <4>1. j = rec.iter \/ stamps[j] < stamps[rec.iter]
        BY <1>1, <1>2, <1>3, <2>1, <3>2 DEF OrderInv
      <4>2. stamps[j] < m_next_timestamp_to_record
        BY <1>1, <1>2, <4>1
      <4> QED
        BY <1>2, <1>3, <2>1, <3>2, <4>2
    <3> QED
      BY <1>2, <1>3, <2>1, <3>1, <3>2
  <2>2. m_next_timestamp_to_record # 0
    BY <1>1, <1>2
  <2>3. i # NoIter => popped < i
    BY <1>2, <1>3
  <2> QED
    BY <1>1, <1>5, <2>1, <2>2, <2>3 DEF IterInv, Walking, lb_vars
<1>8. SpentInv'
  BY <1>1, <1>5, SpentWalking DEF Walking, lb_vars, pop_vars
<1> QED
  BY <1>1, <1>5, <1>6, <1>7, <1>8, RecorderMoves

LEMMA RRInvNext == RRInv /\ [RRNext]_recording_vars => RRInv'
<1> SUFFICES ASSUME RRInv, [RRNext]_recording_vars PROVE RRInv'
  OBVIOUS
<1>1. GateInv'
  BY UsesGate, GateInvNext DEF RRInv
<1>2. CASE OtherReader \/ Wakeup \/ PassGate \/ UNCHANGED recording_vars
  <2>1. UNCHANGED <<cleaner, lb_vars, pop_vars, rec_vars>>
    BY <1>2 DEF OtherReader, Wakeup, PassGate, ReaderStep, Arrive, Enter, Block, NotifyEntered, Leave,
                NotifyLeft, SpuriousWakeup, recording_vars, gate_vars
  <2> QED
    BY <1>1, <2>1, OutsideStep
<1>3. CASE Receive
  BY <1>1, <1>3, ReceiveStep
<1>4. CASE Cleanup
  BY <1>1, <1>4, CleanupStep
<1>5. CASE Record \/ RecordBegin \/ RecordEnd \/ Round
  BY <1>1, <1>5, RecordStep, RecordBeginEndStep, RoundStep
<1>6. CASE ReadFront \/ StoreFront \/ Lookup
  BY <1>1, <1>6, ReadFrontStep, StoreFrontStep, LookupStep
<1>7. CASE LeaveGate \/ Walk \/ WriteChunk \/ NextChunk
  BY <1>1, <1>7, WalkStep, WriteStep, NextChunkStep
<1> QED
  BY <1>2, <1>3, <1>4, <1>5, <1>6, <1>7 DEF RRNext, Environment, RecorderStep
-----------------------------------------------------------------------------
(* Consumer, cleanup and recorder keep their state well formed.            *)
THEOREM RecordingTypeCorrect == RRSpec => []RRTypeOK
<1>1. RRInv => RRTypeOK
  BY DEF RRInv
<1> QED
  BY RRInvInit, RRInvNext, <1>1, PTL DEF RRSpec

LEMMA InvIsSafe == RRInv => RecorderReadsLive
<1> SUFFICES ASSUME RRInv PROVE RecorderReadsLive
  OBVIOUS
<1>1. rec.pc = "write" => rec.iter \in 1..Len(stamps) /\ popped < rec.iter
  BY DEF RRInv, IterInv, NoIter
<1>2. popped \in Nat /\ Len(stamps) \in Nat
  BY Numbers DEF RRInv
<1>3. rec.pc = "write" => Good(rec.iter)
  BY <1>1, <1>2 DEF Good, Held
<1>4. pop_pc = "compare" => Size > 0
  BY DEF RRInv, PopInv
<1> QED
  BY <1>3, <1>4 DEF RecorderReadsLive

(* The element the recorder writes, outside the gate, has not been popped, *)
(* and cleanup() always has a front to compare.                            *)
THEOREM RecorderIsSafe == RRSpec => []RecorderReadsLive
  BY RRInvInit, RRInvNext, InvIsSafe, PTL DEF RRSpec

LEMMA InvIsUnbroken == RRInv => RecordingUnbroken
<1> SUFFICES ASSUME RRInv, recorded # <<>>
             PROVE  \E i \in 1..Len(stamps) :
                      /\ i + Len(recorded) - 1 <= Len(stamps)
                      /\ recorded = SubSeq(stamps, i, i + Len(recorded) - 1)
  BY DEF RecordingUnbroken
<1>1. recorded \in Seq(1..MaxTs) /\ stamps \in Seq(1..MaxTs)
  BY DEF RRInv, RRTypeOK
<1>2. Len(recorded) \in Nat /\ Len(recorded) # 0 /\ Len(stamps) \in Nat
  BY <1>1, EmptySeq, LenProperties
<1>3. PICK a \in 1..Len(stamps) : Started(a)
  BY <1>2 DEF RRInv, PlaceInv
<1> DEFINE n == Len(recorded)
           s == SubSeq(stamps, a, a + n - 1)
<1>4. a + n - 1 <= Len(stamps) /\ a + n - 1 >= a
  BY <1>2, <1>3 DEF Started
<1>5. s \in Seq(1..MaxTs) /\ Len(s) = n /\ \A k \in 1..n : s[k] = stamps[a + k - 1]
  <2>1. a \in Int /\ a + n - 1 \in Int /\ (a + n - 1) - a + 1 = n
    BY <1>2
  <2>2. \A k \in a..a + n - 1 : stamps[k] \in 1..MaxTs
    <3>1. a..a + n - 1 \subseteq 1..Len(stamps)
      BY <1>2, <1>4
    <3> QED
      BY <1>1, <3>1, ElementOfSeq
  <2> QED
    BY <1>4, <2>1, <2>2, SubSeqProperties
<1>6. recorded = s
  BY <1>1, <1>2, <1>3, <1>5, SeqEqual DEF Started
<1> QED
  BY <1>4, <1>6

(* A recording is an unbroken piece of the accepted data.                  *)
THEOREM RecordingIsUnbroken == RRSpec => []RecordingUnbroken
  BY RRInvInit, RRInvNext, InvIsUnbroken, PTL DEF RRSpec

LEMMA InvLosesNothing == RRInv => LeavingDataIsRecorded
<1> SUFFICES ASSUME RRInv, m_recording, rec_from # 0, NEW i \in 1..popped, stamps[i] > rec_from
             PROVE  \E k \in DOMAIN recorded : recorded[k] = stamps[i]
  BY DEF LeavingDataIsRecorded
<1>1. /\ Len(recorded) \in Nat /\ Len(stamps) \in Nat /\ popped \in Nat /\ popped <= Len(stamps)
      /\ \A j \in 1..Len(stamps) : stamps[j] \in Nat
      /\ rec_from \in Nat
  BY Numbers DEF RRInv
<1>2. i \in 1..Len(stamps)
  BY <1>1
<1>3. stamps[i] < m_next_timestamp_to_record
  BY <1>1, <1>2 DEF RRInv, SpentInv, Popping, Spent
<1>4. PICK a \in 1..Len(stamps) : Started(a)
  BY DEF RRInv, PlaceInv
<1> DEFINE b == a + Len(recorded) - 1
<1>5. Len(recorded) # 0 /\ b \in 1..Len(stamps) /\ m_next_timestamp_to_record = stamps[b] + 1
  BY <1>1, <1>2, <1>3, <1>4 DEF Started
<1>6. a < i
  <2> SUFFICES ASSUME i <= a PROVE FALSE
    BY <1>1, <1>2
  <2>1. stamps[i] <= stamps[a]
    BY <1>1, <1>2, <1>4 DEF RRInv, OrderInv
  <2> QED
    BY <1>1, <1>2, <1>4, <2>1 DEF Started
<1>7. i <= b
  <2> SUFFICES ASSUME b < i PROVE FALSE
    BY <1>1, <1>2, <1>5
  <2> HIDE DEF b
  <2>1. stamps[b] < stamps[i]
    BY <1>1, <1>2, <1>5 DEF RRInv, OrderInv
  <2>2. stamps[b] \in Nat /\ stamps[i] \in Nat
    BY <1>1, <1>2, <1>5
  <2> QED
    BY <1>3, <1>5, <2>1, <2>2
<1> DEFINE k == i - a + 1
<1>8. k \in 1..Len(recorded) /\ a + k - 1 = i
  BY <1>1, <1>2, <1>6, <1>7
<1>9. recorded[k] = stamps[i]
  BY <1>4, <1>8 DEF Started
<1>10. DOMAIN recorded = 1..Len(recorded)
  BY LenProperties DEF RRInv, RRTypeOK
<1> QED
  BY <1>8, <1>9, <1>10

(* What cleanup() pops during a recording, after the element it started    *)
(* with, is in the recording.                                              *)
THEOREM RecordingLosesNothing == RRSpec => []LeavingDataIsRecorded
  BY RRInvInit, RRInvNext, InvLosesNothing, PTL DEF RRSpec
-----------------------------------------------------------------------------
(* Nothing older than the n-th element is popped, now or in the pop that   *)
(* cleanup() has decided on.                                               *)
Ahead(n) == /\ n \in popped + 1..Len(stamps)
            /\ m_next_timestamp_to_record # 0 /\ m_next_timestamp_to_record <= stamps[n]
            /\ pop_pc = "pop" => Front < m_next_timestamp_to_record

(* The file holds the Len(file) units before u.                            *)
FileUpTo(u) == /\ Len(file) <= u /\ (u - Len(file)) % PayloadSize = 0
               /\ \A k \in 1..Len(file) : file[k] = u - Len(file) + k - 1

(* The pointer is at the unit u of the stream, in an element that stays.   *)
Pointer(u) == /\ zc.write = u % EndOfBuffer
              /\ BlocksFit => zc.write % Alignment = 0
              /\ u <= (Len(stamps) - 1) * PayloadSize
              /\ Ahead(u \div PayloadSize + 1)
              /\ m_fd = "open" => /\ DirectFits => FileUpTo(u)
                                  /\ BlocksFit => Len(file) % Alignment = 0
              /\ zc.pc \in {"chunk", "place"} =>
                   \E n \in 1..Len(stamps) : zc.end = Position(n) /\ u <= (n - 1) * PayloadSize

ZCPlaces == {"off", "begin", "loop", "wait", "notify", "first", "stamp", "skip", "spin", "back",
             "chunk", "place", "over"}
Placeless == {"off", "begin", "first", "stamp", "skip", "spin"}

ZCStates == [pc : ZCPlaces, iter : 0..Len(stamps), write : {None} \cup 0..EndOfBuffer - 1,
             end : {None} \cup 0..EndOfBuffer - 1, chunks : 0..ChunkLimit]

BaseInv == GateInv /\ RRTypeOK /\ OrderInv /\ PopInv /\ Size <= Capacity

FileInv == /\ zc \in ZCStates
           /\ m_fd \in {"open", "closed"} /\ bytes_written \in Nat
           /\ m_fd = "closed" /\ zc.pc # "over" => Len(file) = 0
           /\ zc.pc = "over" => m_fd = "closed"
           /\ DirectFits => /\ file \in Seq(Nat)
                            /\ m_fd = "open" => bytes_written = Len(file)
                            /\ zc.pc = "over" => Len(file) % PayloadSize = 0 /\ \E u \in Nat : FileUpTo(u)

(* Without a place in the stream nothing is written; from the wait for the *)
(* cleanup to the first timestamp nothing is popped.                       *)
SearchInv == /\ m_recording <=> zc.pc \notin {"off", "begin"}
             /\ zc.pc \in Placeless => zc.write = None
             /\ zc.pc \in {"back", "chunk", "place"} => zc.write # None
             /\ zc.write = None /\ zc.pc # "over" => Len(file) = 0
             /\ zc.write = None /\ m_recording /\ zc.pc \notin {"skip", "over"} => m_next_timestamp_to_record = 0
             /\ zc.write = None /\ zc.pc \in {"notify", "first", "stamp"} => pop_pc # "pop"
             /\ zc.pc = "stamp" => zc.iter = popped + 1 /\ Size > 0
             /\ zc.pc = "skip" => Ahead(zc.iter)

PointerInv == zc.write # None /\ zc.pc # "over" => \E u \in Nat : Pointer(u)

(* RawRecording's recorder does not run, and the other way round.          *)
ZeroCopyInv == rec = Off /\ recorded = <<>> /\ rec_from = 0 /\ FileInv /\ SearchInv /\ PointerInv
OtherInv == RRInv /\ zc = Idle /\ m_fd = "open" /\ file = <<>> /\ bytes_written = 0

ZCInv == /\ BaseInv /\ zero_copy \in BOOLEAN /\ o_direct \in BOOLEAN
         /\ zero_copy => ZeroCopyInv
         /\ ~zero_copy => OtherInv

LEMMA MemoryNumbers ==
  /\ PayloadSize \in Nat /\ PayloadSize > 0 /\ Alignment \in Nat /\ Alignment > 0
  /\ ChunkSize \in Nat /\ ChunkSize > 0 /\ Slots \in Nat /\ Slots > 0 /\ Slots = Capacity + 1
  /\ EndOfBuffer \in Nat /\ EndOfBuffer > 0 /\ EndOfBuffer = PayloadSize * Slots
<1>1. {PayloadSize, Alignment, ChunkSize} \subseteq Nat \ {0}
  BY ZeroCopyAssumption
<1>2. /\ PayloadSize \in Nat /\ PayloadSize > 0 /\ Alignment \in Nat /\ Alignment > 0
      /\ ChunkSize \in Nat /\ ChunkSize > 0
  BY <1>1
<1>3. Slots \in Nat /\ Slots > 0 /\ Slots = Capacity + 1
  BY Limits DEF Slots
<1>4. \A x, y \in Nat : x > 0 /\ y > 0 => x * y \in Nat /\ x * y > 0 /\ x * y = y * x
  OBVIOUS
<1>5. EndOfBuffer \in Nat /\ EndOfBuffer > 0 /\ EndOfBuffer = PayloadSize * Slots
  BY <1>2, <1>3, <1>4 DEF EndOfBuffer
<1> QED
  BY <1>2, <1>3, <1>5

LEMMA AlignedSum ==
  ASSUME NEW a \in Nat, NEW b \in Nat, a % Alignment = 0, b % Alignment = 0
  PROVE  (a + b) % Alignment = 0 /\ (b <= a => (a - b) % Alignment = 0)
<1>1. Alignment \in Nat /\ Alignment > 0
  BY MemoryNumbers
<1> QED
  BY <1>1, Multiples

(* Where a unit of the stream lies: the lap, the slot and the place in it. *)
LEMMA UnitPlace ==
  ASSUME NEW u \in Nat
  PROVE  /\ u \div PayloadSize \in Nat /\ u % PayloadSize \in 0..PayloadSize - 1
         /\ u = PayloadSize * (u \div PayloadSize) + (u % PayloadSize)
         /\ u % EndOfBuffer = PayloadSize * ((u \div PayloadSize) % Slots) + (u % PayloadSize)
         /\ u % EndOfBuffer \in 0..EndOfBuffer - 1
         /\ (u % EndOfBuffer) \div PayloadSize = (u \div PayloadSize) % Slots
         /\ (u % EndOfBuffer) % PayloadSize = u % PayloadSize
<1> DEFINE e == u \div PayloadSize
           r == u % PayloadSize
           q == e \div Slots
           s == e % Slots
<1>0. PayloadSize \in Nat /\ PayloadSize > 0 /\ Slots \in Nat /\ Slots > 0
      /\ EndOfBuffer \in Nat /\ EndOfBuffer > 0 /\ EndOfBuffer = PayloadSize * Slots
  BY MemoryNumbers
<1>1. e \in Nat /\ r \in 0..PayloadSize - 1 /\ u = PayloadSize * e + r
  BY <1>0, Remainder
<1>2. q \in Nat /\ s \in 0..Slots - 1 /\ e = Slots * q + s
  BY <1>0, <1>1, Remainder
<1> HIDE DEF e, r, q, s
<1>3. PayloadSize * s + r \in 0..EndOfBuffer - 1
  <2>1. PayloadSize * s \in Nat /\ s + 1 <= Slots /\ s \in Nat
    BY <1>0, <1>2
  <2>2. \A x, y, z \in Nat : x <= y => z * x <= z * y
    OBVIOUS
  <2>3. PayloadSize * (s + 1) <= PayloadSize * Slots
    BY <1>0, <2>1, <2>2
  <2>4. PayloadSize * (s + 1) = PayloadSize * s + PayloadSize
    BY <1>0, <2>1
  <2> QED
    BY <1>0, <1>1, <2>1, <2>3, <2>4
<1>4. u = EndOfBuffer * q + (PayloadSize * s + r)
  <2>1. \A x, y, z, w \in Nat : x * (y * z + w) = (x * y) * z + x * w
    OBVIOUS
  <2>2. PayloadSize * e = EndOfBuffer * q + PayloadSize * s
    BY <1>0, <1>2, <2>1
  <2> DEFINE a == EndOfBuffer * q
             b == PayloadSize * s
  <2>3. a \in Nat /\ b \in Nat /\ u = (a + b) + r
    BY <1>0, <1>1, <1>2, <2>2
  <2> HIDE DEF a, b
  <2>4. u = a + (b + r)
    BY <1>1, <2>3
  <2> QED
    BY <2>4 DEF a, b
<1>5. u % EndOfBuffer = PayloadSize * s + r
  <2>1. PICK x \in 0..EndOfBuffer - 1 : x = PayloadSize * s + r
    BY <1>3
  <2>2. (EndOfBuffer * q + x) % EndOfBuffer = x
    BY <1>0, <1>2, RemainderIs, Zenon
  <2> QED
    BY <1>4, <2>1, <2>2, Zenon
<1>6. (PayloadSize * s + r) \div PayloadSize = s /\ (PayloadSize * s + r) % PayloadSize = r
  BY <1>0, <1>1, <1>2, RemainderIs
<1> QED
  BY <1>1, <1>3, <1>5, <1>6 DEF e, r, s

(* The memory holds the last Slots elements accepted, so that a unit whose *)
(* element is in the buffer is found at its position.                      *)
LEMMA UnitIsThere ==
  ASSUME RRTypeOK, Size <= Capacity,
         NEW u \in Nat, u \div PayloadSize + 1 \in popped + 1..Len(stamps)
  PROVE  /\ ElementsAt(u % EndOfBuffer) = {u \div PayloadSize + 1}
         /\ UnitAt(u % EndOfBuffer) = u
         /\ StampsAt(u % EndOfBuffer) = {stamps[u \div PayloadSize + 1]}
<1> DEFINE e == u \div PayloadSize
           r == u % PayloadSize
           p == u % EndOfBuffer
           n == Len(stamps)
<1>0. PayloadSize \in Nat /\ PayloadSize > 0 /\ Slots \in Nat /\ Slots > 0 /\ Slots = Capacity + 1
  BY MemoryNumbers
<1>1. /\ e \in Nat /\ r \in 0..PayloadSize - 1 /\ u = PayloadSize * e + r
      /\ p \div PayloadSize = e % Slots /\ p % PayloadSize = r
  BY UnitPlace
<1>2. n \in Nat /\ popped \in Nat /\ n - popped <= Capacity /\ e + 1 \in popped + 1..n
  BY Numbers DEF Size
<1> HIDE DEF e, r, p, n
<1>3. \A i \in 1..n : (i - 1) % Slots \in Nat /\ Position(i) = ((i - 1) % Slots) * PayloadSize
  <2>1. \A i \in 1..n : i - 1 \in Nat
    BY <1>2
  <2> QED
    BY <1>0, <2>1, Remainder DEF Position
<1>4. e % Slots \in Nat
  BY <1>0, <1>1, Remainder
<1>5. \A x, y, z \in Nat : z > 0 /\ x * z = y * z => x = y
  OBVIOUS
<1>6. \A i \in 1..n : Position(i) = (p \div PayloadSize) * PayloadSize <=> (i - 1) % Slots = e % Slots
  BY <1>0, <1>1, <1>3, <1>4, <1>5
<1>7. e + 1 \in ElementsAt(p)
  <2>1. e + 1 \in 1..n /\ e + 1 + Slots > n /\ (e + 1) - 1 = e
    BY <1>0, <1>1, <1>2, Limits
  <2> QED
    BY <1>6, <2>1 DEF ElementsAt, n
<1>8. ASSUME NEW i \in ElementsAt(p) PROVE i = e + 1
  <2>1. i \in 1..n /\ i + Slots > n /\ (i - 1) % Slots = e % Slots
    BY <1>6, <1>8 DEF ElementsAt, n
  <2>2. i - 1 \in Nat /\ i - 1 < e + Slots /\ e < (i - 1) + Slots
    BY <1>0, <1>1, <1>2, <2>1, Limits
  <2>3. i - 1 = e
    BY <1>0, <1>1, <2>1, <2>2, SameRemainder
  <2> QED
    BY <1>1, <1>2, <2>1, <2>3
<1>9. ElementsAt(p) = {e + 1}
  BY <1>7, <1>8
<1>10. UnitAt(p) = ((e + 1) - 1) * PayloadSize + (p % PayloadSize)
  BY <1>9 DEF UnitAt
<1>11. UnitAt(p) = u
  BY <1>0, <1>1, <1>10
<1>12. StampsAt(p) = {stamps[e + 1]}
  BY <1>9 DEF StampsAt
<1> QED
  BY <1>9, <1>11, <1>12 DEF e, p
-----------------------------------------------------------------------------
(* The consumer, the cleanup and the other readers beside the recorder.    *)

LEMMA BufferReceives ==
  ASSUME RRTypeOK, OrderInv, PopInv, Size <= Capacity, Receive
  PROVE  /\ RRTypeOK' /\ OrderInv' /\ PopInv' /\ (Size <= Capacity)'
         /\ Len(stamps)' >= Len(stamps) /\ \A i \in 1..Len(stamps) : stamps'[i] = stamps[i]
<1>1. UNCHANGED <<cleaner, popped, pop_vars, rec_vars>>
  BY DEF Receive, gate_vars
<1>2. next_ts \in 1..MaxTs /\ next_ts' = next_ts + 1 /\ next_ts' \in 1..MaxTs + 1
  <2>1. next_ts \in 1..MaxTs + 1 /\ next_ts <= MaxTs /\ next_ts' = next_ts + 1
    BY DEF Receive, RRTypeOK
  <2> QED
    BY <2>1, Limits
<1> DEFINE n == Len(stamps)
<1>3. /\ n \in Nat /\ popped \in Nat /\ popped <= n
      /\ \A i \in 1..n : stamps[i] \in Nat /\ stamps[i] < next_ts
      /\ next_ts \in Nat /\ Size \in Nat /\ Size = n - popped
  BY Numbers DEF OrderInv, Size
<1>4. CASE UNCHANGED stamps
  <2>1. RRTypeOK'
    BY <1>1, <1>2, <1>4 DEF RRTypeOK, pop_vars, rec_vars
  <2>2. OrderInv'
    BY <1>2, <1>3, <1>4 DEF OrderInv
  <2>3. PopInv' /\ Size' = Size
    BY <1>1, <1>4, SamePop DEF pop_vars, Size
  <2> QED
    BY <1>3, <1>4, <2>1, <2>2, <2>3
<1>5. CASE Size < Capacity /\ stamps' = Append(stamps, next_ts)
  <2>1. stamps \in Seq(1..MaxTs)
    BY DEF RRTypeOK
  <2>2. /\ stamps' \in Seq(1..MaxTs) /\ Len(stamps)' = n + 1
        /\ \A i \in 1..n : stamps'[i] = stamps[i]
        /\ stamps'[n + 1] = next_ts
    BY <1>2, <1>5, <2>1, AppendProperties
  <2> HIDE DEF n
  <2>3. RRTypeOK'
    <3>1. rec' \in [pc : RecPlaces, front : 0..MaxTs, iter : 0..n + 2, count : 0..ChunkLimit]
      BY <1>1, <1>3 DEF RRTypeOK, rec_vars, n
    <3>2. popped' \in 0..Len(stamps)' /\ n + 2 = Len(stamps)' + 1
      BY <1>1, <1>3, <2>2
    <3>3. rec' \in [pc : RecPlaces, front : 0..MaxTs, iter : 0..Len(stamps)' + 1, count : 0..ChunkLimit]
      BY <3>1, <3>2
    <3> QED
      BY <1>1, <1>2, <2>2, <3>2, <3>3 DEF RRTypeOK, pop_vars, rec_vars
  <2>4. OrderInv'
    <3>1. ASSUME NEW i \in 1..n + 1, NEW j \in 1..n + 1, i < j PROVE stamps'[i] < stamps'[j]
      <4>1. CASE j \in 1..n
        BY <1>3, <2>2, <3>1, <4>1 DEF OrderInv, n
      <4>2. CASE j = n + 1
        BY <1>3, <2>2, <3>1, <4>2
      <4> QED
        BY <1>3, <4>1, <4>2
    <3>2. ASSUME NEW i \in 1..n + 1 PROVE stamps'[i] < next_ts'
      BY <1>2, <1>3, <2>2
    <3> QED
      BY <2>2, <3>1, <3>2 DEF OrderInv
  <2>5. Size' = Size + 1
    BY <1>1, <1>3, <2>2 DEF Size
  <2>6. PopInv'
    BY <1>1, <1>3, <2>5, Numbers DEF PopInv, pop_vars
  <2> QED
    BY <1>3, <1>5, <2>2, <2>3, <2>4, <2>5, <2>6, Limits DEF n
<1> QED
  BY <1>4, <1>5 DEF Receive

LEMMA CleanupBegins ==
  ASSUME RRTypeOK, PopInv, cleaner # "popping", cleaner' # "idle", Size > 0, BeginCleanup,
         UNCHANGED <<lb_vars, rec_vars>>
  PROVE  RRTypeOK' /\ PopInv' /\ pop_pc' # "pop"
<1>1. pop_pc = "off" /\ Size' = Size
  BY DEF PopInv, Size, lb_vars
<1>2. ToPop \in Nat /\ ToPop < Size
  BY ToPopIsLess
<1>3. /\ pop_pc' # "pop" /\ pop_pc' \in {"off", "compare"} /\ pops_left' \in Nat
      /\ pop_pc' # "off" <=> cleaner' = "popping"
      /\ pop_pc' # "off" => pops_left' < Size
  BY <1>1, <1>2 DEF BeginCleanup, pop_vars, RRTypeOK
<1>4. RRTypeOK'
  BY <1>3 DEF RRTypeOK, lb_vars, rec_vars
<1>5. PopInv'
  BY <1>1, <1>3 DEF PopInv
<1> QED
  BY <1>3, <1>4, <1>5

(* cleanup() pops the front, once it has found it older than the place of  *)
(* the recording.                                                          *)
LEMMA BufferCleaned ==
  ASSUME RRTypeOK, PopInv, Cleanup
  PROVE  /\ RRTypeOK' /\ PopInv' /\ UNCHANGED <<stamps, next_ts, rec_vars>>
         /\ \/ UNCHANGED popped /\ (pop_pc' = "pop" => MayPop /\ Size > 0)
            \/ pop_pc = "pop" /\ popped' = popped + 1 /\ pop_pc' # "pop"
<1>1. CASE CheckOver
  <2>1. cleaner = "idle" /\ cleaner' # "idle" /\ BeginCleanup /\ UNCHANGED <<lb_vars, rec_vars>>
    BY <1>1 DEF CheckOver, CleanupCheck, AwaitReaders
  <2>2. Size > 0
    BY <1>1, Numbers, RecordAssumption DEF CheckOver
  <2> QED
    BY <2>1, <2>2, CleanupBegins DEF lb_vars
<1>2. CASE WakeCleaner
  <2>1. cleaner = "waiting" /\ cleaner' # "idle" /\ BeginCleanup /\ UNCHANGED <<lb_vars, rec_vars>>
    BY <1>2 DEF WakeCleaner, CleanupWake, AwaitReaders
  <2>2. Size > 0
    BY <2>1 DEF PopInv
  <2> QED
    BY <2>1, <2>2, CleanupBegins DEF lb_vars
<1>3. CASE Compare
  <2>1. UNCHANGED <<cleaner, lb_vars, rec_vars>> /\ pop_pc = "compare" /\ pops_left > 0
    BY <1>3 DEF Compare, gate_vars
  <2>2. Size' = Size /\ pops_left \in Nat /\ Size \in Nat
    BY <2>1, Numbers DEF Size, lb_vars
  <2>6. Size > 0
    BY <2>1, <2>2 DEF PopInv
  <2>3. /\ pop_pc' \in {"compare", "pop"} /\ pops_left' \in Nat /\ pops_left' <= pops_left
        /\ pop_pc' = "pop" => MayPop /\ pops_left' > 0
    BY <1>3, <2>1, <2>2 DEF Compare
  <2>4. RRTypeOK'
    BY <2>1, <2>3 DEF RRTypeOK, lb_vars, rec_vars
  <2>5. PopInv'
    BY <2>1, <2>2, <2>3 DEF PopInv
  <2> QED
    BY <2>1, <2>3, <2>4, <2>5, <2>6 DEF lb_vars
<1>4. CASE PopFront
  <2>1. /\ UNCHANGED <<cleaner, stamps, next_ts, rec_vars>> /\ pop_pc = "pop" /\ pop_pc' = "compare"
        /\ popped' = popped + 1 /\ pops_left' = pops_left - 1
    BY <1>4 DEF PopFront, gate_vars
  <2>2. /\ pops_left \in Nat /\ pops_left > 0 /\ pops_left < Size /\ Size = Len(stamps) - popped
        /\ popped \in Nat /\ Len(stamps) \in Nat /\ cleaner = "popping"
    BY <2>1, Numbers DEF PopInv, Size
  <2>3. Size' = Size - 1 /\ popped' \in 0..Len(stamps) /\ pops_left' \in Nat
    BY <2>1, <2>2 DEF Size
  <2>4. RRTypeOK'
    BY <2>1, <2>3 DEF RRTypeOK, rec_vars
  <2>5. PopInv'
    BY <2>1, <2>2, <2>3 DEF PopInv
  <2> QED
    BY <2>1, <2>4, <2>5
<1>5. CASE FinishCleanup
  <2>1. UNCHANGED <<lb_vars, rec_vars, pops_left>> /\ pop_pc' = "off" /\ cleaner' = "idle"
    BY <1>5 DEF FinishCleanup, CleanupDone
  <2>2. RRTypeOK'
    BY <2>1 DEF RRTypeOK, lb_vars, rec_vars
  <2>3. PopInv'
    BY <2>1 DEF PopInv
  <2> QED
    BY <2>1, <2>2, <2>3 DEF lb_vars
<1> QED
  BY <1>1, <1>2, <1>3, <1>4, <1>5 DEF Cleanup

LEMMA EnvironmentMoves ==
  ASSUME BaseInv, Environment
  PROVE  /\ BaseInv' /\ UNCHANGED rec_vars
         /\ Len(stamps)' >= Len(stamps) /\ \A i \in 1..Len(stamps) : stamps'[i] = stamps[i]
         /\ \/ UNCHANGED popped /\ (pop_pc' = "pop" => pop_pc = "pop" \/ (MayPop /\ Size > 0))
            \/ pop_pc = "pop" /\ popped' = popped + 1 /\ pop_pc' # "pop"
<1>0. GateInv'
  <2>1. [RRNext]_recording_vars
    BY DEF RRNext
  <2> QED
    BY <2>1, UsesGate, GateInvNext DEF BaseInv
<1>1. CASE Receive
  <2>1. UNCHANGED <<popped, pop_pc, rec_vars>>
    BY <1>1 DEF Receive, pop_vars
  <2> QED
    BY <1>0, <1>1, <2>1, BufferReceives DEF BaseInv
<1>2. CASE Cleanup
  <2>1. /\ RRTypeOK' /\ PopInv' /\ UNCHANGED <<stamps, next_ts, rec_vars>>
        /\ \/ UNCHANGED popped /\ (pop_pc' = "pop" => MayPop /\ Size > 0)
           \/ pop_pc = "pop" /\ popped' = popped + 1 /\ pop_pc' # "pop"
    BY <1>2, BufferCleaned DEF BaseInv
  <2>2. OrderInv'
    BY <2>1, SameOrder DEF BaseInv
  <2>3. Len(stamps) \in Nat /\ popped \in Nat /\ Len(stamps) - popped <= Capacity /\ Capacity \in Nat
    BY Numbers, Limits DEF BaseInv, Size
  <2>4. (Size <= Capacity)'
    BY <2>1, <2>3 DEF Size
  <2> QED
    BY <1>0, <2>1, <2>2, <2>3, <2>4 DEF BaseInv
<1>3. CASE OtherReader \/ Wakeup
  <2>1. UNCHANGED <<cleaner, lb_vars, pop_vars, rec_vars>>
    BY <1>3 DEF OtherReader, Wakeup, ReaderStep, Arrive, Enter, Block, NotifyEntered, Leave, NotifyLeft,
                SpuriousWakeup
  <2>2. RRTypeOK'
    BY <2>1 DEF BaseInv, RRTypeOK, lb_vars, pop_vars, rec_vars
  <2>3. OrderInv' /\ PopInv' /\ (Size <= Capacity)'
    BY <2>1, SameOrder, SamePop DEF BaseInv, lb_vars, pop_vars, Size
  <2>4. Len(stamps) \in Nat
    BY Numbers DEF BaseInv
  <2> QED
    BY <1>0, <2>1, <2>2, <2>3, <2>4 DEF BaseInv, lb_vars, pop_vars
<1> QED
  BY <1>1, <1>2, <1>3 DEF Environment

(* An element at or behind the place of the recording stays.               *)
LEMMA AheadStays ==
  ASSUME BaseInv, Environment, NEW n, Ahead(n)
  PROVE  Ahead(n)'
<1>1. /\ BaseInv' /\ UNCHANGED m_next_timestamp_to_record
      /\ Len(stamps)' >= Len(stamps) /\ \A i \in 1..Len(stamps) : stamps'[i] = stamps[i]
      /\ \/ UNCHANGED popped /\ (pop_pc' = "pop" => pop_pc = "pop" \/ (MayPop /\ Size > 0))
         \/ pop_pc = "pop" /\ popped' = popped + 1 /\ pop_pc' # "pop"
  BY EnvironmentMoves DEF rec_vars
<1>2. /\ Len(stamps) \in Nat /\ Len(stamps)' \in Nat /\ popped \in Nat
      /\ \A i \in 1..Len(stamps) : stamps[i] \in Nat
      /\ m_next_timestamp_to_record \in Nat
  <2>1. RRTypeOK' => Len(stamps)' \in Nat
    BY LenProperties DEF RRTypeOK
  <2> QED
    BY <1>1, <2>1, Numbers DEF BaseInv
<1>3. /\ n \in popped + 1..Len(stamps) /\ n \in 1..Len(stamps) /\ popped + 1 \in 1..Len(stamps)
      /\ m_next_timestamp_to_record # 0 /\ m_next_timestamp_to_record <= stamps[n]
      /\ pop_pc = "pop" => Front < m_next_timestamp_to_record
  BY <1>2 DEF Ahead
<1>4. CASE UNCHANGED popped /\ (pop_pc' = "pop" => pop_pc = "pop" \/ (MayPop /\ Size > 0))
  <2>1. Front' = Front
    BY <1>1, <1>3, <1>4 DEF Front
  <2>2. pop_pc' = "pop" => Front' < m_next_timestamp_to_record
    BY <1>3, <1>4, <2>1 DEF MayPop
  <2>3. n \in popped' + 1..Len(stamps)'
    BY <1>1, <1>2, <1>3, <1>4
  <2> QED
    BY <1>1, <1>3, <2>2, <2>3 DEF Ahead
<1>5. CASE pop_pc = "pop" /\ popped' = popped + 1 /\ pop_pc' # "pop"
  <2>1. stamps[popped + 1] < stamps[n]
    <3>1. stamps[popped + 1] < m_next_timestamp_to_record
      BY <1>3, <1>5 DEF Front
    <3>2. stamps[popped + 1] \in Nat /\ stamps[n] \in Nat
      BY <1>2, <1>3
    <3> QED
      BY <1>2, <1>3, <3>1, <3>2
  <2>2. n # popped + 1
    <3>1. stamps[n] \in Nat
      BY <1>2, <1>3
    <3> QED
      BY <2>1, <3>1
  <2>3. n \in popped' + 1..Len(stamps)'
    BY <1>1, <1>2, <1>3, <1>5, <2>2
  <2> QED
    BY <1>1, <1>3, <1>5, <2>3 DEF Ahead
<1> QED
  BY <1>1, <1>4, <1>5

(* While a recording has no place, nothing more is popped.                 *)
LEMMA NothingLeaves ==
  ASSUME BaseInv, Environment, m_next_timestamp_to_record = 0, pop_pc # "pop"
  PROVE  pop_pc' # "pop" /\ UNCHANGED popped
<1>1. ~MayPop \/ Size = 0
  <2>1. /\ Len(stamps) \in Nat /\ popped \in Nat /\ popped <= Len(stamps)
        /\ \A i \in 1..Len(stamps) : stamps[i] \in Nat
    BY Numbers DEF BaseInv
  <2>2. CASE popped + 1 \in 1..Len(stamps)
    <3>1. Front \in Nat
      BY <2>1, <2>2 DEF Front
    <3> QED
      BY <3>1 DEF MayPop
  <2>3. CASE popped + 1 \notin 1..Len(stamps)
    BY <2>1, <2>3 DEF Size
  <2> QED
    BY <2>2, <2>3
<1>2. /\ \/ UNCHANGED popped /\ (pop_pc' = "pop" => pop_pc = "pop" \/ (MayPop /\ Size > 0))
         \/ pop_pc = "pop" /\ popped' = popped + 1 /\ pop_pc' # "pop"
  BY EnvironmentMoves
<1> QED
  BY <1>1, <1>2

LEMMA FileUnaffected ==
  ASSUME FileInv, UNCHANGED <<zc, o_direct, m_fd, file, bytes_written>>,
         Len(stamps) \in Nat, Len(stamps)' \in Nat, Len(stamps)' >= Len(stamps)
  PROVE  FileInv'
<1>1. 0..Len(stamps) \subseteq 0..Len(stamps)'
  OBVIOUS
<1>2. zc \in [pc : ZCPlaces, iter : 0..Len(stamps), write : {None} \cup 0..EndOfBuffer - 1,
              end : {None} \cup 0..EndOfBuffer - 1, chunks : 0..ChunkLimit]
  BY DEF FileInv, ZCStates
<1>3. zc' \in [pc : ZCPlaces, iter : 0..Len(stamps)', write : {None} \cup 0..EndOfBuffer - 1,
               end : {None} \cup 0..EndOfBuffer - 1, chunks : 0..ChunkLimit]
  BY <1>1, <1>2
<1>4. \A u \in Nat : FileUpTo(u)' <=> FileUpTo(u)
  BY DEF FileUpTo
<1> QED
  BY <1>3, <1>4 DEF FileInv, ZCStates, DirectFits

(* The other threads do not disturb the recorder.                          *)
LEMMA BesidesStep ==
  ASSUME BaseInv, ZeroCopyInv, Environment, UNCHANGED zc_vars
  PROVE  BaseInv' /\ ZeroCopyInv'
<1>1. /\ UNCHANGED <<zc, o_direct, m_fd, file, bytes_written>>
      /\ UNCHANGED <<m_next_timestamp_to_record, m_recording, rec, recorded, rec_from>>
      /\ BaseInv' /\ Len(stamps)' >= Len(stamps)
  BY EnvironmentMoves DEF zc_vars, file_vars, rec_vars
<1>2. Len(stamps) \in Nat /\ Len(stamps)' \in Nat /\ popped \in Nat
  <2>1. RRTypeOK' => Len(stamps)' \in Nat
    BY LenProperties DEF RRTypeOK
  <2> QED
    BY <1>1, <2>1, Numbers DEF BaseInv
<1>3. FileInv'
  BY <1>1, <1>2, FileUnaffected DEF ZeroCopyInv
<1>4. SearchInv'
  <2>1. ASSUME zc.write = None, zc.pc \in {"notify", "first", "stamp"}
        PROVE  pop_pc' # "pop" /\ UNCHANGED popped
    BY <2>1, NothingLeaves DEF ZeroCopyInv, SearchInv
  <2>2. ASSUME zc.pc = "stamp" PROVE zc.iter = popped' + 1 /\ Size' > 0
    <3>1. zc.iter = popped + 1 /\ Len(stamps) - popped > 0 /\ zc.write = None
      BY <2>2 DEF ZeroCopyInv, SearchInv, Placeless, Size
    <3>2. UNCHANGED popped
      BY <2>1, <2>2, <3>1
    <3> QED
      BY <1>1, <1>2, <3>1, <3>2 DEF Size
  <2>3. ASSUME zc.pc = "skip" PROVE Ahead(zc.iter)'
    <3>1. Ahead(zc.iter)
      BY <2>3 DEF ZeroCopyInv, SearchInv
    <3>2. ASSUME NEW n, n = zc.iter, Ahead(n) PROVE Ahead(n)'
      BY <3>2, AheadStays
    <3> QED
      BY <1>1, <3>1, <3>2 DEF Ahead
  <2> QED
    BY <1>1, <2>1, <2>2, <2>3 DEF ZeroCopyInv, SearchInv
<1>5. PointerInv'
  <2> SUFFICES ASSUME zc.write # None, zc.pc # "over" PROVE \E u \in Nat : Pointer(u)'
    BY <1>1 DEF PointerInv
  <2>1. PICK u \in Nat : Pointer(u)
    BY DEF ZeroCopyInv, PointerInv
  <2>2. Ahead(u \div PayloadSize + 1)'
    <3>1. ASSUME NEW n, n = u \div PayloadSize + 1, Ahead(n) PROVE Ahead(n)'
      BY <3>1, AheadStays
    <3> QED
      BY <2>1, <3>1 DEF Pointer
  <2>3. u <= (Len(stamps)' - 1) * PayloadSize
    <3>1. (Len(stamps) - 1) * PayloadSize <= (Len(stamps)' - 1) * PayloadSize
      <4>1. \A x, y \in Int : \A z \in Nat : x <= y => x * z <= y * z
        OBVIOUS
      <4>2. Len(stamps) - 1 \in Int /\ Len(stamps)' - 1 \in Int /\ Len(stamps) - 1 <= Len(stamps)' - 1
        BY <1>1, <1>2
      <4>3. PayloadSize \in Nat
        BY MemoryNumbers
      <4> QED
        BY <4>1, <4>2, <4>3, Zenon
    <3> DEFINE a == (Len(stamps) - 1) * PayloadSize
               b == (Len(stamps)' - 1) * PayloadSize
    <3>2. a \in Int /\ b \in Int /\ u <= a
      BY <1>2, <2>1, MemoryNumbers DEF Pointer
    <3> HIDE DEF a, b
    <3>3. a <= b
      BY <3>1 DEF a, b
    <3>4. u <= b
      BY <3>2, <3>3
    <3> QED
      BY <3>4 DEF b
  <2>4. FileUpTo(u)' <=> FileUpTo(u)
    BY <1>1 DEF FileUpTo
  <2>5. 1..Len(stamps) \subseteq 1..Len(stamps)'
    BY <1>1, <1>2
  <2>6. Pointer(u)'
    BY <1>1, <2>1, <2>2, <2>3, <2>4, <2>5 DEF Pointer, Position, DirectFits
  <2> QED
    BY <2>6
<1> QED
  BY <1>1, <1>3, <1>4, <1>5 DEF ZeroCopyInv
-----------------------------------------------------------------------------
(* The element a unit belongs to.                                          *)
LEMMA ElementOrder ==
  ASSUME NEW u \in Nat, NEW n \in Nat
  PROVE  /\ u < n * PayloadSize => u \div PayloadSize < n
         /\ n * PayloadSize <= u => n <= u \div PayloadSize
         /\ (n * PayloadSize) \div PayloadSize = n /\ (n * PayloadSize) % PayloadSize = 0
<1> DEFINE e == u \div PayloadSize
           r == u % PayloadSize
           d == PayloadSize
<1>0. d \in Nat /\ d > 0
  BY MemoryNumbers
<1>1. e \in Nat /\ r \in 0..d - 1 /\ u = d * e + r
  BY UnitPlace
<1>2. n * d = d * n /\ n * d \in Nat /\ d * e \in Nat
  BY <1>0, <1>1
<1>3. (d * n + 0) \div d = n /\ (d * n + 0) % d = 0 /\ d * n + 0 = n * d
  <2>1. 0 \in 0..d - 1
    BY <1>0
  <2> QED
    BY <1>0, <1>2, <2>1, RemainderIs
<1> HIDE DEF e, r, d
<1>4. \A x, y \in Nat : x <= y => d * x <= d * y
  BY <1>0
<1>5. \A x, y \in Nat : x < y => d * x + d <= d * y
  <2>1. SUFFICES ASSUME NEW x \in Nat, NEW y \in Nat, x < y PROVE d * x + d <= d * y
    OBVIOUS
  <2>2. d * (x + 1) = d * x + d /\ x + 1 <= y
    BY <1>0, <2>1
  <2> QED
    BY <1>4, <2>2
<1>6. ASSUME u < n * d PROVE e < n
  <2> SUFFICES ASSUME n <= e PROVE FALSE
    BY <1>1
  <2>1. d * n <= d * e
    BY <1>1, <1>4
  <2> QED
    BY <1>0, <1>1, <1>2, <1>6, <2>1
<1>7. ASSUME n * d <= u PROVE n <= e
  <2> SUFFICES ASSUME e < n PROVE FALSE
    BY <1>1
  <2>1. d * e + d <= d * n
    BY <1>1, <1>5
  <2> QED
    BY <1>0, <1>1, <1>2, <1>7, <2>1
<1> QED
  BY <1>3, <1>6, <1>7 DEF d, e

(* write(2): while the file is open and a direct write is aligned, the n   *)
(* units from the pointer on are appended.                                 *)
LEMMA Writes ==
  ASSUME RRTypeOK, Size <= Capacity, file \in Seq(Nat), m_fd = "open",
         NEW u \in Nat, zc.write = u % EndOfBuffer, FileUpTo(u), popped < u \div PayloadSize + 1,
         NEW n \in Nat, (u % EndOfBuffer) + n <= EndOfBuffer, u + n <= Len(stamps) * PayloadSize,
         NEW direct, direct => n % Alignment = 0 /\ zc.write % Alignment = 0 /\ Len(file) % Alignment = 0,
         WriteFile(n, direct)
  PROVE  /\ file' \in Seq(Nat) /\ Len(file)' = Len(file) + n /\ FileUpTo(u + n)'
         /\ bytes_written' = bytes_written + n
<1> DEFINE chunk == [k \in 1..n |-> UnitAt(zc.write + k - 1)]
           m == Len(file)
<1>0. /\ PayloadSize \in Nat /\ PayloadSize > 0 /\ EndOfBuffer \in Nat /\ EndOfBuffer > 0
      /\ Len(stamps) \in Nat /\ popped \in Nat /\ u \div PayloadSize \in Nat
      /\ u % EndOfBuffer \in Nat
  BY MemoryNumbers, UnitPlace, Numbers
<1>1. file' = file \o chunk /\ bytes_written' = bytes_written + n
  <2>1. ~(m_fd = "closed" \/ (direct /\ \E x \in {n, zc.write, Len(file)} : x % Alignment # 0))
    OBVIOUS
  <2> QED
    BY <2>1 DEF WriteFile
<1>2. ASSUME NEW k \in 1..n PROVE UnitAt(zc.write + k - 1) = u + k - 1
  <2> DEFINE v == u + (k - 1)
  <2>1. v \in Nat /\ k - 1 \in Nat /\ (u % EndOfBuffer) + (k - 1) < EndOfBuffer
    BY <1>0
  <2>2. v % EndOfBuffer = (u % EndOfBuffer) + (k - 1)
    BY <1>0, <2>1, RemainderBelow
  <2>3. popped <= v \div PayloadSize
    <3>1. popped <= u \div PayloadSize
      BY <1>0
    <3>2. u \div PayloadSize <= v \div PayloadSize
      <4> DEFINE e == u \div PayloadSize
      <4>1. e * PayloadSize <= u /\ e \in Nat
        BY <1>0, UnitPlace
      <4> HIDE DEF e
      <4>2. e * PayloadSize \in Nat
        BY <1>0, <4>1
      <4>3. e * PayloadSize <= v
        BY <2>1, <4>1, <4>2
      <4>4. e <= v \div PayloadSize
        BY <2>1, <4>1, <4>3, ElementOrder
      <4> QED
        BY <4>4 DEF e
    <3>3. v \div PayloadSize \in Nat
      BY <2>1, UnitPlace
    <3> QED
      BY <1>0, <3>1, <3>2, <3>3
  <2>4. v \div PayloadSize < Len(stamps)
    <3>1. Len(stamps) * PayloadSize \in Nat
      BY <1>0
    <3>2. v < Len(stamps) * PayloadSize
      BY <3>1
    <3> QED
      BY <1>0, <2>1, <3>2, ElementOrder
  <2>5. v \div PayloadSize + 1 \in popped + 1..Len(stamps)
    <3>1. v \div PayloadSize \in Nat
      BY <2>1, UnitPlace
    <3> QED
      BY <1>0, <2>3, <2>4, <3>1
  <2>6. UnitAt(v % EndOfBuffer) = v
    BY <2>1, <2>5, UnitIsThere
  <2>7. zc.write + k - 1 = v % EndOfBuffer /\ v = u + k - 1
    BY <1>0, <2>2
  <2> QED
    BY <2>6, <2>7
<1>3. chunk \in Seq(Nat) /\ Len(chunk) = n /\ \A k \in 1..n : chunk[k] = u + k - 1
  <2>1. \A k \in 1..n : UnitAt(zc.write + k - 1) \in Nat
    BY <1>2
  <2>2. chunk \in [1..n -> Nat]
    BY <2>1
  <2>3. chunk \in Seq(Nat) /\ DOMAIN chunk = 1..n
    BY <2>2, SeqDef
  <2>4. Len(chunk) = n
    BY <2>3, LenProperties
  <2> QED
    BY <1>2, <2>3, <2>4
<1> HIDE DEF chunk
<1>4. /\ file' \in Seq(Nat) /\ Len(file)' = m + n /\ m \in Nat
      /\ \A k \in 1..m + n : file'[k] = IF k <= m THEN file[k] ELSE chunk[k - m]
  BY <1>1, <1>3, ConcatProperties, LenProperties
<1> HIDE DEF m
<1>5. /\ m <= u /\ (u - m) % PayloadSize = 0 /\ \A k \in 1..m : file[k] = u - m + k - 1
  BY DEF FileUpTo, m
<1>6. FileUpTo(u + n)'
  <2>1. ASSUME NEW k \in 1..m + n PROVE file'[k] = (u + n) - (m + n) + k - 1
    <3>1. CASE k <= m
      <4>0. k \in 1..m
        BY <1>4, <3>1
      <4>1. file'[k] = file[k] /\ file[k] = u - m + k - 1
        BY <1>4, <1>5, <3>1, <4>0
      <4> QED
        BY <1>4, <4>1
    <3>2. CASE k > m
      <4>1. k - m \in 1..n /\ ~(k <= m)
        BY <1>4, <3>2
      <4>2. file'[k] = u + (k - m) - 1
        BY <1>3, <1>4, <4>1
      <4> QED
        BY <1>4, <4>2
    <3> QED
      BY <1>4, <3>1, <3>2
  <2>2. (u + n) - (m + n) = u - m /\ m + n <= u + n
    BY <1>4, <1>5
  <2> QED
    BY <1>4, <1>5, <2>1, <2>2 DEF FileUpTo
<1> QED
  BY <1>1, <1>4, <1>6 DEF m
-----------------------------------------------------------------------------
(* The steps of the recorder                                               *)

LEMMA RecorderGate ==
  ASSUME BaseInv, ZCRecord \/ ZCStep
  PROVE  GateInv' /\ UNCHANGED <<cleaner, lb_vars, pop_vars, zero_copy, o_direct, rec, recorded, rec_from>>
<1>1. CASE ZCBlock
  <2>1. /\ m_cleanup_requested /\ cv_waiters' = cv_waiters \cup {Recorder}
        /\ UNCHANGED <<m_cleanup_requested, m_requests_running, reader, cleaner>>
        /\ UNCHANGED <<lb_vars, pop_vars, zero_copy, o_direct, rec, recorded, rec_from>>
    BY <1>1 DEF ZCBlock, untouched
  <2>2. Counted' = Counted /\ Notifying' = Notifying
    BY <2>1 DEF Counted, Notifying
  <2>3. Recorder \in Readers /\ Recorder # Cleaner
    BY RecordAssumption, GateAssumption
  <2>4. GateTypeOK'
    BY <2>1, <2>3 DEF BaseInv, GateInv, GateTypeOK
  <2>5. NoLostWakeup'
    BY <2>1, <2>2, <2>3 DEF BaseInv, GateInv, NoLostWakeup
  <2> QED
    BY <2>1, <2>2, <2>4, <2>5 DEF BaseInv, GateInv, CountIsExact, Exclusion
<1>2. CASE ZCNotify
  <2>1. /\ cv_waiters' = {}
        /\ UNCHANGED <<m_cleanup_requested, m_requests_running, reader, cleaner>>
        /\ UNCHANGED <<lb_vars, pop_vars, zero_copy, o_direct, rec, recorded, rec_from>>
    BY <1>2 DEF ZCNotify, untouched
  <2>2. Counted' = Counted
    BY <2>1 DEF Counted
  <2>3. GateTypeOK' /\ NoLostWakeup'
    BY <2>1 DEF BaseInv, GateInv, GateTypeOK, NoLostWakeup
  <2> QED
    BY <2>1, <2>2, <2>3 DEF BaseInv, GateInv, CountIsExact, Exclusion
<1>3. CASE UNCHANGED <<gate_vars, lb_vars, pop_vars, untouched>>
  <2>1. GateInv'
    BY <1>3, GateInvNext DEF BaseInv
  <2> QED
    BY <1>3, <2>1 DEF gate_vars, untouched
<1>4. CASE ZCRecord \/ ZCBegin \/ ZCRound \/ ZCPass \/ ZCFirst \/ ZCStamp \/ ZCSkip
  BY <1>3, <1>4 DEF ZCRecord, ZCBegin, ZCRound, ZCPass, ZCFirst, ZCStamp, ZCSkip
<1>5. CASE ZCSpin \/ ZCBack \/ ZCChunk \/ ZCPlace \/ ZCComplete \/ ZCEnd
  BY <1>3, <1>5 DEF ZCSpin, ZCBack, ZCChunk, ZCPlace, ZCComplete, ZCEnd
<1> QED
  BY <1>1, <1>2, <1>4, <1>5 DEF ZCStep

LEMMA RecorderBase ==
  ASSUME BaseInv, GateInv', UNCHANGED <<cleaner, lb_vars, pop_vars, rec, recorded, rec_from>>,
         m_next_timestamp_to_record' \in 0..MaxTs + 1, m_recording' \in BOOLEAN, records' \in 0..MaxRecords
  PROVE  BaseInv'
<1>1. RRTypeOK'
  BY DEF BaseInv, RRTypeOK, lb_vars, pop_vars
<1>2. OrderInv' /\ PopInv' /\ (Size <= Capacity)'
  BY SameOrder, SamePop DEF BaseInv, lb_vars, pop_vars, Size
<1> QED
  BY <1>1, <1>2 DEF BaseInv

(* A step that leaves the file alone.                                      *)
LEMMA FileKept ==
  ASSUME FileInv, UNCHANGED <<lb_vars, o_direct, m_fd, file, bytes_written>>, zc' \in ZCStates,
         zc.pc # "over", zc'.pc # "over"
  PROVE  FileInv'
  BY DEF FileInv, ZCStates, lb_vars, DirectFits

(* A step that leaves the pointer alone.                                   *)
LEMMA PointerKept ==
  ASSUME PointerInv, UNCHANGED <<lb_vars, pop_vars, m_next_timestamp_to_record, o_direct, m_fd, file>>,
         zc'.write = zc.write, zc.pc # "over", zc'.pc \notin {"chunk", "place"}
  PROVE  PointerInv'
<1> SUFFICES ASSUME zc'.write # None, zc'.pc # "over" PROVE \E u \in Nat : Pointer(u)'
  BY DEF PointerInv
<1>1. PICK u \in Nat : Pointer(u)
  BY DEF PointerInv
<1>2. Ahead(u \div PayloadSize + 1)' /\ (FileUpTo(u)' <=> FileUpTo(u))
  BY <1>1 DEF Pointer, Ahead, FileUpTo, Front, lb_vars, pop_vars
<1>3. Pointer(u)'
  BY <1>1, <1>2 DEF Pointer, lb_vars, DirectFits
<1> QED
  BY <1>3

LEMMA PlacelessPointer == zc'.write = None => PointerInv'
  BY DEF PointerInv

LEMMA IdleState ==
  ASSUME FileInv, NEW pc \in ZCPlaces, Len(stamps) \in Nat
  PROVE  /\ [Idle EXCEPT !.pc = pc] \in ZCStates /\ [zc EXCEPT !.pc = pc] \in ZCStates
         /\ Idle \in ZCStates
<1>1. ChunkLimit \in Nat
  BY Limits
<1>2. zc \in ZCStates
  BY DEF FileInv, ZCStates
<1>3. Idle \in ZCStates /\ [Idle EXCEPT !.pc = pc] \in ZCStates
  BY <1>1 DEF Idle, ZCStates, NoIter, ZCPlaces
<1>4. [zc EXCEPT !.pc = pc] \in ZCStates
  BY <1>2 DEF ZCStates
<1> QED
  BY <1>3, <1>4

(* Commands: the recording begins and ends.                                *)
LEMMA ZCCommandStep ==
  ASSUME BaseInv, ZeroCopyInv, ZCRecord \/ ZCBegin \/ ZCEnd
  PROVE  BaseInv' /\ ZeroCopyInv'
<1>0. Len(stamps) \in Nat /\ MaxTs \in Nat /\ MaxRecords \in Nat
  BY Numbers, Limits DEF BaseInv
<1>1. GateInv' /\ UNCHANGED <<cleaner, lb_vars, pop_vars, zero_copy, o_direct, rec, recorded, rec_from>>
  BY RecorderGate DEF ZCStep
<1>2. m_recording \in BOOLEAN /\ records \in 0..MaxRecords /\ m_next_timestamp_to_record \in 0..MaxTs + 1
  BY DEF BaseInv, RRTypeOK
<1>3. FileInv /\ SearchInv
  BY DEF ZeroCopyInv
<1>4. CASE ZCRecord
  <2>1. /\ zc.pc = "off" /\ ~m_recording /\ records < MaxRecords /\ records' = records + 1
        /\ zc' = [zc EXCEPT !.pc = "begin"]
        /\ UNCHANGED <<m_next_timestamp_to_record, m_recording, m_fd, file, bytes_written>>
    BY <1>4 DEF ZCRecord, At, To
  <2>2. zc' \in ZCStates /\ zc'.pc = "begin" /\ zc'.write = zc.write
    <3>1. zc \in ZCStates
      BY <1>3 DEF FileInv, ZCStates
    <3> QED
      BY <1>0, <1>3, <2>1, <3>1, IdleState DEF ZCPlaces, ZCStates
  <2>3. zc.write = None
    BY <1>3, <2>1 DEF SearchInv, Placeless
  <2>4. records' \in 0..MaxRecords
    BY <1>0, <1>2, <2>1
  <2>5. BaseInv'
    BY <1>1, <1>2, <2>1, <2>4, RecorderBase
  <2>6. FileInv'
    BY <1>1, <1>3, <2>1, <2>2, FileKept
  <2>7. SearchInv'
    BY <1>3, <2>1, <2>2, <2>3 DEF SearchInv, Placeless
  <2> QED
    BY <1>1, <2>2, <2>3, <2>5, <2>6, <2>7, PlacelessPointer DEF ZeroCopyInv
<1>5. CASE ZCBegin
  <2>1. /\ zc.pc = "begin" /\ zc' = [Idle EXCEPT !.pc = "loop"]
        /\ m_recording' = TRUE /\ m_next_timestamp_to_record' = 0
        /\ UNCHANGED <<records, m_fd, file, bytes_written>>
    BY <1>5 DEF ZCBegin, At
  <2>2. zc' \in ZCStates /\ zc'.pc = "loop" /\ zc'.write = None
    BY <1>0, <1>3, <2>1, IdleState DEF ZCPlaces, Idle
  <2>3. Len(file) = 0
    BY <1>3, <2>1 DEF SearchInv, Placeless
  <2>4. m_recording' \in BOOLEAN /\ m_next_timestamp_to_record' \in 0..MaxTs + 1
    <3>1. m_recording' \in BOOLEAN
      BY <2>1, Zenon
    <3> QED
      BY <1>0, <2>1, <3>1
  <2>5. BaseInv'
    BY <1>1, <1>2, <2>1, <2>4, RecorderBase
  <2>6. FileInv'
    BY <1>1, <1>3, <2>1, <2>2, FileKept
  <2>7. SearchInv'
    BY <2>1, <2>2, <2>3 DEF SearchInv, Placeless
  <2> QED
    BY <1>1, <2>2, <2>5, <2>6, <2>7, PlacelessPointer DEF ZeroCopyInv
<1>6. CASE ZCEnd
  <2>1. /\ zc.pc = "over" /\ zc' = Idle
        /\ m_recording' = FALSE /\ m_next_timestamp_to_record' = Never
        /\ file' = <<>> /\ bytes_written' = 0
        /\ UNCHANGED <<records, m_fd>>
    BY <1>6 DEF ZCEnd, At
  <2>2. zc' \in ZCStates /\ zc'.pc = "off" /\ zc'.write = None
    BY <1>0, <1>3, <2>1, IdleState DEF ZCPlaces, Idle
  <2>3. Len(file)' = 0 /\ file' \in Seq(Nat)
    BY <2>1
  <2>4. m_recording' \in BOOLEAN /\ m_next_timestamp_to_record' \in 0..MaxTs + 1
    <3>1. m_recording' \in BOOLEAN
      BY <2>1, Zenon
    <3> QED
      BY <1>0, <2>1, <3>1 DEF Never
  <2>5. BaseInv'
    BY <1>1, <1>2, <2>1, <2>4, RecorderBase
  <2>6. FileInv'
    BY <1>1, <1>3, <2>1, <2>2, <2>3 DEF FileInv, ZCStates, lb_vars
  <2>7. SearchInv'
    BY <2>1, <2>2, <2>3 DEF SearchInv, Placeless
  <2> QED
    BY <1>1, <2>2, <2>5, <2>6, <2>7, PlacelessPointer DEF ZeroCopyInv
<1> QED
  BY <1>4, <1>5, <1>6

(* A pointer into the stream comes with a place, without it there is none. *)
LEMMA PointerHasPlace ==
  ASSUME ZeroCopyInv, m_recording, zc.pc \notin {"skip", "over"}
  PROVE  m_next_timestamp_to_record = 0 <=> zc.write = None
<1>1. ASSUME zc.write # None PROVE m_next_timestamp_to_record # 0
  BY <1>1 DEF ZeroCopyInv, PointerInv, Pointer, Ahead
<1> QED
  BY <1>1 DEF ZeroCopyInv, SearchInv

(* The wait for a running cleanup: once it is over, nothing is popped      *)
(* before the recording has its first timestamp.                           *)
LEMMA ZCWaitStep ==
  ASSUME BaseInv, ZeroCopyInv, ZCRound \/ ZCBlock \/ ZCPass \/ ZCNotify
  PROVE  BaseInv' /\ ZeroCopyInv'
<1>0. Len(stamps) \in Nat
  BY Numbers DEF BaseInv
<1>1. GateInv' /\ UNCHANGED <<cleaner, lb_vars, pop_vars, zero_copy, o_direct, rec, recorded, rec_from>>
  BY RecorderGate DEF ZCStep
<1>2. UNCHANGED <<m_next_timestamp_to_record, m_recording, records, m_fd, file, bytes_written>>
  BY DEF ZCRound, ZCBlock, ZCPass, ZCNotify, shared
<1>3. BaseInv'
  <2>1. m_recording \in BOOLEAN /\ records \in 0..MaxRecords /\ m_next_timestamp_to_record \in 0..MaxTs + 1
    BY DEF BaseInv, RRTypeOK
  <2>2. m_recording' \in BOOLEAN
    BY <1>2, <2>1, Zenon
  <2> QED
    BY <1>1, <1>2, <2>1, <2>2, RecorderBase
<1>4. FileInv /\ SearchInv /\ PointerInv
  BY DEF ZeroCopyInv
<1>5. zc \in ZCStates
  BY <1>4 DEF FileInv, ZCStates
<1>6. /\ zc.pc \in {"loop", "wait", "notify"}
      /\ \/ zc' = zc /\ zc.pc = "wait"
         \/ zc' = [zc EXCEPT !.pc = "wait"]
         \/ zc' = [zc EXCEPT !.pc = "notify"] /\ MutexFree
         \/ zc' = [zc EXCEPT !.pc = "first"] /\ zc.pc = "notify" /\ m_next_timestamp_to_record = 0
         \/ zc' = [zc EXCEPT !.pc = "back"] /\ zc.pc = "notify" /\ m_next_timestamp_to_record # 0
  BY DEF ZCRound, ZCBlock, ZCPass, ZCNotify, At, To
<1>7. zc' \in ZCStates /\ zc'.write = zc.write /\ zc'.pc \in {"wait", "notify", "first", "back"}
  <2>1. CASE zc' = zc /\ zc.pc = "wait"
    BY <1>5, <2>1
  <2>2. ASSUME NEW pc \in {"wait", "notify", "first", "back"}, zc' = [zc EXCEPT !.pc = pc]
        PROVE  zc' \in ZCStates /\ zc'.write = zc.write /\ zc'.pc \in {"wait", "notify", "first", "back"}
    <3>1. pc \in ZCPlaces
      BY DEF ZCPlaces
    <3> QED
      BY <1>5, <2>2, <3>1 DEF ZCStates
  <2> QED
    BY <1>6, <2>1, <2>2
<1>8. FileInv'
  BY <1>1, <1>2, <1>4, <1>6, <1>7, FileKept
<1>9. PointerInv'
  BY <1>1, <1>2, <1>4, <1>6, <1>7, PointerKept
<1>10. m_recording
  BY <1>4, <1>6 DEF SearchInv
<1>11. m_next_timestamp_to_record = 0 <=> zc.write = None
  BY <1>6, <1>10, PointerHasPlace
<1>12. /\ zc'.pc = "first" => zc.pc = "notify" /\ m_next_timestamp_to_record = 0
       /\ zc'.pc = "back" => zc.pc = "notify" /\ m_next_timestamp_to_record # 0
       /\ zc'.pc = "notify" => MutexFree
  BY <1>5, <1>6 DEF ZCStates
<1>13. MutexFree => pop_pc = "off"
  BY DEF MutexFree, BaseInv, PopInv
<1>14. pop_pc' = pop_pc
  BY <1>1 DEF pop_vars
<1>15. zc.write = None /\ zc'.pc \in {"notify", "first", "stamp"} => pop_pc' # "pop"
  BY <1>4, <1>7, <1>12, <1>13, <1>14 DEF SearchInv
<1>16. SearchInv'
  BY <1>2, <1>4, <1>6, <1>7, <1>10, <1>11, <1>12, <1>15 DEF SearchInv, Placeless
<1> QED
  BY <1>1, <1>3, <1>8, <1>9, <1>16 DEF ZeroCopyInv

(* An element's position is its first unit's.                              *)
LEMMA ElementPosition ==
  ASSUME NEW n \in Nat, n > 0
  PROVE  /\ (n - 1) * PayloadSize \in Nat
         /\ Position(n) = ((n - 1) * PayloadSize) % EndOfBuffer
         /\ Position(n) \in 0..EndOfBuffer - 1
         /\ ((n - 1) * PayloadSize) \div PayloadSize + 1 = n
         /\ ((n - 1) * PayloadSize) % PayloadSize = 0
<1> DEFINE u == (n - 1) * PayloadSize
<1>0. PayloadSize \in Nat /\ PayloadSize > 0 /\ Slots \in Nat /\ Slots > 0
  BY MemoryNumbers
<1>1. n - 1 \in Nat /\ u \in Nat
  BY <1>0
<1>2. u \div PayloadSize = n - 1 /\ u % PayloadSize = 0
  BY <1>1, ElementOrder
<1>3. /\ u % EndOfBuffer = PayloadSize * ((n - 1) % Slots) + 0
      /\ u % EndOfBuffer \in 0..EndOfBuffer - 1
  BY <1>1, <1>2, UnitPlace
<1>4. (n - 1) % Slots \in Nat
  BY <1>0, <1>1, Remainder
<1>5. PayloadSize * ((n - 1) % Slots) + 0 = ((n - 1) % Slots) * PayloadSize
  BY <1>0, <1>4
<1> QED
  BY <1>1, <1>2, <1>3, <1>5 DEF Position

(* The first element, its timestamp, and the way to an aligned one.        *)
LEMMA ZCSearchStep ==
  ASSUME BaseInv, ZeroCopyInv, ZCFirst \/ ZCStamp \/ ZCSkip \/ ZCSpin
  PROVE  BaseInv' /\ ZeroCopyInv'
<1>0. /\ Len(stamps) \in Nat /\ MaxTs \in Nat /\ popped \in Nat /\ popped <= Len(stamps)
      /\ \A i \in 1..Len(stamps) : stamps[i] \in Nat /\ stamps[i] > 0
      /\ m_next_timestamp_to_record \in Nat
  BY Numbers, Limits DEF BaseInv
<1>1. GateInv' /\ UNCHANGED <<cleaner, lb_vars, pop_vars, zero_copy, o_direct, rec, recorded, rec_from>>
  BY RecorderGate DEF ZCStep
<1>2. UNCHANGED <<m_recording, records, m_fd, file, bytes_written>>
  BY DEF ZCFirst, ZCStamp, ZCSkip, ZCSpin, shared
<1>3. FileInv /\ SearchInv /\ PointerInv
  BY DEF ZeroCopyInv
<1>4. zc \in ZCStates
  BY <1>3 DEF FileInv, ZCStates
<1>5. zc.pc \in {"first", "stamp", "skip", "spin"} /\ zc.write = None /\ m_recording /\ Len(file) = 0
  <2>1. zc.pc \in {"first", "stamp", "skip", "spin"}
    BY DEF ZCFirst, ZCStamp, ZCSkip, ZCSpin, At
  <2> QED
    BY <1>3, <2>1 DEF SearchInv, Placeless
<1>6. ASSUME m_next_timestamp_to_record' \in 0..MaxTs + 1, zc' \in ZCStates, zc'.pc # "over", SearchInv', PointerInv'
      PROVE  BaseInv' /\ ZeroCopyInv'
  <2>1. m_recording \in BOOLEAN /\ records \in 0..MaxRecords
    BY DEF BaseInv, RRTypeOK
  <2>2. m_recording' \in BOOLEAN
    BY <1>2, <2>1, Zenon
  <2>3. BaseInv'
    BY <1>1, <1>2, <1>6, <2>1, <2>2, RecorderBase
  <2>4. FileInv'
    BY <1>1, <1>2, <1>3, <1>5, <1>6, FileKept
  <2> QED
    BY <1>1, <1>6, <2>3, <2>4 DEF ZeroCopyInv
<1>7. m_next_timestamp_to_record \in 0..MaxTs + 1
  BY DEF BaseInv, RRTypeOK
<1>8. UNCHANGED <<stamps, popped, pop_pc>> /\ Size' = Size
  BY <1>1 DEF lb_vars, pop_vars, Size
<1>9. CASE ZCFirst
  <2>1. UNCHANGED m_next_timestamp_to_record /\ zc.pc = "first"
    BY <1>9 DEF ZCFirst, shared, At
  <2>2. pop_pc # "pop" /\ m_next_timestamp_to_record = 0
    BY <1>3, <1>5, <2>1 DEF SearchInv
  <2>3. CASE Size = 0
    <3>1. zc' = [zc EXCEPT !.pc = "loop"]
      BY <1>9, <2>3 DEF ZCFirst
    <3>2. zc' \in ZCStates /\ zc'.pc = "loop" /\ zc'.write = None
      BY <1>4, <1>5, <3>1 DEF ZCStates, ZCPlaces
    <3>3. SearchInv'
      BY <1>2, <1>5, <2>1, <2>2, <3>2 DEF SearchInv, Placeless
    <3> QED
      BY <1>6, <1>7, <2>1, <3>2, <3>3, PlacelessPointer
  <2>4. CASE Size # 0
    <3>1. zc' = [zc EXCEPT !.pc = "stamp", !.iter = popped + 1]
      BY <1>9, <2>4 DEF ZCFirst
    <3>2. Size > 0 /\ popped + 1 \in 0..Len(stamps)
      BY <1>0, <2>4 DEF Size
    <3>3. zc' \in ZCStates /\ zc'.pc = "stamp" /\ zc'.write = None /\ zc'.iter = popped + 1
      BY <1>4, <1>5, <3>1, <3>2 DEF ZCStates, ZCPlaces
    <3>4. SearchInv'
      BY <1>2, <1>5, <1>8, <2>1, <2>2, <3>2, <3>3 DEF SearchInv, Placeless
    <3> QED
      BY <1>6, <1>7, <2>1, <3>3, <3>4, PlacelessPointer
  <2> QED
    BY <2>3, <2>4
<1>10. CASE ZCStamp
  <2>1. zc.pc = "stamp" /\ zc' = [zc EXCEPT !.pc = "skip"] /\ m_next_timestamp_to_record' = stamps[zc.iter]
    BY <1>10 DEF ZCStamp, At, To
  <2>2. pop_pc # "pop" /\ zc.iter = popped + 1 /\ Len(stamps) - popped > 0
    BY <1>3, <1>5, <2>1 DEF SearchInv, Size
  <2>3. zc.iter \in popped + 1..Len(stamps) /\ zc.iter \in 1..Len(stamps)
    BY <1>0, <2>2
  <2>4. stamps[zc.iter] \in 1..MaxTs /\ stamps[zc.iter] \in Nat /\ stamps[zc.iter] > 0
    <3>1. stamps \in Seq(1..MaxTs)
      BY DEF BaseInv, RRTypeOK
    <3> QED
      BY <1>0, <2>3, <3>1, ElementOfSeq
  <2>5. m_next_timestamp_to_record' \in 0..MaxTs + 1 /\ m_next_timestamp_to_record' # 0
    BY <1>0, <2>1, <2>4
  <2>6. zc' \in ZCStates /\ zc'.pc = "skip" /\ zc'.write = None /\ zc'.iter = zc.iter
    BY <1>4, <1>5, <2>1 DEF ZCStates, ZCPlaces
  <2>7. Ahead(zc.iter)'
    <3>1. m_next_timestamp_to_record' <= stamps[zc.iter]
      BY <2>1, <2>4
    <3> QED
      BY <1>8, <2>2, <2>3, <2>5, <2>6, <3>1 DEF Ahead
  <2>8. SearchInv'
    BY <1>2, <1>5, <2>6, <2>7 DEF SearchInv, Placeless
  <2> QED
    BY <1>6, <2>5, <2>6, <2>8, PlacelessPointer
<1>11. CASE ZCSkip
  <2>0. PICK i \in 0..Len(stamps) : i = zc.iter
    BY <1>4 DEF ZCStates
  <2>1. zc.pc = "skip"
    BY <1>11 DEF ZCSkip, At
  <2>2. Ahead(i)
    BY <1>3, <2>0, <2>1 DEF SearchInv
  <2>3. /\ i \in popped + 1..Len(stamps) /\ i \in 1..Len(stamps) /\ i \in Nat /\ i > 0
        /\ m_next_timestamp_to_record # 0 /\ m_next_timestamp_to_record <= stamps[i]
        /\ pop_pc = "pop" => Front < m_next_timestamp_to_record
    BY <1>0, <2>2 DEF Ahead
  <2>4. Front' = Front
    BY <1>8 DEF Front
  <2>5. CASE Aligned(i)
    <3>1. zc' = [Idle EXCEPT !.pc = "back", !.write = Position(i)] /\ UNCHANGED m_next_timestamp_to_record
      BY <1>11, <2>0, <2>5 DEF ZCSkip
    <3>0. (i - 1) * PayloadSize \in Nat
      BY <2>3, ElementPosition
    <3>u. PICK u \in Nat : u = (i - 1) * PayloadSize
      BY <3>0
    <3>2. /\ Position(i) = u % EndOfBuffer /\ Position(i) \in 0..EndOfBuffer - 1
          /\ u \div PayloadSize + 1 = i /\ u % PayloadSize = 0
      BY <2>3, <3>u, ElementPosition
    <3>3. zc' \in ZCStates /\ zc'.pc = "back" /\ zc'.write = Position(i)
      <4>1. 0 \in 0..ChunkLimit /\ 0 \in 0..Len(stamps)
        BY <1>0, Limits
      <4> QED
        BY <1>8, <3>1, <3>2, <4>1 DEF ZCStates, ZCPlaces, Idle, NoIter
    <3>4. zc'.write # None
      BY <3>2, <3>3, MemoryNumbers DEF None
    <3>5. SearchInv'
      BY <1>2, <1>5, <3>3, <3>4 DEF SearchInv, Placeless
    <3>6. u <= (Len(stamps) - 1) * PayloadSize
      <4>1. \A x, y, z \in Nat : x <= y => x * z <= y * z
        OBVIOUS
      <4>2. i - 1 \in Nat /\ Len(stamps) - 1 \in Nat /\ i - 1 <= Len(stamps) - 1
        BY <1>0, <2>3
      <4> QED
        BY <3>u, <4>1, <4>2, MemoryNumbers
    <3>7. Ahead(u \div PayloadSize + 1)'
      BY <1>8, <2>3, <2>4, <3>1, <3>2 DEF Ahead
    <3>8. FileUpTo(u)' /\ Len(file)' % Alignment = 0
      <4>1. Len(file)' = 0 /\ u - 0 = u /\ 0 <= u
        BY <1>2, <1>5, <3>2
      <4>2. 0 % Alignment = 0
        BY MemoryNumbers
      <4> QED
        BY <3>2, <4>1, <4>2 DEF FileUpTo
    <3>9. Pointer(u)'
      BY <1>8, <2>5, <3>2, <3>3, <3>6, <3>7, <3>8 DEF Pointer, Aligned
    <3>10. PointerInv'
      BY <3>2, <3>9 DEF PointerInv
    <3> QED
      BY <1>6, <1>7, <3>1, <3>3, <3>5, <3>10
  <2>6. CASE ~Aligned(i) /\ Good(i) /\ Good(i + 1)
    <3>1. zc' = [zc EXCEPT !.iter = i + 1] /\ UNCHANGED m_next_timestamp_to_record
      BY <1>11, <2>0, <2>6 DEF ZCSkip
    <3>2. i + 1 \in popped + 1..Len(stamps) /\ i + 1 \in 0..Len(stamps) /\ i + 1 \in 1..Len(stamps)
      BY <1>0, <2>3, <2>6 DEF Good, Held
    <3>3. zc' \in ZCStates /\ zc'.pc = "skip" /\ zc'.write = None /\ zc'.iter = i + 1
      BY <1>4, <1>5, <2>1, <3>1, <3>2 DEF ZCStates
    <3>4. m_next_timestamp_to_record <= stamps[i + 1]
      <4>1. stamps[i] < stamps[i + 1] /\ stamps[i] \in Nat /\ stamps[i + 1] \in Nat
        BY <1>0, <2>3, <3>2 DEF BaseInv, OrderInv
      <4> QED
        BY <1>0, <2>3, <4>1
    <3>5. Ahead(zc.iter)'
      BY <1>8, <2>3, <2>4, <3>1, <3>2, <3>3, <3>4 DEF Ahead
    <3>6. SearchInv'
      BY <1>2, <1>5, <3>3, <3>5 DEF SearchInv, Placeless
    <3> QED
      BY <1>6, <1>7, <3>1, <3>3, <3>6, PlacelessPointer
  <2>7. CASE ~Aligned(i) /\ ~(Good(i) /\ Good(i + 1))
    <3>1. zc' = [zc EXCEPT !.pc = "spin", !.iter = NoIter] /\ m_next_timestamp_to_record' = 0
      BY <1>11, <2>0, <2>7 DEF ZCSkip
    <3>2. zc' \in ZCStates /\ zc'.pc = "spin" /\ zc'.write = None
      <4>1. 0 \in 0..Len(stamps)
        BY <1>0
      <4> QED
        BY <1>4, <1>5, <3>1, <4>1 DEF ZCStates, ZCPlaces, NoIter
    <3>3. SearchInv'
      BY <1>2, <1>5, <3>1, <3>2 DEF SearchInv, Placeless
    <3>4. m_next_timestamp_to_record' \in 0..MaxTs + 1
      BY <1>0, <3>1
    <3> QED
      BY <1>6, <3>2, <3>3, <3>4, PlacelessPointer
  <2> QED
    BY <2>5, <2>6, <2>7
<1>12. CASE ZCSpin
  <2>1. zc.pc = "spin" /\ UNCHANGED zc /\ m_next_timestamp_to_record' = 0
    BY <1>12 DEF ZCSpin, At
  <2>2. SearchInv'
    BY <1>2, <1>5, <2>1 DEF SearchInv, Placeless
  <2>3. m_next_timestamp_to_record' \in 0..MaxTs + 1
    BY <1>0, <2>1
  <2> QED
    BY <1>4, <1>5, <1>6, <2>1, <2>2, <2>3, PlacelessPointer DEF ZCStates
<1> QED
  BY <1>9, <1>10, <1>11, <1>12

(* The position of the newest element is taken: it is not before the       *)
(* pointer.                                                                *)
LEMMA ZCBackStep ==
  ASSUME BaseInv, ZeroCopyInv, ZCBack
  PROVE  BaseInv' /\ ZeroCopyInv'
<1>0. Len(stamps) \in Nat /\ popped \in Nat
  BY Numbers DEF BaseInv
<1>1. GateInv' /\ UNCHANGED <<cleaner, lb_vars, pop_vars, zero_copy, o_direct, rec, recorded, rec_from>>
  BY RecorderGate DEF ZCStep
<1>2. UNCHANGED <<m_next_timestamp_to_record, m_recording, records, m_fd, file, bytes_written>>
  BY DEF ZCBack, shared
<1>3. BaseInv'
  <2>1. m_recording \in BOOLEAN /\ records \in 0..MaxRecords /\ m_next_timestamp_to_record \in 0..MaxTs + 1
    BY DEF BaseInv, RRTypeOK
  <2>2. m_recording' \in BOOLEAN
    BY <1>2, <2>1, Zenon
  <2> QED
    BY <1>1, <1>2, <2>1, <2>2, RecorderBase
<1>4. FileInv /\ SearchInv /\ PointerInv /\ zc.pc = "back"
  BY DEF ZeroCopyInv, ZCBack, At
<1>5. zc \in ZCStates /\ zc.write # None /\ m_recording
  BY <1>4 DEF FileInv, ZCStates, SearchInv
<1>6. PICK u \in Nat : Pointer(u)
  BY <1>4, <1>5 DEF PointerInv
<1>7. Len(stamps) > 0 /\ Size # 0
  BY <1>0, <1>6 DEF Pointer, Ahead, Size
<1>8. zc' = [zc EXCEPT !.pc = "chunk", !.chunks = 0, !.end = Position(Len(stamps))]
  BY <1>7 DEF ZCBack
<1>9. Position(Len(stamps)) \in 0..EndOfBuffer - 1
  BY <1>0, <1>7, ElementPosition
<1>10. /\ zc' \in ZCStates /\ zc'.pc = "chunk" /\ zc'.write = zc.write
       /\ zc'.end = Position(Len(stamps))
  <2>1. 0 \in 0..ChunkLimit
    BY Limits
  <2> QED
    BY <1>5, <1>8, <1>9, <2>1 DEF ZCStates, ZCPlaces
<1>11. FileInv'
  BY <1>1, <1>2, <1>4, <1>10, FileKept
<1>12. SearchInv'
  BY <1>2, <1>5, <1>10 DEF SearchInv, Placeless
<1>13. Ahead(u \div PayloadSize + 1)' /\ (FileUpTo(u)' <=> FileUpTo(u))
  BY <1>1, <1>2, <1>6 DEF Pointer, Ahead, FileUpTo, Front, lb_vars, pop_vars
<1>14. \E n \in 1..Len(stamps) : zc'.end = Position(n) /\ u <= (n - 1) * PayloadSize
  <2>1. Len(stamps) \in 1..Len(stamps)
    BY <1>0, <1>7
  <2> QED
    BY <1>6, <1>10, <2>1 DEF Pointer
<1>15. Pointer(u)'
  BY <1>1, <1>2, <1>6, <1>10, <1>13, <1>14 DEF Pointer, lb_vars, Position, DirectFits
<1>16. PointerInv'
  BY <1>15 DEF PointerInv
<1> QED
  BY <1>1, <1>3, <1>11, <1>12, <1>16 DEF ZeroCopyInv

(* m_next_timestamp_to_record becomes the timestamp at the pointer, which  *)
(* is in the buffer: nothing the recorder has yet to write is released.    *)
LEMMA ZCPlaceStep ==
  ASSUME BaseInv, ZeroCopyInv, ZCPlace
  PROVE  BaseInv' /\ ZeroCopyInv'
<1>0. /\ Len(stamps) \in Nat /\ popped \in Nat /\ m_next_timestamp_to_record \in Nat /\ MaxTs \in Nat
      /\ \A i \in 1..Len(stamps) : stamps[i] \in Nat /\ stamps[i] > 0
  BY Numbers, Limits DEF BaseInv
<1>1. GateInv' /\ UNCHANGED <<cleaner, lb_vars, pop_vars, zero_copy, o_direct, rec, recorded, rec_from>>
  BY RecorderGate DEF ZCStep
<1>2. UNCHANGED <<m_recording, records, m_fd, file, bytes_written>>
  BY DEF ZCPlace
<1>3. FileInv /\ SearchInv /\ PointerInv /\ zc.pc = "place"
  BY DEF ZeroCopyInv, ZCPlace, At
<1>4. zc \in ZCStates /\ zc.write # None /\ m_recording
  BY <1>3 DEF FileInv, ZCStates, SearchInv
<1>5. PICK u \in Nat : Pointer(u)
  BY <1>3, <1>4 DEF PointerInv
<1>6. PICK e \in popped + 1..Len(stamps) : e = u \div PayloadSize + 1
  BY <1>5 DEF Pointer, Ahead
<1>7. /\ e \in 1..Len(stamps) /\ popped + 1 \in 1..Len(stamps)
      /\ stamps[e] \in Nat /\ stamps[e] > 0 /\ Front \in Nat
      /\ m_next_timestamp_to_record <= stamps[e]
      /\ pop_pc = "pop" => Front < m_next_timestamp_to_record
  <2>1. e \in 1..Len(stamps) /\ popped + 1 \in 1..Len(stamps)
    BY <1>0
  <2> QED
    BY <1>0, <1>5, <1>6, <2>1 DEF Pointer, Ahead, Front
<1>8. StampsAt(zc.write) = {stamps[e]}
  BY <1>5, <1>6, UnitIsThere DEF BaseInv, Pointer
<1>9. m_next_timestamp_to_record' = stamps[e]
  BY <1>8 DEF ZCPlace, Places
<1>10. BaseInv'
  <2>1. m_recording \in BOOLEAN /\ records \in 0..MaxRecords /\ stamps \in Seq(1..MaxTs)
    BY DEF BaseInv, RRTypeOK
  <2>2. m_recording' \in BOOLEAN
    BY <1>2, <2>1, Zenon
  <2>3. stamps[e] \in 1..MaxTs
    BY <1>7, <2>1, ElementOfSeq
  <2>4. m_next_timestamp_to_record' \in 0..MaxTs + 1
    BY <1>0, <1>9, <2>3
  <2> QED
    BY <1>1, <1>2, <2>1, <2>2, <2>4, RecorderBase
<1>11. Ahead(e)'
  <2>1. pop_pc = "pop" => Front < stamps[e]
    BY <1>0, <1>7
  <2> QED
    BY <1>1, <1>7, <1>9, <2>1 DEF Ahead, Front, lb_vars, pop_vars
<1>12. zc' \in ZCStates /\ zc'.write = zc.write /\ zc'.pc \in {"chunk", "loop"}
       /\ (zc'.pc = "chunk" => zc'.end = zc.end)
  <2>0. zc.chunks \in 0..ChunkLimit /\ ChunkLimit \in Nat
    BY <1>4, Limits DEF ZCStates
  <2>1. CASE zc.chunks + 1 < ChunkLimit
    <3>1. zc' = [zc EXCEPT !.pc = "chunk", !.chunks = @ + 1]
      BY <2>1 DEF ZCPlace
    <3>2. zc.chunks + 1 \in 0..ChunkLimit
      BY <2>0, <2>1
    <3> QED
      BY <1>4, <3>1, <3>2 DEF ZCStates, ZCPlaces
  <2>2. CASE ~(zc.chunks + 1 < ChunkLimit)
    <3>1. zc' = [Idle EXCEPT !.pc = "loop", !.write = zc.write]
      BY <2>2 DEF ZCPlace
    <3>2. 0 \in 0..ChunkLimit /\ 0 \in 0..Len(stamps)
      BY <1>0, <2>0
    <3> QED
      BY <1>4, <3>1, <3>2 DEF ZCStates, ZCPlaces, Idle, NoIter
  <2> QED
    BY <2>1, <2>2
<1>13. FileInv'
  BY <1>1, <1>2, <1>3, <1>12, FileKept
<1>14. SearchInv'
  BY <1>2, <1>4, <1>12 DEF SearchInv, Placeless
<1>15. Pointer(u)'
  <2>1. FileUpTo(u)' <=> FileUpTo(u)
    BY <1>2 DEF FileUpTo
  <2> QED
    BY <1>1, <1>2, <1>3, <1>5, <1>6, <1>11, <1>12, <2>1 DEF Pointer, lb_vars, Position, DirectFits
<1>16. PointerInv'
  BY <1>15 DEF PointerInv
<1> QED
  BY <1>1, <1>10, <1>13, <1>14, <1>16 DEF ZeroCopyInv

(* m units from u on, whole blocks if the sizes are, end neither beyond    *)
(* the memory nor beyond the first unit of the n-th element, which the     *)
(* recorder has taken for the newest.                                      *)
ChunkAt(u, m, n) == /\ BlocksFit => m % Alignment = 0 /\ ((u + m) % EndOfBuffer) % Alignment = 0
                    /\ (u % EndOfBuffer) + m <= EndOfBuffer
                    /\ zc.end = Position(n) /\ u + m <= (n - 1) * PayloadSize

(* m units are written and the pointer moves on by as many, not beyond the *)
(* position taken for the newest element.                                  *)
LEMMA PointerMoves ==
  ASSUME BaseInv, ZeroCopyInv, zc.pc = "chunk",
         NEW u \in Nat, Pointer(u), NEW m \in Nat, NEW n \in 1..Len(stamps), ChunkAt(u, m, n),
         NEW direct, direct => o_direct, WriteFile(m, direct),
         zc' = [zc EXCEPT !.pc = "place", !.write = (u + m) % EndOfBuffer],
         UNCHANGED <<lb_vars, pop_vars, m_next_timestamp_to_record, m_recording, o_direct, m_fd>>
  PROVE  FileInv' /\ SearchInv' /\ PointerInv'
<1>0. /\ Len(stamps) \in Nat /\ popped \in Nat /\ m_next_timestamp_to_record \in Nat
      /\ \A i \in 1..Len(stamps) : stamps[i] \in Nat
      /\ PayloadSize \in Nat /\ PayloadSize > 0 /\ Alignment \in Nat /\ Alignment > 0
      /\ n \in Nat /\ n > 0 /\ u + m \in Nat
  <2>1. /\ Len(stamps) \in Nat /\ popped \in Nat /\ m_next_timestamp_to_record \in Nat
        /\ \A i \in 1..Len(stamps) : stamps[i] \in Nat
    BY Numbers DEF BaseInv
  <2>2. PayloadSize \in Nat /\ PayloadSize > 0 /\ Alignment \in Nat /\ Alignment > 0
    BY MemoryNumbers
  <2> QED
    BY <2>1, <2>2
<1>1. FileInv /\ SearchInv /\ zc \in ZCStates
  BY DEF ZeroCopyInv, FileInv, ZCStates
<1>2. (u + m) % EndOfBuffer \in 0..EndOfBuffer - 1
  BY <1>0, UnitPlace
<1>3. zc' \in ZCStates /\ zc'.pc = "place" /\ zc'.write = (u + m) % EndOfBuffer /\ zc'.end = zc.end
  BY <1>1, <1>2 DEF ZCStates, ZCPlaces
<1>4. zc'.write # None
  BY <1>2, <1>3, MemoryNumbers DEF None
<1> DEFINE e == u \div PayloadSize
           g == (u + m) \div PayloadSize
           top == (n - 1) * PayloadSize
<1>5. e \in Nat /\ e + 1 \in popped + 1..Len(stamps) /\ m_next_timestamp_to_record <= stamps[e + 1]
      /\ m_next_timestamp_to_record # 0 /\ (pop_pc = "pop" => Front < m_next_timestamp_to_record)
      /\ zc.write = u % EndOfBuffer /\ (BlocksFit => zc.write % Alignment = 0)
      /\ (m_fd = "open" => (DirectFits => FileUpTo(u)) /\ (BlocksFit => Len(file) % Alignment = 0))
  BY UnitPlace DEF Pointer, Ahead
<1>6. g \in Nat /\ e <= g /\ g + 1 <= n
  <2>1. g \in Nat
    BY <1>0, UnitPlace
  <2>2. e * PayloadSize <= u
    <3>1. u = PayloadSize * e + (u % PayloadSize) /\ u % PayloadSize \in Nat
      BY <1>0, UnitPlace
    <3> HIDE DEF e
    <3>2. \A x, y \in Nat : x * y = y * x /\ x * y \in Nat
      OBVIOUS
    <3>3. PayloadSize \in Nat /\ e \in Nat
      BY <1>0, <1>5, Zenon
    <3>4. PayloadSize * e = e * PayloadSize /\ PayloadSize * e \in Nat
      BY <3>2, <3>3, Zenon
    <3> QED
      BY <3>1, <3>4
  <2> HIDE DEF e
  <2>3. e * PayloadSize \in Nat
    BY <1>0, <1>5
  <2>4. e * PayloadSize <= u + m
    BY <2>2, <2>3
  <2>5. e <= g
    BY <1>0, <1>5, <2>4, ElementOrder
  <2>6. u + m < n * PayloadSize
    <3>1. n * PayloadSize = top + PayloadSize /\ top \in Int
      BY <1>0
    <3>2. u + m <= top
      BY DEF ChunkAt
    <3> HIDE DEF top
    <3> QED
      BY <1>0, <3>1, <3>2
  <2>7. g < n
    BY <1>0, <2>6, ElementOrder
  <2>8. n \in Nat
    BY <1>0
  <2> HIDE DEF g, top
  <2> QED
    BY <2>1, <2>5, <2>7, <2>8
<1> HIDE DEF g, e
<1>7. g + 1 \in popped + 1..Len(stamps) /\ m_next_timestamp_to_record <= stamps[g + 1]
  <2>1. g + 1 \in popped + 1..Len(stamps) /\ g + 1 \in 1..Len(stamps) /\ e + 1 \in 1..Len(stamps)
    <3>1. popped \in Nat /\ Len(stamps) \in Nat
      BY <1>0
    <3>2. n <= Len(stamps)
      BY <3>1
    <3>3. e \in Nat /\ e + 1 \in popped + 1..Len(stamps)
      BY <1>5
    <3> QED
      BY <1>6, <3>1, <3>2, <3>3
  <2>2. e + 1 = g + 1 \/ stamps[e + 1] < stamps[g + 1]
    <3>1. e + 1 = g + 1 \/ e + 1 < g + 1
      BY <1>5, <1>6
    <3>2. \A i, j \in 1..Len(stamps) : i < j => stamps[i] < stamps[j]
      BY DEF BaseInv, OrderInv
    <3> QED
      BY <2>1, <3>1, <3>2, Zenon
  <2>3. stamps[e + 1] \in Nat /\ stamps[g + 1] \in Nat /\ m_next_timestamp_to_record \in Nat
    BY <1>0, <2>1, Zenon
  <2>4. m_next_timestamp_to_record <= stamps[e + 1]
    BY <1>5, Zenon
  <2>5. PICK x \in Nat, y \in Nat : x = stamps[e + 1] /\ y = stamps[g + 1]
    BY <2>3, Zenon
  <2>6. x = y \/ x < y
    BY <2>2, <2>5, Zenon
  <2>7. m_next_timestamp_to_record <= y
    BY <2>3, <2>4, <2>5, <2>6
  <2> QED
    BY <2>1, <2>5, <2>7, Zenon
<1>8. Ahead(g + 1)'
  BY <1>5, <1>7 DEF Ahead, Front, lb_vars, pop_vars
<1>9. u + m <= (Len(stamps) - 1) * PayloadSize /\ u + m <= Len(stamps) * PayloadSize
  <2>1. \A x, y, z \in Nat : x <= y => x * z \in Nat /\ y * z \in Nat /\ x * z <= y * z
    OBVIOUS
  <2>2. n - 1 \in Nat /\ Len(stamps) - 1 \in Nat /\ n - 1 <= Len(stamps) - 1 /\ n - 1 <= Len(stamps)
    BY <1>0
  <2> DEFINE a == (Len(stamps) - 1) * PayloadSize
             b == Len(stamps) * PayloadSize
  <2>3. top <= a /\ top <= b /\ top \in Nat /\ a \in Nat /\ b \in Nat
    BY <1>0, <2>1, <2>2
  <2>5. u + m <= top
    BY DEF ChunkAt
  <2> HIDE DEF a, b, top
  <2>4. u + m <= a /\ u + m <= b
    BY <1>0, <2>3, <2>5
  <2> QED
    BY <2>4 DEF a, b
<1>10. CASE m_fd = "open" /\ DirectFits
  <2>1. bytes_written = Len(file) /\ file \in Seq(Nat)
    BY <1>1, <1>10 DEF FileInv
  <2>2. /\ Len(file) \in Nat /\ FileUpTo(u)
        /\ BlocksFit => Len(file) % Alignment = 0 /\ zc.write % Alignment = 0
    BY <1>5, <1>10, <2>1, LenProperties
  <2>3. popped < u \div PayloadSize + 1
    BY <1>0, <1>5 DEF e
  <2>4. /\ file' \in Seq(Nat) /\ Len(file)' = Len(file) + m /\ FileUpTo(u + m)'
        /\ bytes_written' = bytes_written + m
    <3>1. direct => m % Alignment = 0 /\ zc.write % Alignment = 0 /\ Len(file) % Alignment = 0
      BY <1>10, <2>2 DEF ChunkAt, DirectFits
    <3> QED
      BY <1>5, <1>9, <1>10, <2>1, <2>2, <2>3, <3>1, Writes DEF BaseInv, ChunkAt
  <2>5. ASSUME BlocksFit PROVE Len(file)' % Alignment = 0
    <3>1. m % Alignment = 0
      BY <2>5 DEF ChunkAt
    <3>2. (Len(file) + m) % Alignment = 0
      BY <2>2, <2>5, <3>1, AlignedSum, Zenon
    <3> QED
      BY <2>4, <3>2
  <2>6. FileInv'
    BY <1>3, <1>10, <2>1, <2>2, <2>4 DEF FileInv, ZCStates, lb_vars, DirectFits
  <2>7. Pointer(u + m)'
    <3>1. \E k \in 1..Len(stamps) : zc'.end = Position(k) /\ u + m <= (k - 1) * PayloadSize
      BY <1>3 DEF ChunkAt
    <3> QED
      BY <1>3, <1>8, <1>9, <2>4, <2>5, <3>1 DEF Pointer, ChunkAt, g, lb_vars, Position, DirectFits
  <2> QED
    BY <1>0, <1>1, <1>3, <1>4, <2>6, <2>7 DEF PointerInv, SearchInv, Placeless
<1>11. CASE m_fd = "closed"
  <2>1. file' = file /\ bytes_written' = bytes_written + m
    BY <1>11 DEF WriteFile
  <2>2. FileInv'
    <3>1. bytes_written' \in Nat
      BY <1>1, <2>1 DEF FileInv
    <3> QED
      BY <1>1, <1>3, <1>11, <2>1, <3>1 DEF FileInv, ZCStates, lb_vars, DirectFits
  <2>3. Pointer(u + m)'
    <3>1. \E k \in 1..Len(stamps) : zc'.end = Position(k) /\ u + m <= (k - 1) * PayloadSize
      BY <1>3 DEF ChunkAt
    <3> QED
      BY <1>3, <1>8, <1>9, <1>11, <3>1 DEF Pointer, ChunkAt, g, lb_vars, Position
  <2> QED
    BY <1>0, <1>1, <1>3, <1>4, <2>2, <2>3 DEF PointerInv, SearchInv, Placeless
<1>12. CASE m_fd = "open" /\ ~DirectFits
  <2>1. bytes_written' \in Nat /\ ~DirectFits' /\ ~BlocksFit
    BY <1>1, <1>12 DEF WriteFile, FileInv, DirectFits
  <2>2. FileInv'
    BY <1>1, <1>3, <1>12, <2>1 DEF FileInv, ZCStates, lb_vars
  <2>3. Pointer(u + m)'
    <3>1. \E k \in 1..Len(stamps) : zc'.end = Position(k) /\ u + m <= (k - 1) * PayloadSize
      BY <1>3 DEF ChunkAt
    <3> QED
      BY <1>3, <1>8, <1>9, <2>1, <3>1 DEF Pointer, ChunkAt, g, lb_vars, Position
  <2> QED
    BY <1>0, <1>1, <1>3, <1>4, <2>2, <2>3 DEF PointerInv, SearchInv, Placeless
<1> QED
  BY <1>1, <1>10, <1>11, <1>12 DEF FileInv

(* One pass of the inner loop, in the lap of the newest element or in the  *)
(* one before it.                                                          *)
LEMMA ZCChunkStep ==
  ASSUME BaseInv, ZeroCopyInv, ZCChunk
  PROVE  BaseInv' /\ ZeroCopyInv'
<1>0. /\ Len(stamps) \in Nat /\ popped \in Nat /\ Len(stamps) - popped <= Capacity
      /\ PayloadSize \in Nat /\ PayloadSize > 0 /\ Alignment \in Nat /\ Alignment > 0
      /\ ChunkSize \in Nat /\ ChunkSize > 0 /\ EndOfBuffer \in Nat /\ EndOfBuffer > 0
      /\ Capacity \in Nat /\ Slots \in Nat /\ Slots = Capacity + 1
  BY Numbers, MemoryNumbers, Limits DEF BaseInv, Size
<1>1. GateInv' /\ UNCHANGED <<cleaner, lb_vars, pop_vars, zero_copy, o_direct, rec, recorded, rec_from>>
  BY RecorderGate DEF ZCStep
<1>2. UNCHANGED <<m_next_timestamp_to_record, m_recording, records, m_fd>>
  BY DEF ZCChunk, shared
<1>3. BaseInv'
  <2>1. m_recording \in BOOLEAN /\ records \in 0..MaxRecords /\ m_next_timestamp_to_record \in 0..MaxTs + 1
    BY DEF BaseInv, RRTypeOK
  <2>2. m_recording' \in BOOLEAN
    BY <1>2, <2>1, Zenon
  <2> QED
    BY <1>1, <1>2, <2>1, <2>2, RecorderBase
<1>4. FileInv /\ SearchInv /\ PointerInv /\ zc.pc = "chunk"
  BY DEF ZeroCopyInv, ZCChunk, At
<1>5. zc \in ZCStates /\ zc.write # None /\ m_recording
  BY <1>4 DEF FileInv, ZCStates, SearchInv
<1>6. PICK u \in Nat : Pointer(u)
  BY <1>4, <1>5 DEF PointerInv
<1>7. PICK n \in 1..Len(stamps) : zc.end = Position(n) /\ u <= (n - 1) * PayloadSize
  BY <1>4, <1>6 DEF Pointer
<1>14. (n - 1) * PayloadSize \in Nat
  BY <1>0
<1>15. PICK top \in Nat : top = (n - 1) * PayloadSize
  BY <1>14
<1> DEFINE w == u % EndOfBuffer
           f == top % EndOfBuffer
           moved == zc.write + ChunkSize
<1>16. BlocksFit => w % Alignment = 0
  BY <1>6 DEF Pointer
<1>8. /\ w \in 0..EndOfBuffer - 1 /\ zc.write = w
      /\ f \in 0..EndOfBuffer - 1 /\ zc.end = f /\ u <= top
  <2>1. n \in Nat /\ n > 0
    BY <1>0
  <2> QED
    BY <1>6, <1>7, <1>15, <2>1, UnitPlace, ElementPosition DEF Pointer
<1>9. top < u + EndOfBuffer
  <2>1. PICK e \in Nat : e = u \div PayloadSize
    BY UnitPlace
  <2>2. popped <= e /\ e * PayloadSize <= u
    BY <1>0, <1>6, <2>1, UnitPlace DEF Pointer, Ahead
  <2>3. (n - 1) - e < Slots /\ n - 1 \in Nat
    BY <1>0, <2>2
  <2>4. n - 1 <= e + Slots
    BY <1>0, <2>1, <2>3
  <2>5. \A x, y, z \in Nat : x < y /\ z > 0 => x * z < y * z
    OBVIOUS
  <2>6. (n - 1) * PayloadSize < (e + Slots) * PayloadSize
    BY <1>0, <2>1, <2>3, <2>5
  <2>7. (e + Slots) * PayloadSize = e * PayloadSize + EndOfBuffer
    BY <1>0, <2>1, MemoryNumbers
  <2> DEFINE a == e * PayloadSize
  <2>8. a \in Nat /\ a <= u /\ top < a + EndOfBuffer
    BY <1>0, <1>15, <2>1, <2>2, <2>6, <2>7
  <2> HIDE DEF a
  <2> QED
    BY <1>0, <1>8, <2>8
<1>10. /\ f >= w => top = u + (f - w)
       /\ f < w => top = u + (EndOfBuffer - w) + f
  BY <1>0, <1>8, <1>9, Laps
<1> HIDE DEF w, f, moved
<1>11. CASE /\ ChunkReady \/ (zc.end < zc.write /\ moved < EndOfBuffer)
            /\ WriteFile(ChunkSize, o_direct)
            /\ zc' = [zc EXCEPT !.pc = "place", !.write = IF moved = EndOfBuffer THEN 0 ELSE moved]
  <2>1. moved = w + ChunkSize /\ moved < EndOfBuffer /\ u + ChunkSize <= top
    <3>0. moved = w + ChunkSize
      BY <1>8 DEF moved
    <3>1. CASE ChunkReady
      <4>1. w + ChunkSize < f
        BY <1>8, <3>1 DEF ChunkReady
      <4> QED
        BY <1>0, <1>8, <1>10, <3>0, <4>1
    <3>2. CASE zc.end < zc.write /\ moved < EndOfBuffer
      BY <1>0, <1>8, <1>10, <3>0, <3>2
    <3> QED
      BY <1>11, <3>1, <3>2
  <2>2. (u + ChunkSize) % EndOfBuffer = moved
    BY <1>0, <2>1, RemainderBelow DEF w
  <2>3. zc' = [zc EXCEPT !.pc = "place", !.write = (u + ChunkSize) % EndOfBuffer]
    <3>1. moved # EndOfBuffer
      BY <1>0, <1>8, <2>1
    <3> QED
      BY <1>11, <2>2, <3>1
  <2>4. ASSUME BlocksFit PROVE ChunkSize % Alignment = 0 /\ ((u + ChunkSize) % EndOfBuffer) % Alignment = 0
    <3>1. ChunkSize % Alignment = 0
      BY <2>4 DEF BlocksFit
    <3>2. w \in Nat /\ ChunkSize \in Nat
      BY <1>0, <1>8, MemoryNumbers
    <3>3. (w + ChunkSize) % Alignment = 0
      BY <1>16, <2>4, <3>1, <3>2, AlignedSum, Zenon
    <3> QED
      BY <2>1, <2>2, <3>1, <3>3
  <2>5. (u % EndOfBuffer) + ChunkSize <= EndOfBuffer
    BY <1>0, <1>8, <2>1 DEF w
  <2>7. ChunkAt(u, ChunkSize, n)
    BY <1>7, <1>15, <2>1, <2>4, <2>5 DEF ChunkAt
  <2>6. FileInv' /\ SearchInv' /\ PointerInv'
    BY <1>0, <1>1, <1>2, <1>4, <1>6, <1>11, <2>3, <2>7, PointerMoves
  <2> QED
    BY <1>1, <1>3, <2>6 DEF ZeroCopyInv
<1>12. CASE /\ zc.end < zc.write
            /\ WriteFile(EndOfBuffer - zc.write, FALSE)
            /\ zc' = [zc EXCEPT !.pc = "place", !.write = 0]
  <2>1. PICK m \in Nat : m = EndOfBuffer - w
    BY <1>0, <1>8
  <2>2. ASSUME BlocksFit PROVE m % Alignment = 0
    <3>1. EndOfBuffer % Alignment = 0
      BY <2>2 DEF BlocksFit
    <3>2. w \in Nat /\ w <= EndOfBuffer /\ EndOfBuffer \in Nat
      BY <1>0, <1>8, MemoryNumbers
    <3>3. (EndOfBuffer - w) % Alignment = 0
      BY <1>16, <2>2, <3>1, <3>2, AlignedSum, Zenon
    <3> QED
      BY <2>1, <3>3
  <2>3. u + m <= top
    <3>1. f < w
      BY <1>8, <1>12
    <3>2. top = u + (EndOfBuffer - w) + f
      BY <1>10, <3>1
    <3> QED
      BY <1>0, <1>8, <2>1, <3>2
  <2>4. (u + m) % EndOfBuffer = 0
    <3>0. u \div EndOfBuffer \in Nat /\ u = EndOfBuffer * (u \div EndOfBuffer) + w
      BY <1>0, Remainder DEF w
    <3>1. PICK a \in Nat : u = EndOfBuffer * a + w
      BY <3>0
    <3>2. EndOfBuffer * (a + 1) = EndOfBuffer * a + EndOfBuffer /\ EndOfBuffer * a \in Nat /\ a + 1 \in Nat
      BY <1>0
    <3>3. u + m = EndOfBuffer * (a + 1) + 0
      BY <1>0, <1>8, <2>1, <3>1, <3>2
    <3>4. 0 \in 0..EndOfBuffer - 1
      BY <1>0
    <3>5. (EndOfBuffer * (a + 1) + 0) % EndOfBuffer = 0
      BY <1>0, <3>2, <3>4, RemainderIs
    <3> QED
      BY <3>3, <3>5
  <2>5. 0 % Alignment = 0
    BY <1>0
  <2>6. WriteFile(m, FALSE) /\ zc' = [zc EXCEPT !.pc = "place", !.write = (u + m) % EndOfBuffer]
    BY <1>8, <1>12, <2>1, <2>4
  <2>7. (u % EndOfBuffer) + m <= EndOfBuffer
    BY <1>0, <1>8, <2>1 DEF w
  <2>9. ChunkAt(u, m, n)
    BY <1>7, <1>15, <2>2, <2>3, <2>4, <2>5, <2>7 DEF ChunkAt
  <2>8. FileInv' /\ SearchInv' /\ PointerInv'
    BY <1>1, <1>2, <1>4, <1>6, <2>6, <2>9, PointerMoves
  <2> QED
    BY <1>1, <1>3, <2>8 DEF ZeroCopyInv
<1>13. CASE zc' = [zc EXCEPT !.pc = "place"] /\ UNCHANGED <<bytes_written, file>>
  <2>1. zc' \in ZCStates /\ zc'.pc = "place" /\ zc'.write = zc.write /\ zc'.end = zc.end
    BY <1>5, <1>13 DEF ZCStates, ZCPlaces
  <2>2. FileInv'
    BY <1>1, <1>2, <1>4, <1>13, <2>1, FileKept
  <2>3. SearchInv'
    BY <1>2, <1>5, <2>1 DEF SearchInv, Placeless
  <2>4. Ahead(u \div PayloadSize + 1)' /\ (FileUpTo(u)' <=> FileUpTo(u))
    BY <1>1, <1>2, <1>6, <1>13 DEF Pointer, Ahead, FileUpTo, Front, lb_vars, pop_vars
  <2>5. Pointer(u)'
    BY <1>1, <1>2, <1>4, <1>6, <1>13, <2>1, <2>4 DEF Pointer, lb_vars, Position, DirectFits
  <2> QED
    BY <1>1, <1>3, <2>2, <2>3, <2>5 DEF ZeroCopyInv, PointerInv
<1> QED
  BY <1>11, <1>12, <1>13 DEF ZCChunk, To, moved

(* The end of a recording: the file is completed to whole elements.        *)
LEMMA ZCCompleteStep ==
  ASSUME BaseInv, ZeroCopyInv, ZCComplete
  PROVE  BaseInv' /\ ZeroCopyInv'
<1>0. /\ Len(stamps) \in Nat /\ popped \in Nat
      /\ PayloadSize \in Nat /\ PayloadSize > 0 /\ Slots \in Nat
  BY Numbers, MemoryNumbers DEF BaseInv
<1>1. GateInv' /\ UNCHANGED <<cleaner, lb_vars, pop_vars, zero_copy, o_direct, rec, recorded, rec_from>>
  BY RecorderGate DEF ZCStep
<1>2. UNCHANGED <<m_next_timestamp_to_record, m_recording, records>>
  BY DEF ZCComplete, shared
<1>3. BaseInv'
  <2>1. m_recording \in BOOLEAN /\ records \in 0..MaxRecords /\ m_next_timestamp_to_record \in 0..MaxTs + 1
    BY DEF BaseInv, RRTypeOK
  <2>2. m_recording' \in BOOLEAN
    BY <1>2, <2>1, Zenon
  <2> QED
    BY <1>1, <1>2, <2>1, <2>2, RecorderBase
<1>4. FileInv /\ SearchInv /\ PointerInv /\ zc.pc = "loop" /\ zc' = [zc EXCEPT !.pc = "over"] /\ m_fd' = "closed"
  BY DEF ZeroCopyInv, ZCComplete, At, To
<1>5. zc \in ZCStates /\ m_recording /\ bytes_written \in Nat
  BY <1>4 DEF FileInv, ZCStates, SearchInv
<1>6. zc' \in ZCStates /\ zc'.pc = "over"
  BY <1>4, <1>5 DEF ZCStates, ZCPlaces
<1>8. SearchInv'
  BY <1>2, <1>5, <1>6 DEF SearchInv, Placeless
<1>9. PointerInv'
  BY <1>6 DEF PointerInv
<1>15. ASSUME bytes_written' \in Nat,
              DirectFits => file' \in Seq(Nat) /\ Len(file)' % PayloadSize = 0 /\ \E u \in Nat : FileUpTo(u)'
       PROVE  BaseInv' /\ ZeroCopyInv'
  <2>1. FileInv'
    BY <1>1, <1>4, <1>6, <1>15 DEF FileInv, ZCStates, lb_vars, DirectFits
  <2> QED
    BY <1>1, <1>3, <1>8, <1>9, <2>1 DEF ZeroCopyInv
<1>16. CASE ~DirectFits
  <2>1. LastFrameWritten => bytes_written' = bytes_written
    BY DEF ZCComplete
  <2>2. ~LastFrameWritten => bytes_written' = bytes_written + (PayloadSize - (zc.write % PayloadSize)) /\ zc.write # None
    BY DEF ZCComplete, WriteFile, LastFrameWritten
  <2>3. zc.write # None => zc.write % PayloadSize \in 0..PayloadSize - 1
    <3>1. zc.write # None => zc.write \in 0..EndOfBuffer - 1
      BY <1>5 DEF ZCStates
    <3>2. zc.write # None => zc.write \in Nat
      BY <3>1, MemoryNumbers
    <3> QED
      BY <1>0, <3>2, Remainder
  <2>4. bytes_written' \in Nat
    BY <1>0, <1>5, <2>1, <2>2, <2>3
  <2> QED
    BY <1>15, <1>16, <2>4
<1> SUFFICES ASSUME DirectFits PROVE BaseInv' /\ ZeroCopyInv'
  BY <1>16
<1>17. file \in Seq(Nat)
  BY <1>4 DEF FileInv
<1>7. Len(file) \in Nat
  BY <1>17, LenProperties
<1>10. ASSUME file' \in Seq(Nat), bytes_written' \in Nat, Len(file)' % PayloadSize = 0,
              \E u \in Nat : FileUpTo(u)'
       PROVE  BaseInv' /\ ZeroCopyInv'
  BY <1>10, <1>15
<1>11. ASSUME Len(file)' = 0 PROVE Len(file)' % PayloadSize = 0 /\ \E u \in Nat : FileUpTo(u)'
  <2>1. 0 % PayloadSize = 0 /\ 0 - 0 = 0
    BY <1>0
  <2>2. FileUpTo(0)'
    BY <1>11, <2>1 DEF FileUpTo
  <2> QED
    BY <1>11, <2>1, <2>2
<1>12. ASSUME NEW v \in Nat, v % PayloadSize = 0, FileUpTo(v)', Len(file)' \in Nat
       PROVE  Len(file)' % PayloadSize = 0
  <2>1. PICK n \in Nat : n = Len(file)'
    BY <1>12
  <2>2. n <= v /\ (v - n) % PayloadSize = 0
    BY <1>12, <2>1 DEF FileUpTo
  <2>3. v - n \in Nat /\ v - n <= v
    BY <2>2
  <2>4. (v - (v - n)) % PayloadSize = 0
    BY <1>0, <1>12, <2>2, <2>3, Multiples
  <2>5. v - (v - n) = n
    OBVIOUS
  <2> QED
    BY <2>1, <2>4, <2>5
<1>13. CASE zc.write = None
  <2>1. UNCHANGED <<bytes_written, file>> /\ Len(file) = 0
    BY <1>4, <1>13 DEF ZCComplete, LastFrameWritten, SearchInv
  <2>2. Len(file)' = 0
    BY <2>1
  <2> QED
    BY <1>5, <1>17, <1>10, <1>11, <2>1, <2>2
<1>14. CASE zc.write # None
  <2>1. PICK u \in Nat : Pointer(u)
    BY <1>4, <1>14 DEF PointerInv
  <2> DEFINE e == u \div PayloadSize
             r == u % PayloadSize
  <2>2. /\ zc.write = u % EndOfBuffer /\ zc.write % PayloadSize = r
        /\ e \in Nat /\ r \in 0..PayloadSize - 1 /\ u = PayloadSize * e + r
        /\ u % EndOfBuffer = PayloadSize * (e % Slots) + r
        /\ e + 1 \in popped + 1..Len(stamps)
    BY <2>1, UnitPlace DEF Pointer, Ahead
  <2>3. m_fd = "open" => FileUpTo(u)
    BY <2>1 DEF Pointer
  <2>4. CASE r = 0
    <3>1. UNCHANGED <<bytes_written, file>>
      BY <2>2, <2>4 DEF ZCComplete, LastFrameWritten
    <3>2. CASE m_fd = "open"
      <4>1. FileUpTo(u)'
        BY <2>3, <3>1, <3>2 DEF FileUpTo
      <4> QED
        BY <1>5, <1>17, <1>7, <1>10, <1>12, <2>4, <3>1, <4>1
    <3>3. CASE m_fd = "closed"
      <4>1. Len(file)' = 0
        BY <1>4, <3>1, <3>3 DEF FileInv
      <4> QED
        BY <1>5, <1>17, <1>10, <1>11, <3>1, <4>1
    <3> QED
      BY <1>4, <3>2, <3>3 DEF FileInv
  <2>5. CASE r # 0
    <3>1. PICK m \in Nat : m = PayloadSize - r
      BY <1>0, <2>2
    <3>2. WriteFile(m, FALSE)
      <4>1. ~LastFrameWritten
        BY <1>14, <2>2, <2>5 DEF LastFrameWritten
      <4> QED
        BY <2>2, <3>1, <4>1 DEF ZCComplete
    <3>3. CASE m_fd = "open"
      <4> HIDE DEF e, r
      <4>1. \A x, y \in Nat : x <= y => PayloadSize * x \in Nat /\ PayloadSize * x <= PayloadSize * y
        BY <1>0
      <4>2. \A x \in Nat : PayloadSize * (x + 1) = PayloadSize * x + PayloadSize
        BY <1>0
      <4>3. (u % EndOfBuffer) + m <= EndOfBuffer
        <5>1. Slots > 0
          BY MemoryNumbers
        <5>2. e % Slots \in Nat /\ (e % Slots) + 1 <= Slots
          <6>1. e % Slots \in 0..Slots - 1
            BY <1>0, <2>2, <5>1, Remainder
          <6> QED
            BY <1>0, <6>1
        <5>3. PICK s \in Nat : s = e % Slots /\ s + 1 <= Slots
          BY <5>2
        <5>4. PayloadSize * (s + 1) <= PayloadSize * Slots /\ PayloadSize * (s + 1) = PayloadSize * s + PayloadSize
              /\ PayloadSize * s \in Nat
          BY <1>0, <4>1, <4>2, <5>3
        <5>5. u % EndOfBuffer = PayloadSize * s + r
          BY <2>2, <5>3
        <5>6. EndOfBuffer = PayloadSize * Slots /\ EndOfBuffer \in Nat
          BY MemoryNumbers
        <5>7. PICK x \in Nat : x = PayloadSize * s
          BY <5>4
        <5>8. x + PayloadSize <= EndOfBuffer /\ u % EndOfBuffer = x + r /\ r \in 0..PayloadSize - 1
          BY <2>2, <5>4, <5>5, <5>6, <5>7
        <5> QED
          BY <1>0, <3>1, <5>6, <5>8
      <4>4. u + m = PayloadSize * (e + 1) /\ u + m \in Nat
        <5>1. PayloadSize * (e + 1) = PayloadSize * e + PayloadSize /\ PayloadSize * e \in Nat
          BY <1>0, <2>2, <4>1, <4>2
        <5> QED
          BY <1>0, <2>2, <3>1, <5>1
      <4>5. u + m <= Len(stamps) * PayloadSize
        <5>1. e + 1 \in Nat /\ e + 1 <= Len(stamps)
          BY <1>0, <2>2
        <5>2. PayloadSize * (e + 1) <= PayloadSize * Len(stamps)
          BY <1>0, <4>1, <5>1
        <5>3. PayloadSize * Len(stamps) = Len(stamps) * PayloadSize
          BY <1>0
        <5> QED
          BY <4>4, <5>2, <5>3
      <4>6. popped < u \div PayloadSize + 1
        BY <1>0, <2>2 DEF e
      <4>7. FileUpTo(u)
        BY <2>3, <3>3
      <4>8. /\ file' \in Seq(Nat) /\ Len(file)' = Len(file) + m /\ FileUpTo(u + m)'
            /\ bytes_written' = bytes_written + m
        BY <1>5, <1>17, <2>2, <3>2, <3>3, <4>3, <4>5, <4>6, <4>7, Writes DEF BaseInv
      <4>9. (u + m) % PayloadSize = 0
        <5>1. (PayloadSize * (e + 1) + 0) % PayloadSize = 0
          <6>1. 0 \in 0..PayloadSize - 1 /\ e + 1 \in Nat
            BY <1>0, <2>2
          <6> QED
            BY <1>0, <6>1, RemainderIs
        <5>2. PayloadSize * (e + 1) + 0 = u + m
          BY <4>4
        <5> QED
          BY <5>1, <5>2
      <4>10. Len(file)' \in Nat /\ bytes_written' \in Nat
        BY <1>5, <1>7, <4>8
      <4>11. Len(file)' % PayloadSize = 0
        BY <1>12, <4>4, <4>8, <4>9, <4>10
      <4> QED
        BY <1>10, <4>4, <4>8, <4>10, <4>11
    <3>4. CASE m_fd = "closed"
      <4>1. file' = file /\ bytes_written' = bytes_written + m
        BY <3>2, <3>4 DEF WriteFile
      <4>2. Len(file)' = 0 /\ bytes_written' \in Nat
        BY <1>4, <1>5, <3>4, <4>1 DEF FileInv
      <4> QED
        BY <1>5, <1>17, <1>10, <1>11, <4>1, <4>2
    <3> QED
      BY <1>4, <3>3, <3>4 DEF FileInv
  <2> QED
    BY <2>4, <2>5
<1> QED
  BY <1>13, <1>14
-----------------------------------------------------------------------------
LEMMA ZCInvInit == ZCInit => ZCInv
<1> SUFFICES ASSUME ZCInit PROVE ZCInv
  OBVIOUS
<1>1. RRInv
  BY RRInvInit DEF ZCInit
<1>2. stamps = <<>> /\ Len(stamps) = 0 /\ popped = 0
  BY DEF ZCInit, RRInit
<1>3. BaseInv
  <2>1. Size <= Capacity
    BY <1>2, Limits DEF Size
  <2> QED
    BY <1>1, <2>1 DEF BaseInv, RRInv
<1>4. zero_copy \in BOOLEAN /\ o_direct \in BOOLEAN
  BY Zenon DEF ZCInit
<1>5. /\ zc = Idle /\ m_fd = "open" /\ file = <<>> /\ bytes_written = 0 /\ ~m_recording
      /\ rec = Off /\ recorded = <<>> /\ rec_from = 0
  BY DEF ZCInit, RRInit
<1>6. zc.pc = "off" /\ zc.write = None
  BY <1>5 DEF Idle
<1>7. FileInv
  <2>1. zc \in ZCStates
    <3>1. 0 \in 0..ChunkLimit /\ 0 \in 0..Len(stamps)
      BY <1>2, Limits
    <3> QED
      BY <1>5, <3>1 DEF Idle, ZCStates, ZCPlaces, NoIter
  <2>2. Len(file) = 0 /\ file \in Seq(Nat)
    BY <1>5
  <2> QED
    BY <1>5, <1>6, <2>1, <2>2 DEF FileInv, ZCStates
<1>8. SearchInv
  BY <1>5, <1>6 DEF SearchInv, Placeless
<1>9. ZeroCopyInv /\ OtherInv
  BY <1>1, <1>5, <1>6, <1>7, <1>8 DEF ZeroCopyInv, OtherInv, PointerInv
<1> QED
  BY <1>3, <1>4, <1>9 DEF ZCInv

(* With RawRecording's recorder.                                           *)
LEMMA OtherStep ==
  ASSUME BaseInv, OtherInv, RRNext, UNCHANGED zc_vars
  PROVE  BaseInv' /\ OtherInv'
<1>1. RRInv'
  BY RRInvNext DEF OtherInv
<1>2. OtherInv'
  BY <1>1 DEF OtherInv, zc_vars, file_vars
<1>3. (Size <= Capacity)'
  <2>1. CASE Environment
    BY <2>1, EnvironmentMoves DEF BaseInv
  <2>2. CASE Record \/ RecorderStep
    <3>1. UNCHANGED <<stamps, popped>>
      BY <2>2 DEF Record, RecorderStep, RecordBegin, Round, ReadFront, StoreFront, PassGate, Lookup, LeaveGate,
                  Walk, WriteChunk, NextChunk, RecordEnd, lb_vars
    <3> QED
      BY <3>1 DEF BaseInv, Size
  <2> QED
    BY <2>1, <2>2 DEF RRNext
<1> QED
  BY <1>1, <1>2, <1>3 DEF BaseInv, RRInv

LEMMA ZCInvNext == ZCInv /\ [ZCNext]_all_vars => ZCInv'
<1> SUFFICES ASSUME ZCInv, [ZCNext]_all_vars PROVE ZCInv'
  OBVIOUS
<1>1. CASE Others
  <2>1. UNCHANGED <<zero_copy, o_direct>>
    BY <1>1 DEF Others, zc_vars, file_vars
  <2>2. CASE zero_copy /\ Environment /\ UNCHANGED zc_vars
    BY <2>1, <2>2, BesidesStep DEF ZCInv
  <2>3. CASE ~zero_copy /\ RRNext /\ UNCHANGED zc_vars
    BY <2>1, <2>3, OtherStep DEF ZCInv
  <2> QED
    BY <1>1, <2>2, <2>3 DEF Others
<1>2. CASE ZCRecord \/ ZCStep
  <2>1. zero_copy
    BY <1>2 DEF ZCRecord, ZCStep, ZCBegin, ZCRound, ZCBlock, ZCPass, ZCNotify, ZCFirst, ZCStamp, ZCSkip, ZCSpin,
                ZCBack, ZCChunk, ZCPlace, ZCComplete, ZCEnd, At
  <2>2. BaseInv /\ ZeroCopyInv
    BY <2>1 DEF ZCInv
  <2>3. UNCHANGED <<zero_copy, o_direct>>
    BY <1>2, <2>2, RecorderGate
  <2>4. BaseInv' /\ ZeroCopyInv'
    BY <1>2, <2>2, ZCCommandStep, ZCWaitStep, ZCSearchStep, ZCBackStep, ZCChunkStep, ZCPlaceStep, ZCCompleteStep
       DEF ZCStep
  <2> QED
    BY <2>1, <2>3, <2>4 DEF ZCInv
<1>3. CASE AllOver \/ UNCHANGED all_vars
  <2>1. UNCHANGED <<gate_vars, lb_vars, pop_vars, rec_vars, zc_vars>>
    BY <1>3 DEF AllOver, all_vars, recording_vars
  <2>2. UNCHANGED <<zero_copy, zc, o_direct, m_fd, file, bytes_written, stamps, popped, pop_pc, cleaner>>
    BY <2>1 DEF zc_vars, file_vars, lb_vars, pop_vars, gate_vars
  <2>3. UNCHANGED <<m_next_timestamp_to_record, m_recording, rec, recorded, rec_from, records>>
    BY <2>1 DEF rec_vars
  <2>4. BaseInv'
    <3>1. GateInv'
      BY <2>1, GateInvNext DEF ZCInv, BaseInv
    <3>2. m_recording \in BOOLEAN /\ records \in 0..MaxRecords /\ m_next_timestamp_to_record \in 0..MaxTs + 1
      BY DEF ZCInv, BaseInv, RRTypeOK
    <3>3. m_recording' \in BOOLEAN
      BY <2>3, <3>2, Zenon
    <3> QED
      BY <2>1, <2>2, <2>3, <3>1, <3>2, <3>3, RecorderBase DEF ZCInv
  <2>5. CASE zero_copy
    <3>1. FileInv /\ SearchInv /\ PointerInv
      BY <2>5 DEF ZCInv, ZeroCopyInv
    <3>2. FileInv'
      BY <2>2, <3>1 DEF FileInv, FileUpTo, ZCStates, DirectFits
    <3>3. SearchInv'
      BY <2>2, <2>3, <3>1 DEF SearchInv, Ahead, Size, Front
    <3>4. PointerInv'
      BY <2>2, <2>3, <3>1 DEF PointerInv, Pointer, Ahead, FileUpTo, Position, Front, DirectFits
    <3> QED
      BY <2>2, <2>3, <2>4, <2>5, <3>2, <3>3, <3>4 DEF ZCInv, ZeroCopyInv
  <2>6. CASE ~zero_copy
    <3>1. [RRNext]_recording_vars
      BY <2>1 DEF recording_vars
    <3>2. RRInv'
      BY <2>6, <3>1, RRInvNext DEF ZCInv, OtherInv
    <3> QED
      BY <2>2, <2>4, <2>6, <3>2 DEF ZCInv, OtherInv
  <2> QED
    BY <2>5, <2>6
<1> QED
  BY <1>1, <1>2, <1>3 DEF ZCNext

LEMMA ZCInvariant == ZCSpec => []ZCInv
  BY ZCInvInit, ZCInvNext, PTL DEF ZCSpec

(* The pointer of the zero-copy recorder stays in the ring's memory and    *)
(* its iterator in the accepted data.                                      *)
THEOREM ZeroCopyTypeCorrect == ZCSpec => []ZCTypeOK
<1>1. ZCInv => ZCTypeOK
  <2> SUFFICES ASSUME ZCInv PROVE ZCTypeOK
    OBVIOUS
  <2>1. Len(stamps) \in Nat
    BY Numbers DEF ZCInv, BaseInv
  <2>2. zc \in ZCStates /\ m_fd \in {"open", "closed"} /\ bytes_written \in Nat
    <3>1. CASE zero_copy
      BY <3>1 DEF ZCInv, ZeroCopyInv, FileInv, ZCStates
    <3>2. CASE ~zero_copy
      <4>1. 0 \in 0..ChunkLimit /\ 0 \in 0..Len(stamps)
        BY <2>1, Limits
      <4> QED
        BY <3>2, <4>1 DEF ZCInv, OtherInv, Idle, ZCStates, ZCPlaces, NoIter
    <3> QED
      BY <3>1, <3>2
  <2>3. /\ zc.pc \in ZCPlaces /\ zc.write \in {None} \cup 0..EndOfBuffer - 1
        /\ zc.end \in {None} \cup 0..EndOfBuffer - 1
        /\ zc.chunks \in 0..ChunkLimit /\ zc.iter \in 0..Len(stamps)
    BY <2>2 DEF ZCStates
  <2> QED
    BY <2>2, <2>3 DEF ZCTypeOK, ZCPlaces, EndOfBuffer
<1> QED
  BY ZCInvariant, <1>1, PTL

(* With memory and chunks of whole blocks the zero-copy recorder always    *)
(* writes from an aligned pointer.                                         *)
LEMMA BlocksKeepPointerAligned == ZCInv => WritePointerAligned
<1> SUFFICES ASSUME ZCInv, BlocksFit, zc.pc = "chunk" PROVE zc.write % Alignment = 0
  BY DEF WritePointerAligned
<1>1. zero_copy
  BY DEF ZCInv, OtherInv, Idle
<1>2. SearchInv /\ PointerInv
  BY <1>1 DEF ZCInv, ZeroCopyInv
<1>3. PICK u \in Nat : Pointer(u)
  BY <1>2 DEF SearchInv, PointerInv
<1> QED
  BY <1>3 DEF Pointer

(* The file of a zero-copy recording is an unbroken piece of the stream,   *)
(* in whole elements at its end, cleanup() never pops what the recorder    *)
(* has begun to write before it is in the file, and although a failed      *)
(* write() passes for a success every byte counted is in the file: for any *)
(* capacity, payload size, alignment and chunk size without O_DIRECT, and  *)
(* with it when the memory and the chunks are whole blocks, the second of  *)
(* which conf() does not look at.  Then its pointer is always aligned.     *)
THEOREM ZeroCopyFileComplete == ZCSpec => []FileUnbroken
<1>1. ZCInv => FileUnbroken
  <2> SUFFICES ASSUME ZCInv, DirectFits PROVE Unbroken /\ PoppedIsWritten /\ CountedIsWritten
    BY BlocksKeepPointerAligned DEF FileUnbroken
  <2>0. PayloadSize \in Nat /\ PayloadSize > 0 /\ Len(stamps) \in Nat /\ popped \in Nat
    BY Numbers, MemoryNumbers DEF ZCInv, BaseInv
  <2>1. CASE ~zero_copy
    <3>1. file = <<>> /\ Len(file) = 0 /\ m_fd = "open" /\ bytes_written = 0
      BY <2>1 DEF ZCInv, OtherInv
    <3> QED
      BY <3>1 DEF Unbroken, PoppedIsWritten, CountedIsWritten
  <2>2. CASE zero_copy
    <3>1. FileInv /\ SearchInv /\ PointerInv
      BY <2>2 DEF ZCInv, ZeroCopyInv
    <3>2. file \in Seq(Nat) /\ Len(file) \in Nat
      BY <3>1, LenProperties DEF FileInv
    <3>3. CountedIsWritten
      BY <3>1 DEF FileInv, CountedIsWritten
    <3>4. CASE Len(file) = 0
      <4>1. file = <<>> /\ 0 % PayloadSize = 0
        BY <2>0, <3>2, <3>4, EmptySeq
      <4> QED
        BY <3>3, <3>4, <4>1 DEF Unbroken, PoppedIsWritten
    <3>5. ASSUME Len(file) # 0, NEW u \in Nat, FileUpTo(u)
          PROVE  /\ \A k \in 1..Len(file) - 1 : file[k + 1] = file[k] + 1
                 /\ file[1] # None /\ file[1] % PayloadSize = 0
                 /\ file[Len(file)] + 1 = u
      <4>1. PICK n \in Nat : n = Len(file)
        BY <3>2
      <4>2. n > 0 /\ n <= u /\ (u - n) % PayloadSize = 0 /\ \A k \in 1..n : file[k] = u - n + k - 1
        BY <3>5, <4>1 DEF FileUpTo
      <4>3. ASSUME NEW k \in 1..n - 1 PROVE file[k + 1] = file[k] + 1
        <5>1. k \in 1..n /\ k + 1 \in 1..n
          OBVIOUS
        <5>2. file[k] = u - n + k - 1 /\ file[k + 1] = u - n + (k + 1) - 1
          BY <4>2, <5>1
        <5> QED
          BY <5>2
      <4>4. 1 \in 1..n /\ n \in 1..n
        BY <4>2
      <4>5. file[1] = u - n + 1 - 1 /\ file[n] = u - n + n - 1
        BY <4>2, <4>4
      <4>6. file[1] = u - n /\ u - n \in Nat /\ file[n] + 1 = u
        BY <4>2, <4>5
      <4>7. file[1] # None
        BY <4>6 DEF None
      <4> QED
        BY <4>1, <4>2, <4>3, <4>6, <4>7
    <3>6. CASE Len(file) # 0 /\ zc.pc = "over"
      <4>1. m_fd = "closed" /\ Len(file) % PayloadSize = 0
        BY <3>1, <3>6 DEF FileInv
      <4>2. PICK u \in Nat : FileUpTo(u)
        BY <3>1, <3>6 DEF FileInv
      <4> QED
        BY <3>3, <3>5, <3>6, <4>1, <4>2 DEF Unbroken, PoppedIsWritten
    <3>7. CASE Len(file) # 0 /\ zc.pc # "over"
      <4>1. zc.write # None /\ m_fd = "open"
        BY <3>1, <3>7 DEF SearchInv, FileInv
      <4>2. PICK u \in Nat : Pointer(u)
        BY <3>1, <3>7, <4>1 DEF PointerInv
      <4>3. FileUpTo(u)
        BY <4>1, <4>2 DEF Pointer
      <4>4. file[Len(file)] + 1 = u
        BY <3>5, <3>7, <4>3
      <4>5. popped * PayloadSize <= u
        <5>1. PICK e \in Nat : e = u \div PayloadSize
          BY UnitPlace
        <5>2. popped <= e /\ u = PayloadSize * e + (u % PayloadSize) /\ u % PayloadSize \in Nat
          BY <2>0, <4>2, <5>1, UnitPlace DEF Pointer, Ahead
        <5>3. \A x, y, z \in Nat : x <= y => x * z <= z * y /\ x * z \in Nat /\ z * y \in Nat
          OBVIOUS
        <5>4. popped * PayloadSize <= PayloadSize * e /\ popped * PayloadSize \in Nat /\ PayloadSize * e \in Nat
          BY <2>0, <5>2, <5>3
        <5> QED
          BY <5>2, <5>4
      <4> QED
        BY <3>3, <3>5, <3>7, <4>1, <4>3, <4>4, <4>5 DEF Unbroken, PoppedIsWritten
    <3> QED
      BY <3>4, <3>6, <3>7
  <2> QED
    BY <2>1, <2>2
<1> QED
  BY ZCInvariant, <1>1, PTL

LEMMA ZCInvIsSafe == ZCInv => RecorderReadsLive /\ RecordingUnbroken /\ LeavingDataIsRecorded
<1> SUFFICES ASSUME ZCInv PROVE RecorderReadsLive /\ RecordingUnbroken /\ LeavingDataIsRecorded
  OBVIOUS
<1>1. CASE zero_copy
  <2>1. rec = Off /\ recorded = <<>> /\ rec_from = 0
    BY <1>1 DEF ZCInv, ZeroCopyInv
  <2>2. pop_pc = "compare" => Size > 0
    BY DEF ZCInv, BaseInv, PopInv
  <2>3. rec.pc # "write"
    BY <2>1 DEF Off, RecAt
  <2>4. RecorderReadsLive
    BY <2>2, <2>3 DEF RecorderReadsLive
  <2>5. RecordingUnbroken
    BY <2>1 DEF RecordingUnbroken
  <2>6. LeavingDataIsRecorded
    BY <2>1 DEF LeavingDataIsRecorded
  <2> QED
    BY <2>4, <2>5, <2>6
<1>2. CASE ~zero_copy
  BY <1>2, InvIsSafe, InvIsUnbroken, InvLosesNothing DEF ZCInv, OtherInv
<1> QED
  BY <1>1, <1>2

(* The same three properties where the handler may be either of the two    *)
(* (DefaultRequestHandlerModel::record, or the zero-copy override of it):  *)
(* cleanup() reads the front of a buffer that is not empty beside both,    *)
(* and beside record() the element written is held, the recording is       *)
(* unbroken and nothing leaves after its start that it has not written.    *)
THEOREM RecordingsAreSafe == ZCSpec => [](RecorderReadsLive /\ RecordingUnbroken /\ LeavingDataIsRecorded)
  BY ZCInvariant, ZCInvIsSafe, PTL
=============================================================================
