---------------------------- MODULE BufferProofs ----------------------------
(***************************************************************************)
(* Proofs for the latency buffers and how requests find data in them.      *)
(*                                                                         *)
(* SkipListBuffer, for any number of readers and any range of timestamps:  *)
(* the loop of skip_list_cleanup_request() keeps the tail it has seen in   *)
(* the list, because it only ever removes what is older by the maximum;    *)
(* that keeps the list from running empty under it, and gives a pointer    *)
(* that the loop has overtaken a witness of its age.                       *)
(*                                                                         *)
(* BufferSearch, for any ring, element and window: timestamps grow along   *)
(* the ring wherever it has wrapped, so the halves that the binary search  *)
(* drops hold nothing it looks for; behind the last gap that the consumer  *)
(* has found the elements are one span apart, so the fixed rate search may *)
(* divide; those that were there when a request found no gap registered    *)
(* stay so whatever arrives; and what lies before the iterator of a        *)
(* request lies before its window or came after that look.                 *)
(***************************************************************************)
EXTENDS SkipListBuffer, BufferSearch, CleanupGateProofs

(* The skip list                                                           *)

(* The cleanup runs with the gate shut and on a list that has elements; it *)
(* removes only what the tail it has seen outlives by the maximum.         *)
LoopInv == /\ c_pc # "look" => cleaner = "popping"
           /\ cleaner # "idle" => list # {}
           /\ c_pc \in {"head", "remove", "first"} => tail \in list
           /\ c_pc = "remove" => head \in list /\ tail - head >= m_max_ts_diff

(* Only a reader inside the gate has collected anything.                   *)
HeldInv == \A t \in Readers : /\ held[t] # {} => reader[t] = "inside"
                              /\ held[t] \subseteq list

(* Some element testifies to the age of a pointer that is dangling.        *)
PeekInv == peek # None => \/ peek \in list
                          \/ \E e \in list : e - peek >= m_max_ts_diff

SkipInv == GateInv /\ SkipTypeOK /\ LoopInv /\ HeldInv /\ PeekInv
-----------------------------------------------------------------------------
(* first() and last() of a list that is not empty.                         *)
LEMMA EndsOfList ==
  ASSUME SkipTypeOK, list # {}
  PROVE  /\ First \in list /\ Last \in list
         /\ First \in Ts /\ Last \in Ts
         /\ \A e \in list : First <= e /\ e <= Last
<1>1. list \in SUBSET Nat /\ list \in SUBSET (1..MaxTs) /\ MaxTs \in Nat
  BY SkipListAssumption DEF SkipTypeOK, Ts
<1>2. First \in list /\ \A e \in list : First <= e
  BY <1>1, MinOfSet DEF First
<1>3. Last \in list /\ \A e \in list : e <= Last
  BY <1>1, MaxOfSet DEF Last
<1> QED
  BY <1>2, <1>3 DEF SkipTypeOK

(* cleanup_check() over the limit finds a list that is not empty.          *)
LEMMA OverIsNotEmpty ==
  ASSUME SkipTypeOK, CheckOver
  PROVE  list # {}
<1>1. SUFFICES ASSUME list = {} PROVE FALSE
  OBVIOUS
<1>2. Cardinality(list) = 0 /\ PopLimit \in Nat /\ Cardinality(list) > PopLimit
  BY <1>1, FS_EmptySet, SkipListAssumption DEF CheckOver
<1> QED
  BY <1>2

(* The list and its users go through the gate in the steps of CleanupGate. *)
LEMMA UsesGate == [SkipNext]_skip_vars => [GateNext]_gate_vars
<1> SUFFICES ASSUME [SkipNext]_skip_vars PROVE [GateNext]_gate_vars
  OBVIOUS
<1>1. ASSUME NEW ts \in Ts, Write(ts) PROVE [GateNext]_gate_vars
  BY <1>1 DEF Write
<1>2. CASE CheckOver \/ CleanerGoesOn
  BY <1>2 DEF CheckOver, CleanerGoesOn, WakeCleaner, CleanupLook, CleanupHead, CleanupRemove,
              CleanupFirst, FinishCleanup, GateNext, CleanerStep
<1>3. ASSUME NEW t \in Readers, PassGate(t) \/ Collect(t) \/ Finish(t) PROVE [GateNext]_gate_vars
  BY <1>3 DEF PassGate, Collect, Finish, GateNext, ReaderStep
<1>4. CASE Peek \/ Peeked \/ Flush \/ Wakeup \/ UNCHANGED skip_vars
  BY <1>4 DEF Peek, Peeked, Flush, Wakeup, skip_vars, GateNext
<1> QED
  BY <1>1, <1>2, <1>3, <1>4 DEF SkipNext

LEMMA SkipInvInit == SkipInit => SkipInv
<1> SUFFICES ASSUME SkipInit PROVE SkipInv
  OBVIOUS
<1>1. GateInv
  BY GateInvInit DEF SkipInit
<1>2. SkipTypeOK
  BY DEF SkipInit, SkipTypeOK, None
<1> QED
  BY <1>1, <1>2 DEF SkipInit, GateInit, SkipInv, LoopInv, HeldInv, PeekInv

(* A step that leaves the list, the loop and the pointers alone.           *)
LEMMA GateStepKeeps ==
  ASSUME SkipInv, GateInv', UNCHANGED <<list, cleanup_vars, held, peek>>,
         cleaner' # "idle" => list # {},
         cleaner = "popping" => cleaner' = "popping",
         \A t \in Readers : reader[t] = "inside" => reader'[t] = "inside"
  PROVE  SkipInv'
<1>1. SkipTypeOK'
  BY DEF SkipInv, SkipTypeOK, cleanup_vars
<1>2. LoopInv'
  BY DEF SkipInv, LoopInv, cleanup_vars
<1>3. HeldInv'
  BY DEF SkipInv, HeldInv
<1>4. PeekInv'
  BY DEF SkipInv, PeekInv
<1> QED
  BY <1>1, <1>2, <1>3, <1>4 DEF SkipInv

(* The cleanup thread in its loop.                                         *)
LEMMA LoopStep ==
  ASSUME SkipInv, GateInv',
         CleanupLook \/ CleanupHead \/ CleanupRemove \/ CleanupFirst \/ FinishCleanup
  PROVE  SkipInv'
<1> USE DEF SkipInv
<1>1. CASE CleanupLook
  <2>1. list # {}
    BY <1>1 DEF LoopInv, CleanupLook
  <2>2. Last \in list /\ Last \in Ts
    BY <2>1, EndsOfList
  <2>3. SkipTypeOK'
    BY <1>1, <2>2 DEF CleanupLook, SkipTypeOK
  <2>4. LoopInv'
    BY <1>1, <2>1, <2>2 DEF LoopInv, CleanupLook, gate_vars
  <2> QED
    BY <1>1, <2>3, <2>4 DEF CleanupLook, HeldInv, PeekInv, gate_vars
<1>5. CASE CleanupHead
  <2>1. tail \in list
    BY <1>5 DEF LoopInv, CleanupHead
  <2>2. First \in list /\ First \in Ts
    BY <2>1, EndsOfList
  <2>3. SkipTypeOK'
    BY <1>5, <2>2 DEF CleanupHead, SkipTypeOK
  <2>4. First \in Nat /\ tail \in Nat /\ m_max_ts_diff \in Nat
    BY <2>1, <2>2, SkipListAssumption DEF SkipTypeOK, Ts
  <2>5. LoopInv'
    BY <1>5, <2>1, <2>2, <2>4 DEF LoopInv, CleanupHead, gate_vars
  <2> QED
    BY <1>5, <2>3, <2>5 DEF CleanupHead, HeldInv, PeekInv, gate_vars
<1>2. CASE CleanupRemove
  <2>1. /\ head \in list /\ tail \in list /\ tail - head >= m_max_ts_diff
        /\ cleaner = "popping" /\ Counted = {}
    BY <1>2 DEF LoopInv, CleanupRemove, GateInv, Exclusion
  <2>2. list \subseteq Nat /\ m_max_ts_diff \in Nat \ {0}
    BY SkipListAssumption DEF SkipTypeOK, Ts
  <2>3. tail # head /\ head \in Nat /\ tail \in Nat
    BY <2>1, <2>2
  <2>4. SkipTypeOK'
    BY <1>2 DEF CleanupRemove, SkipTypeOK
  <2>5. LoopInv'
    BY <1>2, <2>1, <2>3 DEF CleanupRemove, LoopInv, gate_vars
  <2>6. \A t \in Readers : held[t] = {}
    BY <2>1 DEF Counted, HeldInv
  <2>7. HeldInv'
    BY <1>2, <2>6 DEF CleanupRemove, HeldInv, gate_vars
  <2>8. PeekInv'
    <3> SUFFICES ASSUME peek # None
                 PROVE  peek \in list' \/ \E e \in list' : e - peek >= m_max_ts_diff
      BY <1>2 DEF PeekInv, CleanupRemove
    <3>1. tail \in list' /\ list' = list \ {head}
      BY <1>2, <2>1, <2>3 DEF CleanupRemove
    <3>2. CASE peek \in list
      BY <2>1, <3>1, <3>2
    <3>3. CASE \E e \in list : e - peek >= m_max_ts_diff
      <4>1. PICK e \in list : e - peek >= m_max_ts_diff
        BY <3>3
      <4>2. CASE e # head
        BY <3>1, <4>1, <4>2
      <4>3. CASE e = head
        <5>1. peek \in Nat
          BY SkipListAssumption DEF SkipTypeOK, Ts, None
        <5>2. tail - peek >= m_max_ts_diff
          BY <2>1, <2>2, <2>3, <4>1, <4>3, <5>1
        <5> QED
          BY <3>1, <5>2
      <4> QED
        BY <4>2, <4>3
    <3> QED
      BY <3>2, <3>3 DEF PeekInv
  <2> QED
    BY <2>4, <2>5, <2>7, <2>8
<1>3. CASE CleanupFirst
  <2>1. tail \in list
    BY <1>3 DEF LoopInv, CleanupFirst
  <2>2. First \in list /\ First \in Ts
    BY <2>1, EndsOfList
  <2>3. SkipTypeOK'
    BY <1>3, <2>2 DEF CleanupFirst, SkipTypeOK
  <2>4. LoopInv'
    BY <1>3, <2>1, <2>2 DEF CleanupFirst, LoopInv, GoesOn, gate_vars
  <2> QED
    BY <1>3, <2>3, <2>4 DEF CleanupFirst, HeldInv, PeekInv, gate_vars
<1>4. CASE FinishCleanup
  <2>1. SkipTypeOK'
    BY <1>4 DEF FinishCleanup, SkipTypeOK
  <2>2. LoopInv'
    BY <1>4 DEF FinishCleanup, CleanupDone, LoopInv
  <2> QED
    BY <1>4, <2>1, <2>2 DEF FinishCleanup, CleanupDone, HeldInv, PeekInv
<1> QED
  BY <1>1, <1>2, <1>3, <1>4, <1>5

LEMMA SkipInvNext == SkipInv /\ [SkipNext]_skip_vars => SkipInv'
<1> SUFFICES ASSUME SkipInv, [SkipNext]_skip_vars PROVE SkipInv'
  OBVIOUS
<1> USE DEF SkipInv
<1>1. GateInv'
  BY UsesGate, GateInvNext
<1>2. ASSUME NEW ts \in Ts, Write(ts) PROVE SkipInv'
  <2>1. SkipTypeOK'
    BY <1>2 DEF Write, SkipTypeOK, cleanup_vars
  <2>2. LoopInv'
    BY <1>2 DEF Write, LoopInv, cleanup_vars, gate_vars
  <2>3. HeldInv' /\ PeekInv'
    BY <1>2 DEF Write, HeldInv, PeekInv, gate_vars
  <2> QED
    BY <1>1, <2>1, <2>2, <2>3
<1>3. CASE CheckOver
  <2>1. list # {}
    BY <1>3, OverIsNotEmpty
  <2>2. cleaner = "idle" /\ UNCHANGED <<reader, list, cleanup_vars, held, peek>>
    BY <1>3 DEF CheckOver, CleanupCheck
  <2> QED
    BY <1>1, <2>1, <2>2, GateStepKeeps
<1>4. CASE WakeCleaner
  <2>1. list # {}
    BY <1>4 DEF WakeCleaner, CleanupWake, LoopInv
  <2>2. cleaner = "waiting" /\ UNCHANGED <<reader, list, cleanup_vars, held, peek>>
    BY <1>4 DEF WakeCleaner, CleanupWake
  <2> QED
    BY <1>1, <2>1, <2>2, GateStepKeeps
<1>5. CASE CleanupLook \/ CleanupHead \/ CleanupRemove \/ CleanupFirst \/ FinishCleanup
  BY <1>1, <1>5, LoopStep
<1>6. ASSUME NEW t \in Readers, PassGate(t) PROVE SkipInv'
  <2>1. UNCHANGED <<cleaner, list, cleanup_vars, held, peek>>
    BY <1>6 DEF PassGate, Arrive, Enter, Block, NotifyEntered, NotifyLeft
  <2>2. \A u \in Readers : reader[u] = "inside" => reader'[u] = "inside"
    BY <1>6 DEF PassGate, Arrive, Enter, Block, NotifyEntered, NotifyLeft, GateInv, GateTypeOK
  <2>3. cleaner' # "idle" => list # {}
    BY <2>1 DEF LoopInv
  <2> QED
    BY <1>1, <2>1, <2>2, <2>3, GateStepKeeps
<1>7. ASSUME NEW t \in Readers, Collect(t) PROVE SkipInv'
  <2>1. PICK begin \in Ts :
          held' = [held EXCEPT ![t] = {First, Last} \cup {e \in list : e >= begin}]
    BY <1>7 DEF Collect
  <2>2. First \in list /\ Last \in list
    BY <1>7, EndsOfList DEF Collect
  <2> DEFINE h == {First, Last} \cup {e \in list : e >= begin}
  <2>3. h \subseteq list
    BY <2>2
  <2>4. held'[t] = h /\ (\A u \in Readers \ {t} : held'[u] = held[u])
    BY <2>1 DEF SkipTypeOK
  <2>5. SkipTypeOK'
    BY <1>7, <2>1, <2>3 DEF Collect, SkipTypeOK, cleanup_vars
  <2> HIDE DEF h
  <2>6. HeldInv'
    BY <1>7, <2>3, <2>4 DEF Collect, HeldInv, gate_vars
  <2>7. LoopInv' /\ PeekInv'
    BY <1>7 DEF Collect, LoopInv, PeekInv, cleanup_vars, gate_vars
  <2> QED
    BY <1>1, <2>5, <2>6, <2>7
<1>8. ASSUME NEW t \in Readers, Finish(t) PROVE SkipInv'
  <2>1. SkipTypeOK'
    BY <1>8 DEF Finish, SkipTypeOK, cleanup_vars
  <2>2. HeldInv'
    BY <1>8 DEF Finish, Leave, HeldInv, SkipTypeOK, GateInv, GateTypeOK
  <2>3. LoopInv' /\ PeekInv'
    BY <1>8 DEF Finish, Leave, LoopInv, PeekInv, cleanup_vars
  <2> QED
    BY <1>1, <2>1, <2>2, <2>3
<1>9. CASE Peek
  <2>1. Last \in list /\ Last \in Ts
    BY <1>9, EndsOfList DEF Peek
  <2>2. SkipTypeOK'
    BY <1>9, <2>1 DEF Peek, SkipTypeOK, cleanup_vars
  <2>3. PeekInv'
    BY <1>9, <2>1 DEF Peek, PeekInv
  <2> QED
    BY <1>1, <1>9, <2>2, <2>3 DEF Peek, LoopInv, HeldInv, cleanup_vars, gate_vars
<1>10. CASE Peeked
  <2>1. SkipTypeOK'
    BY <1>10 DEF Peeked, SkipTypeOK, cleanup_vars
  <2> QED
    BY <1>1, <1>10, <2>1 DEF Peeked, PeekInv, LoopInv, HeldInv, cleanup_vars, gate_vars
<1>11. CASE Flush
  <2>1. SkipTypeOK'
    BY <1>11 DEF Flush, SkipTypeOK, cleanup_vars
  <2>2. \A t \in Readers : held[t] = {}
    BY <1>11 DEF Flush, HeldInv
  <2>3. HeldInv'
    BY <1>11, <2>2 DEF Flush, HeldInv
  <2>4. LoopInv' /\ PeekInv'
    BY <1>11 DEF Flush, LoopInv, PeekInv, cleanup_vars, gate_vars
  <2> QED
    BY <1>1, <2>1, <2>3, <2>4
<1>12. CASE Wakeup
  <2>1. UNCHANGED <<cleaner, reader, list, cleanup_vars, held, peek>>
    BY <1>12 DEF Wakeup, SpuriousWakeup
  <2>2. cleaner' # "idle" => list # {}
    BY <2>1 DEF LoopInv
  <2> QED
    BY <1>1, <2>1, <2>2, GateStepKeeps
<1>13. CASE UNCHANGED skip_vars
  <2>1. UNCHANGED <<cleaner, reader, list, cleanup_vars, held, peek>>
    BY <1>13 DEF skip_vars, gate_vars
  <2>2. cleaner' # "idle" => list # {}
    BY <2>1 DEF LoopInv
  <2> QED
    BY <1>1, <2>1, <2>2, GateStepKeeps
<1> HIDE DEF SkipInv
<1> QED
  BY <1>2, <1>3, <1>4, <1>5, <1>6, <1>7, <1>8, <1>9, <1>10, <1>11, <1>12, <1>13
  DEF SkipNext, CleanerGoesOn
-----------------------------------------------------------------------------
(* The skip list, the loop and the pointers into it keep their shape.      *)
THEOREM SkipTypeCorrect == SkipSpec => []SkipTypeOK
<1>1. SkipInv => SkipTypeOK
  BY DEF SkipInv
<1> QED
  BY SkipInvInit, SkipInvNext, <1>1, PTL DEF SkipSpec

(* The loop of skip_list_cleanup_request() never dereferences first() of   *)
(* an empty list and never subtracts a later time from an earlier one,     *)
(* whatever the consumer inserts meanwhile.                                *)
THEOREM LoopIsSafe == SkipSpec => []LoopStaysInside
<1>1. SkipInv => LoopStaysInside
  <2> SUFFICES ASSUME SkipInv PROVE LoopStaysInside
    OBVIOUS
  <2>1. m_max_ts_diff \in Nat /\ list \subseteq Nat
    BY SkipListAssumption DEF SkipInv, SkipTypeOK, Ts
  <2>2. c_pc = "remove" => head \in list /\ head <= tail
    <3> SUFFICES ASSUME c_pc = "remove" PROVE head \in list /\ head <= tail
      OBVIOUS
    <3>1. head \in list /\ tail \in list /\ tail - head >= m_max_ts_diff
      BY DEF SkipInv, LoopInv
    <3>2. head \in Nat /\ tail \in Nat
      BY <2>1, <3>1
    <3> QED
      BY <2>1, <3>1, <3>2
  <2> QED
    BY <2>2 DEF SkipInv, LoopInv, LoopStaysInside
<1> QED
  BY SkipInvInit, SkipInvNext, <1>1, PTL DEF SkipSpec

(* What a request handling thread has collected stays in the list until it *)
(* leaves the gate, and the unguarded look of check_waiting_requests() is  *)
(* at an element that is there or has been outlived by the maximum.        *)
THEOREM SkipPointersLive == SkipSpec => []PointersAreLive
<1>1. SkipInv => PointersAreLive
  <2> SUFFICES ASSUME SkipInv, peek # None, peek \notin list
               PROVE  Last - peek >= m_max_ts_diff
    BY DEF SkipInv, HeldInv, PointersAreLive
  <2>1. PICK e \in list : e - peek >= m_max_ts_diff
    BY DEF SkipInv, PeekInv
  <2>2. Last \in Ts /\ e <= Last
    BY <2>1, EndsOfList DEF SkipInv
  <2>3. e \in Nat /\ Last \in Nat /\ peek \in Nat /\ m_max_ts_diff \in Nat
    BY <2>1, <2>2, SkipListAssumption DEF SkipInv, SkipTypeOK, Ts, None
  <2> QED
    BY <2>1, <2>2, <2>3
<1> QED
  BY SkipInvInit, SkipInvNext, <1>1, PTL DEF SkipSpec

-----------------------------------------------------------------------------
(* The look-up                                                             *)

(* The i-th element from the front.                                        *)
Nth(i) == Wrap(readIndex_ + i)

(* Timestamps grow along the ring, whether or not it has wrapped.          *)
GrowInv == /\ \A i, j \in 0..Count - 1 : i < j => records_[Nth(i)] < records_[Nth(j)]
           /\ \A i \in 0..Count - 1 : records_[Nth(i)] < next_ts

(* The elements since the last gap are one span apart.                     *)
RateInv == search \notin Overflowing =>
             \A i \in 0..Count - 1 : records_[Nth(i)] >= LastGap =>
                                       records_[Nth(i)] + (Count - i) * Span = next_ts

(* The consumer's element follows the others, and not at a distance unless *)
(* the registry knows.                                                     *)
ConsumerInv == /\ consumer.pc # "wait" => next_ts <= consumer.ts
               /\ consumer.pc = "write" => consumer.ts = next_ts \/ missing = consumer.ts

(* The first c elements are one span apart and end at u, where the others  *)
(* have yet to begin.                                                      *)
EvenUpTo(u, c) == /\ u = Front + c * Span /\ u <= next_ts
                  /\ \A i \in 0..c - 1 : records_[Nth(i)] = Front + i * Span
                  /\ \A i \in c..Count - 1 : records_[Nth(i)] >= u

(* The j-th element is the iterator's, and what is before it is before the *)
(* window or not before u.                                                 *)
StartsAt(j, u) == /\ query.iter = Nth(j)
                  /\ \A i \in 0..j - 1 : \/ records_[Nth(i)] + Span <= query.begin
                                         \/ records_[Nth(i)] >= u

(* A request on its way: what its look at the registry counts for, and     *)
(* where its iterator stands.                                              *)
QueryInv == /\ query = Idle \/ /\ query.pc \in {"asked", "search", "notyet", "collect", "done"}
                               /\ query.begin \in WindowEdges /\ query.end \in WindowEdges
                               /\ query.begin < query.end
                               /\ Count > 0
            /\ query.pc \in {"search", "collect"} => query.upto \in Nat
            /\ query.pc = "search" /\ FixedRate /\ ~query.with_errors /\ query.upto # 0
                 => \E c \in 1..Count : EvenUpTo(query.upto, c)
            /\ query.pc = "collect" => \E j \in 0..Count : StartsAt(j, query.upto)

BSInv == BSTypeOK /\ GrowInv /\ RateInv /\ ConsumerInv
-----------------------------------------------------------------------------
(* The numbers of the look-up.                                             *)
LEMMA SearchNumbers ==
  /\ Size \in Nat /\ Size >= 2 /\ NumFrames \in Nat /\ NumFrames > 0 /\ Tick \in Nat /\ Tick > 0
  /\ Span \in Nat /\ Span >= Tick /\ Span = NumFrames * Tick
  /\ LastTs \in Nat /\ FirstTs \in Nat /\ FirstTs <= LastTs /\ FirstWindow \in Nat /\ MaxGap \in Nat
  /\ TsModulus \in Nat /\ TsModulus > LastTs
<1>1. /\ Size \in Nat /\ Size >= 2 /\ NumFrames \in Nat /\ NumFrames > 0 /\ Tick \in Nat /\ Tick > 0
      /\ LastTs \in Nat /\ FirstTs \in Nat /\ FirstTs <= LastTs /\ FirstWindow \in Nat /\ MaxGap \in Nat
      /\ TsModulus \in Nat
  BY SearchAssumption
<1>2. \A x, y \in Nat : y > 0 /\ x > 0 => x * y \in Nat /\ x * y >= y
  OBVIOUS
<1>3. NumFrames * Tick \in Nat /\ NumFrames * Tick >= Tick
  BY <1>1, <1>2
<1>4. Size * NumFrames * Tick \in Nat
  <2>1. \A x, y, z \in Nat : x * y * z \in Nat
    OBVIOUS
  <2> QED
    BY <1>1, <2>1
<1>5. TsModulus > LastTs
  BY <1>1, <1>4, SearchAssumption
<1> QED
  BY <1>1, <1>3, <1>5 DEF Span

(* Index arithmetic of the ring, wherever it has wrapped.                  *)
LEMMA NthSlot ==
  ASSUME readIndex_ \in Slots, writeIndex_ \in Slots
  PROVE  /\ Count \in 0..Size - 1 /\ Nth(Count) = writeIndex_ /\ Nth(0) = readIndex_
         /\ \A i \in 0..Size - 1 : Nth(i) \in Slots
         /\ \A i, j \in 0..Size - 1 : Nth(i) = Nth(j) => i = j
         /\ Before(writeIndex_) \in Slots
         /\ Count > 0 => Before(writeIndex_) = Nth(Count - 1)
BY SearchNumbers DEF Slots, Count, Distance, Nth, Wrap, Before

LEMMA NthMoves ==
  ASSUME readIndex_ \in Slots, NEW i \in 0..Size - 1, NEW j \in 0..Size - 1, i <= j
  PROVE  /\ Distance(Nth(i), Nth(j)) = j - i
         /\ Wrap(Nth(i) + 1) = Nth(i + 1)
         /\ i > 0 => Before(Nth(i)) = Nth(i - 1)
         /\ Wrap(Nth(i) + (j - i)) = Nth(j)
BY SearchNumbers DEF Slots, Distance, Nth, Wrap, Before

(* Iterator::good() holds of the elements between the indices, and no      *)
(* others; operator++ takes them one by one.                               *)
LEMMA GoodIsHeld ==
  ASSUME readIndex_ \in Slots, writeIndex_ \in Slots, NEW i \in 0..Size - 1
  PROVE  Good(Nth(i)) <=> i < Count
BY SearchNumbers DEF Slots, Count, Distance, Nth, Wrap, Good, End

LEMMA AdvanceIs ==
  ASSUME readIndex_ \in Slots, writeIndex_ \in Slots, NEW i \in 0..Count
  PROVE  /\ Advance(Nth(i)) = IF i + 1 < Count THEN Nth(i + 1) ELSE End
         /\ Advance(End) = End
<1>1. Count \in 0..Size - 1
  BY NthSlot
<1>2. ~Good(End) /\ Advance(End) = End
  BY DEF Good, Advance
<1>3. CASE i = Count
  <2>1. ~Good(Nth(i))
    BY <1>1, <1>3, GoodIsHeld
  <2> QED
    BY <1>1, <1>2, <1>3, <2>1 DEF Advance
<1>4. CASE i < Count
  <2>0. i \in 0..Size - 1 /\ i + 1 \in 0..Size - 1
    BY <1>1, <1>4, SearchNumbers
  <2>1. Good(Nth(i)) /\ Wrap(Nth(i) + 1) = Nth(i + 1)
    BY <1>4, <2>0, GoodIsHeld, NthMoves
  <2>2. Good(Nth(i + 1)) <=> i + 1 < Count
    BY <2>0, GoodIsHeld
  <2> QED
    BY <1>1, <1>2, <1>4, <2>1, <2>2 DEF Advance
<1> QED
  BY <1>1, <1>3, <1>4

LEMMA MiddleIs ==
  ASSUME readIndex_ \in Slots, NEW i \in 0..Size - 1, NEW j \in 0..Size - 1, i <= j
  PROVE  \E m \in i..j : /\ Middle(Nth(i), Nth(j)) = Nth(m)
                         /\ i < j => i < m
<1> DEFINE h == (j - i + 1) \div 2
<1>1. h \in 0..j - i /\ (i < j => h > 0)
  BY SearchNumbers
<1>2. Middle(Nth(i), Nth(j)) = Wrap(Nth(i) + h)
  BY NthMoves DEF Middle
<1> HIDE DEF h
<1>3. Wrap(Nth(i) + h) = Nth(i + h)
  BY <1>1, SearchNumbers DEF Slots, Nth, Wrap
<1>4. i + h \in i..j /\ (i < j => i < i + h)
  BY <1>1
<1> QED
  BY <1>2, <1>3, <1>4
-----------------------------------------------------------------------------
(* The recursive definition is a function with the values it says.         *)
PassesUpTo(f, m, step, x) == f = [n \in 0..m |-> IF n = 0 THEN x ELSE step[f[n - 1]]]

LEMMA PassesAre ==
  ASSUME NEW step, NEW x
  PROVE  /\ Passes(step, x)[0] = x
         /\ \A n \in 0..Size : n # 0 => Passes(step, x)[n] = step[Passes(step, x)[n - 1]]
<1> DEFINE B == {m \in Nat : ~\E f : PassesUpTo(f, m, step, x)}
<1>1. B = {}
  <2>1. SUFFICES ASSUME B # {} PROVE FALSE
    OBVIOUS
  <2>2. PICK m \in B : \A y \in B : m <= y
    <3>1. B \in SUBSET Nat
      OBVIOUS
    <3> HIDE DEF B
    <3> QED
      BY <2>1, <3>1, MinOfSet
  <2>3. m \in Nat /\ ~\E f : PassesUpTo(f, m, step, x)
    OBVIOUS
  <2>4. CASE m = 0
    <3>1. PassesUpTo([n \in 0..0 |-> x], 0, step, x)
      BY DEF PassesUpTo
    <3> QED
      BY <2>3, <2>4, <3>1
  <2>5. CASE m # 0
    <3>1. m - 1 \in Nat /\ m - 1 \notin B
      BY <2>2, <2>3, <2>5
    <3>2. PICK f : PassesUpTo(f, m - 1, step, x)
      BY <3>1
    <3> DEFINE F == [n \in 0..m |-> IF n = 0 THEN x ELSE step[f[n - 1]]]
    <3>3. ASSUME NEW n \in 0..m - 1 PROVE F[n] = f[n]
      <4>1. f = [j \in 0..m - 1 |-> IF j = 0 THEN x ELSE step[f[j - 1]]]
        BY <3>2 DEF PassesUpTo
      <4>2. f[n] = IF n = 0 THEN x ELSE step[f[n - 1]]
        BY <4>1
      <4>3. n \in 0..m
        BY <2>3
      <4> QED
        BY <4>2, <4>3
    <3>4. ASSUME NEW n \in 0..m, n # 0 PROVE F[n] = step[F[n - 1]]
      <4>1. n - 1 \in 0..m - 1
        BY <2>3, <3>4
      <4>2. F[n - 1] = f[n - 1]
        BY <3>3, <4>1
      <4>3. F[n] = step[f[n - 1]]
        BY <3>4
      <4> QED
        BY <4>2, <4>3
    <3>5. F[0] = x
      BY <2>3
    <3>6. PassesUpTo(F, m, step, x)
      <4>1. F = [n \in 0..m |-> F[n]]
        OBVIOUS
      <4>2. ASSUME NEW n \in 0..m PROVE F[n] = IF n = 0 THEN x ELSE step[F[n - 1]]
        BY <3>4, <3>5
      <4> HIDE DEF F
      <4> QED
        BY <4>1, <4>2 DEF PassesUpTo
    <3> QED
      BY <2>3, <3>6
  <2> QED
    BY <2>4, <2>5
<1>2. \E f : PassesUpTo(f, Size, step, x)
  BY <1>1, SearchNumbers
<1>3. PassesUpTo(Passes(step, x), Size, step, x)
  BY <1>2 DEF Passes, PassesUpTo
<1> HIDE DEF B
<1>4. 0 \in 0..Size
  BY SearchNumbers
<1> QED
  BY <1>3, <1>4 DEF PassesUpTo

(* The reference: the j-th element is the first not older than k, if those *)
(* before it are older and it is not; past the newest one, if all are.     *)
LEMMA FirstIs ==
  ASSUME BSTypeOK, GrowInv, NEW k \in Int, NEW j \in 0..Count,
         \A i \in 0..j - 1 : records_[Nth(i)] < k,
         j < Count => k <= records_[Nth(j)]
  PROVE  FirstNotOlder(k) = Nth(j)
<1> DEFINE later == {s \in Occupied : records_[s] >= k}
<1>0. Count \in 0..Size - 1 /\ Nth(Count) = writeIndex_ /\ Size \in Nat
      /\ \A i \in 0..Count - 1 : Nth(i) \in Slots /\ records_[Nth(i)] \in Nat
  <2>1. Count \in 0..Size - 1 /\ Nth(Count) = writeIndex_ /\ \A i \in 0..Size - 1 : Nth(i) \in Slots
    BY NthSlot DEF BSTypeOK
  <2>2. \A s \in Slots : records_[s] \in Nat
    BY SearchNumbers DEF BSTypeOK
  <2>3. \A i \in 0..Count - 1 : i \in 0..Size - 1
    BY <2>1, SearchNumbers
  <2> QED
    BY <2>1, <2>2, <2>3, SearchNumbers
<1>1. Occupied = {Nth(i) : i \in 0..Count - 1}
  BY DEF Occupied, Nth
<1>2. ASSUME NEW s \in later PROVE \E i \in j..Count - 1 : s = Nth(i)
  <2>1. PICK i \in 0..Count - 1 : s = Nth(i)
    BY <1>1
  <2>2. ~(records_[Nth(i)] < k)
    BY <1>0, <2>1
  <2>3. i \notin 0..j - 1
    BY <2>2
  <2>4. i \in j..Count - 1
    BY <1>0, <2>3
  <2> QED
    BY <2>1, <2>4
<1>3. CASE j = Count
  <2>1. later = {}
    BY <1>0, <1>2, <1>3
  <2> QED
    BY <1>0, <1>3, <2>1 DEF FirstNotOlder
<1>4. CASE j < Count
  <2>0. j \in 0..Count - 1
    BY <1>0, <1>4
  <2>1. Nth(j) \in later
    <3>1. Nth(j) \in Occupied /\ records_[Nth(j)] \in Nat
      BY <1>0, <1>1, <2>0
    <3> QED
      BY <1>4, <3>1
  <2>2. ASSUME NEW s \in later
        PROVE  records_[s] \in Nat /\ records_[Nth(j)] <= records_[s] /\ (s # Nth(j) => records_[Nth(j)] < records_[s])
    <3>1. PICK i \in j..Count - 1 : s = Nth(i)
      BY <1>2
    <3>2. i \in 0..Count - 1
      BY <1>0
    <3>3. CASE i = j
      BY <1>0, <2>0, <3>1, <3>3
    <3>4. CASE i # j
      <4>1. j < i
        BY <1>0, <3>4
      <4>2. records_[Nth(j)] < records_[Nth(i)]
        BY <2>0, <3>2, <4>1 DEF GrowInv
      <4> QED
        BY <1>0, <2>0, <3>1, <3>2, <4>2
    <3> QED
      BY <3>3, <3>4
  <2> DEFINE c == CHOOSE i \in later : \A s \in later : records_[i] <= records_[s]
  <2>3. FirstNotOlder(k) = c
    BY <2>1 DEF FirstNotOlder
  <2> HIDE DEF later
  <2>4. c \in later /\ records_[c] <= records_[Nth(j)]
    BY <2>1, <2>2
  <2> HIDE DEF c
  <2>5. records_[Nth(j)] \in Nat /\ records_[c] \in Nat
    BY <2>1, <2>2, <2>4
  <2>6. c = Nth(j)
    BY <2>2, <2>4, <2>5
  <2> QED
    BY <2>3, <2>6
<1> QED
  BY <1>0, <1>3, <1>4
-----------------------------------------------------------------------------
(* The binary search                                                       *)

(* The slots that n passes have left: the first is not newer than the key, *)
(* what follows the last is; the search is over, or n slots are dropped.   *)
Narrowed(k, r, n) ==
  \E a, b \in 0..Count - 1 :
    /\ a <= b /\ r = [start_index |-> Nth(a), end_index |-> Nth(b)]
    /\ records_[Nth(a)] <= k
    /\ b + 1 < Count => k < records_[Nth(b + 1)]
    /\ b - a <= Size - n \/ k = records_[Middle(Nth(a), Nth(b))]

LEMMA HeldNumbers ==
  ASSUME BSTypeOK
  PROVE  /\ Count \in 0..Size - 1 /\ Count \in Nat /\ Size \in Nat
         /\ \A i \in 0..Count - 1 : i \in 0..Size - 1 /\ Nth(i) \in Slots /\ records_[Nth(i)] \in Nat
<1>1. Count \in 0..Size - 1 /\ \A i \in 0..Size - 1 : Nth(i) \in Slots
  BY NthSlot DEF BSTypeOK
<1>2. \A s \in Slots : records_[s] \in Nat
  BY SearchNumbers DEF BSTypeOK
<1>3. \A i \in 0..Count - 1 : i \in 0..Size - 1
  BY <1>1, SearchNumbers
<1> QED
  BY <1>1, <1>2, <1>3, SearchNumbers

LEMMA HalveNarrows ==
  ASSUME BSTypeOK, NEW k \in Int, NEW r, NEW n \in 0..Size - 1, Narrowed(k, r, n)
  PROVE  r \in Ranges /\ Narrowed(k, Halve(k, r), n + 1)
<1>0. /\ Count \in 0..Size - 1 /\ Count \in Nat /\ Size \in Nat
      /\ \A i \in 0..Count - 1 : i \in 0..Size - 1 /\ Nth(i) \in Slots /\ records_[Nth(i)] \in Nat
  BY HeldNumbers
<1>1. PICK a \in 0..Count - 1, b \in 0..Count - 1 :
        /\ a <= b /\ r = [start_index |-> Nth(a), end_index |-> Nth(b)]
        /\ records_[Nth(a)] <= k
        /\ b + 1 < Count => k < records_[Nth(b + 1)]
        /\ b - a <= Size - n \/ k = records_[Middle(Nth(a), Nth(b))]
  BY DEF Narrowed
<1>2. r \in Ranges
  BY <1>0, <1>1 DEF Ranges
<1>3. /\ readIndex_ \in Slots /\ writeIndex_ \in Slots /\ a \in 0..Size - 1 /\ b \in 0..Size - 1
  BY <1>0 DEF BSTypeOK
<1>4. PICK m \in a..b : Middle(Nth(a), Nth(b)) = Nth(m) /\ (a < b => a < m)
  BY <1>1, <1>3, MiddleIs
<1>5. m \in 0..Count - 1 /\ m \in Nat /\ a \in Nat /\ b \in Nat /\ records_[Nth(m)] \in Nat
  <2>1. m \in 0..Count - 1 /\ m \in Nat /\ a \in Nat /\ b \in Nat
    BY <1>0
  <2> QED
    BY <1>0, <2>1
<1>6. Nth(a) = Nth(b) <=> a = b
  BY <1>3, NthSlot
<1>7. Halve(k, r) = IF k = records_[Nth(m)] \/ a = b THEN r
                    ELSE IF k < records_[Nth(m)] THEN [start_index |-> Nth(a), end_index |-> Before(Nth(m))]
                    ELSE [start_index |-> Nth(m), end_index |-> Nth(b)]
  BY <1>1, <1>4, <1>6 DEF Halve
<1>8. CASE k = records_[Nth(m)] \/ a = b
  <2>1. b - a <= Size - (n + 1) \/ k = records_[Middle(Nth(a), Nth(b))]
    BY <1>0, <1>4, <1>5, <1>8
  <2> QED
    BY <1>1, <1>2, <1>7, <1>8, <2>1 DEF Narrowed
<1>9. CASE k # records_[Nth(m)] /\ a # b /\ k < records_[Nth(m)]
  <2>1. a < m /\ m <= b /\ b - a <= Size - n
    BY <1>1, <1>4, <1>5, <1>9
  <2>2. Before(Nth(m)) = Nth(m - 1)
    <3>1. m > 0 /\ m \in 0..Size - 1
      BY <1>0, <1>5, <2>1
    <3> QED
      BY <1>3, <3>1, NthMoves
  <2>3. /\ m - 1 \in 0..Count - 1 /\ a <= m - 1 /\ (m - 1) + 1 = m
        /\ (m - 1) - a <= Size - (n + 1)
    BY <1>0, <1>5, <2>1
  <2>4. Halve(k, r) = [start_index |-> Nth(a), end_index |-> Nth(m - 1)]
    BY <1>7, <1>9, <2>2
  <2> QED
    BY <1>1, <1>2, <1>9, <2>3, <2>4 DEF Narrowed
<1>10. CASE k # records_[Nth(m)] /\ a # b /\ ~(k < records_[Nth(m)])
  <2>1. a < m /\ m <= b /\ b - a <= Size - n
    BY <1>1, <1>4, <1>5, <1>10
  <2>2. b - m <= Size - (n + 1) /\ records_[Nth(m)] <= k
    BY <1>0, <1>5, <1>10, <2>1
  <2>3. Halve(k, r) = [start_index |-> Nth(m), end_index |-> Nth(b)]
    BY <1>7, <1>10
  <2> QED
    BY <1>1, <1>2, <1>5, <2>1, <2>2, <2>3 DEF Narrowed
<1> QED
  BY <1>8, <1>9, <1>10

(* Size passes are enough: what is left for the last one is one slot, or   *)
(* has the key in its middle.                                              *)
LEMMA LastPassNarrowed ==
  ASSUME BSTypeOK, Count > 0, NEW k \in Int, Front <= k
  PROVE  Narrowed(k, LastPass(k), Size)
<1>0. Count \in 0..Size - 1 /\ Count \in Nat /\ Size \in Nat /\ Size > 0
  BY HeldNumbers, SearchNumbers
<1>1. Nth(0) = readIndex_ /\ Before(writeIndex_) = Nth(Count - 1)
  BY NthSlot DEF BSTypeOK
<1> DEFINE step == [r \in Ranges |-> Halve(k, r)]
           all == [start_index |-> readIndex_, end_index |-> Before(writeIndex_)]
           p == Passes(step, all)
           Stuck == {n \in 0..Size : ~Narrowed(k, p[n], n)}
<1>2. /\ p[0] = all
      /\ \A n \in 0..Size : n # 0 => p[n] = step[p[n - 1]]
  BY PassesAre
<1>3. Narrowed(k, all, 0)
  <2>1. 0 \in 0..Count - 1 /\ Count - 1 \in 0..Count - 1 /\ 0 <= Count - 1 /\ ~((Count - 1) + 1 < Count)
        /\ (Count - 1) - 0 <= Size - 0
    BY <1>0
  <2>2. records_[Nth(0)] <= k
    BY <1>1 DEF Front
  <2> QED
    BY <1>1, <2>1, <2>2 DEF Narrowed
<1> HIDE DEF all, p
<1>4. Stuck = {}
  <2>1. SUFFICES ASSUME Stuck # {} PROVE FALSE
    OBVIOUS
  <2>2. PICK n \in Stuck : \A y \in Stuck : n <= y
    <3>1. Stuck \in SUBSET Nat
      BY <1>0
    <3> HIDE DEF Stuck
    <3> QED
      BY <2>1, <3>1, MinOfSet
  <2>3. n \in 0..Size /\ ~Narrowed(k, p[n], n)
    OBVIOUS
  <2>4. n # 0
    BY <1>2, <1>3, <2>3
  <2>5. n - 1 \in 0..Size /\ n - 1 \in 0..Size - 1 /\ (n - 1) + 1 = n /\ ~(n <= n - 1)
    BY <1>0, <2>3, <2>4
  <2>6. Narrowed(k, p[n - 1], n - 1)
    BY <2>2, <2>5
  <2>7. p[n - 1] \in Ranges /\ Narrowed(k, Halve(k, p[n - 1]), n)
    BY <2>5, <2>6, HalveNarrows
  <2>8. p[n] = Halve(k, p[n - 1])
    BY <1>2, <2>3, <2>4, <2>7
  <2> QED
    BY <2>3, <2>7, <2>8
<1>5. Narrowed(k, p[Size], Size)
  BY <1>0, <1>4
<1> QED
  BY <1>5 DEF LastPass, p, all

(* BinarySearchQueueModel::lower_bound() returns the first element that is *)
(* not older than a key the front is not newer than.                       *)
LEMMA BinarySearchRight ==
  ASSUME BSTypeOK, GrowInv, Count > 0, NEW k \in Int, Front <= k
  PROVE  \E j \in 0..Count : /\ BinarySearch(k) = Nth(j)
                             /\ \A i \in 0..j - 1 : records_[Nth(i)] < k
                             /\ j < Count => k <= records_[Nth(j)]
<1> DEFINE r == LastPass(k)
<1>0. /\ Count \in 0..Size - 1 /\ Count \in Nat /\ Size \in Nat /\ Size > 0
      /\ \A i \in 0..Count - 1 : i \in 0..Size - 1 /\ Nth(i) \in Slots /\ records_[Nth(i)] \in Nat
  BY HeldNumbers, SearchNumbers
<1>1. readIndex_ \in Slots /\ writeIndex_ \in Slots
  BY DEF BSTypeOK
<1>2. Narrowed(k, r, Size)
  BY LastPassNarrowed
<1>3. BinarySearch(k) = Return(k, r)
  <2>1. Front \in Int
    <3>1. Nth(0) = readIndex_ /\ 0 \in 0..Count - 1
      BY <1>0, <1>1, NthSlot
    <3> QED
      BY <1>0, <3>1 DEF Front
  <2> QED
    BY <1>0, <2>1 DEF BinarySearch
<1> HIDE DEF r
<1>4. PICK a \in 0..Count - 1, b \in 0..Count - 1 :
        /\ a <= b /\ r = [start_index |-> Nth(a), end_index |-> Nth(b)]
        /\ records_[Nth(a)] <= k
        /\ b + 1 < Count => k < records_[Nth(b + 1)]
        /\ b - a <= Size - Size \/ k = records_[Middle(Nth(a), Nth(b))]
  BY <1>2 DEF Narrowed
<1>5. PICK m \in a..b : Middle(Nth(a), Nth(b)) = Nth(m)
  BY <1>0, <1>1, <1>4, MiddleIs
<1>6. /\ m \in 0..Count - 1 /\ m \in Nat /\ a \in Nat /\ b \in Nat /\ a <= m /\ m <= b
  BY <1>0
<1>7. records_[Nth(m)] \in Nat
  BY <1>0, <1>6
<1>8. Return(k, r) = IF k <= records_[Nth(m)] THEN Nth(m) ELSE Wrap(Nth(m) + 1)
  BY <1>4, <1>5 DEF Return
<1>9. CASE k = records_[Nth(m)]
  <2>1. ASSUME NEW i \in 0..m - 1 PROVE records_[Nth(i)] < k
    <3>1. i \in 0..Count - 1 /\ i < m
      BY <1>0, <1>6
    <3> QED
      BY <1>6, <1>9, <3>1 DEF GrowInv
  <2>2. m \in 0..Count
    BY <1>0, <1>6
  <2>3. Return(k, r) = Nth(m) /\ k <= records_[Nth(m)]
    BY <1>7, <1>8, <1>9
  <2> QED
    BY <1>3, <2>1, <2>2, <2>3
<1>10. CASE k # records_[Nth(m)]
  <2>1. a = b /\ m = a
    BY <1>0, <1>4, <1>5, <1>6, <1>10
  <2>2. records_[Nth(m)] < k
    BY <1>4, <1>7, <1>10, <2>1
  <2>3. Return(k, r) = Nth(m + 1)
    <3>1. Wrap(Nth(m) + 1) = Nth(m + 1)
      BY <1>0, <1>1, <1>6, NthMoves
    <3> QED
      BY <1>7, <1>8, <2>2, <3>1
  <2>4. ASSUME NEW i \in 0..(m + 1) - 1 PROVE records_[Nth(i)] < k
    <3>1. CASE i = m
      BY <2>2, <3>1
    <3>2. CASE i # m
      <4>1. i < m /\ i \in 0..Count - 1
        BY <1>0, <1>6, <3>2
      <4>2. records_[Nth(i)] < records_[Nth(m)] /\ records_[Nth(i)] \in Nat
        BY <1>0, <1>6, <4>1 DEF GrowInv
      <4> QED
        BY <1>7, <2>2, <4>2
    <3> QED
      BY <3>1, <3>2
  <2>5. m + 1 \in 0..Count
    BY <1>0, <1>6
  <2>6. m + 1 < Count => k <= records_[Nth(m + 1)]
    <3>1. SUFFICES ASSUME m + 1 < Count PROVE k <= records_[Nth(m + 1)]
      OBVIOUS
    <3>2. k < records_[Nth(m + 1)] /\ m + 1 \in 0..Count - 1
      BY <1>0, <1>4, <1>6, <2>1, <3>1
    <3>3. records_[Nth(m + 1)] \in Nat
      BY <1>0, <3>2
    <3> QED
      BY <3>2, <3>3
  <2> QED
    BY <1>3, <2>3, <2>4, <2>5, <2>6
<1> QED
  BY <1>9, <1>10
-----------------------------------------------------------------------------
(* The fixed rate search                                                   *)

(* The number of elements to a key that is d after the front.              *)
LEMMA RoundUpIs ==
  ASSUME NEW d \in Nat
  PROVE  \E j \in Nat : /\ RoundUp(d \div Tick) = j
                        /\ \A i \in Nat : i < j => i * Span < d
                        /\ d < j * Span + Tick
                        /\ d % Tick = 0 => d <= j * Span
<1> DEFINE t == d \div Tick
           r == d % Tick
           q == t \div NumFrames
           s == t % NumFrames
           j == q + (IF s # 0 THEN 1 ELSE 0)
<1>1. Tick \in Nat /\ Tick > 0 /\ NumFrames \in Nat /\ NumFrames > 0 /\ Span = NumFrames * Tick
  BY SearchNumbers
<1>2. t \in Nat /\ r \in 0..Tick - 1 /\ d = Tick * t + r
  BY <1>1, Remainder
<1> HIDE DEF t, r
<1>3. q \in Nat /\ s \in 0..NumFrames - 1 /\ t = NumFrames * q + s
  BY <1>1, <1>2, Remainder
<1>4. RoundUp(t) = j
  BY DEF RoundUp
<1> HIDE DEF q, s
<1>5. j \in Nat
  BY <1>3
<1>6. \A x, y, z \in Nat : x <= y => z * x <= z * y /\ z * x \in Nat /\ z * y \in Nat
  OBVIOUS
<1>7. \A x, y \in Nat : (y + 1) * x = y * x + x /\ x * (y + 1) = x * y + x /\ x * y \in Nat /\ x * y = y * x
  OBVIOUS
<1>8. ASSUME NEW i \in Nat PROVE i * Span = Tick * (NumFrames * i)
  <2>1. \A x, y, z \in Nat : x * (y * z) = z * (y * x)
    OBVIOUS
  <2> QED
    BY <1>1, <2>1
<1>9. ASSUME NEW i \in Nat, i < j PROVE i * Span < d
  <2>1. NumFrames * i + 1 <= t
    <3>1. CASE s = 0
      <4>1. i + 1 <= q
        BY <1>3, <1>9, <3>1
      <4>2. NumFrames * (i + 1) <= NumFrames * q /\ NumFrames * (i + 1) = NumFrames * i + NumFrames
            /\ NumFrames * i \in Nat /\ NumFrames * q \in Nat
        BY <1>1, <1>3, <1>6, <1>7, <4>1
      <4> QED
        BY <1>1, <1>3, <3>1, <4>2
    <3>2. CASE s # 0
      <4>1. i <= q
        BY <1>3, <1>9, <3>2
      <4>2. NumFrames * i <= NumFrames * q /\ NumFrames * i \in Nat /\ NumFrames * q \in Nat
        BY <1>1, <1>3, <1>6, <4>1
      <4> QED
        BY <1>1, <1>3, <3>2, <4>2
    <3> QED
      BY <3>1, <3>2
  <2>2. NumFrames * i \in Nat
    BY <1>1, <1>7
  <2>3. PICK x \in Nat : x = NumFrames * i
    BY <2>2
  <2>4. Tick * (x + 1) <= Tick * t /\ Tick * (x + 1) = Tick * x + Tick /\ Tick * x \in Nat /\ Tick * t \in Nat
    BY <1>1, <1>2, <1>6, <1>7, <2>1, <2>3
  <2>5. i * Span = Tick * x
    BY <1>8, <2>3
  <2> QED
    BY <1>1, <1>2, <2>4, <2>5
<1>10. /\ Tick * t <= j * Span /\ j * Span \in Nat /\ Tick * t \in Nat
  <2>1. NumFrames * j \in Nat
    BY <1>1, <1>5, <1>7
  <2>2. t <= NumFrames * j
    <3>1. CASE s = 0
      BY <1>1, <1>3, <1>7, <3>1
    <3>2. CASE s # 0
      <4>1. NumFrames * (q + 1) = NumFrames * q + NumFrames /\ NumFrames * q \in Nat
        BY <1>1, <1>3, <1>7
      <4>2. j = q + 1
        BY <3>2
      <4> QED
        BY <1>1, <1>3, <4>1, <4>2
    <3> QED
      BY <3>1, <3>2
  <2>3. Tick * t <= Tick * (NumFrames * j) /\ Tick * t \in Nat /\ Tick * (NumFrames * j) \in Nat
    BY <1>1, <1>2, <1>6, <2>1, <2>2
  <2> QED
    BY <1>5, <1>8, <2>3
<1> HIDE DEF j
<1>11. d < j * Span + Tick
  BY <1>1, <1>2, <1>10
<1>12. d % Tick = 0 => d <= j * Span
  BY <1>2, <1>10 DEF r
<1>13. RoundUp(d \div Tick) = j
  BY <1>4 DEF t
<1> QED
  BY <1>5, <1>9, <1>11, <1>12, <1>13

(* Without a gap, and without elements that did not fit, the elements are  *)
(* one span apart.                                                         *)
LEMMA EvenlySpaced ==
  ASSUME BSTypeOK, RateInv, search \notin Overflowing, LastGap = NoError, NEW i \in 0..Count - 1
  PROVE  records_[Nth(i)] = Front + i * Span /\ Front \in Nat /\ i * Span \in Nat
<1>0. /\ Count \in 0..Size - 1 /\ Count \in Nat /\ Size \in Nat
      /\ \A n \in 0..Count - 1 : n \in 0..Size - 1 /\ Nth(n) \in Slots /\ records_[Nth(n)] \in Nat
  BY HeldNumbers
<1>1. 0 \in 0..Count - 1
  BY <1>0
<1>2. Nth(0) = readIndex_
  BY NthSlot DEF BSTypeOK
<1>3. ASSUME NEW n \in 0..Count - 1 PROVE records_[Nth(n)] + (Count - n) * Span = next_ts
  <2>1. records_[Nth(n)] >= LastGap
    BY <1>0 DEF NoError
  <2> QED
    BY <2>1 DEF RateInv
<1>4. records_[Nth(i)] + (Count - i) * Span = next_ts /\ Front + (Count - 0) * Span = next_ts
  BY <1>1, <1>2, <1>3 DEF Front
<1>5. Front \in Nat /\ records_[Nth(i)] \in Nat
  BY <1>0, <1>1, <1>2 DEF Front
<1>6. \A x, y, z \in Nat : (x - y) * z = x * z - y * z /\ x * z \in Nat /\ y * z \in Nat
  OBVIOUS
<1>7. i \in Nat /\ Span \in Nat
  BY <1>0, SearchNumbers
<1>8. (Count - i) * Span = Count * Span - i * Span /\ Count * Span \in Nat /\ i * Span \in Nat
  BY <1>0, <1>6, <1>7
<1>9. (Count - 0) * Span = Count * Span
  BY <1>0
<1> QED
  BY <1>4, <1>5, <1>8, <1>9

(* FixedRateQueueModel::lower_bound() counts the spans to the key.         *)
LEMMA PositionIs ==
  ASSUME BSTypeOK, NEW k \in Int, PositionOf(k) # End
  PROVE  \E j \in 0..Count : /\ PositionOf(k) = Nth(j)
                             /\ \A i \in Nat : i < j => Front + i * Span < k
                             /\ (k - Front) % Tick = 0 => k <= Front + j * Span
<1>0. Count \in Nat /\ Front \in Nat
  <2>1. readIndex_ \in Slots /\ records_ \in [Slots -> 0..LastTs]
    BY DEF BSTypeOK
  <2> QED
    BY <2>1, HeldNumbers, SearchNumbers DEF Front
<1>2. /\ PositionOf(k) = Wrap(readIndex_ + RoundUp((k - Front) \div Tick))
      /\ ~(Front > k) /\ ~(k > Front + Count * Span)
  BY DEF PositionOf
<1>3. Span \in Nat /\ \A x, y \in Nat : x * y \in Nat
  BY SearchNumbers
<1>4. PICK d \in Nat : d = k - Front /\ d <= Count * Span
  BY <1>0, <1>2, <1>3
<1>5. PICK j \in Nat : /\ RoundUp(d \div Tick) = j
                       /\ \A i \in Nat : i < j => i * Span < d
                       /\ d % Tick = 0 => d <= j * Span
  BY RoundUpIs
<1>6. j \in 0..Count
  <2>1. SUFFICES ASSUME Count < j PROVE FALSE
    BY <1>0
  <2>2. Count * Span < d /\ Count * Span \in Nat
    BY <1>0, <1>3, <1>5, <2>1
  <2> QED
    BY <1>4, <2>2
<1>7. PositionOf(k) = Nth(j)
  BY <1>2, <1>4, <1>5 DEF Nth
<1>8. ASSUME NEW i \in Nat, i < j PROVE Front + i * Span < k
  <2>1. i * Span < d /\ i * Span \in Nat
    BY <1>3, <1>5, <1>8
  <2> QED
    BY <1>0, <1>4, <2>1
<1>9. (k - Front) % Tick = 0 => k <= Front + j * Span
  <2>1. j * Span \in Nat /\ ((k - Front) % Tick = 0 => d <= j * Span)
    BY <1>3, <1>4, <1>5
  <2> QED
    BY <1>0, <1>4, <2>1
<1> QED
  BY <1>6, <1>7, <1>8, <1>9

(* Without a gap that is the first element that is not older than the key, *)
(* if the key is a whole number of ticks after the front.                  *)
LEMMA PositionRight ==
  ASSUME BSTypeOK, RateInv, search \notin Overflowing, LastGap = NoError, Count > 0, NEW k \in Int,
         PositionOf(k) # End, (k - Front) % Tick = 0
  PROVE  \E j \in 0..Count : /\ PositionOf(k) = Nth(j)
                             /\ \A i \in 0..j - 1 : records_[Nth(i)] < k
                             /\ j < Count => k <= records_[Nth(j)]
<1>0. Count \in Nat
  BY HeldNumbers
<1>1. PICK j \in 0..Count : /\ PositionOf(k) = Nth(j)
                            /\ \A i \in Nat : i < j => Front + i * Span < k
                            /\ k <= Front + j * Span
  BY PositionIs
<1>2. ASSUME NEW i \in 0..j - 1 PROVE records_[Nth(i)] < k
  <2>1. i \in Nat /\ i < j /\ i \in 0..Count - 1
    BY <1>0
  <2> QED
    BY <1>1, <2>1, EvenlySpaced
<1>3. ASSUME j < Count PROVE k <= records_[Nth(j)]
  <2>1. j \in 0..Count - 1
    BY <1>0, <1>3
  <2> QED
    BY <1>1, <2>1, EvenlySpaced
<1> QED
  BY <1>1, <1>2, <1>3

(* A key that is as many spans from the front as there are elements, or    *)
(* less, is found.                                                         *)
LEMMA PositionFound ==
  ASSUME BSTypeOK, NEW k \in Int, Front <= k, NEW c \in 0..Count, k <= Front + c * Span
  PROVE  PositionOf(k) # End
<1>0. Count \in Nat /\ Front \in Nat /\ readIndex_ \in Slots /\ Span \in Nat
  <2>1. readIndex_ \in Slots /\ records_ \in [Slots -> 0..LastTs]
    BY DEF BSTypeOK
  <2> QED
    BY <2>1, HeldNumbers, SearchNumbers DEF Front
<1>4. ~(Front > k \/ k > Front + Count * Span)
  <2>1. \A x, y, z \in Nat : x <= y => x * z <= y * z /\ x * z \in Nat /\ y * z \in Nat
    OBVIOUS
  <2>2. c * Span <= Count * Span /\ c * Span \in Nat /\ Count * Span \in Nat
    BY <1>0, <2>1
  <2> QED
    BY <1>0, <2>2
<1>5. PICK j \in Nat : RoundUp((k - Front) \div Tick) = j
  <2>1. k - Front \in Nat
    BY <1>0
  <2> QED
    BY <2>1, RoundUpIs
<1>6. Wrap(readIndex_ + j) # End
  BY <1>0, SearchNumbers DEF Slots, Wrap, End
<1> QED
  BY <1>4, <1>5, <1>6 DEF PositionOf

(* LowerBoundRight follows from the invariant: the ring is sorted, and     *)
(* evenly spaced where the fixed rate search counts on it.                 *)
LEMMA InvFindsRight ==
  ASSUME "fixed_rate" \notin Overflowing
  PROVE  BSInv => LowerBoundRight
<1> SUFFICES ASSUME BSInv, Count > 0, NEW k \in Front..Back, NEW with_errors \in BOOLEAN,
                    with_errors \/ (LastGap = NoError /\ (FixedRate => (k - Front) % Tick = 0))
             PROVE  LowerBound(k, with_errors) = FirstNotOlder(k)
  BY DEF LowerBoundRight
<1>0. BSTypeOK /\ GrowInv /\ RateInv
  BY DEF BSInv
<1>1. /\ Count \in 0..Size - 1 /\ Count \in Nat /\ Size \in Nat
      /\ \A n \in 0..Count - 1 : n \in 0..Size - 1 /\ Nth(n) \in Slots /\ records_[Nth(n)] \in Nat
  BY <1>0, HeldNumbers
<1>2. Nth(0) = readIndex_ /\ Before(writeIndex_) = Nth(Count - 1) /\ Nth(Count) = writeIndex_
  BY <1>0, NthSlot DEF BSTypeOK
<1>3. Front \in Nat /\ Back \in Nat
  <2>1. 0 \in 0..Count - 1 /\ Count - 1 \in 0..Count - 1
    BY <1>1
  <2> QED
    BY <1>1, <1>2, <2>1 DEF Front, Back
<1>4. k \in Int /\ Front <= k /\ k <= Back
  BY <1>3
<1>5. CASE FixedRate /\ ~with_errors
  <2>1. search \notin Overflowing /\ LastGap = NoError /\ (k - Front) % Tick = 0
    BY <1>5 DEF FixedRate
  <2>2. PositionOf(k) # End
    <3>1. Count - 1 \in 0..Count - 1 /\ Count - 1 \in 0..Count
      BY <1>1
    <3>2. Back = Front + (Count - 1) * Span
      BY <1>0, <1>2, <2>1, <3>1, EvenlySpaced DEF Back
    <3> QED
      BY <1>0, <1>4, <3>1, <3>2, PositionFound
  <2>3. PICK j \in 0..Count : /\ PositionOf(k) = Nth(j)
                              /\ \A i \in 0..j - 1 : records_[Nth(i)] < k
                              /\ j < Count => k <= records_[Nth(j)]
    BY <1>0, <1>4, <2>1, <2>2, PositionRight
  <2>4. FirstNotOlder(k) = Nth(j)
    BY <1>0, <1>4, <2>3, FirstIs
  <2> QED
    BY <1>5, <2>3, <2>4 DEF LowerBound
<1>6. CASE ~(FixedRate /\ ~with_errors)
  <2>1. PICK j \in 0..Count : /\ BinarySearch(k) = Nth(j)
                              /\ \A i \in 0..j - 1 : records_[Nth(i)] < k
                              /\ j < Count => k <= records_[Nth(j)]
    BY <1>0, <1>4, BinarySearchRight
  <2>2. FirstNotOlder(k) = Nth(j)
    BY <1>0, <1>4, <2>1, FirstIs
  <2> QED
    BY <1>6, <2>1, <2>2 DEF LowerBound
<1> QED
  BY <1>5, <1>6
-----------------------------------------------------------------------------
LEMMA BSInvInit == BSInit => BSInv
<1> SUFFICES ASSUME BSInit PROVE BSInv
  OBVIOUS
<1>1. BSTypeOK
  BY SearchNumbers, SearchAssumption DEF BSInit, BSTypeOK, Slots, NoError, Waiting
<1>2. Count = 0
  BY DEF BSInit, Count, Distance
<1> QED
  BY <1>1, <1>2 DEF BSInv, GrowInv, RateInv, ConsumerInv, BSInit, Waiting

(* The element written goes behind the others.                             *)
LEMMA WriteNth ==
  ASSUME BSTypeOK, NEW ts \in 0..LastTs, ~Full,
         records_' = [records_ EXCEPT ![writeIndex_] = ts],
         writeIndex_' = Wrap(writeIndex_ + 1), readIndex_' = readIndex_
  PROVE  /\ Count' = Count + 1 /\ writeIndex_' \in Slots
         /\ \A i \in 0..Size - 1 : Nth(i)' = Nth(i)
         /\ records_'[Nth(Count)] = ts
         /\ \A i \in 0..Count - 1 : records_'[Nth(i)] = records_[Nth(i)]
<1>0. /\ Count \in 0..Size - 1 /\ Count \in Nat /\ Size \in Nat
      /\ \A n \in 0..Count - 1 : n \in 0..Size - 1 /\ Nth(n) \in Slots /\ records_[Nth(n)] \in Nat
  BY HeldNumbers
<1>1. readIndex_ \in Slots /\ writeIndex_ \in Slots /\ records_ \in [Slots -> 0..LastTs]
  BY DEF BSTypeOK
<1>2. Count' = Count + 1 /\ writeIndex_' \in Slots
  BY <1>1, SearchNumbers DEF Count, Full, Distance, Wrap, Slots
<1>3. Nth(Count) = writeIndex_
  BY <1>1, NthSlot
<1>4. ASSUME NEW i \in 0..Count - 1 PROVE Nth(i) # writeIndex_ /\ Nth(i) \in Slots
  <2>1. i \in 0..Size - 1 /\ i # Count
    BY <1>0
  <2> QED
    BY <1>0, <1>1, <1>3, <2>1, NthSlot
<1>5. \A i \in 0..Size - 1 : Nth(i)' = Nth(i)
  BY DEF Nth
<1> QED
  BY <1>1, <1>2, <1>3, <1>4, <1>5

(* The consumer and the registry.                                          *)
LEMMA ReceiveKeeps ==
  ASSUME BSInv, (\E gap \in 0..MaxGap : ReceiveItem(gap)) \/ InsertError
  PROVE  BSInv'
<1>0. BSTypeOK /\ GrowInv /\ RateInv /\ ConsumerInv
  BY DEF BSInv
<1>1. /\ Count \in 0..Size - 1 /\ Count \in Nat /\ Size \in Nat
      /\ \A n \in 0..Count - 1 : n \in 0..Size - 1 /\ Nth(n) \in Slots /\ records_[Nth(n)] \in Nat
  BY <1>0, HeldNumbers
<1>2. UNCHANGED <<search, records_, readIndex_, writeIndex_, next_ts, query>>
  BY DEF ReceiveItem, InsertError
<1> DEFINE Taken == /\ consumer' \in [pc : {"wait", "insert", "write"}, ts : 0..LastTs, erased : 0..LastTs \cup {NoError}]
                    /\ missing' \in 0..LastTs \cup {NoError}
                    /\ next_ts <= consumer'.ts /\ consumer'.ts \in Nat
                    /\ consumer'.pc = "write" => consumer'.ts = next_ts \/ missing' = consumer'.ts
                    /\ LastGap' = LastGap \/ LastGap' = consumer'.ts
<1>3. Taken
  <2>1. ASSUME NEW gap \in 0..MaxGap, ReceiveItem(gap) PROVE Taken
    <3>1. next_ts \in Nat /\ gap \in Nat /\ Span \in Nat /\ LastTs \in Nat
          /\ missing \in 0..LastTs \cup {NoError}
      BY <1>0, SearchNumbers DEF BSTypeOK
    <3>2. \A x, y \in Nat : x * y \in Nat
      OBVIOUS
    <3>3. gap * Span \in Nat /\ (gap = 0 => gap * Span = 0)
      BY <3>1, <3>2
    <3>4. PICK ts \in 0..LastTs : ts = next_ts + gap * Span
      BY <2>1, <3>1, <3>3 DEF ReceiveItem
    <3>5. ts \in Nat /\ next_ts <= ts /\ (gap = 0 => ts = next_ts) /\ consumer.pc = "wait"
      BY <2>1, <3>1, <3>3, <3>4 DEF ReceiveItem, Waiting
    <3>6. CASE gap = 0
      <4>1. consumer' = [pc |-> "write", ts |-> ts, erased |-> NoError] /\ missing' = missing
        BY <2>1, <3>4, <3>6 DEF ReceiveItem
      <4> QED
        BY <3>1, <3>5, <3>6, <4>1 DEF LastGap
    <3>7. CASE gap # 0
      <4>1. consumer' = [pc |-> "insert", ts |-> ts, erased |-> missing] /\ missing' = NoError
        BY <2>1, <3>4, <3>7 DEF ReceiveItem
      <4> QED
        BY <3>1, <3>5, <4>1 DEF LastGap
    <3> QED
      BY <3>6, <3>7
  <2>2. CASE InsertError
    <3>1. /\ consumer.pc = "insert" /\ missing' = consumer.ts
          /\ consumer' = [pc |-> "write", ts |-> consumer.ts, erased |-> NoError]
      BY <2>2 DEF InsertError
    <3>2. consumer.ts \in 0..LastTs /\ consumer.ts \in Nat /\ next_ts <= consumer.ts
      BY <1>0, <3>1, SearchNumbers DEF BSTypeOK, ConsumerInv
    <3> QED
      BY <3>1, <3>2 DEF LastGap
  <2> QED
    BY <2>1, <2>2
<1>4. BSTypeOK'
  BY <1>0, <1>2, <1>3 DEF BSTypeOK
<1>5. Count' = Count /\ \A i \in 0..Count - 1 : Nth(i)' = Nth(i)
  BY <1>2 DEF Count, Nth
<1>6. GrowInv'
  BY <1>0, <1>2, <1>5 DEF GrowInv
<1>7. RateInv'
  <2>1. SUFFICES ASSUME search \notin Overflowing, NEW i \in 0..Count - 1, records_[Nth(i)] >= LastGap'
                 PROVE  records_[Nth(i)] + (Count - i) * Span = next_ts
    BY <1>2, <1>5 DEF RateInv
  <2>2. records_[Nth(i)] < next_ts /\ records_[Nth(i)] \in Nat /\ next_ts \in Nat
    BY <1>0, <1>1, SearchNumbers DEF GrowInv, BSTypeOK
  <2>3. LastGap' = LastGap
    BY <1>3, <2>1, <2>2
  <2> QED
    BY <1>0, <2>1, <2>3 DEF RateInv
<1>8. ConsumerInv'
  BY <1>2, <1>3 DEF ConsumerInv
<1> QED
  BY <1>4, <1>6, <1>7, <1>8 DEF BSInv

LEMMA WriteKeeps ==
  ASSUME BSInv, WriteItem
  PROVE  BSInv'
<1>0. BSTypeOK /\ GrowInv /\ RateInv /\ ConsumerInv
  BY DEF BSInv
<1>1. /\ Count \in 0..Size - 1 /\ Count \in Nat /\ Size \in Nat
      /\ \A n \in 0..Count - 1 : n \in 0..Size - 1 /\ Nth(n) \in Slots /\ records_[Nth(n)] \in Nat
  BY <1>0, HeldNumbers
<1>2. next_ts \in Nat /\ Span \in Nat /\ Span > 0 /\ LastTs \in Nat
  BY <1>0, SearchNumbers DEF BSTypeOK
<1>3. PICK ts \in 0..LastTs : ts = consumer.ts /\ next_ts <= ts /\ (ts = next_ts \/ missing = ts)
  BY <1>0 DEF BSTypeOK, WriteItem, ConsumerInv
<1>4. /\ next_ts' = ts + Span /\ missing' = missing /\ consumer' = Waiting
      /\ UNCHANGED <<search, readIndex_, query>>
      /\ search \in Overflowing \/ ~Full
      /\ \/ /\ ~Full
            /\ records_' = [records_ EXCEPT ![writeIndex_] = ts]
            /\ writeIndex_' = Wrap(writeIndex_ + 1)
         \/ /\ Full
            /\ UNCHANGED <<records_, writeIndex_>>
  BY <1>3 DEF WriteItem
<1>10. /\ LastGap = missing /\ LastGap' = missing /\ ConsumerInv'
       /\ consumer' \in [pc : {"wait", "insert", "write"}, ts : 0..LastTs, erased : 0..LastTs \cup {NoError}]
  BY <1>2, <1>4 DEF LastGap, WriteItem, Waiting, ConsumerInv
<1>5. next_ts' \in 0..LastTs + Span /\ missing' \in 0..LastTs \cup {NoError} /\ next_ts' \in Nat /\ next_ts < next_ts'
  BY <1>0, <1>2, <1>3, <1>4 DEF BSTypeOK
<1>6. CASE Full
  <2>1. UNCHANGED <<records_, writeIndex_, readIndex_, search, query>> /\ search \in Overflowing
    BY <1>4, <1>6
  <2>2. BSTypeOK'
    BY <1>0, <1>5, <1>10, <2>1 DEF BSTypeOK
  <2>3. Count' = Count /\ \A i \in 0..Count - 1 : Nth(i)' = Nth(i)
    BY <2>1 DEF Count, Nth
  <2>4. ASSUME NEW i \in 0..Count - 1 PROVE records_[Nth(i)] < next_ts'
    <3>1. records_[Nth(i)] < next_ts /\ records_[Nth(i)] \in Nat
      BY <1>0, <1>1 DEF GrowInv
    <3> QED
      BY <1>2, <1>5, <3>1
  <2>5. GrowInv'
    BY <1>0, <2>1, <2>3, <2>4 DEF GrowInv
  <2>6. RateInv'
    BY <2>1 DEF RateInv
  <2> QED
    BY <1>10, <2>2, <2>5, <2>6 DEF BSInv
<1>7. CASE ~Full
  <2>1. /\ records_' = [records_ EXCEPT ![writeIndex_] = ts] /\ writeIndex_' = Wrap(writeIndex_ + 1)
        /\ readIndex_' = readIndex_
    BY <1>4, <1>7
  <2>2. /\ Count' = Count + 1 /\ writeIndex_' \in Slots
        /\ \A i \in 0..Size - 1 : Nth(i)' = Nth(i)
        /\ records_'[Nth(Count)] = ts
        /\ \A i \in 0..Count - 1 : records_'[Nth(i)] = records_[Nth(i)]
    BY <1>0, <1>7, <2>1, WriteNth
  <2>3. BSTypeOK'
    <3>1. records_' \in [Slots -> 0..LastTs]
      BY <1>0, <2>1 DEF BSTypeOK
    <3> QED
      BY <1>0, <1>4, <1>5, <1>10, <2>2, <3>1 DEF BSTypeOK
  <2>4. ASSUME NEW i \in 0..Count' - 1
        PROVE  \/ i = Count /\ records_'[Nth(i)'] = ts
               \/ i \in 0..Count - 1 /\ records_'[Nth(i)'] = records_[Nth(i)]
    <3>1. i \in 0..Count /\ i \in 0..Size - 1
      BY <1>1, <2>2
    <3>2. CASE i = Count
      BY <2>2, <3>1, <3>2
    <3>3. CASE i # Count
      <4>1. i \in 0..Count - 1
        BY <1>1, <3>1, <3>3
      <4> QED
        BY <2>2, <3>1, <4>1
    <3> QED
      BY <3>2, <3>3
  <2>5. GrowInv'
    <3>1. ASSUME NEW i \in 0..Count' - 1, NEW j \in 0..Count' - 1, i < j
          PROVE  records_'[Nth(i)'] < records_'[Nth(j)']
      <4>1. i \in 0..Count - 1 /\ records_'[Nth(i)'] = records_[Nth(i)]
        BY <1>1, <2>2, <2>4, <3>1
      <4>2. records_[Nth(i)] < next_ts /\ records_[Nth(i)] \in Nat
        BY <1>0, <1>1, <4>1 DEF GrowInv
      <4>3. CASE j = Count /\ records_'[Nth(j)'] = ts
        BY <1>2, <1>3, <4>1, <4>2, <4>3
      <4>4. CASE j \in 0..Count - 1 /\ records_'[Nth(j)'] = records_[Nth(j)]
        BY <1>0, <3>1, <4>1, <4>4 DEF GrowInv
      <4> QED
        BY <2>4, <4>3, <4>4
    <3>2. ASSUME NEW i \in 0..Count' - 1 PROVE records_'[Nth(i)'] < next_ts'
      <4>1. CASE i = Count /\ records_'[Nth(i)'] = ts
        BY <1>2, <1>4, <4>1
      <4>2. CASE i \in 0..Count - 1 /\ records_'[Nth(i)'] = records_[Nth(i)]
        <5>1. records_[Nth(i)] < next_ts /\ records_[Nth(i)] \in Nat
          BY <1>0, <1>1, <4>2 DEF GrowInv
        <5> QED
          BY <1>2, <1>5, <4>2, <5>1
      <4> QED
        BY <2>4, <4>1, <4>2
    <3> QED
      BY <3>1, <3>2 DEF GrowInv
  <2>6. RateInv'
    <3>1. SUFFICES ASSUME search \notin Overflowing, NEW i \in 0..Count' - 1, records_'[Nth(i)'] >= missing
                   PROVE  records_'[Nth(i)'] + (Count' - i) * Span = next_ts'
      BY <1>4, <1>10 DEF RateInv
    <3>2. CASE i = Count /\ records_'[Nth(i)'] = ts
      <4>1. Count' - i = 1 /\ 1 * Span = Span
        BY <1>1, <1>2, <2>2, <3>2
      <4> QED
        BY <1>4, <3>2, <4>1
    <3>3. CASE i \in 0..Count - 1 /\ records_'[Nth(i)'] = records_[Nth(i)]
      <4>1. records_[Nth(i)] < next_ts /\ records_[Nth(i)] \in Nat
        BY <1>0, <1>1, <3>3 DEF GrowInv
      <4>3. ts = next_ts
        BY <1>2, <1>3, <3>1, <3>3, <4>1
      <4>4. records_[Nth(i)] + (Count - i) * Span = next_ts
        BY <1>0, <1>10, <3>1, <3>3 DEF RateInv
      <4>5. PICK n \in Nat : n = Count - i
        BY <1>1, <3>3
      <4>6. Count' - i = n + 1
        BY <1>1, <2>2, <3>3, <4>5
      <4>7. \A x, y \in Nat : (x + 1) * y = x * y + y /\ x * y \in Nat
        OBVIOUS
      <4>8. (n + 1) * Span = n * Span + Span /\ n * Span \in Nat
        BY <1>2, <4>7
      <4>9. records_[Nth(i)] + n * Span = next_ts
        BY <4>4, <4>5
      <4>10. records_'[Nth(i)'] + (Count' - i) * Span = records_[Nth(i)] + (n * Span + Span)
        BY <3>3, <4>6, <4>8
      <4>11. next_ts' = next_ts + Span
        BY <1>4, <4>3
      <4>12. \A x, y, z \in Nat : x + (y + z) = (x + y) + z
        OBVIOUS
      <4>13. records_[Nth(i)] + (n * Span + Span) = (records_[Nth(i)] + n * Span) + Span
        BY <1>2, <4>1, <4>8, <4>12
      <4> QED
        BY <4>9, <4>10, <4>11, <4>13
    <3> QED
      BY <2>4, <3>2, <3>3
  <2> QED
    BY <1>10, <2>3, <2>5, <2>6 DEF BSInv
<1> QED
  BY <1>6, <1>7

(* cleanup() pops the front; the gap is forgotten when what is left is     *)
(* newer than its end.                                                     *)
LEMMA CleanupKeeps ==
  ASSUME BSInv, CleanupOne
  PROVE  BSInv'
<1>0. BSTypeOK /\ GrowInv /\ RateInv /\ ConsumerInv
  BY DEF BSInv
<1>1. /\ Count \in 0..Size - 1 /\ Count \in Nat /\ Size \in Nat
      /\ \A n \in 0..Count - 1 : n \in 0..Size - 1 /\ Nth(n) \in Slots /\ records_[Nth(n)] \in Nat
  BY <1>0, HeldNumbers
<1>2. /\ Count > 1 /\ readIndex_' = Wrap(readIndex_ + 1)
      /\ missing' = RemoveErrorsUntil(records_[Nth(1)])
      /\ UNCHANGED <<search, records_, writeIndex_, next_ts, consumer, query>>
      /\ LastGap = missing /\ LastGap' = missing'
  BY DEF CleanupOne, Nth, LastGap
<1>3. readIndex_ \in Slots /\ writeIndex_ \in Slots
  BY <1>0 DEF BSTypeOK
<1>4. readIndex_' \in Slots /\ Count' = Count - 1 /\ \A i \in 0..Count - 2 : Nth(i)' = Nth(i + 1)
  BY <1>2, <1>3, SearchNumbers DEF Count, Distance, Wrap, Slots, Nth
<1>5. missing' \in {missing, NoError}
  BY <1>2 DEF RemoveErrorsUntil
<1>6. BSTypeOK'
  BY <1>0, <1>2, <1>4, <1>5 DEF BSTypeOK
<1>7. ASSUME NEW i \in 0..Count' - 1 PROVE i + 1 \in 0..Count - 1 /\ Nth(i)' = Nth(i + 1) /\ i \in Nat
  BY <1>1, <1>4
<1>8. GrowInv'
  <2>1. ASSUME NEW i \in 0..Count' - 1, NEW j \in 0..Count' - 1, i < j
        PROVE  records_'[Nth(i)'] < records_'[Nth(j)']
    <3>1. i + 1 < j + 1
      BY <1>7, <2>1
    <3> QED
      BY <1>0, <1>2, <1>7, <3>1 DEF GrowInv
  <2>2. ASSUME NEW i \in 0..Count' - 1 PROVE records_'[Nth(i)'] < next_ts'
    BY <1>0, <1>2, <1>7 DEF GrowInv
  <2> QED
    BY <2>1, <2>2 DEF GrowInv
<1>9. RateInv'
  <2>1. SUFFICES ASSUME search \notin Overflowing, NEW i \in 0..Count' - 1, records_'[Nth(i)'] >= missing'
                 PROVE  records_'[Nth(i)'] + (Count' - i) * Span = next_ts'
    BY <1>2 DEF RateInv
  <2>2. i + 1 \in 0..Count - 1 /\ Nth(i)' = Nth(i + 1) /\ i \in Nat
    BY <1>7
  <2>3. missing \in Int
    BY <1>0, SearchNumbers DEF BSTypeOK, NoError
  <2>4. records_[Nth(i + 1)] >= missing
    <3>1. CASE missing' = missing
      BY <1>2, <2>1, <2>2, <3>1
    <3>2. CASE missing' # missing
      <4>1. records_[Nth(1)] > missing
        BY <1>2, <3>2 DEF RemoveErrorsUntil
      <4>2. 1 \in 0..Count - 1
        BY <1>1, <1>2
      <4>3. i = 0 \/ records_[Nth(1)] < records_[Nth(i + 1)]
        <5>1. SUFFICES ASSUME i # 0 PROVE records_[Nth(1)] < records_[Nth(i + 1)]
          OBVIOUS
        <5>2. 1 < i + 1
          BY <2>2, <5>1
        <5> QED
          BY <1>0, <2>2, <4>2, <5>2 DEF GrowInv
      <4>4. records_[Nth(1)] \in Nat /\ records_[Nth(i + 1)] \in Nat
        BY <1>1, <2>2, <4>2
      <4>5. i = 0 => Nth(i + 1) = Nth(1)
        OBVIOUS
      <4> QED
        BY <2>3, <4>1, <4>3, <4>4, <4>5
    <3> QED
      BY <3>1, <3>2
  <2>5. records_[Nth(i + 1)] + (Count - (i + 1)) * Span = next_ts
    BY <1>0, <1>2, <2>1, <2>2, <2>4 DEF RateInv
  <2>6. Count' - i = Count - (i + 1)
    BY <1>1, <1>4, <2>2
  <2> QED
    BY <1>2, <2>2, <2>5, <2>6
<1>10. ConsumerInv'
  <2>1. SUFFICES ASSUME consumer.pc = "write", missing = consumer.ts PROVE missing' = missing
    BY <1>0, <1>2 DEF ConsumerInv
  <2>2. records_[Nth(1)] < next_ts /\ records_[Nth(1)] \in Nat
    <3>1. 1 \in 0..Count - 1
      BY <1>1, <1>2
    <3> QED
      BY <1>0, <1>1, <3>1 DEF GrowInv
  <2>3. next_ts <= consumer.ts /\ next_ts \in Nat /\ consumer.ts \in Nat
    BY <1>0, <2>1, SearchNumbers DEF ConsumerInv, BSTypeOK
  <2> QED
    BY <1>2, <2>1, <2>2, <2>3 DEF RemoveErrorsUntil
<1> QED
  BY <1>6, <1>8, <1>9, <1>10 DEF BSInv

LEMMA BSInvNext == BSInv /\ [BSNext]_search_vars => BSInv'
<1> SUFFICES ASSUME BSInv, [BSNext]_search_vars PROVE BSInv'
  OBVIOUS
<1> DEFINE Shaped(q) == \/ q = Idle
                        \/ /\ q.pc \in {"asked", "search", "notyet", "collect", "done"}
                           /\ q.begin < q.end
<1>0. Shaped(query)
  BY DEF BSInv, BSTypeOK
<1>1. CASE (\E gap \in 0..MaxGap : ReceiveItem(gap)) \/ InsertError
  BY <1>1, ReceiveKeeps
<1>2. CASE WriteItem
  BY <1>2, WriteKeeps
<1>3. CASE CleanupOne
  BY <1>3, CleanupKeeps
<1>4. ASSUME UNCHANGED <<search, records_, readIndex_, writeIndex_, registry_vars>>, Shaped(query')
      PROVE  BSInv'
  <2>1. BSTypeOK'
    BY <1>4 DEF BSInv, BSTypeOK, registry_vars
  <2>2. Count' = Count /\ (\A i \in 0..Count - 1 : Nth(i)' = Nth(i)) /\ LastGap' = LastGap
    BY <1>4 DEF Count, Nth, LastGap, registry_vars
  <2>3. GrowInv'
    BY <1>4, <2>2 DEF BSInv, GrowInv, registry_vars
  <2>4. RateInv'
    BY <1>4, <2>2 DEF BSInv, RateInv, registry_vars
  <2>5. ConsumerInv'
    BY <1>4 DEF BSInv, ConsumerInv, registry_vars
  <2> QED
    BY <2>1, <2>3, <2>4, <2>5 DEF BSInv
<1>5. ASSUME NEW begin \in WindowEdges, NEW end \in WindowEdges, Ask(begin, end) PROVE BSInv'
  BY <1>4, <1>5 DEF Ask
<1>6. CASE HasError \/ LookUp \/ CollectPieces
  <2>1. query # Idle
    BY <1>6 DEF HasError, LookUp, CollectPieces, Idle
  <2>2. query.begin < query.end
    BY <1>0, <2>1
  <2>3. UNCHANGED <<search, records_, readIndex_, writeIndex_, registry_vars>>
    BY <1>6 DEF HasError, LookUp, CollectPieces
  <2>4. /\ query'.pc \in {"asked", "search", "notyet", "collect", "done"}
        /\ query'.begin = query.begin /\ query'.end = query.end
    BY <1>6 DEF HasError, LookUp, CollectPieces
  <2> QED
    BY <1>4, <2>2, <2>3, <2>4
<1>7. CASE Reply
  BY <1>4, <1>7 DEF Reply
<1>8. CASE UNCHANGED search_vars
  <2>1. UNCHANGED <<search, records_, readIndex_, writeIndex_, registry_vars, query>>
    BY <1>8 DEF search_vars
  <2> QED
    BY <1>0, <1>4, <2>1
<1> QED
  BY <1>1, <1>2, <1>3, <1>5, <1>6, <1>7, <1>8 DEF BSNext

(* The indices stay in the ring and the timestamps below the bound.        *)
THEOREM LookUpTypeCorrect == BSSpec => []BSTypeOK
<1>1. BSInv => BSTypeOK
  BY DEF BSInv
<1> QED
  BY BSInvInit, BSInvNext, <1>1, PTL DEF BSSpec

(* The pass that the model takes for the last one is a pass that returns.  *)
SearchStops ==
  Count > 0 => \A k \in Int : Front <= k => Halve(k, LastPass(k)) = LastPass(k)

(* The `while (true)` of BinarySearchQueueModel::lower_bound() ends after  *)
(* at most Size passes for every key that is not older than the front,     *)
(* whatever the ring's size and wherever its indices are.                  *)
THEOREM BinarySearchStops == BSSpec => []SearchStops
<1>1. BSInv => SearchStops
  <2> SUFFICES ASSUME BSInv, Count > 0, NEW k \in Int, Front <= k
               PROVE  Halve(k, LastPass(k)) = LastPass(k)
    BY DEF SearchStops
  <2>1. BSTypeOK
    BY DEF BSInv
  <2>2. PICK r : r = LastPass(k)
    OBVIOUS
  <2>3. PICK a \in 0..Count - 1, b \in 0..Count - 1 :
          /\ a <= b /\ r = [start_index |-> Nth(a), end_index |-> Nth(b)]
          /\ b - a <= Size - Size \/ k = records_[Middle(Nth(a), Nth(b))]
    BY <2>1, <2>2, LastPassNarrowed DEF Narrowed
  <2>4. Count \in Nat /\ Size \in Nat
    BY <2>1, HeldNumbers
  <2>5. a = b \/ k = records_[Middle(Nth(a), Nth(b))]
    BY <2>3, <2>4
  <2>6. Halve(k, r) = r
    BY <2>3, <2>5 DEF Halve
  <2> QED
    BY <2>2, <2>6
<1> QED
  BY BSInvInit, BSInvNext, <1>1, PTL DEF BSSpec

(* lower_bound() of both buffers returns the first element not older than  *)
(* the key, for any size of the ring, any position of its indices and any  *)
(* gaps in the data.  For the fixed rate buffer this needs that no element *)
(* is dropped because it does not fit: nothing would register that gap.    *)
THEOREM LowerBoundCorrect ==
  ASSUME "fixed_rate" \notin Overflowing
  PROVE  BSSpec => []LowerBoundRight
BY BSInvInit, BSInvNext, InvFindsRight, PTL DEF BSSpec
-----------------------------------------------------------------------------
(* get_fragment_pieces()                                                   *)

(* Unsigned differences that do not wrap: a window begins at least one     *)
(* element after zero.                                                     *)
LEMMA KeyIs ==
  ASSUME FirstWindow >= Span, NEW begin \in WindowEdges
  PROVE  /\ begin \in Nat /\ begin >= Span /\ Key(begin) = begin - Span /\ begin - Span \in Nat
         /\ (begin - Tick) % TsModulus = begin - Tick
<1>1. begin \in Nat /\ begin >= Span /\ begin <= LastTs + 1
  BY SearchNumbers DEF WindowEdges
<1>2. /\ begin - Span \in Nat /\ begin - Span < TsModulus
      /\ begin - Tick \in Nat /\ begin - Tick < TsModulus
  BY <1>1, SearchNumbers
<1>3. \A x, y \in Nat : x < y => x % y = x
  OBVIOUS
<1> QED
  BY <1>1, <1>2, <1>3, SearchNumbers DEF Key

(* What comes before the iterator that a binary search returns is older    *)
(* than the key; it finds every key that is not older than the front.      *)
LEMMA BinaryFinds ==
  ASSUME BSInv, Count > 0, NEW k \in Int
  PROVE  /\ Front <= k => BinarySearch(k) # End
         /\ BinarySearch(k) # End =>
              \E j \in 0..Count : /\ BinarySearch(k) = Nth(j)
                                  /\ \A i \in 0..j - 1 : records_[Nth(i)] < k
<1>0. BSTypeOK /\ GrowInv
  BY DEF BSInv
<1>1. Front \in Int
  <2>1. readIndex_ \in Slots /\ records_ \in [Slots -> 0..LastTs]
    BY <1>0 DEF BSTypeOK
  <2> QED
    BY <2>1, SearchNumbers DEF Front
<1>2. CASE k < Front
  <2>1. BinarySearch(k) = End
    BY <1>2 DEF BinarySearch
  <2> QED
    BY <1>1, <1>2, <2>1
<1>3. CASE Front <= k
  <2>1. PICK j \in 0..Count : /\ BinarySearch(k) = Nth(j)
                              /\ \A i \in 0..j - 1 : records_[Nth(i)] < k
    BY <1>0, <1>3, BinarySearchRight
  <2>2. Count \in 0..Size - 1 /\ Size \in Nat
    BY <1>0, HeldNumbers
  <2>3. j \in 0..Size - 1
    BY <2>2
  <2>4. Nth(j) \in Slots
    BY <1>0, <2>3, NthSlot DEF BSTypeOK
  <2>5. Nth(j) # End
    BY <2>2, <2>4 DEF Slots, End
  <2> QED
    BY <2>1, <2>5
<1> QED
  BY <1>1, <1>2, <1>3

(* What comes before the iterator that a fixed rate search returns is      *)
(* older than the key, or begins after the elements that are evenly        *)
(* spaced; it finds every key within the reach of those.                   *)
LEMMA FixedRateFinds ==
  ASSUME BSInv, NEW k \in Int, NEW u, NEW c \in 1..Count, EvenUpTo(u, c)
  PROVE  /\ Front <= k /\ k <= u => PositionOf(k) # End
         /\ PositionOf(k) # End =>
              \E j \in 0..Count : /\ PositionOf(k) = Nth(j)
                                  /\ \A i \in 0..j - 1 : records_[Nth(i)] < k \/ records_[Nth(i)] >= u
<1>0. BSTypeOK /\ Count \in Nat
  BY HeldNumbers DEF BSInv
<1>1. Front <= k /\ k <= u => PositionOf(k) # End
  <2>1. c \in 0..Count
    BY <1>0
  <2> QED
    BY <1>0, <2>1, PositionFound DEF EvenUpTo
<1>2. ASSUME PositionOf(k) # End
      PROVE  \E j \in 0..Count : /\ PositionOf(k) = Nth(j)
                                 /\ \A i \in 0..j - 1 : records_[Nth(i)] < k \/ records_[Nth(i)] >= u
  <2>1. PICK j \in 0..Count : /\ PositionOf(k) = Nth(j)
                              /\ \A i \in Nat : i < j => Front + i * Span < k
    BY <1>0, <1>2, PositionIs
  <2>2. ASSUME NEW i \in 0..j - 1 PROVE records_[Nth(i)] < k \/ records_[Nth(i)] >= u
    <3>1. i \in Nat /\ i < j /\ (i \in 0..c - 1 \/ i \in c..Count - 1)
      BY <1>0
    <3> QED
      BY <2>1, <3>1 DEF EvenUpTo
  <2> QED
    BY <2>1, <2>2
<1> QED
  BY <1>1, <1>2

(* The frames of an element lie between its timestamp and its end.         *)
LEMMA FrameBounds ==
  ASSUME NEW ts \in Nat, NEW f \in FramesOf(ts)
  PROVE  f \in Nat /\ ts <= f /\ f + Tick <= ts + Span
<1>1. PICK q \in 0..NumFrames - 1 : f = ts + Tick * q
  BY DEF FramesOf
<1>2. Tick \in Nat /\ NumFrames \in Nat /\ Span = NumFrames * Tick /\ q \in Nat /\ q + 1 <= NumFrames
  BY SearchNumbers
<1>3. \A x, y, z \in Nat : y + 1 <= z => x * y \in Nat /\ x * y + x <= z * x /\ z * x \in Nat
  <2>1. \A x, y, z \in Nat : y <= z => x * y <= z * x /\ z * x \in Nat
    OBVIOUS
  <2>2. \A x, y \in Nat : x * (y + 1) = x * y + x /\ x * y \in Nat
    OBVIOUS
  <2> QED
    BY <2>1, <2>2
<1>4. Tick * q \in Nat /\ Tick * q + Tick <= Span /\ Span \in Nat
  BY <1>2, <1>3
<1> QED
  BY <1>1, <1>2, <1>4

(* What an element that begins before the window's end adds are its frames *)
(* that overlap the window.                                                *)
LEMMA PiecesAre ==
  ASSUME FirstWindow >= Span, NEW begin \in WindowEdges, NEW end \in WindowEdges,
         NEW ts \in Nat, ts < end
  PROVE  PiecesOf(ts, begin, end) = {f \in FramesOf(ts) : f + Tick > begin /\ f < end}
<1>1. /\ begin \in Nat /\ end \in Nat /\ (begin - Tick) % TsModulus = begin - Tick
  BY KeyIs
<1>2. Tick \in Nat /\ Tick > 0 /\ Span \in Nat /\ NumFrames \in Nat /\ NumFrames > 0 /\ Span = NumFrames * Tick
  BY SearchNumbers
<1>3. \A f \in FramesOf(ts) : f \in Nat /\ ts <= f /\ f + Tick <= ts + Span
  BY FrameBounds
<1>4. CASE ts + Span <= begin
  <2>1. PiecesOf(ts, begin, end) = {}
    BY <1>4 DEF PiecesOf
  <2>2. \A f \in FramesOf(ts) : ~(f + Tick > begin)
    BY <1>1, <1>2, <1>3, <1>4
  <2> QED
    BY <2>1, <2>2
<1>5. CASE ~(ts + Span <= begin) /\ NumFrames > 1 /\ (ts < begin \/ ts + Span > end)
  <2>1. PiecesOf(ts, begin, end) = {f \in FramesOf(ts) : f > (begin - Tick) % TsModulus /\ f < end}
    BY <1>5 DEF PiecesOf
  <2>2. \A f \in FramesOf(ts) : f > (begin - Tick) % TsModulus <=> f + Tick > begin
    BY <1>1, <1>2, <1>3
  <2> QED
    BY <2>1, <2>2
<1>6. CASE ~(ts + Span <= begin) /\ ~(NumFrames > 1 /\ (ts < begin \/ ts + Span > end))
  <2>1. PiecesOf(ts, begin, end) = FramesOf(ts)
    BY <1>6 DEF PiecesOf
  <2>2. ASSUME NEW f \in FramesOf(ts) PROVE f + Tick > begin /\ f < end
    <3>0. f \in Nat /\ ts <= f /\ f + Tick <= ts + Span
      BY <1>3
    <3>1. CASE NumFrames = 1
      <4>1. Span = Tick
        BY <1>2, <3>1
      <4>2. f = ts
        BY <1>2, <3>0, <4>1
      <4> QED
        BY <1>1, <1>2, <1>6, <4>1, <4>2
    <3>2. CASE NumFrames # 1
      <4>1. NumFrames > 1
        BY <1>2, <3>2
      <4>2. ~(ts < begin) /\ ~(ts + Span > end)
        BY <1>6, <4>1
      <4> QED
        BY <1>1, <1>2, <3>0, <4>2
    <3> QED
      BY <3>1, <3>2
  <2> QED
    BY <2>1, <2>2
<1> QED
  BY <1>4, <1>5, <1>6

(* The iterator of the loop, one element further each time.                *)
LEMMA WalkIs ==
  ASSUME BSTypeOK, NEW j \in 0..Count, NEW n \in 0..Size
  PROVE  Passes([i \in Slots \cup {End} |-> Advance(i)], Nth(j))[n] =
           IF n = 0 \/ j + n < Count THEN Nth(j + n) ELSE End
<1> DEFINE step == [i \in Slots \cup {End} |-> Advance(i)]
           at == Passes(step, Nth(j))
           B == {m \in 0..Size : at[m] # IF m = 0 \/ j + m < Count THEN Nth(j + m) ELSE End}
<1>0. Count \in 0..Size - 1 /\ Count \in Nat /\ Size \in Nat /\ j \in Nat
  BY HeldNumbers
<1>1. readIndex_ \in Slots /\ writeIndex_ \in Slots /\ \A i \in 0..Size - 1 : Nth(i) \in Slots
  BY NthSlot DEF BSTypeOK
<1>2. /\ at[0] = Nth(j)
      /\ \A m \in 0..Size : m # 0 => at[m] = step[at[m - 1]]
  BY PassesAre
<1> HIDE DEF at
<1>3. B = {}
  <2>1. SUFFICES ASSUME B # {} PROVE FALSE
    OBVIOUS
  <2>2. PICK m \in B : \A y \in B : m <= y
    <3>1. B \in SUBSET Nat
      BY <1>0
    <3> HIDE DEF B
    <3> QED
      BY <2>1, <3>1, MinOfSet
  <2>3. m \in 0..Size /\ at[m] # IF m = 0 \/ j + m < Count THEN Nth(j + m) ELSE End
    OBVIOUS
  <2>4. m # 0
    <3>1. j + 0 = j
      BY <1>0
    <3> QED
      BY <1>2, <2>3, <3>1
  <2>5. m - 1 \in 0..Size /\ ~(m <= m - 1) /\ m - 1 \in Nat /\ m \in Nat
    BY <1>0, <2>3, <2>4
  <2>6. at[m - 1] = IF m - 1 = 0 \/ j + (m - 1) < Count THEN Nth(j + (m - 1)) ELSE End
    BY <2>2, <2>5
  <2>7. CASE m - 1 = 0 \/ j + (m - 1) < Count
    <3>1. j + (m - 1) \in 0..Count /\ j + (m - 1) \in 0..Size - 1 /\ (j + (m - 1)) + 1 = j + m
      BY <1>0, <2>5, <2>7
    <3>2. step[at[m - 1]] = Advance(Nth(j + (m - 1)))
      BY <1>1, <2>6, <2>7, <3>1
    <3>3. Advance(Nth(j + (m - 1))) = IF j + m < Count THEN Nth(j + m) ELSE End
      BY <1>1, <3>1, AdvanceIs
    <3> QED
      BY <1>2, <2>3, <2>4, <3>2, <3>3
  <2>8. CASE ~(m - 1 = 0 \/ j + (m - 1) < Count)
    <3>1. step[at[m - 1]] = Advance(End)
      BY <2>6, <2>8
    <3>2. Advance(End) = End
      BY <1>1, AdvanceIs
    <3>3. ~(j + m < Count)
      BY <1>0, <2>5, <2>8
    <3> QED
      BY <1>2, <2>3, <2>4, <3>1, <3>2, <3>3
  <2> QED
    BY <2>7, <2>8
<1>4. at[n] = IF n = 0 \/ j + n < Count THEN Nth(j + n) ELSE End
  BY <1>3
<1> QED
  BY <1>4 DEF at

(* The loop of get_fragment_pieces() from the j-th element on collects     *)
(* frames of the window only, and all before u, if the elements before the *)
(* j-th end before the window or begin after u.                            *)
LEMMA CollectedIs ==
  ASSUME FirstWindow >= Span, BSInv, query.begin \in WindowEdges, query.end \in WindowEdges,
         NEW u \in Nat, NEW j \in 0..Count, StartsAt(j, u)
  PROVE  /\ Collected \subseteq FramesIn(query.begin, query.end)
         /\ {f \in FramesIn(query.begin, query.end) : f < u} \subseteq Collected
<1>0. BSTypeOK /\ GrowInv
  BY DEF BSInv
<1>1. /\ Count \in 0..Size - 1 /\ Count \in Nat /\ Size \in Nat /\ j \in Nat
      /\ \A i \in 0..Count - 1 : i \in 0..Size - 1 /\ Nth(i) \in Slots /\ records_[Nth(i)] \in Nat
  BY <1>0, HeldNumbers
<1>2. PICK begin \in Nat, end \in Nat : begin = query.begin /\ end = query.end
  BY KeyIs
<1>3. begin \in WindowEdges /\ end \in WindowEdges
  BY <1>2
<1> DEFINE at == Passes([i \in Slots \cup {End} |-> Advance(i)], query.iter)
           stops(n) == ~Good(at[n]) \/ records_[at[n]] >= end
           S == {n \in 0..Size : stops(n)}
           length == Min(S)
<1>4. Collected = UNION {PiecesOf(records_[at[n]], begin, end) : n \in 0..length - 1}
  BY <1>2 DEF Collected
<1>14. query.iter = Nth(j)
  BY DEF StartsAt
<1>5. ASSUME NEW n \in 0..Size
      PROVE  /\ j + n < Count => at[n] = Nth(j + n) /\ Good(at[n])
             /\ ~(j + n < Count) => ~Good(at[n])
  <2>1. at[n] = IF n = 0 \/ j + n < Count THEN Nth(j + n) ELSE End
    BY <1>0, <1>14, WalkIs
  <2>2. readIndex_ \in Slots /\ writeIndex_ \in Slots
    BY <1>0 DEF BSTypeOK
  <2>3. CASE j + n < Count
    <3>1. j + n \in 0..Size - 1
      BY <1>1, <2>3
    <3> QED
      BY <2>1, <2>2, <2>3, <3>1, GoodIsHeld
  <2>4. CASE ~(j + n < Count) /\ n = 0
    <3>1. j + n \in 0..Size - 1
      BY <1>1, <2>4
    <3> QED
      BY <2>1, <2>2, <2>4, <3>1, GoodIsHeld
  <2>5. CASE ~(j + n < Count) /\ n # 0
    BY <2>1, <2>5 DEF Good
  <2> QED
    BY <2>3, <2>4, <2>5
<1> HIDE DEF at
<1>6. S \in SUBSET Nat /\ Count - j \in S
  <2>1. Count - j \in 0..Size /\ ~(j + (Count - j) < Count)
    BY <1>1
  <2> QED
    BY <1>1, <1>5, <2>1
<1> HIDE DEF S
<1>7. length \in S /\ \A y \in S : length <= y
  BY <1>6, MinOfSet
<1> HIDE DEF length
<1>8. /\ length \in Nat /\ length \in 0..Size /\ length <= Count - j
  BY <1>1, <1>6, <1>7 DEF S
<1>9. ASSUME NEW n \in 0..length - 1
      PROVE  /\ j + n < Count /\ j + n \in 0..Count - 1 /\ at[n] = Nth(j + n)
             /\ records_[Nth(j + n)] \in Nat /\ records_[Nth(j + n)] < end
  <2>1. n \in 0..Size /\ ~(length <= n) /\ n \in Nat
    BY <1>1, <1>8
  <2>2. n \notin S
    BY <1>7, <2>1
  <2>3. ~stops(n)
    BY <2>1, <2>2 DEF S
  <2>4. j + n < Count
    BY <1>5, <2>1, <2>3
  <2>5. j + n \in 0..Count - 1 /\ at[n] = Nth(j + n)
    BY <1>1, <1>5, <2>1, <2>4
  <2>6. records_[Nth(j + n)] \in Nat
    BY <1>1, <2>5
  <2> QED
    BY <1>2, <2>3, <2>4, <2>5, <2>6
<1>10. ASSUME NEW i \in 0..Count - 1, j + length <= i PROVE records_[Nth(i)] >= end
  <2>1. j + length < Count /\ j + length \in 0..Count - 1 /\ i \in Nat
    BY <1>1, <1>8, <1>10
  <2>2. at[length] = Nth(j + length) /\ Good(at[length])
    BY <1>5, <1>8, <2>1
  <2>3. records_[Nth(j + length)] >= end
    BY <1>7, <2>2 DEF S
  <2>4. j + length = i \/ records_[Nth(j + length)] < records_[Nth(i)]
    <3>1. SUFFICES ASSUME j + length # i PROVE records_[Nth(j + length)] < records_[Nth(i)]
      OBVIOUS
    <3>2. j + length < i
      BY <1>1, <1>8, <1>10, <2>1, <3>1
    <3> QED
      BY <1>0, <2>1, <3>2 DEF GrowInv
  <2>5. records_[Nth(j + length)] \in Nat /\ records_[Nth(i)] \in Nat
    BY <1>1, <2>1
  <2> QED
    BY <1>2, <2>3, <2>4, <2>5
<1>11. Occupied = {Nth(i) : i \in 0..Count - 1}
  BY DEF Occupied, Nth
<1>12. ASSUME NEW f \in Collected PROVE f \in FramesIn(query.begin, query.end)
  <2>1. PICK n \in 0..length - 1 : f \in PiecesOf(records_[at[n]], begin, end)
    BY <1>4
  <2>2. f \in PiecesOf(records_[Nth(j + n)], begin, end)
    BY <1>9, <2>1
  <2>3. f \in {g \in FramesOf(records_[Nth(j + n)]) : g + Tick > begin /\ g < end}
    BY <1>3, <1>9, <2>2, PiecesAre
  <2>4. f \in FramesOf(records_[Nth(j + n)]) /\ f + Tick > begin /\ f < end
    BY <2>3
  <2>5. Nth(j + n) \in Occupied
    BY <1>9, <1>11
  <2> QED
    BY <1>2, <2>4, <2>5 DEF FramesIn
<1>13. ASSUME NEW f \in FramesIn(query.begin, query.end), f < u PROVE f \in Collected
  <2>1. /\ f \in UNION {FramesOf(records_[s]) : s \in Occupied}
        /\ f + Tick > begin /\ f < end
    BY <1>2 DEF FramesIn
  <2>2. PICK i \in 0..Count - 1 : f \in FramesOf(records_[Nth(i)])
    BY <1>11, <2>1
  <2>3. records_[Nth(i)] \in Nat /\ i \in Nat
    BY <1>1
  <2>4. f \in Nat /\ records_[Nth(i)] <= f /\ f + Tick <= records_[Nth(i)] + Span
    BY <2>2, <2>3, FrameBounds
  <2>5. j <= i
    <3>1. SUFFICES ASSUME i < j PROVE FALSE
      BY <1>1, <2>3
    <3>2. records_[Nth(i)] + Span <= begin \/ records_[Nth(i)] >= u
      <4>1. i \in 0..j - 1
        BY <1>1, <2>3, <3>1
      <4> QED
        BY <1>2, <4>1 DEF StartsAt
    <3> QED
      BY <1>2, <1>13, <2>1, <2>3, <2>4, <3>2, SearchNumbers
  <2>6. i < j + length
    <3>1. SUFFICES ASSUME j + length <= i PROVE FALSE
      BY <1>1, <1>8, <2>3
    <3>2. records_[Nth(i)] >= end
      BY <1>10, <3>1
    <3> QED
      BY <1>2, <2>1, <2>3, <2>4, <3>2
  <2>7. PICK n \in 0..length - 1 : j + n = i
    <3>1. i - j \in 0..length - 1 /\ j + (i - j) = i
      BY <1>1, <1>8, <2>3, <2>5, <2>6
    <3> QED
      BY <3>1
  <2>8. f \in PiecesOf(records_[at[n]], begin, end)
    <3>1. at[n] = Nth(i) /\ records_[Nth(i)] < end
      BY <1>9, <2>7
    <3>2. f \in {g \in FramesOf(records_[Nth(i)]) : g + Tick > begin /\ g < end}
      BY <2>1, <2>2
    <3>3. f \in PiecesOf(records_[Nth(i)], begin, end)
      BY <1>3, <2>3, <3>1, <3>2, PiecesAre
    <3> QED
      BY <3>1, <3>3
  <2> QED
    BY <1>4, <2>8
<1> QED
  BY <1>12, <1>13

(* What was before the iterator stays before it while elements arrive, and *)
(* nothing is popped before the reply.                                     *)
LEMMA QueryInvWrite ==
  ASSUME BSInv, QueryInv, WriteItem
  PROVE  QueryInv'
<1>0. BSTypeOK /\ GrowInv /\ RateInv /\ ConsumerInv
  BY DEF BSInv
<1>1. /\ Count \in 0..Size - 1 /\ Count \in Nat /\ Size \in Nat
      /\ \A i \in 0..Count - 1 : i \in 0..Size - 1 /\ Nth(i) \in Slots /\ records_[Nth(i)] \in Nat
  BY <1>0, HeldNumbers
<1>2. PICK ts \in 0..LastTs : ts = consumer.ts /\ next_ts <= ts /\ next_ts' = ts + Span
  BY <1>0 DEF BSTypeOK, WriteItem, ConsumerInv
<1>3. /\ readIndex_' = readIndex_ /\ query' = query /\ search' = search
      /\ \/ /\ ~Full
            /\ records_' = [records_ EXCEPT ![writeIndex_] = ts]
            /\ writeIndex_' = Wrap(writeIndex_ + 1)
         \/ UNCHANGED <<records_, writeIndex_>>
  BY <1>2 DEF WriteItem
<1>4. /\ Count' = Count \/ (Count' = Count + 1 /\ records_'[Nth(Count)] = ts)
      /\ \A i \in 0..Size - 1 : Nth(i)' = Nth(i)
      /\ \A i \in 0..Count - 1 : records_'[Nth(i)] = records_[Nth(i)]
  <2>1. CASE UNCHANGED <<records_, writeIndex_>>
    BY <1>3, <2>1 DEF Count, Nth
  <2>2. CASE ~UNCHANGED <<records_, writeIndex_>>
    BY <1>0, <1>3, <2>2, WriteNth
  <2> QED
    BY <2>1, <2>2
<1>5. Count' \in Nat /\ Count <= Count' /\ \A i \in 0..Count - 1 : records_'[Nth(i)'] = records_[Nth(i)]
  BY <1>1, <1>4
<1>6. ASSUME NEW c \in 1..Count, EvenUpTo(query.upto, c), query.upto \in Nat
      PROVE  c \in 1..Count' /\ EvenUpTo(query.upto, c)'
  <2>1. c \in Nat /\ c \in 1..Count' /\ 0 \in 0..Count - 1 /\ Nth(0) = readIndex_
    BY <1>0, <1>1, <1>5, NthSlot DEF BSTypeOK
  <2>2. Front' = Front
    BY <1>3, <1>4, <2>1 DEF Front
  <2>3. next_ts \in Nat /\ Span \in Nat
    BY <1>0, SearchNumbers DEF BSTypeOK
  <2>4. query.upto = Front + c * Span /\ query.upto <= next_ts
    BY <1>6 DEF EvenUpTo
  <2>5. query.upto <= next_ts' /\ query.upto <= ts
    BY <1>2, <1>6, <2>3, <2>4
  <2>6. ASSUME NEW i \in 0..c - 1 PROVE records_'[Nth(i)'] = Front + i * Span
    <3>1. i \in 0..Count - 1
      BY <1>1
    <3> QED
      BY <1>5, <1>6, <3>1 DEF EvenUpTo
  <2>7. ASSUME NEW i \in c..Count' - 1 PROVE records_'[Nth(i)'] >= query.upto
    <3>1. CASE i \in c..Count - 1
      <4>1. i \in 0..Count - 1
        BY <1>1, <3>1
      <4> QED
        BY <1>5, <1>6, <3>1, <4>1 DEF EvenUpTo
    <3>2. CASE i \notin c..Count - 1
      <4>1. i = Count /\ records_'[Nth(Count)] = ts /\ i \in 0..Size - 1
        BY <1>1, <1>4, <3>2
      <4>2. records_'[Nth(i)'] = ts
        BY <1>4, <4>1
      <4> QED
        BY <1>6, <2>5, <4>2
    <3> QED
      BY <3>1, <3>2
  <2>8. (EvenUpTo(query.upto, c))' <=>
          /\ query.upto = Front + c * Span /\ query.upto <= next_ts'
          /\ \A i \in 0..c - 1 : records_'[Nth(i)'] = Front + i * Span
          /\ \A i \in c..Count' - 1 : records_'[Nth(i)'] >= query.upto
    BY <1>3, <2>2 DEF EvenUpTo
  <2> QED
    BY <2>1, <2>4, <2>5, <2>6, <2>7, <2>8
<1>7. ASSUME NEW j \in 0..Count, StartsAt(j, query.upto)
      PROVE  j \in 0..Count' /\ StartsAt(j, query.upto)'
  <2>1. j \in 0..Count' /\ j \in 0..Size - 1 /\ j \in Nat
    BY <1>1, <1>5
  <2>2. ASSUME NEW i \in 0..j - 1
        PROVE  records_'[Nth(i)'] + Span <= query.begin \/ records_'[Nth(i)'] >= query.upto
    <3>1. i \in 0..Count - 1
      BY <1>1, <2>1
    <3> QED
      BY <1>5, <1>7, <3>1 DEF StartsAt
  <2>3. query.iter = Nth(j)'
    BY <1>4, <1>7, <2>1 DEF StartsAt
  <2> QED
    BY <1>3, <2>1, <2>2, <2>3 DEF StartsAt
<1>8. query.pc = "search" /\ FixedRate /\ ~query.with_errors /\ query.upto # 0
        => \E c \in 1..Count' : EvenUpTo(query.upto, c)'
  BY <1>6 DEF QueryInv
<1>9. query.pc = "collect" => \E j \in 0..Count' : StartsAt(j, query.upto)'
  BY <1>7 DEF QueryInv
<1>10. query = Idle \/ Count' > 0
  BY <1>1, <1>5 DEF QueryInv
<1> QED
  BY <1>3, <1>8, <1>9, <1>10 DEF QueryInv, FixedRate

(* has_error() tells the truth about the elements that are there, unless   *)
(* add_error() has a gap out of the map.                                   *)
LEMMA QueryInvHasError ==
  ASSUME "fixed_rate" \notin Overflowing, BSInv, QueryInv, HasError
  PROVE  QueryInv'
<1>0. BSTypeOK /\ GrowInv /\ RateInv
  BY DEF BSInv
<1>1. /\ Count \in Nat /\ LastTs \in Nat /\ Span \in Nat
      /\ \A i \in 0..Count - 1 : records_[Nth(i)] \in Nat
  BY <1>0, HeldNumbers, SearchNumbers
<1>2. query # Idle
  BY DEF HasError, Idle
<1>3. /\ query.begin \in WindowEdges /\ query.end \in WindowEdges /\ query.begin < query.end
      /\ Count > 0
  BY <1>2 DEF QueryInv
<1>4. Before(writeIndex_) = Nth(Count - 1) /\ 0 \in 0..Count - 1 /\ Count - 1 \in 0..Count - 1
  BY <1>0, <1>1, <1>3, NthSlot DEF BSTypeOK
<1>5. Back \in Nat
  BY <1>1, <1>4 DEF Back
<1> DEFINE u == IF ~FixedRate \/ missing # NoError THEN LastTs + Span
                ELSE IF LastGap = NoError THEN Back + Span ELSE 0
<1>6. u \in Nat
  BY <1>1, <1>5
<1>7. ASSUME FixedRate, missing = NoError, u # 0 PROVE EvenUpTo(u, Count)
  <2>1. LastGap = NoError /\ u = Back + Span /\ search \notin Overflowing
    BY <1>7 DEF FixedRate
  <2>2. Front \in Nat /\ \A i \in 0..Count - 1 : records_[Nth(i)] = Front + i * Span
    BY <1>0, <1>4, <2>1, EvenlySpaced
  <2>3. \A x, y \in Nat : x > 0 => (x - 1) * y + y = x * y /\ (x - 1) * y \in Nat
    <3>1. \A x, y \in Nat : (x + 1) * y = x * y + y /\ x * y \in Nat
      OBVIOUS
    <3>2. SUFFICES ASSUME NEW x \in Nat, NEW y \in Nat, x > 0
                   PROVE  (x - 1) * y + y = x * y /\ (x - 1) * y \in Nat
      OBVIOUS
    <3>3. PICK z \in Nat : z = x - 1 /\ z + 1 = x
      BY <3>2
    <3> QED
      BY <3>1, <3>3
  <2>4. u = Front + Count * Span
    <3>1. Back = Front + (Count - 1) * Span
      BY <1>4, <2>2 DEF Back
    <3>2. (Count - 1) * Span + Span = Count * Span /\ (Count - 1) * Span \in Nat
      BY <1>1, <1>3, <2>3
    <3>3. \A x, y, z \in Nat : (x + y) + z = x + (y + z)
      OBVIOUS
    <3> QED
      BY <1>1, <2>1, <2>2, <3>1, <3>2, <3>3
  <2>5. u = next_ts
    <3>1. records_[Nth(Count - 1)] >= LastGap
      BY <1>1, <1>4, <2>1 DEF NoError
    <3>2. records_[Nth(Count - 1)] + (Count - (Count - 1)) * Span = next_ts
      BY <1>0, <1>4, <2>1, <3>1 DEF RateInv
    <3>3. Count - (Count - 1) = 1 /\ 1 * Span = Span
      BY <1>1
    <3> QED
      BY <1>4, <2>1, <3>2, <3>3 DEF Back
  <2>6. next_ts \in Nat
    BY <1>0, SearchNumbers DEF BSTypeOK
  <2> HIDE DEF u
  <2> QED
    BY <1>1, <2>2, <2>4, <2>5, <2>6 DEF EvenUpTo
<1>8. /\ query' = [pc |-> "search", begin |-> query.begin, end |-> query.end,
                   with_errors |-> missing # NoError, upto |-> u]
      /\ UNCHANGED <<search, records_, readIndex_, writeIndex_, registry_vars>>
  BY DEF HasError
<1> HIDE DEF u
<1>9. /\ query'.pc = "search" /\ query'.begin = query.begin /\ query'.end = query.end
      /\ query'.with_errors = (missing # NoError) /\ query'.upto = u
      /\ Count' = Count /\ FixedRate' = FixedRate
  BY <1>8 DEF Count, FixedRate
<1>10. /\ Front' = Front /\ next_ts' = next_ts /\ records_' = records_
       /\ \A i \in Nat : Nth(i)' = Nth(i)
  BY <1>8 DEF Front, Nth, registry_vars
<1>11. ASSUME FixedRate, ~query'.with_errors, u # 0
       PROVE  \E c \in 1..Count' : EvenUpTo(query.upto, c)'
  <2>1. EvenUpTo(u, Count)
    BY <1>7, <1>9, <1>11
  <2>2. Count \in 1..Count'
    BY <1>1, <1>3, <1>9
  <2>3. ASSUME NEW c \in 1..Count, c = Count PROVE EvenUpTo(query.upto, c)'
    BY <1>1, <1>9, <1>10, <2>1, <2>3 DEF EvenUpTo
  <2> QED
    BY <1>9, <2>2, <2>3
<1> QED
  BY <1>3, <1>6, <1>9, <1>11 DEF QueryInv

(* Whatever the search returns, the elements before it end before the      *)
(* window or are none that has_error() spoke of; and it finds a window     *)
(* that it spoke of.                                                       *)
LEMMA LookUpFinds ==
  ASSUME FirstWindow >= Span, BSInv, QueryInv, query.pc = "search",
         NEW iter, iter = LowerBound(Key(query.begin), query.with_errors)
  PROVE  /\ iter # End => \E j \in 0..Count :
                            /\ iter = Nth(j)
                            /\ \A i \in 0..j - 1 : \/ records_[Nth(i)] + Span <= query.begin
                                                   \/ records_[Nth(i)] >= query.upto
         /\ Front + Span <= query.begin /\ query.end <= query.upto => iter # End
<1>0. query # Idle
  BY DEF Idle
<1>1. /\ query.begin \in WindowEdges /\ query.end \in WindowEdges /\ query.begin < query.end
      /\ Count > 0 /\ query.upto \in Nat
  BY <1>0 DEF QueryInv
<1>2. PICK begin \in Nat, end \in Nat, upto \in Nat :
        begin = query.begin /\ end = query.end /\ upto = query.upto
  BY <1>1, KeyIs
<1>3. PICK k \in Nat : k = Key(query.begin) /\ k = begin - Span
  BY <1>1, <1>2, KeyIs
<1>4. /\ Count \in Nat /\ Span \in Nat /\ Front \in Nat
      /\ \A i \in 0..Count - 1 : records_[Nth(i)] \in Nat
  <2>1. BSTypeOK /\ readIndex_ \in Slots /\ records_ \in [Slots -> 0..LastTs]
    BY DEF BSInv, BSTypeOK
  <2> QED
    BY <2>1, HeldNumbers, SearchNumbers DEF Front
<1>5. ASSUME NEW j \in 0..Count, NEW i \in 0..j - 1, records_[Nth(i)] < k
      PROVE  records_[Nth(i)] + Span <= query.begin
  <2>1. records_[Nth(i)] \in Nat
    <3>1. i \in 0..Count - 1
      BY <1>4
    <3> QED
      BY <1>4, <3>1
  <2> QED
    BY <1>2, <1>3, <1>4, <1>5, <2>1
<1>6. Front + Span <= query.begin => Front <= k
  BY <1>2, <1>3, <1>4
<1>7. CASE ~(FixedRate /\ ~query.with_errors)
  <2>1. iter = BinarySearch(k)
    BY <1>3, <1>7 DEF LowerBound
  <2>2. /\ Front <= k => BinarySearch(k) # End
        /\ BinarySearch(k) # End =>
             \E j \in 0..Count : /\ BinarySearch(k) = Nth(j)
                                 /\ \A i \in 0..j - 1 : records_[Nth(i)] < k
    BY <1>1, BinaryFinds
  <2>3. ASSUME iter # End
        PROVE  \E j \in 0..Count :
                 /\ iter = Nth(j)
                 /\ \A i \in 0..j - 1 : records_[Nth(i)] + Span <= query.begin \/ records_[Nth(i)] >= query.upto
    <3>1. PICK j \in 0..Count : /\ BinarySearch(k) = Nth(j)
                                /\ \A i \in 0..j - 1 : records_[Nth(i)] < k
      BY <2>1, <2>2, <2>3
    <3> QED
      BY <1>5, <2>1, <3>1
  <2> QED
    BY <1>6, <2>1, <2>2, <2>3
<1>8. CASE FixedRate /\ ~query.with_errors /\ upto # 0
  <2>1. iter = PositionOf(k)
    BY <1>3, <1>8 DEF LowerBound
  <2>2. PICK c \in 1..Count : EvenUpTo(upto, c)
    BY <1>2, <1>8 DEF QueryInv
  <2>3. /\ Front <= k /\ k <= upto => PositionOf(k) # End
        /\ PositionOf(k) # End =>
             \E j \in 0..Count : /\ PositionOf(k) = Nth(j)
                                 /\ \A i \in 0..j - 1 : records_[Nth(i)] < k \/ records_[Nth(i)] >= upto
    <3>1. k \in Int
      OBVIOUS
    <3> QED
      BY <2>2, <3>1, FixedRateFinds, Zenon
  <2>4. query.end <= query.upto => k <= upto
    BY <1>1, <1>2, <1>3, <1>4
  <2>5. ASSUME iter # End
        PROVE  \E j \in 0..Count :
                 /\ iter = Nth(j)
                 /\ \A i \in 0..j - 1 : records_[Nth(i)] + Span <= query.begin \/ records_[Nth(i)] >= query.upto
    <3>1. PICK j \in 0..Count :
            /\ PositionOf(k) = Nth(j)
            /\ \A i \in 0..j - 1 : records_[Nth(i)] < k \/ records_[Nth(i)] >= upto
      BY <2>1, <2>3, <2>5
    <3> QED
      BY <1>2, <1>5, <2>1, <3>1
  <2> QED
    BY <1>6, <2>1, <2>3, <2>4, <2>5
<1>9. CASE FixedRate /\ ~query.with_errors /\ upto = 0
  <2>1. iter = PositionOf(k)
    BY <1>3, <1>9 DEF LowerBound
  <2>2. ~(query.end <= query.upto)
    BY <1>1, <1>2, <1>9
  <2>3. ASSUME iter # End
        PROVE  \E j \in 0..Count :
                 /\ iter = Nth(j)
                 /\ \A i \in 0..j - 1 : records_[Nth(i)] + Span <= query.begin \/ records_[Nth(i)] >= query.upto
    <3>1. BSTypeOK
      BY DEF BSInv
    <3>2. PICK j \in 0..Count : PositionOf(k) = Nth(j)
      BY <2>1, <2>3, <3>1, PositionIs
    <3>3. ASSUME NEW i \in 0..j - 1 PROVE records_[Nth(i)] >= query.upto
      <4>1. i \in 0..Count - 1
        BY <1>4
      <4> QED
        BY <1>2, <1>4, <1>9, <4>1
    <3> QED
      BY <2>1, <3>2, <3>3
  <2> QED
    BY <2>2, <2>3
<1> QED
  BY <1>7, <1>8, <1>9

LEMMA QueryInvNext ==
  ASSUME "fixed_rate" \notin Overflowing, FirstWindow >= Span
  PROVE  BSInv /\ QueryInv /\ [BSNext]_search_vars => QueryInv'
<1> SUFFICES ASSUME BSInv, QueryInv, [BSNext]_search_vars PROVE QueryInv'
  OBVIOUS
<1>1. ASSUME query' = Idle PROVE QueryInv'
  BY <1>1 DEF QueryInv, Idle
<1>2. ASSUME UNCHANGED <<search, records_, readIndex_, writeIndex_, next_ts, query>> PROVE QueryInv'
  BY <1>2 DEF QueryInv, EvenUpTo, StartsAt, Count, Nth, Front, FixedRate
<1>3. CASE (\E gap \in 0..MaxGap : ReceiveItem(gap)) \/ InsertError \/ UNCHANGED search_vars
  BY <1>2, <1>3 DEF ReceiveItem, InsertError, search_vars, registry_vars
<1>4. CASE WriteItem
  BY <1>4, QueryInvWrite
<1>5. CASE CleanupOne \/ Reply
  BY <1>1, <1>5 DEF CleanupOne, Reply
<1>6. ASSUME NEW begin \in WindowEdges, NEW end \in WindowEdges, Ask(begin, end) PROVE QueryInv'
  <2>1. /\ Count > 0 /\ begin < end /\ query' = [pc |-> "asked", begin |-> begin, end |-> end]
        /\ UNCHANGED <<readIndex_, writeIndex_>>
    BY <1>6 DEF Ask
  <2>2. query'.pc = "asked" /\ query'.begin = begin /\ query'.end = end /\ Count' = Count
    BY <2>1 DEF Count
  <2> QED
    BY <2>1, <2>2 DEF QueryInv
<1>7. CASE HasError
  BY <1>7, QueryInvHasError
<1>8. CASE LookUp
  <2>0. query # Idle
    BY <1>8 DEF LookUp, Idle
  <2>1. /\ query.begin \in WindowEdges /\ query.end \in WindowEdges /\ query.begin < query.end
        /\ Count > 0 /\ query.upto \in Nat
    BY <1>8, <2>0 DEF QueryInv, LookUp
  <2>2. PICK iter : iter = LowerBound(Key(query.begin), query.with_errors)
    OBVIOUS
  <2>3. /\ query.pc = "search"
        /\ query' = [pc |-> IF iter = End THEN "notyet" ELSE "collect", begin |-> query.begin,
                     end |-> query.end, iter |-> iter, upto |-> query.upto]
        /\ UNCHANGED <<records_, readIndex_, writeIndex_>>
    BY <1>8, <2>2 DEF LookUp
  <2>4. /\ query'.pc = IF iter = End THEN "notyet" ELSE "collect"
        /\ query'.begin = query.begin /\ query'.end = query.end
        /\ query'.iter = iter /\ query'.upto = query.upto
        /\ Count' = Count /\ records_' = records_ /\ \A i \in Nat : Nth(i)' = Nth(i)
    BY <2>3 DEF Count, Nth
  <2>5. ASSUME iter # End PROVE \E j \in 0..Count' : StartsAt(j, query.upto)'
    <3>1. PICK j \in 0..Count :
            /\ iter = Nth(j)
            /\ \A i \in 0..j - 1 : records_[Nth(i)] + Span <= query.begin \/ records_[Nth(i)] >= query.upto
      BY <2>2, <2>3, <2>5, LookUpFinds
    <3>2. StartsAt(j, query.upto)'
      BY <2>4, <3>1 DEF StartsAt
    <3> QED
      BY <2>4, <3>2
  <2> QED
    BY <2>1, <2>4, <2>5 DEF QueryInv
<1>9. CASE CollectPieces
  <2>1. query # Idle
    BY <1>9 DEF CollectPieces, Idle
  <2>2. query'.pc = "done" /\ query'.begin = query.begin /\ query'.end = query.end /\ Count' = Count
    BY <1>9 DEF CollectPieces, Count
  <2> QED
    BY <2>1, <2>2 DEF QueryInv
<1> QED
  BY <1>3, <1>4, <1>5, <1>6, <1>7, <1>8, <1>9 DEF BSNext

(* A fragment holds frames of its window only, and all of them that the    *)
(* buffer has up to the time for which has_error() has spoken, although    *)
(* gaps are registered and elements arrive between has_error(), the search *)
(* and the walk of get_fragment_pieces(); a window up to that time is      *)
(* found at the first attempt.  For any ring, element and window, as long  *)
(* as the unsigned start of the window minus one element does not wrap,    *)
(* and the fixed rate buffer drops nothing.                                *)
THEOREM FragmentsAreExact ==
  ASSUME "fixed_rate" \notin Overflowing, FirstWindow >= Span
  PROVE  BSSpec => CollectsTheWindow
<1> DEFINE Exact ==
      /\ CollectPieces => /\ query'.pieces \subseteq FramesIn(query.begin, query.end)
                          /\ {f \in FramesIn(query.begin, query.end) : f < query.upto} \subseteq query'.pieces
      /\ LookUp /\ Front + Span <= query.begin /\ query.end <= query.upto => query'.pc = "collect"
<1>1. BSInit => QueryInv
  BY DEF BSInit, QueryInv, Idle
<1>2. BSInv /\ QueryInv /\ [BSNext]_search_vars => [Exact]_search_vars
  <2> SUFFICES ASSUME BSInv, QueryInv PROVE Exact
    OBVIOUS
  <2>1. ASSUME CollectPieces
        PROVE  /\ query'.pieces \subseteq FramesIn(query.begin, query.end)
               /\ {f \in FramesIn(query.begin, query.end) : f < query.upto} \subseteq query'.pieces
    <3>1. query.pc = "collect" /\ query'.pieces = Collected
      BY <2>1 DEF CollectPieces
    <3>2. query # Idle
      BY <3>1 DEF Idle
    <3>3. query.begin \in WindowEdges /\ query.end \in WindowEdges /\ query.upto \in Nat
      BY <3>1, <3>2 DEF QueryInv
    <3>4. PICK j \in 0..Count : StartsAt(j, query.upto)
      BY <3>1 DEF QueryInv
    <3> QED
      BY <3>1, <3>3, <3>4, CollectedIs
  <2>2. ASSUME LookUp, Front + Span <= query.begin, query.end <= query.upto
        PROVE  query'.pc = "collect"
    <3>1. PICK iter : iter = LowerBound(Key(query.begin), query.with_errors)
      OBVIOUS
    <3>2. query.pc = "search" /\ query'.pc = IF iter = End THEN "notyet" ELSE "collect"
      BY <2>2, <3>1 DEF LookUp
    <3>3. iter # End
      BY <2>2, <3>1, <3>2, LookUpFinds
    <3> QED
      BY <3>2, <3>3
  <2> QED
    BY <2>1, <2>2
<1>3. BSInv /\ QueryInv /\ [BSNext]_search_vars => BSInv' /\ QueryInv'
  BY BSInvNext, QueryInvNext
<1> QED
  BY BSInvInit, <1>1, <1>2, <1>3, PTL DEF BSSpec, CollectsTheWindow
=============================================================================
