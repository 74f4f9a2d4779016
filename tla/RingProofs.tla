----------------------------- MODULE RingProofs -----------------------------
(***************************************************************************)
(* Proofs for the ring.  First IterableQueueModel by itself, for every     *)
(* size and every set of payloads: the slots are owned by one thread at a  *)
(* time, the assert of popFront() holds, and the ring implements the       *)
(* bounded FIFO.  Then RingLifecycle, for any number of conf() and scrap() *)
(* calls: the ring keeps all that as long as its indices are reset only    *)
(* while it is empty and nobody is in it, which rests on who may touch it  *)
(* in which phase.  The memory and the prefiller's handshake have parts of *)
(* their own.                                                              *)
(***************************************************************************)
EXTENDS RingLifecycle, TLAPS

-----------------------------------------------------------------------------
(* The ring in use                                                         *)

(* What the producer knows between its check and its publication: the slot *)
(* after its own is not the read index, which only moves away from it.     *)
ProducerHasRoom ==
  /\ wr_pc # "idle" => After(writeIndex_) # readIndex_ /\ wr_elem \in Elements
  /\ wr_pc = "publish" => records_[writeIndex_] = wr_elem

ConsumerHolds == rd_pc = "release" => rd_elem \in Elements

IQInv == IQTypeOK /\ SlotsOwned /\ PopsAreCovered /\ ProducerHasRoom /\ ConsumerHolds

-----------------------------------------------------------------------------
(* Index arithmetic of the ring: occupancy() counts the slots between the  *)
(* indices, whether or not they have wrapped.                              *)
LEMMA OccupancyRange ==
  ASSUME NEW w \in Slots, NEW r \in Slots
  PROVE  /\ Occupancy(w, r) \in 0..Size - 1
         /\ Occupancy(w, r) = 0 <=> w = r
         /\ Occupancy(w, r) = Size - 1 <=> After(w) = r
         /\ After(w) \in Slots
BY QueueAssumption DEF Slots, Occupancy, After

LEMMA OccupancyPublish ==
  ASSUME NEW w \in Slots, NEW r \in Slots, After(w) # r
  PROVE  Occupancy(After(w), r) = Occupancy(w, r) + 1
BY QueueAssumption DEF Slots, Occupancy, After

LEMMA OccupancyRelease ==
  ASSUME NEW w \in Slots, NEW r \in Slots
  PROVE  Occupancy(w, After(r)) = IF w = r THEN Size - 1 ELSE Occupancy(w, r) - 1
BY QueueAssumption DEF Slots, Occupancy, After

LEMMA OccupancyInjective ==
  ASSUME NEW v \in Slots, NEW w \in Slots, NEW r \in Slots, Occupancy(v, r) = Occupancy(w, r)
  PROVE  v = w
BY QueueAssumption DEF Slots, Occupancy

(* The i-th slot from the read index is the one at distance i from it.     *)
LEMMA NthSlot ==
  ASSUME readIndex_ \in Slots, NEW i \in 0..Size - 1
  PROVE  Nth(i) \in Slots /\ Occupancy(Nth(i), readIndex_) = i
BY QueueAssumption DEF Slots, Occupancy, Nth
-----------------------------------------------------------------------------
LEMMA IQInvInit == IQInit => IQInv
<1> SUFFICES ASSUME IQInit PROVE IQInv
  OBVIOUS
<1>1. 0 \in Slots /\ Occupancy(0, 0) = 0
  BY QueueAssumption DEF Slots, Occupancy
<1>2. IQTypeOK
  BY <1>1, QueueAssumption DEF IQInit, IQTypeOK
<1>3. Published = {}
  BY <1>1, OccupancyRange DEF IQInit, Published
<1>4. SlotsOwned
  BY <1>3, QueueAssumption DEF IQInit, SlotsOwned
<1> QED
  BY <1>1, <1>2, <1>4 DEF IQInit, IQInv, PopsAreCovered, ProducerHasRoom, ConsumerHolds

(* The producer's steps.                                                   *)
LEMMA ProducerKeepsInv == IQInv /\ Producer => IQInv'
<1> SUFFICES ASSUME IQInv, Producer PROVE IQInv'
  OBVIOUS
<1> USE DEF IQInv
<1>1. ASSUME NEW e \in Elements, WriteBegin(e) PROVE IQInv'
  <2>1. IQTypeOK'
    BY <1>1 DEF WriteBegin, IQTypeOK, consumer_vars
  <2>2. SlotsOwned'
    BY <1>1 DEF WriteBegin, SlotsOwned, Published, consumer_vars
  <2> QED
    BY <1>1, <2>1, <2>2
    DEF WriteBegin, PopsAreCovered, ProducerHasRoom, ConsumerHolds, consumer_vars
<1>2. CASE WriteFull
  <2>1. IQTypeOK'
    BY <1>2 DEF WriteFull, IQTypeOK, consumer_vars
  <2>2. SlotsOwned'
    BY <1>2 DEF WriteFull, SlotsOwned, Published, consumer_vars
  <2> QED
    BY <1>2, <2>1, <2>2
    DEF WriteFull, PopsAreCovered, ProducerHasRoom, ConsumerHolds, consumer_vars
<1>3. CASE WriteConstruct
  <2>1. IQTypeOK'
    BY <1>3 DEF WriteConstruct, IQTypeOK, consumer_vars, ProducerHasRoom
  <2>2. wr_elem \in Elements /\ records_' = [records_ EXCEPT ![writeIndex_] = wr_elem]
    BY <1>3 DEF WriteConstruct, ProducerHasRoom
  <2>3. Published' = Published /\ writeIndex_ \notin Published
    BY <1>3, OccupancyRange DEF WriteConstruct, Published, IQTypeOK
  <2>4. SlotsOwned'
    BY <1>3, <2>2, <2>3 DEF WriteConstruct, SlotsOwned, IQTypeOK, consumer_vars
  <2> QED
    BY <1>3, <2>1, <2>2, <2>4
    DEF WriteConstruct, PopsAreCovered, ProducerHasRoom, ConsumerHolds, consumer_vars, IQTypeOK
<1>4. CASE WritePublish
  <2>1. After(writeIndex_) # readIndex_ /\ After(writeIndex_) \in Slots
    BY <1>4, OccupancyRange DEF WritePublish, ProducerHasRoom, IQTypeOK
  <2>2. IQTypeOK'
    BY <1>4, <2>1 DEF WritePublish, IQTypeOK, consumer_vars
  <2>3. Occupancy(writeIndex_', readIndex_) = Occupancy(writeIndex_, readIndex_) + 1
    BY <1>4, <2>1, OccupancyPublish DEF WritePublish, IQTypeOK
  <2>4. ASSUME NEW i \in Slots
        PROVE  i \in Published' <=> i \in Published \/ i = writeIndex_
    <3>1. /\ Occupancy(i, readIndex_) \in Int
          /\ Occupancy(writeIndex_, readIndex_) \in Int
      BY OccupancyRange DEF IQTypeOK
    <3>2. i = writeIndex_ <=> Occupancy(i, readIndex_) = Occupancy(writeIndex_, readIndex_)
      BY OccupancyInjective DEF IQTypeOK
    <3> QED
      BY <1>4, <2>3, <3>1, <3>2 DEF WritePublish, Published
  <2>5. readIndex_ \in Published \/ rd_pc # "release"
    BY OccupancyRange DEF Published, PopsAreCovered, IQTypeOK
  <2>6. SlotsOwned'
    BY <1>4, <2>4, <2>5, OccupancyRange DEF WritePublish, SlotsOwned, Published, IQTypeOK, consumer_vars
  <2>7. PopsAreCovered'
    BY <1>4, <2>3, OccupancyRange DEF WritePublish, PopsAreCovered, IQTypeOK, consumer_vars
  <2> QED
    BY <1>4, <2>2, <2>6, <2>7 DEF WritePublish, ProducerHasRoom, ConsumerHolds, consumer_vars
<1> QED
  BY <1>1, <1>2, <1>3, <1>4 DEF Producer

(* The consumer's steps.                                                   *)
LEMMA ConsumerKeepsInv == IQInv /\ Consumer => IQInv'
<1> SUFFICES ASSUME IQInv, Consumer PROVE IQInv'
  OBVIOUS
<1> USE DEF IQInv
<1>1. CASE ReadBegin
  <2>1. IQTypeOK'
    BY <1>1 DEF ReadBegin, IQTypeOK, producer_vars
  <2>2. SlotsOwned'
    BY <1>1 DEF ReadBegin, SlotsOwned, Published, producer_vars
  <2>3. PopsAreCovered'
    BY <1>1, OccupancyRange DEF ReadBegin, PopsAreCovered, IQTypeOK
  <2> QED
    BY <1>1, <2>1, <2>2, <2>3 DEF ReadBegin, ProducerHasRoom, ConsumerHolds, producer_vars
<1>2. CASE FlushBegin
  <2>1. Occupancy(writeIndex_, readIndex_) \in Nat
    BY OccupancyRange DEF IQTypeOK
  <2>2. IQTypeOK'
    BY <1>2, <2>1 DEF FlushBegin, IQTypeOK, producer_vars
  <2>3. SlotsOwned'
    BY <1>2 DEF FlushBegin, SlotsOwned, Published, producer_vars
  <2>4. PopsAreCovered'
    BY <1>2, <2>1 DEF FlushBegin, PopsAreCovered
  <2> QED
    BY <1>2, <2>2, <2>3, <2>4 DEF FlushBegin, ProducerHasRoom, ConsumerHolds, producer_vars
<1>3. CASE Destroy
  <2>1. readIndex_ \in Published /\ readIndex_ # writeIndex_
    BY <1>3, OccupancyRange DEF Destroy, Published, PopsAreCovered, IQTypeOK
  <2>2. records_[readIndex_] \in Elements
    BY <1>3, <2>1 DEF Destroy, SlotsOwned, IQTypeOK
  <2>3. IQTypeOK'
    BY <1>3, <2>2 DEF Destroy, IQTypeOK, producer_vars
  <2>4. Published' = Published
    BY <1>3 DEF Destroy, Published
  <2>5. SlotsOwned'
    BY <1>3, <2>1, <2>4, QueueAssumption DEF Destroy, SlotsOwned, IQTypeOK, producer_vars
  <2>6. PopsAreCovered'
    BY <1>3 DEF Destroy, PopsAreCovered
  <2>7. ProducerHasRoom'
    BY <1>3, <2>1 DEF Destroy, ProducerHasRoom, IQTypeOK, producer_vars
  <2> QED
    BY <1>3, <2>2, <2>3, <2>5, <2>6, <2>7 DEF Destroy, ConsumerHolds
<1>4. CASE Release
  <2>1. readIndex_ # writeIndex_ /\ rd_todo > 0
    BY <1>4, OccupancyRange DEF Release, PopsAreCovered, IQTypeOK
  <2>2. IQTypeOK'
    BY <1>4, <2>1, OccupancyRange DEF Release, IQTypeOK, producer_vars
  <2>3. Occupancy(writeIndex_, readIndex_') = Occupancy(writeIndex_, readIndex_) - 1
    BY <1>4, <2>1, OccupancyRelease DEF Release, IQTypeOK
  <2>4. ASSUME NEW i \in Slots
        PROVE  i \in Published' <=> i \in Published /\ i # readIndex_
    <3>1. Occupancy(i, readIndex_') = IF i = readIndex_ THEN Size - 1
                                      ELSE Occupancy(i, readIndex_) - 1
      BY <1>4, OccupancyRelease DEF Release, IQTypeOK
    <3>2. /\ Occupancy(i, readIndex_) \in Int
          /\ Occupancy(writeIndex_, readIndex_) \in 0..Size - 1
      BY OccupancyRange DEF IQTypeOK
    <3> QED
      BY <1>4, <2>3, <3>1, <3>2, QueueAssumption DEF Release, Published
  <2>5. SlotsOwned'
    BY <1>4, <2>1, <2>4 DEF Release, SlotsOwned, IQTypeOK, producer_vars
  <2>6. PopsAreCovered'
    BY <1>4, <2>1, <2>3, OccupancyRange DEF Release, PopsAreCovered, IQTypeOK
  <2>7. ProducerHasRoom'
    BY <1>4, <2>1, QueueAssumption
    DEF Release, ProducerHasRoom, IQTypeOK, producer_vars, After, Slots
  <2> QED
    BY <1>4, <2>2, <2>5, <2>6, <2>7 DEF Release, ConsumerHolds
<1> QED
  BY <1>1, <1>2, <1>3, <1>4 DEF Consumer

LEMMA IQInvNext == IQInv /\ [IQNext]_queue_vars => IQInv'
<1>1. ASSUME IQInv, UNCHANGED queue_vars PROVE IQInv'
  BY <1>1 DEF IQInv, queue_vars, producer_vars, consumer_vars, IQTypeOK, SlotsOwned, Published,
              PopsAreCovered, ProducerHasRoom, ConsumerHolds
<1> QED
  BY <1>1, ProducerKeepsInv, ConsumerKeepsInv DEF IQNext

(* The invariant holds in every reachable state.                           *)
LEMMA IQInvariant == IQSpec => []IQInv
BY IQInvInit, IQInvNext, PTL DEF IQSpec

(* The state of the ring is well formed; in particular both indices stay   *)
(* inside records_.                                                        *)
THEOREM QueueTypeCorrect == IQSpec => []IQTypeOK
<1>1. IQInv => IQTypeOK
  BY DEF IQInv
<1> QED
  BY IQInvariant, <1>1, PTL

(* write() never constructs over a live payload and a pop never destroys   *)
(* one twice, for every size of the ring.                                  *)
THEOREM QueueSlotsOwned == IQSpec => []SlotsOwned
<1>1. IQInv => SlotsOwned
  BY DEF IQInv
<1> QED
  BY IQInvariant, <1>1, PTL

(* pop(x) and flush() never meet an empty queue: the assert of popFront()  *)
(* holds.                                                                  *)
THEOREM QueuePopsCovered == IQSpec => []PopsAreCovered
<1>1. IQInv => PopsAreCovered
  BY DEF IQInv
<1> QED
  BY IQInvariant, <1>1, PTL
-----------------------------------------------------------------------------
(* The sequence the ring stands for is a sequence of payloads as long as   *)
(* its occupancy.                                                          *)
ContentsOK == /\ Contents \in Seq(Elements)
              /\ Len(Contents) = Occupancy(writeIndex_, readIndex_)

LEMMA ContentsType == IQInv => ContentsOK
<1> SUFFICES ASSUME IQInv PROVE ContentsOK
  OBVIOUS
<1>1. Occupancy(writeIndex_, readIndex_) \in 0..Size - 1
  BY OccupancyRange DEF IQInv, IQTypeOK
<1>2. ASSUME NEW i \in 1..Occupancy(writeIndex_, readIndex_)
      PROVE  Contents[i] \in Elements
  <2>1. Nth(i - 1) \in Slots /\ Occupancy(Nth(i - 1), readIndex_) = i - 1
    BY <1>1, NthSlot, QueueAssumption DEF IQInv, IQTypeOK
  <2>2. Nth(i - 1) \in Published
    BY <1>1, <2>1 DEF Published
  <2>3. Nth(i - 1) = readIndex_ => i = 1
    BY <2>1, OccupancyRange DEF IQInv, IQTypeOK
  <2> QED
    BY <2>1, <2>2, <2>3 DEF Contents, IQInv, SlotsOwned, ConsumerHolds
<1> QED
  BY <1>1, <1>2 DEF ContentsOK, Contents

(* The same one step later.                                                *)
LEMMA ContentsTypeNext == IQInv' => ContentsOK'
BY ContentsType, PTL

(* Each step of the producer or of the consumer is a step of the bounded   *)
(* FIFO or leaves it alone: write() takes effect when it publishes, a pop  *)
(* when it releases its slot.                                              *)
LEMMA IQStepRefines ==
  IQInv /\ IQInv' /\ [IQNext]_queue_vars => [LB!LBNext]_<<Contents, result, out>>
<1> SUFFICES ASSUME IQInv, IQInv', [IQNext]_queue_vars
             PROVE  [LB!LBNext]_<<Contents, result, out>>
  OBVIOUS
<1>0. Occupancy(writeIndex_, readIndex_) \in 0..Size - 1 /\ Size \in Nat
  BY OccupancyRange, QueueAssumption DEF IQInv, IQTypeOK
<1>1. ASSUME NEW e \in Elements, WriteBegin(e) PROVE UNCHANGED <<Contents, result, out>>
  BY <1>1 DEF WriteBegin, Contents, Nth, consumer_vars
<1>2. CASE WriteFull
  <2>1. UNCHANGED <<Contents, out>> /\ result' = "refused"
    BY <1>2 DEF WriteFull, Contents, Nth, consumer_vars
  <2>2. Len(Contents) = Size - 1
    BY <1>2, ContentsType, OccupancyRange DEF WriteFull, IQInv, IQTypeOK, ContentsOK
  <2> QED
    BY <1>0, <2>1, <2>2 DEF LB!LBNext, LB!Refuse
<1>3. CASE WriteConstruct
  <2>1. ASSUME NEW i \in 1..Occupancy(writeIndex_, readIndex_)
        PROVE  Nth(i - 1) # writeIndex_ /\ Nth(i - 1) \in Slots
    BY <1>0, NthSlot, QueueAssumption DEF IQInv, IQTypeOK
  <2>2. \A i \in Slots : i # writeIndex_ => records_'[i] = records_[i]
    BY <1>3 DEF WriteConstruct, IQInv, IQTypeOK
  <2>3. Contents' = Contents
    BY <1>3, <2>1, <2>2 DEF WriteConstruct, Contents, Nth, consumer_vars
  <2> QED
    BY <1>3, <2>3 DEF WriteConstruct, consumer_vars
<1>4. CASE WritePublish
  <2>1. Occupancy(writeIndex_', readIndex_) = Occupancy(writeIndex_, readIndex_) + 1
    BY <1>4, OccupancyPublish DEF WritePublish, IQInv, IQTypeOK, ProducerHasRoom
  <2>2. wr_elem \in Elements /\ records_[writeIndex_] = wr_elem
    BY <1>4 DEF WritePublish, IQInv, ProducerHasRoom
  <2>3. Nth(Occupancy(writeIndex_, readIndex_)) = writeIndex_
    BY <1>0, NthSlot, OccupancyInjective DEF IQInv, IQTypeOK
  <2>4. rd_pc = "release" => Occupancy(writeIndex_, readIndex_) > 0
    BY <1>0 DEF IQInv, PopsAreCovered, IQTypeOK
  <2>5. Contents' = [i \in 1..Occupancy(writeIndex_, readIndex_) + 1 |->
                       IF i = 1 /\ rd_pc = "release" THEN rd_elem ELSE records_[Nth(i - 1)]]
    BY <1>4, <2>1 DEF WritePublish, Contents, Nth, consumer_vars
  <2>6. Contents' = Append(Contents, wr_elem)
    <3> DEFINE n == Occupancy(writeIndex_, readIndex_)
    <3>1. Contents \in Seq(Elements) /\ Len(Contents) = n
      BY ContentsType DEF ContentsOK
    <3>2. Contents' \in Seq(Elements) /\ Len(Contents') = n + 1
      BY <1>4, <2>1, ContentsTypeNext DEF WritePublish, ContentsOK
    <3>3. Contents'[n + 1] = wr_elem
      BY <1>0, <2>2, <2>3, <2>4, <2>5
    <3>4. \A i \in 1..n : Contents'[i] = Contents[i]
      <4>1. \A i \in 1..n : Contents[i] = IF i = 1 /\ rd_pc = "release" THEN rd_elem
                                         ELSE records_[Nth(i - 1)]
        BY DEF Contents
      <4>2. \A i \in 1..n : i \in 1..n + 1
        BY <1>0
      <4> QED
        BY <2>5, <4>1, <4>2
    <3> HIDE DEF n
    <3> QED
      BY <3>1, <3>2, <3>3, <3>4, <2>2
  <2>7. Len(Contents) < Size - 1
    BY <1>0, <1>4, ContentsType, OccupancyRange
    DEF WritePublish, IQInv, IQTypeOK, ProducerHasRoom, ContentsOK
  <2>8. LB!Put
    BY <1>4, <2>2, <2>6, <2>7 DEF WritePublish, LB!Put, consumer_vars
  <2> QED
    BY <2>8 DEF LB!LBNext
<1>5. CASE ReadBegin \/ FlushBegin
  BY <1>5 DEF ReadBegin, FlushBegin, Contents, Nth, producer_vars
<1>6. CASE Destroy
  <2>1. ASSUME NEW i \in 1..Occupancy(writeIndex_, readIndex_)
        PROVE  /\ Nth(i - 1) \in Slots
               /\ i # 1 => Nth(i - 1) # readIndex_
               /\ i = 1 => Nth(i - 1) = readIndex_
    <3>1. Nth(i - 1) \in Slots /\ Occupancy(Nth(i - 1), readIndex_) = i - 1
      BY <1>0, NthSlot, QueueAssumption DEF IQInv, IQTypeOK
    <3> QED
      BY <3>1, OccupancyRange DEF IQInv, IQTypeOK
  <2>2. \A i \in Slots : i # readIndex_ => records_'[i] = records_[i]
    BY <1>6 DEF Destroy, IQInv, IQTypeOK
  <2>3. ASSUME NEW i \in 1..Occupancy(writeIndex_, readIndex_)
        PROVE  (IF i = 1 /\ rd_pc' = "release" THEN rd_elem' ELSE records_'[Nth(i - 1)])
                 = IF i = 1 /\ rd_pc = "release" THEN rd_elem ELSE records_[Nth(i - 1)]
    BY <1>6, <2>1, <2>2 DEF Destroy
  <2>4. Contents' = Contents
    BY <1>6, <2>3 DEF Destroy, Contents, Nth
  <2> QED
    BY <1>6, <2>4 DEF Destroy, producer_vars
<1>7. CASE Release
  <2>1. readIndex_ # writeIndex_ /\ Occupancy(writeIndex_, readIndex_) > 0
    BY <1>0, <1>7, OccupancyRange DEF Release, IQInv, PopsAreCovered, IQTypeOK
  <2>2. Occupancy(writeIndex_, readIndex_') = Occupancy(writeIndex_, readIndex_) - 1
    BY <1>7, <2>1, OccupancyRelease DEF Release, IQInv, IQTypeOK
  <2> DEFINE n == Occupancy(writeIndex_, readIndex_)
  <2>3. Contents \in Seq(Elements) /\ Len(Contents) = n
    BY ContentsType DEF ContentsOK
  <2>4. Contents' \in Seq(Elements) /\ Len(Contents') = n - 1
    BY <1>7, <2>2, ContentsTypeNext DEF Release, ContentsOK
  <2>5. ASSUME NEW i \in 1..n - 1 PROVE Contents'[i] = Contents[i + 1]
    <3>1. Nth(i - 1)' = Nth(i)
      <4>1. readIndex_ \in 0..Size - 1 /\ i \in 1..Size - 1
        BY <1>0 DEF IQInv, IQTypeOK, Slots
      <4>2. readIndex_' = IF readIndex_ + 1 = Size THEN 0 ELSE readIndex_ + 1
        BY <1>7 DEF Release, After
      <4> QED
        BY <1>0, <4>1, <4>2 DEF Nth
    <3>2. Contents'[i] = records_[Nth(i)]
      BY <1>7, <2>2, <3>1 DEF Release, Contents
    <3> QED
      BY <1>0, <3>2 DEF Contents
  <2>6. Contents' = Tail(Contents) /\ Contents # <<>>
    <3> HIDE DEF n
    <3>1. n \in Nat /\ n > 0
      BY <1>0, <2>1 DEF n
    <3> QED
      BY <2>3, <2>4, <2>5, <3>1
  <2>7. Head(Contents) = rd_elem
    <3>1. Contents[1] = rd_elem
      BY <1>0, <1>7, <2>1 DEF Release, Contents
    <3> QED
      BY <2>3, <2>6, <3>1
  <2>8. LB!Take
    BY <1>7, <2>6, <2>7 DEF Release, LB!Take, producer_vars
  <2> QED
    BY <2>8 DEF LB!LBNext
<1>8. CASE UNCHANGED queue_vars
  BY <1>8 DEF queue_vars, producer_vars, consumer_vars, Contents, Nth
<1> QED
  BY <1>1, <1>2, <1>3, <1>4, <1>5, <1>6, <1>7, <1>8 DEF IQNext, Producer, Consumer

(* The lock-free ring implements the bounded FIFO of size_ - 1 payloads.   *)
THEOREM QueueImplementsBuffer == IQSpec => ImplementsBuffer
<1>1. IQInit => LB!LBInit
  BY QueueAssumption DEF IQInit, LB!LBInit, Contents, Occupancy
<1> QED
  BY IQInvariant, IQStepRefines, <1>1, PTL DEF IQSpec, ImplementsBuffer, LB!LBSpec
-----------------------------------------------------------------------------
(* conf(), prefill and scrap()                                             *)

Prefilling == {"spawn", "pin", "trigger", "notify", "await", "join"}
Phases == {"initial", "configured", "failed", "scrapping"} \cup Prefilling

LifeTypeOK == /\ phase \in Phases /\ opts \in Options
              /\ prefiller \in {"none", "wait", "fill", "flush", "notify", "gone"}
              /\ cv \subseteq {"prefiller", "command"}

(* Nobody is in the ring and it is empty; the consumer is emptying it.     *)
Drained == wr_pc = "idle" /\ rd_pc = "idle" /\ readIndex_ = writeIndex_
Draining == /\ wr_pc = "idle"
            /\ rd_pc = "idle" => readIndex_ = writeIndex_
            /\ rd_pc # "idle" => rd_todo = Occupancy(writeIndex_, readIndex_)

(* Whose the ring is: the prefiller's while conf() waits for it, else that *)
(* of the producer and the consumer or of scrap().                         *)
OwnerInv == /\ phase \in {"initial", "spawn", "configured", "failed", "scrapping"} =>
                 prefiller \in {"none", "gone"}
            /\ phase = "initial" => Drained
            /\ phase = "scrapping" => Draining
            /\ phase \in Prefilling /\ prefiller \notin {"fill", "flush"} => Drained
            /\ prefiller = "fill" => rd_pc = "idle"
            /\ prefiller = "flush" => Draining

(* The two flags of the prefill, and who may be asleep.                    *)
FlagInv == /\ prefill_ready_ => phase \notin {"initial", "spawn", "pin", "trigger"}
           /\ phase \in {"notify", "await", "join"} => prefill_ready_
           /\ phase \in {"pin", "trigger"} => prefiller = "wait"
           /\ phase \in {"notify", "await", "join"} => prefiller # "none"
           /\ phase \in {"pin", "trigger", "notify", "await", "join"} =>
                (prefill_done_ <=> prefiller \in {"notify", "gone"})
           /\ phase \in {"initial", "spawn"} => ~prefill_done_
           /\ phase = "join" => prefill_done_
           /\ "prefiller" \in cv => prefiller = "wait" /\ phase \in {"pin", "trigger", "notify"}
           /\ "command" \in cv => phase = "await" /\ prefiller # "gone"

(* free_memory() fits the memory there is, for sensible options.           *)
MemoryInv == sane => /\ ~misfreed
                     /\ memory \in FreedBy \cup {"null"}
                     /\ phase \in Prefilling \cup {"configured"} => memory \notin {"freed", "null"}

LifeInv == IQInv /\ LifeTypeOK /\ OwnerInv /\ FlagInv /\ MemoryInv

(* Neither thread sleeps in prefill_cv_ unless the other one is awake and  *)
(* still owes it the notification.                                         *)
NobodyMissed == /\ "prefiller" \in cv => phase \in {"pin", "trigger", "notify"}
                /\ "command" \in cv => prefiller \in {"wait", "fill", "flush", "notify"} /\ "prefiller" \notin cv

(* conf() hands over a ring that is empty.                                 *)
HandedOverEmpty ==
  [][phase # "configured" /\ phase' = "configured" => (Contents = <<>>)']_ring_vars
-----------------------------------------------------------------------------
LEMMA LifeInvInit == LifeInit => LifeInv
<1> SUFFICES ASSUME LifeInit PROVE LifeInv
  OBVIOUS
<1>1. IQInv
  BY IQInvInit DEF LifeInit
<1>2. opts \in Options
  BY DEF LifeInit, Options, Plain
<1>3. LifeTypeOK
  BY <1>2 DEF LifeInit, LifeTypeOK, Phases
<1>4. OwnerInv
  BY DEF LifeInit, IQInit, OwnerInv, Drained, Prefilling
<1>5. FlagInv
  BY DEF LifeInit, FlagInv
<1>6. MemoryInv
  BY DEF LifeInit, MemoryInv, FreedBy, Plain, Prefilling
<1> QED
  BY <1>1, <1>3, <1>4, <1>5, <1>6 DEF LifeInv
-----------------------------------------------------------------------------
(* The ring                                                                *)

(* An empty ring stays one when both indices go back to zero.              *)
LEMMA ResetKeepsInv ==
  ASSUME IQInv, Drained, readIndex_' = 0, writeIndex_' = 0,
         UNCHANGED <<records_, producer_vars, consumer_vars>>
  PROVE  IQInv' /\ Drained' /\ Contents = <<>> /\ Contents' = <<>>
<1>1. 0 \in Slots /\ Occupancy(0, 0) = 0
  BY QueueAssumption DEF Slots, Occupancy
<1>2. Occupancy(writeIndex_, readIndex_) = 0
  BY OccupancyRange DEF Drained, IQInv, IQTypeOK
<1>3. IQTypeOK'
  BY <1>1 DEF IQInv, IQTypeOK, producer_vars, consumer_vars
<1>4. Published = {} /\ Published' = {}
  <2>1. ASSUME NEW i \in Slots PROVE ~(Occupancy(i, readIndex_) < 0) /\ ~(Occupancy(i, 0) < 0)
    <3>1. Occupancy(i, readIndex_) \in 0..Size - 1 /\ Occupancy(i, 0) \in 0..Size - 1
      BY <1>1, OccupancyRange DEF IQInv, IQTypeOK
    <3> QED
      BY <3>1
  <2>2. Published = {}
    BY <1>2, <2>1 DEF Published
  <2>3. Published' = {}
    BY <1>1, <2>1 DEF Published
  <2> QED
    BY <2>2, <2>3
<1>5. SlotsOwned'
  BY <1>4 DEF IQInv, SlotsOwned, Drained, producer_vars, consumer_vars
<1>6. PopsAreCovered'
  BY <1>1, <1>2 DEF IQInv, PopsAreCovered, Drained, consumer_vars
<1>7. ProducerHasRoom' /\ ConsumerHolds'
  BY DEF Drained, ProducerHasRoom, ConsumerHolds, producer_vars, consumer_vars
<1>8. Drained'
  BY DEF Drained, producer_vars, consumer_vars
<1>9. IQInv'
  BY <1>3, <1>5, <1>6, <1>7 DEF IQInv
<1>10. Contents \in Seq(Elements) /\ Len(Contents) = 0
  BY <1>2, ContentsType DEF ContentsOK
<1>11. Contents' \in Seq(Elements) /\ Len(Contents') = 0
  BY <1>1, <1>9, ContentsTypeNext DEF ContentsOK
<1> QED
  BY <1>8, <1>9, <1>10, <1>11

(* The consumer that flushes a ring nobody writes to leaves it empty.      *)
LEMMA DrainBegins ==
  ASSUME IQInv, wr_pc = "idle", FlushBegin
  PROVE  Draining'
  BY DEF FlushBegin, Draining, producer_vars

LEMMA DrainGoesOn ==
  ASSUME IQInv, Draining, Destroy \/ Release
  PROVE  Draining'
<1>1. CASE Destroy
  BY <1>1 DEF Destroy, Draining, producer_vars
<1>2. CASE Release
  <2>1. rd_todo = Occupancy(writeIndex_, readIndex_) /\ rd_todo > 0 /\ rd_todo \in Nat
    BY <1>2 DEF Release, Draining, IQInv, PopsAreCovered, IQTypeOK
  <2>2. readIndex_ # writeIndex_ /\ readIndex_ \in Slots /\ writeIndex_ \in Slots
    BY <2>1, OccupancyRange DEF IQInv, IQTypeOK
  <2>3. Occupancy(writeIndex_, readIndex_') = rd_todo - 1 /\ readIndex_' \in Slots
    BY <1>2, <2>1, <2>2, OccupancyRelease, OccupancyRange DEF Release
  <2>4. rd_todo = 1 => readIndex_' = writeIndex_
    BY <2>2, <2>3, OccupancyRange
  <2> QED
    BY <1>2, <2>1, <2>3, <2>4 DEF Release, Draining, producer_vars
<1> QED
  BY <1>1, <1>2

(* Each step is one of the ring's own or resets an empty ring.             *)
LEMMA RingStep ==
  ASSUME LifeInv, [LifeNext]_ring_vars
  PROVE  \/ [IQNext]_queue_vars
         \/ /\ Drained /\ readIndex_' = 0 /\ writeIndex_' = 0
            /\ UNCHANGED <<records_, producer_vars, consumer_vars>>
<1>1. ASSUME NEW o \in Options, Conf(o) \/ ConfThrows(o)
      PROVE  \/ [IQNext]_queue_vars
             \/ /\ Drained /\ readIndex_' = 0 /\ writeIndex_' = 0
                /\ UNCHANGED <<records_, producer_vars, consumer_vars>>
  BY <1>1 DEF Conf, ConfThrows, LifeInv, OwnerInv
<1>2. CASE ForcePagefault
  BY <1>2 DEF ForcePagefault, Spawn, Pin, Trigger, NotifyPrefiller, AwaitDone, Join
<1>3. CASE PrefillTask
  BY <1>3 DEF PrefillTask, PrefillerWait, PrefillWrite, PrefillFlush, PrefillDone, NotifyCommand,
              IQNext, Producer, Consumer
<1>4. CASE SpuriousWakeup \/ Work \/ Scrap \/ DestroyLeft \/ UNCHANGED ring_vars
  BY <1>4 DEF SpuriousWakeup, Work, Scrap, DestroyLeft, IQNext, Consumer, ring_vars
<1>5. CASE ScrapDone
  BY <1>5 DEF ScrapDone, LifeInv, OwnerInv, Draining, Drained
<1> QED
  BY <1>1, <1>2, <1>3, <1>4, <1>5 DEF LifeNext

LEMMA RingInvNext ==
  ASSUME LifeInv, [LifeNext]_ring_vars
  PROVE  IQInv'
  BY RingStep, IQInvNext, ResetKeepsInv DEF LifeInv
-----------------------------------------------------------------------------
(* The life cycle                                                          *)

(* A step of the command thread or the prefiller that leaves the ring and  *)
(* the memory alone.                                                       *)
LEMMA SameMemory ==
  ASSUME MemoryInv, UNCHANGED <<libnuma, memory_vars>>,
         phase' \in Prefilling \cup {"configured"} => phase \in Prefilling \cup {"configured"}
  PROVE  MemoryInv'
  BY DEF MemoryInv, FreedBy, memory_vars

LEMMA SameOwner ==
  ASSUME OwnerInv, UNCHANGED <<phase, prefiller, queue_vars>>
  PROVE  OwnerInv'
  BY DEF OwnerInv, Drained, Draining, queue_vars, producer_vars, consumer_vars

(* free_memory() and allocate_memory() agree on sensible options.          *)
LEMMA ConfStep ==
  ASSUME LifeInv, IQInv', NEW o \in Options, Conf(o)
  PROVE  LifeInv'
<1> USE DEF LifeInv
<1>1. phase = "initial" /\ phase' \in {"spawn", "configured", "failed"}
  BY DEF Conf
<1>2. LifeTypeOK'
  BY <1>1 DEF Conf, LifeTypeOK, prefill_vars, Phases, Prefilling
<1>3. Drained'
  BY <1>1 DEF Conf, OwnerInv, Drained, producer_vars, consumer_vars
<1>4. prefiller' \in {"none", "gone"}
  BY <1>1 DEF Conf, OwnerInv, prefill_vars
<1>5. OwnerInv'
  BY <1>1, <1>3, <1>4 DEF OwnerInv, Prefilling
<1>6. FlagInv'
  BY <1>1 DEF Conf, FlagInv, prefill_vars
<1>7. MemoryInv'
  <2> SUFFICES ASSUME sane'
               PROVE  /\ ~misfreed'
                      /\ memory' \in FreedBy' \cup {"null"}
                      /\ phase' \in Prefilling \cup {"configured"} => memory' \notin {"freed", "null"}
    BY DEF MemoryInv
  <2>1. sane /\ Sane(o)
    BY DEF Conf
  <2>2. ~misfreed'
    BY <2>1 DEF Conf, FreeMemory, MemoryInv
  <2>3. /\ Allocator(o) \in {"mm", "aligned", "numa", "malloc"}
        /\ Allocator(o) \in FreedBy'
    BY <2>1 DEF Conf, Sane, Allocator, FreedBy, Options
  <2>4. \/ memory' = Allocator(o)
        \/ memory' = "null" /\ phase' = "failed"
    BY DEF Conf
  <2> QED
    BY <2>2, <2>3, <2>4 DEF Prefilling
<1> QED
  BY <1>2, <1>5, <1>6, <1>7

LEMMA ConfThrowsStep ==
  ASSUME LifeInv, IQInv', NEW o \in Options, ConfThrows(o)
  PROVE  LifeInv'
<1> USE DEF LifeInv
<1>1. phase = "initial" /\ phase' = "failed" /\ UNCHANGED <<prefiller, opts, cv>>
  BY DEF ConfThrows, prefill_vars
<1>2. LifeTypeOK'
  BY <1>1 DEF LifeTypeOK, Phases
<1>3. OwnerInv'
  BY <1>1 DEF OwnerInv, Prefilling
<1>4. FlagInv'
  BY <1>1 DEF ConfThrows, FlagInv, prefill_vars
<1>5. MemoryInv'
  BY DEF ConfThrows, MemoryInv
<1> QED
  BY <1>2, <1>3, <1>4, <1>5

(* force_pagefault(): the command thread.                                  *)
LEMMA ForcePagefaultStep ==
  ASSUME LifeInv, IQInv', ForcePagefault
  PROVE  LifeInv'
<1> USE DEF LifeInv
<1>1. UNCHANGED <<libnuma, memory_vars, queue_vars>>
  BY DEF ForcePagefault, Spawn, Pin, Trigger, NotifyPrefiller, AwaitDone, Join
<1>2. Drained' <=> Drained
  BY <1>1 DEF Drained, queue_vars, producer_vars, consumer_vars
<1>3. Draining' <=> Draining
  BY <1>1 DEF Draining, queue_vars, producer_vars, consumer_vars
<1>4. rd_pc' = rd_pc
  BY <1>1 DEF queue_vars, consumer_vars
<1>5. MemoryInv'
  BY <1>1, SameMemory
     DEF ForcePagefault, Spawn, Pin, Trigger, NotifyPrefiller, AwaitDone, Join, Prefilling
<1>6. opts' = opts
  BY <1>1 DEF memory_vars
<1>7. CASE Spawn
  BY <1>2, <1>3, <1>4, <1>5, <1>6, <1>7
     DEF Spawn, LifeTypeOK, OwnerInv, FlagInv, Prefilling, Phases
<1>8. CASE Pin
  BY <1>2, <1>3, <1>4, <1>5, <1>6, <1>8
     DEF Pin, LifeTypeOK, OwnerInv, FlagInv, Prefilling, Phases
<1>9. CASE Trigger
  BY <1>2, <1>3, <1>4, <1>5, <1>6, <1>9
     DEF Trigger, LifeTypeOK, OwnerInv, FlagInv, Prefilling, Phases
<1>10. CASE NotifyPrefiller
  BY <1>2, <1>3, <1>4, <1>5, <1>6, <1>10
     DEF NotifyPrefiller, Wakes, LifeTypeOK, OwnerInv, FlagInv, Prefilling, Phases
<1>11. CASE AwaitDone
  <2>1. phase = "await" /\ UNCHANGED <<prefill_ready_, prefill_done_, prefiller>>
    BY <1>11 DEF AwaitDone
  <2>2. CASE prefill_done_
    <3>1. phase' = "join" /\ cv' = cv /\ "command" \notin cv
      BY <1>11, <2>2 DEF AwaitDone
    <3> QED
      BY <1>2, <1>3, <1>4, <1>5, <1>6, <2>1, <2>2, <3>1
         DEF LifeTypeOK, OwnerInv, FlagInv, Prefilling, Phases
  <2>3. CASE ~prefill_done_
    <3>1. phase' = phase /\ cv' = cv \cup {"command"}
      BY <1>11, <2>3 DEF AwaitDone
    <3>2. LifeTypeOK' /\ OwnerInv'
      BY <1>2, <1>3, <1>4, <1>6, <2>1, <3>1 DEF LifeTypeOK, OwnerInv
    <3>3. FlagInv'
      BY <2>1, <2>3, <3>1 DEF FlagInv
    <3> QED
      BY <1>5, <3>2, <3>3
  <2> QED
    BY <2>2, <2>3
<1>12. CASE Join
  BY <1>2, <1>3, <1>4, <1>5, <1>6, <1>12
     DEF Join, prefill_vars, LifeTypeOK, OwnerInv, FlagInv, Prefilling, Phases
<1> QED
  BY <1>7, <1>8, <1>9, <1>10, <1>11, <1>12 DEF ForcePagefault

(* prefill_task(): the prefiller.                                          *)
LEMMA PrefillTaskStep ==
  ASSUME LifeInv, IQInv', PrefillTask
  PROVE  LifeInv'
<1> USE DEF LifeInv
<1>1. UNCHANGED <<libnuma, phase, memory_vars>>
  BY DEF PrefillTask, PrefillerWait, PrefillWrite, PrefillFlush, PrefillDone, NotifyCommand, life_vars,
         memory_vars
<1>2. MemoryInv'
  BY <1>1, SameMemory
<1>3. opts' = opts
  BY <1>1 DEF memory_vars
<1>4. CASE PrefillerWait \/ PrefillDone \/ NotifyCommand
  <2>1. UNCHANGED queue_vars
    BY <1>4 DEF PrefillerWait, PrefillDone, NotifyCommand
  <2>2. Drained' <=> Drained
    BY <2>1 DEF Drained, queue_vars, producer_vars, consumer_vars
  <2>3. Draining' <=> Draining
    BY <2>1 DEF Draining, queue_vars, producer_vars, consumer_vars
  <2>4. rd_pc' = rd_pc
    BY <2>1 DEF queue_vars, consumer_vars
  <2>5. CASE PrefillerWait
    <3>1. prefiller = "wait" /\ UNCHANGED <<prefill_ready_, prefill_done_>>
      BY <2>5 DEF PrefillerWait
    <3>2. phase \in Prefilling
      BY <3>1 DEF LifeTypeOK, OwnerInv, Phases
    <3>3. CASE prefill_ready_
      <4>1. prefiller' = "fill" /\ cv' = cv /\ "prefiller" \notin cv
        BY <2>5, <3>3 DEF PrefillerWait
      <4>2. phase \in {"notify", "await", "join"} /\ ~prefill_done_
        BY <3>1, <3>2, <3>3 DEF FlagInv, Prefilling
      <4>3. LifeTypeOK'
        BY <1>1, <1>3, <4>1 DEF LifeTypeOK
      <4>4. OwnerInv'
        BY <1>1, <2>3, <2>4, <3>1, <4>1, <4>2 DEF OwnerInv, Prefilling, Drained
      <4>5. FlagInv'
        BY <1>1, <3>1, <3>3, <4>1, <4>2 DEF FlagInv
      <4> QED
        BY <1>2, <4>3, <4>4, <4>5
    <3>4. CASE ~prefill_ready_
      <4>1. prefiller' = prefiller /\ cv' = cv \cup {"prefiller"}
        BY <2>5, <3>4 DEF PrefillerWait
      <4>2. LifeTypeOK' /\ OwnerInv'
        BY <1>1, <1>3, <2>2, <2>3, <2>4, <4>1 DEF LifeTypeOK, OwnerInv
      <4>3. phase \in {"pin", "trigger"}
        <5>1. phase # "spawn"
          BY <3>1 DEF OwnerInv
        <5>2. phase \notin {"notify", "await", "join"}
          BY <3>4 DEF FlagInv
        <5> QED
          BY <3>2, <5>1, <5>2 DEF Prefilling
      <4>4. FlagInv'
        BY <1>1, <3>1, <4>1, <4>3 DEF FlagInv
      <4> QED
        BY <1>2, <4>2, <4>4
    <3> QED
      BY <3>3, <3>4
  <2>6. CASE PrefillDone
    BY <1>1, <1>2, <1>3, <2>2, <2>3, <2>4, <2>6
       DEF PrefillDone, FlushOver, LifeTypeOK, OwnerInv, FlagInv, Prefilling, Drained, Draining
  <2>7. CASE NotifyCommand
    BY <1>1, <1>2, <1>3, <2>2, <2>3, <2>4, <2>7
       DEF NotifyCommand, Wakes, LifeTypeOK, OwnerInv, FlagInv, Prefilling
  <2> QED
    BY <1>4, <2>5, <2>6, <2>7
<1>5. CASE PrefillWrite
  <2>1. UNCHANGED life_vars /\ prefiller = "fill" /\ rd_pc' = rd_pc
    BY <1>5 DEF PrefillWrite, WriteBegin, WriteConstruct, WritePublish, consumer_vars
  <2>2. LifeTypeOK' /\ FlagInv'
    BY <2>1 DEF LifeTypeOK, FlagInv, life_vars
  <2>3. OwnerInv'
    BY <2>1 DEF OwnerInv, Prefilling, life_vars
  <2> QED
    BY <1>2, <2>2, <2>3
<1>6. CASE PrefillFlush
  <2>1. prefiller \in {"fill", "flush"} /\ prefiller' = "flush" /\ UNCHANGED <<prefill_ready_, prefill_done_, cv>>
    BY <1>6 DEF PrefillFlush
  <2>2. LifeTypeOK'
    BY <1>1, <1>3, <2>1 DEF LifeTypeOK
  <2>3. FlagInv'
    BY <1>1, <2>1 DEF FlagInv
  <2>4. Draining'
    <3>1. CASE prefiller = "fill" /\ FlushBegin /\ Occupancy(writeIndex_, readIndex_) = Size - 1
      <4>1. wr_pc = "idle"
        BY <3>1, OccupancyRange DEF IQInv, IQTypeOK, ProducerHasRoom
      <4> QED
        BY <3>1, <4>1, DrainBegins
    <3>2. CASE prefiller = "flush" /\ (Destroy \/ Release)
      BY <3>2, DrainGoesOn DEF OwnerInv
    <3> QED
      BY <1>6, <3>1, <3>2 DEF PrefillFlush
  <2>5. OwnerInv'
    BY <1>1, <2>1, <2>4 DEF OwnerInv, Prefilling
  <2> QED
    BY <1>2, <2>2, <2>3, <2>5
<1> QED
  BY <1>4, <1>5, <1>6 DEF PrefillTask

(* Producer and consumer at work, and scrap().                             *)
LEMMA WorkStep ==
  ASSUME LifeInv, IQInv', Work \/ Scrap \/ DestroyLeft
  PROVE  LifeInv'
<1> USE DEF LifeInv
<1>1. UNCHANGED <<libnuma, memory_vars, prefill_vars>>
  BY DEF Work, Scrap, DestroyLeft, life_vars, memory_vars, prefill_vars
<1>2. CASE Work
  <2>1. phase = "configured" /\ phase' = phase
    BY <1>2 DEF Work, life_vars
  <2>2. LifeTypeOK' /\ FlagInv'
    BY <1>1, <2>1 DEF LifeTypeOK, FlagInv, memory_vars, prefill_vars
  <2>3. OwnerInv'
    BY <1>1, <2>1 DEF OwnerInv, Prefilling, prefill_vars
  <2> QED
    BY <1>1, <2>1, <2>2, <2>3, SameMemory
<1>3. CASE Scrap
  <2>1. phase \in {"configured", "failed"} /\ phase' = "scrapping"
    BY <1>3 DEF Scrap
  <2>2. LifeTypeOK' /\ FlagInv'
    BY <1>1, <2>1 DEF LifeTypeOK, FlagInv, memory_vars, prefill_vars, Phases
  <2>3. Draining'
    <3>1. CASE FlushBegin
      BY <1>3, <3>1, DrainBegins DEF Scrap
    <3>2. CASE UNCHANGED queue_vars /\ ~(Occupancy(writeIndex_, readIndex_) > 0)
      <4>1. readIndex_ = writeIndex_
        <5>1. readIndex_ \in Slots /\ writeIndex_ \in Slots
          BY DEF IQInv, IQTypeOK
        <5>2. Occupancy(writeIndex_, readIndex_) \in 0..Size - 1
          BY <5>1, OccupancyRange
        <5>3. Occupancy(writeIndex_, readIndex_) = 0
          BY <3>2, <5>2
        <5> QED
          BY <5>1, <5>3, OccupancyRange
      <4> QED
        BY <1>3, <3>2, <4>1 DEF Scrap, Draining, queue_vars, producer_vars, consumer_vars
    <3> QED
      BY <1>3, <3>1, <3>2 DEF Scrap
  <2>4. OwnerInv'
    BY <1>1, <2>1, <2>3 DEF OwnerInv, Prefilling, prefill_vars
  <2>5. MemoryInv'
    BY <1>1, <2>1, SameMemory DEF Prefilling
  <2> QED
    BY <2>2, <2>4, <2>5
<1>4. CASE DestroyLeft
  <2>1. phase = "scrapping" /\ phase' = phase
    BY <1>4 DEF DestroyLeft, life_vars
  <2>2. LifeTypeOK' /\ FlagInv'
    BY <1>1, <2>1 DEF LifeTypeOK, FlagInv, memory_vars, prefill_vars
  <2>3. Draining'
    BY <1>4, <2>1, DrainGoesOn DEF DestroyLeft, OwnerInv
  <2>4. OwnerInv'
    BY <1>1, <2>1, <2>3 DEF OwnerInv, Prefilling, prefill_vars
  <2> QED
    BY <1>1, <2>1, <2>2, <2>4, SameMemory
<1> QED
  BY <1>2, <1>3, <1>4

LEMMA ScrapDoneStep ==
  ASSUME LifeInv, IQInv', ScrapDone
  PROVE  LifeInv'
<1> USE DEF LifeInv
<1>1. phase = "scrapping" /\ phase' = "initial" /\ UNCHANGED <<prefiller, cv, libnuma, sane>>
  BY DEF ScrapDone
<1>2. opts' \in Options
  BY DEF ScrapDone, Options, Plain
<1>3. LifeTypeOK'
  BY <1>1, <1>2 DEF LifeTypeOK, Phases
<1>4. Drained'
  BY <1>1 DEF ScrapDone, OwnerInv, Draining, Drained, producer_vars, consumer_vars
<1>5. OwnerInv'
  BY <1>1, <1>4 DEF OwnerInv, Prefilling
<1>6. FlagInv'
  BY <1>1 DEF ScrapDone, PrefillFlagsReset, FlagInv
<1>7. MemoryInv'
  <2>1. sane => ~misfreed'
    BY DEF ScrapDone, FreeMemory, MemoryInv
  <2>2. memory' \in FreedBy'
    BY DEF ScrapDone, Plain, FreedBy
  <2> QED
    BY <1>1, <2>1, <2>2 DEF MemoryInv, Prefilling
<1> QED
  BY <1>3, <1>5, <1>6, <1>7

LEMMA LifeInvNext == LifeInv /\ [LifeNext]_ring_vars => LifeInv'
<1> SUFFICES ASSUME LifeInv, [LifeNext]_ring_vars PROVE LifeInv'
  OBVIOUS
<1>1. IQInv'
  BY RingInvNext
<1>2. ASSUME NEW o \in Options, Conf(o) \/ ConfThrows(o) PROVE LifeInv'
  BY <1>1, <1>2, ConfStep, ConfThrowsStep
<1>3. CASE ForcePagefault \/ PrefillTask
  BY <1>1, <1>3, ForcePagefaultStep, PrefillTaskStep
<1>4. CASE SpuriousWakeup
  <2>1. PICK t \in cv : cv' = cv \ {t}
    BY <1>4 DEF SpuriousWakeup
  <2>2. UNCHANGED <<libnuma, phase, memory_vars, prefill_ready_, prefill_done_, prefiller, queue_vars>>
    BY <1>4 DEF SpuriousWakeup
  <2>3. LifeTypeOK' /\ FlagInv'
    BY <2>1, <2>2 DEF LifeInv, LifeTypeOK, FlagInv, memory_vars
  <2> QED
    BY <1>1, <2>2, <2>3, SameOwner, SameMemory DEF LifeInv
<1>5. CASE Work \/ Scrap \/ DestroyLeft \/ ScrapDone
  BY <1>1, <1>5, WorkStep, ScrapDoneStep
<1>6. CASE UNCHANGED ring_vars
  <2>1. UNCHANGED <<queue_vars, libnuma, phase, memory_vars, prefill_vars>>
    BY <1>6 DEF ring_vars, life_vars, memory_vars, prefill_vars
  <2>2. LifeTypeOK' /\ FlagInv'
    BY <2>1 DEF LifeInv, LifeTypeOK, FlagInv, memory_vars, prefill_vars
  <2> QED
    BY <1>1, <2>1, <2>2, SameOwner, SameMemory DEF LifeInv, prefill_vars
<1> QED
  BY <1>2, <1>3, <1>4, <1>5, <1>6 DEF LifeNext

LEMMA LifeInvariant == LifeSpec => []LifeInv
BY LifeInvInit, LifeInvNext, PTL DEF LifeSpec
-----------------------------------------------------------------------------
(* Over any number of conf() and scrap() calls, the memory is freed once   *)
(* and by the function that fits its allocator, and a configured ring has  *)
(* memory, if only options are used on which the two functions agree.      *)
THEOREM RingMemoryOwned == LifeSpec => []MemoryIsOwned
<1>1. LifeInv => MemoryIsOwned
  BY DEF LifeInv, MemoryInv, MemoryIsOwned, Prefilling
<1> QED
  BY LifeInvariant, <1>1, PTL

(* Neither the prefiller nor a re-configuration breaks the ownership of    *)
(* the slots or the assert of popFront().                                  *)
THEOREM RingSlotsOwned == LifeSpec => [](IQTypeOK /\ SlotsOwned /\ PopsAreCovered)
<1>1. LifeInv => IQTypeOK /\ SlotsOwned /\ PopsAreCovered
  BY DEF LifeInv, IQInv
<1> QED
  BY LifeInvariant, <1>1, PTL

(* The two waits on the one prefill_cv_ cannot miss each other: who sleeps *)
(* there is owed a notification by a thread that is awake.                 *)
THEOREM PrefillMissesNobody == LifeSpec => []NobodyMissed
<1>1. LifeInv => NobodyMissed
  <2> SUFFICES ASSUME LifeInv PROVE NobodyMissed
    OBVIOUS
  <2>1. "command" \in cv => phase = "await" /\ prefiller # "gone" /\ prefiller # "none"
    BY DEF LifeInv, FlagInv
  <2> QED
    BY <2>1 DEF LifeInv, LifeTypeOK, FlagInv, NobodyMissed
<1> QED
  BY LifeInvariant, <1>1, PTL

(* conf() hands over an empty ring, whether or not it was prefilled.       *)
THEOREM ConfHandsOverEmpty == LifeSpec => HandedOverEmpty
<1>1. LifeInv /\ LifeInv' /\ [LifeNext]_ring_vars
        => [phase # "configured" /\ phase' = "configured" => (Contents = <<>>)']_ring_vars
  <2> SUFFICES ASSUME LifeInv, LifeInv', LifeNext, phase # "configured", phase' = "configured"
               PROVE  Contents' = <<>>
    OBVIOUS
  <2>1. CASE \E o \in Options : Conf(o)
    BY <2>1, ResetKeepsInv DEF Conf, LifeInv, OwnerInv
  <2>2. CASE Join
    <3>1. Drained'
      BY <2>2 DEF Join, LifeInv, OwnerInv, Prefilling, Drained, queue_vars, producer_vars, consumer_vars
    <3>2. Occupancy(writeIndex_, readIndex_)' = 0
      BY <3>1, OccupancyRange DEF LifeInv, IQInv, IQTypeOK, Drained
    <3>3. Contents' \in Seq(Elements) /\ Len(Contents') = 0
      BY <3>2, ContentsTypeNext DEF LifeInv, ContentsOK
    <3> QED
      BY <3>3
  <2> QED
    BY <2>1, <2>2
       DEF LifeNext, ConfThrows, ForcePagefault, Spawn, Pin, Trigger, NotifyPrefiller, AwaitDone,
           PrefillTask, PrefillerWait, PrefillWrite, PrefillFlush, PrefillDone, NotifyCommand,
           SpuriousWakeup, Work, Scrap, DestroyLeft, ScrapDone, life_vars
<1> QED
  BY LifeInvariant, <1>1, PTL DEF LifeSpec, HandedOverEmpty

(* Through all of its life the ring is the bounded FIFO: re-configuring it *)
(* is not seen, because it is empty then.                                  *)
THEOREM RingImplementsBuffer == LifeSpec => ImplementsBuffer
<1>1. LifeInit => LB!LBInit
  BY QueueAssumption DEF LifeInit, IQInit, LB!LBInit, Contents, Occupancy
<1>2. LifeInv /\ LifeInv' /\ [LifeNext]_ring_vars => [LB!LBNext]_<<Contents, result, out>>
  <2> SUFFICES ASSUME LifeInv, LifeInv', [LifeNext]_ring_vars
               PROVE  [LB!LBNext]_<<Contents, result, out>>
    OBVIOUS
  <2>1. CASE [IQNext]_queue_vars
    BY <2>1, IQStepRefines DEF LifeInv
  <2>2. CASE /\ Drained /\ readIndex_' = 0 /\ writeIndex_' = 0
             /\ UNCHANGED <<records_, producer_vars, consumer_vars>>
    BY <2>2, ResetKeepsInv DEF LifeInv, producer_vars, consumer_vars
  <2> QED
    BY <2>1, <2>2, RingStep
<1> QED
  BY LifeInvariant, <1>1, <1>2, PTL DEF LifeSpec, ImplementsBuffer, LB!LBSpec
=============================================================================
