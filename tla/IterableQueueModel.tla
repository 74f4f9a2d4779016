------------------------- MODULE IterableQueueModel -------------------------
(***************************************************************************)
(* IterableQueueModel: the ring of size_ slots with one producer           *)
(* (ReadoutModel's consumer thread, which writes) and one consumer (the    *)
(* cleanup thread, or the command thread that flushes after a stop).       *)
(* Every load or store of an index the other thread writes, and every      *)
(* construction or destruction of a slot, is a step of its own; each       *)
(* thread's loads of its own index are part of its steps.                  *)
(***************************************************************************)
EXTENDS Integers, Sequences

CONSTANTS Elements,  \* the payloads
          Empty,     \* a slot with no constructed payload in it
          Size       \* size_, at least 2 (asserted by conf)

ASSUME QueueAssumption == /\ Size \in Nat /\ Size >= 2
                          /\ Empty \notin Elements

VARIABLES records_, readIndex_, writeIndex_,
          wr_pc, wr_elem,   \* the producer in write(), its payload
          result,           \* what its last write() returned
          rd_pc, rd_todo,   \* the consumer, the pops it still has to do
          rd_elem,          \* the payload moved out of a slot not released yet
          out               \* the payload removed last

producer_vars == <<wr_pc, wr_elem, result>>
consumer_vars == <<rd_pc, rd_todo, rd_elem, out>>
queue_vars == <<records_, readIndex_, writeIndex_, producer_vars, consumer_vars>>

Slots == 0..Size - 1

(* Faulty variant: no wrap.                                                *)
AfterUnwrapped(i) == i + 1

(* The index after i, wrapping at size_.                                   *)
After(i) == IF i + 1 = Size THEN 0 ELSE i + 1

(* occupancy() for a pair of loaded indices.                               *)
Occupancy(w, r) == IF w - r < 0 THEN w - r + Size ELSE w - r

Nth(i) == IF readIndex_ + i >= Size THEN readIndex_ + i - Size ELSE readIndex_ + i

IQInit == /\ records_ = [i \in Slots |-> Empty]
          /\ readIndex_ = 0 /\ writeIndex_ = 0
          /\ wr_pc = "idle" /\ wr_elem = Empty /\ result = "none"
          /\ rd_pc = "idle" /\ rd_todo = 0 /\ rd_elem = Empty /\ out = Empty
-----------------------------------------------------------------------------
(* write(): the producer                                                   *)

(* The acquire load of readIndex_ finds a free slot.                       *)
WriteBegin(e) == /\ wr_pc = "idle"
                 /\ After(writeIndex_) # readIndex_
                 /\ wr_pc' = "construct" /\ wr_elem' = e
                 /\ UNCHANGED <<records_, readIndex_, writeIndex_, result, consumer_vars>>

(* Faulty variant: the queue counts as full one slot too early.            *)
WriteFullEarly == /\ wr_pc = "idle"
                  /\ readIndex_ \in {After(writeIndex_), After(After(writeIndex_))}
                  /\ result' = "refused"
                  /\ UNCHANGED <<records_, readIndex_, writeIndex_, wr_pc, wr_elem, consumer_vars>>

(* ... or a full queue: overflow_ctr is incremented, the payload dropped.  *)
WriteFull == /\ wr_pc = "idle"
             /\ After(writeIndex_) = readIndex_
             /\ result' = "refused"
             /\ UNCHANGED <<records_, readIndex_, writeIndex_, wr_pc, wr_elem, consumer_vars>>

(* Placement new at the write index.                                       *)
WriteConstruct == /\ wr_pc = "construct"
                  /\ records_' = [records_ EXCEPT ![writeIndex_] = wr_elem]
                  /\ wr_pc' = "publish"
                  /\ UNCHANGED <<readIndex_, writeIndex_, wr_elem, result, consumer_vars>>

(* The release store of the write index.                                   *)
WritePublish == /\ wr_pc = "publish"
                /\ writeIndex_' = After(writeIndex_)
                /\ wr_pc' = "idle" /\ wr_elem' = Empty /\ result' = "accepted"
                /\ UNCHANGED <<records_, readIndex_, consumer_vars>>
-----------------------------------------------------------------------------
(* read(), popFront(), pop(), flush(): the consumer                        *)

(* read(), or cleanup()'s pop(1): the consumer has seen a non-empty queue. *)
ReadBegin == /\ rd_pc = "idle"
             /\ readIndex_ # writeIndex_
             /\ rd_pc' = "destroy" /\ rd_todo' = 1
             /\ UNCHANGED <<records_, readIndex_, writeIndex_, producer_vars, rd_elem, out>>

(* Faulty variant: flush() pops one element more than it saw.              *)
FlushOneMore == /\ rd_pc = "idle"
                /\ rd_pc' = "destroy" /\ rd_todo' = Occupancy(writeIndex_, readIndex_) + 1
                /\ UNCHANGED <<records_, readIndex_, writeIndex_, producer_vars, rd_elem, out>>

(* flush(): pop(occupancy()).                                              *)
FlushBegin == /\ rd_pc = "idle"
              /\ Occupancy(writeIndex_, readIndex_) > 0
              /\ rd_pc' = "destroy" /\ rd_todo' = Occupancy(writeIndex_, readIndex_)
              /\ UNCHANGED <<records_, readIndex_, writeIndex_, producer_vars, rd_elem, out>>

(* Faulty variant: the slot is never destroyed.                           *)
DestroyForgotten == /\ rd_pc = "destroy"
                    /\ rd_elem' = records_[readIndex_]
                    /\ rd_pc' = "release"
                    /\ UNCHANGED <<records_, readIndex_, writeIndex_, producer_vars, rd_todo, out>>

(* The payload is moved out and its slot destroyed.                        *)
Destroy == /\ rd_pc = "destroy"
           /\ rd_elem' = records_[readIndex_]
           /\ records_' = [records_ EXCEPT ![readIndex_] = Empty]
           /\ rd_pc' = "release"
           /\ UNCHANGED <<readIndex_, writeIndex_, producer_vars, rd_todo, out>>

(* The release store of the read index; pop(x) goes on with the next.      *)
Release == /\ rd_pc = "release"
           /\ readIndex_' = After(readIndex_)
           /\ out' = rd_elem /\ rd_elem' = Empty
           /\ rd_todo' = rd_todo - 1
           /\ rd_pc' = IF rd_todo = 1 THEN "idle" ELSE "destroy"
           /\ UNCHANGED <<records_, writeIndex_, producer_vars>>

Producer == (\E e \in Elements : WriteBegin(e)) \/ WriteFull \/ WriteConstruct \/ WritePublish
Consumer == ReadBegin \/ FlushBegin \/ Destroy \/ Release

IQNext == Producer \/ Consumer

IQSpec == IQInit /\ [][IQNext]_queue_vars
-----------------------------------------------------------------------------
(* The queue the ring stands for: the slots from the read index up to the  *)
(* write index, the payload being removed still at its head.               *)
Contents == [i \in 1..Occupancy(writeIndex_, readIndex_) |->
               IF i = 1 /\ rd_pc = "release" THEN rd_elem ELSE records_[Nth(i - 1)]]

LB == INSTANCE LatencyBuffer WITH queue <- Contents, Nothing <- Empty, Limit <- Size - 1

(* The type invariant; the indices stay in the ring.                       *)
IQTypeOK == /\ records_ \in [Slots -> Elements \cup {Empty}]
            /\ readIndex_ \in Slots /\ writeIndex_ \in Slots
            /\ wr_pc \in {"idle", "construct", "publish"}
            /\ wr_elem \in Elements \cup {Empty}
            /\ result \in {"none", "accepted", "refused"}
            /\ rd_pc \in {"idle", "destroy", "release"}
            /\ rd_todo \in Nat
            /\ rd_elem \in Elements \cup {Empty} /\ out \in Elements \cup {Empty}

(* A slot is published exactly when it lies between the two indices.       *)
Published == {i \in Slots : Occupancy(i, readIndex_) < Occupancy(writeIndex_, readIndex_)}

(* Every published slot holds a constructed payload (but the one being     *)
(* removed), every other slot none (but the one being written): the        *)
(* placement new never lands on a live payload and no payload is destroyed *)
(* twice.  isFull()'s "***ERROR: Latency buffer is full and data was       *)
(* overwritten!" never means an overwrite.                                 *)
SlotsOwned ==
  \A i \in Slots :
    records_[i] \in Elements <=>
      \/ i \in Published /\ ~(i = readIndex_ /\ rd_pc = "release")
      \/ i = writeIndex_ /\ wr_pc = "publish"

(* The number of pops the consumer still has to do never exceeds what is   *)
(* in the queue: "If called by consumer, then true size may be more".  It  *)
(* makes the assert of popFront() hold all through pop(x) and flush().     *)
PopsAreCovered == /\ rd_todo <= Occupancy(writeIndex_, readIndex_)
                  /\ rd_pc # "idle" => rd_todo > 0

(* The ring implements the bounded FIFO of size_ - 1 payloads: write()     *)
(* refuses only when it is full, no payload is lost, doubled or reordered, *)
(* and a payload is visible only once it is complete.                      *)
ImplementsBuffer == LB!LBSpec
=============================================================================
