---------------------------- MODULE RawRecording ----------------------------
(***************************************************************************)
(* The raw data recorder of DefaultRequestHandlerModel (record() and the   *)
(* lambda it gives to the recording thread) beside cleanup() and the       *)
(* consumer.  The recorder passes the cleanup gate only to look up its     *)
(* place in the buffer; it walks on from there without the gate, and only  *)
(* m_next_timestamp_to_record keeps cleanup() from popping what it has not *)
(* written yet.                                                            *)
(*                                                                         *)
(* Elements are numbered in the order the buffer accepted them; stamps     *)
(* holds their timestamps, one tick per element.                           *)
(***************************************************************************)
EXTENDS CleanupGate, Sequences

CONSTANTS Recorder,       \* the recording thread, a reader of the gate
          Capacity,       \* usable slots of the latency buffer
          PopLimit,       \* m_pop_limit_size
          PopNum, PopDen, \* m_pop_size_pct = PopNum / PopDen
          ChunkLimit,     \* elements written in one round (1000)
          MaxTs,          \* bound: timestamps the front end sends
          MaxRecords      \* bound: record commands

ASSUME RecordAssumption ==
  /\ Recorder \in Readers
  /\ {Capacity, PopLimit, PopNum, PopDen, ChunkLimit, MaxTs, MaxRecords} \subseteq Nat
  /\ PopNum < PopDen

VARIABLES stamps,      \* timestamps of the accepted elements, in order
          popped,      \* how many of them have been popped
          next_ts,     \* the next timestamp to arrive
          m_next_timestamp_to_record, m_recording,
          rec,         \* the recorder: place, front it has read, iterator, round count
          recorded,    \* what the current recording wrote
          rec_from,    \* history: the timestamp it started from
          records,     \* record commands so far
          pops_left, pop_pc  \* cleanup(): pops it still wants, place in its loop

lb_vars == <<stamps, popped, next_ts>>
pop_vars == <<pops_left, pop_pc>>
rec_vars == <<m_next_timestamp_to_record, m_recording, rec, recorded, rec_from, records>>
recording_vars == <<gate_vars, lb_vars, pop_vars, rec_vars>>

Never == MaxTs + 1   \* numeric_limits<uint64_t>::max()
NoIter == 0          \* end()
RecAt(pc, front, iter, count) == [pc |-> pc, front |-> front, iter |-> iter, count |-> count]
Off == RecAt("off", 0, NoIter, 0)

Held == popped + 1..Len(stamps)
Size == Len(stamps) - popped
Front == stamps[popped + 1]

RRInit == /\ GateInit
          /\ stamps = <<>> /\ popped = 0 /\ next_ts = 1
          /\ m_next_timestamp_to_record = Never /\ m_recording = FALSE
          /\ rec = Off /\ recorded = <<>> /\ rec_from = 0 /\ records = 0
          /\ pops_left = 0 /\ pop_pc = "off"
-----------------------------------------------------------------------------
(* The consumer writes one element, or drops it when the buffer is full.   *)
Receive == /\ next_ts <= MaxTs
           /\ next_ts' = next_ts + 1
           /\ \/ Size < Capacity /\ stamps' = Append(stamps, next_ts)
              \/ Size >= Capacity /\ UNCHANGED stamps
           /\ UNCHANGED <<gate_vars, popped, pop_vars, rec_vars>>
-----------------------------------------------------------------------------
(* cleanup(): the loop compares and pops in two steps.                     *)

(* cleanup() pops a share of what the buffer holds.                        *)
ToPop == IF Size > PopLimit THEN (Size * PopNum) \div PopDen ELSE 0

BeginCleanup == IF cleaner' = "popping"
                  THEN pops_left' = ToPop /\ pop_pc' = "compare"
                  ELSE UNCHANGED pop_vars

CheckOver == /\ Size > PopLimit
             /\ CleanupCheck /\ BeginCleanup
             /\ UNCHANGED <<lb_vars, rec_vars>>

WakeCleaner == /\ CleanupWake /\ BeginCleanup
               /\ UNCHANGED <<lb_vars, rec_vars>>

(* Faulty variant: what is left to record is not respected.                *)
MayPopAlways == TRUE

MayPop == Front < m_next_timestamp_to_record

Compare == /\ pop_pc = "compare" /\ pops_left > 0
           /\ IF MayPop THEN pop_pc' = "pop" /\ UNCHANGED pops_left
                        ELSE pops_left' = 0 /\ UNCHANGED pop_pc
           /\ UNCHANGED <<gate_vars, lb_vars, rec_vars>>

PopFront == /\ pop_pc = "pop"
            /\ popped' = popped + 1
            /\ pops_left' = pops_left - 1 /\ pop_pc' = "compare"
            /\ UNCHANGED <<gate_vars, stamps, next_ts, rec_vars>>

(* After the loop front() is used once more, to purge the error registry.  *)
FinishCleanup == /\ pop_pc = "compare" /\ pops_left = 0
                 /\ CleanupDone
                 /\ pop_pc' = "off" /\ UNCHANGED pops_left
                 /\ UNCHANGED <<lb_vars, rec_vars>>

Cleanup == CheckOver \/ WakeCleaner \/ Compare \/ PopFront \/ FinishCleanup
-----------------------------------------------------------------------------
(* The recording thread                                                    *)

Go(pc) == rec' = [rec EXCEPT !.pc = pc]

(* record() gives the lambda to the recording thread; a second command     *)
(* while it runs is refused.                                               *)
Record == /\ rec.pc = "off" /\ ~m_recording /\ records < MaxRecords
          /\ records' = records + 1
          /\ Go("begin")
          /\ UNCHANGED <<gate_vars, lb_vars, pop_vars, m_next_timestamp_to_record, m_recording,
                         recorded, rec_from>>

RecordBegin == /\ rec.pc = "begin"
               /\ m_recording' = TRUE /\ m_next_timestamp_to_record' = 0
               /\ Go("loop")
               /\ UNCHANGED <<gate_vars, lb_vars, pop_vars, recorded, rec_from, records>>

(* One round: time is left, and either no cleanup is requested or the      *)
(* recording has no place in the buffer yet.                               *)
Round == /\ rec.pc = "loop"
         /\ ~m_cleanup_requested \/ m_next_timestamp_to_record = 0
         /\ Go(IF m_next_timestamp_to_record = 0 THEN "front" ELSE "gate")
         /\ UNCHANGED <<gate_vars, lb_vars, pop_vars, m_next_timestamp_to_record, m_recording,
                        recorded, rec_from, records>>

(* front() is read, without the gate, ...                                  *)
ReadFront == /\ rec.pc = "front"
             /\ rec' = RecAt("store", IF Size = 0 THEN 0 ELSE Front, NoIter, 0)
             /\ UNCHANGED <<gate_vars, lb_vars, pop_vars, m_next_timestamp_to_record, m_recording,
                            recorded, rec_from, records>>

(* ... and its timestamp stored.                                           *)
StoreFront == /\ rec.pc = "store"
              /\ m_next_timestamp_to_record' = rec.front /\ rec_from' = rec.front
              /\ rec' = RecAt("gate", 0, NoIter, 0)
              /\ UNCHANGED <<gate_vars, lb_vars, pop_vars, m_recording, recorded, records>>

PassGate == /\ rec.pc = "gate"
            /\ Arrive(Recorder) \/ Enter(Recorder) \/ Block(Recorder) \/ NotifyEntered(Recorder)
            /\ UNCHANGED <<lb_vars, pop_vars, rec_vars>>

(* lower_bound(): end() when the key is older than the front, the slot     *)
(* after the newest element when all elements are older.                   *)
LowerBound(k) == IF Size = 0 \/ k < Front THEN NoIter
                 ELSE CHOOSE i \in popped + 1..Len(stamps) + 1 :
                        /\ \A j \in popped + 1..i - 1 : stamps[j] < k
                        /\ i \in Held => stamps[i] >= k

Lookup == /\ rec.pc = "gate" /\ reader[Recorder] = "inside"
          /\ rec' = RecAt("leave", 0, LowerBound(m_next_timestamp_to_record), 0)
          /\ UNCHANGED <<gate_vars, lb_vars, pop_vars, m_next_timestamp_to_record, m_recording,
                         recorded, rec_from, records>>

LeaveGate == /\ rec.pc = "leave"
             /\ \/ Leave(Recorder) /\ UNCHANGED rec
                \/ NotifyLeft(Recorder) /\ Go("walk")
             /\ UNCHANGED <<lb_vars, pop_vars, m_next_timestamp_to_record, m_recording,
                            recorded, rec_from, records>>

Good(i) == i \in Held

(* The loop condition holds: an element to look at.                        *)
Walk == /\ rec.pc = "walk"
        /\ rec' = IF Good(rec.iter) /\ rec.count < ChunkLimit
                  THEN [rec EXCEPT !.pc = "write"] ELSE RecAt("loop", 0, NoIter, 0)
        /\ UNCHANGED <<gate_vars, lb_vars, pop_vars, m_next_timestamp_to_record, m_recording,
                       recorded, rec_from, records>>

(* Faulty variant: the place stays on the element just written.            *)
WriteInPlace ==
  /\ rec.pc = "write"
  /\ IF stamps[rec.iter] >= m_next_timestamp_to_record
       THEN /\ recorded' = Append(recorded, stamps[rec.iter])
            /\ m_next_timestamp_to_record' = stamps[rec.iter]
            /\ rec' = RecAt("next", 0, rec.iter, rec.count + 1)
       ELSE /\ Go("next")
            /\ UNCHANGED <<recorded, m_next_timestamp_to_record>>
  /\ UNCHANGED <<gate_vars, lb_vars, pop_vars, m_recording, rec_from, records>>

(* An element not older than the place is written, and the place moves on. *)
WriteChunk ==
  /\ rec.pc = "write"
  /\ IF stamps[rec.iter] >= m_next_timestamp_to_record
       THEN /\ recorded' = Append(recorded, stamps[rec.iter])
            /\ m_next_timestamp_to_record' = stamps[rec.iter] + 1
            /\ rec' = RecAt("next", 0, rec.iter, rec.count + 1)
       ELSE /\ Go("next")
            /\ UNCHANGED <<recorded, m_next_timestamp_to_record>>
  /\ UNCHANGED <<gate_vars, lb_vars, pop_vars, m_recording, rec_from, records>>

(* ++chunk_iter: a popped element has no successor.                        *)
NextChunk == /\ rec.pc = "next"
             /\ rec' = RecAt("walk", 0, IF Good(rec.iter) /\ Good(rec.iter + 1) THEN rec.iter + 1 ELSE NoIter,
                            rec.count)
             /\ UNCHANGED <<gate_vars, lb_vars, pop_vars, m_next_timestamp_to_record, m_recording,
                            recorded, rec_from, records>>

(* The duration is over.                                                   *)
RecordEnd == /\ rec.pc = "loop"
             /\ m_next_timestamp_to_record' = Never /\ m_recording' = FALSE
             /\ rec' = Off /\ recorded' = <<>> /\ rec_from' = 0
             /\ UNCHANGED <<gate_vars, lb_vars, pop_vars, records>>

RecorderStep == \/ RecordBegin \/ Round \/ ReadFront \/ StoreFront \/ PassGate \/ Lookup
                \/ LeaveGate \/ Walk \/ WriteChunk \/ NextChunk \/ RecordEnd

Wakeup == /\ \E t \in Readers \cup {Cleaner} : SpuriousWakeup(t)
          /\ UNCHANGED <<lb_vars, pop_vars, rec_vars>>

(* The other threads that pass the gate: request handling.                 *)
OtherReader == /\ \E t \in Readers \ {Recorder} : ReaderStep(t)
               /\ UNCHANGED <<lb_vars, pop_vars, rec_vars>>

(* What goes on beside a recording.                                        *)
Environment == Receive \/ Cleanup \/ OtherReader \/ Wakeup

RRNext == Environment \/ Record \/ RecorderStep

RRSpec == RRInit /\ [][RRNext]_recording_vars
-----------------------------------------------------------------------------
RecPlaces == {"off", "begin", "loop", "front", "store", "gate", "leave", "walk", "write", "next"}

(* The type invariant; a round keeps its limit.                            *)
RRTypeOK ==
  /\ stamps \in Seq(1..MaxTs) /\ popped \in 0..Len(stamps) /\ next_ts \in 1..MaxTs + 1
  /\ m_next_timestamp_to_record \in 0..MaxTs + 1 /\ m_recording \in BOOLEAN
  /\ rec \in [pc : RecPlaces, front : 0..MaxTs, iter : 0..Len(stamps) + 1, count : 0..ChunkLimit]
  /\ recorded \in Seq(1..MaxTs) /\ rec_from \in 0..MaxTs /\ records \in 0..MaxRecords
  /\ pops_left \in Nat /\ pop_pc \in {"off", "compare", "pop"}

(* What is dereferenced outside the gate or unchecked is in the buffer:    *)
(* the element the recorder writes to the file while cleanup() may be      *)
(* popping, and the front() that cleanup() compares in every round and     *)
(* once at its end.                                                        *)
RecorderReadsLive == /\ rec.pc = "write" => Good(rec.iter)
                     /\ pop_pc = "compare" => Size > 0

(* A recording is an unbroken piece of the data the buffer accepted, each  *)
(* element once and in order, however the rounds of the recorder and the   *)
(* cleanups interleave.                                                    *)
RecordingUnbroken ==
  recorded # <<>> =>
    \E i \in 1..Len(stamps) : /\ i + Len(recorded) - 1 <= Len(stamps)
                              /\ recorded = SubSeq(stamps, i, i + Len(recorded) - 1)

(* "In case of a `record(O(seconds))` request, data leaving the latency    *)
(* buffer are streamed to a transient data store" (docs/README.md:20):     *)
(* after the element a recording starts with, nothing is popped that has   *)
(* not been written.  The first element itself may be lost: cleanup() may  *)
(* have compared it before the recording thread got going and pop it after *)
(* the recorder has read its timestamp.                                    *)
LeavingDataIsRecorded ==
  (m_recording /\ rec_from # 0) =>
    \A i \in 1..popped : stamps[i] > rec_from => \E k \in DOMAIN recorded : recorded[k] = stamps[i]
=============================================================================
