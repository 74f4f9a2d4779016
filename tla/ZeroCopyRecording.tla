------------------------- MODULE ZeroCopyRecording -------------------------
(***************************************************************************)
(* ZeroCopyRecordingRequestHandlerModel: a record() that writes chunks of  *)
(* memory straight from the ring to the file, without building elements    *)
(* and without entering the gate: it only waits for a running cleanup.     *)
(* Consumer and cleanup are those of RawRecording, whose recorder is the   *)
(* alternative to this one.                                                *)
(*                                                                         *)
(* Memory is counted in units; a position is an offset from                *)
(* start_of_buffer().  A unit of the file is its number in the stream of   *)
(* all elements the buffer accepted.                                       *)
(***************************************************************************)
EXTENDS RawRecording

CONSTANTS PayloadSize,   \* fixed_payload_size, sizeof(ReadoutType)
          Alignment,     \* get_alignment_size()
          ChunkSize      \* m_stream_buffer_size

ASSUME ZeroCopyAssumption == {PayloadSize, Alignment, ChunkSize} \subseteq Nat \ {0}

VARIABLES zero_copy,      \* which of the two request handlers this is
          zc,             \* the recorder: place, iterator, pointers, chunks of this round
          o_direct, m_fd, \* the file: its flag, "open" or "closed"
          file,           \* the units this recording has put into the file
          bytes_written   \* as the recorder counts them

file_vars == <<o_direct, m_fd, file, bytes_written>>
zc_vars == <<zero_copy, zc, file_vars>>
all_vars == <<recording_vars, zc_vars>>
shared == <<m_next_timestamp_to_record, m_recording, records>>
untouched == <<zero_copy, o_direct, rec, recorded, rec_from>>

None == -1
Idle == [pc |-> "off", iter |-> NoIter, write |-> None, end |-> None, chunks |-> 0]

Slots == Capacity + 1

EndOfBuffer == Slots * PayloadSize

(* The memory and the chunks are whole blocks.  conf() reports memory that *)
(* is not and goes on; it does not look at the chunk size.                 *)
BlocksFit == EndOfBuffer % Alignment = 0 /\ ChunkSize % Alignment = 0

(* Where the i-th element lies, and what lies at a position: a unit of the *)
(* last element constructed there.                                         *)
Position(i) == ((i - 1) % Slots) * PayloadSize
ElementsAt(p) == {i \in 1..Len(stamps) : /\ Position(i) = (p \div PayloadSize) * PayloadSize
                                         /\ i + Slots > Len(stamps)}
UnitAt(p) == IF ElementsAt(p) = {} THEN None
             ELSE LET i == CHOOSE e \in ElementsAt(p) : TRUE IN (i - 1) * PayloadSize + (p % PayloadSize)

(* conf(): the file is new.                                                *)
ZCInit == /\ RRInit
          /\ zero_copy \in BOOLEAN /\ zc = Idle
          /\ o_direct \in (IF zero_copy THEN BOOLEAN ELSE {FALSE}) /\ m_fd = "open" /\ file = <<>> /\ bytes_written = 0
-----------------------------------------------------------------------------
At(pc) == zero_copy /\ zc.pc = pc
To(pc) == zc' = [zc EXCEPT !.pc = pc]

ZCRecord == /\ At("off") /\ ~m_recording /\ records < MaxRecords
            /\ records' = records + 1 /\ To("begin")
            /\ UNCHANGED <<gate_vars, lb_vars, pop_vars, m_next_timestamp_to_record, m_recording, untouched,
                           m_fd, file, bytes_written>>

ZCBegin == /\ At("begin") /\ zc' = [Idle EXCEPT !.pc = "loop"]
           /\ m_recording' = TRUE /\ m_next_timestamp_to_record' = 0
           /\ UNCHANGED <<gate_vars, lb_vars, pop_vars, records, untouched, m_fd, file, bytes_written>>

ZCRound == /\ At("loop") /\ To("wait")
           /\ ~m_cleanup_requested \/ m_next_timestamp_to_record = 0
           /\ UNCHANGED <<gate_vars, lb_vars, pop_vars, shared, untouched, m_fd, file, bytes_written>>

(* m_cv.wait() with m_cv_mutex; the recorder is not counted.               *)
ZCBlock == /\ At("wait") /\ MutexFree /\ Recorder \notin cv_waiters
           /\ m_cleanup_requested
           /\ cv_waiters' = cv_waiters \cup {Recorder}
           /\ UNCHANGED <<m_cleanup_requested, m_requests_running, reader, cleaner, lb_vars, pop_vars,
                          shared, untouched, zc, m_fd, file, bytes_written>>

ZCPass == /\ At("wait") /\ MutexFree /\ Recorder \notin cv_waiters
          /\ ~m_cleanup_requested
          /\ To("notify")
          /\ UNCHANGED <<gate_vars, lb_vars, pop_vars, shared, untouched, m_fd, file, bytes_written>>

ZCNotify == /\ At("notify") /\ cv_waiters' = {}
            /\ To(IF m_next_timestamp_to_record = 0 THEN "first" ELSE "back")
            /\ UNCHANGED <<m_cleanup_requested, m_requests_running, reader, cleaner, lb_vars, pop_vars,
                           shared, untouched, m_fd, file, bytes_written>>

(* begin(); an empty buffer is tried again.                                *)
ZCFirst == /\ At("first")
           /\ zc' = IF Size = 0 THEN [zc EXCEPT !.pc = "loop"]
                                ELSE [zc EXCEPT !.pc = "stamp", !.iter = popped + 1]
           /\ UNCHANGED <<gate_vars, lb_vars, pop_vars, shared, untouched, m_fd, file, bytes_written>>

ZCStamp == /\ At("stamp") /\ To("skip")
           /\ m_next_timestamp_to_record' = stamps[zc.iter]
           /\ UNCHANGED <<gate_vars, lb_vars, pop_vars, m_recording, records, untouched, m_fd, file, bytes_written>>

Aligned(i) == Position(i) % Alignment = 0

(* "Some frames have to be skipped".  At the end of the data the place is  *)
(* reset, but the continue meant to try again is that of this loop, which  *)
(* finds the end of the data misaligned over and over.                     *)
ZCSkip == /\ At("skip")
          /\ IF Aligned(zc.iter)
             THEN /\ zc' = [Idle EXCEPT !.pc = "back", !.write = Position(zc.iter)]
                  /\ UNCHANGED m_next_timestamp_to_record
             ELSE IF Good(zc.iter) /\ Good(zc.iter + 1)
             THEN zc' = [zc EXCEPT !.iter = @ + 1] /\ UNCHANGED m_next_timestamp_to_record
             ELSE zc' = [zc EXCEPT !.pc = "spin", !.iter = NoIter] /\ m_next_timestamp_to_record' = 0
          /\ UNCHANGED <<gate_vars, lb_vars, pop_vars, m_recording, records, untouched, m_fd, file, bytes_written>>

ZCSpin == /\ At("spin") /\ m_next_timestamp_to_record' = 0
          /\ UNCHANGED <<gate_vars, lb_vars, pop_vars, m_recording, records, untouched, zc, m_fd, file, bytes_written>>

(* back(), the newest element's position; null, below every pointer, when  *)
(* there is none.                                                          *)
ZCBack == /\ At("back")
          /\ zc' = [zc EXCEPT !.pc = "chunk", !.chunks = 0, !.end = IF Size = 0 THEN None ELSE Position(Len(stamps))]
          /\ UNCHANGED <<gate_vars, lb_vars, pop_vars, shared, untouched, m_fd, file, bytes_written>>

(* write(2) of n units.  A failure is -1, which ! takes for success: the   *)
(* bytes are counted all the same.                                         *)
WriteFile(n, direct) ==
  /\ bytes_written' = bytes_written + n
  /\ file' = IF m_fd = "closed" \/ (direct /\ \E x \in {n, zc.write, Len(file)} : x % Alignment # 0)
             THEN file ELSE file \o [k \in 1..n |-> UnitAt(zc.write + k - 1)]

(* Faulty variant: any data behind the pointer is taken for a chunk.       *)
ChunkBegun == zc.write < zc.end

(* A whole chunk lies before the newest element.                           *)
ChunkReady == zc.write + ChunkSize < zc.end

(* One pass of the inner loop up to the move of the pointer: a chunk, or,  *)
(* when the newest element lies behind the pointer, a chunk or the rest up *)
(* to the end of the memory, or nothing.                                   *)
ZCChunk ==
  /\ At("chunk")
  /\ LET wrapped == zc.end < zc.write
         fits == zc.write + ChunkSize < EndOfBuffer
         moved == zc.write + ChunkSize
     IN \/ /\ ChunkReady \/ (wrapped /\ fits)
           /\ WriteFile(ChunkSize, o_direct)
           /\ zc' = [zc EXCEPT !.pc = "place", !.write = IF moved = EndOfBuffer THEN 0 ELSE moved]
        \/ /\ ~ChunkReady /\ wrapped /\ ~fits
           /\ WriteFile(EndOfBuffer - zc.write, FALSE)
           /\ zc' = [zc EXCEPT !.pc = "place", !.write = 0]
        \/ /\ ~ChunkReady /\ ~wrapped
           /\ To("place") /\ UNCHANGED <<bytes_written, file>>
  /\ UNCHANGED <<gate_vars, lb_vars, pop_vars, shared, untouched, m_fd>>

(* What get_first_timestamp() finds at a position: anything where nothing  *)
(* has been constructed yet.                                               *)
StampsAt(p) == IF ElementsAt(p) = {} THEN 0..Never ELSE {stamps[i] : i \in ElementsAt(p)}

(* The element the pointer is in, the first one not written completely.    *)
Places(p) == StampsAt(p)

ZCPlace == /\ At("place")
           /\ m_next_timestamp_to_record' \in Places(zc.write)
           /\ zc' = IF zc.chunks + 1 < ChunkLimit THEN [zc EXCEPT !.pc = "chunk", !.chunks = @ + 1]
                                                  ELSE [Idle EXCEPT !.pc = "loop", !.write = zc.write]
           /\ UNCHANGED <<gate_vars, lb_vars, pop_vars, m_recording, records, untouched, m_fd, file, bytes_written>>

LastFrameWritten == zc.write = None \/ zc.write % PayloadSize = 0

(* The time is over: the last element is completed, the file closed.       *)
ZCComplete == /\ At("loop") /\ To("over")
              /\ IF LastFrameWritten THEN UNCHANGED <<bytes_written, file>>
                 ELSE WriteFile(PayloadSize - (zc.write % PayloadSize), FALSE)
              /\ m_fd' = "closed"
              /\ UNCHANGED <<gate_vars, lb_vars, pop_vars, shared, untouched>>

ZCEnd == /\ At("over") /\ zc' = Idle
         /\ m_next_timestamp_to_record' = Never /\ m_recording' = FALSE
         /\ file' = <<>> /\ bytes_written' = 0
         /\ UNCHANGED <<gate_vars, lb_vars, pop_vars, records, untouched, m_fd>>

ZCStep == \/ ZCBegin \/ ZCRound \/ ZCBlock \/ ZCPass \/ ZCNotify \/ ZCFirst \/ ZCStamp \/ ZCSkip \/ ZCSpin
          \/ ZCBack \/ ZCChunk \/ ZCPlace \/ ZCComplete \/ ZCEnd
-----------------------------------------------------------------------------
(* The other threads; with the other recorder this is RawRecording.        *)
Others == \/ zero_copy /\ Environment /\ UNCHANGED zc_vars
          \/ ~zero_copy /\ RRNext /\ UNCHANGED zc_vars

(* Nothing arrives any more and no command is left.                        *)
AllOver == /\ next_ts > MaxTs /\ records = MaxRecords /\ rec.pc = "off" /\ zc.pc = "off" /\ cleaner = "idle"
           /\ UNCHANGED all_vars

ZCNext == Others \/ ZCRecord \/ ZCStep \/ AllOver

(* A step of RawRecording's recorder.                                      *)
Alike(A) == ~zero_copy /\ A /\ UNCHANGED zc_vars

(* The threads run.  The time of a recording runs out, and its thread gets *)
(* the mutex, which the cleanup thread leaves free for 50 ms in each of    *)
(* its rounds.                                                             *)
ZCSpec == /\ ZCInit /\ [][ZCNext]_all_vars
          /\ WF_all_vars(ZCStep \/ Alike(RecorderStep))
          /\ SF_all_vars(ZCPass \/ Alike(PassGate /\ Enter(Recorder)))
          /\ SF_all_vars(ZCComplete \/ Alike(RecordEnd))
          /\ \A t \in Readers \ {Recorder} :
               WF_all_vars((NotifyEntered(t) \/ Leave(t) \/ NotifyLeft(t)) /\ UNCHANGED zc_vars
                             /\ UNCHANGED <<lb_vars, pop_vars, rec_vars>>)
          /\ WF_all_vars((WakeCleaner \/ Compare \/ PopFront \/ FinishCleanup) /\ UNCHANGED zc_vars)
-----------------------------------------------------------------------------
(* Type invariant; the pointer stays in the memory.                        *)
ZCTypeOK == /\ zc.pc \in {"off", "begin", "loop", "wait", "notify", "first", "stamp", "skip", "spin", "back",
                          "chunk", "place", "over"}
            /\ {zc.write, zc.end} \subseteq {None} \cup 0..Slots * PayloadSize - 1
            /\ zc.chunks \in 0..ChunkLimit /\ zc.iter \in 0..Len(stamps)
            /\ m_fd \in {"open", "closed"} /\ bytes_written \in Nat

(* The file is an unbroken piece of the data the buffer accepted, in whole *)
(* elements once the recording is over: what was written from behind the   *)
(* pointer was neither overwritten nor not yet there, also at the end of   *)
(* the memory.                                                             *)
Unbroken == /\ \A k \in 1..Len(file) - 1 : file[k + 1] = file[k] + 1
            /\ file # <<>> => file[1] # None /\ file[1] % PayloadSize = 0
            /\ m_fd = "closed" => Len(file) % PayloadSize = 0

(* An element that has left the buffer during the recording, of those it   *)
(* has begun to write, is in the file.                                     *)
PoppedIsWritten == (m_recording /\ m_fd = "open" /\ file # <<>>) =>
                     \/ popped * PayloadSize <= file[1]
                     \/ popped * PayloadSize <= file[Len(file)] + 1

(* The first recording loses nothing in silence: although a failed write() *)
(* counts as success, every byte counted is in the file.                   *)
CountedIsWritten == m_fd = "open" => bytes_written = Len(file)

(* The misaligned write pointer that "should never happen" in the inner    *)
(* loop does not, wherever in the ring the recording starts and however    *)
(* often it goes round, when memory and chunks are whole blocks.  No code  *)
(* sees to it that chunks are; otherwise the second one is misaligned.     *)
WritePointerAligned == BlocksFit /\ zc.pc = "chunk" => zc.write % Alignment = 0

(* The zero-copy recording is complete: unbroken, ahead of the pops, and   *)
(* as long as the recorder says; with O_DIRECT when the sizes are whole    *)
(* blocks, because all direct writes are aligned then, and without it for  *)
(* all sizes.  And the pointer it writes from is aligned if they are.      *)
DirectFits == o_direct => BlocksFit
FileUnbroken == /\ DirectFits => Unbroken /\ PoppedIsWritten /\ CountedIsWritten
                /\ WritePointerAligned

(* A recording ends when its time is over, with one exception: the         *)
(* zero-copy recorder does not come back from a buffer that held no        *)
(* aligned element when the recording began.                               *)
RecordingEnds == []<>(~m_recording \/ zc.pc = "spin")
=============================================================================
