--------------------------- MODULE RecordingFiles ---------------------------
(***************************************************************************)
(* A file of recorded raw data: BufferedFileWriter as its two owners use   *)
(* it (RecorderModel, and DefaultRequestHandlerModel for the recordings of *)
(* record()), and a BufferedFileReader that reads it back.  File, buffer   *)
(* and elements are sequences of units, Align units to a block; an element *)
(* is ElemSize units that carry its number.  Compression is left out.      *)
(***************************************************************************)
EXTENDS Integers, Sequences, SequencesExt

CONSTANTS ElemSize,     \* sizeof(ReadoutType)
          BufferSize,   \* stream_buffer_size
          Align,        \* the alignment O_DIRECT asks for
          MaxElems, MaxConfs   \* bounds: elements received, conf commands

(* "Make sure that this size fulfils size requirements of O_DIRECT".       *)
ASSUME FilesAssumption == /\ {ElemSize, BufferSize, Align} \subseteq Nat \ {0} /\ {MaxElems, MaxConfs} \subseteq Nat
                          /\ BufferSize % Align = 0

VARIABLES owner, m_use_o_direct, ctl, confs,
          worker,                 \* do_work(), or the recording thread
          enable_raw_recording,   \* of the last conf() of the request handler
          m_recording_configured, \* of the request handler
          m_is_open, bad,         \* the writer; its stream's bad bit
          disk_full,              \* a write to this file has found the disk full
          file, buffer,           \* on disk, and in the stream's buffer
          next, first,            \* the element to come, the first one of this file
          scrapped,               \* scrap() has closed a file
          refused,                \* a record command found no file open, with recording enabled
          odd_flush,              \* a flush has left the file off a block boundary
          read_pos, read_back     \* the reader's position (or Closed), its elements

writer_vars == <<m_is_open, bad, disk_full, file, buffer, odd_flush>>
owner_vars == <<owner, m_use_o_direct, enable_raw_recording, m_recording_configured, confs>>
data_vars == <<next, first, scrapped, refused>>
reader_vars == <<read_pos, read_back>>
files_vars == <<writer_vars, owner_vars, data_vars, reader_vars, ctl, worker>>

Closed == -1
Units(e) == [i \in 1..ElemSize |-> e]

FilesInit == /\ owner \in {"recorder", "handler"} /\ m_use_o_direct \in BOOLEAN
             /\ ctl = "initial" /\ confs = 0 /\ worker = "off"
             /\ enable_raw_recording = FALSE /\ m_recording_configured = FALSE
             /\ m_is_open = FALSE /\ bad = FALSE /\ disk_full = FALSE /\ file = <<>> /\ buffer = <<>> /\ odd_flush = FALSE
             /\ next = 1 /\ first = 1 /\ scrapped = FALSE /\ refused = FALSE
             /\ read_pos = Closed /\ read_back = <<>>
-----------------------------------------------------------------------------
(* The owners' commands                                                    *)

(* Faulty variant: the recorder, too, opens its file only once.            *)
OpensOnce(enable) == enable /\ ~m_recording_configured

(* The recorder always opens its file; the request handler only if         *)
(* recording is enabled, and only once.                                    *)
Opens(enable) == owner = "recorder" \/ (enable /\ ~m_recording_configured)

(* Recording can be disabled in the request handler only.                  *)
ConfCommand(enable) == /\ ctl = "initial" /\ confs < MaxConfs /\ confs' = confs + 1
                       /\ owner = "handler" \/ enable
                       /\ enable_raw_recording' = enable

(* conf(): the old file is removed and a new one opened.                   *)
Conf(enable) ==
  /\ ConfCommand(enable) /\ ctl' = "configured"
  /\ IF Opens(enable)
     THEN /\ m_is_open' = TRUE /\ bad' = FALSE /\ disk_full' = FALSE
          /\ file' = <<>> /\ buffer' = <<>> /\ odd_flush' = FALSE
          /\ m_recording_configured' = TRUE /\ first' = next
     ELSE UNCHANGED <<writer_vars, m_recording_configured, first>>
  /\ read_pos' = Closed /\ read_back' = <<>>
  /\ UNCHANGED <<owner, m_use_o_direct, next, scrapped, refused, worker>>

(* Faulty variant: the flag is set before the file is open.                *)
ConfiguredFirst == m_recording_configured' = TRUE

(* The flag is set after open(), which may throw.                          *)
ConfiguredLast == UNCHANGED m_recording_configured

(* open() throws: no such directory, or an unknown compression.            *)
ConfThrows(enable) ==
  /\ ConfCommand(enable) /\ Opens(enable)
  /\ file' = <<>> /\ first' = next /\ ConfiguredLast
  /\ read_pos' = Closed /\ read_back' = <<>>
  /\ UNCHANGED <<m_is_open, bad, disk_full, buffer, odd_flush, owner, m_use_o_direct,
                 next, scrapped, refused, ctl, worker>>

(* do_start(), or a record command that finds the file open.               *)
Start == /\ ctl = "configured" /\ worker = "off"
         /\ owner = "recorder" \/ m_is_open
         /\ ctl' = "running" /\ worker' = "receive"
         /\ UNCHANGED <<writer_vars, owner_vars, data_vars, reader_vars>>

(* record(): "DLH is not configured for recording".                        *)
RecordRefused == /\ ctl = "configured" /\ owner = "handler" /\ ~m_is_open
                 /\ refused' = (refused \/ enable_raw_recording)
                 /\ UNCHANGED <<writer_vars, owner_vars, next, first, scrapped, reader_vars, ctl, worker>>

(* do_stop(), or the end of the recording's time.                          *)
Stop == /\ ctl = "running"
        /\ ctl' = "stopping"
        /\ UNCHANGED <<writer_vars, owner_vars, data_vars, reader_vars, worker>>

Joined == /\ ctl = "stopping" /\ worker = "off"
          /\ ctl' = "configured"
          /\ UNCHANGED <<writer_vars, owner_vars, data_vars, reader_vars, worker>>

(* The disk takes only the first units of what a write() hands it; the     *)
(* stream keeps what it was told to write.  Bound: of a file whose disk    *)
(* was full once no further part is taken, only all or nothing.            *)
DiskTakes(units, w) == /\ disk_full => w = 0
                       /\ file' = file \o SubSeq(units, 1, w)
                       /\ bad' = TRUE /\ disk_full' = TRUE

(* close(): O_DIRECT off, the rest of the buffer written, or lost when the *)
(* disk is full.                                                           *)
Close == \/ file' = file \o buffer /\ UNCHANGED <<bad, disk_full>>
         \/ \E w \in 0..Len(buffer) - 1 : DiskTakes(buffer, w)

Scrap == /\ ctl = "configured" /\ ctl' = "initial" /\ scrapped' = (scrapped \/ m_is_open)
         /\ IF m_is_open THEN Close /\ buffer' = <<>> /\ m_is_open' = FALSE
                         ELSE UNCHANGED <<file, buffer, bad, disk_full, m_is_open>>
         /\ UNCHANGED <<odd_flush, owner_vars, next, first, refused, reader_vars, worker>>
-----------------------------------------------------------------------------
(* The thread that writes                                                  *)

(* A full buffer goes to the file when the next unit comes.                *)
Chunks(n) == (n - 1) \div BufferSize

Written(n) == Chunks(n) * BufferSize

(* A direct write at an odd offset fails.                                  *)
Fails(n) == Written(n) > 0 /\ m_use_o_direct /\ Len(file) % Align # 0

(* The full buffer that write() was handing on when the disk took w units. *)
BufferAt(units, w) == LET start == (w \div BufferSize) * BufferSize
                      IN SubSeq(units, start + 1, start + BufferSize)

(* write() of element e.  A bad stream takes nothing; when the disk        *)
(* refuses, the full buffer is kept and the rest of the element lost.      *)
Put(e) == LET all == buffer \o Units(e)
              n == Len(all)
          IN \/ (~m_is_open \/ bad) /\ UNCHANGED <<file, buffer, bad, disk_full>>
             \/ /\ m_is_open /\ ~bad /\ Fails(n)
                /\ bad' = TRUE /\ buffer' = SubSeq(all, 1, BufferSize)
                /\ UNCHANGED <<file, disk_full>>
             \/ /\ m_is_open /\ ~bad /\ ~Fails(n)
                /\ file' = file \o SubSeq(all, 1, Written(n))
                /\ buffer' = SubSeq(all, Written(n) + 1, n)
                /\ UNCHANGED <<bad, disk_full>>
             \/ /\ m_is_open /\ ~bad /\ ~Fails(n)
                /\ \E w \in 0..Written(n) - 1 : DiskTakes(all, w) /\ buffer' = BufferAt(all, w)

(* An element is received and written.  The recorder's thread gives up     *)
(* after a failure, the request handler's only warns.                      *)
Receive == /\ worker = "receive" /\ next <= MaxElems
           /\ next' = next + 1
           /\ Put(next)
           /\ worker' = IF owner = "recorder" /\ (~m_is_open \/ bad') THEN "flush" ELSE "receive"
           /\ UNCHANGED <<m_is_open, odd_flush, owner_vars, first, scrapped, refused, reader_vars, ctl>>

(* The run marker is clear, or the time is over.                           *)
WorkerEnds == /\ worker = "receive" /\ ctl = "stopping"
              /\ worker' = "flush"
              /\ UNCHANGED <<writer_vars, owner_vars, data_vars, reader_vars, ctl>>

(* The stream's flush(); C++ libraries differ in whether a bad stream is   *)
(* flushed.  What a full disk did not take stays in the buffer.            *)
FlushStream == \/ bad /\ UNCHANGED <<file, buffer, bad, disk_full>>
               \/ file' = file \o buffer /\ buffer' = <<>> /\ UNCHANGED <<bad, disk_full>>
               \/ (\E w \in 0..Len(buffer) - 1 : DiskTakes(buffer, w)) /\ UNCHANGED buffer

(* flush(): O_DIRECT is off for the rest of the buffer and on again.       *)
Flush == /\ worker = "flush" /\ worker' = "off"
         /\ FlushStream
         /\ odd_flush' = (odd_flush \/ Len(file') % Align # 0)
         /\ UNCHANGED <<m_is_open, owner_vars, data_vars, reader_vars, ctl>>
-----------------------------------------------------------------------------
(* BufferedFileReader                                                      *)

ReaderOpen == /\ read_pos = Closed /\ read_pos' = 0
              /\ read_back' = <<>>
              /\ UNCHANGED <<writer_vars, owner_vars, data_vars, ctl, worker>>

ReadGotAll(units) == Len(units) = ElemSize

(* read() of one element; false is not followed by another read.           *)
ReaderRead == LET units == SubSeq(file, read_pos + 1, IF read_pos + ElemSize <= Len(file)
                                                      THEN read_pos + ElemSize ELSE Len(file))
              IN /\ read_pos # Closed
                 /\ IF ReadGotAll(units) THEN /\ read_back' = Append(read_back, units)
                                              /\ read_pos' = read_pos + ElemSize
                                         ELSE read_pos' = Closed /\ UNCHANGED read_back
                 /\ UNCHANGED <<writer_vars, owner_vars, data_vars, ctl, worker>>

(* Nothing is received any more and everything is scrapped.                *)
Finished == ctl = "initial" /\ confs = MaxConfs /\ UNCHANGED files_vars

FilesNext == \/ \E enable \in BOOLEAN : Conf(enable) \/ ConfThrows(enable)
             \/ Start \/ RecordRefused \/ Stop \/ Joined \/ Scrap
             \/ Receive \/ WorkerEnds \/ Flush
             \/ ReaderOpen \/ ReaderRead \/ Finished

FilesSpec == FilesInit /\ [][FilesNext]_files_vars
-----------------------------------------------------------------------------
(* The type invariant; the stream keeps its buffer size.                   *)
OwnerTypeOK == /\ ctl \in {"initial", "configured", "running", "stopping"}
               /\ worker \in {"off", "receive", "flush"} /\ owner \in {"recorder", "handler"}
               /\ {m_use_o_direct, enable_raw_recording, m_recording_configured, scrapped, refused} \subseteq BOOLEAN
               /\ confs \in 0..MaxConfs

WriterTypeOK == /\ {m_is_open, bad, disk_full, odd_flush} \subseteq BOOLEAN
                /\ file \in Seq(1..MaxElems) /\ buffer \in Seq(1..MaxElems) /\ Len(buffer) <= BufferSize
                /\ next \in 1..MaxElems + 1 /\ first \in 1..next

ReaderTypeOK == read_pos \in Nat \cup {Closed} /\ read_back \in Seq(Seq(1..MaxElems))

FilesTypeOK == OwnerTypeOK /\ WriterTypeOK /\ ReaderTypeOK

(* The units of the elements received for this file, ElemSize of each.     *)
UnitNo(k) == first + (k - 1) \div ElemSize
Stream == [k \in 1..(next - first) * ElemSize |-> UnitNo(k)]

(* As long as the disk is not full, file and buffer together are a         *)
(* beginning of what was received, all of it unless a write has failed:    *)
(* nothing is doubled, left out or out of order.  All of it is on disk     *)
(* when stop() has returned (flush()), and what is read back, also while   *)
(* the writer goes on, are whole elements in the order of the file.        *)
FileIsPrefix ==
  ~disk_full =>
    /\ IsPrefix(file \o buffer, Stream)
    /\ bad \/ file \o buffer = Stream
    /\ (ctl = "configured" /\ worker = "off" /\ ~bad) => file = Stream
    /\ \A i \in DOMAIN read_back : read_back[i] = Units(first + i - 1)

(* Recording fails in three ways only.  A write fails when the disk is     *)
(* full, or with O_DIRECT after a flush in the middle of a block, so never *)
(* in the first recording of a file.  A record command of a handler whose  *)
(* last conf() enabled recording finds no open file only after a scrap()   *)
(* that closed one: m_recording_configured then keeps conf() from opening  *)
(* it again.                                                               *)
FailsOnlyAsKnown == /\ bad => disk_full \/ (m_use_o_direct /\ odd_flush)
                    /\ refused => owner = "handler" /\ scrapped

=============================================================================
