# A TLA+ model of readoutlibs

readoutlibs is the readout core of the DUNE data acquisition: it takes raw data
from a front end, keeps it in a latency buffer, answers data requests by
cutting the requested time window out of that buffer, and records raw data to
disk on command.  This project models that core and what stands around it (raw
data processing, recorders and files, the source emulator), checks it with TLC
and proves its central parts with TLAPS.

## 1. Inventory

Paths are below `src/include/readoutlibs/`.

| Component | State | Operations | Threads |
|---|---|---|---|
| Latency buffer, ring (`IterableQueueModel`) | `records_`, `readIndex_`, `writeIndex_` | write, read, popFront, pop, flush, occupancy, front, back, iterator; allocation and prefill | one producer (consumer thread of `ReadoutModel`), one consumer (cleanup thread, at stop the command thread), readers inside the gate, monitoring |
| Look-up (`BinarySearchQueueModel`, `FixedRateQueueModel`) | none of their own | lower_bound | request handling threads, recorder |
| Error registry (`FrameErrorRegistry`) | map of error intervals | add_error, remove_errors_until, has_error | consumer, cleanup, request handling |
| Request handler (`DefaultRequestHandlerModel`) | cleanup gate (`m_cleanup_requested`, `m_requests_running`, `m_cv`), `m_waiting_requests`, `m_run_marker`, pool | issue_request, data_request, get_fragment_pieces, check_waiting_requests, periodic_cleanups, cleanup, record, start, stop, conf, scrap | pool, waiting-queue thread, cleanup thread, recording thread |
| Readout model (`ReadoutModel`) | counters, the parts above | conf, start, stop, run_consume, consume_payload, run_timesync, dispatch_requests, get_info | consumer, timesync, request callback, command, monitoring |
| Worker (`ReusableThread`) | four flags, the task, a condition variable | set_work, get_readiness, destructor | owner, worker |
| Raw data processor (`TaskRawDataProcessorModel`) | pre/post-processing tasks, a queue of pointers per task, last DAQ time | preprocess_item, postprocess_item, conf, start, stop, scrap | consumer, one thread per post-processing task |
| Skip list buffer and handler | folly skip list | the same interface, ordered by key; a cleanup of its own, by age | as above |
| Zero-copy recording | file descriptor, pointers into the ring | conf, record | recording thread |
| Recorder, buffered files | stream, its buffer, `m_is_open`, `m_recording_configured` | conf, start, stop, scrap; open, write, read, flush, close | recorder or recording thread, a reader |
| Source emulator, rate limiter, error bits | file, dropouts, error stretches, deadline, counters | conf, start, stop, scrap, get_info, run_produce, limit, next | producer, command, monitoring |
| Callback registry | map of callbacks | register, get | plugins |

How they interact: the consumer thread moves payloads from the input into the
ring.  Requests arrive in a callback, are posted to the pool, and a pool thread
passes the cleanup gate, compares the window with the oldest and the newest
element, and collects pointers to the frames of the window; the fragment is
built from them before the thread leaves the gate.  A request whose data is not
there yet goes to `m_waiting_requests`; a thread scans that list every 10 ms
and issues an entry again when data past the window has arrived or its time is
over.  The cleanup thread looks every 50 ms whether the ring is over its limit,
waits at the gate for the readers, and pops a share of the elements.  The
recording thread walks through the ring largely outside the gate;
`m_next_timestamp_to_record` keeps the cleanup away from what it has not
written.  `stop` joins these parts one after the other and flushes the ring.

What is hard here: pointers into a ring that another thread empties; flags read
in one place and acted on in another (`m_run_marker`, `m_cleanup_requested`,
`m_next_timestamp_to_record`, the two flags of `ReusableThread`); notifications
without the mutex; unsigned timestamp arithmetic at the edges of a window; and
requests that must neither get lost nor stay for ever.  PROJECT.json lists
these hazards line by line under `hazards`.

## 2. Modules

| Module | Models | Notes |
|---|---|---|
| `CleanupGate` | the handshake of `cleanup_check`, `issue_request` and `record` | extended by `RequestHandler`, `RawRecording` and `SkipListBuffer`, which add a buffer to it |
| `CleanupGateProofs` | | theorems about the gate |
| `RequestHandler`, `MCRequestHandler` | the life of requests over start, run and stop | the ring is the set of timestamps it holds |
| `RequestHandlerProofs` | | theorems about requests; extends `CleanupGateProofs` |
| `LatencyBuffer` | what a latency buffer promises: a bounded FIFO | abstract specification |
| `IterableQueueModel` | the ring, one step per access to shared memory | implements `LatencyBuffer` |
| `RingLifecycle` | conf, allocation, prefill and scrap of the ring | extends `IterableQueueModel`, whose steps the producer, the consumer, the prefiller and scrap take |
| `RingProofs` | | theorems about the ring by itself and over its life, the refinement included |
| `BufferSearch` | both `lower_bound`s, the iterator, `get_fragment_pieces`, the gap in the error registry | timestamps with `NumFrames` frames per element, wrapping at `TsModulus` |
| `ReusableThread` | the worker thread | one step per atomic access |
| `RawRecording` | `record()` beside `cleanup()`, other readers and the consumer | extends the gate |
| `ZeroCopyRecording` | the zero-copy `record()`, or that of `RawRecording` | extends `RawRecording`; memory and file in units |
| `RawRecordingProofs` | | theorems about both recorders; extends `CleanupGateProofs` |
| `ReadoutModel` | the life cycle of `ReadoutModel`, its consumer (or callback) and timesync thread, `TaskRawDataProcessorModel`, the callback registry | of the request handler only cleanup and pool |
| `ReadoutModelProofs` | | theorems about runs and their stop |
| `SkipListBuffer` | the skip list buffer and its cleanup | extends the gate |
| `BufferProofs` | | theorems about the skip list and about the look-up of `BufferSearch`; extends `CleanupGateProofs` |
| `RecordingFiles` | `RecorderModel`, `BufferedFileWriter` under its two owners, `BufferedFileReader` | the file is a sequence of units |
| `RecordingFilesProofs` | | theorems about files |
| `SourceEmulator` | `SourceEmulatorModel`, `RateLimiter`, `ErrorBitGenerator`, `FileSourceBuffer` | time is counted from start() |
| `ProducerProofs` | | theorems about the worker and about the emulator, whose producer is such a worker |

### State and actions

*CleanupGate.*  `reader[t]` is the place of a thread in the handshake, `cleaner`
that of the cleanup thread.  `m_cv` is its wait set `cv_waiters`: waiting with
a false predicate adds a thread and releases the mutex in one step, as
`std::condition_variable` guarantees; `notify_all` empties the set; spurious
wakeups are allowed.  The mutex is only held over several steps by the cleanup
thread while it pops (`MutexFree`).  The readers' `notify_all` comes after the
unlock and is a step of its own.

*RequestHandler.*  `task[t]` follows one posted lambda through data_request:
`inspect` (front and back are read, `Category` is the if/else chain), `extract`
(get_fragment_pieces), `conclude` (the run marker is tested, the fragment
built), `reply` (outside the gate: `Send`, or `Requeue` to the waiting
requests).  `waiter` is check_waiting_requests: its loop test, its lock and its
scan by index with swap-and-pop.  `Age` lets request_timeout_ms pass for one
entry.  `ctl` is the command thread in start and stop.  A send may fail; the
code only warns, and the request counts as answered with `send_failed`.

The elements are one tick each, so the search key is `WindowBegin - 1`; the
search over multi-frame elements is in `BufferSearch`.

*IterableQueueModel.*  Loads of the other side's index, the construction and
destruction of a slot and the stores of the indices are separate steps.  The
refinement mapping reads the queue off the ring from the read index to the
write index, with the payload being removed still at its head until the read
index is stored.

*BufferSearch.*  A query asks the registry (has_error()), looks up its start
(lower_bound()) and collects in three steps.  Nothing is popped between them,
because the query holds the gate, but the consumer goes on: it registers gaps,
where add_error() takes the interval that is there out of the map before it
inserts the new one, and writes elements.  The missing-frames error is the end
of its interval.  `upto`, which only properties read, is the time up to which
the answer of has_error() is true of the elements the search will find.  The
two loops of
the code, the bisection (`Halve`) and the walk of the iterator (`Advance`), are
iterated by `Passes`; Size passes are enough for both, which the proofs show.

*ReusableThread.*  The owner behaves like start and stop of the library's
classes: set_work, then poll get_readiness, then again or destroy.

*RawRecording.*  Elements carry their number in the order of arrival; the
recorder's iterator is such a number.  Compare and pop of `cleanup` are two
steps, as are the recorder's reading of front() and its store.  Locals that are
dead are reset, so that states differing only in them are one.

*ZeroCopyRecording.*  The recorder's pointers are offsets in memory of
`Slots * PayloadSize` units; `UnitAt` says which unit of which element lies
there now.  A write to the file may be lost (closed descriptor, direct write
off the alignment) and is counted all the same, as `!::write(...)` does.  The
skip loop that runs off the end of the data is the state "spin".  Sizes need
not fit the alignment; `BlocksFit` says when they do.  Which of the
two recorders runs is chosen once, in `zero_copy`.

*RingLifecycle.*  `memory` remembers who allocated `records_` and `FreedBy`
which function free_memory() calls, by the options; `misfreed` is set when they
differ.  The prefill is the handshake of two threads over `prefill_cv_`, with
the ring's own write and pop steps in between.  The ring of size 2 that exists
before conf and after scrap is not used by anybody and has no steps.

*ReadoutModel.*  `ctl` is the command thread, which joins in the order of
stop(): request handler, timesync, consumer, (flush,) post-processing threads.
An element is its timestamp; a pointer is live while the timestamp is in the
ring.  `outstanding` is the history of what each task still owes, `handed_null`
that back() was null.  The share that cleanup() pops is `PopNum / PopDen`, any
one below 1 (the schema's default is 0.8).  In callback mode the sender may call at any time
between conf and scrap.

*SkipListBuffer.*  The list is a set of timestamps; insertions happen anywhere
in it at any time.  The cleanup's reads of last(), first() and its removals are
separate steps.

*RecordingFiles.*  Each conf of the request handler enables recording or not;
the recorder has no such switch.  The stream's buffer goes to the file in full
buffers; a direct write fails when the file's length is off a block, and any
write when the disk is full, which then takes a part of what it is handed.
Once the disk was full for a file, its later writes are taken as a whole or not
at all (the bound in `DiskTakes`).  Whether a stream
that has failed writes its buffer at the next flush differs between libraries
and is left open.

*SourceEmulator.*  One step per pass of the producer's inner loop; time passes
between any two steps.  The periodic pattern is payload contents and left out.  `tat` is the earliest time at which the next tick is
due if ticks follow each other at the rate, a history variable against which
`RateKept` measures the limiter.

### Abstractions shared by all modules

Memory is sequentially consistent.  The library uses acquire/release pairs on
the ring's indices and default ordering elsewhere, so this holds for the ring's
data; the two relaxed loads of `Iterator::good()` may be older than modelled.
A cleanup pops a share below one of the elements.  conf() accepts a
pop_size_pct of exactly 1.0 too (DefaultRequestHandlerModel.hxx:26), with which
cleanup() can empty the buffer and dereference the null front() after it; that
setting is left out.
Monitoring counters, log messages and payload contents are left out.  In the
modules other than `ReusableThread` a started thread runs: the lost wakeup that
`ReusableThread` shows is not repeated in them.

## 3. Runs

All runs stop by themselves; each passes within two minutes on two workers.

| Run | Bounds | What it shows |
|---|---|---|
| `gate` | 3 readers | exclusion, exact counter, no lost wakeup, cleanup and readers both progress |
| `requests` | 2 requests, 2 pool threads, 5 timestamps, capacity 4, 1 run | no request lost or doubled, pieces stay live, a clean fragment is complete, nothing runs when the buffer is flushed |
| `request_liveness` | 1 request with window 2..3, 5 timestamps, 1 pool thread, 2 runs | stop returns; requests are resolved unless their window begins at the front |
| `ring` | 4 slots, 2 payloads, all 16 combinations of options, with and without libnuma | slot and memory ownership, the assert of popFront, the prefill handshake and the empty ring it leaves, refinement of the bounded FIFO |
| `search` | ring of 4, 2 frames per element, gaps of one element, overflows of the binary search's buffer, consumer steps between all steps of a query | lower_bound against its definition, the window's frames as far as the look at the registry counts, windows inside the buffer found at once |
| `reusable_thread` | 3 tasks | readiness means done, tasks once and in order, a sleeping worker is woken, destructor returns |
| `recording` | either recorder, one more reader of the gate, 6 timestamps, capacity 3, 2 recordings, rounds of 2; 3 units per element, aligned to 2 | both recorders read live data, write an unbroken piece of it before it is popped, and end |
| `readout` | polling and callback, 1 task with a queue of 2, capacity 3, share 4/5 (one element is kept), 4 timestamps, 2 runs, fake triggers | no null or early stale pointer, nothing left over after stop, TimeSyncs of this run and advancing, stop returns |
| `skip_list` | 2 readers, timestamps 1..6 in any order, maximum age 2, limit 2 | the cleanup stays in the list, spares what is held and looked at |
| `files` | both owners, recording enabled or not, direct or not, a full disk at any time, elements of 3 units, buffer 4, blocks of 2, 6 elements, 3 confs | the file is what was received, on disk after stop; when writing can fail, when an enabled recording is refused, what a reader sees |
| `source` | files of less than one and of two and a half elements, 2 dropout entries, 2 elements per tick, 6 elements and 6 time units per run, 2 runs, 2 confs | order, timestamps, pace, error bits, and counts of what is sent |
| `lost_wakeup` | 1 task | a comment that does not hold, see below |

The bounds are the smallest with the interesting cases in them.  Three readers
let one enter, one leave and one sleep at the same time.  In `requests` the
windows 2..3 and 3..5 can be complete, too old, gone or not yet there, cleanups
pop below them (capacity 4, limit 2), and the two requests can wait at the same
time so that the swap in the scan matters.  In `request_liveness` the data of
the window 2..3 may arrive and be followed by newer elements before the
timeout, after it, or never.  Four ring slots let the indices
wrap in both orders with a full and an empty ring.  Six timestamps with a
capacity of three let the recorders be overtaken by several cleanups and by an
overflow, start at an aligned and at a misaligned element, and go on after the
end of the memory.  In `readout` two of four elements fill the task's queue and
four the buffer, so that pointers and elements are dropped, and the second run
may begin before the first one's TimeSync is due.  Elements of three units in a
buffer of four leave the file at every offset of a block.  A
file of two and a half elements ends in the middle of one, and a file of less
than one element is the case in which the emulator's second test of the wrap
makes a difference.  Every property of a run is about a
behaviour; the type invariants stand in the modules beside them, as the first
conjunct of inductive invariants, and only the ring's is part of a run.  The
runs that pass check deadlock; `Terminated`, `Finished`, `AllOver` and `Joined` are the
only states in which the system rests.

### Where code and documentation disagree

The run `lost_wakeup` shows a behaviour of the code against a comment: a task
that set_work() has accepted is not executed, because set_work() notifies
without the mutex and the worker may be between its test and its wait.
`SleepingWorkerRuns` is what does hold: a worker that is asleep already when
the task is set runs it.  PROJECT.json
quotes the comment under `findings`.

More departures were met while modelling.  The models contain them, and the
properties are stated so that they say exactly where the promise ends:

* A window that begins at the oldest element is looked up one element too early
  (DefaultRequestHandlerModel.hxx:422), is not found and its request retried
  without end, although readoutconfig.jsonnet:106 promises an empty fragment
  after the timeout (the exception in `RequestResolved`).
* A request re-queued by a pool thread that read the run marker before stop
  (line 579) waits over the stop, against the comment at lines 364-367
  (`EachRequestOnce` counts it as waiting).
* An element dropped by a full buffer makes a gap no error registers
  (ReadoutModel.hxx:269); the fixed rate search then lands beside its target,
  against FixedRateQueueModel.hxx:33 (`search` lets only the binary search's
  buffer overflow).
* The answer of has_error() may be outdated when it is used.  If a gap is
  registered and elements are written between lines 423 and 424-425, the fixed
  rate search runs over a gap and may miss frames of the window that came after
  the look; if has_error() looks while add_error() has the old interval out of
  the map, also frames that were there before.  No frame outside the window is
  sent in either case (`upto` in `CollectsTheWindow`).
* The first element of a recording may leave the buffer unrecorded: cleanup()
  compares it before the recorder sets its place and pops it after (line 131;
  docs/README.md:20; `LeavingDataIsRecorded` starts behind that element).
* The zero-copy recorder hangs when the buffer holds no aligned element as the
  recording begins: the `continue` at ZeroCopyRecordingRequestHandlerModel.hxx:96
  stays in the skip loop, against the comment above it, "Reset the next
  timestamp to record and try again".  With the place at zero no cleanup pops
  any more (the exception in `RecordingEnds`).
* Its file is closed after the first recording (line 179); a second one counts
  bytes that are in no file (`CountedIsWritten` is about an open file).
* The branch of data_request for partial data is taken when the oldest element
  is younger than the window's begin; the search key is then older than the
  front, so the branch always answers with an empty fragment.
* For a window that begins less than one element after zero the unsigned key
  wraps; the runs take later windows (`FirstWindow`).
* The allocator options numa_aware with alignment, numa_aware without libnuma
  and intrinsic without alignment allocate and free by different functions or
  keep a freed pointer (`Sane` excludes them in `MemoryIsOwned`).
* A stream_buffer_size that is not a whole number of blocks misaligns the
  zero-copy recorder's write pointer at the second chunk, of which the code says
  "This should never happen" and goes on
  (ZeroCopyRecordingRequestHandlerModel.hxx:109); direct writes then fail and are
  counted all the same.  conf() reports memory of a size that does not fit and a
  buffer without alignment, and does not look at the chunks
  (in `FileUnbroken` the alignment of the pointer and, with O_DIRECT, the rest
  have the condition `BlocksFit`).
* flush() with O_DIRECT may leave the file at an odd offset, after which the
  next recording into it fails (`FailsOnlyAsKnown`).
* A request handler that was scrapped refuses to record after the next conf
  (`FailsOnlyAsKnown` too; that one whose conf did not enable recording refuses
  as well is meant).
* After a full disk the file may have a piece missing or doubled
  (`FileIsPrefix` is about a disk that was not full).
* In callback mode stop() waits for nobody in consume_payload(); back() may be
  null and elements may be left over (the properties of `readout` are about the
  polling mode).
* The emulator reads past a file that is shorter than one element (`SentInTurn`
  asks for an element), and shows an error generator of rate zero no errors only because a stretch of no
  length is masked (`NoErrorsAtRateZero`).
* The monitoring thread calls `occupancy()`, which is meant for producer and
  consumer only, and may report a number the buffer never held.

### Fairness

`gate` and `requests`: every thread that can take a step takes one (weak
fairness); readers owe nothing before they arrive.  `Enter` and `Requeue` are
strongly fair because they need a mutex another thread takes over and over;
that thread sleeps 50 ms (periodic_cleanups) or 10 ms (check_waiting_requests)
without it in every round, so a waiting thread gets it.  The environment (data,
requests, commands) owes nothing.  `Age` is fair because time passes.
`reusable_thread`: both threads keep running and tasks return; spurious wakeups
are possible and never owed.  `ring`: the command thread in conf and the
prefiller keep running; producer and consumer owe nothing.  `readout`: every
thread that can take a step takes one, the joins of stop() included; commands,
data and cleanups owe nothing, but a cleanup that has begun pops on.
`recording`: recorder, cleanup thread and the readers inside the gate run; the
end of a recording is strongly fair because its time runs out and the loop
tests the clock in every round, and so is the passage of the mutex, as above.
`source`: the producer runs, time passes, and stop() looks again and again.

## 4. Proofs

Every safety invariant proved here holds for all values of the constants that
the named assumptions of the modules allow: any number of threads, requests,
tasks, elements, runs and commands, and any sizes of buffers.  The assumptions
say what the code's constructors, conf commands or types say (a ring has at
least two slots, the stream buffer is a multiple of the block, the share that
cleanup pops is below one); the bounds on counters (`MaxTs`, `MaxRuns`, ...)
only have to be numbers.

Each proof has the same layout: an invariant that is the type invariant
and a few named parts, one lemma that the initial states satisfy it, lemmas by
part or by action that a step keeps it, and theorems that read the properties
off it.  The strengthened invariants were checked with TLC on the bounds of the
runs before they were proved.

`CleanupGateProofs` (`GateInv`).  The gate keeps its types, `m_requests_running`
counts the readers inside, cleanup() and readers exclude each other, and nobody
sleeps without somebody left to wake him.  Exclusion alone is not inductive:
cleanup() is entered on the counter being zero, which says something about the
readers only while the counter is exact.  The readers are a finite set without
the cleanup thread.

`RequestHandlerProofs` (`RHInv`).  The handler's steps are gate steps or leave
the gate alone, so `GateInv` carries over; with it no pool thread is inside
while cleanup() pops.  `BufferInv` says that the buffer loses its oldest
elements first, `StopInv` which threads are gone after each join of stop(),
`PlaceInv` where in the gate a thread with a task is, and `LearnedInv` what
remains true of the result of the comparison until it is used: the buffer may
have grown but not lost anything from the front.  From these follow
`PiecesAreLive`, `CleanFragmentIsComplete` and `QuietWhenFlushed`, and that the
branch for partial data never finds its start.  `EachRequestOnce` is an
invariant by itself given the types; its proof counts the places of a request
in the queue, the waiting vector and the threads, over append, removal at the
head and the swap-and-pop of the scan.

`RingProofs` (`IQInv`, `LifeInv`).  For every size of at least two and any set
of payloads, indices stay in range, slots are owned as stated in `SlotsOwned`,
pops are covered by the occupancy, and the ring implements `LatencyBuffer`.
`IQInv` adds `ProducerHasRoom` (between its test and its store the producer's
next index stays different from the read index, because only the producer moves
the write index and pops only make room) and `ConsumerHolds` (the payload of a
slot not yet released is a real one).  The refinement goes step by step:
construct, destroy and the begin of a call are stutters, the store of the write
index is `Put`, the store of the read index is `Take`, a write to a full ring
is `Refuse`.  The same is then proved for `LifeSpec`, where conf resets the
indices: `OwnerInv` says who may be in the ring in each phase, so that it is
empty and unused at every reset; `FlagInv` follows the prefill handshake and
gives that neither side misses the other (`PrefillMissesNobody`) and that conf
hands over an empty ring; `MemoryInv` relates options, allocator and memory.

`ProducerProofs`, the worker (`RTInv`).  `TurnsInv` says how the two flags take turns:
the slot of the task is the owner's while `m_task_assigned` is false and the
worker's from its test of both flags to its second store.  `SlotInv` says what
they tell about the tasks run so far.  Readiness, once-and-in-order, and the
confinement of refusals follow.

`BufferProofs`, the skip list (`SkipInv`).  The cleanup loop keeps the tail it has seen in
the list, because it only removes what is older by the maximum; hence the list
does not run empty under it, and a pointer it has overtaken has a witness of its
age.

`RawRecordingProofs` (`RRInv`).  The recorder walks outside the gate, so what
protects it is the order of timestamps: `PlaceInv` says that the place splits
the accepted elements into those recorded or too old and those to come,
`IterInv` that the iterator stands at this split, and `SpentInv` that what
cleanup() pops, or has compared and is about to pop, is on the near side of it.

`RawRecordingProofs`, the zero-copy recorder (`ZCInv`).  `ZCInv` is `RRInv` or,
for the zero-copy handler, three parts on the same consumer and cleanup.
`PointerInv` says that the write pointer stands for one unit u of the stream,
that an open file, unless direct writes may fail, ends right before u, and that the place kept in
`m_next_timestamp_to_record` is not above the element of u (`Ahead`), so that
cleanup() stays below it.  Positions in memory say something about the stream
only because the buffer holds less than one lap of the memory: the unit at a
position between the pointer and the end taken for the newest element is then
the one of this lap (`Laps`, `UnitPlace`).  `FileInv` ties the
file's length to the bytes counted.  All sizes are allowed; what is said about
the file has the hypothesis `DirectFits`, that with O_DIRECT memory and chunks
are whole blocks, because then all direct writes are aligned
(`WritePointerAligned`).  conf() does not see to it.  `SearchInv` covers
the time before the pointer is set, in which nothing is popped.  From `ZCInv`
follow `FileUnbroken` and, for `ZCSpec`, the three properties proved before for
`RRSpec`.

`BufferProofs`, the look-up (`BSInv`, `QueryInv`).  `GrowInv` says that
timestamps grow along the ring, from the read index to the write index wherever
it has wrapped.  `Narrowed` is the invariant of the bisection: the first slot
left is not newer than the key, what follows the last one is newer, and either
the key is in the middle or every pass so far has dropped a slot; hence the
loop stops and returns the first element that is not older.  `RateInv` says
that the elements from the end of the registered gap on are one span apart; a
gap is forgotten only when the front is newer than its end, so without a
registered gap all elements are evenly spaced and the fixed rate search may
divide.  `ConsumerInv` keeps this over the two steps of add_error(), where the
interval is out of the map but known to the consumer.  `QueryInv` follows the
answer of has_error(): after "no error" the elements up to `upto` are evenly
spaced and the others are not before it (`EvenUpTo`), whatever is registered and
written afterwards; and what is before a request's iterator ends before its
window or is not before `upto` (`StartsAt`).  More elements do not change
either, and nothing is popped.  Two
theorems have a hypothesis, where the code's promise ends (section 3): the
fixed rate buffer drops no element (`"fixed_rate" \notin Overflowing`; the
binary search needs no such thing), and, for `FragmentsAreExact`, a window
begins at least one element after zero (`FirstWindow >= Span`), or its unsigned
key wraps.  The run has the same limits.  What `Passes` computes is shown by a
least counterexample on the number of passes (`PassesAre`).

`ReadoutModelProofs` (`ReadoutInv`).  `StageInv` says which threads are there at
each stage of stop(), `LostInv` counts fake triggers, `PopInv` that cleanup
leaves `Kept` elements, for any share below one (`ShareLeaves`), and that the buffer is not empty between write() and
back(), `OrderInv` that the ring is ordered with at most one element to a
timestamp, `FreshInv` that a pointer outside the ring is old, `OwedInv` where
an element is that a task still owes, and `TimeInv` follows a time from the
consumer to the TimeSync.

`RecordingFilesProofs` (`FilesInv`).  `UnitsInv` describes file and buffer unit
by unit: the k-th unit of the two together belongs to the element received at
that place, whatever the buffer size makes of it on the way, as long as the
disk was not full.  `BlockInv` says
that only a flush in mid-block or a full disk leaves an open file off a block,
because whole buffers are whole blocks; `OpenInv` ties the open file to the
commands (after a conf that enables recording the file is open unless a scrap
has closed one before); and
`ReaderInv` puts the reader's position behind what it has read.

`ProducerProofs`, the emulator (`SourceInv`).  `TickInv` says that some number
of ticks is complete and what follows for the number of elements, the timestamp
and the deadline; this number, not the clock, is what timestamps and pace have
in common.  `TurnInv` relates the place in the file to the number of elements
sent, modulo the file's length, and gives that in a file with at least one element the second test for the
end of the file changes nothing.  `LateInv` bounds `tat` by the deadline or, after the
thread has overslept, by the clock; with it the limiter never catches up too
much.  `ErrorInv` says that at rate zero the stretches with errors have no
length.  The generator's states through the frames of one element are a
recursive function; what it computes is shown by a least counterexample
(`LeastNumber`, `FramesAre`).

Only model-checked:

* all liveness properties (`CleanupHappens`, `RequestResolved`, `ProductionStops`
  and the others under fairness), which this prover does not reach.

Every other property that a run checks, invariant or action property, is stated
by a theorem, except the finding's.

## 5. Not modelled

* `EmptyFragmentRequestHandlerModel` answers every request at once from the
  caller's thread and keeps no state.
* get_info of `ReadoutModel`, `DefaultRequestHandlerModel` and `RecorderModel`
  and the statistics they reset: monitoring numbers no other code reads.
* What has_error() may see of a std::map in the middle of an insertion or a
  removal: it takes no lock.  That it may come between the two steps of
  add_error(), or long before the search, is modelled.
* The emulator's periodic pattern, which changes payload contents only.  (Its
  wait is divided once more at every conf.)
* Compression: the file's units are then the compressor's, which cannot be
  flushed; library code.
* `RateLimiter::adjust()` during a run, which only test programs do.
* Logging, schemas and Python scripts (no state of their own), and the inside
  of folly's skip list, boost's thread pool and streams and iomanager's
  connections, which appear only as the code uses them.

What could be added: the liveness properties for every value of the constants,
which need another prover; the emulator's `adjust()` during a run; and a
simpler `CollectsTheWindow`, once has_error() takes the mutex and its answer is
used under it.
