---------------------------- MODULE ReadoutModel ----------------------------
(***************************************************************************)
(* ReadoutModel with its TaskRawDataProcessorModel: the life cycle (conf,  *)
(* start, stop, scrap), the consumer thread, or in callback mode the       *)
(* sender that calls consume_payload through DataMoveCallbackRegistry, the *)
(* timesync thread with its fake triggers, and one post-processing thread  *)
(* per task, each with a queue of pointers into the latency buffer.  Of    *)
(* the request handler only what these parts meet is here: the cleanup and *)
(* the pool.  An element is its timestamp, so a pointer into the buffer is *)
(* live while that timestamp is in the ring.                               *)
(***************************************************************************)
EXTENDS Integers, FiniteSets, Sequences, SequencesExt

CONSTANTS Tasks,                \* the post-processing tasks
          QueueSize,            \* postprocess_queue_sizes; one slot stays free
          Capacity,             \* usable slots of the latency buffer
          PopLimit,             \* m_pop_limit_size
          PopNum, PopDen,       \* m_pop_size_pct = PopNum / PopDen
          m_fake_trigger,       \* from fake_trigger_flag
          MaxTs, MaxRuns        \* bounds: elements, runs

(* A share of 1.0, which conf() accepts, is left out: cleanup() would      *)
(* empty the buffer and dereference its null front().                      *)
ASSUME ReadoutAssumption == /\ {QueueSize, Capacity, PopNum, PopDen, MaxTs, MaxRuns} \subseteq Nat
                            /\ QueueSize >= 2 /\ Capacity >= 1 /\ m_fake_trigger \in BOOLEAN
                            /\ PopLimit \in 0..Capacity /\ PopNum < PopDen

VARIABLES m_callback_mode, registered,     \* raw input through a callback; it is registered
          m_run_marker, ctl, run,          \* the command thread, the run number
          run_first,                       \* the first timestamp of this run
          ring, to_pop,                    \* the buffer, cleanup()'s pops to do
          consumer, payload, next_ts,      \* the consumer and the data to come
          handed_null,                     \* back() has given the processor a null pointer
          m_last_processed_daq_ts,
          proc_marker, posts, thread, work,\* post-processing: marker, queues, threads
          outstanding,                     \* per task: elements it still owes
          timesync, prev_ts, sync,         \* run_timesync, its last TimeSync
          lost,                            \* fake triggers posted to a joined pool
          pool                             \* the request handler's thread pool

conf_vars == <<m_callback_mode, registered>>
run_vars == <<m_run_marker, run, run_first>>
lb_vars == <<ring, to_pop>>
feed_vars == <<consumer, payload, next_ts, handed_null>>
post_vars == <<posts, thread, work, outstanding>>
proc_vars == <<proc_marker, m_last_processed_daq_ts>>
sync_vars == <<timesync, prev_ts, sync, lost>>
readout_vars == <<conf_vars, ctl, run_vars, lb_vars, feed_vars, post_vars, proc_vars, sync_vars, pool>>

Ts == 1..MaxTs
Null == 0     \* no timestamp, a null pointer

ReadoutInit ==
  /\ m_callback_mode \in BOOLEAN /\ registered = FALSE
  /\ m_run_marker = FALSE /\ ctl = "initial" /\ run = 0 /\ run_first = 1
  /\ ring = <<>> /\ to_pop = 0
  /\ consumer = "off" /\ payload = Null /\ next_ts = 1 /\ handed_null = FALSE
  /\ proc_marker = FALSE /\ m_last_processed_daq_ts = 0
  /\ posts = [i \in Tasks |-> <<>>] /\ outstanding = [i \in Tasks |-> {}]
  /\ thread = [i \in Tasks |-> "off"] /\ work = [i \in Tasks |-> Null]
  /\ timesync = "off" /\ prev_ts = 0 /\ sync = [run |-> 0, daq_time |-> 0, seqno |-> 0] /\ lost = 0
  /\ pool = "none"
-----------------------------------------------------------------------------
(* The commands                                                            *)

(* DataMoveCallbackRegistry: a second registration under the same name is  *)
(* ignored and none is ever removed.                                       *)
RegisterCallback == registered' = (registered \/ m_callback_mode)

(* TaskRawDataProcessorModel::conf(): a queue for each task; the derived   *)
(* processor registers its tasks first.                                    *)
ConfProcessor == posts' = [i \in Tasks |-> <<>>]

(* conf(): fresh queues and an empty buffer, and the callback.             *)
Conf == /\ ctl = "initial" /\ ctl' = "configured"
        /\ ConfProcessor /\ ring' = <<>>
        /\ RegisterCallback
        /\ UNCHANGED <<m_callback_mode, run_vars, to_pop, feed_vars, thread, work, outstanding, proc_vars,
                       sync_vars, pool>>

(* TaskRawDataProcessorModel::start()                                      *)
StartProcessor == proc_marker' = TRUE /\ thread' = [i \in Tasks |-> "idle"]

(* start(): the processor, the request handler with a new pool, then the   *)
(* consumer thread (not in callback mode) and the timesync thread.         *)
Start == /\ ctl = "configured" /\ run < MaxRuns
         /\ ctl' = "running" /\ run' = run + 1 /\ m_run_marker' = TRUE /\ run_first' = next_ts
         /\ StartProcessor
         /\ pool' = "open"
         /\ consumer' = IF m_callback_mode THEN consumer ELSE "receive"
         /\ timesync' = "test" /\ prev_ts' = 0
         /\ UNCHANGED <<conf_vars, lb_vars, payload, next_ts, handed_null, posts, work, outstanding,
                        m_last_processed_daq_ts, sync, lost>>

(* The run marker is cleared and stop() called.                            *)
Stop == /\ ctl = "running" /\ ctl' = "join_handler"
        /\ m_run_marker' = FALSE
        /\ UNCHANGED <<conf_vars, run, run_first, lb_vars, feed_vars, post_vars, proc_vars, sync_vars, pool>>

(* The request handler's stop joins the cleanup thread and the pool.       *)
JoinHandler == /\ ctl = "join_handler" /\ ctl' = "join_timesync"
               /\ to_pop = 0
               /\ pool' = "joined"
               /\ UNCHANGED <<conf_vars, run_vars, lb_vars, feed_vars, post_vars, proc_vars, sync_vars>>

JoinTimesync == /\ ctl = "join_timesync" /\ ctl' = "join_consumer"
                /\ timesync = "off"
                /\ UNCHANGED <<conf_vars, run_vars, lb_vars, feed_vars, post_vars, proc_vars, sync_vars, pool>>

(* Only a consumer thread can be waited for, not a sender in the callback. *)
ConsumerJoined == m_callback_mode \/ consumer = "off"

(* The buffer is flushed, then the processor told to stop.                 *)
JoinConsumer == /\ ctl = "join_consumer" /\ ctl' = "join_threads"
                /\ ConsumerJoined
                /\ ring' = <<>> /\ proc_marker' = FALSE
                /\ UNCHANGED <<conf_vars, run_vars, to_pop, feed_vars, post_vars, m_last_processed_daq_ts,
                               sync_vars, pool>>

ResetLastDaqTime == m_last_processed_daq_ts' = 0

(* TaskRawDataProcessorModel::stop() joins its threads; stop() returns.    *)
JoinThreads == /\ ctl = "join_threads" /\ ctl' = "configured"
               /\ \A i \in Tasks : thread[i] = "off"
               /\ ResetLastDaqTime
               /\ UNCHANGED <<conf_vars, run_vars, lb_vars, feed_vars, post_vars, proc_marker, sync_vars, pool>>

(* TaskRawDataProcessorModel::scrap() drops queues, threads and tasks.     *)
ScrapProcessor == posts' = [i \in Tasks |-> <<>>]

(* scrap(); the senders have been stopped before.                          *)
Scrap == /\ ctl = "configured" /\ ctl' = "initial"
         /\ consumer = "off" /\ run > 0
         /\ ring' = <<>> /\ ScrapProcessor
         /\ UNCHANGED <<conf_vars, run_vars, to_pop, feed_vars, thread, work, outstanding, proc_vars,
                        sync_vars, pool>>
-----------------------------------------------------------------------------
(* run_consume() and consume_payload()                                     *)

(* The loop test of run_consume().                                         *)
ConsumerLoop == IF m_run_marker /\ ~m_callback_mode THEN "receive" ELSE "off"

(* try_receive() times out and the loop test ends the thread.              *)
ConsumerExit == /\ consumer = "receive" /\ ConsumerLoop = "off"
                /\ consumer' = "off"
                /\ UNCHANGED <<conf_vars, ctl, run_vars, lb_vars, payload, next_ts, handed_null, post_vars,
                               proc_vars, sync_vars, pool>>

(* preprocess_item(): a pre-processing task notes the time.                *)
Preprocess(item) == m_last_processed_daq_ts' = item

(* A payload arrives, by try_receive() or through the callback.            *)
Receive == /\ next_ts \in Ts
           /\ consumer = "receive" \/ (registered /\ ctl # "initial" /\ consumer = "off")
           /\ consumer' = "write" /\ payload' = next_ts /\ next_ts' = next_ts + 1
           /\ Preprocess(next_ts)
           /\ UNCHANGED <<conf_vars, ctl, run_vars, lb_vars, handed_null, post_vars, proc_marker, sync_vars, pool>>

(* The latency buffer takes the payload, or drops it when it is full.      *)
Write == /\ consumer = "write" /\ consumer' = "handover"
         /\ IF Len(ring) < Capacity
            THEN /\ ring' = Append(ring, payload)
                 /\ outstanding' = [i \in Tasks |-> outstanding[i] \cup {payload}]
            ELSE UNCHANGED <<ring, outstanding>>
         /\ UNCHANGED <<conf_vars, ctl, run_vars, to_pop, payload, next_ts, handed_null, posts, thread, work,
                        proc_vars, sync_vars, pool>>

Back == IF ring = <<>> THEN Null ELSE Last(ring)

HasRoom(i) == Len(posts[i]) < QueueSize - 1

(* postprocess_item(back()): every queue with room gets the pointer, for   *)
(* the others PostprocessingNotKeepingUp is reported.  After a dropped     *)
(* write this is the element handed over before.                           *)
HandOver == /\ consumer = "handover"
            /\ consumer' = ConsumerLoop
            /\ handed_null' = (handed_null \/ Back = Null) /\ payload' = Null
            /\ posts' = [i \in Tasks |-> IF HasRoom(i) THEN Append(posts[i], Back) ELSE posts[i]]
            /\ outstanding' = [i \in Tasks |-> IF HasRoom(i) THEN outstanding[i] ELSE outstanding[i] \ {Back}]
            /\ UNCHANGED <<conf_vars, ctl, run_vars, lb_vars, next_ts, thread, work, proc_vars, sync_vars, pool>>

(* Faulty variant: one element too many.                                   *)
ToPopMore == (Len(ring) * PopNum) \div PopDen + 1

(* cleanup(): a share of an overfull buffer is popped from its front, one  *)
(* element at a time, while the consumer goes on.                          *)
ToPop == (Len(ring) * PopNum) \div PopDen

Cleanup == /\ ctl \in {"running", "join_handler"} /\ to_pop = 0 /\ Len(ring) > PopLimit
           /\ to_pop' = ToPop
           /\ UNCHANGED <<conf_vars, ctl, run_vars, ring, feed_vars, post_vars, proc_vars, sync_vars, pool>>

Pop == /\ to_pop > 0
       /\ ring' = Tail(ring) /\ to_pop' = to_pop - 1
       /\ UNCHANGED <<conf_vars, ctl, run_vars, feed_vars, post_vars, proc_vars, sync_vars, pool>>
-----------------------------------------------------------------------------
(* run_post_processing_thread()                                            *)

PostRead(i) == /\ thread[i] = "idle" /\ posts[i] # <<>>
               /\ thread' = [thread EXCEPT ![i] = "busy"]
               /\ work' = [work EXCEPT ![i] = Head(posts[i])]
               /\ posts' = [posts EXCEPT ![i] = Tail(@)]
               /\ UNCHANGED <<conf_vars, ctl, run_vars, lb_vars, feed_vars, outstanding, proc_vars, sync_vars, pool>>

PostDone(i) == /\ thread[i] = "busy"
               /\ thread' = [thread EXCEPT ![i] = "idle"]
               /\ work' = [work EXCEPT ![i] = Null]
               /\ outstanding' = [outstanding EXCEPT ![i] = @ \ {work[i]}]
               /\ UNCHANGED <<conf_vars, ctl, run_vars, lb_vars, feed_vars, posts, proc_vars, sync_vars, pool>>

(* Faulty variant: the thread leaves with its queue unread.                *)
LeavesAtOnce(i) == ~proc_marker

(* The loop goes on while the marker is set or the queue holds something.  *)
Leaves(i) == ~proc_marker /\ posts[i] = <<>>

PostExit(i) == /\ thread[i] = "idle" /\ Leaves(i)
               /\ thread' = [thread EXCEPT ![i] = "off"]
               /\ UNCHANGED <<conf_vars, ctl, run_vars, lb_vars, feed_vars, posts, work, outstanding, proc_vars,
                              sync_vars, pool>>
-----------------------------------------------------------------------------
(* run_timesync()                                                          *)

(* Faulty variant: the loop does not look at the run marker.               *)
GoesOnBlindly == TRUE

GoesOn == m_run_marker

SyncTest == /\ timesync = "test"
            /\ timesync' = IF GoesOn THEN "read" ELSE "off"
            /\ UNCHANGED <<conf_vars, ctl, run_vars, lb_vars, feed_vars, post_vars, proc_vars, prev_ts, sync, lost, pool>>

(* Faulty variant: a time is sent again.                                   *)
WorthSendingAgain(t) == t # 0

(* "In both cases we don't send the TimeSync."                             *)
WorthSending(t) == t # 0 /\ t # prev_ts

(* One round: the last time is read and, if it is new, sent; a failure to  *)
(* send is only a warning.                                                 *)
SendSync ==
  /\ timesync = "read"
  /\ LET t == m_last_processed_daq_ts IN
     IF WorthSending(t)
     THEN /\ prev_ts' = t
          /\ sync' = [run |-> run, daq_time |-> t, seqno |-> IF sync.run = run THEN sync.seqno + 1 ELSE 1]
          /\ timesync' = IF m_fake_trigger THEN "trigger" ELSE "test"
     ELSE timesync' = "test" /\ UNCHANGED <<prev_ts, sync>>
  /\ UNCHANGED <<conf_vars, ctl, run_vars, lb_vars, feed_vars, post_vars, proc_vars, lost, pool>>

(* The fake trigger's issue_request() posts to the pool; what is posted to *)
(* a joined pool is never run.                                             *)
FakeTrigger ==
  /\ timesync = "trigger" /\ timesync' = "test"
  /\ lost' = IF pool = "open" THEN lost ELSE lost + 1
  /\ UNCHANGED <<conf_vars, ctl, run_vars, lb_vars, feed_vars, post_vars, proc_vars, prev_ts, sync, pool>>
-----------------------------------------------------------------------------
Joins == JoinHandler \/ JoinTimesync \/ JoinConsumer \/ JoinThreads
Consumer == ConsumerExit \/ Receive \/ Write \/ HandOver
Timesync == SyncTest \/ SendSync \/ FakeTrigger
PostThread(i) == PostRead(i) \/ PostDone(i) \/ PostExit(i)

(* Everything is scrapped after the last run.                              *)
Finished == ctl = "initial" /\ run = MaxRuns /\ UNCHANGED readout_vars

ReadoutNext == \/ Conf \/ Start \/ Stop \/ Joins \/ Scrap
               \/ Consumer \/ Cleanup \/ Pop
               \/ \E i \in Tasks : PostThread(i)
               \/ Timesync \/ Finished

ReadoutSpec == ReadoutInit /\ [][ReadoutNext]_readout_vars
               /\ WF_readout_vars(Joins) /\ WF_readout_vars(Consumer) /\ WF_readout_vars(Pop)
               /\ WF_readout_vars(Timesync)
               /\ \A i \in Tasks : WF_readout_vars(PostThread(i))
-----------------------------------------------------------------------------
(* The type invariant; ring and queues keep their limits.                  *)
Commands == {"initial", "configured", "running", "join_handler", "join_timesync", "join_consumer", "join_threads"}
Pointer == Ts \cup {Null}

ControlTypeOK ==
  /\ ctl \in Commands /\ run \in 0..MaxRuns /\ run_first \in 1..MaxTs + 1
  /\ {m_callback_mode, m_run_marker, registered, proc_marker, handed_null} \subseteq BOOLEAN

FeedTypeOK ==
  /\ ring \in Seq(Ts) /\ Len(ring) <= Capacity /\ to_pop \in 0..Capacity
  /\ consumer \in {"off", "receive", "write", "handover"}
  /\ payload \in Pointer /\ next_ts \in 1..MaxTs + 1

PostTypeOK ==
  /\ posts \in [Tasks -> Seq(Pointer)] /\ \A i \in Tasks : Len(posts[i]) < QueueSize
  /\ thread \in [Tasks -> {"off", "idle", "busy"}] /\ work \in [Tasks -> Pointer]
  /\ outstanding \in [Tasks -> SUBSET Ts]

SyncTypeOK ==
  /\ timesync \in {"off", "test", "read", "trigger"} /\ pool \in {"none", "open", "joined"}
  /\ m_last_processed_daq_ts \in Pointer /\ prev_ts \in Pointer /\ lost \in Nat
  /\ sync \in [run : 0..MaxRuns, daq_time : Pointer, seqno : Nat]

ReadoutTypeOK == ControlTypeOK /\ FeedTypeOK /\ PostTypeOK /\ SyncTypeOK

(* How many of the newest elements cleanup() leaves at least.              *)
Kept == (PopLimit + 1) - (((PopLimit + 1) * PopNum) \div PopDen)

(* The pointers task i holds, and the elements received after p.           *)
Pointers(i) == (ToSet(posts[i]) \cup {work[i]}) \ {Null}
Younger(p) == {t \in Ts : p < t /\ t < next_ts}

(* What back() gives to the processor, unchecked and some steps after      *)
(* write(), is never null: cleanup() leaves at least one element and       *)
(* stop() flushes only when the consumer is at rest.  And a                *)
(* post-processing thread less than Kept elements behind the data reads    *)
(* live elements: until the flush, every pointer it holds that is that     *)
(* young still points into the buffer.  Both with a consumer thread.       *)
FreshPointersAreLive ==
  ~m_callback_mode =>
    /\ ~handed_null
    /\ ctl \in {"running", "join_handler", "join_timesync", "join_consumer"} =>
         \A i \in Tasks : \A p \in Pointers(i) :
           Cardinality(Younger(p)) < Kept => p \in ToSet(ring)

(* When stop() has returned, every element the buffer accepted has been    *)
(* processed by every task or warned about: the consumer is joined before  *)
(* the processor stops, and the processor's threads empty their queues.    *)
(* What may be left over is one fake trigger per run, posted to the joined *)
(* pool by the timesync thread before it looks at the run marker again.    *)
NothingLeftOver == (~m_callback_mode /\ ctl = "configured") =>
                     /\ \A i \in Tasks : outstanding[i] = {} /\ posts[i] = <<>>
                     /\ lost <= run

(* A TimeSync carries the time of an element received in its own run (the  *)
(* threads are joined before the last DAQ time is reset), and is later     *)
(* than the one before it in the run, also when data has stopped flowing.  *)
TimeSyncsAdvance ==
  [][sync' # sync => /\ m_callback_mode \/ sync'.daq_time >= run_first
                     /\ sync'.run = sync.run => sync'.daq_time > sync.daq_time]_readout_vars

(* stop() returns, for none of the joins waits for ever, and a run that    *)
(* receives data announces its time.                                       *)
RunProgresses ==
  /\ (~m_callback_mode /\ ctl = "join_handler") ~> (ctl = "configured")
  /\ (m_last_processed_daq_ts # 0 /\ m_run_marker) ~> (sync.run = run \/ ~m_run_marker)

=============================================================================
