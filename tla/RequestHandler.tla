--------------------------- MODULE RequestHandler ---------------------------
(***************************************************************************)
(* DefaultRequestHandlerModel together with the parts of ReadoutModel that *)
(* drive it: the request callback, the consumer that fills the latency     *)
(* buffer, start and stop.                                                 *)
(*                                                                         *)
(*  - The latency buffer is the set lb of the timestamps it holds (a queue *)
(*    model keeps them in order), one tick per element.  lower_bound() is  *)
(*    BinarySearchQueueModel's, for a search key one element before the    *)
(*    window (module BufferSearch has the search itself).                  *)
(*  - The request handling pool is a FIFO of posted tasks served by the    *)
(*    Readers of CleanupGate; the cleanup thread is its Cleaner.           *)
(*  - check_waiting_requests() scans m_waiting_requests entry by entry     *)
(*    while it holds m_waiting_requests_lock.                              *)
(***************************************************************************)
EXTENDS CleanupGate, Sequences, FiniteSetsExt

CONSTANTS Requests,     \* the data requests of the environment
          WindowBegin, WindowEnd,  \* the window of each: WindowBegin <= ts < WindowEnd
          SendPartial,  \* m_send_partial_fragment_if_available
          Capacity,     \* usable slots of the latency buffer
          PopLimit,     \* m_pop_limit_size
          PopNum, PopDen, \* m_pop_size_pct = PopNum / PopDen
          MaxTs,        \* bound: timestamps the front end sends
          MaxRuns       \* bound: start/stop cycles

ASSUME RequestAssumption ==
  /\ IsFiniteSet(Requests)
  /\ WindowBegin \in [Requests -> Nat \ {0}] /\ WindowEnd \in [Requests -> Nat]
  /\ \A r \in Requests : WindowBegin[r] < WindowEnd[r]
  /\ SendPartial \in BOOLEAN

ASSUME BufferAssumption ==
  /\ Capacity \in Nat \ {0} /\ PopLimit \in Nat
  /\ PopNum \in Nat /\ PopDen \in Nat /\ PopNum < PopDen
  /\ MaxTs \in Nat /\ MaxRuns \in Nat

VARIABLES lb,                 \* timestamps in the latency buffer
          next_ts,            \* the next timestamp to arrive
          written,            \* history: every timestamp the buffer accepted
          pops_left,          \* elements cleanup() still wants to pop
          periodic,           \* where periodic_cleanups() is in its loop
          m_run_marker,
          pool_queue,         \* tasks posted to the pool, not yet started
          task,               \* what each pool thread works on
          m_waiting_requests,
          waiter,             \* check_waiting_requests(): place, index, newest_ts
          dispatched,         \* requests received so far
          sent,               \* answers of each request, in order
          ctl,                \* where the command thread is in start/stop
          runs

buffer_vars == <<lb, next_ts, written>>
cleanup_vars == <<pops_left, periodic>>
waiting_vars == <<m_waiting_requests, waiter>>
ctl_vars == <<m_run_marker, ctl, runs>>
vars == <<gate_vars, buffer_vars, cleanup_vars, pool_queue, task, waiting_vars,
          dispatched, sent, ctl_vars>>

NoTask == [phase |-> "none"]

(* A posted task when its thread begins it: rres is kUnknown, the header   *)
(* has no error bits and the fragment no pieces.                           *)
NewTask(item) == [phase |-> "inspect", req |-> item.req, partial |-> item.partial,
                  cat |-> "none", code |-> "kUnknown", bits |-> {}, pieces |-> {}]
Off == [pc |-> "off"]

(* The part of window r that set S of timestamps holds.                    *)
InWindow(S, r) == {ts \in S : WindowBegin[r] <= ts /\ ts < WindowEnd[r]}

RHInit == /\ GateInit
          /\ lb = {} /\ next_ts = 1 /\ written = {}
          /\ pops_left = 0 /\ periodic = "off"
          /\ pool_queue = <<>> /\ task = [t \in Readers |-> NoTask]
          /\ m_waiting_requests = <<>> /\ waiter = Off
          /\ dispatched = {} /\ sent = [r \in Requests |-> <<>>]
          /\ m_run_marker = FALSE /\ ctl = "idle" /\ runs = 0
-----------------------------------------------------------------------------
(* ReadoutModel: the consumer thread, the request callback, start and stop *)

(* write() of one payload: accepted, or dropped when the queue is full.    *)
Consume == /\ ctl # "idle" /\ next_ts <= MaxTs
           /\ next_ts' = next_ts + 1
           /\ \/ /\ Cardinality(lb) < Capacity
                 /\ lb' = lb \cup {next_ts} /\ written' = written \cup {next_ts}
              \/ /\ Cardinality(lb) >= Capacity
                 /\ UNCHANGED <<lb, written>>
           /\ UNCHANGED <<gate_vars, cleanup_vars, pool_queue, task, waiting_vars,
                          dispatched, sent, ctl_vars>>

(* issue_request() posts a task.                                           *)
Post(r, partial) == pool_queue' = Append(pool_queue, [req |-> r, partial |-> partial])

Dispatch(r) == /\ ctl = "running" /\ r \notin dispatched
               /\ dispatched' = dispatched \cup {r}
               /\ Post(r, SendPartial)
               /\ UNCHANGED <<gate_vars, buffer_vars, cleanup_vars, task, waiting_vars,
                              sent, ctl_vars>>

Start == /\ ctl = "idle" /\ runs < MaxRuns
         /\ ctl' = "running" /\ runs' = runs + 1
         /\ m_run_marker' = TRUE
         /\ periodic' = "test"
         /\ waiter' = [pc |-> "test"]
         /\ UNCHANGED <<gate_vars, buffer_vars, pops_left, pool_queue, task,
                        m_waiting_requests, dispatched, sent>>

(* remove_callback(), m_run_marker.store(false).                           *)
Stop == /\ ctl = "running"
        /\ ctl' = "join_cleanup"
        /\ m_run_marker' = FALSE
        /\ UNCHANGED <<gate_vars, buffer_vars, cleanup_vars, pool_queue, task, waiting_vars,
                       dispatched, sent, runs>>

(* Faulty variant: the pool is not joined.                                 *)
JoinPoolUnasked == ctl = "join_pool" /\ ctl' = "join_consumer"

(* The three waits of stop(), in their order.                              *)
JoinCleanup == ctl = "join_cleanup" /\ periodic = "off" /\ ctl' = "join_waiter"
JoinWaiter == ctl = "join_waiter" /\ waiter = Off /\ ctl' = "join_pool"
JoinPool == /\ ctl = "join_pool"
            /\ pool_queue = <<>> /\ \A t \in Readers : task[t] = NoTask
            /\ ctl' = "join_consumer"

StopWait == /\ JoinCleanup \/ JoinWaiter \/ JoinPool
            /\ UNCHANGED <<gate_vars, buffer_vars, cleanup_vars, pool_queue, task, waiting_vars,
                           dispatched, sent, m_run_marker, runs>>

(* The consumer has returned: ReadoutModel::stop flushes the buffer.       *)
Flush == /\ ctl = "join_consumer"
         /\ ctl' = "idle" /\ lb' = {}
         /\ UNCHANGED <<gate_vars, next_ts, written, cleanup_vars, pool_queue, task,
                        waiting_vars, dispatched, sent, m_run_marker, runs>>
-----------------------------------------------------------------------------
(* periodic_cleanups(), cleanup_check(), cleanup()                         *)

OverLimit == Cardinality(lb) > PopLimit

PeriodicTest == /\ periodic = "test"
                /\ periodic' = IF m_run_marker THEN "check" ELSE "off"
                /\ UNCHANGED <<gate_vars, pops_left>>

CheckNothing == /\ periodic = "check" /\ cleaner = "idle"
                /\ ~OverLimit
                /\ periodic' = "test"
                /\ UNCHANGED <<gate_vars, pops_left>>

(* cleanup() computes to_pop when it starts.                               *)
ToPop == IF OverLimit THEN (Cardinality(lb) * PopNum) \div PopDen ELSE 0

StartPopping == pops_left' = IF cleaner' = "popping" THEN ToPop ELSE pops_left

CheckOver == /\ periodic = "check" /\ OverLimit
             /\ CleanupCheck /\ StartPopping
             /\ UNCHANGED periodic

WakeCleaner == CleanupWake /\ StartPopping /\ UNCHANGED periodic

FinishCleanup == /\ pops_left = 0 /\ CleanupDone
                 /\ periodic' = "test"
                 /\ UNCHANGED pops_left

(* m_next_timestamp_to_record is the maximum (no recording): each front    *)
(* element may be popped.                                                  *)
PopFront == /\ cleaner = "popping" /\ pops_left > 0
            /\ lb' = lb \ {Min(lb)}
            /\ pops_left' = pops_left - 1
            /\ UNCHANGED <<gate_vars, next_ts, written, periodic, pool_queue, task,
                           waiting_vars, dispatched, sent, ctl_vars>>

Cleanup == \/ /\ PeriodicTest \/ CheckNothing \/ CheckOver \/ WakeCleaner \/ FinishCleanup
              /\ UNCHANGED <<buffer_vars, pool_queue, task, waiting_vars,
                             dispatched, sent, ctl_vars>>
           \/ PopFront
-----------------------------------------------------------------------------
(* data_request(): the pool thread's task inside the gate                  *)

(* Faulty variant: the end of the window is not compared with the newest   *)
(* timestamp.                                                              *)
CategoryNoEnd(oldest, newest, begin, end, partial) ==
  IF oldest <= begin THEN "full" ELSE IF partial /\ oldest > end THEN "gone" ELSE "old"

(* The if/else chain over the oldest and the newest timestamp.             *)
Category(oldest, newest, begin, end, partial) ==
  IF oldest <= begin /\ end <= newest THEN "full"
  ELSE IF partial /\ oldest <= end /\ end <= newest THEN "partial"
  ELSE IF ~partial /\ oldest > begin THEN "old"
  ELSE IF partial /\ oldest > end THEN "gone"
  ELSE IF newest < end THEN IF partial THEN "incomplete" ELSE "notyet"
  ELSE "uncategorised"

(* The categories that go on to get_fragment_pieces().                     *)
Extracting == {"full", "partial", "incomplete"}

Request(t) == task[t].req

(* The task of thread t with a new request result.                         *)
WithResult(t, phase, cat, code, bits, pieces) ==
  [phase |-> phase, req |-> Request(t), partial |-> task[t].partial,
   cat |-> cat, code |-> code, bits |-> bits, pieces |-> pieces]

(* The front and the back of the buffer are read.                          *)
Inspect(t) ==
  LET r == Request(t)
      cat == IF lb = {} THEN "empty"
             ELSE Category(Min(lb), Max(lb), WindowBegin[r], WindowEnd[r], task[t].partial)
  IN /\ reader[t] = "inside" /\ task[t].phase = "inspect"
     /\ task' = [task EXCEPT ![t] =
          WithResult(t, IF cat \in Extracting THEN "extract" ELSE "conclude", cat,
                     IF cat \in Extracting THEN "kUnknown"
                     ELSE IF cat = "notyet" THEN "kNotYet" ELSE "kNotFound",
                     IF cat \in Extracting \cup {"notyet"} THEN {} ELSE {"kDataNotFound"}, {})]
     /\ UNCHANGED <<gate_vars, buffer_vars, cleanup_vars, pool_queue, waiting_vars,
                    dispatched, sent, ctl_vars>>

(* lower_bound() for a key one element before the window: end() when the   *)
(* queue is empty or the key is older than the front.                      *)
StartFound(r) == lb # {} /\ Min(lb) <= WindowBegin[r] - 1

(* get_fragment_pieces(), and what each branch makes of its kNotYet.       *)
Extract(t) ==
  LET r == Request(t)
      cat == task[t].cat
  IN /\ reader[t] = "inside" /\ task[t].phase = "extract"
     /\ task' = [task EXCEPT ![t] =
          WithResult(t, "conclude", cat,
                     IF StartFound(r) \/ cat = "incomplete" THEN "kFound"
                     ELSE IF cat = "partial" THEN "kNotFound" ELSE "kNotYet",
                     IF cat = "incomplete" THEN {"kIncomplete"} ELSE {},
                     IF StartFound(r) THEN InWindow(lb, r) ELSE {})]
     /\ UNCHANGED <<gate_vars, buffer_vars, cleanup_vars, pool_queue, waiting_vars,
                    dispatched, sent, ctl_vars>>

(* Faulty variant: the run marker is not looked at.                        *)
ConcludeAlways(t) ==
  /\ reader[t] = "inside" /\ task[t].phase = "conclude"
  /\ task' = [task EXCEPT ![t].phase = "reply"]
  /\ UNCHANGED <<gate_vars, buffer_vars, cleanup_vars, pool_queue, waiting_vars,
                 dispatched, sent, ctl_vars>>

(* A request that is not ready is queued again only while the run goes on; *)
(* the fragment is built by copying the pieces out of the buffer.          *)
Conclude(t) ==
  /\ reader[t] = "inside" /\ task[t].phase = "conclude"
  /\ task' = [task EXCEPT ![t] =
       IF @.code = "kNotYet" /\ ~m_run_marker
         THEN WithResult(t, "reply", @.cat, "kNotFound", {"kDataNotFound"}, @.pieces)
         ELSE WithResult(t, "reply", @.cat, @.code, @.bits, @.pieces)]
  /\ UNCHANGED <<gate_vars, buffer_vars, cleanup_vars, pool_queue, waiting_vars,
                 dispatched, sent, ctl_vars>>
-----------------------------------------------------------------------------
(* issue_request(): the task of a pool thread                              *)

TakeTask(t) == /\ task[t] = NoTask /\ pool_queue # <<>>
               /\ Arrive(t)
               /\ task' = [task EXCEPT ![t] = NewTask(Head(pool_queue))]
               /\ pool_queue' = Tail(pool_queue)
               /\ UNCHANGED <<buffer_vars, cleanup_vars, waiting_vars, dispatched, sent, ctl_vars>>

PassGate(t) == /\ \/ Enter(t) \/ Block(t) \/ NotifyEntered(t) \/ NotifyLeft(t)
                  \/ Leave(t) /\ task[t].phase = "reply"
               /\ UNCHANGED <<buffer_vars, cleanup_vars, pool_queue, task, waiting_vars,
                              dispatched, sent, ctl_vars>>

Answered(t) == /\ reader[t] = "out" /\ task[t].phase = "reply"
               /\ task[t].code \in {"kFound", "kNotFound"}

(* The fragment goes to its destination, or the send times out and the     *)
(* fragment is lost with a warning.                                        *)
Send(t) == /\ Answered(t)
           /\ \E answer \in {[code |-> task[t].code, bits |-> task[t].bits,
                              pieces |-> task[t].pieces],
                             [code |-> "send_failed", bits |-> {}, pieces |-> {}]} :
                sent' = [sent EXCEPT ![Request(t)] = Append(@, answer)]
           /\ task' = [task EXCEPT ![t] = NoTask]
           /\ UNCHANGED <<gate_vars, buffer_vars, cleanup_vars, pool_queue, waiting_vars,
                          dispatched, ctl_vars>>

WaitingLockFree == waiter.pc # "scan"

(* kNotYet: back to the waiting requests, with a fresh start_time.         *)
Requeue(t) == /\ reader[t] = "out" /\ task[t].phase = "reply" /\ task[t].code = "kNotYet"
              /\ WaitingLockFree
              /\ m_waiting_requests' =
                   Append(m_waiting_requests, [req |-> Request(t), partial |-> task[t].partial,
                                               aged |-> FALSE])
              /\ task' = [task EXCEPT ![t] = NoTask]
              /\ UNCHANGED <<gate_vars, buffer_vars, cleanup_vars, pool_queue, waiter,
                             dispatched, sent, ctl_vars>>
-----------------------------------------------------------------------------
(* check_waiting_requests()                                                *)

(* request_timeout_ms has passed since the entry was queued.               *)
Age(i) == /\ i \in DOMAIN m_waiting_requests
          /\ ~m_waiting_requests[i].aged
          /\ m_waiting_requests' = [m_waiting_requests EXCEPT ![i].aged = TRUE]
          /\ UNCHANGED <<waiter, pool_queue>>

(* The loop condition reads the run marker and then, unlocked, the size.   *)
WaiterTest == /\ waiter.pc = "test"
              /\ waiter' = IF m_run_marker \/ m_waiting_requests # <<>>
                             THEN [pc |-> "lock"] ELSE Off
              /\ UNCHANGED <<m_waiting_requests, pool_queue>>

WaiterLock == /\ waiter.pc = "lock"
              /\ waiter' = [pc |-> "scan", i |-> 1,
                            newest |-> IF lb = {} THEN 0 ELSE Max(lb)]
              /\ UNCHANGED <<m_waiting_requests, pool_queue>>

(* Faulty variant: pop_back() without the swap.                            *)
PopLast(s, i) == SubSeq(s, 1, Len(s) - 1)

(* std::swap with back(), pop_back().                                      *)
SwapOut(s, i) == SubSeq([s EXCEPT ![i] = s[Len(s)]], 1, Len(s) - 1)

Entry == m_waiting_requests[waiter.i]
Scanning == waiter.pc = "scan" /\ waiter.i <= Len(m_waiting_requests)
DataArrived == WindowEnd[Entry.req] < waiter.newest

Reissue(partial) == /\ Post(Entry.req, partial)
                    /\ m_waiting_requests' = SwapOut(m_waiting_requests, waiter.i)
                    /\ UNCHANGED waiter

(* Faulty variant: a timed-out request is tried again as it was.           *)
WaiterRetry == Scanning /\ ~DataArrived /\ Entry.aged /\ Reissue(Entry.partial)

WaiterServe == Scanning /\ DataArrived /\ Reissue(Entry.partial)
WaiterTimeout == Scanning /\ ~DataArrived /\ Entry.aged /\ Reissue(TRUE)
WaiterSkip == /\ Scanning /\ ~DataArrived /\ ~Entry.aged
              /\ waiter' = [waiter EXCEPT !.i = @ + 1]
              /\ UNCHANGED <<m_waiting_requests, pool_queue>>

WaiterUnlock == /\ waiter.pc = "scan" /\ ~Scanning
                /\ waiter' = [pc |-> "test"]
                /\ UNCHANGED <<m_waiting_requests, pool_queue>>

WaiterStep == \/ WaiterTest \/ WaiterLock \/ WaiterServe \/ WaiterTimeout \/ WaiterSkip
              \/ WaiterUnlock

Waiter == /\ WaiterStep \/ \E i \in DOMAIN m_waiting_requests : Age(i)
          /\ UNCHANGED <<gate_vars, buffer_vars, cleanup_vars, task, dispatched, sent, ctl_vars>>
-----------------------------------------------------------------------------
Wakeup == /\ \E t \in Readers \cup {Cleaner} : SpuriousWakeup(t)
          /\ UNCHANGED <<buffer_vars, cleanup_vars, pool_queue, task, waiting_vars,
                         dispatched, sent, ctl_vars>>

(* All runs are over.                                                      *)
Terminated == ctl = "idle" /\ runs = MaxRuns /\ UNCHANGED vars

PoolStep(t) == \/ TakeTask(t) \/ PassGate(t) \/ Inspect(t) \/ Extract(t) \/ Conclude(t)
               \/ Send(t) \/ Requeue(t)

RHNext == \/ Consume \/ \E r \in Requests : Dispatch(r)
          \/ Start \/ Stop \/ StopWait \/ Flush
          \/ Cleanup
          \/ \E t \in Readers : PoolStep(t)
          \/ Waiter \/ Wakeup \/ Terminated

(* The threads keep running.  Entering the gate and queueing a request     *)
(* again need a mutex another thread takes over and over; that thread      *)
(* sleeps 50 ms or 10 ms without it in every round.  The environment       *)
(* (data, requests, commands) owes nothing.                                *)
RHFairness == /\ \A t \in Readers : /\ SF_vars(Enter(t) /\ PassGate(t))
                                    /\ WF_vars(PassGate(t))
                                    /\ WF_vars(TakeTask(t))
                                    /\ WF_vars(Inspect(t) \/ Extract(t) \/ Conclude(t) \/ Send(t))
                                    /\ SF_vars(Requeue(t))
              /\ WF_vars(Cleanup)
              /\ WF_vars(WaiterStep /\ Waiter)
              /\ \A i \in 1..Cardinality(Requests) : WF_vars(Age(i) /\ Waiter)
              /\ WF_vars(StopWait) /\ WF_vars(Flush)

RHSpec == RHInit /\ [][RHNext]_vars /\ RHFairness
-----------------------------------------------------------------------------
Items == [req : Requests, partial : BOOLEAN]
Codes == {"kUnknown", "kFound", "kNotFound", "kNotYet"}
Bits == SUBSET {"kDataNotFound", "kIncomplete"}

Tasks == {NoTask} \cup
         [phase : {"inspect", "extract", "conclude", "reply"}, req : Requests, partial : BOOLEAN,
          cat : {"none", "empty", "old", "gone", "notyet"} \cup Extracting,
          code : Codes, bits : Bits, pieces : SUBSET (1..MaxTs)]
WaitingItems == [req : Requests, partial : BOOLEAN, aged : BOOLEAN]
Answers == [code : Codes \cup {"send_failed"}, bits : Bits, pieces : SUBSET (1..MaxTs)]

BufferTypeOK == /\ lb \subseteq 1..MaxTs /\ written \subseteq 1..MaxTs
                /\ next_ts \in 1..MaxTs + 1
PoolTypeOK == pool_queue \in Seq(Items) /\ task \in [Readers -> Tasks]
WaitingTypeOK == /\ m_waiting_requests \in Seq(WaitingItems)
                 /\ waiter \in [pc : {"off", "test", "lock"}]
                              \cup [pc : {"scan"}, i : Nat \ {0}, newest : 0..MaxTs]
AnswerTypeOK == dispatched \subseteq Requests /\ sent \in [Requests -> Seq(Answers)]
ControlTypeOK == /\ m_run_marker \in BOOLEAN /\ runs \in 0..MaxRuns
                 /\ ctl \in {"idle", "running", "join_cleanup", "join_waiter", "join_pool",
                              "join_consumer"}
                 /\ pops_left \in Nat /\ periodic \in {"off", "test", "check"}

(* The type invariant of the request handler.                              *)
RHTypeOK == GateTypeOK /\ BufferTypeOK /\ PoolTypeOK /\ WaitingTypeOK /\ AnswerTypeOK /\ ControlTypeOK

(* The pieces data_request() collected are pointers into the buffer: until *)
(* the fragment is built from them, none of their elements may be popped   *)
(* by the cleanup thread or by the flush of a stop.                        *)
PiecesAreLive ==
  \A t \in Readers : (task[t].phase = "conclude" /\ reader[t] = "inside") => task[t].pieces \subseteq lb

Copies(r) == Len(sent[r])
             + Cardinality({i \in DOMAIN pool_queue : pool_queue[i].req = r})
             + Cardinality({i \in DOMAIN m_waiting_requests : m_waiting_requests[i].req = r})
             + Cardinality({t \in Readers : task[t] # NoTask /\ task[t].req = r})

(* A request that was received is in exactly one place: posted, worked on, *)
(* waiting or answered.  The swap-and-pop of the scan, the re-queueing and *)
(* the joins of stop() neither lose nor double one, over several runs.     *)
EachRequestOnce == \A r \in Requests : Copies(r) = IF r \in dispatched THEN 1 ELSE 0

(* A fragment sent as found and without error bits holds every element of  *)
(* its window that the latency buffer ever accepted, although the window   *)
(* was compared with the buffer some steps before the data was collected.  *)
CleanFragmentIsComplete ==
  \A r \in Requests : \A k \in DOMAIN sent[r] :
    LET a == sent[r][k]
    IN (a.code = "kFound" /\ a.bits = {}) => a.pieces = InWindow(written, r)

(* When stop() has joined the pool, nothing of the request handler is left *)
(* that could look at the buffer ReadoutModel::stop is about to flush.     *)
QuietWhenFlushed ==
  ctl \in {"idle", "join_consumer"} =>
    /\ cleaner = "idle" /\ Counted = {}
    /\ pool_queue = <<>> /\ waiter = Off
    /\ \A t \in Readers : task[t] = NoTask

(* stop() returns: the waiting requests drain, by data or by timeout.      *)
StopCompletes == ctl \notin {"idle", "running"} ~> ctl = "idle"

(* A request is answered (or its answer lost by a failed send) unless its  *)
(* window comes to begin at the front of the buffer or the run ends.       *)
RequestResolved ==
  \A r \in Requests :
    r \in dispatched ~> \/ sent[r] # <<>>
                        \/ lb # {} /\ Min(lb) = WindowBegin[r]
                        \/ ctl = "idle"
============================================================================
