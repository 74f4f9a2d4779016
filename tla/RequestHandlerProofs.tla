------------------------ MODULE RequestHandlerProofs ------------------------
(***************************************************************************)
(* Proofs for RequestHandler, for any number of requests, pool threads,    *)
(* elements and runs.  The invariant has one part for each thing a task    *)
(* relies on: the gate (CleanupGateProofs), the order in which the buffer  *)
(* loses its elements, the order of the joins of stop(), the place of a    *)
(* pool thread in its task, and what a task has learned so far.            *)
(***************************************************************************)
EXTENDS RequestHandler, CleanupGateProofs, SequenceTheorems, FunctionTheorems

(* The if/else chain of data_request() has no case left over.              *)
LEMMA CategoryCovers ==
  ASSUME NEW oldest \in Nat, NEW newest \in Nat, NEW begin \in Nat, NEW end \in Nat,
         NEW partial \in BOOLEAN
  PROVE  LET c == Category(oldest, newest, begin, end, partial)
         IN /\ c \in {"full", "partial", "old", "gone", "incomplete", "notyet"}
            /\ c = "full" => oldest <= begin /\ end <= newest
            /\ c = "partial" => begin < oldest
  BY DEF Category
-----------------------------------------------------------------------------
(* The latency buffer is what is left of the accepted elements, from some  *)
(* point on: elements arrive at the back in the order of their timestamps  *)
(* and leave at the front.                                                 *)
BufferInv == /\ lb \subseteq written
             /\ \A x \in written : x < next_ts
             /\ \A x \in written \ lb, y \in lb : x < y

(* The cleanup thread is in cleanup_check() only inside its loop, and each *)
(* wait of stop() leaves one of the threads behind it at rest.             *)
StopInv == /\ cleaner # "idle" => periodic = "check"
           /\ ctl \in {"join_waiter", "join_pool", "join_consumer", "idle"} => periodic = "off"
           /\ ctl \in {"join_pool", "join_consumer", "idle"} => waiter = Off
           /\ ctl \in {"join_consumer", "idle"} =>
                pool_queue = <<>> /\ \A t \in Readers : task[t] = NoTask

(* Where a pool thread is in the gate when it works on its task.           *)
PlaceInv ==
  \A t \in Readers :
    /\ reader[t] \in {"entering", "entered"} => task[t].phase = "inspect"
    /\ reader[t] = "inside" => task[t] # NoTask
    /\ reader[t] = "left" => task[t].phase = "reply"
    /\ reader[t] = "out" => task[t].phase \in {"none", "reply"}

(* The buffer's share of the window is all that was ever accepted, and no  *)
(* element of the window can still arrive.                                 *)
CompleteIn(W, next, a, r) ==
  (a.code = "kFound" /\ a.bits = {}) => a.pieces = InWindow(W, r) /\ WindowEnd[r] < next
Complete(a, r) == CompleteIn(written, next_ts, a, r)

(* What the comparison with the front and the back of the buffer found     *)
(* still holds when the pieces are collected, although the consumer goes   *)
(* on writing: the front cannot move, the back moves away from the window. *)
StillFull(r) == (\E x \in lb : x <= WindowBegin[r]) /\ WindowEnd[r] < next_ts
StillCutOff(r) == (\A x \in lb : WindowBegin[r] < x) /\ WindowBegin[r] < next_ts

Learned(t) ==
  /\ task[t].phase = "extract" =>
       /\ task[t].cat \in Extracting
       /\ task[t].cat = "full" => StillFull(task[t].req)
       /\ task[t].cat = "partial" => StillCutOff(task[t].req)
  /\ task[t].phase = "conclude" => task[t].pieces \subseteq lb
  /\ task[t].phase \in {"conclude", "reply"} => Complete(task[t], task[t].req)

LearnedInv == \A t \in Readers : Learned(t)

AnswerInv == \A r \in Requests : \A k \in DOMAIN sent[r] : Complete(sent[r][k], r)

RHInv == /\ GateInv /\ RHTypeOK
         /\ BufferInv /\ StopInv /\ PlaceInv /\ LearnedInv /\ AnswerInv

LEMMA RHInvInit == RHInit => RHInv
<1> SUFFICES ASSUME RHInit PROVE RHInv
  OBVIOUS
<1> USE DEF RHInit
<1>1. GateInv /\ GateTypeOK
  BY GateInvInit DEF GateInv
<1>2. BufferTypeOK
  BY BufferAssumption DEF BufferTypeOK
<1>3. ControlTypeOK
  <2>1. m_run_marker \in BOOLEAN
    BY Zenon
  <2> QED
    BY <2>1, BufferAssumption DEF ControlTypeOK
<1>4. PoolTypeOK /\ WaitingTypeOK
  BY EmptySeq DEF PoolTypeOK, Tasks, WaitingTypeOK, Off
<1>5. AnswerTypeOK
  BY EmptySeq DEF AnswerTypeOK
<1>6. BufferInv /\ StopInv
  BY DEF BufferInv, StopInv, GateInit
<1>7. PlaceInv /\ LearnedInv
  BY DEF PlaceInv, LearnedInv, Learned, NoTask, GateInit
<1>8. AnswerInv
  BY DEF AnswerInv
<1> QED
  BY <1>1, <1>2, <1>3, <1>4, <1>5, <1>6, <1>7, <1>8 DEF RHInv, RHTypeOK
-----------------------------------------------------------------------------
(* Which of the program's steps change what.                               *)

TaskStep(t) == Inspect(t) \/ Extract(t) \/ Conclude(t)
Dispatching == \E r \in Requests : Dispatch(r)
Taking == \E t \in Readers : TakeTask(t)
Sending == \E t \in Readers : Send(t)

(* The request handler uses the gate as CleanupGate says.                  *)
LEMMA UsesGate == [RHNext]_vars => [GateNext]_gate_vars
<1> SUFFICES ASSUME [RHNext]_vars PROVE [GateNext]_gate_vars
  OBVIOUS
<1>1. CASE Consume \/ (\E r \in Requests : Dispatch(r)) \/ Start \/ Stop \/ StopWait \/ Flush
  BY <1>1 DEF Consume, Dispatch, Start, Stop, StopWait, Flush
<1>2. CASE Cleanup
  BY <1>2 DEF Cleanup, PeriodicTest, CheckNothing, CheckOver, WakeCleaner, FinishCleanup,
              PopFront, GateNext, CleanerStep
<1>3. ASSUME NEW t \in Readers, PoolStep(t) PROVE [GateNext]_gate_vars
  BY <1>3 DEF PoolStep, TakeTask, PassGate, Inspect, Extract, Conclude, Send, Requeue,
              GateNext, ReaderStep
<1>4. CASE Waiter \/ Wakeup \/ Terminated \/ UNCHANGED vars
  BY <1>4 DEF Waiter, Wakeup, Terminated, vars, GateNext
<1> QED
  BY <1>1, <1>2, <1>3, <1>4 DEF RHNext

LEMMA ChangesBuffer == [RHNext]_vars => Consume \/ Flush \/ PopFront \/ UNCHANGED buffer_vars
<1> SUFFICES ASSUME [RHNext]_vars PROVE Consume \/ Flush \/ PopFront \/ UNCHANGED buffer_vars
  OBVIOUS
<1>1. ASSUME NEW t \in Readers, PoolStep(t) PROVE UNCHANGED buffer_vars
  BY <1>1 DEF PoolStep, TakeTask, PassGate, Inspect, Extract, Conclude, Send, Requeue
<1> QED
  BY <1>1 DEF RHNext, Dispatch, Start, Stop, StopWait, Cleanup, Waiter, Wakeup, Terminated, vars

LEMMA ChangesControl ==
  [RHNext]_vars => Start \/ Stop \/ StopWait \/ Flush \/ UNCHANGED ctl_vars
<1> SUFFICES ASSUME [RHNext]_vars PROVE Start \/ Stop \/ StopWait \/ Flush \/ UNCHANGED ctl_vars
  OBVIOUS
<1>1. ASSUME NEW t \in Readers, PoolStep(t) PROVE UNCHANGED ctl_vars
  BY <1>1 DEF PoolStep, TakeTask, PassGate, Inspect, Extract, Conclude, Send, Requeue
<1> QED
  BY <1>1 DEF RHNext, Consume, Dispatch, Cleanup, PopFront, Waiter, Wakeup, Terminated, vars

LEMMA ChangesCleanup == [RHNext]_vars => Start \/ Cleanup \/ UNCHANGED <<cleanup_vars, cleaner>>
<1> SUFFICES ASSUME [RHNext]_vars PROVE Start \/ Cleanup \/ UNCHANGED <<cleanup_vars, cleaner>>
  OBVIOUS
<1>1. ASSUME NEW t \in Readers, PoolStep(t) PROVE UNCHANGED <<cleanup_vars, cleaner>>
  BY <1>1 DEF PoolStep, TakeTask, PassGate, Inspect, Extract, Conclude, Send, Requeue, gate_vars,
              Arrive, Enter, Block, NotifyEntered, Leave, NotifyLeft
<1> QED
  BY <1>1 DEF RHNext, Consume, Dispatch, Stop, StopWait, Flush, Waiter, Wakeup, SpuriousWakeup,
              Terminated, vars, gate_vars

LEMMA ChangesQueue ==
  [RHNext]_vars => Dispatching \/ Taking \/ Waiter \/ UNCHANGED pool_queue
<1> SUFFICES ASSUME [RHNext]_vars PROVE Dispatching \/ Taking \/ Waiter \/ UNCHANGED pool_queue
  OBVIOUS
<1>1. ASSUME NEW t \in Readers, PoolStep(t) PROVE Taking \/ UNCHANGED pool_queue
  BY <1>1 DEF PoolStep, PassGate, Inspect, Extract, Conclude, Send, Requeue, Taking
<1>2. ASSUME NEW r \in Requests, Dispatch(r) PROVE Dispatching
  BY <1>2 DEF Dispatching
<1> QED
  BY <1>1, <1>2 DEF RHNext, Consume, Start, Stop, StopWait, Flush, Cleanup, PopFront, Wakeup, Terminated, vars

LEMMA ChangesTask ==
  [RHNext]_vars => \/ \E t \in Readers : TakeTask(t) \/ TaskStep(t) \/ Send(t) \/ Requeue(t)
                  \/ UNCHANGED task
<1>1. ASSUME NEW t \in Readers, PoolStep(t)
      PROVE  TakeTask(t) \/ TaskStep(t) \/ Send(t) \/ Requeue(t) \/ UNCHANGED task
  BY <1>1 DEF PoolStep, TaskStep, PassGate
<1> QED
  BY <1>1 DEF RHNext, Consume, Dispatch, Start, Stop, StopWait, Flush, Cleanup, PopFront,
              Waiter, Wakeup, Terminated, vars

LEMMA ChangesWaiting ==
  [RHNext]_vars => \/ \E t \in Readers : Requeue(t)
                  \/ Start \/ Waiter \/ UNCHANGED waiting_vars
<1>1. ASSUME NEW t \in Readers, PoolStep(t) PROVE Requeue(t) \/ UNCHANGED waiting_vars
  BY <1>1 DEF PoolStep, TakeTask, PassGate, Inspect, Extract, Conclude, Send
<1> QED
  BY <1>1 DEF RHNext, Consume, Dispatch, Stop, StopWait, Flush, Cleanup, PopFront,
              Wakeup, Terminated, vars

LEMMA ChangesAnswers == [RHNext]_vars => Dispatching \/ Sending \/ UNCHANGED <<dispatched, sent>>
<1> SUFFICES ASSUME [RHNext]_vars PROVE Dispatching \/ Sending \/ UNCHANGED <<dispatched, sent>>
  OBVIOUS
<1>1. ASSUME NEW t \in Readers, PoolStep(t) PROVE Sending \/ UNCHANGED <<dispatched, sent>>
  BY <1>1 DEF PoolStep, TakeTask, PassGate, Inspect, Extract, Conclude, Requeue, Sending
<1>2. ASSUME NEW r \in Requests, Dispatch(r) PROVE Dispatching
  BY <1>2 DEF Dispatching
<1> QED
  BY <1>1, <1>2 DEF RHNext, Consume, Start, Stop, StopWait, Flush, Cleanup, PopFront, Waiter,
                    Wakeup, Terminated, vars
-----------------------------------------------------------------------------
(* The parts of the invariant, step by step.                               *)

LEMMA BufferStep == ASSUME RHInv, [RHNext]_vars PROVE BufferTypeOK' /\ BufferInv'
<1> USE BufferAssumption DEF RHInv, RHTypeOK, BufferTypeOK, BufferInv
<1>1. CASE Consume
  <2>1. next_ts \in 1..MaxTs /\ next_ts' = next_ts + 1
    BY <1>1 DEF Consume
  <2>2. CASE lb' = lb /\ written' = written
    BY <2>1, <2>2
  <2>3. CASE lb' = lb \cup {next_ts} /\ written' = written \cup {next_ts}
    <3>1. lb' \subseteq 1..MaxTs /\ written' \subseteq 1..MaxTs /\ next_ts' \in 1..MaxTs + 1
      BY <2>1, <2>3
    <3>2. \A x \in written' : x < next_ts'
      BY <2>1, <2>3
    <3>3. lb' \subseteq written' /\ \A x \in written' \ lb', y \in lb' : x < y
      BY <2>3
    <3> QED
      BY <3>1, <3>2, <3>3
  <2> QED
    BY <1>1, <2>2, <2>3 DEF Consume
<1>2. CASE Flush
  BY <1>2 DEF Flush
<1>3. CASE PopFront
  <2>1. lb' = lb \ {Min(lb)} /\ UNCHANGED <<next_ts, written>>
    BY <1>3 DEF PopFront
  <2>2. CASE lb = {}
    BY <2>1, <2>2
  <2>3. CASE lb # {}
    <3>1. lb \in SUBSET Nat
      OBVIOUS
    <3>2. Min(lb) \in lb /\ \A y \in lb : Min(lb) <= y
      BY <2>3, <3>1, MinOfSet
    <3>3. \A x \in written' \ lb', y \in lb' : x < y
      <4> SUFFICES ASSUME NEW x \in written' \ lb', NEW y \in lb' PROVE x < y
        OBVIOUS
      <4>1. y \in lb /\ y # Min(lb) /\ x \in written /\ (x \notin lb \/ x = Min(lb))
        BY <2>1
      <4>2. x \in Nat /\ y \in Nat
        BY <4>1
      <4> QED
        BY <3>2, <4>1, <4>2
    <3> QED
      BY <2>1, <3>3
  <2> QED
    BY <2>2, <2>3
<1>4. CASE UNCHANGED buffer_vars
  BY <1>4 DEF buffer_vars
<1> QED
  BY <1>1, <1>2, <1>3, <1>4, ChangesBuffer

LEMMA BufferIsFinite ==
  ASSUME BufferTypeOK PROVE IsFiniteSet(lb) /\ Cardinality(lb) \in Nat /\ ToPop \in Nat
<1>1. IsFiniteSet(1..MaxTs)
  BY BufferAssumption, FS_Interval
<1>2. IsFiniteSet(lb) /\ Cardinality(lb) \in Nat
  BY <1>1, FS_Subset, FS_CardinalityType DEF BufferTypeOK
<1>3. Cardinality(lb) * PopNum \in Nat /\ PopDen \in Nat \ {0}
  BY <1>2, BufferAssumption
<1>4. \A a \in Nat, b \in Nat \ {0} : a \div b \in Nat
  OBVIOUS
<1> QED
  BY <1>2, <1>3, <1>4 DEF ToPop

LEMMA ControlStep == ASSUME RHInv, [RHNext]_vars PROVE ControlTypeOK'
<1> USE DEF RHInv, RHTypeOK, ControlTypeOK
<1>1. m_run_marker' \in BOOLEAN
  BY ChangesControl, Zenon DEF Start, Stop, StopWait, Flush, ctl_vars
<1>2. /\ runs' \in 0..MaxRuns
      /\ ctl' \in {"idle", "running", "join_cleanup", "join_waiter", "join_pool", "join_consumer"}
  BY ChangesControl, BufferAssumption
  DEF Start, Stop, StopWait, JoinCleanup, JoinWaiter, JoinPool, Flush, ctl_vars
<1>3. pops_left' \in Nat /\ periodic' \in {"off", "test", "check"}
  BY ChangesCleanup, BufferIsFinite
  DEF Start, Cleanup, PeriodicTest, CheckNothing, CheckOver, WakeCleaner, FinishCleanup, PopFront,
      StartPopping, cleanup_vars
<1> QED
  BY <1>1, <1>2, <1>3

(* A pool thread's task has all its fields once there is one.              *)
LEMMA TaskHasFields ==
  ASSUME PoolTypeOK, NEW t \in Readers, task[t].phase # "none"
  PROVE  task[t] \in Tasks \ {NoTask}
  BY DEF PoolTypeOK, Tasks, NoTask

LEMMA CategoryOfTask ==
  ASSUME BufferTypeOK, NEW r \in Requests, NEW partial \in BOOLEAN, lb # {}
  PROVE  LET c == Category(Min(lb), Max(lb), WindowBegin[r], WindowEnd[r], partial)
         IN /\ c \in {"full", "partial", "old", "gone", "incomplete", "notyet"}
            /\ c = "full" => Min(lb) <= WindowBegin[r] /\ WindowEnd[r] <= Max(lb)
            /\ c = "partial" => WindowBegin[r] < Min(lb)
<1>1. Min(lb) \in Nat /\ Max(lb) \in Nat
  <2>1. lb \in SUBSET Nat /\ lb \in SUBSET (1..MaxTs) /\ MaxTs \in Nat
    BY BufferAssumption DEF BufferTypeOK
  <2>2. Min(lb) \in lb /\ Max(lb) \in lb
    BY <2>1, MinOfSet, MaxOfSet
  <2> QED
    BY <2>1, <2>2
<1>2. WindowBegin[r] \in Nat /\ WindowEnd[r] \in Nat
  BY RequestAssumption
<1> QED
  BY <1>1, <1>2, CategoryCovers

(* Each step of data_request() gives its task a well-formed result.        *)
LEMMA ResultType ==
  ASSUME PoolTypeOK, NEW t \in Readers, task[t].phase # "none",
         NEW phase \in {"inspect", "extract", "conclude", "reply"},
         NEW cat \in {"none", "empty", "old", "gone", "notyet"} \cup Extracting,
         NEW code \in Codes, NEW bits \in Bits, NEW pieces \in SUBSET (1..MaxTs)
  PROVE  WithResult(t, phase, cat, code, bits, pieces) \in Tasks
  BY DEF PoolTypeOK, Tasks, NoTask, WithResult, Request

LEMMA TaskStepType ==
  ASSUME RHInv, NEW t \in Readers, TaskStep(t)
  PROVE  \E k \in Tasks : task' = [task EXCEPT ![t] = k]
<1> USE DEF RHInv, RHTypeOK
<1>1. CASE Inspect(t)
  <2> DEFINE r == Request(t)
             cat == IF lb = {} THEN "empty"
                    ELSE Category(Min(lb), Max(lb), WindowBegin[r], WindowEnd[r], task[t].partial)
  <2>1. task[t].phase = "inspect" /\ task[t] \in Tasks \ {NoTask}
    BY <1>1, TaskHasFields DEF Inspect
  <2>2. r \in Requests /\ task[t].partial \in BOOLEAN
    BY <2>1 DEF Tasks, Request
  <2>3. cat \in {"none", "empty", "old", "gone", "notyet"} \cup Extracting
    BY <2>2, CategoryOfTask DEF Extracting
  <2> HIDE DEF r
  <2>4. PICK phase \in {"extract", "conclude"}, code \in Codes, bits \in Bits :
          task' = [task EXCEPT ![t] = WithResult(t, phase, cat, code, bits, {})]
    BY <1>1 DEF Inspect, Codes, Bits, r
  <2> HIDE DEF cat
  <2>5. WithResult(t, phase, cat, code, bits, {}) \in Tasks
    BY <2>1, <2>3, <2>4, ResultType
  <2> QED
    BY <2>4, <2>5
<1>2. CASE Extract(t)
  <2>1. task[t].phase = "extract" /\ task[t] \in Tasks \ {NoTask}
    BY <1>2, TaskHasFields DEF Extract
  <2>2. PICK code \in Codes, bits \in Bits, pieces \in SUBSET (1..MaxTs) :
          task' = [task EXCEPT ![t] = WithResult(t, "conclude", task[t].cat, code, bits, pieces)]
    BY <1>2 DEF Extract, Codes, Bits, InWindow, BufferTypeOK
  <2>3. WithResult(t, "conclude", task[t].cat, code, bits, pieces) \in Tasks
    BY <2>1, <2>2, ResultType DEF Tasks
  <2> QED
    BY <2>2, <2>3
<1>3. CASE Conclude(t)
  <2>1. task[t].phase = "conclude" /\ task[t] \in Tasks \ {NoTask}
    BY <1>3, TaskHasFields DEF Conclude
  <2>2. PICK code \in Codes, bits \in Bits, pieces \in SUBSET (1..MaxTs) :
          task' = [task EXCEPT ![t] = WithResult(t, "reply", task[t].cat, code, bits, pieces)]
    BY <1>3, <2>1 DEF Conclude, Codes, Bits, Tasks
  <2>3. WithResult(t, "reply", task[t].cat, code, bits, pieces) \in Tasks
    BY <2>1, <2>2, ResultType DEF Tasks
  <2> QED
    BY <2>2, <2>3
<1> QED
  BY <1>1, <1>2, <1>3 DEF TaskStep

(* The swap with the last entry and the pop_back() of the scan.            *)
LEMMA SwapOutProperties ==
  ASSUME NEW S, NEW s \in Seq(S), NEW i \in 1..Len(s)
  PROVE  /\ SwapOut(s, i) \in Seq(S) /\ Len(SwapOut(s, i)) = Len(s) - 1
         /\ \A k \in 1..Len(s) - 1 : SwapOut(s, i)[k] = IF k = i THEN s[Len(s)] ELSE s[k]
<1> DEFINE u == [s EXCEPT ![i] = s[Len(s)]]
<1>1. Len(s) \in Nat \ {0} /\ s[Len(s)] \in S
  BY LenProperties, ElementOfSeq
<1>2. u \in Seq(S) /\ Len(u) = Len(s) /\ \A k \in 1..Len(s) : u[k] = IF k = i THEN s[Len(s)] ELSE s[k]
  BY <1>1, ExceptSeq
<1> HIDE DEF u
<1>3. SubSeq(u, 1, Len(s) - 1) \in Seq(S) /\ Len(SubSeq(u, 1, Len(s) - 1)) = Len(s) - 1
      /\ \A k \in 1..Len(s) - 1 : SubSeq(u, 1, Len(s) - 1)[k] = u[k]
  BY <1>1, <1>2
<1> QED
  BY <1>1, <1>2, <1>3 DEF SwapOut, u

(* The scan looks at an entry that exists.                                 *)
LEMMA EntryType ==
  ASSUME WaitingTypeOK, Scanning
  PROVE  waiter.i \in 1..Len(m_waiting_requests) /\ Entry \in WaitingItems
<1>1. waiter.i \in 1..Len(m_waiting_requests)
  BY LenProperties DEF WaitingTypeOK, Scanning
<1> QED
  BY <1>1, ElementOfSeq DEF WaitingTypeOK, Entry

LEMMA PoolTypeStep == ASSUME RHInv, [RHNext]_vars PROVE PoolTypeOK'
<1> USE DEF RHInv, RHTypeOK
<1>1. pool_queue' \in Seq(Items)
  <2>1. ASSUME NEW r \in Requests, Dispatch(r) PROVE pool_queue' \in Seq(Items)
    BY <2>1, RequestAssumption DEF Dispatch, Post, PoolTypeOK, Items
  <2>2. ASSUME NEW t \in Readers, TakeTask(t) PROVE pool_queue' \in Seq(Items)
    BY <2>2 DEF TakeTask, PoolTypeOK
  <2>3. ASSUME Waiter PROVE pool_queue' \in Seq(Items)
    <3>1. ASSUME Scanning, NEW p \in BOOLEAN, Reissue(p) PROVE pool_queue' \in Seq(Items)
      BY <3>1, EntryType DEF Reissue, Post, PoolTypeOK, Items, WaitingItems
    <3>2. Scanning => Entry.partial \in BOOLEAN
      BY EntryType DEF WaitingItems
    <3> QED
      BY <2>3, <3>1, <3>2 DEF Waiter, WaiterStep, WaiterTest, WaiterLock, WaiterServe, WaiterTimeout,
                              WaiterSkip, WaiterUnlock, Age, PoolTypeOK
  <2> QED
    BY <2>1, <2>2, <2>3, ChangesQueue DEF Dispatching, Taking, PoolTypeOK
<1>2. task' \in [Readers -> Tasks]
  <2>1. ASSUME NEW t \in Readers, TakeTask(t) PROVE task' \in [Readers -> Tasks]
    <3>1. Head(pool_queue) \in Items
      BY <2>1 DEF TakeTask, PoolTypeOK
    <3>2. NewTask(Head(pool_queue)) \in Tasks
      BY <3>1 DEF NewTask, Items, Tasks, Codes, Bits
    <3> QED
      BY <2>1, <3>2 DEF TakeTask, PoolTypeOK
  <2>2. ASSUME NEW t \in Readers, TaskStep(t) PROVE task' \in [Readers -> Tasks]
    BY <2>2, TaskStepType DEF PoolTypeOK
  <2>3. ASSUME NEW t \in Readers, Send(t) \/ Requeue(t) PROVE task' \in [Readers -> Tasks]
    BY <2>3 DEF Send, Requeue, PoolTypeOK, Tasks
  <2> QED
    BY <2>1, <2>2, <2>3, ChangesTask DEF PoolTypeOK
<1> QED
  BY <1>1, <1>2 DEF PoolTypeOK

LEMMA WaitingTypeStep == ASSUME RHInv, [RHNext]_vars PROVE WaitingTypeOK'
<1> USE DEF RHInv, RHTypeOK
<1>1. m_waiting_requests' \in Seq(WaitingItems)
  <2>1. ASSUME NEW t \in Readers, Requeue(t) PROVE m_waiting_requests' \in Seq(WaitingItems)
    <3>1. [req |-> Request(t), partial |-> task[t].partial, aged |-> FALSE] \in WaitingItems
      BY <2>1, TaskHasFields DEF Requeue, Tasks, Request, WaitingItems
    <3> QED
      BY <2>1, <3>1 DEF Requeue, WaitingTypeOK
  <2>2. ASSUME Waiter PROVE m_waiting_requests' \in Seq(WaitingItems)
    <3>1. ASSUME Scanning, NEW p, Reissue(p) PROVE m_waiting_requests' \in Seq(WaitingItems)
      BY <3>1, EntryType, SwapOutProperties DEF Reissue, WaitingTypeOK
    <3>2. ASSUME NEW i \in DOMAIN m_waiting_requests, Age(i)
          PROVE  m_waiting_requests' \in Seq(WaitingItems)
      <4>1. i \in 1..Len(m_waiting_requests) /\ m_waiting_requests[i] \in WaitingItems
        BY LenProperties, ElementOfSeq DEF WaitingTypeOK
      <4>2. [m_waiting_requests[i] EXCEPT !.aged = TRUE] \in WaitingItems
        BY <4>1 DEF WaitingItems
      <4>3. m_waiting_requests' = [m_waiting_requests EXCEPT ![i] = [m_waiting_requests[i] EXCEPT !.aged = TRUE]]
        BY <3>2 DEF Age
      <4> QED
        BY <4>1, <4>2, <4>3, ExceptSeq DEF WaitingTypeOK
    <3> QED
      BY <2>2, <3>1, <3>2 DEF Waiter, WaiterStep, WaiterTest, WaiterLock, WaiterServe, WaiterTimeout,
                              WaiterSkip, WaiterUnlock, WaitingTypeOK
  <2> QED
    BY <2>1, <2>2, ChangesWaiting DEF Start, WaitingTypeOK, waiting_vars
<1> DEFINE Places == [pc : {"off", "test", "lock"}] \cup [pc : {"scan"}, i : Nat \ {0}, newest : 0..MaxTs]
<1>2. waiter' \in Places
  <2>1. ASSUME WaiterLock PROVE waiter' \in Places
    <3>1. lb # {} => Max(lb) \in 1..MaxTs
      BY MaxOfSet, BufferAssumption DEF BufferTypeOK
    <3> QED
      BY <2>1, <3>1, BufferAssumption DEF WaiterLock
  <2>2. ASSUME WaiterSkip PROVE waiter' \in Places
    <3>1. waiter \in [pc : {"scan"}, i : Nat \ {0}, newest : 0..MaxTs]
      BY <2>2 DEF WaiterSkip, Scanning, WaitingTypeOK
    <3> QED
      BY <2>2, <3>1 DEF WaiterSkip
  <2>4. waiter \in Places /\ [pc |-> "off"] \in Places /\ [pc |-> "test"] \in Places
        /\ [pc |-> "lock"] \in Places
    BY DEF WaitingTypeOK
  <2> HIDE DEF Places
  <2>3. ASSUME Waiter PROVE waiter' \in Places
    BY <2>3, <2>1, <2>2, <2>4 DEF Waiter, WaiterStep, WaiterTest, WaiterServe, WaiterTimeout, Reissue,
                                  WaiterUnlock, Age, Off
  <2> QED
    BY <2>3, <2>4, ChangesWaiting DEF Start, Requeue, waiting_vars
<1> QED
  BY <1>1, <1>2 DEF WaitingTypeOK

LEMMA AnswerTypeStep == ASSUME RHInv, [RHNext]_vars PROVE AnswerTypeOK'
<1> USE DEF RHInv, RHTypeOK
<1>1. ASSUME NEW r \in Requests, Dispatch(r) PROVE AnswerTypeOK'
  BY <1>1 DEF Dispatch, AnswerTypeOK
<1>2. ASSUME NEW t \in Readers, Send(t) PROVE AnswerTypeOK'
  <2>1. task[t] \in Tasks \ {NoTask}
    BY <1>2, TaskHasFields DEF Send, Answered
  <2>2. /\ [code |-> task[t].code, bits |-> task[t].bits, pieces |-> task[t].pieces] \in Answers
        /\ [code |-> "send_failed", bits |-> {}, pieces |-> {}] \in Answers
        /\ Request(t) \in Requests
    BY <2>1 DEF Tasks, Answers, Bits, Request
  <2>3. PICK a \in Answers : sent' = [sent EXCEPT ![Request(t)] = Append(@, a)]
    BY <1>2, <2>2 DEF Send
  <2> QED
    BY <1>2, <2>2, <2>3 DEF Send, AnswerTypeOK
<1> QED
  BY <1>1, <1>2, ChangesAnswers DEF Dispatching, Sending, AnswerTypeOK

(* stop() waits for its threads in an order that leaves nobody behind: the *)
(* cleanup thread, then the waiting requests (which post to the pool),     *)
(* then the pool.                                                          *)
LEMMA StopStep == ASSUME RHInv, [RHNext]_vars PROVE StopInv'
<1> USE DEF RHInv
<1>1. (cleaner # "idle" => periodic = "check")'
  <2>1. CASE Start
    BY <2>1 DEF Start, StopInv, gate_vars
  <2>2. CASE Cleanup
    BY <2>2 DEF Cleanup, PeriodicTest, CheckNothing, CheckOver, WakeCleaner, FinishCleanup, PopFront,
                CleanupCheck, CleanupWake, CleanupDone, StopInv, gate_vars
  <2> QED
    BY <2>1, <2>2, ChangesCleanup DEF StopInv, cleanup_vars
<1>2. (ctl \in {"join_waiter", "join_pool", "join_consumer", "idle"} => periodic = "off")'
  <2>1. periodic = "off" => periodic' = "off" \/ Start
    BY ChangesCleanup DEF Cleanup, PeriodicTest, CheckNothing, CheckOver, WakeCleaner, FinishCleanup,
                          PopFront, CleanupWake, CleanupDone, StopInv, cleanup_vars
  <2> QED
    BY <2>1, ChangesControl DEF Start, Stop, StopWait, JoinCleanup, JoinWaiter, JoinPool, Flush, StopInv,
                                ctl_vars, cleanup_vars
<1>3. (ctl \in {"join_pool", "join_consumer", "idle"} => waiter = Off)'
  <2>1. waiter = Off => waiter' = Off \/ Start
    <3>1. waiter = Off => waiter.pc = "off"
      BY DEF Off
    <3>2. ASSUME Waiter, waiter.pc = "off" PROVE waiter' = waiter
      BY <3>2 DEF Waiter, WaiterStep, WaiterTest, WaiterLock, WaiterServe, WaiterTimeout,
                  WaiterSkip, WaiterUnlock, Scanning, Age
    <3>3. ASSUME NEW t \in Readers, Requeue(t) PROVE waiter' = waiter
      BY <3>3 DEF Requeue
    <3> QED
      BY <3>1, <3>2, <3>3, ChangesWaiting DEF waiting_vars
  <2> QED
    BY <2>1, ChangesControl DEF Start, Stop, StopWait, JoinCleanup, JoinWaiter, JoinPool, Flush, StopInv,
                                ctl_vars, waiting_vars
<1>4. (ctl \in {"join_consumer", "idle"} => pool_queue = <<>> /\ \A t \in Readers : task[t] = NoTask)'
  <2>1. CASE ctl \in {"join_consumer", "idle"}
    <3>1. pool_queue = <<>> /\ waiter = Off /\ \A t \in Readers : task[t] = NoTask
      BY <2>1 DEF StopInv
    <3>2. ~Dispatching /\ ~Taking
      BY <2>1, <3>1 DEF Dispatching, Dispatch, Taking, TakeTask
    <3>3. Waiter => UNCHANGED pool_queue
      BY <3>1 DEF Waiter, WaiterStep, WaiterTest, WaiterLock, WaiterServe, WaiterTimeout,
                  WaiterSkip, WaiterUnlock, Scanning, Age, Off
    <3>4. pool_queue' = pool_queue
      BY <3>2, <3>3, ChangesQueue
    <3>5. ASSUME NEW t \in Readers PROVE ~(TakeTask(t) \/ TaskStep(t) \/ Send(t) \/ Requeue(t))
      BY <3>1 DEF TakeTask, TaskStep, Inspect, Extract, Conclude, Send, Answered, Requeue, NoTask
    <3>6. task' = task
      BY <3>5, ChangesTask
    <3> QED
      BY <3>1, <3>4, <3>6
  <2>2. CASE ctl \notin {"join_consumer", "idle"}
    BY <2>2, ChangesControl DEF Start, Stop, StopWait, JoinCleanup, JoinWaiter, JoinPool, Flush, ctl_vars
  <2> QED
    BY <2>1, <2>2
<1> QED
  BY <1>1, <1>2, <1>3, <1>4 DEF StopInv

(* A pool thread passes the gate before and after its task, and looks at   *)
(* the buffer only inside.                                                 *)
LEMMA PlaceStep == ASSUME RHInv, [RHNext]_vars PROVE PlaceInv'
<1> USE DEF RHInv, RHTypeOK, PlaceInv
<1>0. reader \in [Readers -> ReaderStates] /\ task \in [Readers -> Tasks]
  BY DEF GateTypeOK, PoolTypeOK
<1>1. ASSUME NEW t \in Readers, TakeTask(t) PROVE PlaceInv'
  BY <1>0, <1>1 DEF TakeTask, Arrive, NewTask, NoTask
<1>2. ASSUME NEW t \in Readers, PassGate(t) PROVE PlaceInv'
  <2>1. UNCHANGED task /\ \E s \in ReaderStates :
          /\ reader' = [reader EXCEPT ![t] = s]
          /\ \/ s = reader[t]
             \/ reader[t] = "entering" /\ s = "entered"
             \/ reader[t] = "entered" /\ s = "inside"
             \/ reader[t] = "inside" /\ task[t].phase = "reply" /\ s = "left"
             \/ reader[t] = "left" /\ s = "out"
    BY <1>0, <1>2 DEF PassGate, Enter, Block, NotifyEntered, NotifyLeft, Leave, ReaderStates
  <2> QED
    BY <1>0, <2>1 DEF NoTask
<1>3. ASSUME NEW t \in Readers, TaskStep(t) PROVE PlaceInv'
  <2>1. reader' = reader /\ reader[t] = "inside" /\ \A u \in Readers \ {t} : task'[u] = task[u]
    BY <1>0, <1>3 DEF TaskStep, Inspect, Extract, Conclude, gate_vars
  <2>2. task'[t].phase # "none"
    BY <1>0, <1>3 DEF TaskStep, Inspect, Extract, Conclude, WithResult
  <2> QED
    BY <1>0, <2>1, <2>2 DEF NoTask
<1>4. ASSUME NEW t \in Readers, Send(t) \/ Requeue(t) PROVE PlaceInv'
  BY <1>0, <1>4 DEF Send, Requeue, Answered, NoTask, gate_vars
<1>5. ASSUME UNCHANGED <<reader, task>> PROVE PlaceInv'
  BY <1>5
<1>6. (\E t \in Readers : PoolStep(t)) \/ UNCHANGED <<reader, task>>
  BY DEF RHNext, Consume, Dispatch, Start, Stop, StopWait, Flush, Cleanup, PeriodicTest, CheckNothing,
         CheckOver, WakeCleaner, FinishCleanup, PopFront, CleanupCheck, CleanupWake, CleanupDone,
         Waiter, Wakeup, SpuriousWakeup, Terminated, vars, gate_vars
<1> QED
  BY <1>1, <1>2, <1>3, <1>4, <1>5, <1>6 DEF PoolStep, TaskStep

(* An element that is still to arrive cannot fall into a window that lies  *)
(* before it.                                                              *)
LEMMA CompleteStays ==
  ASSUME RHInv, [RHNext]_vars, NEW r \in Requests, NEW a, CompleteIn(written, next_ts, a, r)
  PROVE  CompleteIn(written', next_ts', a, r)
<1> SUFFICES ASSUME a.code = "kFound", a.bits = {}
             PROVE  a.pieces = InWindow(written', r) /\ WindowEnd[r] < next_ts'
  BY DEF CompleteIn
<1>1. a.pieces = InWindow(written, r) /\ WindowEnd[r] < next_ts
  BY DEF CompleteIn
<1>2. next_ts \in Nat /\ WindowEnd[r] \in Nat
  BY RequestAssumption, BufferAssumption DEF RHInv, RHTypeOK, BufferTypeOK
<1>3. \/ written' = written /\ next_ts' = next_ts
      \/ written' = written /\ next_ts' = next_ts + 1
      \/ written' = written \cup {next_ts} /\ next_ts' = next_ts + 1
  BY ChangesBuffer DEF Consume, Flush, PopFront, buffer_vars
<1>4. InWindow(written \cup {next_ts}, r) = InWindow(written, r)
  BY <1>1, <1>2 DEF InWindow
<1>5. WindowEnd[r] < next_ts + 1
  BY <1>1, <1>2
<1>6. CASE written' = written
  BY <1>1, <1>3, <1>5, <1>6
<1>7. CASE written' = written \cup {next_ts} /\ next_ts' = next_ts + 1
  BY <1>1, <1>4, <1>5, <1>7
<1> QED
  BY <1>3, <1>6, <1>7

(* While a task is between its look at the buffer and its fragment, the    *)
(* buffer only grows: the gate keeps cleanup() out, the joins of stop()    *)
(* the flush.                                                              *)
LEMMA BufferOnlyGrows ==
  ASSUME RHInv, [RHNext]_vars, NEW t \in Readers, task[t].phase \in {"extract", "conclude"}
  PROVE  /\ lb \subseteq lb' /\ lb' \subseteq lb \cup {next_ts}
         /\ next_ts \in Nat /\ next_ts' \in Nat /\ next_ts <= next_ts'
<1> USE DEF RHInv, RHTypeOK
<1>1. reader[t] = "inside"
  BY DEF PlaceInv, GateTypeOK, ReaderStates
<1>2. ~PopFront
  BY <1>1 DEF PopFront, GateInv, Exclusion, Counted
<1>3. ~Flush
  BY DEF Flush, StopInv, NoTask
<1>4. next_ts \in Nat
  BY BufferAssumption DEF BufferTypeOK
<1>5. CASE Consume
  BY <1>4, <1>5 DEF Consume
<1>6. CASE UNCHANGED buffer_vars
  BY <1>4, <1>6 DEF buffer_vars
<1> QED
  BY <1>2, <1>3, <1>5, <1>6, ChangesBuffer

(* What a task has learned stays true while it does nothing.               *)
LEMMA LearnedStays ==
  ASSUME RHInv, [RHNext]_vars, NEW t \in Readers, task'[t] = task[t]
  PROVE  Learned(t)'
<1> USE DEF RHInv, RHTypeOK
<1>1. Learned(t)
  BY DEF LearnedInv
<1>2. CASE task[t].phase \in {"none", "inspect"}
  BY <1>2 DEF Learned
<1>3. ASSUME task[t].phase \in {"extract", "conclude", "reply"} PROVE Learned(t)'
  <2>1. task[t] \in Tasks \ {NoTask}
    BY <1>3, TaskHasFields
  <2>2. PICK r \in Requests : r = task[t].req
    BY <2>1 DEF Tasks
  <2>3. ASSUME task[t].phase \in {"conclude", "reply"}
        PROVE  CompleteIn(written', next_ts', task[t], r)
    BY <1>1, <2>2, <2>3, CompleteStays DEF Learned, Complete
  <2>4. ASSUME task[t].phase = "conclude" PROVE task[t].pieces \subseteq lb'
    BY <1>1, <2>4, BufferOnlyGrows DEF Learned
  <2>5. ASSUME task[t].phase = "extract", task[t].cat = "full"
        PROVE  (\E x \in lb' : x <= WindowBegin[r]) /\ WindowEnd[r] < next_ts'
    <3>1. (\E x \in lb : x <= WindowBegin[r]) /\ WindowEnd[r] < next_ts
      BY <1>1, <2>2, <2>5 DEF Learned, StillFull
    <3>2. WindowEnd[r] \in Nat
      BY RequestAssumption
    <3> QED
      BY <2>5, <3>1, <3>2, BufferOnlyGrows
  <2>6. ASSUME task[t].phase = "extract", task[t].cat = "partial"
        PROVE  (\A x \in lb' : WindowBegin[r] < x) /\ WindowBegin[r] < next_ts'
    <3>1. (\A x \in lb : WindowBegin[r] < x) /\ WindowBegin[r] < next_ts
      BY <1>1, <2>2, <2>6 DEF Learned, StillCutOff
    <3>2. WindowBegin[r] \in Nat
      BY RequestAssumption
    <3> QED
      BY <2>6, <3>1, <3>2, BufferOnlyGrows
  <2> QED
    BY <1>1, <2>2, <2>3, <2>4, <2>5, <2>6 DEF Learned, StillFull, StillCutOff, Complete
<1> QED
  BY <1>2, <1>3 DEF PoolTypeOK, Tasks, NoTask

(* What the comparison with the front and the back of the buffer tells.    *)
LEMMA InspectLearns ==
  ASSUME RHInv, NEW t \in Readers, Inspect(t)
  PROVE  Learned(t)'
<1> USE DEF RHInv, RHTypeOK
<1> DEFINE r == Request(t)
           cat == IF lb = {} THEN "empty"
                  ELSE Category(Min(lb), Max(lb), WindowBegin[r], WindowEnd[r], task[t].partial)
<1>1. task[t].phase = "inspect" /\ task[t] \in Tasks \ {NoTask}
  BY TaskHasFields DEF Inspect
<1>2. r \in Requests /\ task[t].partial \in BOOLEAN
  BY <1>1 DEF Tasks, Request
<1>3. WindowBegin[r] \in Nat /\ WindowEnd[r] \in Nat
  BY <1>2, RequestAssumption
<1>4. UNCHANGED buffer_vars /\ task \in [Readers -> Tasks]
  BY DEF Inspect, PoolTypeOK
<1>5. /\ task'[t].req = r /\ task'[t].cat = cat /\ task'[t].code # "kFound" /\ task'[t].pieces = {}
      /\ task'[t].phase = IF cat \in Extracting THEN "extract" ELSE "conclude"
  BY <1>4 DEF Inspect, WithResult
<1>6. ASSUME cat = "full" PROVE StillFull(r)
  <2>1. lb # {} /\ Min(lb) <= WindowBegin[r] /\ WindowEnd[r] <= Max(lb)
    BY <1>2, <1>6, CategoryOfTask
  <2>2. lb \in SUBSET Nat /\ lb \in SUBSET (1..MaxTs) /\ MaxTs \in Nat
    BY BufferAssumption DEF BufferTypeOK
  <2>3. Min(lb) \in lb /\ Max(lb) \in lb
    BY <2>1, <2>2, MinOfSet, MaxOfSet
  <2>4. next_ts \in Nat /\ \A x \in lb : x < next_ts /\ x \in Nat
    BY <2>2, BufferAssumption DEF BufferInv, BufferTypeOK
  <2> QED
    BY <1>3, <2>1, <2>3, <2>4 DEF StillFull
<1>7. ASSUME cat = "partial" PROVE StillCutOff(r)
  <2>1. lb # {} /\ WindowBegin[r] < Min(lb)
    BY <1>2, <1>7, CategoryOfTask
  <2>2. lb \in SUBSET Nat
    BY DEF BufferTypeOK
  <2>3. Min(lb) \in lb /\ \A y \in lb : Min(lb) <= y
    BY <2>1, <2>2, MinOfSet
  <2>4. next_ts \in Nat /\ \A x \in lb : x < next_ts /\ x \in Nat
    BY <2>2, BufferAssumption DEF BufferInv, BufferTypeOK
  <2>5. Min(lb) \in Nat /\ WindowBegin[r] < next_ts
    BY <1>3, <2>1, <2>3, <2>4
  <2>6. ASSUME NEW x \in lb PROVE WindowBegin[r] < x
    BY <1>3, <2>1, <2>3, <2>4, <2>5
  <2> QED
    BY <2>5, <2>6 DEF StillCutOff
<1> HIDE DEF r, cat
<1> QED
  BY <1>4, <1>5, <1>6, <1>7 DEF Learned, StillFull, StillCutOff, Complete, CompleteIn, buffer_vars

(* The pieces collected for a window that was found covered are all that   *)
(* was ever accepted of it; one that begins before the front gets none.    *)
LEMMA ExtractLearns ==
  ASSUME RHInv, NEW t \in Readers, Extract(t)
  PROVE  Learned(t)'
<1> USE DEF RHInv, RHTypeOK
<1> DEFINE r == Request(t)
           cat == task[t].cat
           pieces == IF StartFound(r) THEN InWindow(lb, r) ELSE {}
           code == IF StartFound(r) \/ cat = "incomplete" THEN "kFound"
                   ELSE IF cat = "partial" THEN "kNotFound" ELSE "kNotYet"
           bits == IF cat = "incomplete" THEN {"kIncomplete"} ELSE {}
<1>1. task[t].phase = "extract" /\ task[t] \in Tasks \ {NoTask}
  BY TaskHasFields DEF Extract
<1>2. r \in Requests /\ WindowBegin[r] \in Nat \ {0} /\ WindowEnd[r] \in Nat
  BY <1>1, RequestAssumption DEF Tasks, Request
<1>3. UNCHANGED buffer_vars /\ task \in [Readers -> Tasks]
  BY DEF Extract, PoolTypeOK
<1>4. /\ task'[t].req = r /\ task'[t].code = code /\ task'[t].bits = bits /\ task'[t].pieces = pieces
      /\ task'[t].phase = "conclude"
  BY <1>3 DEF Extract, WithResult
<1>5. /\ cat \in Extracting
      /\ cat = "full" => StillFull(r)
      /\ cat = "partial" => StillCutOff(r)
  BY <1>1 DEF LearnedInv, Learned, Request
<1>6. pieces \subseteq lb
  BY DEF InWindow
<1>7. ASSUME code = "kFound", bits = {} PROVE pieces = InWindow(written, r) /\ WindowEnd[r] < next_ts
  <2>1. cat # "incomplete" /\ StartFound(r)
    BY <1>7
  <2>2. lb # {} /\ Min(lb) <= WindowBegin[r] - 1
    BY <2>1 DEF StartFound
  <2>3. lb \in SUBSET Nat /\ written \in SUBSET Nat
    BY DEF BufferTypeOK
  <2>4. Min(lb) \in lb /\ Min(lb) \in Nat
    BY <2>2, <2>3, MinOfSet
  <2>5. cat # "partial"
    BY <1>2, <1>5, <2>2, <2>4 DEF StillCutOff
  <2>6. PICK x \in lb : x <= WindowBegin[r] /\ WindowEnd[r] < next_ts
    BY <1>5, <2>1, <2>5 DEF Extracting, StillFull
  <2>7. ASSUME NEW y \in written, WindowBegin[r] <= y PROVE y \in lb
    BY <1>2, <2>3, <2>6, <2>7 DEF BufferInv
  <2>8. InWindow(lb, r) = InWindow(written, r)
    BY <2>7 DEF InWindow, BufferInv
  <2> QED
    BY <2>1, <2>6, <2>8
<1> HIDE DEF r, cat, pieces, code, bits
<1> QED
  BY <1>3, <1>4, <1>6, <1>7 DEF Learned, Complete, CompleteIn, buffer_vars

LEMMA ConcludeLearns ==
  ASSUME RHInv, NEW t \in Readers, Conclude(t)
  PROVE  Learned(t)'
<1> USE DEF RHInv, RHTypeOK
<1>1. task[t].phase = "conclude" /\ UNCHANGED buffer_vars /\ task \in [Readers -> Tasks]
  BY DEF Conclude, PoolTypeOK
<1>2. Complete(task[t], task[t].req)
  BY <1>1 DEF LearnedInv, Learned
<1>3. /\ task'[t].phase = "reply" /\ task'[t].req = task[t].req
      /\ \/ task'[t].code = "kNotFound"
         \/ task'[t].code = task[t].code /\ task'[t].bits = task[t].bits /\ task'[t].pieces = task[t].pieces
  BY <1>1 DEF Conclude, WithResult, Request
<1> QED
  BY <1>1, <1>2, <1>3 DEF Learned, Complete, CompleteIn, buffer_vars

LEMMA LearnedStep == ASSUME RHInv, [RHNext]_vars PROVE LearnedInv'
<1> SUFFICES ASSUME NEW u \in Readers PROVE Learned(u)'
  BY DEF LearnedInv
<1>0. task \in [Readers -> Tasks]
  BY DEF RHInv, RHTypeOK, PoolTypeOK
<1>1. CASE task'[u] = task[u]
  BY <1>1, LearnedStays
<1>2. ASSUME NEW t \in Readers, task'[u] # task[u], TakeTask(t) PROVE Learned(u)'
  <2>1. task'[u] = NewTask(Head(pool_queue))
    BY <1>0, <1>2 DEF TakeTask
  <2> QED
    BY <2>1 DEF NewTask, Learned
<1>3. ASSUME NEW t \in Readers, task'[u] # task[u], TaskStep(t) PROVE Learned(u)'
  <2>1. u = t
    BY <1>0, <1>3 DEF TaskStep, Inspect, Extract, Conclude
  <2> QED
    BY <1>3, <2>1, InspectLearns, ExtractLearns, ConcludeLearns DEF TaskStep
<1>4. ASSUME NEW t \in Readers, task'[u] # task[u], Send(t) \/ Requeue(t) PROVE Learned(u)'
  <2>1. task'[u] = NoTask
    BY <1>0, <1>4 DEF Send, Requeue
  <2> QED
    BY <2>1 DEF NoTask, Learned
<1> QED
  BY <1>1, <1>2, <1>3, <1>4, ChangesTask

LEMMA AnswerStep == ASSUME RHInv, [RHNext]_vars PROVE AnswerInv'
<1> USE DEF RHInv, RHTypeOK
<1> SUFFICES ASSUME NEW r \in Requests, NEW k \in DOMAIN sent'[r]
             PROVE  CompleteIn(written', next_ts', sent'[r][k], r)
  BY DEF AnswerInv, Complete
<1>1. ASSUME k \in DOMAIN sent[r], sent'[r][k] = sent[r][k]
      PROVE  CompleteIn(written', next_ts', sent'[r][k], r)
  BY <1>1, CompleteStays DEF AnswerInv, Complete
<1>2. ASSUME NEW t \in Readers, Send(t) PROVE CompleteIn(written', next_ts', sent'[r][k], r)
  <2>1. task[t].phase = "reply" /\ task[t] \in Tasks \ {NoTask}
    BY <1>2, TaskHasFields DEF Send, Answered
  <2>2. sent[r] \in Seq(Answers) /\ Request(t) \in Requests /\ sent \in [Requests -> Seq(Answers)]
    BY <2>1 DEF AnswerTypeOK, Tasks, Request
  <2>3. PICK a : /\ sent' = [sent EXCEPT ![Request(t)] = Append(@, a)]
                 /\ \/ a = [code |-> task[t].code, bits |-> task[t].bits, pieces |-> task[t].pieces]
                    \/ a = [code |-> "send_failed", bits |-> {}, pieces |-> {}]
    BY <1>2 DEF Send
  <2>4. CompleteIn(written, next_ts, a, Request(t))
    <3>1. CompleteIn(written, next_ts, task[t], Request(t))
      BY <2>1 DEF LearnedInv, Learned, Complete, Request
    <3> QED
      BY <2>3, <3>1 DEF CompleteIn
  <2>5. CASE r # Request(t)
    BY <1>1, <2>2, <2>3, <2>5
  <2>6. CASE r = Request(t)
    <3>1. sent'[r] = Append(sent[r], a)
      BY <2>2, <2>3, <2>6
    <3>2. CASE k \in 1..Len(sent[r])
      BY <1>1, <2>2, <3>1, <3>2
    <3>3. CASE k = Len(sent[r]) + 1
      <4>1. sent'[r][k] = a
        BY <2>2, <3>1, <3>3
      <4> QED
        BY <2>4, <2>6, <4>1, CompleteStays
    <3> QED
      BY <2>2, <3>1, <3>2, <3>3
  <2> QED
    BY <2>5, <2>6
<1>3. CASE Dispatching \/ UNCHANGED <<dispatched, sent>>
  BY <1>1, <1>3 DEF Dispatching, Dispatch
<1> QED
  BY <1>2, <1>3, ChangesAnswers DEF Sending

(* Every step of the request handler keeps the invariant.                  *)
LEMMA RHInvNext == RHInv /\ [RHNext]_vars => RHInv'
<1> SUFFICES ASSUME RHInv, [RHNext]_vars PROVE RHInv'
  OBVIOUS
<1>1. GateInv'
  BY UsesGate, GateInvNext DEF RHInv
<1>2. RHTypeOK'
  BY <1>1, BufferStep, PoolTypeStep, WaitingTypeStep, AnswerTypeStep, ControlStep DEF RHTypeOK, GateInv
<1> QED
  BY <1>1, <1>2, BufferStep, StopStep, PlaceStep, LearnedStep, AnswerStep DEF RHInv
-----------------------------------------------------------------------------
(* The request handler's state keeps its types: the if/else chain of       *)
(* data_request() has no case left over, the scan of the waiting requests  *)
(* stays in the vector, and cleanup() never pops a negative number.        *)
THEOREM HandlerTypeCorrect == RHSpec => []RHTypeOK
<1>1. RHInv => RHTypeOK
  BY DEF RHInv
<1> QED
  BY RHInvInit, RHInvNext, <1>1, PTL DEF RHSpec

(* The pointers a request collected stay valid until its fragment is       *)
(* built, for any number of pool threads.                                  *)
THEOREM PiecesStayLive == RHSpec => []PiecesAreLive
<1>1. RHInv => PiecesAreLive
  BY DEF RHInv, LearnedInv, Learned, PiecesAreLive
<1> QED
  BY RHInvInit, RHInvNext, <1>1, PTL DEF RHSpec

(* A fragment sent as found and without error bits is complete, although   *)
(* the buffer changes between the comparison and the collection.           *)
THEOREM CleanFragments == RHSpec => []CleanFragmentIsComplete
<1>1. RHInv => CleanFragmentIsComplete
  BY DEF RHInv, AnswerInv, Complete, CompleteIn, CleanFragmentIsComplete
<1> QED
  BY RHInvInit, RHInvNext, <1>1, PTL DEF RHSpec

(* The branch of data_request() for partially covered windows never finds  *)
(* where to start: the search key lies before the front of the buffer,     *)
(* which cannot move back.  What the buffer has of such a window is not    *)
(* delivered; the request is answered as not found.                        *)
PartialFindsNothing ==
  \A t \in Readers : (task[t].phase = "extract" /\ task[t].cat = "partial") => ~StartFound(Request(t))

THEOREM PartialBranchFindsNothing == RHSpec => []PartialFindsNothing
<1>1. ASSUME RHInv PROVE PartialFindsNothing
  <2> SUFFICES ASSUME NEW t \in Readers, task[t].phase = "extract", task[t].cat = "partial",
                      StartFound(task[t].req)
               PROVE  FALSE
    BY DEF PartialFindsNothing, Request
  <2>1. PICK r \in Requests : r = task[t].req
    BY <1>1, TaskHasFields DEF RHInv, RHTypeOK, Tasks
  <2>2. \A x \in lb : WindowBegin[r] < x
    BY <1>1, <2>1 DEF RHInv, LearnedInv, Learned, StillCutOff
  <2>3. lb # {} /\ Min(lb) <= WindowBegin[r] - 1 /\ lb \in SUBSET Nat
    BY <1>1, <2>1 DEF RHInv, RHTypeOK, BufferTypeOK, StartFound
  <2>4. Min(lb) \in lb /\ Min(lb) \in Nat /\ WindowBegin[r] \in Nat
    BY <2>3, MinOfSet, RequestAssumption
  <2> QED
    BY <2>2, <2>3, <2>4
<1> QED
  BY RHInvInit, RHInvNext, <1>1, PTL DEF RHSpec

(* The order of the joins in stop() leaves nobody behind that could use    *)
(* the buffer ReadoutModel::stop() flushes next.                           *)
THEOREM QuietAtFlush == RHSpec => []QuietWhenFlushed
<1>1. ASSUME RHInv PROVE QuietWhenFlushed
  <2>1. SUFFICES ASSUME ctl \in {"idle", "join_consumer"}
                 PROVE  /\ cleaner = "idle" /\ Counted = {}
                        /\ pool_queue = <<>> /\ waiter = Off
                        /\ \A t \in Readers : task[t] = NoTask
    BY DEF QuietWhenFlushed
  <2>2. /\ cleaner = "idle" /\ pool_queue = <<>> /\ waiter = Off
        /\ \A t \in Readers : task[t] = NoTask
    BY <1>1, <2>1 DEF RHInv, StopInv
  <2>3. \A t \in Readers : task[t].phase = "none"
    BY <2>2 DEF NoTask
  <2>4. Counted = {}
    BY <1>1, <2>2, <2>3 DEF RHInv, PlaceInv, Counted
  <2> QED
    BY <2>2, <2>4
<1> QED
  BY RHInvInit, RHInvNext, <1>1, PTL DEF RHSpec
-----------------------------------------------------------------------------
(* Counting a request in the queue of the pool and in the waiting requests *)

Places(s, r) == {i \in DOMAIN s : s[i].req = r}
Count(s, r) == Cardinality(Places(s, r))
One(q, r) == IF q = r THEN 1 ELSE 0

LEMMA CountType ==
  ASSUME NEW S, NEW s \in Seq(S), NEW r
  PROVE  Places(s, r) \subseteq 1..Len(s) /\ IsFiniteSet(Places(s, r)) /\ Count(s, r) \in Nat
<1>1. Len(s) \in Nat /\ DOMAIN s = 1..Len(s)
  BY LenProperties
<1>2. IsFiniteSet(1..Len(s))
  BY <1>1, FS_Interval
<1>3. Places(s, r) \in SUBSET (1..Len(s))
  BY <1>1 DEF Places
<1> QED
  BY <1>2, <1>3, FS_Subset, FS_CardinalityType DEF Count

LEMMA CountAppend ==
  ASSUME NEW S, NEW s \in Seq(S), NEW e \in S, NEW r
  PROVE  Count(Append(s, e), r) = Count(s, r) + One(e.req, r)
<1> DEFINE n == Len(s) + 1
<1>1. /\ Append(s, e) \in Seq(S) /\ Len(Append(s, e)) = n /\ Append(s, e)[n] = e
      /\ \A i \in 1..Len(s) : Append(s, e)[i] = s[i]
  BY AppendProperties
<1>2. Len(s) \in Nat /\ DOMAIN s = 1..Len(s) /\ DOMAIN Append(s, e) = 1..n
  BY <1>1, LenProperties
<1>3. n \notin Places(s, r)
  BY <1>2 DEF Places
<1>4. CASE e.req = r
  <2>1. Places(Append(s, e), r) = Places(s, r) \cup {n}
    BY <1>1, <1>2, <1>4 DEF Places
  <2>2. IsFiniteSet(Places(s, r)) /\ Count(s, r) \in Nat
    BY CountType
  <2>3. Cardinality(Places(s, r) \cup {n}) = Cardinality(Places(s, r)) + 1
    BY <1>3, <2>2, FS_AddElement
  <2> QED
    BY <1>4, <2>1, <2>2, <2>3 DEF Count, One
<1>5. CASE e.req # r
  <2>1. Places(Append(s, e), r) = Places(s, r)
    BY <1>1, <1>2, <1>5 DEF Places
  <2> QED
    BY <1>5, <2>1, CountType DEF Count, One
<1> QED
  BY <1>4, <1>5

LEMMA CountTail ==
  ASSUME NEW S, NEW s \in Seq(S), s # <<>>, NEW r
  PROVE  Count(s, r) = Count(Tail(s), r) + One(Head(s).req, r)
<1>1. /\ Tail(s) \in Seq(S) /\ Len(Tail(s)) = Len(s) - 1
      /\ \A i \in 1..Len(Tail(s)) : Tail(s)[i] = s[i + 1]
  BY HeadTailProperties
<1>2. Len(s) \in Nat \ {0} /\ DOMAIN s = 1..Len(s) /\ DOMAIN Tail(s) = 1..Len(s) - 1 /\ Head(s) = s[1]
  BY <1>1, LenProperties
<1> DEFINE Rest == Places(s, r) \ {1}
           f == [i \in Places(Tail(s), r) |-> i + 1]
<1>3. f \in [Places(Tail(s), r) -> Rest]
  BY <1>1, <1>2 DEF Places
<1>4. \A a, b \in Places(Tail(s), r) : f[a] = f[b] => a = b
  BY <1>2 DEF Places
<1>5. ASSUME NEW k \in Rest PROVE \E i \in Places(Tail(s), r) : f[i] = k
  <2>1. k \in 2..Len(s) /\ s[k].req = r
    BY <1>2 DEF Places
  <2>2. k - 1 \in Places(Tail(s), r)
    BY <1>1, <1>2, <2>1 DEF Places
  <2> QED
    BY <2>1, <2>2
<1>6. f \in Bijection(Places(Tail(s), r), Rest)
  BY <1>3, <1>4, <1>5, Fun_IsBij
<1>7. Cardinality(Rest) = Count(Tail(s), r)
  <2> HIDE DEF Rest, f
  <2> QED
    BY <1>1, <1>6, CountType, Fun_ExistsBij, FS_Bijection DEF Count
<1>8. 1 \in Places(s, r) <=> Head(s).req = r
  BY <1>2 DEF Places
<1>9. IsFiniteSet(Places(s, r)) /\ Cardinality(Places(s, r)) \in Nat
  BY CountType DEF Count
<1>10. Cardinality(Rest) = IF 1 \in Places(s, r) THEN Cardinality(Places(s, r)) - 1
                           ELSE Cardinality(Places(s, r))
  BY <1>9, FS_RemoveElement
<1> HIDE DEF Rest, f
<1> QED
  BY <1>7, <1>8, <1>9, <1>10 DEF Count, One

LEMMA CountSwapOut ==
  ASSUME NEW S, NEW s \in Seq(S), NEW i \in 1..Len(s), NEW r
  PROVE  Count(s, r) = Count(SwapOut(s, i), r) + One(s[i].req, r)
<1> DEFINE n == Len(s)
           u == SwapOut(s, i)
           P == Places(s, r)
<1>1. /\ u \in Seq(S) /\ Len(u) = n - 1
      /\ \A k \in 1..n - 1 : u[k] = IF k = i THEN s[n] ELSE s[k]
  BY SwapOutProperties
<1>2. n \in Nat \ {0} /\ DOMAIN s = 1..n /\ DOMAIN u = 1..n - 1
  BY <1>1, LenProperties
<1> HIDE DEF u
<1>3. IsFiniteSet(P) /\ Cardinality(P) \in Nat /\ Cardinality(P) = Count(s, r)
  BY CountType DEF Count
<1>4. i \in P <=> s[i].req = r
  BY <1>2 DEF Places
<1>5. n \in P <=> s[n].req = r
  BY <1>2 DEF Places
<1>6. CASE s[n].req # r \/ i = n
  <2>1. Places(u, r) = P \ {i}
    <3>1. ASSUME NEW k \in P \ {i} PROVE k \in Places(u, r)
      BY <1>1, <1>2, <1>6 DEF Places
    <3>2. ASSUME NEW k \in Places(u, r) PROVE k \in P \ {i}
      BY <1>1, <1>2, <1>6 DEF Places
    <3> QED
      BY <3>1, <3>2
  <2> HIDE DEF P
  <2>2. Cardinality(P \ {i}) = IF i \in P THEN Cardinality(P) - 1 ELSE Cardinality(P)
    BY <1>3, FS_RemoveElement
  <2> QED
    BY <1>3, <1>4, <2>1, <2>2 DEF Count, One, u
<1>7. CASE s[n].req = r /\ i # n
  <2>1. Places(u, r) = (P \ {n}) \cup {i}
    <3>1. ASSUME NEW k \in (P \ {n}) \cup {i} PROVE k \in Places(u, r)
      BY <1>1, <1>2, <1>7 DEF Places
    <3>2. ASSUME NEW k \in Places(u, r) PROVE k \in (P \ {n}) \cup {i}
      BY <1>1, <1>2, <1>7 DEF Places
    <3> QED
      BY <3>1, <3>2
  <2> HIDE DEF P
  <2>2. IsFiniteSet(P \ {n}) /\ Cardinality(P \ {n}) = Cardinality(P) - 1
    BY <1>3, <1>5, <1>7, FS_RemoveElement
  <2>3. i \in P \ {n} <=> i \in P
    BY <1>7
  <2>4. Count(u, r) = IF i \in P THEN Cardinality(P) - 1 ELSE Cardinality(P)
    <3>1. Cardinality((P \ {n}) \cup {i}) = IF i \in P \ {n} THEN Cardinality(P \ {n})
                                            ELSE Cardinality(P \ {n}) + 1
      BY <2>2, FS_AddElement
    <3> QED
      BY <1>3, <2>1, <2>2, <2>3, <3>1 DEF Count
  <2> QED
    BY <1>3, <1>4, <2>4 DEF One, u
<1> QED
  BY <1>6, <1>7

LEMMA CountMarked ==
  ASSUME NEW s \in Seq(WaitingItems), NEW i \in 1..Len(s), NEW r
  PROVE  Count([s EXCEPT ![i].aged = TRUE], r) = Count(s, r)
<1> DEFINE u == [s EXCEPT ![i].aged = TRUE]
<1>1. s \in [1..Len(s) -> WaitingItems] /\ s[i] \in WaitingItems
  BY LenProperties
<1>2. u = [s EXCEPT ![i] = [s[i] EXCEPT !.aged = TRUE]]
  OBVIOUS
<1>3. [s[i] EXCEPT !.aged = TRUE].req = s[i].req
  BY <1>1 DEF WaitingItems
<1>4. DOMAIN u = DOMAIN s /\ \A k \in DOMAIN s : u[k].req = s[k].req
  BY <1>1, <1>2, <1>3
<1> HIDE DEF u
<1>5. Places(u, r) = Places(s, r)
  BY <1>4 DEF Places
<1> QED
  BY <1>5 DEF Count, u

(* Counting it among the pool threads.                                     *)
WorkingOn(f, r) == {t \in Readers : f[t] # NoTask /\ f[t].req = r}
Workers(f, r) == Cardinality(WorkingOn(f, r))

LEMMA WorkersType == ASSUME NEW f, NEW r PROVE IsFiniteSet(WorkingOn(f, r)) /\ Workers(f, r) \in Nat
<1>1. WorkingOn(f, r) \in SUBSET Readers
  BY DEF WorkingOn
<1> QED
  BY <1>1, ReaderSets DEF Workers

LEMMA WorkBegins ==
  ASSUME NEW f, NEW g, NEW t \in Readers, \A u \in Readers \ {t} : g[u] = f[u],
         f[t] = NoTask, g[t] # NoTask, NEW r
  PROVE  Workers(g, r) = Workers(f, r) + One(g[t].req, r)
<1>1. t \notin WorkingOn(f, r)
  BY DEF WorkingOn
<1>2. CASE g[t].req = r
  <2>1. WorkingOn(g, r) = WorkingOn(f, r) \cup {t}
    BY <1>2 DEF WorkingOn
  <2>2. Cardinality(WorkingOn(f, r) \cup {t}) = Cardinality(WorkingOn(f, r)) + 1
    BY <1>1, WorkersType, FS_AddElement
  <2> QED
    BY <1>2, <2>1, <2>2 DEF Workers, One
<1>3. CASE g[t].req # r
  <2>1. WorkingOn(g, r) = WorkingOn(f, r)
    BY <1>3 DEF WorkingOn
  <2> QED
    BY <1>3, <2>1, WorkersType DEF Workers, One
<1> QED
  BY <1>2, <1>3

LEMMA WorkEnds ==
  ASSUME NEW f \in [Readers -> Tasks], NEW t \in Readers, f[t] # NoTask, NEW r
  PROVE  Workers(f, r) = Workers([f EXCEPT ![t] = NoTask], r) + One(f[t].req, r)
<1> DEFINE g == [f EXCEPT ![t] = NoTask]
<1>1. WorkingOn(g, r) = WorkingOn(f, r) \ {t}
  BY DEF WorkingOn
<1>2. t \in WorkingOn(f, r) <=> f[t].req = r
  BY DEF WorkingOn
<1> HIDE DEF g
<1>3. Cardinality(WorkingOn(f, r) \ {t}) = IF t \in WorkingOn(f, r) THEN Cardinality(WorkingOn(f, r)) - 1
                                          ELSE Cardinality(WorkingOn(f, r))
  BY WorkersType, FS_RemoveElement
<1>4. Cardinality(WorkingOn(f, r)) \in Nat
  BY WorkersType DEF Workers
<1>5. Workers(g, r) = IF f[t].req = r THEN Workers(f, r) - 1 ELSE Workers(f, r)
  BY <1>1, <1>2, <1>3 DEF Workers
<1> QED
  BY <1>4, <1>5 DEF Workers, One, g

LEMMA WorkGoesOn ==
  ASSUME NEW f, NEW g, NEW t \in Readers, \A u \in Readers \ {t} : g[u] = f[u],
         f[t] # NoTask, g[t] # NoTask, g[t].req = f[t].req, NEW r
  PROVE  Workers(g, r) = Workers(f, r)
<1>1. WorkingOn(g, r) = WorkingOn(f, r)
  BY DEF WorkingOn
<1> QED
  BY <1>1 DEF Workers

LEMMA CopiesIsSum ==
  ASSUME NEW r
  PROVE  /\ Copies(r) = Len(sent[r]) + Count(pool_queue, r) + Count(m_waiting_requests, r)
                        + Workers(task, r)
         /\ Copies(r)' = Len(sent'[r]) + Count(pool_queue', r) + Count(m_waiting_requests', r)
                         + Workers(task', r)
  BY DEF Copies, Count, Places, Workers, WorkingOn

(* Each step moves a request from one place to the next.                   *)
LEMMA OnceStep ==
  ASSUME RHInv, EachRequestOnce, [RHNext]_vars PROVE EachRequestOnce'
<1> USE DEF RHInv, RHTypeOK
<1> SUFFICES ASSUME NEW r \in Requests
             PROVE  Copies(r)' = IF r \in dispatched' THEN 1 ELSE 0
  BY DEF EachRequestOnce
<1>1. Copies(r) = IF r \in dispatched THEN 1 ELSE 0
  BY DEF EachRequestOnce
<1>2. /\ pool_queue \in Seq(Items) /\ m_waiting_requests \in Seq(WaitingItems)
      /\ task \in [Readers -> Tasks] /\ sent \in [Requests -> Seq(Answers)]
  BY DEF PoolTypeOK, WaitingTypeOK, AnswerTypeOK
<1>3. /\ Len(sent[r]) \in Nat /\ Count(pool_queue, r) \in Nat
      /\ Count(m_waiting_requests, r) \in Nat /\ Workers(task, r) \in Nat
  BY <1>2, CountType, WorkersType, LenProperties
<1>4. /\ Copies(r) = Len(sent[r]) + Count(pool_queue, r) + Count(m_waiting_requests, r)
                    + Workers(task, r)
      /\ Copies(r)' = Len(sent'[r]) + Count(pool_queue', r) + Count(m_waiting_requests', r)
                     + Workers(task', r)
  BY CopiesIsSum
<1>5. ASSUME NEW q PROVE One(q, r) \in Nat
  BY DEF One
<1> DEFINE Kept == Copies(r)' = Copies(r) /\ dispatched' = dispatched
<1>6. ASSUME NEW q \in Requests, Dispatch(q) PROVE Copies(r)' = IF r \in dispatched' THEN 1 ELSE 0
  <2>1. /\ q \notin dispatched /\ dispatched' = dispatched \cup {q}
        /\ UNCHANGED <<m_waiting_requests, task, sent>>
    BY <1>6 DEF Dispatch, waiting_vars
  <2>2. [req |-> q, partial |-> SendPartial] \in Items
    BY RequestAssumption DEF Items
  <2>3. Count(pool_queue', r) = Count(pool_queue, r) + One(q, r)
    BY <1>2, <1>6, <2>2, CountAppend DEF Dispatch, Post
  <2> QED
    BY <1>4, <1>1, <1>3, <2>1, <2>3 DEF One
<1>7. ASSUME NEW t \in Readers, TakeTask(t) PROVE Kept
  <2> DEFINE k == NewTask(Head(pool_queue))
  <2>1. /\ task[t] = NoTask /\ pool_queue # <<>> /\ pool_queue' = Tail(pool_queue)
        /\ task' = [task EXCEPT ![t] = k]
        /\ UNCHANGED <<m_waiting_requests, dispatched, sent>>
    BY <1>7 DEF TakeTask, waiting_vars
  <2>2. k # NoTask /\ k.req = Head(pool_queue).req
    BY DEF NewTask, NoTask
  <2> HIDE DEF k
  <2>3. Workers(task', r) = Workers(task, r) + One(k.req, r)
    <3>1. task'[t] = k /\ \A u \in Readers \ {t} : task'[u] = task[u]
      BY <1>2, <2>1
    <3>2. task[t] = NoTask /\ task'[t] # NoTask
      BY <2>1, <2>2, <3>1
    <3>3. Workers(task', r) = Workers(task, r) + One(task'[t].req, r)
      BY <3>1, <3>2, WorkBegins, SMTT(30)
    <3> QED
      BY <3>1, <3>3
  <2>4. Count(pool_queue, r) = Count(pool_queue', r) + One(k.req, r) /\ Count(pool_queue', r) \in Nat
    BY <1>2, <2>1, <2>2, CountTail, CountType, HeadTailProperties
  <2> QED
    BY <1>4, <1>3, <2>1, <2>3, <2>4, <1>5
<1>8. ASSUME NEW t \in Readers, TaskStep(t) PROVE Kept
  <2>1. task[t] # NoTask /\ UNCHANGED <<pool_queue, m_waiting_requests, dispatched, sent>>
    BY <1>8 DEF TaskStep, Inspect, Extract, Conclude, NoTask, waiting_vars
  <2>2. PICK k : task' = [task EXCEPT ![t] = k] /\ k.req = task[t].req /\ k # NoTask
    BY <1>8 DEF TaskStep, Inspect, Extract, Conclude, WithResult, Request, NoTask
  <2>3. Workers(task', r) = Workers(task, r)
    <3>1. task'[t] = k /\ \A u \in Readers \ {t} : task'[u] = task[u]
      BY <1>2, <2>2
    <3>2. task[t] # NoTask /\ task'[t] # NoTask /\ task'[t].req = task[t].req
      BY <2>1, <2>2, <3>1
    <3> QED
      BY <3>1, <3>2, WorkGoesOn
  <2> QED
    BY <1>4, <2>1, <2>3
<1>9. ASSUME NEW t \in Readers, Send(t) PROVE Kept
  <2>1. /\ task[t] # NoTask /\ task' = [task EXCEPT ![t] = NoTask]
        /\ UNCHANGED <<pool_queue, m_waiting_requests, dispatched>>
    BY <1>9 DEF Send, Answered, NoTask, waiting_vars
  <2>2. Workers(task, r) = Workers(task', r) + One(task[t].req, r) /\ Workers(task', r) \in Nat
    BY <1>2, <2>1, WorkEnds, WorkersType
  <2>3. PICK a : sent' = [sent EXCEPT ![task[t].req] = Append(@, a)]
    BY <1>9 DEF Send, Request
  <2>4. Len(sent'[r]) = Len(sent[r]) + One(task[t].req, r)
    BY <1>2, <2>3, LenProperties DEF One
  <2> QED
    BY <1>4, <1>3, <2>1, <2>2, <2>4, <1>5
<1>10. ASSUME NEW t \in Readers, Requeue(t) PROVE Kept
  <2> DEFINE e == [req |-> Request(t), partial |-> task[t].partial, aged |-> FALSE]
  <2>1. /\ task[t] # NoTask /\ task' = [task EXCEPT ![t] = NoTask]
        /\ m_waiting_requests' = Append(m_waiting_requests, e)
        /\ UNCHANGED <<pool_queue, dispatched, sent>>
    BY <1>10 DEF Requeue, NoTask
  <2>2. Workers(task, r) = Workers(task', r) + One(task[t].req, r) /\ Workers(task', r) \in Nat
    BY <1>2, <2>1, WorkEnds, WorkersType
  <2>3. e \in WaitingItems /\ e.req = task[t].req
    BY <1>10, TaskHasFields DEF Requeue, Tasks, Request, WaitingItems
  <2> HIDE DEF e
  <2>4. Count(m_waiting_requests', r) = Count(m_waiting_requests, r) + One(task[t].req, r)
    BY <1>2, <2>1, <2>3, CountAppend
  <2> QED
    BY <1>4, <1>3, <2>1, <2>2, <2>4, <1>5
<1>11. ASSUME Waiter PROVE Kept
  <2>0. UNCHANGED <<task, dispatched, sent>>
    BY <1>11 DEF Waiter
  <2>1. ASSUME Scanning, NEW p \in BOOLEAN, Reissue(p) PROVE Kept
    <3> DEFINE q == Entry.req
               e == [req |-> q, partial |-> p]
    <3>1. waiter.i \in 1..Len(m_waiting_requests) /\ Entry \in WaitingItems
      BY <2>1, EntryType
    <3>2. e \in Items /\ e.req = q
      BY <3>1 DEF WaitingItems, Items
    <3>3. pool_queue' = Append(pool_queue, e) /\ m_waiting_requests' = SwapOut(m_waiting_requests, waiter.i)
      BY <2>1 DEF Reissue, Post
    <3> HIDE DEF e
    <3>4. Count(pool_queue', r) = Count(pool_queue, r) + One(q, r)
      BY <1>2, <3>2, <3>3, CountAppend
    <3>5. Count(m_waiting_requests, r) = Count(m_waiting_requests', r) + One(q, r)
      BY <1>2, <3>1, <3>3, CountSwapOut DEF Entry
    <3>6. Count(m_waiting_requests', r) \in Nat
      BY <1>2, <3>1, <3>3, SwapOutProperties, CountType
    <3> QED
      BY <1>4, <1>3, <2>0, <3>4, <3>5, <3>6, <1>5
  <2>2. ASSUME NEW i \in DOMAIN m_waiting_requests, Age(i) PROVE Kept
    <3>1. i \in 1..Len(m_waiting_requests)
      BY <1>2, LenProperties
    <3>2. Count(m_waiting_requests', r) = Count(m_waiting_requests, r) /\ UNCHANGED pool_queue
      BY <1>2, <2>2, <3>1, CountMarked DEF Age
    <3> QED
      BY <1>4, <2>0, <3>2
  <2>3. ASSUME UNCHANGED <<m_waiting_requests, pool_queue>> PROVE Kept
    BY <1>4, <2>0, <2>3
  <2>4. Scanning => Entry.partial \in BOOLEAN
    BY EntryType DEF WaitingItems
  <2> HIDE DEF Kept
  <2> QED
    BY <1>11, <2>1, <2>2, <2>3, <2>4 DEF Waiter, WaiterStep, WaiterTest, WaiterLock, WaiterServe,
                                        WaiterTimeout, WaiterSkip, WaiterUnlock
<1>12. ASSUME UNCHANGED <<pool_queue, task, m_waiting_requests, dispatched, sent>> PROVE Kept
  BY <1>4, <1>12
<1>13. ASSUME Kept PROVE Copies(r)' = IF r \in dispatched' THEN 1 ELSE 0
  BY <1>1, <1>13
<1> HIDE DEF Kept
<1>14. ASSUME NEW t \in Readers, PoolStep(t) PROVE Kept
  BY <1>7, <1>8, <1>9, <1>10, <1>12, <1>14 DEF PoolStep, TaskStep, PassGate, waiting_vars
<1>15. ASSUME \/ Consume \/ Start \/ Stop \/ StopWait \/ Flush \/ Cleanup \/ Wakeup \/ Terminated
              \/ UNCHANGED vars
       PROVE  Kept
  BY <1>12, <1>15 DEF Consume, Start, Stop, StopWait, Flush, Cleanup, PopFront, Wakeup, Terminated,
                      vars, waiting_vars
<1> QED
  BY <1>6, <1>11, <1>13, <1>14, <1>15 DEF RHNext

(* Over any number of runs no request is lost or answered twice: not by    *)
(* the swap in the scan, not by re-queueing, not by the joins of stop().   *)
THEOREM RequestsKept == RHSpec => []EachRequestOnce
<1>1. RHInit => EachRequestOnce
  <2> SUFFICES ASSUME RHInit, NEW r \in Requests PROVE Copies(r) = 0 /\ r \notin dispatched
    BY DEF EachRequestOnce
  <2>1. /\ Places(<<>>, r) = {} /\ WorkingOn(task, r) = {}
        /\ sent[r] = <<>> /\ pool_queue = <<>> /\ m_waiting_requests = <<>> /\ dispatched = {}
    BY DEF RHInit, Places, WorkingOn
  <2>2. Count(<<>>, r) = 0 /\ Workers(task, r) = 0
    BY <2>1, FS_EmptySet DEF Count, Workers
  <2> QED
    BY <2>1, <2>2, CopiesIsSum
<1>2. RHInv /\ EachRequestOnce /\ [RHNext]_vars => EachRequestOnce'
  BY OnceStep
<1> QED
  BY RHInvInit, RHInvNext, <1>1, <1>2, PTL DEF RHSpec
============================================================================
