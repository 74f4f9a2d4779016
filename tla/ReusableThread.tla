--------------------------- MODULE ReusableThread ---------------------------
(***************************************************************************)
(* ReusableThread: a worker that is given one task after another.  The     *)
(* owner (the command thread of ReadoutModel or of a request handler)      *)
(* calls set_work() at start and, at stop, polls get_readiness() until the *)
(* task has returned; the result of set_work() is ignored.  In the end it  *)
(* destroys the thread object.                                             *)
(*                                                                         *)
(* The flags are atomics; the owner changes them and notifies m_cv without *)
(* m_mtx, which the worker holds all the time except while it waits.       *)
(***************************************************************************)
EXTENDS Integers, Sequences

CONSTANT MaxTasks   \* bound: how often the owner calls set_work()

ASSUME TaskAssumption == MaxTasks \in Nat

VARIABLES m_task_executed, m_task_assigned, m_thread_quit, m_worker_done, m_task,
          worker,     \* place of the worker in thread_worker()
          owner,      \* place of the owner in its calls
          given,      \* tasks the owner has tried to set so far
          accepted,   \* history: tasks set_work() accepted, in order
          ran         \* history: tasks that returned, in order

flags == <<m_task_executed, m_task_assigned, m_thread_quit, m_worker_done, m_task>>
thread_vars == <<flags, worker, owner, given, accepted, ran>>

WorkerPlaces == {"test", "run", "executed", "clear", "sleep", "asleep", "done"}
OwnerPlaces == {"idle", "exchange", "bind", "assign", "notify", "poll",
                "dtor", "dtor_notify", "joined"}

RTInit == /\ m_task_executed = TRUE /\ m_task_assigned = FALSE
          /\ m_thread_quit = FALSE /\ m_worker_done = FALSE /\ m_task = 0
          /\ worker = "test" /\ owner = "idle"
          /\ given = 0 /\ accepted = <<>> /\ ran = <<>>
-----------------------------------------------------------------------------
(* thread_worker()                                                         *)

(* Faulty variant: the task counts as executed as soon as it is seen.      *)
WorkerTestEager == /\ worker = "test"
                   /\ worker' = IF ~m_task_executed /\ m_task_assigned THEN "run" ELSE "sleep"
                   /\ m_task_executed' = (m_task_executed \/ m_task_assigned)
                   /\ UNCHANGED <<m_task_assigned, m_thread_quit, m_worker_done, m_task,
                                  owner, given, accepted, ran>>

(* The loop condition and the test of the two flags.                       *)
WorkerTest == /\ worker = "test"
              /\ IF m_thread_quit
                   THEN worker' = "done" /\ m_worker_done' = TRUE
                   ELSE /\ worker' = IF ~m_task_executed /\ m_task_assigned THEN "run" ELSE "sleep"
                        /\ UNCHANGED m_worker_done
              /\ UNCHANGED <<m_task_executed, m_task_assigned, m_thread_quit, m_task,
                             owner, given, accepted, ran>>

(* The task runs and returns.                                              *)
WorkerRun == /\ worker = "run"
             /\ ran' = Append(ran, m_task)
             /\ worker' = "executed"
             /\ UNCHANGED <<flags, owner, given, accepted>>

(* Faulty variant: the flag is not set.                                    *)
WorkerUnreported == /\ worker = "executed"
                    /\ worker' = "test"
                    /\ UNCHANGED <<flags, owner, given, accepted, ran>>

WorkerExecuted == /\ worker = "executed"
                  /\ m_task_executed' = TRUE
                  /\ worker' = "clear"
                  /\ UNCHANGED <<m_task_assigned, m_thread_quit, m_worker_done, m_task,
                                 owner, given, accepted, ran>>

(* Faulty variant: the task stays assigned.                                *)
WorkerClearForgotten == /\ worker = "clear"
                        /\ worker' = "test"
                        /\ UNCHANGED <<flags, owner, given, accepted, ran>>

WorkerClear == /\ worker = "clear"
               /\ m_task_assigned' = FALSE
               /\ worker' = "test"
               /\ UNCHANGED <<m_task_executed, m_thread_quit, m_worker_done, m_task,
                              owner, given, accepted, ran>>

(* m_cv.wait(lock): no predicate.                                          *)
WorkerSleep == /\ worker = "sleep"
               /\ worker' = "asleep"
               /\ UNCHANGED <<flags, owner, given, accepted, ran>>

SpuriousWakeup == /\ worker = "asleep"
                  /\ worker' = "test"
                  /\ UNCHANGED <<flags, owner, given, accepted, ran>>

(* notify_all() reaches a worker that is asleep, and no other.             *)
Notify == worker' = IF worker = "asleep" THEN "test" ELSE worker
-----------------------------------------------------------------------------
(* set_work(), get_readiness(), the destructor                             *)

(* A refused call returns false, which nobody looks at: the owner polls.   *)
SetWork == /\ owner = "idle" /\ given < MaxTasks
           /\ given' = given + 1
           /\ owner' = IF m_task_assigned THEN "poll" ELSE "exchange"
           /\ UNCHANGED <<flags, worker, accepted, ran>>

SetExchange == /\ owner = "exchange"
               /\ owner' = IF m_task_executed THEN "bind" ELSE "poll"
               /\ m_task_executed' = FALSE
               /\ UNCHANGED <<m_task_assigned, m_thread_quit, m_worker_done, m_task,
                              worker, given, accepted, ran>>

SetBind == /\ owner = "bind"
           /\ m_task' = given
           /\ owner' = "assign"
           /\ UNCHANGED <<m_task_executed, m_task_assigned, m_thread_quit, m_worker_done,
                          worker, given, accepted, ran>>

SetAssign == /\ owner = "assign"
             /\ m_task_assigned' = TRUE
             /\ accepted' = Append(accepted, given)
             /\ owner' = "notify"
             /\ UNCHANGED <<m_task_executed, m_thread_quit, m_worker_done, m_task,
                            worker, given, ran>>

(* Faulty variant: nobody is told.                                         *)
SetSilent == /\ owner = "notify"
             /\ owner' = "poll"
             /\ UNCHANGED <<flags, worker, given, accepted, ran>>

SetNotify == /\ owner = "notify"
             /\ Notify
             /\ owner' = "poll"
             /\ UNCHANGED <<flags, given, accepted, ran>>

(* get_readiness() is true: stop() goes on.                                *)
PollReady == /\ owner = "poll" /\ m_task_executed
             /\ owner' = "idle"
             /\ UNCHANGED <<flags, worker, given, accepted, ran>>

(* The destructor waits for m_task_assigned, then asks the worker to quit. *)
Destruct == /\ owner = "idle"
            /\ owner' = "dtor"
            /\ UNCHANGED <<flags, worker, given, accepted, ran>>

DestructQuit == /\ owner = "dtor" /\ ~m_task_assigned
                /\ m_thread_quit' = TRUE
                /\ owner' = "dtor_notify"
                /\ UNCHANGED <<m_task_executed, m_task_assigned, m_worker_done, m_task,
                               worker, given, accepted, ran>>

(* Faulty variant: it only waits.                                          *)
DestructSilent == /\ owner = "dtor_notify" /\ ~m_worker_done
                  /\ UNCHANGED thread_vars

(* It notifies again and again until the worker is done, and joins it.     *)
DestructNotify == /\ owner = "dtor_notify" /\ ~m_worker_done
                  /\ Notify
                  /\ UNCHANGED <<flags, owner, given, accepted, ran>>

DestructJoin == /\ owner = "dtor_notify" /\ m_worker_done
                /\ owner' = "joined"
                /\ UNCHANGED <<flags, worker, given, accepted, ran>>

Joined == owner = "joined" /\ UNCHANGED thread_vars

Worker == WorkerTest \/ WorkerRun \/ WorkerExecuted \/ WorkerClear \/ WorkerSleep
SetSteps == SetExchange \/ SetBind \/ SetAssign \/ SetNotify
DestructSteps == DestructQuit \/ DestructNotify \/ DestructJoin

RTNext == \/ Worker \/ SpuriousWakeup
          \/ SetWork \/ SetSteps \/ PollReady
          \/ Destruct \/ DestructSteps \/ Joined

(* Both threads keep running, every task returns; wakeups come only from   *)
(* notifications.                                                          *)
RTFairness == /\ WF_thread_vars(Worker)
              /\ WF_thread_vars(SetSteps) /\ WF_thread_vars(PollReady)
              /\ WF_thread_vars(DestructSteps)

RTSpec == RTInit /\ [][RTNext]_thread_vars /\ RTFairness
-----------------------------------------------------------------------------
(* The type invariant; the worker runs only tasks it was given.            *)
RTTypeOK == /\ {m_task_executed, m_task_assigned, m_thread_quit, m_worker_done} \subseteq BOOLEAN
            /\ m_task \in 0..MaxTasks /\ given \in 0..MaxTasks
            /\ worker \in WorkerPlaces /\ owner \in OwnerPlaces
            /\ accepted \in Seq(1..MaxTasks) /\ ran \in Seq(1..MaxTasks)

(* get_readiness() is true only when every accepted task has returned:     *)
(* what the loops of the stop() methods rely on before they free what the  *)
(* tasks use.                                                              *)
ReadyMeansDone == m_task_executed => ran = accepted

(* The worker runs the accepted tasks, each once and in order, and only    *)
(* tasks that were accepted; and although no lock protects m_task, the     *)
(* owner never binds a new one while the worker runs one or is about to.   *)
RunsAcceptedOnce ==
  /\ \/ ran = accepted
     \/ accepted # <<>> /\ ran = SubSeq(accepted, 1, Len(accepted) - 1)
  /\ owner \in {"bind", "assign"} => worker \notin {"run", "executed"}

(* An owner that polls before it sets work is refused only while the       *)
(* worker is between its two stores (m_task_executed = true, then          *)
(* m_task_assigned = false).                                               *)
RefusedOnlyWhileClearing ==
  [][(owner \in {"idle", "exchange"} /\ owner' = "poll") => worker = "clear"]_thread_vars

(* The destructor of a thread whose task has returned returns itself: its  *)
(* repeated notify_all() makes up for one that came too early.             *)
DestructorReturns == owner = "dtor" ~> owner = "joined"

(* A worker that has reached m_cv.wait() by the time set_work() notifies   *)
(* executes the task; only one that is still on its way there may miss it. *)
SleepingWorkerRuns == (worker = "asleep" /\ owner = "notify") ~> (ran = accepted)

(* "Set task to be executed": a task that set_work() accepted is executed. *)
AcceptedIsExecuted ==
  \A k \in 1..MaxTasks : Len(accepted) >= k ~> Len(ran) >= k
=============================================================================
