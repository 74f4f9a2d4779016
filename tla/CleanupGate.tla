---------------------------- MODULE CleanupGate ----------------------------
(***************************************************************************)
(* The handshake of DefaultRequestHandlerModel that keeps the cleanup      *)
(* thread from popping the latency buffer while a request handling thread  *)
(* (or the recorder) walks through it: the flag m_cleanup_requested, the   *)
(* counter m_requests_running, the mutex m_cv_mutex and the condition      *)
(* variable m_cv.                                                          *)
(*                                                                         *)
(* A condition variable is its wait set.  A thread that calls wait() with  *)
(* a false predicate joins cv_waiters and releases the mutex in one step;  *)
(* notify_all() empties the set; a thread that is out of the set takes the *)
(* mutex and tests its predicate again.  The readers notify after they     *)
(* have released the mutex, so their notification is a step of its own.    *)
(***************************************************************************)
EXTENDS Integers, FiniteSets

CONSTANTS Readers,  \* the threads that look into the latency buffer
          Cleaner   \* the cleanup thread

ASSUME GateAssumption == /\ IsFiniteSet(Readers)
                         /\ Cleaner \notin Readers

VARIABLES m_cleanup_requested,
          m_requests_running,
          cv_waiters,          \* the threads asleep in m_cv
          reader,              \* where each reader is in the handshake
          cleaner              \* where the cleanup thread is

gate_vars == <<m_cleanup_requested, m_requests_running, cv_waiters, reader, cleaner>>

(* out:      not in the handshake                                          *)
(* entering: about to test the predicate, or asleep in m_cv                *)
(* entered:  counted, the notification after the entry not sent yet        *)
(* inside:   uses the latency buffer                                       *)
(* left:     no longer counted, the notification not sent yet              *)
ReaderStates == {"out", "entering", "entered", "inside", "left"}
CleanerStates == {"idle", "waiting", "popping"}

(* The readers m_requests_running counts.                                  *)
Counted == {t \in Readers : reader[t] \in {"entered", "inside"}}

(* The readers that still owe a notify_all().                              *)
Notifying == {t \in Readers : reader[t] \in {"entered", "left"}}

(* The cleanup thread is the only one that keeps m_cv_mutex over several   *)
(* steps: it holds it all through cleanup().                               *)
MutexFree == cleaner # "popping"

GateInit == /\ m_cleanup_requested = FALSE
            /\ m_requests_running = 0
            /\ cv_waiters = {}
            /\ reader = [t \in Readers |-> "out"]
            /\ cleaner = "idle"
-----------------------------------------------------------------------------
(* A reader starts a task.                                                 *)
Arrive(t) == /\ reader[t] = "out"
             /\ reader' = [reader EXCEPT ![t] = "entering"]
             /\ UNCHANGED <<m_cleanup_requested, m_requests_running, cv_waiters, cleaner>>

(* Faulty variant: the predicate of the wait is not tested.                 *)
EnterUnchecked(t) == /\ reader[t] = "entering"
                     /\ t \notin cv_waiters
                     /\ MutexFree
                     /\ m_requests_running' = m_requests_running + 1
                     /\ reader' = [reader EXCEPT ![t] = "entered"]
                     /\ UNCHANGED <<m_cleanup_requested, cv_waiters, cleaner>>

(* unique_lock, the predicate is true, m_requests_running++, unlock.       *)
Enter(t) == /\ reader[t] = "entering"
            /\ t \notin cv_waiters
            /\ MutexFree
            /\ ~m_cleanup_requested
            /\ m_requests_running' = m_requests_running + 1
            /\ reader' = [reader EXCEPT ![t] = "entered"]
            /\ UNCHANGED <<m_cleanup_requested, cv_waiters, cleaner>>

(* unique_lock, the predicate is false: the reader goes to sleep.          *)
Block(t) == /\ reader[t] = "entering"
            /\ t \notin cv_waiters
            /\ MutexFree
            /\ m_cleanup_requested
            /\ cv_waiters' = cv_waiters \cup {t}
            /\ UNCHANGED <<m_cleanup_requested, m_requests_running, reader, cleaner>>

(* m_cv.notify_all() after the entry.                                      *)
NotifyEntered(t) == /\ reader[t] = "entered"
                    /\ cv_waiters' = {}
                    /\ reader' = [reader EXCEPT ![t] = "inside"]
                    /\ UNCHANGED <<m_cleanup_requested, m_requests_running, cleaner>>

(* Faulty variant: the counter is not taken back.                          *)
LeaveUncounted(t) == /\ reader[t] = "inside"
                     /\ MutexFree
                     /\ reader' = [reader EXCEPT ![t] = "left"]
                     /\ UNCHANGED <<m_cleanup_requested, m_requests_running, cv_waiters, cleaner>>

(* lock_guard, m_requests_running--, unlock.                               *)
Leave(t) == /\ reader[t] = "inside"
            /\ MutexFree
            /\ m_requests_running' = m_requests_running - 1
            /\ reader' = [reader EXCEPT ![t] = "left"]
            /\ UNCHANGED <<m_cleanup_requested, cv_waiters, cleaner>>

(* Faulty variant: no notification.                                        *)
NotifyLeftForgotten(t) == /\ reader[t] = "left"
                          /\ reader' = [reader EXCEPT ![t] = "out"]
                          /\ UNCHANGED <<m_cleanup_requested, m_requests_running, cv_waiters, cleaner>>

(* m_cv.notify_all() after the exit.                                       *)
NotifyLeft(t) == /\ reader[t] = "left"
                 /\ cv_waiters' = {}
                 /\ reader' = [reader EXCEPT ![t] = "out"]
                 /\ UNCHANGED <<m_cleanup_requested, m_requests_running, cleaner>>

(* Faulty variant: cleanup() does not wait for the readers.                *)
AwaitNobody == cleaner' = "popping" /\ cv_waiters' = cv_waiters

(* The cleanup thread has the mutex: go on to cleanup() if no reader is    *)
(* counted, else sleep.                                                    *)
AwaitReaders == IF m_requests_running = 0
                  THEN cleaner' = "popping" /\ cv_waiters' = cv_waiters
                  ELSE cleaner' = "waiting" /\ cv_waiters' = cv_waiters \cup {Cleaner}

(* cleanup_check() finds the occupancy over m_pop_limit_size (a guard of   *)
(* the module that has a buffer) and the flag clear.                       *)
CleanupCheck == /\ cleaner = "idle"
                /\ ~m_cleanup_requested
                /\ m_cleanup_requested' = TRUE
                /\ AwaitReaders
                /\ UNCHANGED <<m_requests_running, reader>>

(* The cleanup thread is out of the wait set and tests again.              *)
CleanupWake == /\ cleaner = "waiting"
               /\ Cleaner \notin cv_waiters
               /\ AwaitReaders
               /\ UNCHANGED <<m_cleanup_requested, m_requests_running, reader>>

(* Faulty variant: the flag stays set.                                     *)
CleanupDoneFlagKept == /\ cleaner = "popping"
                       /\ cv_waiters' = {}
                       /\ cleaner' = "idle"
                       /\ UNCHANGED <<m_cleanup_requested, m_requests_running, reader>>

(* cleanup() has returned: clear the flag, notify_all, unlock.             *)
CleanupDone == /\ cleaner = "popping"
               /\ m_cleanup_requested' = FALSE
               /\ cv_waiters' = {}
               /\ cleaner' = "idle"
               /\ UNCHANGED <<m_requests_running, reader>>

(* A wait may end without a notification.                                  *)
SpuriousWakeup(t) == /\ t \in cv_waiters
                     /\ cv_waiters' = cv_waiters \ {t}
                     /\ UNCHANGED <<m_cleanup_requested, m_requests_running, reader, cleaner>>

ReaderStep(t) == Arrive(t) \/ Enter(t) \/ Block(t) \/ NotifyEntered(t) \/ Leave(t) \/ NotifyLeft(t)
CleanerStep == CleanupCheck \/ CleanupWake \/ CleanupDone

GateNext == \/ \E t \in Readers : ReaderStep(t)
            \/ CleanerStep
            \/ \E t \in Readers \cup {Cleaner} : SpuriousWakeup(t)

(* Every thread that can take a step keeps running.  Enter is strongly     *)
(* fair: between two cleanups the cleanup thread sleeps 50 ms with the     *)
(* flag clear and the mutex free, which lets an awakened reader in.        *)
GateFairness == /\ \A t \in Readers : /\ SF_gate_vars(Enter(t))
                                      /\ WF_gate_vars(NotifyEntered(t))
                                      /\ WF_gate_vars(Leave(t))
                                      /\ WF_gate_vars(NotifyLeft(t))
                /\ WF_gate_vars(CleanupWake)
                /\ WF_gate_vars(CleanupDone)

GateSpec == GateInit /\ [][GateNext]_gate_vars /\ GateFairness
-----------------------------------------------------------------------------
(* The type invariant; the counter never goes below zero.                  *)
GateTypeOK == /\ m_cleanup_requested \in BOOLEAN
              /\ m_requests_running \in Nat
              /\ cv_waiters \subseteq Readers \cup {Cleaner}
              /\ reader \in [Readers -> ReaderStates]
              /\ cleaner \in CleanerStates

(* m_requests_running is the number of readers between their increment and *)
(* their decrement, whatever the interleaving of enters and leaves.        *)
CountIsExact == m_requests_running = Cardinality(Counted)

(* No reader uses the latency buffer while cleanup() pops from it: this is *)
(* what the flag, the counter and m_cv of cleanup_check() and              *)
(* issue_request() are for.                                                *)
Exclusion == cleaner = "popping" => Counted = {}

(* A thread asleep in m_cv has a reason to be: the cleanup thread sleeps   *)
(* only while some reader is counted or still owes its notify_all() (sent  *)
(* after the unlock), a reader only while a cleanup is requested.          *)
NoLostWakeup == /\ Cleaner \in cv_waiters => Counted \cup Notifying # {}
                /\ \A t \in Readers : t \in cv_waiters => m_cleanup_requested

(* A requested cleanup is carried out: new readers cannot starve it,       *)
(* because the flag keeps them out while those inside drain.               *)
CleanupHappens == m_cleanup_requested ~> cleaner = "popping"

(* A reader that wants to enter gets in, however often the buffer is       *)
(* cleaned up in between.                                                  *)
ReaderGetsIn == \A t \in Readers : reader[t] = "entering" ~> reader[t] = "inside"
============================================================================
