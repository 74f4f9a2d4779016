--------------------------- MODULE SkipListBuffer ---------------------------
(***************************************************************************)
(* SkipListLatencyBufferModel, an ordered set for data that arrives out of *)
(* order, and the cleanup of DefaultSkipListRequestHandler, which removes  *)
(* by age instead of by share.  The cleanup runs behind the gate of        *)
(* DefaultRequestHandlerModel (CleanupGate); the consumer writes at any    *)
(* time, and the waiting-requests thread looks at back() outside the gate. *)
(* front() and back() return pointers that outlive their Accessor, so a    *)
(* pointer is live while its element is in the list.                       *)
(***************************************************************************)
EXTENDS CleanupGate, FiniteSetsExt

CONSTANTS MaxTs,          \* bound: timestamps
          m_max_ts_diff,  \* the age that is cleaned up
          PopLimit        \* m_pop_limit_size

ASSUME SkipListAssumption == /\ {MaxTs, PopLimit} \subseteq Nat
                             /\ m_max_ts_diff \in Nat \ {0}

VARIABLES list,           \* the timestamps in the skip list
          c_pc, tail, head,  \* skip_list_cleanup_request()
          held,           \* per reader: the elements it holds pointers to
          peek            \* back() of the waiting-requests thread

cleanup_vars == <<c_pc, tail, head>>
skip_vars == <<gate_vars, list, cleanup_vars, held, peek>>

Ts == 1..MaxTs
None == 0

First == Min(list)
Last == Max(list)

SkipInit == /\ GateInit
            /\ list = {} /\ c_pc = "look" /\ tail = None /\ head = None
            /\ held = [t \in Readers |-> {}] /\ peek = None
-----------------------------------------------------------------------------
(* write(): insert, refused for a timestamp that is there already.         *)
Write(ts) == /\ list' = list \cup {ts}
             /\ UNCHANGED <<gate_vars, cleanup_vars, held, peek>>

(* cleanup_check() over the limit, and its wait at the gate.               *)
CheckOver == /\ Cardinality(list) > PopLimit
             /\ CleanupCheck
             /\ UNCHANGED <<list, cleanup_vars, held, peek>>

WakeCleaner == CleanupWake /\ UNCHANGED <<list, cleanup_vars, held, peek>>

(* last(), then first(): cleaning begins if they lie further apart than    *)
(* the maximum.  The consumer may write between the two.                   *)
CleanupLook == /\ cleaner = "popping" /\ c_pc = "look"
               /\ tail' = Last
               /\ c_pc' = "head"
               /\ UNCHANGED <<gate_vars, list, head, held, peek>>

CleanupHead == /\ cleaner = "popping" /\ c_pc = "head"
               /\ head' = First
               /\ c_pc' = IF tail - First > m_max_ts_diff THEN "remove" ELSE "done"
               /\ UNCHANGED <<gate_vars, list, tail, held, peek>>

CleanupRemove == /\ cleaner = "popping" /\ c_pc = "remove"
                 /\ list' = list \ {head}
                 /\ c_pc' = "first"
                 /\ UNCHANGED <<gate_vars, tail, head, held, peek>>

(* Faulty variants: the loop goes on to the end; one tick too far.         *)
GoesOnToTheEnd(age) == TRUE
GoesOnTooLong(age) == age + 1 >= m_max_ts_diff

GoesOn(age) == age >= m_max_ts_diff

CleanupFirst == /\ cleaner = "popping" /\ c_pc = "first"
                /\ head' = First
                /\ c_pc' = IF GoesOn(tail - First) THEN "remove" ELSE "done"
                /\ UNCHANGED <<gate_vars, list, tail, held, peek>>

FinishCleanup == /\ c_pc = "done"
                 /\ CleanupDone
                 /\ c_pc' = "look" /\ tail' = None /\ head' = None
                 /\ UNCHANGED <<list, held, peek>>
-----------------------------------------------------------------------------
(* A request handling thread.                                              *)
PassGate(t) == /\ Arrive(t) \/ Enter(t) \/ Block(t) \/ NotifyEntered(t) \/ NotifyLeft(t)
               /\ UNCHANGED <<list, cleanup_vars, held, peek>>

(* front(), back(), lower_bound() and the walk from there.                 *)
Collect(t) == /\ reader[t] = "inside" /\ held[t] = {} /\ list # {}
              /\ \E begin \in Ts :
                   held' = [held EXCEPT ![t] = {First, Last} \cup {e \in list : e >= begin}]
              /\ UNCHANGED <<gate_vars, list, cleanup_vars, peek>>

(* The fragment is built; the thread leaves the gate.                      *)
Finish(t) == /\ Leave(t)
             /\ held' = [held EXCEPT ![t] = {}]
             /\ UNCHANGED <<list, cleanup_vars, peek>>

(* check_waiting_requests(): back() is looked at without the gate.         *)
Peek == /\ peek = None /\ list # {}
        /\ peek' = Last
        /\ UNCHANGED <<gate_vars, list, cleanup_vars, held>>

Peeked == /\ peek # None
          /\ peek' = None
          /\ UNCHANGED <<gate_vars, list, cleanup_vars, held>>

(* After a stop flush() pops the whole list, from the back.                *)
Flush == /\ cleaner = "idle" /\ peek = None
         /\ \A t \in Readers : reader[t] = "out"
         /\ list' = {}
         /\ UNCHANGED <<gate_vars, cleanup_vars, held, peek>>

Wakeup == /\ \E t \in Readers \cup {Cleaner} : SpuriousWakeup(t)
          /\ UNCHANGED <<list, cleanup_vars, held, peek>>

CleanerGoesOn == \/ WakeCleaner \/ CleanupLook \/ CleanupHead
                 \/ CleanupRemove \/ CleanupFirst \/ FinishCleanup

SkipNext == \/ \E ts \in Ts : Write(ts)
            \/ CheckOver \/ CleanerGoesOn
            \/ \E t \in Readers : PassGate(t) \/ Collect(t) \/ Finish(t)
            \/ Peek \/ Peeked \/ Flush \/ Wakeup

SkipSpec == SkipInit /\ [][SkipNext]_skip_vars
-----------------------------------------------------------------------------
(* The type invariant; last() and first() are elements.                    *)
SkipTypeOK == /\ list \subseteq Ts
              /\ c_pc \in {"look", "head", "remove", "first", "done"}
              /\ {tail, head, peek} \subseteq Ts \cup {None}
              /\ held \in [Readers -> SUBSET Ts]

(* The loop dereferences first() unchecked and subtracts unsigned times:   *)
(* the list never runs empty under it and its head never passes the tail   *)
(* it has seen, whatever is inserted meanwhile.                            *)
LoopStaysInside == /\ c_pc = "first" => list # {}
                   /\ c_pc = "remove" => head \in list /\ head <= tail
                   /\ c_pc \in {"head", "remove", "first"} => tail \in list

(* What a request handling thread has collected stays in the list until it *)
(* leaves the gate, although front() and back() give up their Accessor;    *)
(* the pointer check_waiting_requests() looks through without the gate is  *)
(* dangling only when data newer by the whole maximum has come since.      *)
PointersAreLive == /\ \A t \in Readers : held[t] \subseteq list
                   /\ peek # None => peek \in list \/ Last - peek >= m_max_ts_diff

=============================================================================
