---------------------------- MODULE RingLifecycle ----------------------------
(***************************************************************************)
(* The life of an IterableQueueModel: conf() frees the old memory and      *)
(* allocates anew by one of four allocators, lets a prefiller thread touch *)
(* the pages, and hands the ring to its producer and consumer; scrap()     *)
(* destroys what is left and goes back to a small ring.  The ring's own    *)
(* steps are those of IterableQueueModel.                                  *)
(***************************************************************************)
EXTENDS IterableQueueModel

VARIABLES libnuma,      \* built WITH_LIBNUMA_SUPPORT
          phase,        \* the command thread in conf() and scrap()
          opts,         \* numa_aware_, numa_node_ < 8, intrinsic_allocator_, alignment_size_ > 0
          memory,       \* who allocated records_; "freed" when it dangles
          misfreed,     \* memory was freed twice or by the wrong function
          sane,         \* no questionable combination of options was configured
          prefill_ready_, prefill_done_,
          prefiller,    \* the prefiller thread
          affine,       \* its CPU affinity is set
          cv            \* the threads asleep in prefill_cv_

life_vars == <<libnuma, phase, opts, memory, misfreed, sane, prefill_ready_, prefill_done_, prefiller, affine, cv>>
memory_vars == <<opts, memory, misfreed, sane>>
prefill_vars == <<prefill_ready_, prefill_done_, prefiller, affine, cv>>
ring_vars == <<queue_vars, life_vars>>

Options == [numa : BOOLEAN, node : BOOLEAN, intrinsic : BOOLEAN, aligned : BOOLEAN]
Plain == [numa |-> FALSE, node |-> TRUE, intrinsic |-> FALSE, aligned |-> FALSE]

LifeInit == /\ IQInit
            /\ libnuma \in BOOLEAN /\ phase = "initial"
            /\ opts = Plain /\ memory = "malloc" /\ misfreed = FALSE /\ sane = TRUE
            /\ prefill_ready_ = FALSE /\ prefill_done_ = FALSE
            /\ prefiller = "none" /\ affine = FALSE /\ cv = {}
-----------------------------------------------------------------------------
(* free_memory()                                                           *)

(* Faulty variant: _mm_free() is forgotten.                                *)
FreedByNoMm == IF opts.numa THEN IF libnuma THEN {"numa"} ELSE {}
               ELSE {"malloc", "aligned"}

(* The function that frees, by the options of the last conf().             *)
FreedBy == IF opts.intrinsic THEN {"mm"}
           ELSE IF opts.numa THEN IF libnuma THEN {"numa"} ELSE {}
           ELSE {"malloc", "aligned"}

(* Without libnuma nothing is freed at all for numa_aware_; to free a null *)
(* pointer does no harm.                                                   *)
FreeMemory == misfreed' = (misfreed \/ (FreedBy # {} /\ memory \notin FreedBy \cup {"null"}))

(* allocate_memory(): who allocates.  The last case is "Let it fail":      *)
(* records_ keeps its old value, which has just been freed.                *)
Allocator(o) == CASE o.aligned /\ o.intrinsic -> "mm"
                  [] o.aligned /\ ~o.intrinsic -> "aligned"
                  [] ~o.aligned /\ o.numa /\ o.node -> "numa"
                  [] ~o.aligned /\ ~o.numa /\ ~o.intrinsic -> "malloc"
                  [] OTHER -> "freed"

(* Combinations whose allocation and release agree.                        *)
Sane(o) == /\ o.intrinsic => o.aligned
           /\ o.numa => ~o.aligned /\ o.node /\ libnuma

(* conf() up to the prefill.  An allocator may give a null pointer, then   *)
(* bad_alloc is thrown; ReadoutModel::conf() reports it and goes on.       *)
Conf(o) ==
  /\ phase = "initial" /\ ~(Allocator(o) = "numa" /\ ~libnuma)
  /\ FreeMemory
  /\ opts' = o /\ sane' = (sane /\ Sane(o))
  /\ readIndex_' = 0 /\ writeIndex_' = 0
  /\ \/ memory' = Allocator(o) /\ phase' \in {"spawn", "configured"}
     \/ Allocator(o) # "freed" /\ memory' = "null" /\ phase' = "failed"
  /\ UNCHANGED <<libnuma, prefill_vars, records_, producer_vars, consumer_vars>>

(* NUMA memory asked of a build without libnuma: an exception leaves       *)
(* conf() between free and the rest.                                       *)
ConfThrows(o) ==
  /\ phase = "initial" /\ Allocator(o) = "numa" /\ ~libnuma
  /\ FreeMemory /\ memory' = "freed"
  /\ sane' = FALSE /\ phase' = "failed"
  /\ UNCHANGED <<libnuma, opts, prefill_vars, queue_vars>>
-----------------------------------------------------------------------------
(* force_pagefault() and prefill_task()                                    *)

MutexFree == prefiller \notin {"fill", "flush"}

Spawn == /\ phase = "spawn" /\ phase' = "pin"
         /\ prefiller' = "wait" /\ affine' = FALSE
         /\ UNCHANGED <<libnuma, memory_vars, prefill_ready_, prefill_done_, cv, queue_vars>>

(* Name and CPU affinity of the prefiller are set.                         *)
Pin == /\ phase = "pin" /\ phase' = "trigger"
       /\ affine' = TRUE
       /\ UNCHANGED <<libnuma, memory_vars, prefill_ready_, prefill_done_, prefiller, cv, queue_vars>>

Trigger == /\ phase = "trigger" /\ phase' = "notify"
           /\ MutexFree /\ prefill_ready_' = TRUE
           /\ UNCHANGED <<libnuma, memory_vars, prefill_done_, prefiller, affine, cv, queue_vars>>

(* Faulty variant: nobody is woken.                                        *)
WakesNobody(t) == UNCHANGED cv

(* notify_one(); the only sleeper there can be is t.                       *)
Wakes(t) == cv' = cv \ {t}

NotifyPrefiller == /\ phase = "notify" /\ phase' = "await"
                   /\ Wakes("prefiller")
                   /\ UNCHANGED <<libnuma, memory_vars, prefill_ready_, prefill_done_, prefiller, affine, queue_vars>>

(* wait(): with the predicate false the thread goes to sleep.              *)
AwaitDone == /\ phase = "await" /\ MutexFree /\ "command" \notin cv
             /\ IF prefill_done_ THEN phase' = "join" /\ UNCHANGED cv
                                 ELSE cv' = cv \cup {"command"} /\ UNCHANGED phase
             /\ UNCHANGED <<libnuma, memory_vars, prefill_ready_, prefill_done_, prefiller, affine, queue_vars>>

Join == /\ phase = "join" /\ phase' = "configured"
        /\ prefiller = "gone"
        /\ UNCHANGED <<libnuma, memory_vars, prefill_vars, queue_vars>>

PrefillerWait ==
  /\ prefiller = "wait" /\ "prefiller" \notin cv
  /\ IF prefill_ready_ THEN prefiller' = "fill" /\ UNCHANGED cv
                       ELSE cv' = cv \cup {"prefiller"} /\ UNCHANGED prefiller
  /\ UNCHANGED <<libnuma, phase, memory_vars, prefill_ready_, prefill_done_, affine, queue_vars>>

(* size_ - 1 times write_(), the steps of write().                         *)
PrefillWrite == /\ prefiller = "fill"
                /\ Occupancy(writeIndex_, readIndex_) < Size - 1
                /\ (\E e \in Elements : WriteBegin(e)) \/ WriteConstruct \/ WritePublish
                /\ UNCHANGED life_vars

(* flush(): pop(occupancy()).                                              *)
PrefillFlush == /\ \/ prefiller = "fill" /\ FlushBegin /\ Occupancy(writeIndex_, readIndex_) = Size - 1
                   \/ prefiller = "flush" /\ (Destroy \/ Release)
                /\ prefiller' = "flush"
                /\ UNCHANGED <<libnuma, phase, memory_vars, prefill_ready_, prefill_done_, affine, cv>>

FlushOver == rd_pc = "idle"

(* The done flag, and the mutex released before the notification.          *)
PrefillDone == /\ prefiller = "flush" /\ FlushOver
               /\ prefiller' = "notify" /\ prefill_done_' = TRUE
               /\ UNCHANGED <<libnuma, phase, memory_vars, prefill_ready_, affine, cv, queue_vars>>

NotifyCommand == /\ prefiller = "notify" /\ prefiller' = "gone"
                 /\ Wakes("command")
                 /\ UNCHANGED <<libnuma, phase, memory_vars, prefill_ready_, prefill_done_, affine, queue_vars>>

SpuriousWakeup == /\ \E t \in cv : cv' = cv \ {t}
                  /\ UNCHANGED <<libnuma, phase, memory_vars, prefill_ready_, prefill_done_, prefiller, affine, queue_vars>>
-----------------------------------------------------------------------------
(* Producer and consumer at work; without memory they could only crash.    *)
Work == /\ phase = "configured" /\ memory # "freed"
        /\ IQNext
        /\ UNCHANGED life_vars

(* scrap(), or the destructor: with both sides at rest free_memory()       *)
(* destroys what is left, from the read index on.  It walks with a copy of *)
(* the index, which here is the index itself: nobody reads it any more.    *)
Scrap == /\ phase \in {"configured", "failed"} /\ phase' = "scrapping"
         /\ wr_pc = "idle" /\ rd_pc = "idle"
         /\ IF Occupancy(writeIndex_, readIndex_) > 0 THEN FlushBegin ELSE UNCHANGED queue_vars
         /\ UNCHANGED <<libnuma, memory_vars, prefill_vars>>

DestroyLeft == /\ phase = "scrapping"
               /\ Destroy \/ Release
               /\ UNCHANGED life_vars

PrefillFlagsReset == prefill_ready_' = FALSE /\ prefill_done_' = FALSE

ScrapDone == /\ phase = "scrapping" /\ phase' = "initial"
             /\ rd_pc = "idle"
             /\ FreeMemory
             /\ memory' = "malloc" /\ opts' = Plain
             /\ readIndex_' = 0 /\ writeIndex_' = 0
             /\ PrefillFlagsReset
             /\ UNCHANGED <<libnuma, sane, prefiller, affine, cv, records_, producer_vars, consumer_vars>>

ForcePagefault == Spawn \/ Pin \/ Trigger \/ NotifyPrefiller \/ AwaitDone \/ Join
PrefillTask == PrefillerWait \/ PrefillWrite \/ PrefillFlush \/ PrefillDone \/ NotifyCommand

LifeNext == \/ \E o \in Options : Conf(o) \/ ConfThrows(o)
            \/ ForcePagefault \/ PrefillTask \/ SpuriousWakeup \/ Work \/ Scrap \/ DestroyLeft \/ ScrapDone

LifeSpec == LifeInit /\ [][LifeNext]_ring_vars
            /\ WF_ring_vars(ForcePagefault) /\ WF_ring_vars(PrefillTask)
-----------------------------------------------------------------------------
(* Memory is freed once and by the function that belongs to its allocator, *)
(* and a configured ring has memory, unless the options were one of the    *)
(* combinations allocate_memory() and free_memory() do not agree on.       *)
MemoryIsOwned == sane => /\ ~misfreed
                         /\ phase \in {"spawn", "configured"} => memory \notin {"freed", "null"}

(* conf() returns, with an empty ring and nobody left inside: the two      *)
(* waits on one condition variable, with one notification each, never miss *)
(* each other, and the prefiller has flushed all it wrote.                 *)
PrefillCompletes == phase = "spawn" ~> (phase = "configured" /\ Contents = <<>> /\ MutexFree)
=============================================================================
