--------------------------- MODULE ProducerProofs ---------------------------
(***************************************************************************)
(* Proofs for the two parts a producing thread is made of: ReusableThread, *)
(* which runs the tasks it is given, and SourceEmulator, whose             *)
(* run_produce() is such a task.                                           *)
(*                                                                         *)
(* Tasks, for any number of them.  No lock protects the task: the proof    *)
(* shows how the two flags take turns.  The slot is the owner's while      *)
(* m_task_assigned is false, and the worker's from the moment it has seen  *)
(* both flags until it has cleared the second one.                         *)
(*                                                                         *)
(* Elements, for every file, pace, error rate and number of frames.  The   *)
(* run's number of complete ticks carries timestamps and deadline; the     *)
(* number of elements sent carries the place in the file.                  *)
(***************************************************************************)
EXTENDS ReusableThread, SourceEmulator, NaturalsInduction, WellFoundedInduction, SequenceTheorems, TLAPS

(* Between its first and its last store to the flags the owner finds the   *)
(* task unassigned; between its test and its last store the worker finds   *)
(* it assigned.                                                            *)
TurnsInv ==
  /\ owner \in {"exchange", "bind", "assign"} => ~m_task_assigned
  /\ owner \in {"bind", "assign"} => ~m_task_executed
  /\ owner \in {"idle", "exchange", "dtor"} => m_task_executed
  /\ worker \in {"run", "executed"} => m_task_assigned /\ ~m_task_executed
  /\ worker = "clear" => m_task_assigned
  /\ m_task_assigned /\ m_task_executed => worker = "clear"
  /\ worker = "clear" => m_task_executed

(* What the flags say about the task in the slot.                          *)
SlotInv ==
  /\ m_task_executed => ran = accepted
  /\ owner \in {"exchange", "bind", "assign"} => given > 0
  /\ owner \in {"bind", "assign"} => ran = accepted
  /\ owner = "assign" => m_task = given
  /\ (~m_task_executed /\ owner \notin {"bind", "assign"}) =>
       /\ m_task_assigned
       /\ m_task > 0
       /\ IF worker = "executed" THEN ran = accepted ELSE accepted = Append(ran, m_task)

RTInv == RTTypeOK /\ TurnsInv /\ SlotInv

LEMMA RTInvInit == RTInit => RTInv
<1> SUFFICES ASSUME RTInit PROVE RTInv
  OBVIOUS
<1>1. RTTypeOK
  <2>1. accepted \in Seq(1..MaxTasks) /\ ran \in Seq(1..MaxTasks)
    BY EmptySeq DEF RTInit
  <2>2. {m_task_executed, m_task_assigned, m_thread_quit, m_worker_done} \subseteq BOOLEAN
    BY Zenon DEF RTInit
  <2>3. m_task \in 0..MaxTasks /\ given \in 0..MaxTasks
    BY TaskAssumption DEF RTInit
  <2>4. worker \in WorkerPlaces /\ owner \in OwnerPlaces
    BY DEF RTInit, WorkerPlaces, OwnerPlaces
  <2> QED
    BY <2>1, <2>2, <2>3, <2>4 DEF RTTypeOK
<1>2. TurnsInv /\ SlotInv
  BY DEF RTInit, TurnsInv, SlotInv
<1> QED
  BY <1>1, <1>2 DEF RTInv

(* Each step of worker and owner keeps the invariant.                      *)
LEMMA RTInvNext == RTInv /\ [RTNext]_thread_vars => RTInv'
<1> SUFFICES ASSUME RTInv, [RTNext]_thread_vars PROVE RTInv'
  OBVIOUS
<1> USE TaskAssumption DEF RTInv, WorkerPlaces, OwnerPlaces, flags
<1>1. CASE WorkerTest
  BY <1>1 DEF WorkerTest, RTTypeOK, TurnsInv, SlotInv
<1>2. CASE WorkerRun
  BY <1>2 DEF WorkerRun, RTTypeOK, TurnsInv, SlotInv
<1>3. CASE WorkerExecuted
  BY <1>3 DEF WorkerExecuted, RTTypeOK, TurnsInv, SlotInv
<1>4. CASE WorkerClear
  BY <1>4 DEF WorkerClear, RTTypeOK, TurnsInv, SlotInv
<1>5. CASE WorkerSleep
  BY <1>5 DEF WorkerSleep, RTTypeOK, TurnsInv, SlotInv
<1>6. CASE SpuriousWakeup
  BY <1>6 DEF SpuriousWakeup, RTTypeOK, TurnsInv, SlotInv
<1>7. CASE SetWork
  BY <1>7 DEF SetWork, RTTypeOK, TurnsInv, SlotInv
<1>8. CASE SetExchange
  BY <1>8 DEF SetExchange, RTTypeOK, TurnsInv, SlotInv
<1>9. CASE SetBind
  BY <1>9 DEF SetBind, RTTypeOK, TurnsInv, SlotInv
<1>10. CASE SetAssign
  BY <1>10 DEF SetAssign, RTTypeOK, TurnsInv, SlotInv
<1>11. CASE SetNotify
  BY <1>11 DEF SetNotify, Notify, RTTypeOK, TurnsInv, SlotInv
<1>12. CASE PollReady
  BY <1>12 DEF PollReady, RTTypeOK, TurnsInv, SlotInv
<1>13. CASE Destruct
  BY <1>13 DEF Destruct, RTTypeOK, TurnsInv, SlotInv
<1>14. CASE DestructQuit
  BY <1>14 DEF DestructQuit, RTTypeOK, TurnsInv, SlotInv
<1>15. CASE DestructNotify
  BY <1>15 DEF DestructNotify, Notify, RTTypeOK, TurnsInv, SlotInv
<1>16. CASE DestructJoin
  BY <1>16 DEF DestructJoin, RTTypeOK, TurnsInv, SlotInv
<1>17. CASE Joined \/ UNCHANGED thread_vars
  <2>1. UNCHANGED <<m_task_executed, m_task_assigned, m_thread_quit, m_worker_done, m_task, worker, owner, given,
                    accepted, ran>>
    BY <1>17 DEF Joined, thread_vars
  <2>2. RTTypeOK'
    BY <2>1 DEF RTTypeOK
  <2> QED
    BY <2>1, <2>2 DEF TurnsInv, SlotInv
<1> QED
  BY <1>1, <1>2, <1>3, <1>4, <1>5, <1>6, <1>7, <1>8, <1>9, <1>10, <1>11, <1>12, <1>13,
     <1>14, <1>15, <1>16, <1>17
  DEF RTNext, Worker, SetSteps, DestructSteps

(* The flags of ReusableThread keep their types and m_task is always a     *)
(* task that was given.                                                    *)
THEOREM ThreadTypeCorrect == RTSpec => []RTTypeOK
<1>1. RTInv => RTTypeOK
  BY DEF RTInv
<1> QED
  BY RTInvInit, RTInvNext, <1>1, PTL DEF RTSpec

(* get_readiness() is true only when every task set_work() accepted has    *)
(* returned.                                                               *)
THEOREM ReadinessIsSound == RTSpec => []ReadyMeansDone
<1>1. RTInv => ReadyMeansDone
  BY DEF RTInv, SlotInv, ReadyMeansDone
<1> QED
  BY RTInvInit, RTInvNext, <1>1, PTL DEF RTSpec

(* The accepted tasks run once each and in order, and none is replaced     *)
(* under the worker, although m_task has no lock.                          *)
THEOREM TasksRunOnce == RTSpec => []RunsAcceptedOnce
<1>1. ASSUME RTInv PROVE RunsAcceptedOnce
  <2>1. ran = accepted \/ accepted = Append(ran, m_task)
    BY <1>1 DEF RTInv, SlotInv, RTTypeOK
  <2>2. ASSUME accepted = Append(ran, m_task)
        PROVE  accepted # <<>> /\ ran = SubSeq(accepted, 1, Len(accepted) - 1)
    <3>1. ran \in Seq(1..MaxTasks) /\ accepted \in Seq(1..MaxTasks)
      BY <1>1 DEF RTInv, RTTypeOK
    <3>2. Len(accepted) = Len(ran) + 1 /\ \A k \in 1..Len(ran) : accepted[k] = ran[k]
      BY <2>2, <3>1
    <3> QED
      BY <3>1, <3>2
  <2>3. owner \in {"bind", "assign"} => worker \notin {"run", "executed"}
    BY <1>1 DEF RTInv, TurnsInv
  <2> QED
    BY <2>1, <2>2, <2>3 DEF RunsAcceptedOnce
<1> QED
  BY RTInvInit, RTInvNext, <1>1, PTL DEF RTSpec

(* set_work() is refused only between the worker's two stores.             *)
THEOREM RefusalsConfined == RTSpec => RefusedOnlyWhileClearing
<1>1. RTInv /\ [RTNext]_thread_vars =>
        [(owner \in {"idle", "exchange"} /\ owner' = "poll") => worker = "clear"]_thread_vars
  BY DEF RTInv, TurnsInv, RTNext, Worker, SetSteps, DestructSteps, WorkerTest, WorkerRun, WorkerExecuted,
         WorkerClear, WorkerSleep, SpuriousWakeup, SetWork, SetExchange, SetBind, SetAssign, SetNotify,
         PollReady, Destruct, DestructQuit, DestructNotify, DestructJoin, Joined
<1> QED
  BY RTInvInit, RTInvNext, <1>1, PTL DEF RTSpec, RefusedOnlyWhileClearing
-----------------------------------------------------------------------------
(* Commands and producer: nothing is left of a run when its thread is off. *)
RestInv == /\ ctl \in {"initial", "configured"} => producer = "off"
           /\ ctl # "initial" => file_size \in FileSizes
           /\ producer \in {"off", "begin"} => dropout_index = 0 /\ slots = 0 /\ last = NoElement
           /\ producer = "begin" => m_packet_count_tot = 0 /\ m_period <= m_deadline

(* The place in the file goes with the number of elements sent.            *)
TurnInv == (producer \notin {"off", "begin"} /\ num_elem > 0) =>
             offset <= num_elem /\ offset % num_elem = m_packet_count_tot % num_elem

(* t ticks are complete: so many elements, so much on the timestamp, and   *)
(* the deadline is so far away.                                            *)
Ticks(t) == /\ slots = t * FramesPerTick + (IF producer = "frame" THEN i ELSE 0)
            /\ timestamp = (ts_0 + Step * t) % TsRange
            /\ t * m_period <= m_deadline
            /\ producer \in {"tick", "frame"} => t * m_period <= clock /\ (t + 1) * m_period <= m_deadline

TickInv == producer \notin {"off", "begin"} => \E t \in Nat : Ticks(t)

(* The earliest time for the next tick is not far behind the deadline,     *)
(* unless the thread has just overslept.                                   *)
LateInv == /\ ~late
           /\ tat <= m_deadline + m_max_overshoot + m_period \/ tat <= clock + m_period
           /\ producer = "sleep" => tat <= m_deadline + m_max_overshoot + m_period

(* At rate zero all stretches with errors have no length.                  *)
Silent(g) == /\ \A k \in 0..m_size - 1 : g.error_occurrences[k] = 0
             /\ g.set => g.current = 0

ErrorInv == ebg.rate = 0 => Silent(ebg)

SourceInv == SourceTypeOK /\ RestInv /\ TurnInv /\ TickInv /\ LateInv /\ ErrorInv /\ ElementsRight
-----------------------------------------------------------------------------
(* Numbers                                                                 *)

LEMMA SourceNumbers ==
  /\ ElemSize \in Nat /\ PopulationSize \in Nat /\ m_size \in Nat /\ NumFrames \in Nat /\ FramesPerTick \in Nat
  /\ Step \in Nat /\ TsRange \in Nat /\ m_period \in Nat /\ m_max_overshoot \in Nat
  /\ MaxDuration \in Nat
  /\ ElemSize > 0 /\ PopulationSize > 0 /\ m_size > 0 /\ NumFrames > 0 /\ FramesPerTick > 0 /\ TsRange > 0
  /\ m_period > 0
  /\ FileSizes \subseteq Nat /\ FirstTs \subseteq 0..TsRange - 1
<1>1. /\ {ElemSize, PopulationSize, m_size, NumFrames, FramesPerTick, Step, TsRange, m_period}
           \subseteq Nat \ {0}
      /\ {m_max_overshoot, MaxDuration, MaxSlots, MaxTime, MaxRuns, MaxConfs} \subseteq Nat
      /\ FileSizes \subseteq Nat /\ FirstTs \subseteq 0..TsRange - 1
  BY SourceAssumption
<1> QED
  BY <1>1

LEMMA Remainder ==
  ASSUME NEW a \in Nat, NEW d \in Nat, d > 0
  PROVE  a % d \in 0..d - 1 /\ a \div d \in Nat /\ a = d * (a \div d) + (a % d)
<1>1. \A x, y \in Nat : y > 0 => x % y \in 0..y - 1
  OBVIOUS
<1>2. \A x, y \in Nat : y > 0 => x \div y \in Nat
  OBVIOUS
<1>3. \A x, y \in Nat : y > 0 => x = y * (x \div y) + (x % y)
  OBVIOUS
<1> QED
  BY <1>1, <1>2, <1>3

(* The remainder is the only one.                                          *)
LEMMA RemainderIs ==
  ASSUME NEW q \in Nat, NEW d \in Nat, d > 0, NEW r \in 0..d - 1
  PROVE  (d * q + r) % d = r /\ (d * q + r) \div d = q
<1> DEFINE a == d * q + r
           p == a \div d
           s == a % d
<1>0. a \in Nat
  <2>1. d * q \in Nat
    OBVIOUS
  <2> QED
    BY <2>1
<1>1. s \in 0..d - 1 /\ p \in Nat /\ a = d * p + s
  BY <1>0, Remainder
<1>2. d * p + s = d * q + r
  BY <1>1
<1> HIDE DEF p, s
<1>3. \A x, y \in Nat : d * x < d * y + d => x <= y
  <2>1. SUFFICES ASSUME NEW x \in Nat, NEW y \in Nat, d * x < d * y + d PROVE x <= y
    OBVIOUS
  <2>2. d * (y + 1) = d * y + d
    OBVIOUS
  <2>3. SUFFICES ASSUME y + 1 <= x PROVE FALSE
    OBVIOUS
  <2>4. d * (y + 1) <= d * x
    BY <2>3
  <2> QED
    BY <2>1, <2>2, <2>4
<1>4. d * p < d * q + d /\ d * q < d * p + d
  <2> DEFINE u == d * p
             v == d * q
  <2>1. u \in Nat /\ v \in Nat /\ u + s = v + r
    BY <1>1, <1>2
  <2> HIDE DEF u, v
  <2>2. u < v + d /\ v < u + d
    BY <1>1, <2>1
  <2> QED
    BY <2>2 DEF u, v
<1>5. p = q
  BY <1>1, <1>3, <1>4
<1>6. s = r
  <2> DEFINE v == d * q
  <2>1. v \in Nat /\ v + s = v + r
    BY <1>2, <1>5
  <2> HIDE DEF v
  <2> QED
    BY <1>1, <2>1
<1> QED
  BY <1>5, <1>6 DEF p, s

LEMMA RemainderOfSmall ==
  ASSUME NEW d \in Nat, NEW r \in 0..d - 1
  PROVE  r % d = r
<1>1. d > 0 /\ d * 0 + r = r
  OBVIOUS
<1>2. (d * 0 + r) % d = r
  BY <1>1, RemainderIs
<1> QED
  BY <1>1, <1>2

(* Adding to a remainder, and to the number itself.                        *)
LEMMA RemainderPlus ==
  ASSUME NEW a \in Nat, NEW b \in Nat, NEW d \in Nat, d > 0
  PROVE  ((a % d) + b) % d = (a + b) % d
<1> DEFINE q == a \div d
           r == a % d
           p == (r + b) \div d
           s == (r + b) % d
<1>1. r \in 0..d - 1 /\ q \in Nat /\ a = d * q + r
  BY Remainder
<1>2. r + b \in Nat
  BY <1>1
<1>3. s \in 0..d - 1 /\ p \in Nat /\ r + b = d * p + s
  BY <1>2, Remainder
<1> HIDE DEF q, r, p, s
<1>4. a + b = d * (q + p) + s /\ q + p \in Nat
  <2> DEFINE u == d * q
             v == d * p
  <2>1. u \in Nat /\ v \in Nat /\ d * (q + p) = u + v /\ a = u + r /\ r + b = v + s
    BY <1>1, <1>3
  <2> HIDE DEF u, v
  <2> QED
    BY <1>1, <1>3, <2>1
<1>5. (d * (q + p) + s) % d = s
  BY <1>3, <1>4, RemainderIs
<1> QED
  BY <1>4, <1>5 DEF s, r
-----------------------------------------------------------------------------
(* The error bit generator                                                 *)

(* Induction, on sets of numbers.                                          *)
LEMMA LeastNumber ==
  ASSUME NEW S \in SUBSET Nat, S # {}
  PROVE  \E x \in S : \A y \in S : x <= y
<1>1. PICK x \in S : \A y \in S : ~(<<y, x>> \in OpToRel(<, Nat))
  BY NatLessThanWellFounded, WFMin
<1>2. ASSUME NEW y \in S, y < x PROVE FALSE
  <2>1. y \in Nat /\ x \in Nat
    OBVIOUS
  <2> QED
    BY <1>1, <1>2, <2>1, Zenon DEF OpToRel
<1> QED
  BY <1>2

LEMMA NextBitsType ==
  ASSUME NEW g \in Generators
  PROVE  /\ NextBits(g) \in Generators /\ NextBits(g).rate = g.rate
         /\ (g.rate = 0 /\ Silent(g)) => Silent(NextBits(g)) /\ ~NextBits(g).bits
<1> DEFINE h == IF g.count >= g.current THEN Switched(g) ELSE g
           D == 0..MaxDuration
           I == 0..m_size - 1
<1>1. /\ g.rate \in 0..2 /\ g.e \in I /\ g.n \in I
      /\ g.error_occurrences \in [I -> D] /\ g.no_error_occurrences \in [I -> D]
      /\ g.current \in D /\ g.count \in 0..MaxDuration + 1
      /\ g = [rate |-> g.rate, error_occurrences |-> g.error_occurrences,
              no_error_occurrences |-> g.no_error_occurrences, e |-> g.e, n |-> g.n, current |-> g.current,
              count |-> g.count, set |-> g.set, bits |-> g.bits]
  BY DEF Generators
<1>2. g.set \in BOOLEAN /\ g.bits \in BOOLEAN
  BY Zenon DEF Generators
<1>3. g.error_occurrences[g.e] \in D /\ g.no_error_occurrences[g.n] \in D
  BY <1>1
<1>4. (g.e + 1) % m_size \in I /\ (g.n + 1) % m_size \in I
  <2>1. g.e + 1 \in Nat /\ g.n + 1 \in Nat
    <3>1. \A x \in 0..m_size - 1 : x + 1 \in Nat
      BY SourceNumbers
    <3> QED
      BY <1>1, <3>1
  <2> QED
    BY <2>1, SourceNumbers, Remainder
<1>5. /\ h.rate = g.rate /\ h.error_occurrences = g.error_occurrences
      /\ h.no_error_occurrences = g.no_error_occurrences /\ h.e \in I /\ h.n \in I /\ h.current \in D
      /\ h.count \in 0..MaxDuration
      /\ h = [rate |-> h.rate, error_occurrences |-> h.error_occurrences,
              no_error_occurrences |-> h.no_error_occurrences, e |-> h.e, n |-> h.n, current |-> h.current,
              count |-> h.count, set |-> h.set, bits |-> h.bits]
      /\ h.set = g.set \/ h.set = TRUE \/ h.set = FALSE
      /\ h.bits = g.bits
      /\ (g.rate = 0 /\ Silent(g)) => Silent(h)
  <2>1. CASE ~(g.count >= g.current)
    <3>1. h = g
      BY <2>1
    <3>2. g.count \in 0..MaxDuration
      <4>1. \A c \in 0..MaxDuration + 1, d \in 0..MaxDuration : ~(c >= d) => c \in 0..MaxDuration
        BY SourceNumbers
      <4> QED
        BY <1>1, <2>1, <4>1
    <3> HIDE DEF h
    <3> QED
      BY <1>1, <3>1, <3>2
  <2>2. CASE g.count >= g.current /\ g.set
    <3>1. h = [g EXCEPT !.e = (g.e + 1) % m_size, !.set = FALSE, !.count = 0,
                        !.current = g.no_error_occurrences[g.n]]
      BY <2>2 DEF Switched
    <3> HIDE DEF h
    <3>2. h = [rate |-> g.rate, error_occurrences |-> g.error_occurrences,
               no_error_occurrences |-> g.no_error_occurrences, e |-> (g.e + 1) % m_size, n |-> g.n,
               current |-> g.no_error_occurrences[g.n], count |-> 0, set |-> FALSE, bits |-> g.bits]
      BY <1>1, <3>1
    <3>3. 0 \in 0..MaxDuration
      BY SourceNumbers
    <3>4. (g.rate = 0 /\ Silent(g)) => Silent(h)
      BY <1>1, <3>2 DEF Silent
    <3> QED
      BY <1>1, <1>3, <1>4, <3>2, <3>3, <3>4
  <2>3. CASE g.count >= g.current /\ ~g.set
    <3>1. h = [g EXCEPT !.n = (g.n + 1) % m_size, !.set = TRUE, !.count = 0,
                        !.current = g.error_occurrences[g.e]]
      BY <2>3 DEF Switched
    <3> HIDE DEF h
    <3>2. h = [rate |-> g.rate, error_occurrences |-> g.error_occurrences,
               no_error_occurrences |-> g.no_error_occurrences, e |-> g.e, n |-> (g.n + 1) % m_size,
               current |-> g.error_occurrences[g.e], count |-> 0, set |-> TRUE, bits |-> g.bits]
      BY <1>1, <3>1
    <3>3. 0 \in 0..MaxDuration
      BY SourceNumbers
    <3>4. (g.rate = 0 /\ Silent(g)) => Silent(h)
      BY <1>1, <3>2 DEF Silent
    <3> QED
      BY <1>1, <1>3, <1>4, <3>2, <3>3, <3>4
  <2> QED
    BY <2>1, <2>2, <2>3
<1>6. h.set \in BOOLEAN
  BY <1>2, <1>5, Zenon
<1>7. NextBits(g) = [h EXCEPT !.count = @ + 1, !.bits = Shows(h)]
  BY DEF NextBits
<1> HIDE DEF h
<1> DEFINE x == NextBits(g)
<1>8. /\ x = [rate |-> h.rate, error_occurrences |-> h.error_occurrences,
              no_error_occurrences |-> h.no_error_occurrences, e |-> h.e, n |-> h.n, current |-> h.current,
              count |-> h.count + 1, set |-> h.set, bits |-> Shows(h)]
  BY <1>5, <1>7
<1>9. Shows(h) \in BOOLEAN
  BY Zenon DEF Shows
<1>10. h.count + 1 \in 0..MaxDuration + 1
  BY <1>5, SourceNumbers
<1>11. x \in Generators
  <2> HIDE DEF x
  <2> QED
    BY <1>1, <1>5, <1>6, <1>8, <1>9, <1>10 DEF Generators
<1>12. x.rate = g.rate /\ x.error_occurrences = h.error_occurrences /\ x.set = h.set /\ x.current = h.current
       /\ x.bits = Shows(h)
  BY <1>5, <1>8
<1>13. (g.rate = 0 /\ Silent(g)) => Silent(x) /\ ~x.bits
  BY <1>5, <1>12 DEF Silent, Shows
<1> QED
  BY <1>11, <1>12, <1>13

(* The generator's states through one element: the recursive definition is *)
(* a function with the values it says.                                     *)
FrameStates(f, m) == f = [k \in 0..m |-> IF k = 0 THEN ebg ELSE NextBits(f[k - 1])]

LEMMA FramesAre == FrameStates(Frames, NumFrames)
<1> DEFINE B == {m \in Nat : ~\E f : FrameStates(f, m)}
<1>1. B = {}
  <2>1. SUFFICES ASSUME B # {} PROVE FALSE
    OBVIOUS
  <2>2. PICK m \in B : \A y \in B : m <= y
    BY <2>1, LeastNumber
  <2>3. m \in Nat /\ ~\E f : FrameStates(f, m)
    OBVIOUS
  <2>4. CASE m = 0
    <3>1. FrameStates([k \in 0..0 |-> ebg], 0)
      BY DEF FrameStates
    <3> QED
      BY <2>3, <2>4, <3>1
  <2>5. CASE m # 0
    <3>1. m - 1 \in Nat /\ m - 1 \notin B
      BY <2>2, <2>3, <2>5
    <3>2. PICK f : FrameStates(f, m - 1)
      BY <3>1
    <3> DEFINE F == [k \in 0..m |-> IF k = 0 THEN ebg ELSE NextBits(f[k - 1])]
    <3>3. ASSUME NEW k \in 0..m - 1 PROVE F[k] = f[k]
      <4>1. f = [j \in 0..m - 1 |-> IF j = 0 THEN ebg ELSE NextBits(f[j - 1])]
        BY <3>2 DEF FrameStates
      <4>2. f[k] = IF k = 0 THEN ebg ELSE NextBits(f[k - 1])
        BY <4>1
      <4>3. k \in 0..m
        BY <2>3
      <4> QED
        BY <4>2, <4>3
    <3>4. ASSUME NEW k \in 0..m, k # 0 PROVE F[k] = NextBits(F[k - 1])
      <4>1. k - 1 \in 0..m - 1
        BY <2>3, <3>4
      <4>2. F[k - 1] = f[k - 1]
        BY <3>3, <4>1
      <4>3. F[k] = NextBits(f[k - 1])
        BY <3>4
      <4> QED
        BY <4>2, <4>3
    <3>5. F[0] = ebg
      BY <2>3
    <3>6. FrameStates(F, m)
      <4>1. F = [k \in 0..m |-> F[k]]
        OBVIOUS
      <4>2. ASSUME NEW k \in 0..m PROVE F[k] = IF k = 0 THEN ebg ELSE NextBits(F[k - 1])
        BY <3>4, <3>5
      <4> HIDE DEF F
      <4> QED
        BY <4>1, <4>2 DEF FrameStates
    <3> QED
      BY <2>3, <3>6
  <2> QED
    BY <2>4, <2>5
<1>2. \E f : FrameStates(f, NumFrames)
  BY <1>1, SourceNumbers
<1> QED
  BY <1>2 DEF Frames, FrameStates

LEMMA FramesType ==
  ASSUME ebg \in Generators, NEW m \in 0..NumFrames
  PROVE  /\ Frames[m] \in Generators /\ Frames[m].rate = ebg.rate
         /\ (ebg.rate = 0 /\ Silent(ebg)) => Silent(Frames[m]) /\ (m # 0 => ~Frames[m].bits)
<1> DEFINE P(j) == /\ Frames[j] \in Generators /\ Frames[j].rate = ebg.rate
                   /\ (ebg.rate = 0 /\ Silent(ebg)) => Silent(Frames[j]) /\ (j # 0 => ~Frames[j].bits)
           B == {j \in 0..NumFrames : ~P(j)}
<1>1. /\ Frames[0] = ebg
      /\ \A k \in 0..NumFrames : k # 0 => Frames[k] = NextBits(Frames[k - 1])
  BY FramesAre, SourceNumbers DEF FrameStates
<1>2. B = {}
  <2>1. SUFFICES ASSUME B # {} PROVE FALSE
    OBVIOUS
  <2>2. B \in SUBSET Nat
    OBVIOUS
  <2>3. PICK k \in B : \A y \in B : k <= y
    <3> HIDE DEF B
    <3> QED
      BY <2>1, <2>2, LeastNumber
  <2>4. k \in 0..NumFrames /\ ~P(k)
    OBVIOUS
  <2>5. k # 0
    BY <1>1, <2>4
  <2>6. k - 1 \in 0..NumFrames /\ k - 1 \notin B
    BY <2>3, <2>4, <2>5, SourceNumbers
  <2>7. P(k - 1)
    BY <2>6
  <2>8. Frames[k] = NextBits(Frames[k - 1])
    BY <1>1, <2>4, <2>5
  <2> DEFINE g == Frames[k - 1]
  <2>9. /\ g \in Generators /\ g.rate = ebg.rate /\ ((ebg.rate = 0 /\ Silent(ebg)) => Silent(g))
    BY <2>7
  <2> HIDE DEF g
  <2>10. /\ NextBits(g) \in Generators /\ NextBits(g).rate = g.rate
         /\ (g.rate = 0 /\ Silent(g)) => Silent(NextBits(g)) /\ ~NextBits(g).bits
    BY <2>9, NextBitsType
  <2>11. Frames[k] = NextBits(g)
    BY <2>8 DEF g
  <2>12. P(k)
    BY <2>9, <2>10, <2>11
  <2> QED
    BY <2>4, <2>12
<1> QED
  BY <1>2

(* What conf() makes of the draws.                                         *)
LEMMA GeneratorType ==
  ASSUME NEW num \in 0..2, NEW errors \in [0..m_size - 1 -> 0..MaxDuration],
         NEW rest \in [0..m_size - 1 -> 0..MaxDuration]
  PROVE  /\ Generator(num, errors, rest) \in Generators
         /\ Generator(num, errors, rest).rate = 0 => Silent(Generator(num, errors, rest))
<1> DEFINE I == 0..m_size - 1
           D == 0..MaxDuration
           x == [k \in I |-> (errors[k] * num) \div 2]
           y == [k \in I |-> (rest[k] * (2 - num)) \div 2]
<1>1. \A d \in D : /\ (d * 0) \div 2 = 0 /\ (d * 1) \div 2 \in D /\ (d * 2) \div 2 = d
  BY SourceNumbers
<1>2. \A d \in D : (d * num) \div 2 \in D /\ (d * (2 - num)) \div 2 \in D
  <2>1. num = 0 \/ num = 1 \/ num = 2
    OBVIOUS
  <2>2. 2 - 0 = 2 /\ 2 - 1 = 1 /\ 2 - 2 = 0 /\ 0 \in D
    BY SourceNumbers
  <2> QED
    BY <1>1, <2>1, <2>2
<1>3. x \in [I -> D] /\ y \in [I -> D]
  BY <1>2
<1>4. num = 0 => \A k \in I : x[k] = 0
  BY <1>1
<1>5. 0 \in I /\ 0 \in D /\ 0 \in 0..MaxDuration + 1
  BY SourceNumbers
<1> HIDE DEF x, y
<1> DEFINE g == Generator(num, errors, rest)
<1>6. g = [rate |-> num, error_occurrences |-> x, no_error_occurrences |-> y, e |-> 0, n |-> 0, current |-> 0,
           count |-> 0, set |-> TRUE, bits |-> FALSE]
  BY DEF Generator, x, y
<1> HIDE DEF g
<1>7. g \in Generators
  BY <1>3, <1>5, <1>6 DEF Generators
<1>8. g.rate = 0 => Silent(g)
  BY <1>4, <1>6 DEF Silent
<1> QED
  BY <1>7, <1>8 DEF g
-----------------------------------------------------------------------------
LEMMA PopulationLength ==
  ASSUME NEW d \in Populations
  PROVE  d \in Seq(BOOLEAN) /\ Len(d) \in Nat /\ Len(d) > 0
<1>1. CASE d = <<TRUE>>
  BY <1>1
<1>2. CASE d \in [1..PopulationSize -> BOOLEAN]
  <2>1. d \in Seq(BOOLEAN)
    BY <1>2, SourceNumbers, SeqDef
  <2>2. DOMAIN d = 1..PopulationSize /\ DOMAIN d = 1..Len(d) /\ Len(d) \in Nat
    BY <1>2, <2>1, LenProperties
  <2>3. 1 \in 1..Len(d)
    BY <2>2, SourceNumbers
  <2> QED
    BY <2>1, <2>2, <2>3
<1> QED
  BY <1>1, <1>2 DEF Populations

LEMMA SourceInvInit == SourceInit => SourceInv
<1> SUFFICES ASSUME SourceInit PROVE SourceInv
  OBVIOUS
<1> USE SourceNumbers
<1>1. ebg \in Generators /\ ErrorInv
  <2>1. PICK d \in [0..m_size - 1 -> {0}] : ebg = Generator(0, d, d)
    BY DEF SourceInit
  <2>2. d \in [0..m_size - 1 -> 0..MaxDuration] /\ 0 \in 0..2
    OBVIOUS
  <2> QED
    BY <2>1, <2>2, GeneratorType DEF ErrorInv
<1>2. m_dropouts \in Populations /\ Len(m_dropouts) = 1
  BY DEF SourceInit, Populations
<1>3. CommandTypeOK
  <2>1. {m_sender_is_set, m_run_marker, late} \subseteq BOOLEAN
    BY Zenon DEF SourceInit
  <2> QED
    BY <1>1, <1>2, <2>1 DEF SourceInit, CommandTypeOK
<1>4. ProducerTypeOK
  BY <1>2 DEF SourceInit, ProducerTypeOK
<1>5. RestInv /\ TurnInv /\ TickInv /\ LateInv
  BY DEF SourceInit, RestInv, TurnInv, TickInv, LateInv
<1>6. ElementsRight
  BY DEF SourceInit, ElementsRight, SentInTurn, TimestampsEven, NoErrorsAtRateZero, CountsAddUp, NoElement
<1> QED
  BY <1>1, <1>3, <1>4, <1>5, <1>6 DEF SourceInv, SourceTypeOK
-----------------------------------------------------------------------------
(* Who changes what                                                        *)

LEMMA ChangesConf ==
  ASSUME [SourceNext]_source_vars
  PROVE  \/ Conf \/ ConfThrows \/ Scrap
         \/ file_size' = file_size /\ m_dropouts' = m_dropouts /\ (ctl' = "initial" <=> ctl = "initial")
<1>1. CASE Producer
  BY <1>1 DEF Producer, Begin, Tick, Return, Produce, TickDone, Limit, Awake, ctl_vars, conf_vars
<1>2. CASE SetSender \/ GetInfo \/ TimePasses \/ Finished \/ UNCHANGED source_vars
  BY <1>2 DEF SetSender, GetInfo, TimePasses, Finished, source_vars, ctl_vars, conf_vars
<1>3. CASE Start \/ Stop \/ Stopped
  BY <1>3 DEF Start, Stop, Stopped, conf_vars
<1> QED
  BY <1>1, <1>2, <1>3 DEF SourceNext

LEMMA ChangesRun ==
  [SourceNext]_source_vars =>
    \/ Start \/ Producer \/ TimePasses \/ GetInfo
    \/ UNCHANGED <<producer, locals, counters, pace_vars, run_history>>
  BY DEF SourceNext, SetSender, Conf, ConfThrows, Stop, Stopped, Scrap, Finished, source_vars

LEMMA ChangesGenerator ==
  [SourceNext]_source_vars => Conf \/ Produce \/ UNCHANGED ebg
  BY DEF SourceNext, SetSender, ConfThrows, Start, Stop, Stopped, Scrap, GetInfo, Producer, Begin, Tick, Return,
         TickDone, Limit, Awake, TimePasses, Finished, source_vars
-----------------------------------------------------------------------------
(* Types                                                                   *)

LEMMA CommandTypeStep == ASSUME SourceInv, [SourceNext]_source_vars PROVE CommandTypeOK'
<1>1. CommandTypeOK
  BY DEF SourceInv, SourceTypeOK
<1>2. ctl' \in {"initial", "configured", "running", "stopping"}
  <2>1. Producer => ctl' = ctl
    BY DEF Producer, Begin, Tick, Return, Produce, TickDone, Limit, Awake, ctl_vars
  <2> QED
    BY <1>1, <2>1 DEF CommandTypeOK, SourceNext, SetSender, Conf, ConfThrows, Start, Stop, Stopped, Scrap, GetInfo,
                      TimePasses, Finished, source_vars, ctl_vars
<1>3. {m_sender_is_set, m_run_marker, late}' \subseteq BOOLEAN
  <2>1. m_sender_is_set \in BOOLEAN /\ m_run_marker \in BOOLEAN /\ late \in BOOLEAN
    BY <1>1, Zenon DEF CommandTypeOK
  <2>2. Producer => UNCHANGED <<m_sender_is_set, m_run_marker>>
    BY DEF Producer, Begin, Tick, Return, Produce, TickDone, Limit, Awake, ctl_vars
  <2>3. /\ m_sender_is_set' = m_sender_is_set \/ m_sender_is_set' = TRUE
        /\ m_run_marker' = m_run_marker \/ m_run_marker' = TRUE \/ m_run_marker' = FALSE
    BY <2>2 DEF SourceNext, SetSender, Conf, ConfThrows, Start, Stop, Stopped, Scrap, GetInfo, TimePasses, Finished,
                source_vars, ctl_vars
  <2>4. late' = late \/ late' = (tat - clock > m_max_overshoot + m_period)
    <3>1. Limit \/ Awake => late' = late \/ late' = (tat - clock > m_max_overshoot + m_period)
      BY DEF Limit, Awake, Paced
    <3>2. Begin \/ Tick \/ Return \/ Produce \/ TickDone => late' = late
      BY DEF Begin, Tick, Return, Produce, TickDone, pace_vars
    <3>3. Start \/ TimePasses \/ GetInfo => late' = late
      BY DEF Start, TimePasses, GetInfo, pace_vars
    <3> QED
      BY <3>1, <3>2, <3>3, ChangesRun DEF Producer, pace_vars
  <2>5. (tat - clock > m_max_overshoot + m_period) \in BOOLEAN
    OBVIOUS
  <2> QED
    BY <2>1, <2>3, <2>4, <2>5, Zenon
<1>4. file_size' \in FileSizes \cup {None, 0} /\ m_dropouts' \in Populations
  BY <1>1, ChangesConf DEF CommandTypeOK, Conf, ConfThrows, Scrap
<1>5. ebg' \in Generators
  <2>1. CASE Conf
    <3>1. PICK num \in 0..2, errors \in Draws, rest \in Draws : ebg' = Generator(num, errors, rest)
      BY <2>1 DEF Conf
    <3>2. errors \in [0..m_size - 1 -> 0..MaxDuration] /\ rest \in [0..m_size - 1 -> 0..MaxDuration]
      BY SourceNumbers DEF Draws
    <3> QED
      BY <3>1, <3>2, GeneratorType
  <2>2. CASE Produce
    <3>1. ebg' = Frames[NumFrames] \/ ebg' = ebg
      BY <2>2 DEF Produce
    <3>2. ebg \in Generators
      BY <1>1 DEF CommandTypeOK
    <3>3. Frames[NumFrames] \in Generators
      BY <3>2, FramesType, SourceNumbers
    <3> QED
      BY <3>1, <3>2, <3>3
  <2> QED
    BY <1>1, <2>1, <2>2, ChangesGenerator DEF CommandTypeOK
<1> QED
  BY <1>2, <1>3, <1>4, <1>5 DEF CommandTypeOK

(* The producer's numbers.                                                 *)
LEMMA ProducerNumbers ==
  ASSUME SourceInv
  PROVE  /\ offset \in Nat /\ slots \in Nat /\ i \in Nat /\ i <= FramesPerTick
         /\ timestamp \in Nat /\ ts_0 \in Nat /\ ts_0 < TsRange /\ clock \in Nat /\ m_deadline \in Nat /\ tat \in Nat
         /\ m_packet_count \in Nat /\ m_packet_count_tot \in Nat
<1>1. ProducerTypeOK
  BY DEF SourceInv, SourceTypeOK
<1>2. {clock, m_deadline, tat, m_packet_count, m_packet_count_tot} \subseteq Nat
  BY <1>1 DEF ProducerTypeOK
<1>3. /\ offset \in Nat /\ slots \in Nat /\ i \in 0..FramesPerTick
      /\ timestamp \in 0..TsRange - 1 /\ ts_0 \in 0..TsRange - 1
  BY <1>1 DEF ProducerTypeOK
<1> QED
  BY <1>2, <1>3, SourceNumbers

LEMMA ProducerTypeStep == ASSUME SourceInv, [SourceNext]_source_vars PROVE ProducerTypeOK'
<1>1. ProducerTypeOK /\ RestInv
  BY DEF SourceInv, SourceTypeOK
<1>2. ASSUME Start \/ TimePasses \/ GetInfo PROVE UNCHANGED <<locals, slots, ts_0, m_dropouts>>
  BY <1>2 DEF Start, TimePasses, GetInfo, run_history, conf_vars
<1>3. ASSUME Tick \/ TickDone \/ Limit \/ Awake
      PROVE  UNCHANGED <<offset, dropout_index, slots, ts_0, m_dropouts>>
  BY <1>3 DEF Tick, TickDone, Limit, Awake, locals, run_history, conf_vars
<1>4. producer' \in {"off", "begin", "tick", "frame", "limit", "sleep"}
  BY <1>1, ChangesRun DEF ProducerTypeOK, Producer, Start, TimePasses, GetInfo, Begin, Tick, Return, Produce, TickDone,
                          Limit, Paced, Awake
<1>5. offset' \in Nat /\ slots' \in Nat /\ i' \in 0..FramesPerTick
  <2>1. CASE Begin \/ Return
    BY <2>1, SourceNumbers DEF Begin, Return
  <2>2. CASE Produce
    <3>1. i < FramesPerTick /\ i' = i + 1 /\ slots' = slots + 1 /\ offset' \in {0, offset, 1, offset + 1}
      BY <2>2 DEF Produce
    <3> QED
      BY <3>1, ProducerNumbers, SourceNumbers
  <2>3. CASE Tick \/ TickDone \/ Limit \/ Awake
    <3>1. i' = 0 \/ i' = i
      BY <2>3 DEF Tick, TickDone, Limit, Awake, locals
    <3>2. 0 \in 0..FramesPerTick /\ i \in 0..FramesPerTick
      BY <1>1, SourceNumbers DEF ProducerTypeOK
    <3>3. offset' = offset /\ slots' = slots
      BY <1>3, <2>3
    <3> QED
      BY <1>1, <3>1, <3>2, <3>3 DEF ProducerTypeOK
  <2> QED
    BY <1>1, <1>2, <2>1, <2>2, <2>3, ChangesRun DEF Producer, ProducerTypeOK, locals, run_history
<1>6. timestamp' \in 0..TsRange - 1 /\ ts_0' \in 0..TsRange - 1
  <2>0. timestamp \in 0..TsRange - 1 /\ ts_0 \in 0..TsRange - 1
    BY <1>1 DEF ProducerTypeOK
  <2>1. CASE Begin
    BY <2>0, <2>1, SourceNumbers DEF Begin
  <2>2. CASE Return
    BY <2>0, <2>2, SourceNumbers DEF Return
  <2>3. CASE Produce
    BY <2>0, <2>3 DEF Produce
  <2>4. CASE TickDone
    <3>1. timestamp' = (timestamp + Step) % TsRange
      BY <2>4 DEF TickDone, Advance
    <3>2. timestamp + Step \in Nat
      BY <2>0, SourceNumbers
    <3>3. (timestamp + Step) % TsRange \in 0..TsRange - 1
      BY <3>2, Remainder, SourceNumbers
    <3> QED
      BY <1>3, <2>0, <2>4, <3>1, <3>3
  <2>5. CASE Tick \/ Limit \/ Awake
    <3>1. timestamp' = timestamp
      BY <2>5 DEF Tick, Limit, Awake, locals
    <3> QED
      BY <1>3, <2>0, <2>5, <3>1
  <2> QED
    BY <1>2, <2>0, <2>1, <2>2, <2>3, <2>4, <2>5, ChangesRun DEF Producer, locals, run_history
<1>7. dropout_index' \in 0..Len(m_dropouts') - 1
  <2>0. m_dropouts \in Populations /\ m_dropouts' \in Populations
    BY CommandTypeStep DEF SourceInv, SourceTypeOK, CommandTypeOK
  <2>1. dropout_index \in 0..Len(m_dropouts) - 1
    BY <1>1 DEF ProducerTypeOK
  <2>2. 0 \in 0..Len(m_dropouts') - 1
    BY <2>0, PopulationLength
  <2>3. CASE Conf \/ ConfThrows \/ Scrap
    <3>1. ctl \in {"initial", "configured"} /\ dropout_index' = dropout_index
      BY <2>3 DEF Conf, ConfThrows, Scrap, locals
    <3>2. dropout_index' = 0
      BY <1>1, <3>1 DEF RestInv
    <3> QED
      BY <2>2, <3>2
  <2>4. CASE m_dropouts' = m_dropouts
    <3>1. CASE Begin \/ Return
      BY <2>2, <3>1 DEF Begin, Return
    <3>2. CASE Produce
      <4>1. dropout_index' = (dropout_index + 1) % Len(m_dropouts)
        BY <3>2 DEF Produce, NextDropout
      <4>2. Len(m_dropouts) \in Nat /\ Len(m_dropouts) > 0
        BY <2>0, PopulationLength
      <4>3. dropout_index + 1 \in Nat
        BY <2>1, <4>2
      <4> QED
        BY <2>4, <4>1, <4>2, <4>3, Remainder
    <3> QED
      BY <1>2, <1>3, <2>1, <2>4, <3>1, <3>2, ChangesRun DEF Producer, locals
  <2> QED
    BY <2>3, <2>4, ChangesConf
<1>8. {clock, m_deadline, tat, m_packet_count, m_packet_count_tot}' \subseteq Nat
  <2>0. {clock, m_deadline, tat, m_packet_count, m_packet_count_tot} \subseteq Nat
    BY <1>1 DEF ProducerTypeOK
  <2>1. CASE Begin \/ Tick \/ TickDone
    BY <2>0, <2>1 DEF Begin, Tick, TickDone, counters, pace_vars
  <2>2. CASE Return
    BY <2>0, <2>2 DEF Return, counters
  <2>3. CASE Produce
    BY <2>3, ProducerNumbers DEF Produce, pace_vars
  <2>4. CASE Limit \/ Awake
    <3>1. UNCHANGED <<clock, m_packet_count, m_packet_count_tot>>
      BY <2>4 DEF Limit, Awake, counters
    <3>2. /\ m_deadline' = m_deadline \/ m_deadline' = clock + m_period \/ m_deadline' = m_deadline + m_period
          /\ tat' = tat \/ tat' = clock + m_period \/ tat' = tat + m_period
      BY <2>4 DEF Limit, Awake, Paced
    <3>3. clock + m_period \in Nat /\ m_deadline + m_period \in Nat /\ tat + m_period \in Nat
      BY ProducerNumbers, SourceNumbers
    <3> QED
      BY <2>0, <3>1, <3>2, <3>3
  <2>5. CASE Start \/ TimePasses \/ GetInfo
    BY <2>5, ProducerNumbers, SourceNumbers DEF Start, TimePasses, GetInfo, TakeCount, counters, pace_vars
  <2> QED
    BY <2>0, <2>1, <2>2, <2>3, <2>4, <2>5, ChangesRun DEF Producer, counters, pace_vars
<1> QED
  BY <1>4, <1>5, <1>6, <1>7, <1>8 DEF ProducerTypeOK
-----------------------------------------------------------------------------
(* Runs                                                                    *)

LEMMA RestStep == ASSUME SourceInv, [SourceNext]_source_vars PROVE RestInv'
<1>1. RestInv
  BY DEF SourceInv
<1>2. ctl' # "initial" => file_size' \in FileSizes
  BY <1>1, ChangesConf DEF RestInv, Conf, ConfThrows, Scrap
<1>3. CASE Conf \/ ConfThrows \/ Scrap \/ Stop \/ Stopped \/ SetSender
  <2>1. UNCHANGED <<producer, dropout_index, slots, last, m_packet_count_tot, m_deadline>>
    BY <1>3 DEF Conf, ConfThrows, Scrap, Stop, Stopped, SetSender, locals, counters, pace_vars, run_history
  <2>2. ctl' \in {"initial", "configured"} => ctl \in {"initial", "configured"} \/ producer = "off"
    BY <1>3 DEF Conf, ConfThrows, Scrap, Stop, Stopped, SetSender
  <2> QED
    BY <1>1, <1>2, <2>1, <2>2 DEF RestInv
<1>4. CASE Start
  <2>1. /\ ctl = "configured" /\ ctl' = "running" /\ producer' = "begin"
        /\ m_packet_count_tot' = 0 /\ m_deadline' = m_period
        /\ UNCHANGED <<dropout_index, slots, last>>
    BY <1>4 DEF Start, locals, run_history
  <2> QED
    BY <1>1, <1>2, <2>1, SourceNumbers DEF RestInv
<1>5. CASE Return
  BY <1>1, <1>2, <1>5 DEF RestInv, Return, ctl_vars
<1>6. CASE Begin \/ Tick \/ Produce \/ TickDone \/ Limit \/ Awake
  <2>1. ctl' = ctl /\ producer # "off" /\ producer' \notin {"off", "begin"}
    BY <1>6 DEF Begin, Tick, Produce, TickDone, Limit, Paced, Awake, ctl_vars
  <2> QED
    BY <1>1, <1>2, <2>1 DEF RestInv
<1>7. CASE GetInfo \/ TimePasses \/ Finished \/ UNCHANGED source_vars
  <2>1. UNCHANGED <<ctl, producer, dropout_index, slots, last, m_packet_count_tot, m_deadline>>
    BY <1>7 DEF GetInfo, TimePasses, Finished, source_vars, ctl_vars, locals, counters, pace_vars, run_history
  <2> QED
    BY <1>1, <1>2, <2>1 DEF RestInv
<1> QED
  BY <1>3, <1>4, <1>5, <1>6, <1>7 DEF SourceNext, Producer

(* The commands that change the file find the producer off.                *)
LEMMA FileStays ==
  ASSUME SourceInv, [SourceNext]_source_vars
  PROVE  \/ num_elem' = num_elem
         \/ UNCHANGED <<producer, last>> /\ producer = "off" /\ last = NoElement
<1>1. CASE Conf \/ ConfThrows \/ Scrap
  <2>1. ctl \in {"initial", "configured"} /\ UNCHANGED <<producer, last>>
    BY <1>1 DEF Conf, ConfThrows, Scrap, run_history
  <2> QED
    BY <2>1 DEF SourceInv, RestInv
<1>2. CASE file_size' = file_size
  BY <1>2 DEF num_elem
<1> QED
  BY <1>1, <1>2, ChangesConf

LEMMA FileNumbers == ASSUME SourceInv, producer # "off" PROVE num_elem \in Nat
<1>1. file_size \in FileSizes
  BY DEF SourceInv, RestInv
<1>2. file_size \in Nat /\ ElemSize \in Nat /\ ElemSize > 0
  BY <1>1, SourceNumbers
<1> QED
  BY <1>2, Remainder DEF num_elem

(* The second test of the end of the file changes nothing: when the place  *)
(* is before the last whole element, there is one.                         *)
LEMMA PlaceInFile ==
  ASSUME SourceInv, producer = "frame", num_elem > 0
  PROVE  /\ num_elem \in Nat /\ offset \in Nat /\ offset <= num_elem
         /\ AtEnd <=> offset = num_elem
         /\ (IF AtEnd THEN 0 ELSE offset) = m_packet_count_tot % num_elem
<1>1. file_size \in Nat /\ ElemSize \in Nat /\ ElemSize > 0 /\ offset \in Nat
  <2>1. file_size \in FileSizes
    BY DEF SourceInv, RestInv
  <2> QED
    BY <2>1, SourceNumbers, ProducerNumbers
<1> DEFINE m == file_size \div ElemSize
<1>2. m \in Nat /\ file_size = ElemSize * m + (file_size % ElemSize) /\ file_size % ElemSize \in 0..ElemSize - 1
  BY <1>1, Remainder
<1>3. num_elem = m
  BY DEF num_elem
<1>4. offset <= m /\ offset % m = m_packet_count_tot % m
  BY <1>3 DEF SourceInv, TurnInv
<1> HIDE DEF m
<1>5. offset # m => (offset + 1) * ElemSize <= file_size
  <2>1. SUFFICES ASSUME offset # m PROVE (offset + 1) * ElemSize <= file_size
    OBVIOUS
  <2>2. offset + 1 <= m
    BY <1>1, <1>2, <1>4, <2>1
  <2>3. \A x, y, d \in Nat : x <= y => x * d <= d * y
    OBVIOUS
  <2>4. (offset + 1) * ElemSize <= ElemSize * m
    BY <1>1, <1>2, <2>2, <2>3
  <2>5. ElemSize * m \in Nat /\ (offset + 1) * ElemSize \in Nat
    BY <1>1, <1>2
  <2> DEFINE u == ElemSize * m
             v == (offset + 1) * ElemSize
             w == file_size % ElemSize
  <2>6. u \in Nat /\ v \in Nat /\ v <= u /\ file_size = u + w /\ w \in Nat
    BY <1>1, <1>2, <2>4, <2>5
  <2> HIDE DEF u, v, w
  <2>7. v <= file_size
    BY <2>6
  <2> QED
    BY <2>7 DEF v
<1>6. AtEnd <=> offset = m
  BY <1>1, <1>2, <1>3, <1>5 DEF AtEnd
<1>7. offset # m => offset % m = offset
  <2>1. SUFFICES ASSUME offset # m PROVE offset % m = offset
    OBVIOUS
  <2>2. offset \in 0..m - 1
    BY <1>1, <1>2, <1>4, <2>1
  <2> QED
    BY <1>2, <2>2, RemainderOfSmall
<1>8. m % m = 0
  <2>1. 0 \in 0..m - 1 /\ m > 0 /\ m * 1 + 0 = m
    BY <1>2, <1>3
  <2> QED
    BY <1>2, <2>1, RemainderIs
<1> QED
  BY <1>1, <1>2, <1>3, <1>4, <1>6, <1>7, <1>8

LEMMA TurnStep == ASSUME SourceInv, [SourceNext]_source_vars PROVE TurnInv'
<1>1. TurnInv /\ RestInv
  BY DEF SourceInv
<1>2. CASE ~(num_elem' = num_elem)
  BY <1>2, FileStays DEF TurnInv
<1>3. CASE num_elem' = num_elem
  <2>1. CASE Produce
    <3> DEFINE m == num_elem
               c == m_packet_count_tot
               from == IF AtEnd THEN 0 ELSE offset
    <3>1. SUFFICES ASSUME m > 0
                   PROVE  offset' <= m /\ offset' % m = m_packet_count_tot' % m
      BY <1>3 DEF TurnInv
    <3>2. producer = "frame"
      BY <2>1 DEF Produce
    <3>3. m \in Nat /\ offset \in Nat /\ from = c % m /\ c \in Nat
      BY <3>1, <3>2, PlaceInFile, ProducerNumbers
    <3>4. c % m \in 0..m - 1
      BY <3>1, <3>3, Remainder
    <3>5. \/ offset' = from + 1 /\ m_packet_count_tot' = c + 1
          \/ offset' = from /\ m_packet_count_tot' = c
      BY <2>1 DEF Produce
    <3> HIDE DEF m, c, from
    <3>6. ((c % m) + 1) % m = (c + 1) % m
      BY <3>1, <3>3, RemainderPlus
    <3>7. (c % m) % m = c % m
      <4>1. ((c % m) + 0) % m = (c + 0) % m
        BY <3>1, <3>3, RemainderPlus
      <4>2. (c % m) + 0 = c % m /\ c + 0 = c
        BY <3>3, <3>4
      <4> QED
        BY <4>1, <4>2
    <3>8. (c % m) + 1 <= m /\ c % m <= m
      BY <3>3, <3>4
    <3> QED
      BY <3>3, <3>5, <3>6, <3>7, <3>8
  <2>2. CASE Begin
    <3>1. producer = "begin" /\ offset' = 0 /\ m_packet_count_tot' = m_packet_count_tot
      BY <2>2 DEF Begin, counters
    <3>2. m_packet_count_tot = 0 /\ num_elem \in Nat
      BY <1>1, <3>1, FileNumbers DEF RestInv
    <3> QED
      BY <1>3, <3>1, <3>2 DEF TurnInv
  <2>3. CASE Return \/ Start
    BY <2>3 DEF TurnInv, Return, Start
  <2>4. CASE Tick \/ TickDone \/ Limit \/ Awake
    <3>1. UNCHANGED <<offset, m_packet_count_tot>> /\ producer \notin {"off", "begin"}
      BY <2>4 DEF Tick, TickDone, Limit, Awake, locals, counters
    <3> QED
      BY <1>1, <1>3, <3>1 DEF TurnInv
  <2>5. CASE TimePasses \/ GetInfo
    <3>1. UNCHANGED <<offset, m_packet_count_tot, producer>>
      BY <2>5 DEF TimePasses, GetInfo, locals, counters
    <3> QED
      BY <1>1, <1>3, <3>1 DEF TurnInv
  <2>6. CASE UNCHANGED <<producer, locals, counters>>
    <3>1. UNCHANGED <<offset, m_packet_count_tot, producer>>
      BY <2>6 DEF locals, counters
    <3> QED
      BY <1>1, <1>3, <3>1 DEF TurnInv
  <2> QED
    BY <2>1, <2>2, <2>3, <2>4, <2>5, <2>6, ChangesRun DEF Producer
<1> QED
  BY <1>2, <1>3
-----------------------------------------------------------------------------
(* Pace                                                                    *)

LEMMA TickStep == ASSUME SourceInv, [SourceNext]_source_vars PROVE TickInv'
<1>0. /\ m_period \in Nat /\ FramesPerTick \in Nat /\ Step \in Nat /\ TsRange \in Nat /\ TsRange > 0
      /\ ts_0 \in Nat /\ slots \in Nat /\ i \in Nat /\ clock \in Nat /\ m_deadline \in Nat
  BY ProducerNumbers, SourceNumbers
<1>1. TickInv /\ RestInv
  BY DEF SourceInv
<1>2. CASE Begin
  <2>1. /\ producer = "begin" /\ producer' = "tick" /\ slots' = 0 /\ timestamp' = ts_0' /\ ts_0' \in 0..TsRange - 1
        /\ m_deadline' = m_deadline /\ clock' = clock
    BY <1>2, SourceNumbers DEF Begin, pace_vars
  <2>2. m_period <= m_deadline
    BY <1>1, <2>1 DEF RestInv
  <2>3. ts_0' % TsRange = ts_0'
    <3>1. TsRange \in Nat /\ ts_0' \in 0..TsRange - 1
      BY <1>0, <2>1
    <3> QED
      BY <3>1, RemainderOfSmall
  <2>4. 0 * FramesPerTick + 0 = 0 /\ 0 * m_period = 0 /\ (0 + 1) * m_period = m_period
    BY <1>0
  <2>5. ts_0' + Step * 0 = ts_0'
    <3>1. \A x \in 0..TsRange - 1 : x + Step * 0 = x
      BY <1>0
    <3> QED
      BY <2>1, <3>1
  <2>6. 0 * m_period <= m_deadline' /\ 0 * m_period <= clock' /\ (0 + 1) * m_period <= m_deadline'
    BY <1>0, <2>1, <2>2, <2>4
  <2>7. slots' = 0 * FramesPerTick + 0 /\ timestamp' = (ts_0' + Step * 0) % TsRange
    BY <2>1, <2>3, <2>4, <2>5
  <2>8. Ticks(0)'
    BY <2>1, <2>6, <2>7, Zenon DEF Ticks
  <2> QED
    BY <2>8 DEF TickInv
<1>3. CASE Return \/ Start
  BY <1>3 DEF TickInv, Return, Start
<1>4. ASSUME producer \notin {"off", "begin"}, ~Begin, ~Return, ~Start PROVE TickInv'
  <2>1. PICK t \in Nat : Ticks(t)
    BY <1>1, <1>4 DEF TickInv
  <2> DEFINE s == t * FramesPerTick
             p == t * m_period
             n == (t + 1) * m_period
  <2>2. s \in Nat /\ p \in Nat /\ n \in Nat /\ n = p + m_period
    BY <1>0
  <2>3. /\ slots = s + (IF producer = "frame" THEN i ELSE 0) /\ timestamp = (ts_0 + Step * t) % TsRange
        /\ p <= m_deadline
        /\ producer \in {"tick", "frame"} => p <= clock /\ n <= m_deadline
    BY <2>1 DEF Ticks
  <2> HIDE DEF s, p, n
  <2>4. ASSUME ts_0' = ts_0, timestamp' = timestamp, slots' = s + (IF producer' = "frame" THEN i' ELSE 0),
               p <= m_deadline', producer' \in {"tick", "frame"} => p <= clock' /\ n <= m_deadline'
        PROVE  TickInv'
    <3>1. Ticks(t)'
      BY <2>3, <2>4 DEF Ticks, s, p, n
    <3> QED
      BY <3>1 DEF TickInv
  <2>5. CASE Tick
    <3>1. /\ producer = "tick" /\ producer' = "frame" /\ i' = 0
          /\ UNCHANGED <<ts_0, timestamp, slots, m_deadline, clock>>
      BY <2>5 DEF Tick, run_history, pace_vars
    <3>2. slots' = s + (IF producer' = "frame" THEN i' ELSE 0)
      BY <2>2, <2>3, <3>1
    <3>3. p <= m_deadline' /\ p <= clock' /\ n <= m_deadline'
      BY <2>3, <3>1
    <3> QED
      BY <2>4, <3>1, <3>2, <3>3
  <2>6. CASE Produce
    <3>1. /\ producer = "frame" /\ producer' = "frame" /\ i' = i + 1 /\ slots' = slots + 1
          /\ UNCHANGED <<ts_0, timestamp, m_deadline, clock>>
      BY <2>6 DEF Produce, pace_vars
    <3>2. slots' = s + (IF producer' = "frame" THEN i' ELSE 0)
      BY <1>0, <2>2, <2>3, <3>1
    <3>3. p <= m_deadline' /\ p <= clock' /\ n <= m_deadline'
      BY <2>3, <3>1
    <3> QED
      BY <2>4, <3>1, <3>2, <3>3
  <2>7. CASE TickDone
    <3>1. /\ producer = "frame" /\ i = FramesPerTick /\ producer' = "limit"
          /\ timestamp' = (timestamp + Step) % TsRange
          /\ UNCHANGED <<ts_0, slots, m_deadline, clock>>
      BY <2>7 DEF TickDone, Advance, run_history, pace_vars
    <3>2. slots = s + FramesPerTick /\ (t + 1) * FramesPerTick = s + FramesPerTick
      BY <1>0, <2>2, <2>3, <3>1 DEF s
    <3> DEFINE a == Step * t
    <3>3. a \in Nat /\ Step * (t + 1) = a + Step
      BY <1>0
    <3>4. timestamp = (ts_0 + a) % TsRange
      BY <2>3
    <3> HIDE DEF a
    <3>5. (((ts_0 + a) % TsRange) + Step) % TsRange = ((ts_0 + a) + Step) % TsRange
      <4> DEFINE b == ts_0 + a
      <4>1. b \in Nat /\ Step \in Nat /\ TsRange \in Nat /\ TsRange > 0
        BY <1>0, <3>3
      <4> HIDE DEF b
      <4>2. ((b % TsRange) + Step) % TsRange = (b + Step) % TsRange
        BY <4>1, RemainderPlus
      <4> QED
        BY <4>2 DEF b
    <3>6. timestamp' = (ts_0 + Step * (t + 1)) % TsRange
      <4>1. (ts_0 + a) + Step = ts_0 + (a + Step)
        BY <1>0, <3>3
      <4> QED
        BY <3>1, <3>3, <3>4, <3>5, <4>1
    <3>7. n <= m_deadline' /\ slots' = (t + 1) * FramesPerTick + 0
      BY <1>0, <2>2, <2>3, <3>1, <3>2
    <3>8. Ticks(t + 1)'
      BY <3>1, <3>6, <3>7 DEF Ticks, n
    <3>9. t + 1 \in Nat
      OBVIOUS
    <3> QED
      BY <3>8, <3>9 DEF TickInv
  <2>8. CASE Limit \/ Awake
    <3>1. /\ producer \notin {"frame", "tick"} /\ UNCHANGED <<ts_0, timestamp, slots, clock>>
          /\ \/ producer' = "tick" /\ clock >= m_deadline
                /\ (m_deadline' = clock + m_period \/ m_deadline' = m_deadline + m_period)
             \/ producer' = "sleep" /\ m_deadline' = m_deadline
      <4>1. Lagging => clock >= m_deadline
        BY <1>0, SourceNumbers DEF Lagging
      <4> QED
        BY <2>8, <4>1 DEF Limit, Awake, Paced, Due, locals, run_history
    <3>2. p <= m_deadline'
      BY <1>0, <2>2, <2>3, <3>1
    <3>3. producer' = "tick" => p <= clock' /\ n <= m_deadline'
      BY <1>0, <2>2, <2>3, <3>1
    <3>4. slots' = s + (IF producer' = "frame" THEN i' ELSE 0)
      BY <2>3, <3>1
    <3> QED
      BY <2>4, <3>1, <3>2, <3>3, <3>4
  <2>9. CASE TimePasses
    <3>1. UNCHANGED <<producer, i, ts_0, timestamp, slots, m_deadline>> /\ clock' = clock + 1
      BY <2>9 DEF TimePasses, locals, run_history
    <3>2. producer' \in {"tick", "frame"} => p <= clock' /\ n <= m_deadline'
      BY <1>0, <2>2, <2>3, <3>1
    <3> QED
      BY <2>3, <2>4, <3>1, <3>2
  <2>10. CASE GetInfo \/ UNCHANGED <<producer, locals, counters, pace_vars, run_history>>
    <3>1. UNCHANGED <<producer, i, ts_0, timestamp, slots, m_deadline, clock>>
      BY <2>10 DEF GetInfo, locals, run_history, pace_vars
    <3> QED
      BY <2>3, <2>4, <3>1
  <2> QED
    BY <1>4, <2>5, <2>6, <2>7, <2>8, <2>9, <2>10, ChangesRun DEF Producer
<1>5. CASE producer \in {"off", "begin"} /\ ~Begin /\ ~Start
  <2>1. producer' = producer
    BY <1>5, ChangesRun DEF Producer, Tick, Return, Produce, TickDone, Limit, Awake, TimePasses, GetInfo
  <2> QED
    BY <1>5, <2>1 DEF TickInv
<1> QED
  BY <1>2, <1>3, <1>4, <1>5

LEMMA LateStep == ASSUME SourceInv, [SourceNext]_source_vars PROVE LateInv'
<1>1. LateInv
  BY DEF SourceInv
<1>0. /\ clock \in Nat /\ m_deadline \in Nat /\ tat \in Nat /\ m_period \in Nat /\ m_max_overshoot \in Nat
  BY ProducerNumbers, SourceNumbers
<1>2. CASE Limit \/ Awake
  <2>1. producer' = "sleep" /\ producer = "limit" /\ clock < m_deadline /\ UNCHANGED <<m_deadline, tat, late, clock>>
        => LateInv'
    BY <1>0, <1>1 DEF LateInv
  <2>2. ASSUME \/ Paced(clock + m_period)
               \/ Paced(m_deadline + m_period) /\ (producer = "sleep" \/ clock <= m_deadline + m_max_overshoot),
               clock >= m_deadline, clock' = clock, producer \in {"limit", "sleep"}
        PROVE  LateInv'
    <3>1. tat <= clock + m_max_overshoot + m_period
      BY <1>0, <1>1, <2>2 DEF LateInv
    <3>2. ~late'
      <4>1. ~(tat - clock > m_max_overshoot + m_period)
        BY <1>0, <3>1
      <4>2. late' = (tat - clock > m_max_overshoot + m_period)
        BY <2>2 DEF Paced
      <4> QED
        BY <4>1, <4>2, Zenon
    <3>3. producer' = "tick" /\ tat' = (IF clock > tat THEN clock ELSE tat) + m_period
      BY <2>2 DEF Paced
    <3>4. CASE m_deadline' = clock + m_period
      BY <1>0, <2>2, <3>1, <3>2, <3>3, <3>4 DEF LateInv
    <3>5. CASE m_deadline' = m_deadline + m_period /\ (producer = "sleep" \/ clock <= m_deadline + m_max_overshoot)
      <4>1. tat' <= m_deadline' + m_max_overshoot + m_period \/ tat' <= clock' + m_period
        BY <1>0, <1>1, <2>2, <3>3, <3>5 DEF LateInv
      <4> QED
        BY <3>2, <3>3, <4>1 DEF LateInv
    <3> QED
      BY <2>2, <3>4, <3>5 DEF Paced
  <2>3. CASE Limit
    <3>1. producer = "limit" /\ clock' = clock
      BY <2>3 DEF Limit
    <3>2. CASE Lagging /\ Paced(clock + m_period)
      <4>1. clock >= m_deadline
        BY <1>0, <3>2 DEF Lagging
      <4> QED
        BY <2>2, <3>1, <3>2, <4>1
    <3>3. CASE ~Lagging /\ clock >= m_deadline /\ Paced(m_deadline + m_period)
      <4>1. clock <= m_deadline + m_max_overshoot
        BY <1>0, <3>3 DEF Lagging
      <4> QED
        BY <2>2, <3>1, <3>3, <4>1
    <3>4. CASE clock < m_deadline /\ producer' = "sleep" /\ UNCHANGED <<m_deadline, tat, late>>
      BY <2>1, <3>1, <3>4
    <3> QED
      BY <2>3, <3>2, <3>3, <3>4 DEF Limit
  <2>4. CASE Awake
    BY <2>2, <2>4 DEF Awake, Due
  <2> QED
    BY <1>2, <2>3, <2>4
<1>3. CASE Start \/ Return
  <2>1. late' = late /\ tat' = 0 /\ m_deadline' \in Nat /\ clock' = 0 /\ producer' # "sleep"
    BY <1>0, <1>3 DEF Start, Return
  <2>2. ~late'
    BY <1>1, <2>1 DEF LateInv
  <2>3. tat' <= clock' + m_period
    BY <1>0, <2>1
  <2> QED
    BY <2>1, <2>2, <2>3 DEF LateInv
<1>4. CASE TimePasses
  <2>1. UNCHANGED <<producer, m_deadline, tat, late>> /\ clock' = clock + 1
    BY <1>4 DEF TimePasses
  <2> QED
    BY <1>0, <1>1, <2>1 DEF LateInv
<1>5. CASE Begin \/ Tick \/ Produce \/ TickDone
  <2>1. UNCHANGED <<clock, m_deadline, tat, late>> /\ producer' # "sleep"
    BY <1>5 DEF Begin, Tick, Produce, TickDone, pace_vars
  <2> QED
    BY <1>1, <2>1 DEF LateInv
<1>6. CASE GetInfo \/ UNCHANGED <<producer, locals, counters, pace_vars, run_history>>
  <2>1. UNCHANGED <<producer, clock, m_deadline, tat, late>>
    BY <1>6 DEF GetInfo, pace_vars
  <2> QED
    BY <1>1, <2>1 DEF LateInv
<1> QED
  BY <1>2, <1>3, <1>4, <1>5, <1>6, ChangesRun DEF Producer
-----------------------------------------------------------------------------
(* Elements                                                                *)

LEMMA ErrorStep == ASSUME SourceInv, [SourceNext]_source_vars PROVE ErrorInv'
<1>1. ErrorInv /\ ebg \in Generators
  BY DEF SourceInv, SourceTypeOK, CommandTypeOK
<1>2. CASE Conf
  <2>1. PICK num \in 0..2, errors \in Draws, rest \in Draws : ebg' = Generator(num, errors, rest)
    BY <1>2 DEF Conf
  <2>2. errors \in [0..m_size - 1 -> 0..MaxDuration] /\ rest \in [0..m_size - 1 -> 0..MaxDuration]
    BY SourceNumbers DEF Draws
  <2> QED
    BY <2>1, <2>2, GeneratorType DEF ErrorInv
<1>3. CASE Produce
  <2>1. ebg' = Frames[NumFrames] \/ ebg' = ebg
    BY <1>3 DEF Produce
  <2>2. /\ Frames[NumFrames].rate = ebg.rate
        /\ (ebg.rate = 0 /\ Silent(ebg)) => Silent(Frames[NumFrames])
    <3>1. NumFrames \in 0..NumFrames
      BY SourceNumbers
    <3> QED
      BY <1>1, <3>1, FramesType
  <2> QED
    BY <1>1, <2>1, <2>2 DEF ErrorInv
<1> QED
  BY <1>1, <1>2, <1>3, ChangesGenerator DEF ErrorInv

(* Only run_produce() touches the last element; Begin and Return forget    *)
(* it, one round of the loop makes the next one.                           *)
LEMMA ChangesLast ==
  ASSUME SourceInv, [SourceNext]_source_vars
  PROVE  \/ Produce
         \/ last' = NoElement
         \/ UNCHANGED <<last, ts_0, m_packet_count_tot>> /\ num_elem' = num_elem /\ last # NoElement
<1>1. CASE last = NoElement /\ ~Produce
  BY <1>1, ChangesRun DEF Producer, Begin, Tick, Return, TickDone, Limit, Awake, Start, TimePasses, GetInfo,
                          run_history
<1>2. CASE last # NoElement
  <2>1. num_elem' = num_elem /\ producer \notin {"off", "begin"}
    BY <1>2, FileStays DEF SourceInv, RestInv
  <2>2. ~Start
    BY <2>1 DEF Start, SourceInv, RestInv
  <2> QED
    BY <1>2, <2>1, <2>2, ChangesRun DEF Producer, Begin, Tick, Return, TickDone, Limit, Awake, TimePasses, GetInfo,
                                        run_history, counters
<1> QED
  BY <1>1, <1>2

LEMMA ElementsStep == ASSUME SourceInv, [SourceNext]_source_vars PROVE ElementsRight'
<1>1. ElementsRight /\ ErrorInv /\ RestInv /\ TickInv /\ ebg \in Generators
  BY DEF SourceInv, SourceTypeOK, CommandTypeOK
<1>2. CountsAddUp'
  <2>1. m_packet_count = unreported /\ m_packet_count \in Nat
    BY <1>1, ProducerNumbers DEF ElementsRight, CountsAddUp
  <2>2. CASE Produce
    BY <2>1, <2>2 DEF CountsAddUp, Produce
  <2>3. CASE GetInfo
    BY <2>1, <2>3 DEF CountsAddUp, GetInfo, TakeCount
  <2>4. CASE ~Produce /\ ~GetInfo
    <3>1. UNCHANGED <<m_packet_count, unreported>>
      BY <2>4, ChangesRun DEF Producer, Begin, Tick, Return, TickDone, Limit, Awake, Start, TimePasses, counters
    <3> QED
      BY <2>1, <3>1 DEF CountsAddUp
  <2> QED
    BY <2>2, <2>3, <2>4
<1>3. CASE last' = NoElement
  <2>1. ~last'.err
    BY <1>3 DEF NoElement
  <2> QED
    BY <1>2, <1>3, <2>1 DEF ElementsRight, SentInTurn, TimestampsEven, NoErrorsAtRateZero
<1>4. CASE UNCHANGED <<last, ts_0, m_packet_count_tot>> /\ num_elem' = num_elem /\ last # NoElement /\ ~Produce
  <2>1. ~Conf
    BY <1>1, <1>4 DEF Conf, RestInv
  <2>2. ebg' = ebg
    BY <1>4, <2>1, ChangesGenerator
  <2> QED
    BY <1>1, <1>2, <1>4, <2>2 DEF ElementsRight, SentInTurn, TimestampsEven, NoErrorsAtRateZero
<1>5. CASE Produce
  <2>1. producer = "frame" /\ i < FramesPerTick /\ UNCHANGED <<file_size, ts_0>>
    BY <1>5 DEF Produce, conf_vars
  <2>2. num_elem' = num_elem
    BY <2>1 DEF num_elem
  <2>3. CASE ~CreateFrame
    <3>1. UNCHANGED <<ebg, last, m_packet_count_tot>>
      BY <1>5, <2>3 DEF Produce
    <3> QED
      BY <1>1, <1>2, <2>1, <2>2, <3>1 DEF ElementsRight, SentInTurn, TimestampsEven, NoErrorsAtRateZero
  <2>4. CASE CreateFrame
    <3> DEFINE from == IF AtEnd THEN 0 ELSE offset
               err == \E k \in 1..NumFrames : Frames[k].bits
    <3>1. /\ ebg' = Frames[NumFrames] /\ m_packet_count_tot' = m_packet_count_tot + 1
          /\ last' = [ts |-> timestamp, slot |-> slots, at |-> from, err |-> err]
      BY <1>5, <2>4 DEF Produce
    <3> HIDE DEF from, err
    <3>2. last'.ts = timestamp /\ last'.slot = slots /\ last'.at = from /\ last'.err = err
      BY <3>1
    <3>3. SentInTurn'
      <4>1. SUFFICES ASSUME num_elem > 0 PROVE from = (m_packet_count_tot' - 1) % num_elem
        BY <2>2, <3>2 DEF SentInTurn
      <4>2. from = m_packet_count_tot % num_elem
        BY <2>1, <4>1, PlaceInFile DEF from
      <4>3. m_packet_count_tot' - 1 = m_packet_count_tot
        BY <3>1, ProducerNumbers
      <4> QED
        BY <4>2, <4>3
    <3>4. TimestampsEven'
      <4>1. PICK t \in Nat : Ticks(t)
        BY <1>1, <2>1 DEF TickInv
      <4>2. slots = t * FramesPerTick + i /\ timestamp = (ts_0 + Step * t) % TsRange
        BY <2>1, <4>1 DEF Ticks
      <4>3. FramesPerTick \in Nat /\ FramesPerTick > 0 /\ i \in 0..FramesPerTick - 1
        BY <2>1, ProducerNumbers, SourceNumbers
      <4>4. (FramesPerTick * t + i) \div FramesPerTick = t
        BY <4>3, RemainderIs
      <4>5. FramesPerTick * t = t * FramesPerTick
        BY <4>3
      <4>6. slots \div FramesPerTick = t
        BY <4>2, <4>4, <4>5
      <4> QED
        BY <2>1, <3>2, <4>2, <4>6 DEF TimestampsEven
    <3>5. NoErrorsAtRateZero'
      <4>1. ebg'.rate = ebg.rate
        <5>1. NumFrames \in 0..NumFrames
          BY SourceNumbers
        <5> QED
          BY <1>1, <3>1, <5>1, FramesType
      <4>2. SUFFICES ASSUME ebg.rate = 0 PROVE ~err
        BY <3>2, <4>1 DEF NoErrorsAtRateZero
      <4>3. Silent(ebg)
        BY <1>1, <4>2 DEF ErrorInv
      <4>4. ASSUME NEW k \in 1..NumFrames PROVE ~Frames[k].bits
        <5>1. k \in 0..NumFrames /\ k # 0
          OBVIOUS
        <5> QED
          BY <1>1, <4>2, <4>3, <5>1, FramesType
      <4> QED
        BY <4>4 DEF err
    <3> QED
      BY <1>2, <3>3, <3>4, <3>5 DEF ElementsRight
  <2> QED
    BY <2>3, <2>4
<1> QED
  BY <1>3, <1>4, <1>5, ChangesLast

LEMMA SourceInvNext == SourceInv /\ [SourceNext]_source_vars => SourceInv'
<1> SUFFICES ASSUME SourceInv, [SourceNext]_source_vars PROVE SourceInv'
  OBVIOUS
<1> QED
  BY CommandTypeStep, ProducerTypeStep, RestStep, TurnStep, TickStep, LateStep, ErrorStep, ElementsStep
     DEF SourceInv, SourceTypeOK

LEMMA SourceInvariant == SourceSpec => []SourceInv
  BY SourceInvInit, SourceInvNext, PTL DEF SourceSpec

(* The producer's indices stay in their tables and its timestamps in their *)
(* range.                                                                  *)
THEOREM SourceTypeCorrect == SourceSpec => []SourceTypeOK
<1>1. SourceInv => SourceTypeOK
  BY DEF SourceInv
<1> QED
  BY <1>1, SourceInvariant, PTL

(* Whatever file, dropouts and error rate conf() is given: the elements    *)
(* are sent in turn, with the timestamps of their places, without errors   *)
(* at rate zero, and get_info() reports each of them once.                 *)
THEOREM SentElementsRight == SourceSpec => []ElementsRight
<1>1. SourceInv => ElementsRight
  BY DEF SourceInv
<1> QED
  BY <1>1, SourceInvariant, PTL

(* However long the thread is held up and however much it oversleeps, the  *)
(* rate limiter lets no run be faster than its rate and catches up with no *)
(* more than m_max_overshoot and a period.                                 *)
THEOREM PaceIsKept == SourceSpec => []RateKept
<1>1. SourceInv => RateKept
  <2>1. SUFFICES ASSUME SourceInv PROVE RateKept
    OBVIOUS
  <2>2. ~late
    BY <2>1 DEF SourceInv, LateInv
  <2>3. ASSUME producer = "tick" PROVE (slots \div FramesPerTick) * m_period <= clock
    <3>1. PICK t \in Nat : Ticks(t)
      BY <2>1, <2>3 DEF SourceInv, TickInv
    <3>2. slots = t * FramesPerTick + 0 /\ t * m_period <= clock
      BY <2>3, <3>1 DEF Ticks
    <3>3. FramesPerTick \in Nat /\ FramesPerTick > 0 /\ 0 \in 0..FramesPerTick - 1
      BY SourceNumbers
    <3>4. (FramesPerTick * t + 0) \div FramesPerTick = t
      BY <3>3, RemainderIs
    <3>5. FramesPerTick * t = t * FramesPerTick
      BY <3>3
    <3>6. slots \div FramesPerTick = t
      BY <3>2, <3>4, <3>5
    <3> QED
      BY <3>2, <3>6
  <2> QED
    BY <2>2, <2>3 DEF RateKept
<1> QED
  BY <1>1, SourceInvariant, PTL
=============================================================================
