------------------------- MODULE CleanupGateProofs -------------------------
(***************************************************************************)
(* Proofs for CleanupGate, for any finite set of readers.  The safety      *)
(* properties support each other: Exclusion needs the counter to be exact, *)
(* the counter stays a natural number because it counts the readers, and   *)
(* the cleanup thread's sleep is justified by a counted reader.  Their     *)
(* conjunction is inductive.                                               *)
(***************************************************************************)
EXTENDS CleanupGate, FiniteSetsExt, FiniteSetTheorems, WellFoundedInduction, TLAPS

GateInv == GateTypeOK /\ CountIsExact /\ Exclusion /\ NoLostWakeup

(* Every set of readers is finite, and it is empty exactly when its        *)
(* cardinality is 0: what testing m_requests_running == 0 relies on.       *)
LEMMA ReaderSets ==
  ASSUME NEW S \in SUBSET Readers
  PROVE  /\ IsFiniteSet(S)
         /\ Cardinality(S) \in Nat
         /\ Cardinality(S) = 0 <=> S = {}
<1>1. IsFiniteSet(S)
  BY GateAssumption, FS_Subset
<1> QED
  BY <1>1, FS_EmptySet, FS_CardinalityType

(* A reader that is counted anew raises the count by one (the increment of *)
(* m_requests_running in issue_request).                                   *)
LEMMA CountedEnter ==
  ASSUME GateTypeOK, NEW t \in Readers, reader[t] = "entering",
         reader' = [reader EXCEPT ![t] = "entered"]
  PROVE  /\ Counted' = Counted \cup {t}
         /\ Cardinality(Counted') = Cardinality(Counted) + 1
<1>1. Counted' = Counted \cup {t}
  BY DEF Counted, GateTypeOK
<1>2. t \notin Counted /\ Counted \in SUBSET Readers
  BY DEF Counted
<1>3. IsFiniteSet(Counted)
  BY <1>2, ReaderSets
<1> QED
  BY <1>1, <1>2, <1>3, FS_AddElement

(* A reader that leaves lowers the count by one (the decrement).           *)
LEMMA CountedLeave ==
  ASSUME GateTypeOK, NEW t \in Readers, reader[t] = "inside",
         reader' = [reader EXCEPT ![t] = "left"]
  PROVE  /\ Counted' = Counted \ {t}
         /\ Cardinality(Counted') = Cardinality(Counted) - 1
         /\ Cardinality(Counted') \in Nat
<1>1. Counted' = Counted \ {t}
  BY DEF Counted, GateTypeOK
<1>2. t \in Counted /\ Counted \in SUBSET Readers /\ Counted' \in SUBSET Readers
  BY DEF Counted
<1>3. IsFiniteSet(Counted)
  BY <1>2, ReaderSets
<1>4. Cardinality(Counted') \in Nat
  BY <1>2, ReaderSets
<1> QED
  BY <1>1, <1>2, <1>3, <1>4, FS_RemoveElement

LEMMA GateInvInit == GateInit => GateInv
<1> SUFFICES ASSUME GateInit PROVE GateInv
  OBVIOUS
<1>1. Counted = {}
  BY DEF GateInit, Counted
<1>2. GateTypeOK
  BY DEF GateInit, GateTypeOK, ReaderStates, CleanerStates
<1>3. CountIsExact
  BY <1>1, FS_EmptySet DEF GateInit, CountIsExact
<1> QED
  BY <1>1, <1>2, <1>3 DEF GateInv, GateInit, Exclusion, NoLostWakeup

(* The cleanup thread with the mutex in hand: whichever way the test of    *)
(* m_requests_running goes, the decision is right.                         *)
LEMMA AwaitReadersSound ==
  ASSUME GateInv, AwaitReaders, UNCHANGED <<m_requests_running, reader>>,
         m_cleanup_requested' \in BOOLEAN, m_cleanup_requested => m_cleanup_requested'
  PROVE  GateInv'
<1>1. Counted' = Counted /\ Notifying' = Notifying
  BY DEF Counted, Notifying
<1>2. Counted \in SUBSET Readers
  BY DEF Counted
<1>3. m_requests_running = 0 <=> Counted = {}
  BY <1>2, ReaderSets DEF GateInv, CountIsExact
<1>4. GateTypeOK'
  BY DEF GateInv, GateTypeOK, AwaitReaders, CleanerStates
<1>5. CountIsExact'
  BY <1>1 DEF GateInv, CountIsExact
<1>6. Exclusion'
  BY <1>1, <1>3 DEF AwaitReaders, Exclusion
<1>7. NoLostWakeup'
  BY <1>1, <1>3, GateAssumption DEF GateInv, NoLostWakeup, AwaitReaders
<1> QED
  BY <1>4, <1>5, <1>6, <1>7 DEF GateInv

(* Each step of the handshake keeps the invariant.                         *)
LEMMA GateInvNext == GateInv /\ [GateNext]_gate_vars => GateInv'
<1> SUFFICES ASSUME GateInv, [GateNext]_gate_vars PROVE GateInv'
  OBVIOUS
<1> USE DEF GateInv
<1>1. ASSUME NEW t \in Readers, Arrive(t) PROVE GateInv'
  <2>1. Counted' = Counted /\ Notifying' = Notifying
    BY <1>1 DEF Arrive, Counted, Notifying, GateTypeOK
  <2>2. GateTypeOK'
    BY <1>1 DEF Arrive, GateTypeOK, ReaderStates
  <2> QED
    BY <1>1, <2>1, <2>2 DEF Arrive, CountIsExact, Exclusion, NoLostWakeup
<1>2. ASSUME NEW t \in Readers, Enter(t) PROVE GateInv'
  <2>1. Counted' = Counted \cup {t} /\ Cardinality(Counted') = Cardinality(Counted) + 1
    BY <1>2, CountedEnter DEF Enter
  <2>2. GateTypeOK'
    BY <1>2 DEF Enter, GateTypeOK, ReaderStates
  <2>3. CountIsExact'
    BY <1>2, <2>1 DEF Enter, CountIsExact
  <2>4. Exclusion'
    BY <1>2 DEF Enter, Exclusion, MutexFree
  <2>5. NoLostWakeup'
    BY <1>2, <2>1 DEF Enter, NoLostWakeup
  <2> QED
    BY <2>2, <2>3, <2>4, <2>5
<1>3. ASSUME NEW t \in Readers, Block(t) PROVE GateInv'
  <2>1. Counted' = Counted /\ Notifying' = Notifying
    BY <1>3 DEF Block, Counted, Notifying
  <2>2. GateTypeOK'
    BY <1>3 DEF Block, GateTypeOK
  <2>3. NoLostWakeup'
    BY <1>3, <2>1, GateAssumption DEF Block, NoLostWakeup
  <2> QED
    BY <1>3, <2>1, <2>2, <2>3 DEF Block, CountIsExact, Exclusion
<1>4. ASSUME NEW t \in Readers, NotifyEntered(t) PROVE GateInv'
  <2>1. Counted' = Counted
    BY <1>4 DEF NotifyEntered, Counted, GateTypeOK
  <2>2. GateTypeOK'
    BY <1>4 DEF NotifyEntered, GateTypeOK, ReaderStates
  <2> QED
    BY <1>4, <2>1, <2>2 DEF NotifyEntered, CountIsExact, Exclusion, NoLostWakeup
<1>5. ASSUME NEW t \in Readers, Leave(t) PROVE GateInv'
  <2>1. /\ Cardinality(Counted') = Cardinality(Counted) - 1
        /\ Cardinality(Counted') \in Nat
    BY <1>5, CountedLeave DEF Leave
  <2>2. CountIsExact'
    BY <1>5, <2>1 DEF Leave, CountIsExact
  <2>3. GateTypeOK'
    BY <1>5, <2>1, <2>2 DEF Leave, GateTypeOK, ReaderStates, CountIsExact
  <2>4. Exclusion'
    BY <1>5 DEF Leave, Exclusion, MutexFree
  <2>5. t \in Notifying'
    BY <1>5 DEF Leave, Notifying, GateTypeOK
  <2>6. NoLostWakeup'
    BY <1>5, <2>5 DEF Leave, NoLostWakeup
  <2> QED
    BY <2>2, <2>3, <2>4, <2>6
<1>6. ASSUME NEW t \in Readers, NotifyLeft(t) PROVE GateInv'
  <2>1. Counted' = Counted
    BY <1>6 DEF NotifyLeft, Counted, GateTypeOK
  <2>2. GateTypeOK'
    BY <1>6 DEF NotifyLeft, GateTypeOK, ReaderStates
  <2> QED
    BY <1>6, <2>1, <2>2 DEF NotifyLeft, CountIsExact, Exclusion, NoLostWakeup
<1>7. CASE CleanupCheck
  BY <1>7, AwaitReadersSound DEF CleanupCheck
<1>8. CASE CleanupWake
  BY <1>8, AwaitReadersSound DEF CleanupWake, GateTypeOK
<1>9. CASE CleanupDone
  <2>1. Counted' = Counted
    BY <1>9 DEF CleanupDone, Counted
  <2>2. GateTypeOK'
    BY <1>9 DEF CleanupDone, GateTypeOK, CleanerStates
  <2> QED
    BY <1>9, <2>1, <2>2 DEF CleanupDone, CountIsExact, Exclusion, NoLostWakeup
<1>10. ASSUME NEW t \in Readers \cup {Cleaner}, SpuriousWakeup(t) PROVE GateInv'
  <2>1. Counted' = Counted /\ Notifying' = Notifying
    BY <1>10 DEF SpuriousWakeup, Counted, Notifying
  <2>2. GateTypeOK'
    BY <1>10 DEF SpuriousWakeup, GateTypeOK
  <2> QED
    BY <1>10, <2>1, <2>2 DEF SpuriousWakeup, CountIsExact, Exclusion, NoLostWakeup
<1>11. CASE UNCHANGED gate_vars
  BY <1>11 DEF gate_vars, GateTypeOK, CountIsExact, Exclusion, NoLostWakeup, Counted, Notifying
<1> QED
  BY <1>1, <1>2, <1>3, <1>4, <1>5, <1>6, <1>7, <1>8, <1>9, <1>10, <1>11
  DEF GateNext, ReaderStep, CleanerStep

(* The handshake of cleanup_check() and issue_request() keeps its state    *)
(* well formed: in particular m_requests_running never drops below zero.   *)
THEOREM GateTypeCorrect == GateSpec => []GateTypeOK
<1>1. GateInv => GateTypeOK
  BY DEF GateInv
<1> QED
  BY GateInvInit, GateInvNext, <1>1, PTL DEF GateSpec

(* No reader is inside the latency buffer while cleanup() pops from it,    *)
(* for any number of request handling threads.                             *)
THEOREM GateExcludes == GateSpec => []Exclusion
<1>1. GateInv => Exclusion
  BY DEF GateInv
<1> QED
  BY GateInvInit, GateInvNext, <1>1, PTL DEF GateSpec

(* m_requests_running is exactly the number of readers inside.             *)
THEOREM GateCounts == GateSpec => []CountIsExact
<1>1. GateInv => CountIsExact
  BY DEF GateInv
<1> QED
  BY GateInvInit, GateInvNext, <1>1, PTL DEF GateSpec

(* No thread sleeps in m_cv without someone who will wake it, although the *)
(* readers notify only after they have released m_cv_mutex.                *)
THEOREM GateWakes == GateSpec => []NoLostWakeup
<1>1. GateInv => NoLostWakeup
  BY DEF GateInv
<1> QED
  BY GateInvInit, GateInvNext, <1>1, PTL DEF GateSpec
-----------------------------------------------------------------------------
(* The two ends of a buffer, for the modules that keep one behind the gate. *)

(* The front of a buffer that is not empty is its smallest timestamp.      *)
LEMMA MinOfSet ==
  ASSUME NEW S \in SUBSET Nat, S # {}
  PROVE  Min(S) \in S /\ \A y \in S : Min(S) <= y
<1>1. \E x \in S : \A y \in S : ~(<<y, x>> \in OpToRel(<, Nat))
  BY NatLessThanWellFounded, WFMin
<1>2. \E x \in S : \A y \in S : ~(y < x)
  <2>1. PICK x \in S : \A y \in S : ~(<<y, x>> \in OpToRel(<, Nat))
    BY <1>1
  <2>2. ASSUME NEW y \in S, y < x PROVE FALSE
    <3>1. y \in Nat /\ x \in Nat
      OBVIOUS
    <3> QED
      BY <2>1, <2>2, <3>1, Zenon DEF OpToRel
  <2> QED
    BY <2>2
<1>3. \E x \in S : \A y \in S : x <= y
  BY <1>2
<1> QED
  BY <1>3 DEF Min

(* Its back is the largest one.                                            *)
LEMMA MaxOfSet ==
  ASSUME NEW n \in Nat, NEW S \in SUBSET (1..n), S # {}
  PROVE  Max(S) \in S /\ \A y \in S : y <= Max(S)
<1>1. {n - x : x \in S} \in SUBSET Nat
  OBVIOUS
<1>2. {n - x : x \in S} # {}
  OBVIOUS
<1>3. PICK m \in {n - x : x \in S} : \A y \in {n - x : x \in S} : m <= y
  BY <1>1, <1>2, MinOfSet
<1>4. PICK x \in S : m = n - x
  BY <1>3
<1>5. \A y \in S : n - x <= n - y
  BY <1>3, <1>4
<1>6. \A y \in S : x >= y
  BY <1>5
<1> QED
  BY <1>6 DEF Max
-----------------------------------------------------------------------------
(* Numbers, for the modules that count the memory of a buffer or its       *)
(* timestamps.                                                             *)

(* Quotient and remainder.                                                 *)
LEMMA Remainder ==
  ASSUME NEW a \in Nat, NEW d \in Nat, d > 0
  PROVE  a % d \in 0..d - 1 /\ a \div d \in Nat /\ a = d * (a \div d) + (a % d)
<1>1. \A x, y \in Nat : y > 0 => x % y \in 0..y - 1
  OBVIOUS
<1>2. \A x, y \in Nat : y > 0 => x \div y \in Nat
  OBVIOUS
<1>3. \A x, y \in Nat : y > 0 => x = y * (x \div y) + (x % y)
  OBVIOUS
<1> QED
  BY <1>1, <1>2, <1>3

(* The remainder is the only one.                                          *)
LEMMA RemainderIs ==
  ASSUME NEW q \in Nat, NEW d \in Nat, d > 0, NEW r \in 0..d - 1
  PROVE  (d * q + r) % d = r /\ (d * q + r) \div d = q
<1> DEFINE a == d * q + r
           p == a \div d
           s == a % d
<1>0. a \in Nat
  <2>1. d * q \in Nat
    OBVIOUS
  <2> QED
    BY <2>1
<1>1. s \in 0..d - 1 /\ p \in Nat /\ a = d * p + s
  BY <1>0, Remainder
<1>2. d * p + s = d * q + r
  BY <1>1
<1> HIDE DEF p, s
<1>3. \A x, y \in Nat : d * x < d * y + d => x <= y
  <2>1. SUFFICES ASSUME NEW x \in Nat, NEW y \in Nat, d * x < d * y + d PROVE x <= y
    OBVIOUS
  <2>2. d * (y + 1) = d * y + d
    OBVIOUS
  <2>3. SUFFICES ASSUME y + 1 <= x PROVE FALSE
    OBVIOUS
  <2>4. d * (y + 1) <= d * x
    BY <2>3
  <2> QED
    BY <2>1, <2>2, <2>4
<1>4. d * p < d * q + d /\ d * q < d * p + d
  <2> DEFINE u == d * p
             v == d * q
  <2>1. u \in Nat /\ v \in Nat /\ u + s = v + r
    BY <1>1, <1>2
  <2> HIDE DEF u, v
  <2>2. u < v + d /\ v < u + d
    BY <1>1, <2>1
  <2> QED
    BY <2>2 DEF u, v
<1>5. p = q
  BY <1>1, <1>3, <1>4
<1>6. s = r
  <2> DEFINE v == d * q
  <2>1. v \in Nat /\ v + s = v + r
    BY <1>2, <1>5
  <2> HIDE DEF v
  <2> QED
    BY <1>1, <2>1
<1> QED
  BY <1>5, <1>6 DEF p, s

(* Two numbers less than d apart with the same remainder are the same.     *)
LEMMA SameRemainder ==
  ASSUME NEW x \in Nat, NEW y \in Nat, NEW d \in Nat, d > 0, x % d = y % d, x < y + d, y < x + d
  PROVE  x = y
<1> DEFINE p == x \div d
           q == y \div d
           r == x % d
<1>1. r \in 0..d - 1 /\ p \in Nat /\ q \in Nat /\ x = d * p + r /\ y = d * q + r
  BY Remainder
<1> HIDE DEF p, q, r
<1>2. \A a, b \in Nat : a < b => d * a + d <= d * b
  <2>1. SUFFICES ASSUME NEW a \in Nat, NEW b \in Nat, a < b PROVE d * a + d <= d * b
    OBVIOUS
  <2>2. d * (a + 1) = d * a + d
    OBVIOUS
  <2>3. d * (a + 1) <= d * b
    BY <2>1
  <2> QED
    BY <2>2, <2>3
<1>3. d * p \in Nat /\ d * q \in Nat
  BY <1>1
<1>4. ~(p < q)
  BY <1>1, <1>2, <1>3
<1>5. ~(q < p)
  BY <1>1, <1>2, <1>3
<1> QED
  BY <1>1, <1>4, <1>5

(* Adding less than what is missing to the divisor.                        *)
LEMMA RemainderBelow ==
  ASSUME NEW a \in Nat, NEW b \in Nat, NEW d \in Nat, d > 0, (a % d) + b < d
  PROVE  (a + b) % d = (a % d) + b /\ (a + b) \div d = a \div d
<1> DEFINE q == a \div d
           r == a % d
<1>1. r \in 0..d - 1 /\ q \in Nat /\ a = d * q + r
  BY Remainder
<1> HIDE DEF q, r
<1>2. r + b \in 0..d - 1
  BY <1>1 DEF r
<1>3. (d * q + (r + b)) % d = r + b /\ (d * q + (r + b)) \div d = q
  BY <1>1, <1>2, RemainderIs
<1>4. a + b = d * q + (r + b)
  BY <1>1
<1> QED
  BY <1>3, <1>4 DEF q, r

(* Sums and differences of multiples are multiples.                        *)
LEMMA Multiples ==
  ASSUME NEW d \in Nat, d > 0, NEW a \in Nat, NEW b \in Nat, a % d = 0, b % d = 0
  PROVE  (a + b) % d = 0 /\ (b <= a => (a - b) % d = 0)
<1> DEFINE p == a \div d
           q == b \div d
<1>1. p \in Nat /\ q \in Nat /\ a = d * p /\ b = d * q
  BY Remainder
<1> HIDE DEF p, q
<1>2. 0 \in 0..d - 1
  OBVIOUS
<1>3. \A x \in Nat : (d * x) % d = 0
  <2>1. SUFFICES ASSUME NEW x \in Nat PROVE (d * x) % d = 0
    OBVIOUS
  <2>2. (d * x + 0) % d = 0
    BY <1>2, RemainderIs
  <2> QED
    BY <2>2
<1>4. p + q \in Nat /\ a + b = d * (p + q)
  BY <1>1
<1>5. b <= a => p - q \in Nat /\ a - b = d * (p - q)
  <2> SUFFICES ASSUME b <= a PROVE p - q \in Nat /\ a - b = d * (p - q)
    OBVIOUS
  <2>1. ~(p < q)
    <3> SUFFICES ASSUME p < q PROVE FALSE
      OBVIOUS
    <3>1. d * p < d * q
      BY <1>1
    <3> QED
      BY <1>1, <3>1
  <2>2. d * (p - q) = d * p - d * q
    BY <1>1
  <2> QED
    BY <1>1, <2>1, <2>2
<1> QED
  BY <1>3, <1>4, <1>5

(* Two units less than one lap apart: in the same lap, or in the next one. *)
LEMMA Laps ==
  ASSUME NEW u \in Nat, NEW v \in Nat, NEW d \in Nat, d > 0, u <= v, v < u + d
  PROVE  /\ v % d >= u % d => v = u + ((v % d) - (u % d))
         /\ v % d < u % d => v = u + (d - (u % d)) + (v % d)
<1> DEFINE a == u \div d
           w == u % d
           b == v \div d
           f == v % d
<1>1. /\ a \in Nat /\ w \in 0..d - 1 /\ u = d * a + w
      /\ b \in Nat /\ f \in 0..d - 1 /\ v = d * b + f
  BY Remainder
<1> HIDE DEF a, w, b, f
<1>2. \A x, y \in Nat : x < y => d * x + d <= d * y
  <2>1. SUFFICES ASSUME NEW x \in Nat, NEW y \in Nat, x < y PROVE d * x + d <= d * y
    OBVIOUS
  <2>2. d * (x + 1) = d * x + d
    OBVIOUS
  <2>3. d * (x + 1) <= d * y
    BY <2>1
  <2> QED
    BY <2>2, <2>3
<1>3. d * a \in Nat /\ d * b \in Nat /\ d * (a + 1) = d * a + d
  BY <1>1
<1>4. ~(b < a) /\ ~(a + 1 < b)
  <2>1. b < a => d * b + d <= d * a
    BY <1>1, <1>2
  <2>2. a + 1 \in Nat /\ (a + 1 < b => d * (a + 1) + d <= d * b)
    BY <1>1, <1>2
  <2> QED
    BY <1>1, <1>3, <2>1, <2>2
<1>5. b = a \/ b = a + 1
  BY <1>1, <1>4
<1>6. CASE b = a
  <2>1. v = d * a + f
    BY <1>1, <1>6
  <2> QED
    BY <1>1, <1>3, <2>1 DEF f, w
<1>7. CASE b = a + 1
  <2>1. v = (d * a + d) + f
    BY <1>1, <1>3, <1>7
  <2>2. f < w
    BY <1>1, <1>3, <2>1
  <2>3. v = u + (d - w) + f
    BY <1>1, <1>3, <2>1
  <2> QED
    BY <1>1, <2>2, <2>3 DEF f, w
<1> QED
  BY <1>5, <1>6, <1>7
============================================================================
